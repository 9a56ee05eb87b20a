--------------------------- MODULE AutomationRun ---------------------------
(***************************************************************************)
(* One automation and one run of it (internal/automation,                  *)
(* Handlers.HandleAutomationStep).  A run is a row with a position and a   *)
(* chain of automation:step tasks: each task carries out the step at the   *)
(* position, moves the position and enqueues the next task.  Nothing ties  *)
(* these three together: a task that is interrupted between them is        *)
(* retried, and may run beside the task it has already enqueued.           *)
(*                                                                         *)
(* Positions count from 1.  Requests about the automation come one at a    *)
(* time; the run's tasks and the requests interleave.                      *)
(***************************************************************************)
EXTENDS Sequences, Queue

CONSTANTS
    Plans,         \* the lists of steps clients ask for
    ChainTasks,    \* bound: identities of the run's tasks, used again and again
    MaxStepRetry,  \* MaxRetry of automation:step (5 in the code)
    MaxRunFaults,  \* bound: deaths and statements that fail
    MaxEdits       \* bound: requests that replace the steps

StepTypes == {"send_email", "wait", "add_to_segment", "condition"}

ASSUME AutomationAssumption ==
    /\ Plans \subseteq Seq(StepTypes)
    /\ \E p \in Plans : \A q \in Plans : Len(q) <= Len(p)
    /\ {MaxStepRetry, MaxRunFaults, MaxEdits} \subseteq Nat

VARIABLES
    automation,  \* its row: "unused", "off", "on" or "deleted"
    steps,       \* automation_steps in the order of position
    edit,        \* what the request that writes the steps does next
    edits,       \* requests that did
    run,         \* the row of automation_runs
    chain,       \* the tasks
    stepPc,      \* what the handler of a task does next
    stepAt,      \* the position it has read
    delayed,     \* the wait a task sits out, 0 for none
    runFaults,
    told         \* for the properties only

automationVars == <<automation, steps, edit, edits, run, chain, stepPc, stepAt, delayed,
                    runFaults, told>>
request == <<automation, steps, edit, edits>>
tasks == <<chain, stepPc, stepAt, delayed>>

StepPcs == {"idle", "read", "advance", "enqueue", "schedule", "return"}

Longest == 1 + (CHOOSE n \in {Len(p) : p \in Plans} : \A p \in Plans : Len(p) <= n)
Positions == 1 .. Longest

NoEdit == [pc |-> "none", plan |-> <<>>]
NoRun == [status |-> "none", at |-> 1]
Untold == [done |-> {}, sent |-> [p \in Positions |-> 0],
           slips |-> [p \in Positions |-> 0], waited |-> {},
           interrupted |-> FALSE, edited |-> FALSE, stuck |-> FALSE]

AutomationTyped ==
    /\ automation \in {"unused", "off", "on", "deleted"}
    /\ steps \in Seq(StepTypes)
    /\ edit.pc \in {"none", "clear", "insert"} /\ edit.plan \in Plans \cup {<<>>}
    /\ edits \in 0 .. MaxEdits
    /\ run.status \in {"none", "new", "running", "completed", "failed", "gone"}
    /\ run.at \in Positions
    /\ chain \in [ChainTasks -> Tasks(MaxStepRetry)]
    /\ stepPc \in [ChainTasks -> StepTypes \cup StepPcs]
    /\ \A k \in ChainTasks : stepPc[k] # "idle" <=> chain[k].state = "running"
    /\ \A k \in ChainTasks : delayed[k] # 0 => chain[k].state = "queued"
    /\ stepAt \in [ChainTasks -> Positions]
    /\ delayed \in [ChainTasks -> {0} \cup Positions]
    /\ runFaults \in 0 .. MaxRunFaults
    /\ told.done \subseteq Positions /\ told.waited \subseteq Positions

AutomationInit ==
    /\ automation = "unused"
    /\ steps = <<>>
    /\ edit = NoEdit
    /\ edits = 0
    /\ run = NoRun
    /\ chain = [k \in ChainTasks |-> NoTask]
    /\ stepPc = [k \in ChainTasks |-> "idle"]
    /\ stepAt = [k \in ChainTasks |-> 1]
    /\ delayed = [k \in ChainTasks |-> 0]
    /\ runFaults = 0
    /\ told = Untold

-----------------------------------------------------------------------------
(* The requests.                                                           *)

CreateAutomation(plan) ==
    /\ automation = "unused"
    /\ automation' = "off"
    /\ edit' = [pc |-> "insert", plan |-> plan]
    /\ UNCHANGED <<steps, edits>>

createAutomation ==
    /\ \E plan \in Plans : CreateAutomation(plan)
    /\ UNCHANGED <<run, tasks, runFaults, told>>

\* The row first; new steps, when the request has any, replace the old ones
\* in a statement each and in no transaction.
UpdateAutomation(enabled, replaces, plan) ==
    /\ automation \in {"off", "on"}
    /\ automation' = IF enabled THEN "on" ELSE "off"
    /\ IF replaces
       THEN /\ edits < MaxEdits
            /\ edits' = edits + 1
            /\ edit' = [pc |-> "clear", plan |-> plan]
       ELSE UNCHANGED <<edits, edit>>
    /\ UNCHANGED steps

enableAutomation ==
    /\ edit.pc = "none"
    /\ \E enabled, replaces \in BOOLEAN, plan \in Plans :
         UpdateAutomation(enabled, replaces, plan)
    /\ UNCHANGED <<run, tasks, runFaults, told>>

Edited == told' = [told EXCEPT !.edited = @ \/ run.status # "none"]

ClearSteps ==
    /\ edit.pc = "clear"
    /\ steps' = <<>>
    /\ edit' = [edit EXCEPT !.pc = "insert"]
    /\ Edited
    /\ UNCHANGED <<automation, edits, run, tasks, runFaults>>

InsertStep ==
    /\ edit.pc = "insert"
    /\ IF Len(steps) < Len(edit.plan)
       THEN steps' = Append(steps, edit.plan[Len(steps) + 1]) /\ UNCHANGED edit
       ELSE edit' = NoEdit /\ UNCHANGED steps
    /\ Edited
    /\ UNCHANGED <<automation, edits, run, tasks, runFaults>>

EditFails ==
    /\ edit.pc # "none" /\ runFaults < MaxRunFaults
    /\ edit' = NoEdit
    /\ runFaults' = runFaults + 1
    /\ UNCHANGED <<automation, steps, edits, run, tasks, told>>

\* ON DELETE CASCADE takes the steps and the run along; the tasks stay.
DeleteAutomation ==
    /\ automation \in {"off", "on"}
    /\ automation' = "deleted"
    /\ steps' = <<>>
    /\ run' = IF run.status = "none" THEN run ELSE [run EXCEPT !.status = "gone"]
    /\ UNCHANGED <<edit, edits>>

deleteAutomation ==
    /\ edit.pc = "none"
    /\ DeleteAutomation
    /\ UNCHANGED <<tasks, runFaults, told>>

-----------------------------------------------------------------------------
(* Trigger: the row of the run, and its first task.                        *)

Trigger ==
    /\ automation = "on" /\ run.status = "none"
    /\ run' = [run EXCEPT !.status = "new"]
    /\ UNCHANGED <<request, tasks, runFaults, told>>

\* The next task takes an identity that no task has.
AddTask(wait) ==
    LET unused == {k \in ChainTasks : chain[k].state = "none"}
        next == CHOOSE k \in unused : TRUE
    IN  /\ unused # {}
        /\ chain' = [chain EXCEPT ![next] = Enqueued]
        /\ delayed' = [delayed EXCEPT ![next] = wait]

\* "new" is the status running of a run without a task: it is stuck when
\* the enqueue fails or the process dies.
EnqueueFirst ==
    /\ run.status = "new"
    /\ run' = [run EXCEPT !.status = "running"]
    /\ \/ AddTask(0) /\ UNCHANGED <<runFaults, told>>
       \/ /\ runFaults < MaxRunFaults
          /\ runFaults' = runFaults + 1
          /\ told' = [told EXCEPT !.stuck = TRUE]
          /\ UNCHANGED <<chain, delayed>>
    /\ UNCHANGED <<request, stepPc, stepAt>>

-----------------------------------------------------------------------------
(* HandleAutomationStep.                                                   *)

StepReturns(k, task) ==
    /\ chain' = [chain EXCEPT ![k] = task]
    /\ stepPc' = [stepPc EXCEPT ![k] = "idle"]
    /\ stepAt' = [stepAt EXCEPT ![k] = 1]
    /\ UNCHANGED delayed

\* Asynq keeps no task that is done.
Succeeds(k) == StepReturns(k, NoTask)
Errs(k) == StepReturns(k, Failed(chain[k], MaxStepRetry))
GoTo(k, pc) ==
    /\ stepPc' = [stepPc EXCEPT ![k] = pc]
    /\ UNCHANGED <<chain, stepAt, delayed>>

WaitElapses(k) ==
    /\ delayed[k] # 0
    /\ told' = [told EXCEPT !.waited = @ \cup {delayed[k]}]
    /\ delayed' = [delayed EXCEPT ![k] = 0]
    /\ UNCHANGED <<request, run, chain, stepPc, stepAt, runFaults>>

\* A run that is not running ends the task, a run that is gone is an error.
ReadRun(k) ==
    /\ chain[k].state = "queued" /\ delayed[k] = 0
    /\ \/ run.status = "gone" /\ Errs(k)
       \/ run.status \in {"completed", "failed"} /\ Succeeds(k)
       \/ /\ run.status \in {"new", "running"}
          /\ chain' = [chain EXCEPT ![k] = Started(@)]
          /\ stepPc' = [stepPc EXCEPT ![k] = "read"]
          /\ stepAt' = [stepAt EXCEPT ![k] = run.at]
          /\ UNCHANGED delayed
    /\ UNCHANGED <<request, run, runFaults, told>>

\* Every UPDATE of a row that the cascade took changes nothing.
SetRun(field) == IF run.status = "gone" THEN run ELSE field

\* No step at the position completes the run.
ReadStep(k) ==
    /\ stepPc[k] = "read"
    /\ IF stepAt[k] \in DOMAIN steps
       THEN GoTo(k, steps[stepAt[k]]) /\ UNCHANGED run
       ELSE /\ run' = SetRun([run EXCEPT !.status = "completed"])
            /\ Succeeds(k)
    /\ UNCHANGED <<request, runFaults, told>>

\* So does any error of the SELECT, and an error of the UPDATE leaves the
\* run running with no task.
ReadStepFails(k) ==
    /\ stepPc[k] = "read" /\ runFaults < MaxRunFaults
    /\ runFaults' = runFaults + 1
    /\ \/ run' = SetRun([run EXCEPT !.status = "completed"]) /\ UNCHANGED told
       \/ /\ stepAt[k] \notin DOMAIN steps
          /\ told' = [told EXCEPT !.stuck = TRUE]
          /\ UNCHANGED run
    /\ Succeeds(k)
    /\ UNCHANGED request

Done(k) == [told EXCEPT !.done = @ \cup {stepAt[k]}]

\* Emails.Send is given no idempotency key: each call is an email of its
\* own.  It may fail before the email is queued, or after that: Redis stored
\* the task and the answer was lost, or the row cannot be read back (a slip).
\* Missing fields fail the run, and the error is retried in vain.
SendEmail(k) ==
    /\ stepPc[k] = "send_email"
    /\ \/ /\ told' = [Done(k) EXCEPT !.sent[stepAt[k]] = @ + 1]
          /\ GoTo(k, "advance") /\ UNCHANGED run
       \/ Errs(k) /\ UNCHANGED <<run, told>>
       \/ /\ told' = [told EXCEPT !.sent[stepAt[k]] = @ + 1, !.slips[stepAt[k]] = @ + 1]
          /\ Errs(k) /\ UNCHANGED run
       \/ /\ run' = SetRun([run EXCEPT !.status = "failed"])
          /\ Errs(k) /\ UNCHANGED told
    /\ UNCHANGED <<request, runFaults>>

\* add_to_segment, skipped or not, and any type the handler does not know; an
\* error of the INSERT is dropped.
AddToSegmentStep(k) ==
    /\ stepPc[k] = "add_to_segment"
    /\ told' = Done(k)
    /\ GoTo(k, "advance")
    /\ UNCHANGED <<request, run, runFaults>>

ConditionStep(k) ==
    /\ stepPc[k] = "condition"
    /\ told' = Done(k)
    /\ \/ GoTo(k, "advance") /\ UNCHANGED run
       \/ Succeeds(k) /\ run' = SetRun([run EXCEPT !.status = "completed"])
    /\ UNCHANGED <<request, runFaults>>

\* The condition does not hold, and the error of the UPDATE that completes the
\* run is dropped.
CompleteFails(k) ==
    /\ stepPc[k] = "condition" /\ runFaults < MaxRunFaults
    /\ runFaults' = runFaults + 1
    /\ told' = [Done(k) EXCEPT !.stuck = TRUE]
    /\ Succeeds(k)
    /\ UNCHANGED <<request, run>>

MoveTo(position) == run' = SetRun([run EXCEPT !.at = position])

WaitStep(k) ==
    /\ stepPc[k] = "wait"
    /\ MoveTo(stepAt[k] + 1)
    /\ told' = Done(k)
    /\ stepPc' = [stepPc EXCEPT ![k] = "schedule"]
    /\ UNCHANGED <<request, chain, stepAt, delayed, runFaults>>

\* Fault: the position moves on by two.
SkipOne(k) ==
    /\ stepPc[k] = "advance"
    /\ MoveTo(IF stepAt[k] + 2 \in Positions THEN stepAt[k] + 2 ELSE stepAt[k] + 1)
    /\ GoTo(k, "enqueue")
    /\ UNCHANGED <<request, runFaults, told>>

Advance(k) ==
    /\ stepPc[k] = "advance"
    /\ MoveTo(stepAt[k] + 1)
    /\ GoTo(k, "enqueue")
    /\ UNCHANGED <<request, runFaults, told>>

\* Fault: the next task is not enqueued.
DropNext(k) ==
    /\ stepPc[k] \in {"enqueue", "schedule"}
    /\ GoTo(k, "return")
    /\ UNCHANGED <<request, run, runFaults, told>>

EnqueueNext(k) ==
    /\ stepPc[k] \in {"enqueue", "schedule"}
    /\ AddTask(IF stepPc[k] = "schedule" THEN stepAt[k] ELSE 0)
    /\ stepPc' = [stepPc EXCEPT ![k] = "return"]
    /\ UNCHANGED <<request, run, stepAt, runFaults, told>>

StepEnds(k) ==
    /\ stepPc[k] = "return"
    /\ Succeeds(k)
    /\ UNCHANGED <<request, run, runFaults, told>>

\* The process dies; after the lease the recoverer retries or archives.
StepDies(k) ==
    /\ stepPc[k] # "idle" /\ runFaults < MaxRunFaults
    /\ runFaults' = runFaults + 1
    /\ told' = [told EXCEPT !.interrupted =
                  @ \/ stepPc[k] \in {"advance", "enqueue", "schedule", "return"}]
    /\ Errs(k)
    /\ UNCHANGED <<request, run>>

\* The error of the UPDATE that moves the position is dropped.
MoveFails(k) ==
    /\ stepPc[k] \in {"advance", "wait"} /\ runFaults < MaxRunFaults
    /\ runFaults' = runFaults + 1
    /\ told' = [told EXCEPT !.interrupted = TRUE]
    /\ GoTo(k, IF stepPc[k] = "wait" THEN "schedule" ELSE "enqueue")
    /\ UNCHANGED <<request, run>>

HandleAutomationStep(k) ==
    \/ ReadRun(k) \/ ReadStep(k)
    \/ SendEmail(k) \/ AddToSegmentStep(k) \/ ConditionStep(k) \/ WaitStep(k)
    \/ Advance(k) \/ EnqueueNext(k) \/ StepEnds(k)

AutomationNext ==
    \/ createAutomation \/ enableAutomation \/ deleteAutomation
    \/ ClearSteps \/ InsertStep \/ EditFails
    \/ Trigger \/ EnqueueFirst
    \/ \E k \in ChainTasks :
         \/ WaitElapses(k) \/ HandleAutomationStep(k)
         \/ ReadStepFails(k) \/ CompleteFails(k) \/ StepDies(k) \/ MoveFails(k)

\* Time passes and the workers run; a request owes nothing.
AutomationFairness ==
    /\ WF_automationVars(EnqueueFirst)
    /\ \A k \in ChainTasks :
         WF_automationVars(WaitElapses(k) \/ HandleAutomationStep(k))

AutomationSpec ==
    AutomationInit /\ [][AutomationNext]_automationVars /\ AutomationFairness

-----------------------------------------------------------------------------
(* The properties.                                                         *)

\* A run never passes a step that no task has worked through.  As long as no task
\* was interrupted between its step and its return and no move of the
\* position failed, every email a step sends beyond its first was queued by a
\* call of Emails.Send that returned an error, and the step after a wait
\* is not begun before the wait has elapsed
\* (internal/jobs/handlers/automation.go:72-86, :115-124, :182-191).
EveryStepOnce ==
    /\ \A p \in Positions : p < run.at => p \in told.done
    /\ ~told.interrupted =>
         /\ \A p \in Positions : told.sent[p] <= 1 + told.slips[p]
         /\ ~told.edited =>
              \A p \in DOMAIN steps :
                steps[p] = "wait" /\ p + 1 \in told.done => p \in told.waited

\* A run that has its first task comes to an end, or has a task that used
\* up its retries; two dropped errors are the exception: that of the
\* enqueue in Trigger and that of the UPDATE which completes the run.
RunsEnd ==
    run.status \in {"new", "running"} ~>
      \/ run.status \in {"completed", "failed", "gone"}
      \/ \E k \in ChainTasks : chain[k].state = "archived"
      \/ told.stuck

=============================================================================

-------------------------- MODULE Outbound_proofs --------------------------
(***************************************************************************)
(* Theorems about Outbound: the runs of automations, the deliveries of     *)
(* webhooks and their composition, for every set of hooks, every set of    *)
(* plans with a longest one, and every value of the bounds.                *)
(***************************************************************************)
EXTENDS Outbound, TLAPS

USE AutomationAssumption DEF AutomationAssumption

-----------------------------------------------------------------------------
(***************************************************************************)
(* THE RUN OF AN AUTOMATION: the inductive invariant.                      *)
(***************************************************************************)

Tolds == [done : SUBSET Positions, sent : [Positions -> Nat], slips : [Positions -> Nat],
          waited : SUBSET Positions,
          interrupted : BOOLEAN, edited : BOOLEAN, stuck : BOOLEAN]

\* The emails of a step that no failed call queued.
Kept(t) == [p \in Positions |-> t.sent[p] - t.slips[p]]

RunStatuses == {"none", "new", "running", "completed", "failed", "gone"}

AutomationTypes ==
    /\ automation \in {"unused", "off", "on", "deleted"}
    /\ steps \in Seq(StepTypes) /\ Len(steps) < Longest
    /\ edit \in [pc : {"none", "clear", "insert"}, plan : Plans \cup {<<>>}]
    /\ edits \in 0 .. MaxEdits
    /\ run \in [status : RunStatuses, at : Positions]
    /\ chain \in [ChainTasks -> Tasks(MaxStepRetry)]
    /\ stepPc \in [ChainTasks -> StepTypes \cup StepPcs]
    /\ stepAt \in [ChainTasks -> Positions]
    /\ delayed \in [ChainTasks -> {0} \cup Positions]
    /\ runFaults \in 0 .. MaxRunFaults
    /\ told \in Tolds

\* A task between the read of the run and the step.
Begun(k) == stepPc[k] \in {"read"} \cup StepTypes

\* A task that has still to move the run, or to enqueue the next one.
Busy(k) == chain[k].state \in {"queued", "running"} /\ stepPc[k] # "return"

Live == run.status \in {"new", "running"}

\* What a task holds in memory: the steps before its position are done, and
\* its own when it moves on.
TaskInv(k) ==
    /\ stepPc[k] # "idle" <=> chain[k].state = "running"
    /\ delayed[k] # 0 => chain[k].state = "queued"
    /\ stepPc[k] \notin {"idle", "read"} => stepAt[k] < Longest
    /\ stepPc[k] # "idle" => \A p \in Positions : p < stepAt[k] => p \in told.done
    /\ stepPc[k] = "advance" => stepAt[k] \in told.done

RunInv ==
    /\ \A p \in Positions : p < run.at => p \in told.done
    /\ run.status \in {"none", "new"} =>
         /\ told.done = {} /\ \A p \in Positions : Kept(told)[p] = 0
         /\ \A k \in ChainTasks : chain[k].state = "none"

\* Without an interruption there is one task at work, and it works on the
\* position of the run.
OneTask == \A k, l \in ChainTasks : Busy(k) /\ Busy(l) => k = l

OnTime(k) ==
    /\ Begun(k) \/ stepPc[k] = "advance" => stepAt[k] = run.at
    /\ stepPc[k] \in {"enqueue", "schedule"} => run.at = stepAt[k] + 1 \/ run.status = "gone"
    /\ Begun(k) \/ (Live /\ Busy(k) /\ stepPc[k] # "advance") => Kept(told)[run.at] = 0

SentOnce ==
    \A p \in Positions :
        /\ Kept(told)[p] <= 1
        /\ p > run.at => Kept(told)[p] = 0 /\ p \notin told.done

\* The wait of a position is ahead of the task that follows it.
Pending(p) ==
    /\ p + 1 = run.at /\ p + 1 \notin told.done
    /\ \E k \in ChainTasks :
         \/ stepPc[k] = "schedule" /\ stepAt[k] = p
         \/ delayed[k] = p

\* Without a change of the steps a task carries out what the list says.
AsListed(k) ==
    stepAt[k] \in DOMAIN steps =>
        /\ stepPc[k] \in StepTypes => steps[stepAt[k]] = stepPc[k]
        /\ stepPc[k] = "advance" => steps[stepAt[k]] # "wait"

Waits ==
    \A p \in DOMAIN steps :
        steps[p] = "wait" /\ p < run.at => p \in told.waited \/ Pending(p)

AutomationInv ==
    /\ AutomationTypes
    /\ RunInv
    /\ \A k \in ChainTasks : TaskInv(k)
    /\ ~told.interrupted => OneTask /\ SentOnce /\ \A k \in ChainTasks : OnTime(k)
    /\ ~told.interrupted /\ ~told.edited =>
         Waits /\ \A k \in ChainTasks : AsListed(k)

-----------------------------------------------------------------------------
(***************************************************************************)
(* What the steps are built from.                                          *)
(***************************************************************************)

LEMMA PlansAreShort ==
  /\ Longest \in Nat /\ 0 < Longest
  /\ \A p \in Plans : p \in Seq(StepTypes) /\ Len(p) < Longest
  /\ <<>> \in Seq(StepTypes) /\ Len(<<>>) < Longest
<1> DEFINE Lengths == {Len(p) : p \in Plans}
           most == CHOOSE n \in Lengths : \A p \in Plans : Len(p) <= n
<1>1. \E n \in Lengths : \A p \in Plans : Len(p) <= n
  OBVIOUS
<1>2. most \in Lengths /\ \A p \in Plans : Len(p) <= most
  BY <1>1
<1>3. \A p \in Plans : Len(p) \in Nat
  OBVIOUS
<1>4. most \in Nat
  BY <1>2, <1>3
<1>5. Longest = 1 + most
  BY Zenon DEF Longest
<1> HIDE DEF most, Lengths
<1> QED
  BY <1>2, <1>4, <1>5

LEMMA TasksOfTheQueue ==
  ASSUME NEW max \in Nat, NEW t \in Tasks(max)
  PROVE  /\ NoTask \in Tasks(max) /\ NoTask.state = "none"
         /\ Enqueued \in Tasks(max) /\ Enqueued.state = "queued"
         /\ Started(t) \in Tasks(max) /\ Started(t).state = "running"
         /\ Finished(t) \in Tasks(max) /\ Finished(t).state = "done"
         /\ Failed(t, max) \in Tasks(max)
         /\ Failed(t, max).state \in {"queued", "archived"}
BY DEF Tasks, NoTask, Enqueued, Started, Finished, Failed

LEMMA NextTask ==
  ASSUME NEW wait, AddTask(wait)
  PROVE  \E next \in ChainTasks :
           /\ chain[next].state = "none"
           /\ chain' = [chain EXCEPT ![next] = Enqueued]
           /\ delayed' = [delayed EXCEPT ![next] = wait]
<1> DEFINE unused == {k \in ChainTasks : chain[k].state = "none"}
           next == CHOOSE k \in unused : TRUE
<1>1. unused # {} /\ chain' = [chain EXCEPT ![next] = Enqueued]
      /\ delayed' = [delayed EXCEPT ![next] = wait]
  BY DEF AddTask
<1>2. next \in unused
  BY <1>1
<1> HIDE DEF next
<1> QED
  BY <1>1, <1>2

\* What the properties remember, with one thing more.
WithDone(t, q) == [t EXCEPT !.done = @ \cup {q}]
WithSent(t, q) == [t EXCEPT !.sent[q] = @ + 1]
WithSlip(t, q) == [t EXCEPT !.sent[q] = @ + 1, !.slips[q] = @ + 1]
WithWaited(t, q) == [t EXCEPT !.waited = @ \cup {q}]
WithInterrupted(t, b) == [t EXCEPT !.interrupted = @ \/ b]
WithEdited(t, b) == [t EXCEPT !.edited = @ \/ b]
WithStuck(t) == [t EXCEPT !.stuck = TRUE]

Same(t, u) ==
    /\ t.done = u.done /\ Kept(t) = Kept(u) /\ t.waited = u.waited
    /\ t.interrupted = u.interrupted /\ t.edited = u.edited

LEMMA KeptFacts ==
  ASSUME NEW t \in Tolds, NEW p \in Positions
  PROVE  /\ Kept(t)[p] = t.sent[p] - t.slips[p]
         /\ t.sent[p] \in Nat /\ t.slips[p] \in Nat
BY DEF Kept, Tolds

LEMMA ToldOneMore ==
  ASSUME NEW t \in Tolds, NEW q \in Positions, NEW b \in BOOLEAN
  PROVE  /\ WithDone(t, q) \in Tolds
         /\ WithDone(t, q).done = t.done \cup {q} /\ Kept(WithDone(t, q)) = Kept(t)
         /\ WithDone(t, q).waited = t.waited
         /\ WithDone(t, q).interrupted = t.interrupted
         /\ WithDone(t, q).edited = t.edited
         /\ WithWaited(t, q) \in Tolds
         /\ WithWaited(t, q).done = t.done /\ Kept(WithWaited(t, q)) = Kept(t)
         /\ WithWaited(t, q).waited = t.waited \cup {q}
         /\ WithWaited(t, q).interrupted = t.interrupted
         /\ WithWaited(t, q).edited = t.edited
         /\ WithStuck(t) \in Tolds /\ Same(WithStuck(t), t)
BY DEF Tolds, WithDone, WithWaited, WithStuck, Same, Kept

LEMMA ToldSent ==
  ASSUME NEW t \in Tolds, NEW q \in Positions
  PROVE  /\ WithSent(t, q) \in Tolds
         /\ WithSent(t, q).done = t.done /\ WithSent(t, q).waited = t.waited
         /\ WithSent(t, q).interrupted = t.interrupted
         /\ WithSent(t, q).edited = t.edited
         /\ \A p \in Positions :
              Kept(WithSent(t, q))[p] = IF p = q THEN Kept(t)[p] + 1 ELSE Kept(t)[p]
<1>1. WithSent(t, q) \in Tolds
  <2>1. ASSUME NEW f \in [Positions -> Nat]
        PROVE  [t EXCEPT !.sent = f] \in Tolds
    BY DEF Tolds
  <2>2. WithSent(t, q) = [t EXCEPT !.sent = [t.sent EXCEPT ![q] = t.sent[q] + 1]]
    BY DEF Tolds, WithSent
  <2>3. [t.sent EXCEPT ![q] = t.sent[q] + 1] \in [Positions -> Nat]
    BY DEF Tolds
  <2> QED
    BY <2>1, <2>2, <2>3
<1>2. WithSent(t, q).sent = [t.sent EXCEPT ![q] = t.sent[q] + 1]
  BY DEF Tolds, WithSent
<1>3. t.sent \in [Positions -> Nat] /\ t.slips \in [Positions -> Nat]
      /\ WithSent(t, q).slips = t.slips
  BY DEF Tolds, WithSent
<1>4. /\ WithSent(t, q).done = t.done /\ WithSent(t, q).waited = t.waited
      /\ WithSent(t, q).interrupted = t.interrupted
      /\ WithSent(t, q).edited = t.edited
  BY DEF Tolds, WithSent
<1>5. ASSUME NEW p \in Positions
      PROVE  Kept(WithSent(t, q))[p] = IF p = q THEN Kept(t)[p] + 1 ELSE Kept(t)[p]
  BY <1>2, <1>3 DEF Kept
<1> QED
  BY <1>1, <1>4, <1>5

\* A slip counts on both sides.
LEMMA ToldSlip ==
  ASSUME NEW t \in Tolds, NEW q \in Positions
  PROVE  WithSlip(t, q) \in Tolds /\ Same(WithSlip(t, q), t) /\ WithSlip(t, q).done = t.done
<1> DEFINE f == [t.sent EXCEPT ![q] = t.sent[q] + 1]
           g == [t.slips EXCEPT ![q] = t.slips[q] + 1]
<1>1. t.sent \in [Positions -> Nat] /\ t.slips \in [Positions -> Nat]
  BY DEF Tolds
<1>2. f \in [Positions -> Nat] /\ g \in [Positions -> Nat]
  BY <1>1
<1>3. WithSlip(t, q) = [t EXCEPT !.sent = f, !.slips = g]
  BY DEF Tolds, WithSlip
<1>4. \A p \in Positions : f[p] - g[p] = t.sent[p] - t.slips[p]
  BY <1>1
<1> HIDE DEF f, g
<1>5. WithSlip(t, q) \in Tolds /\ WithSlip(t, q).sent = f /\ WithSlip(t, q).slips = g
  BY <1>2, <1>3 DEF Tolds
<1>6. Kept(WithSlip(t, q)) = Kept(t)
  BY <1>4, <1>5 DEF Kept
<1>7. /\ WithSlip(t, q).done = t.done /\ WithSlip(t, q).waited = t.waited
      /\ WithSlip(t, q).interrupted = t.interrupted /\ WithSlip(t, q).edited = t.edited
  BY <1>3 DEF Tolds
<1> QED
  BY <1>5, <1>6, <1>7 DEF Same

LEMMA ToldInterrupted ==
  ASSUME NEW t \in Tolds, NEW b \in BOOLEAN
  PROVE  /\ WithInterrupted(t, b) \in Tolds
         /\ WithInterrupted(t, b).done = t.done /\ Kept(WithInterrupted(t, b)) = Kept(t)
         /\ WithInterrupted(t, b).waited = t.waited
         /\ WithInterrupted(t, b).edited = t.edited
         /\ WithInterrupted(t, b).interrupted = (t.interrupted \/ b)
         /\ WithEdited(t, b) \in Tolds
         /\ WithEdited(t, b).done = t.done /\ Kept(WithEdited(t, b)) = Kept(t)
         /\ WithEdited(t, b).waited = t.waited
         /\ WithEdited(t, b).interrupted = t.interrupted
         /\ WithEdited(t, b).edited = (t.edited \/ b)
BY DEF Tolds, WithInterrupted, WithEdited, Kept

-----------------------------------------------------------------------------
(***************************************************************************)
(* The requests, and the start of the run.                                 *)
(***************************************************************************)

\* What the invariant says of the tasks and the run stays, while the steps may
\* change.
LEMMA OrderStays ==
  ASSUME UNCHANGED <<run, tasks>>, told'.done = told.done, Kept(told') = Kept(told)
  PROVE  /\ RunInv => RunInv'
         /\ \A k \in ChainTasks : TaskInv(k) => TaskInv(k)'
         /\ OneTask => OneTask'
         /\ SentOnce => SentOnce'
         /\ \A k \in ChainTasks : OnTime(k) => OnTime(k)'
<1>1. UNCHANGED <<run, chain, stepPc, stepAt, delayed>>
  BY DEF tasks
<1>2. RunInv => RunInv'
  BY <1>1 DEF RunInv
<1>3. \A k \in ChainTasks : TaskInv(k) => TaskInv(k)'
  BY <1>1 DEF TaskInv
<1>4. OneTask => OneTask'
  BY <1>1 DEF OneTask, Busy
<1>5. SentOnce => SentOnce'
  BY <1>1 DEF SentOnce
<1>6. \A k \in ChainTasks : OnTime(k) => OnTime(k)'
  BY <1>1 DEF OnTime, Busy, Begun, Live
<1> QED
  BY <1>2, <1>3, <1>4, <1>5, <1>6

LEMMA RunStays ==
  ASSUME AutomationInv, AutomationTypes', UNCHANGED <<steps, run, tasks, told>>
  PROVE  AutomationInv'
<1>1. UNCHANGED <<steps, run, chain, stepPc, stepAt, delayed, told>>
  BY DEF tasks
<1>2. Waits => Waits'
  BY <1>1 DEF Waits, Pending
<1>3. \A k \in ChainTasks : AsListed(k) => AsListed(k)'
  BY <1>1 DEF AsListed
<1>4. told'.done = told.done /\ Kept(told') = Kept(told)
  BY <1>1
<1>5. RunInv' /\ \A k \in ChainTasks : TaskInv(k)'
  BY <1>4, OrderStays DEF AutomationInv
<1>6. ~told'.interrupted => OneTask' /\ SentOnce' /\ \A k \in ChainTasks : OnTime(k)'
  BY <1>1, <1>4, OrderStays DEF AutomationInv
<1> QED
  BY <1>1, <1>2, <1>3, <1>5, <1>6 DEF AutomationInv

LEMMA RequestStep ==
  ASSUME AutomationInv, createAutomation \/ enableAutomation \/ EditFails
  PROVE  AutomationInv'
<1>1. UNCHANGED <<steps, run, tasks, told>>
  BY DEF createAutomation, CreateAutomation, enableAutomation, UpdateAutomation, EditFails
<1>2. AutomationTypes'
  <2>1. UNCHANGED <<steps, run, chain, stepPc, stepAt, delayed, told>>
    BY <1>1 DEF tasks
  <2>2. CASE createAutomation
    BY <2>1, <2>2 DEF createAutomation, CreateAutomation, AutomationInv, AutomationTypes
  <2>3. CASE enableAutomation
    <3>1. PICK enabled \in BOOLEAN, replaces \in BOOLEAN, plan \in Plans :
            UpdateAutomation(enabled, replaces, plan)
      BY <2>3 DEF enableAutomation
    <3>2. automation' \in {"unused", "off", "on", "deleted"} /\ UNCHANGED runFaults
      BY <2>3, <3>1 DEF enableAutomation, UpdateAutomation
    <3>3. CASE replaces
      <4>1. edits < MaxEdits /\ edits' = edits + 1
            /\ edit' = [pc |-> "clear", plan |-> plan]
        BY <3>1, <3>3 DEF UpdateAutomation
      <4>2. edits' \in 0 .. MaxEdits
        BY <4>1 DEF AutomationInv, AutomationTypes
      <4> QED
        BY <2>1, <3>2, <4>1, <4>2 DEF AutomationInv, AutomationTypes
    <3>4. CASE ~replaces
      BY <2>1, <3>1, <3>2, <3>4 DEF UpdateAutomation, AutomationInv, AutomationTypes
    <3> QED
      BY <3>3, <3>4
  <2>4. CASE EditFails
    <3>1. runFaults' \in 0 .. MaxRunFaults
      BY <2>4 DEF EditFails, AutomationInv, AutomationTypes
    <3>2. edit' = NoEdit /\ UNCHANGED <<automation, edits>>
      BY <2>4 DEF EditFails
    <3> QED
      BY <2>1, <3>1, <3>2 DEF NoEdit, AutomationInv, AutomationTypes
  <2> QED
    BY <2>2, <2>3, <2>4
<1> QED
  BY <1>1, <1>2, RunStays

\* Steps that are written before the run begins concern nobody; after that,
\* nothing more is said of them.
LEMMA EditStep ==
  ASSUME AutomationInv, ClearSteps \/ InsertStep
  PROVE  AutomationInv'
<1> USE DEF AutomationInv
<1>1. /\ UNCHANGED <<automation, edits, run, tasks, runFaults>>
      /\ told' = WithEdited(told, run.status # "none")
  BY Zenon DEF ClearSteps, InsertStep, Edited, WithEdited
<1>2. /\ told' \in Tolds /\ told'.done = told.done /\ Kept(told') = Kept(told)
      /\ told'.interrupted = told.interrupted
      /\ told'.edited = (told.edited \/ run.status # "none")
  BY <1>1, ToldInterrupted DEF AutomationTypes
<1>3. UNCHANGED <<automation, edits, run, chain, stepPc, stepAt, delayed, runFaults>>
  BY <1>1 DEF tasks
<1>4. steps' \in Seq(StepTypes) /\ Len(steps') < Longest
  <2>1. CASE ClearSteps
    BY <2>1, PlansAreShort DEF ClearSteps
  <2>2. CASE InsertStep
    <3>1. CASE Len(steps) < Len(edit.plan)
      <4>1. steps' = Append(steps, edit.plan[Len(steps) + 1])
        BY <2>2, <3>1 DEF InsertStep
      <4>2. edit.plan \in Seq(StepTypes) /\ Len(edit.plan) < Longest
        BY PlansAreShort DEF AutomationTypes
      <4>3. steps \in Seq(StepTypes) /\ Longest \in Nat
        BY PlansAreShort DEF AutomationTypes
      <4>4. edit.plan[Len(steps) + 1] \in StepTypes
        BY <3>1, <4>2, <4>3
      <4>5. Len(steps') = Len(steps) + 1 /\ steps' \in Seq(StepTypes)
        BY <4>1, <4>3, <4>4
      <4> QED
        BY <3>1, <4>2, <4>3, <4>5
    <3>2. CASE ~(Len(steps) < Len(edit.plan))
      BY <2>2, <3>2 DEF InsertStep, AutomationTypes
    <3> QED
      BY <3>1, <3>2
  <2> QED
    BY <2>1, <2>2
<1>5. edit' \in [pc : {"none", "clear", "insert"}, plan : Plans \cup {<<>>}]
  BY DEF ClearSteps, InsertStep, NoEdit, AutomationTypes
<1>6. AutomationTypes'
  BY <1>2, <1>3, <1>4, <1>5 DEF AutomationTypes
<1>7. ASSUME run.status = "none"
      PROVE  Waits' /\ \A k \in ChainTasks : AsListed(k)'
  <2>1. told'.done = {} /\ \A k \in ChainTasks : stepPc'[k] = "idle"
    BY <1>2, <1>3, <1>7 DEF RunInv, TaskInv
  <2>2. \A p \in DOMAIN steps' : p \in Positions
    BY <1>4, PlansAreShort DEF Positions
  <2>3. \A p \in Positions : ~(p < run'.at)
    BY <1>2, <1>3, <2>1 DEF RunInv
  <2>4. Waits'
    BY <2>2, <2>3 DEF Waits
  <2>5. \A k \in ChainTasks : AsListed(k)'
    BY <2>1 DEF AsListed, StepTypes
  <2> QED
    BY <2>4, <2>5
<1>8. RunInv' /\ \A k \in ChainTasks : TaskInv(k)'
  BY <1>1, <1>2, OrderStays
<1>9. ~told'.interrupted => OneTask' /\ SentOnce' /\ \A k \in ChainTasks : OnTime(k)'
  BY <1>1, <1>2, OrderStays
<1>10. ~told'.edited => Waits' /\ \A k \in ChainTasks : AsListed(k)'
  BY <1>2, <1>7
<1> QED
  BY <1>6, <1>8, <1>9, <1>10

LEMMA DeleteStep ==
  ASSUME AutomationInv, deleteAutomation
  PROVE  AutomationInv'
<1> USE DEF AutomationInv
<1>1. /\ steps' = <<>> /\ UNCHANGED <<edit, edits, chain, stepPc, stepAt, delayed>>
      /\ automation' = "deleted" /\ UNCHANGED <<runFaults, told>>
      /\ run' = IF run.status = "none" THEN run ELSE [run EXCEPT !.status = "gone"]
  BY DEF deleteAutomation, DeleteAutomation, tasks
<1>2. /\ run' \in [status : RunStatuses, at : Positions] /\ run'.at = run.at
      /\ run'.status = IF run.status = "none" THEN "none" ELSE "gone"
  BY <1>1 DEF AutomationTypes, RunStatuses
<1>3. AutomationTypes'
  BY <1>1, <1>2, PlansAreShort DEF AutomationTypes
<1>4. RunInv' /\ \A k \in ChainTasks : TaskInv(k)'
  <2>1. RunInv'
    BY <1>1, <1>2 DEF RunInv
  <2>2. \A k \in ChainTasks : TaskInv(k)'
    BY <1>1 DEF TaskInv
  <2> QED
    BY <2>1, <2>2
<1>5. ASSUME ~told.interrupted
      PROVE  OneTask' /\ SentOnce' /\ \A k \in ChainTasks : OnTime(k)'
  <2>1. OneTask'
    BY <1>1, <1>5 DEF OneTask, Busy
  <2>2. SentOnce'
    BY <1>1, <1>2, <1>5 DEF SentOnce
  <2>3. \A k \in ChainTasks : OnTime(k)'
    BY <1>1, <1>2, <1>5 DEF OnTime, Busy, Begun, Live
  <2> QED
    BY <2>1, <2>2, <2>3
<1>6. Waits' /\ \A k \in ChainTasks : AsListed(k)'
  BY <1>1 DEF Waits, AsListed
<1> QED
  BY <1>1, <1>3, <1>4, <1>5, <1>6

\* A run without a task: there is nothing to say of tasks at work.
LEMMA NobodyWorks ==
  ASSUME AutomationInv, run.status \in {"none", "new"}
  PROVE  /\ told.done = {} /\ \A p \in Positions : Kept(told)[p] = 0
         /\ \A k \in ChainTasks : /\ chain[k].state = "none" /\ stepPc[k] = "idle"
                                  /\ delayed[k] = 0 /\ ~Busy(k)
         /\ \A p \in Positions : ~(p < run.at)
<1>1. /\ told.done = {} /\ \A p \in Positions : Kept(told)[p] = 0
      /\ \A k \in ChainTasks : chain[k].state = "none"
  BY DEF AutomationInv, RunInv
<1>2. \A k \in ChainTasks : stepPc[k] = "idle" /\ delayed[k] = 0
  BY <1>1 DEF AutomationInv, TaskInv
<1>3. \A p \in Positions : ~(p < run.at)
  BY <1>1 DEF AutomationInv, RunInv
<1> QED
  BY <1>1, <1>2, <1>3 DEF Busy

LEMMA TriggerStep ==
  ASSUME AutomationInv, Trigger
  PROVE  AutomationInv'
<1> USE DEF AutomationInv
<1>1. /\ run.status = "none" /\ run' = [run EXCEPT !.status = "new"]
      /\ UNCHANGED <<request, tasks, runFaults, told>>
  BY DEF Trigger
<1>2. UNCHANGED <<automation, steps, edit, edits, chain, stepPc, stepAt, delayed,
                  runFaults, told>>
  BY <1>1 DEF request, tasks
<1>3. run' \in [status : RunStatuses, at : Positions] /\ run'.at = run.at
      /\ run'.status = "new"
  BY <1>1 DEF AutomationTypes, RunStatuses
<1>4. AutomationTypes'
  BY <1>2, <1>3 DEF AutomationTypes
<1>5. RunInv' /\ \A k \in ChainTasks : TaskInv(k)'
  <2>1. RunInv'
    BY <1>1, <1>2, <1>3 DEF RunInv
  <2>2. \A k \in ChainTasks : TaskInv(k)'
    BY <1>2 DEF TaskInv
  <2> QED
    BY <2>1, <2>2
<1>6. OneTask' /\ \A k \in ChainTasks : OnTime(k)' /\ AsListed(k)'
  <2>1. \A k \in ChainTasks : stepPc'[k] = "idle" /\ ~Busy(k)'
    BY <1>1, <1>2, NobodyWorks DEF Busy
  <2> QED
    BY <2>1 DEF OneTask, OnTime, Begun, AsListed, StepTypes
<1>7. SentOnce \/ told.interrupted => SentOnce' \/ told'.interrupted
  BY <1>2, <1>3 DEF SentOnce
<1>8. Waits'
  <2>1. \A p \in DOMAIN steps' : p \in Positions
    BY <1>2, PlansAreShort DEF Positions, AutomationTypes
  <2> QED
    BY <1>1, <1>3, <2>1, NobodyWorks DEF Waits
<1> QED
  BY <1>2, <1>4, <1>5, <1>6, <1>7, <1>8

LEMMA FirstStep ==
  ASSUME AutomationInv, EnqueueFirst
  PROVE  AutomationInv'
<1> USE DEF AutomationInv
<1>1. /\ run.status = "new" /\ run' = [run EXCEPT !.status = "running"]
      /\ UNCHANGED <<automation, steps, edit, edits, stepPc, stepAt>>
  BY DEF EnqueueFirst, request
<1>2. run' \in [status : RunStatuses, at : Positions] /\ run'.at = run.at
      /\ run'.status = "running"
  BY <1>1 DEF AutomationTypes, RunStatuses
<1>3. PICK working \in SUBSET ChainTasks :
        /\ chain' = [k \in ChainTasks |-> IF k \in working THEN Enqueued ELSE chain[k]]
        /\ delayed' = [k \in ChainTasks |-> IF k \in working THEN 0 ELSE delayed[k]]
        /\ \A k, l \in working : k = l
        /\ told' = told \/ told' = WithStuck(told)
        /\ runFaults' \in 0 .. MaxRunFaults
  <2>1. CASE AddTask(0) /\ UNCHANGED <<runFaults, told>>
    <3>1. PICK next \in ChainTasks : /\ chain' = [chain EXCEPT ![next] = Enqueued]
                                     /\ delayed' = [delayed EXCEPT ![next] = 0]
      BY <2>1, NextTask
    <3>2. /\ chain' = [k \in ChainTasks |-> IF k \in {next} THEN Enqueued ELSE chain[k]]
          /\ delayed' = [k \in ChainTasks |-> IF k \in {next} THEN 0 ELSE delayed[k]]
      BY <3>1 DEF AutomationTypes
    <3>3. told' = told /\ runFaults' \in 0 .. MaxRunFaults
      BY <2>1 DEF AutomationTypes
    <3>4. {next} \in SUBSET ChainTasks /\ \A k, l \in {next} : k = l
      OBVIOUS
    <3> QED
      BY <3>2, <3>3, <3>4
  <2>2. CASE ~(AddTask(0) /\ UNCHANGED <<runFaults, told>>)
    <3>1. /\ runFaults < MaxRunFaults /\ runFaults' = runFaults + 1
          /\ told' = WithStuck(told) /\ UNCHANGED <<chain, delayed>>
      BY <2>2 DEF EnqueueFirst, WithStuck
    <3>2. /\ chain' = [k \in ChainTasks |-> IF k \in {} THEN Enqueued ELSE chain[k]]
          /\ delayed' = [k \in ChainTasks |-> IF k \in {} THEN 0 ELSE delayed[k]]
      BY <3>1 DEF AutomationTypes
    <3>3. runFaults' \in 0 .. MaxRunFaults
      BY <3>1 DEF AutomationTypes
    <3>4. {} \in SUBSET ChainTasks /\ \A k, l \in {} : k = l
      OBVIOUS
    <3> QED
      BY <3>1, <3>2, <3>3, <3>4
  <2> QED
    BY <2>1, <2>2
<1>4. /\ told' \in Tolds /\ told'.done = told.done /\ Kept(told') = Kept(told)
      /\ told'.interrupted = told.interrupted /\ told'.edited = told.edited
  <2>1. told \in Tolds /\ 1 \in Positions /\ TRUE \in BOOLEAN
    BY PlansAreShort DEF AutomationTypes, Positions
  <2> QED
    BY <2>1, <1>3, ToldOneMore DEF Same
<1>5. /\ told.done = {} /\ \A p \in Positions : Kept(told)[p] = 0 /\ ~(p < run.at)
      /\ \A k \in ChainTasks : /\ chain[k].state = "none" /\ stepPc[k] = "idle"
                               /\ delayed[k] = 0 /\ ~Busy(k)
  BY <1>1, NobodyWorks
<1>6. AutomationTypes'
  <2>1. chain' \in [ChainTasks -> Tasks(MaxStepRetry)]
    BY <1>3, TasksOfTheQueue DEF AutomationTypes
  <2>2. delayed' \in [ChainTasks -> {0} \cup Positions]
    BY <1>3 DEF AutomationTypes
  <2> QED
    BY <1>1, <1>2, <1>3, <1>4, <2>1, <2>2 DEF AutomationTypes
<1>7. RunInv'
  BY <1>2, <1>4, <1>5 DEF RunInv
<1>8. ASSUME NEW k \in ChainTasks
      PROVE  /\ stepPc'[k] = "idle" /\ delayed'[k] = 0 /\ chain'[k].state # "running"
             /\ chain'[k].state = "queued" => k \in working
  BY <1>1, <1>3, <1>5 DEF Enqueued
<1>9. \A k \in ChainTasks : TaskInv(k)' /\ AsListed(k)'
  BY <1>8 DEF TaskInv, AsListed, StepTypes
<1>10. OneTask'
  BY <1>3, <1>8 DEF OneTask, Busy
<1>11. SentOnce \/ told.interrupted => SentOnce' \/ told'.interrupted
  BY <1>2, <1>4 DEF SentOnce
<1>12. \A k \in ChainTasks : OnTime(k)'
  <2>1. run.at \in Positions
    BY DEF AutomationTypes
  <2> QED
    BY <2>1, <1>2, <1>4, <1>5, <1>8 DEF OnTime, Begun, StepTypes
<1>13. Waits'
  <2>1. \A p \in DOMAIN steps' : p \in Positions
    BY <1>1, PlansAreShort DEF Positions, AutomationTypes
  <2> QED
    BY <2>1, <1>2, <1>5 DEF Waits
<1> QED
  BY <1>4, <1>6, <1>7, <1>9, <1>10, <1>11, <1>12, <1>13

-----------------------------------------------------------------------------
(***************************************************************************)
(* A step of a task.                                                       *)
(***************************************************************************)

OthersStay(k) ==
    \A l \in ChainTasks : l # k =>
        /\ chain'[l] = chain[l] /\ stepPc'[l] = stepPc[l]
        /\ stepAt'[l] = stepAt[l] /\ delayed'[l] = delayed[l]

\* While a task is busy, all others are idle, or about to return.
LEMMA AtRest ==
  ASSUME AutomationInv, ~told.interrupted,
         NEW k \in ChainTasks, Busy(k), NEW l \in ChainTasks, l # k
  PROVE  ~Busy(l) /\ stepPc[l] \in {"idle", "return"} /\ delayed[l] = 0
<1>1. ~Busy(l)
  BY DEF AutomationInv, OneTask
<1>2. TaskInv(l)
  BY DEF AutomationInv
<1> QED
  BY <1>1, <1>2 DEF TaskInv, Busy

\* A task that works on a position finds the waits before it elapsed.
LEMMA AllWaited ==
  ASSUME AutomationInv, ~told.interrupted, ~told.edited,
         NEW k \in ChainTasks, Busy(k), stepPc[k] # "schedule", delayed[k] = 0,
         NEW p \in DOMAIN steps, steps[p] = "wait", p < run.at
  PROVE  p \in told.waited
<1>1. p # 0
  BY DEF AutomationInv, AutomationTypes
<1>2. ~Pending(p)
  <2>1. ASSUME NEW l \in ChainTasks
        PROVE  stepPc[l] # "schedule" /\ delayed[l] # p
    BY <1>1, AtRest
  <2> QED
    BY <2>1 DEF Pending
<1> QED
  BY <1>2 DEF AutomationInv, Waits

\* A step of one task, when the others are at rest or the run was interrupted.
LEMMA Working ==
  ASSUME AutomationInv, AutomationTypes', RunInv',
         NEW k \in ChainTasks, OthersStay(k), TaskInv(k)',
         Busy(k) \/ told'.interrupted,
         told.done \subseteq told'.done,
         told.interrupted => told'.interrupted, told.edited => told'.edited,
         ~told'.interrupted => SentOnce' /\ OnTime(k)',
         ~told'.interrupted /\ ~told'.edited => Waits' /\ AsListed(k)'
  PROVE  AutomationInv'
<1>1. ASSUME NEW l \in ChainTasks
      PROVE  TaskInv(l)'
  <2>1. CASE l = k
    BY <2>1
  <2>2. CASE l # k
    <3>1. TaskInv(l)
      BY DEF AutomationInv
    <3> QED
      BY <2>2, <3>1 DEF OthersStay, TaskInv
  <2> QED
    BY <2>1, <2>2
<1>2. ASSUME ~told'.interrupted, NEW l \in ChainTasks, l # k
      PROVE  ~Busy(l)' /\ stepPc'[l] \in {"idle", "return"}
  <2>1. ~Busy(l) /\ stepPc[l] \in {"idle", "return"}
    BY <1>2, AtRest
  <2> QED
    BY <1>2, <2>1 DEF OthersStay, Busy
<1>3. ~told'.interrupted => OneTask'
  BY <1>2 DEF OneTask
<1>4. ~told'.interrupted => \A l \in ChainTasks : OnTime(l)'
  <2>1. ASSUME ~told'.interrupted, NEW l \in ChainTasks, l # k
        PROVE  OnTime(l)'
    BY <2>1, <1>2 DEF OnTime, Begun, StepTypes
  <2> QED
    BY <2>1
<1>5. ~told'.interrupted /\ ~told'.edited => \A l \in ChainTasks : AsListed(l)'
  <2>1. ASSUME ~told'.interrupted, NEW l \in ChainTasks, l # k
        PROVE  AsListed(l)'
    BY <2>1, <1>2 DEF AsListed, StepTypes
  <2> QED
    BY <2>1
<1> QED
  BY <1>1, <1>3, <1>4, <1>5 DEF AutomationInv

\* A position that does not move, with no more sent and nothing done but there.
LEMMA StillOnce ==
  ASSUME AutomationInv, ~told.interrupted, run'.at = run.at,
         Kept(told') = Kept(told), told'.done \subseteq told.done \cup {run.at}
  PROVE  SentOnce'
<1>1. SentOnce /\ run.at \in Nat
  BY DEF AutomationInv, AutomationTypes, Positions
<1>2. ASSUME NEW p \in Positions, p > run.at
      PROVE  p \notin told'.done
  BY <1>1, <1>2 DEF SentOnce
<1> QED
  BY <1>1, <1>2 DEF SentOnce

LEMMA WaitsStay ==
  ASSUME AutomationInv, ~told.interrupted, ~told.edited,
         NEW k \in ChainTasks, Busy(k), stepPc[k] # "schedule", delayed[k] = 0,
         UNCHANGED steps, run'.at = run.at, told.waited \subseteq told'.waited
  PROVE  Waits'
BY AllWaited DEF Waits

-----------------------------------------------------------------------------
(***************************************************************************)
(* The tasks that return.                                                  *)
(***************************************************************************)

\* A task that returns before the position has moved, or dies.
LEMMA TaskReturns ==
  ASSUME AutomationInv, NEW k \in ChainTasks, chain[k].state \in {"queued", "running"},
         delayed[k] = 0,
         Begun(k) \/ chain[k].state = "queued" \/ told'.interrupted,
         NEW task \in Tasks(MaxStepRetry), StepReturns(k, task),
         task.state \in {"none", "queued", "archived"},
         UNCHANGED request, runFaults' \in 0 .. MaxRunFaults,
         run' \in [status : RunStatuses, at : Positions], run'.at = run.at,
         run'.status \in {run.status, "completed", "failed"},
         told' \in Tolds, Kept(told') = Kept(told), told'.waited = told.waited,
         told'.edited = told.edited, told.interrupted => told'.interrupted,
         told.done \subseteq told'.done,
         told'.done \subseteq told.done \/
           (Begun(k) /\ told'.done \subseteq told.done \cup {stepAt[k]})
  PROVE  AutomationInv'
<1>1. /\ chain' = [chain EXCEPT ![k] = task] /\ stepPc' = [stepPc EXCEPT ![k] = "idle"]
      /\ stepAt' = [stepAt EXCEPT ![k] = 1]
      /\ UNCHANGED <<delayed, automation, steps, edit, edits>>
  BY DEF StepReturns, request
<1>2. 1 \in Positions
  BY PlansAreShort DEF Positions
<1>3. AutomationTypes'
  BY <1>1, <1>2 DEF AutomationInv, AutomationTypes, StepPcs
<1>4. /\ chain'[k] = task /\ stepPc'[k] = "idle" /\ delayed'[k] = 0 /\ OthersStay(k)
  BY <1>1 DEF AutomationInv, AutomationTypes, OthersStay
<1>5. RunInv'
  <2>1. run.status \notin {"none", "new"}
    BY DEF AutomationInv, RunInv
  <2> QED
    BY <2>1 DEF AutomationInv, RunInv
<1>6. TaskInv(k)'
  BY <1>4 DEF TaskInv
<1>7. Busy(k) \/ told'.interrupted
  BY DEF Busy, Begun, StepTypes, AutomationInv, TaskInv
<1>8. ASSUME ~told'.interrupted
      PROVE  SentOnce' /\ OnTime(k)'
  <2>1. OnTime(k) /\ ~told.interrupted
    BY <1>8 DEF AutomationInv
  <2>2. SentOnce'
    BY <1>8, <2>1, StillOnce DEF OnTime
  <2>3. ASSUME Live', Busy(k)'
        PROVE  Kept(told')[run'.at] = 0
    <3>1. Live /\ Busy(k)
      BY <1>7, <1>8, <2>3 DEF Live
    <3>2. stepPc[k] # "advance"
      BY <1>8 DEF Begun, StepTypes, AutomationInv, TaskInv
    <3> QED
      BY <2>1, <3>1, <3>2 DEF OnTime
  <2>4. OnTime(k)'
    BY <1>4, <2>3 DEF OnTime, Begun, StepTypes
  <2> QED
    BY <2>2, <2>4
<1>9. ASSUME ~told'.interrupted, ~told'.edited
      PROVE  Waits' /\ AsListed(k)'
  <2>1. ~told.interrupted /\ ~told.edited /\ Busy(k)
    BY <1>7, <1>9
  <2>2. stepPc[k] # "schedule"
    BY <1>9 DEF Begun, StepTypes, AutomationInv, TaskInv
  <2>3. Waits'
    BY <1>1, <2>1, <2>2, WaitsStay
  <2>4. AsListed(k)'
    BY <1>4 DEF AsListed, StepTypes
  <2> QED
    BY <2>3, <2>4
<1> QED
  BY <1>3, <1>4, <1>5, <1>6, <1>7, <1>8, <1>9, Working

\* Every task that returns on its way leaves the run as it was, or ends it.
LEMMA SetRunKeeps ==
  ASSUME AutomationTypes, NEW status \in {"completed", "failed"},
         run' = run \/ run' = SetRun([run EXCEPT !.status = status])
  PROVE  /\ run' \in [status : RunStatuses, at : Positions] /\ run'.at = run.at
         /\ run'.status \in {run.status, "completed", "failed"}
BY DEF SetRun, AutomationTypes, RunStatuses

\* What is known of a task before it moves.
LEMMA TaskFacts ==
  ASSUME AutomationInv, NEW k \in ChainTasks
  PROVE  /\ chain[k] \in Tasks(MaxStepRetry) /\ stepAt[k] \in Positions
         /\ told \in Tolds /\ runFaults \in 0 .. MaxRunFaults
         /\ stepPc[k] \in StepTypes \cup StepPcs
         /\ stepPc[k] # "idle" <=> chain[k].state = "running"
         /\ chain[k].state # "queued" => delayed[k] = 0
         /\ Same(told, told)
BY DEF AutomationInv, AutomationTypes, TaskInv, Same

LEMMA ReturningStep ==
  ASSUME AutomationInv, NEW k \in ChainTasks,
         chain[k].state \in {"queued", "running"}, delayed[k] = 0,
         Begun(k) \/ chain[k].state = "queued" \/ told'.interrupted,
         Succeeds(k) \/ Errs(k), UNCHANGED request, runFaults' \in 0 .. MaxRunFaults,
         NEW status \in {"completed", "failed"},
         run' = run \/ run' = SetRun([run EXCEPT !.status = status]),
         told' \in Tolds, Kept(told') = Kept(told), told'.waited = told.waited,
         told'.edited = told.edited, told.interrupted => told'.interrupted,
         told.done \subseteq told'.done,
         told'.done \subseteq told.done \/
           (Begun(k) /\ told'.done \subseteq told.done \cup {stepAt[k]})
  PROVE  AutomationInv'
<1>1. PICK task \in Tasks(MaxStepRetry) :
        StepReturns(k, task) /\ task.state \in {"none", "queued", "archived"}
  <2>1. MaxStepRetry \in Nat /\ chain[k] \in Tasks(MaxStepRetry)
    BY TaskFacts
  <2>2. CASE Succeeds(k)
    <3>1. StepReturns(k, NoTask)
      BY <2>2 DEF Succeeds
    <3> QED
      BY <2>1, <3>1, TasksOfTheQueue
  <2>3. CASE Errs(k)
    <3>1. StepReturns(k, Failed(chain[k], MaxStepRetry))
      BY <2>3 DEF Errs
    <3>2. /\ Failed(chain[k], MaxStepRetry) \in Tasks(MaxStepRetry)
          /\ Failed(chain[k], MaxStepRetry).state \in {"queued", "archived"}
      BY <2>1, TasksOfTheQueue
    <3> QED
      BY <3>1, <3>2
  <2> QED
    BY <2>2, <2>3
<1>2. /\ run' \in [status : RunStatuses, at : Positions] /\ run'.at = run.at
      /\ run'.status \in {run.status, "completed", "failed"}
  BY SetRunKeeps DEF AutomationInv
<1> QED
  BY <1>1, <1>2, TaskReturns

LEMMA OneMoreFault ==
  ASSUME AutomationInv, runFaults < MaxRunFaults, runFaults' = runFaults + 1
  PROVE  runFaults' \in 0 .. MaxRunFaults
BY DEF AutomationInv, AutomationTypes

-----------------------------------------------------------------------------
(***************************************************************************)
(* Each step of a task.                                                    *)
(***************************************************************************)

LEMMA WaitElapsesStep ==
  ASSUME AutomationInv, NEW k \in ChainTasks, WaitElapses(k)
  PROVE  AutomationInv'
<1>1. /\ delayed[k] # 0 /\ delayed' = [delayed EXCEPT ![k] = 0]
      /\ told' = WithWaited(told, delayed[k])
      /\ UNCHANGED <<automation, steps, edit, edits, run, chain, stepPc, stepAt, runFaults>>
  BY Zenon DEF WaitElapses, WithWaited, request
<1>2. chain[k].state = "queued" /\ stepPc[k] = "idle" /\ Busy(k)
  BY <1>1 DEF AutomationInv, TaskInv, Busy
<1>3. delayed[k] \in Positions
  BY <1>1 DEF AutomationInv, AutomationTypes
<1>4. /\ told' \in Tolds /\ told'.done = told.done /\ Kept(told') = Kept(told)
      /\ told'.waited = told.waited \cup {delayed[k]}
      /\ told'.interrupted = told.interrupted /\ told'.edited = told.edited
  <2>1. TRUE \in BOOLEAN
    OBVIOUS
  <2> QED
    BY <2>1, <1>1, <1>3, TaskFacts, ToldOneMore
<1>5. AutomationTypes'
  BY <1>1, <1>4 DEF AutomationInv, AutomationTypes
<1>6. /\ stepPc'[k] = "idle" /\ chain'[k] = chain[k] /\ delayed'[k] = 0
      /\ OthersStay(k)
  BY <1>1, <1>2 DEF AutomationInv, AutomationTypes, OthersStay
<1>7. RunInv'
  BY <1>1, <1>4 DEF AutomationInv, RunInv
<1>8. TaskInv(k)'
  BY <1>2, <1>6 DEF TaskInv
<1>9. ASSUME ~told'.interrupted
      PROVE  SentOnce' /\ OnTime(k)'
  <2>1. SentOnce /\ OnTime(k)
    BY <1>4, <1>9 DEF AutomationInv
  <2>2. SentOnce'
    BY <2>1, <1>1, <1>4 DEF SentOnce
  <2>3. OnTime(k)'
    BY <2>1, <1>1, <1>4 DEF OnTime, Begun, Busy, Live
  <2> QED
    BY <2>2, <2>3
<1>10. ASSUME ~told'.interrupted, ~told'.edited
       PROVE  Waits' /\ AsListed(k)'
  <2>1. ~told.interrupted /\ ~told.edited
    BY <1>4, <1>10
  <2>2. ASSUME NEW p \in DOMAIN steps, steps[p] = "wait", p < run.at
        PROVE  p \in told'.waited
    <3>1. p \in told.waited \/ Pending(p)
      BY <2>1, <2>2 DEF AutomationInv, Waits
    <3>2. CASE Pending(p)
      <4>1. PICK l \in ChainTasks : \/ stepPc[l] = "schedule" /\ stepAt[l] = p
                                    \/ delayed[l] = p
        BY <3>2 DEF Pending
      <4>2. p # 0
        BY DEF AutomationInv, AutomationTypes
      <4>3. l = k
        BY <4>1, <4>2, <2>1, <1>2, AtRest
      <4> QED
        BY <4>1, <4>3, <1>2, <1>4
    <3> QED
      BY <3>1, <3>2, <1>4
  <2>3. Waits'
    BY <2>2, <1>1 DEF Waits
  <2>4. AsListed(k)'
    BY <1>6 DEF AsListed, StepTypes
  <2> QED
    BY <2>3, <2>4
<1> QED
  BY <1>2, <1>4, <1>5, <1>6, <1>7, <1>8, <1>9, <1>10, Working

LEMMA ReadRunStep ==
  ASSUME AutomationInv, NEW k \in ChainTasks, ReadRun(k)
  PROVE  AutomationInv'
<1>1. /\ chain[k].state = "queued" /\ delayed[k] = 0
      /\ UNCHANGED <<request, run, runFaults, told>>
  BY DEF ReadRun
<1>2. stepPc[k] = "idle" /\ Busy(k)
  BY <1>1 DEF AutomationInv, TaskInv, Busy
<1>3. CASE Errs(k) \/ Succeeds(k)
  BY <1>1, <1>3, TaskFacts, ReturningStep
<1>4. CASE /\ Live /\ chain' = [chain EXCEPT ![k] = Started(@)]
           /\ stepPc' = [stepPc EXCEPT ![k] = "read"]
           /\ stepAt' = [stepAt EXCEPT ![k] = run.at]
           /\ UNCHANGED delayed
  <2>1. /\ Started(chain[k]) \in Tasks(MaxStepRetry)
        /\ Started(chain[k]).state = "running"
    BY TaskFacts, TasksOfTheQueue
  <2>2. UNCHANGED <<automation, steps, edit, edits>>
    BY <1>1 DEF request
  <2>3. AutomationTypes'
    BY <1>1, <1>4, <2>1, <2>2 DEF AutomationInv, AutomationTypes, StepPcs
  <2>4. /\ stepPc'[k] = "read" /\ stepAt'[k] = run.at /\ delayed'[k] = 0
        /\ chain'[k].state = "running" /\ OthersStay(k)
    BY <1>1, <1>4, <2>1 DEF AutomationInv, AutomationTypes, OthersStay
  <2>5. RunInv'
    <3>1. run.status \notin {"none", "new"}
      BY <1>1 DEF AutomationInv, RunInv
    <3> QED
      BY <3>1, <1>1 DEF AutomationInv, RunInv
  <2>6. TaskInv(k)'
    BY <1>1, <2>4 DEF AutomationInv, RunInv, TaskInv
  <2>7. ASSUME ~told'.interrupted
        PROVE  SentOnce' /\ OnTime(k)'
    <3>1. SentOnce /\ OnTime(k)
      BY <1>1, <2>7 DEF AutomationInv
    <3>2. Kept(told)[run.at] = 0
      BY <3>1, <1>2, <1>4 DEF OnTime
    <3>3. SentOnce'
      BY <3>1, <1>1 DEF SentOnce
    <3>4. OnTime(k)'
      BY <3>2, <1>1, <2>4 DEF OnTime
    <3> QED
      BY <3>3, <3>4
  <2>8. ASSUME ~told'.interrupted, ~told'.edited
        PROVE  Waits' /\ AsListed(k)'
    <3>1. Waits'
      BY <1>1, <1>2, <2>2, <2>8, WaitsStay
    <3>2. AsListed(k)'
      BY <2>4 DEF AsListed, StepTypes
    <3> QED
      BY <3>1, <3>2
  <2> QED
    BY <1>1, <1>2, <2>3, <2>4, <2>5, <2>6, <2>7, <2>8, Working
<1> QED
  BY <1>3, <1>4 DEF ReadRun, Live

\* A task that goes on in memory, the run stays where it is.
LEMMA GoesOn ==
  ASSUME AutomationInv, NEW k \in ChainTasks, Begun(k),
         NEW pc \in StepTypes \cup {"advance"}, GoTo(k, pc),
         stepAt[k] < Longest, UNCHANGED <<request, run, runFaults>>,
         told' \in Tolds, told'.waited = told.waited,
         told'.interrupted = told.interrupted, told'.edited = told.edited,
         told.done \subseteq told'.done, told'.done \subseteq told.done \cup {stepAt[k]},
         pc = "advance" => stepAt[k] \in told'.done,
         \A p \in Positions : \/ Kept(told')[p] = Kept(told)[p]
                              \/ /\ p = stepAt[k] /\ pc = "advance"
                                 /\ Kept(told')[p] = Kept(told)[p] + 1,
         AsListed(k) => AsListed(k)'
  PROVE  AutomationInv'
<1>1. /\ stepPc' = [stepPc EXCEPT ![k] = pc]
      /\ UNCHANGED <<automation, steps, edit, edits, chain, stepAt, delayed>>
  BY DEF GoTo, request
<1>2. AutomationTypes'
  BY <1>1 DEF AutomationInv, AutomationTypes, StepPcs
<1>3. stepPc'[k] = pc /\ OthersStay(k)
  BY <1>1 DEF AutomationInv, AutomationTypes, OthersStay
<1>4. chain[k].state = "running" /\ delayed[k] = 0 /\ Busy(k)
  BY TaskFacts DEF Begun, StepTypes, Busy
<1>5. RunInv'
  <2>1. run.status \notin {"none", "new"}
    BY <1>4 DEF AutomationInv, RunInv
  <2> QED
    BY <2>1 DEF AutomationInv, RunInv
<1>6. TaskInv(k)'
  <2>1. \A p \in Positions : p < stepAt[k] => p \in told.done
    BY DEF AutomationInv, TaskInv, Begun, StepTypes
  <2> QED
    BY <1>1, <1>3, <1>4, <2>1 DEF TaskInv, StepTypes
<1>7. ASSUME ~told'.interrupted
      PROVE  SentOnce' /\ OnTime(k)'
  <2>1. SentOnce /\ OnTime(k)
    BY <1>7 DEF AutomationInv
  <2>2. stepAt[k] = run.at /\ Kept(told)[run.at] = 0 /\ run.at \in Positions
    BY <2>1 DEF OnTime, AutomationInv, AutomationTypes
  <2>3. ASSUME NEW p \in Positions
        PROVE  /\ Kept(told')[p] <= 1
               /\ p > run.at => Kept(told')[p] = 0 /\ p \notin told'.done
    <3>1. CASE p = run.at
      <4>1. ~(p > run.at)
        BY <3>1 DEF Positions
      <4> QED
        BY <2>2, <3>1, <4>1
    <3>2. CASE p # run.at
      BY <2>1, <2>2, <3>2 DEF SentOnce
    <3> QED
      BY <3>1, <3>2
  <2>4. SentOnce'
    BY <2>3 DEF SentOnce
  <2>5. pc # "advance" => Kept(told')[run'.at] = 0
    BY <2>2
  <2>6. OnTime(k)'
    BY <1>1, <1>3, <2>2, <2>5 DEF OnTime, Begun, StepTypes
  <2> QED
    BY <2>4, <2>6
<1>8. ASSUME ~told'.interrupted, ~told'.edited
      PROVE  Waits' /\ AsListed(k)'
  <2>1. ~told.interrupted /\ ~told.edited
    BY <1>8
  <2>2. stepPc[k] # "schedule"
    BY DEF Begun, StepTypes
  <2>3. Waits'
    BY <1>1, <1>4, <2>1, <2>2, WaitsStay
  <2> QED
    BY <2>1, <2>3 DEF AutomationInv
<1> QED
  BY <1>2, <1>3, <1>4, <1>5, <1>6, <1>7, <1>8, Working

LEMMA ReadStepStep ==
  ASSUME AutomationInv, NEW k \in ChainTasks, ReadStep(k)
  PROVE  AutomationInv'
<1>1. stepPc[k] = "read" /\ UNCHANGED <<request, runFaults, told>>
  BY DEF ReadStep
<1>2. Begun(k) /\ chain[k].state = "running" /\ delayed[k] = 0
  BY <1>1, TaskFacts DEF Begun
<1>3. CASE stepAt[k] \in DOMAIN steps
  <2>1. GoTo(k, steps[stepAt[k]]) /\ UNCHANGED run
    BY <1>3 DEF ReadStep
  <2>2. stepAt[k] < Longest /\ steps[stepAt[k]] \in StepTypes
    <3>1. steps \in Seq(StepTypes) /\ Len(steps) < Longest /\ Longest \in Nat
      BY PlansAreShort DEF AutomationInv, AutomationTypes
    <3> QED
      BY <1>3, <3>1
  <2>3. steps' = steps /\ stepAt' = stepAt /\ stepPc'[k] = steps[stepAt[k]]
    BY <1>1, <2>1 DEF GoTo, request, AutomationInv, AutomationTypes
  <2>4. AsListed(k)'
    BY <2>2, <2>3 DEF AsListed, StepTypes
  <2>5. steps[stepAt[k]] # "advance"
    BY <2>2 DEF StepTypes
  <2> QED
    BY <1>1, <1>2, <2>1, <2>2, <2>4, <2>5, TaskFacts, GoesOn
<1>4. CASE stepAt[k] \notin DOMAIN steps
  BY <1>1, <1>2, <1>4, TaskFacts, ReturningStep DEF ReadStep
<1> QED
  BY <1>3, <1>4

LEMMA StuckFacts ==
  ASSUME NEW t \in Tolds
  PROVE  WithStuck(t) \in Tolds /\ Same(WithStuck(t), t)
<1>1. 1 \in Positions /\ TRUE \in BOOLEAN
  BY PlansAreShort DEF Positions
<1> QED
  BY <1>1, ToldOneMore

LEMMA DoneFacts ==
  ASSUME NEW t \in Tolds, NEW q \in Positions
  PROVE  /\ WithDone(t, q) \in Tolds
         /\ WithDone(t, q).done = t.done \cup {q} /\ Kept(WithDone(t, q)) = Kept(t)
         /\ WithDone(t, q).waited = t.waited
         /\ WithDone(t, q).interrupted = t.interrupted
         /\ WithDone(t, q).edited = t.edited
<1>1. TRUE \in BOOLEAN
  OBVIOUS
<1> QED
  BY <1>1, ToldOneMore

LEMMA ReadStepFailsStep ==
  ASSUME AutomationInv, NEW k \in ChainTasks, ReadStepFails(k)
  PROVE  AutomationInv'
<1>1. /\ stepPc[k] = "read" /\ Succeeds(k) /\ UNCHANGED request
      /\ runFaults < MaxRunFaults /\ runFaults' = runFaults + 1
      /\ \/ run' = SetRun([run EXCEPT !.status = "completed"]) /\ told' = told
         \/ run' = run /\ told' = WithStuck(told)
  BY Zenon DEF ReadStepFails, WithStuck
<1>2. Begun(k) /\ chain[k].state = "running" /\ delayed[k] = 0
  BY <1>1, TaskFacts DEF Begun
<1>3. told' \in Tolds /\ Same(told', told)
  BY <1>1, TaskFacts, StuckFacts
<1>4. runFaults' \in 0 .. MaxRunFaults
  BY <1>1, OneMoreFault
<1> QED
  BY <1>1, <1>2, <1>3, <1>4, ReturningStep DEF Same

\* A step that is done, if only for the property.
LEMMA StepDoneAdvances ==
  ASSUME AutomationInv, NEW k \in ChainTasks, stepPc[k] \in StepTypes \ {"wait"},
         GoTo(k, "advance"), UNCHANGED <<request, run, runFaults>>,
         \/ told' = WithDone(told, stepAt[k])
         \/ told' = WithSent(WithDone(told, stepAt[k]), stepAt[k])
  PROVE  AutomationInv'
<1>1. Begun(k) /\ stepAt[k] < Longest /\ stepAt[k] \in Positions /\ told \in Tolds
  BY TaskFacts DEF AutomationInv, TaskInv, Begun, StepTypes
<1>2. /\ told' \in Tolds /\ told'.waited = told.waited
      /\ told'.interrupted = told.interrupted /\ told'.edited = told.edited
      /\ told'.done = told.done \cup {stepAt[k]}
      /\ \A p \in Positions : \/ Kept(told')[p] = Kept(told)[p]
                              \/ p = stepAt[k] /\ Kept(told')[p] = Kept(told)[p] + 1
  <2> DEFINE t == WithDone(told, stepAt[k])
  <2>1. /\ t \in Tolds /\ t.done = told.done \cup {stepAt[k]} /\ Kept(t) = Kept(told)
        /\ t.waited = told.waited /\ t.interrupted = told.interrupted
        /\ t.edited = told.edited
    BY <1>1, DoneFacts
  <2> HIDE DEF t
  <2>2. CASE told' = t
    BY <2>1, <2>2
  <2>3. CASE told' = WithSent(t, stepAt[k])
    BY <1>1, <2>1, <2>3, ToldSent
  <2> QED
    BY <2>2, <2>3 DEF t
<1>3. /\ steps' = steps /\ stepAt' = stepAt /\ stepPc'[k] = "advance"
  BY DEF GoTo, request, AutomationInv, AutomationTypes
<1>4. AsListed(k) => AsListed(k)'
  BY <1>3 DEF AsListed, StepTypes
<1> QED
  BY <1>1, <1>2, <1>4, GoesOn

LEMMA StepDoneReturns ==
  ASSUME AutomationInv, NEW k \in ChainTasks, stepPc[k] = "condition",
         Succeeds(k), UNCHANGED request, runFaults' \in 0 .. MaxRunFaults,
         \/ /\ told' = WithDone(told, stepAt[k])
            /\ run' = SetRun([run EXCEPT !.status = "completed"])
         \/ told' = WithStuck(WithDone(told, stepAt[k])) /\ run' = run
  PROVE  AutomationInv'
<1>1. /\ Begun(k) /\ chain[k].state = "running" /\ delayed[k] = 0
      /\ stepAt[k] \in Positions /\ told \in Tolds
  BY TaskFacts DEF Begun, StepTypes
<1>2. /\ told' \in Tolds /\ told'.waited = told.waited /\ Kept(told') = Kept(told)
      /\ told'.interrupted = told.interrupted /\ told'.edited = told.edited
      /\ told'.done = told.done \cup {stepAt[k]}
  BY <1>1, DoneFacts, StuckFacts DEF Same
<1> QED
  BY <1>1, <1>2, ReturningStep

LEMMA SendEmailStep ==
  ASSUME AutomationInv, NEW k \in ChainTasks, SendEmail(k)
  PROVE  AutomationInv'
<1>1. /\ stepPc[k] = "send_email" /\ UNCHANGED <<request, runFaults>>
  BY DEF SendEmail
<1>2. \/ /\ told' = WithSent(WithDone(told, stepAt[k]), stepAt[k])
         /\ GoTo(k, "advance") /\ UNCHANGED run
      \/ /\ Errs(k) /\ told' \in {told, WithSlip(told, stepAt[k])}
         /\ run' = run \/ run' = SetRun([run EXCEPT !.status = "failed"])
  BY Zenon DEF SendEmail, Done, WithSent, WithSlip, WithDone
<1>3. CASE /\ told' = WithSent(WithDone(told, stepAt[k]), stepAt[k])
           /\ GoTo(k, "advance") /\ UNCHANGED run
  BY <1>1, <1>3, StepDoneAdvances DEF StepTypes
<1>4. CASE /\ Errs(k) /\ told' \in {told, WithSlip(told, stepAt[k])}
           /\ run' = run \/ run' = SetRun([run EXCEPT !.status = "failed"])
  <2>1. Begun(k) /\ chain[k].state = "running" /\ delayed[k] = 0
    BY <1>1, TaskFacts DEF Begun, StepTypes
  <2>2. told' \in Tolds /\ Same(told', told)
    <3>1. told \in Tolds /\ stepAt[k] \in Positions
      BY TaskFacts
    <3>2. CASE told' = told
      BY <3>1, <3>2 DEF Same
    <3>3. CASE told' = WithSlip(told, stepAt[k])
      BY <3>1, <3>3, ToldSlip
    <3> QED
      BY <1>4, <3>2, <3>3
  <2>3. runFaults' \in 0 .. MaxRunFaults
    BY <1>1 DEF AutomationInv, AutomationTypes
  <2> QED
    BY <1>1, <1>4, <2>1, <2>2, <2>3, ReturningStep DEF Same
<1> QED
  BY <1>2, <1>3, <1>4

LEMMA AddToSegmentStepStep ==
  ASSUME AutomationInv, NEW k \in ChainTasks, AddToSegmentStep(k)
  PROVE  AutomationInv'
<1>1. /\ stepPc[k] = "add_to_segment" /\ UNCHANGED <<request, run, runFaults>>
      /\ told' = WithDone(told, stepAt[k]) /\ GoTo(k, "advance")
  BY Zenon DEF AddToSegmentStep, Done, WithDone
<1> QED
  BY <1>1, StepDoneAdvances DEF StepTypes

LEMMA ConditionStepStep ==
  ASSUME AutomationInv, NEW k \in ChainTasks, ConditionStep(k)
  PROVE  AutomationInv'
<1>1. /\ stepPc[k] = "condition" /\ UNCHANGED <<request, runFaults>>
      /\ told' = WithDone(told, stepAt[k])
      /\ \/ GoTo(k, "advance") /\ UNCHANGED run
         \/ Succeeds(k) /\ run' = SetRun([run EXCEPT !.status = "completed"])
  BY Zenon DEF ConditionStep, Done, WithDone
<1>2. CASE GoTo(k, "advance") /\ UNCHANGED run
  BY <1>1, <1>2, StepDoneAdvances DEF StepTypes
<1>3. CASE Succeeds(k) /\ run' = SetRun([run EXCEPT !.status = "completed"])
  BY <1>1, <1>3, TaskFacts, StepDoneReturns
<1> QED
  BY <1>1, <1>2, <1>3

LEMMA CompleteFailsStep ==
  ASSUME AutomationInv, NEW k \in ChainTasks, CompleteFails(k)
  PROVE  AutomationInv'
<1>1. /\ stepPc[k] = "condition" /\ Succeeds(k) /\ UNCHANGED <<request, run>>
      /\ runFaults < MaxRunFaults /\ runFaults' = runFaults + 1
      /\ told' = WithStuck(WithDone(told, stepAt[k]))
  BY Zenon DEF CompleteFails, Done, WithDone, WithStuck
<1> QED
  BY <1>1, OneMoreFault, StepDoneReturns

LEMMA StepDiesStep ==
  ASSUME AutomationInv, NEW k \in ChainTasks, StepDies(k)
  PROVE  AutomationInv'
<1> DEFINE late == stepPc[k] \in {"advance", "enqueue", "schedule", "return"}
<1>1. /\ stepPc[k] # "idle" /\ Errs(k) /\ UNCHANGED <<request, run>>
      /\ runFaults < MaxRunFaults /\ runFaults' = runFaults + 1
      /\ told' = WithInterrupted(told, late)
  BY Zenon DEF StepDies, WithInterrupted
<1>2. late \in BOOLEAN
  OBVIOUS
<1>3. ~late => Begun(k)
  BY <1>1, TaskFacts DEF Begun, StepPcs, StepTypes
<1> HIDE DEF late
<1>4. /\ told' \in Tolds /\ told'.done = told.done /\ Kept(told') = Kept(told)
      /\ told'.waited = told.waited /\ told'.edited = told.edited
      /\ told'.interrupted = (told.interrupted \/ late)
  BY <1>1, <1>2, TaskFacts, ToldInterrupted
<1>5. runFaults' \in 0 .. MaxRunFaults
  BY <1>1, OneMoreFault
<1>6. chain[k].state = "running" /\ delayed[k] = 0
  BY <1>1, TaskFacts
<1>7. Begun(k) \/ told'.interrupted
  BY <1>3, <1>4
<1> QED
  BY <1>1, <1>4, <1>5, <1>6, <1>7, ReturningStep

\* The position moves on, unless the run is gone.
LEMMA MovesOn ==
  ASSUME AutomationInv, NEW k \in ChainTasks,
         NEW pc \in {"enqueue", "schedule"},
         stepPc[k] = IF pc = "enqueue" THEN "advance" ELSE "wait",
         stepPc' = [stepPc EXCEPT ![k] = pc], MoveTo(stepAt[k] + 1),
         UNCHANGED <<request, chain, stepAt, delayed, runFaults>>,
         told' \in Tolds, Kept(told') = Kept(told), told'.waited = told.waited,
         told'.interrupted = told.interrupted, told'.edited = told.edited,
         told'.done = told.done \cup {stepAt[k]}
  PROVE  AutomationInv'
<1>1. UNCHANGED <<automation, steps, edit, edits, chain, stepAt, delayed, runFaults>>
  BY DEF request
<1>2. /\ chain[k].state = "running" /\ delayed[k] = 0 /\ stepAt[k] \in Positions
      /\ stepPc[k] \in {"advance", "wait"} /\ Busy(k) /\ stepAt[k] < Longest
      /\ \A p \in Positions : p < stepAt[k] => p \in told.done
  <2>1. stepPc[k] \in {"advance", "wait"}
    OBVIOUS
  <2> QED
    BY <2>1, TaskFacts DEF Busy, AutomationInv, TaskInv
<1>3. stepAt[k] + 1 \in Positions /\ Positions \subseteq Nat
  BY <1>2, PlansAreShort DEF Positions
<1>4. /\ run' \in [status : RunStatuses, at : Positions] /\ run'.status = run.status
      /\ run'.at = IF run.status = "gone" THEN run.at ELSE stepAt[k] + 1
  BY <1>3 DEF MoveTo, SetRun, AutomationInv, AutomationTypes
<1>5. AutomationTypes'
  BY <1>1, <1>4 DEF AutomationInv, AutomationTypes, StepPcs
<1>6. stepPc'[k] = pc /\ OthersStay(k)
  BY <1>1 DEF AutomationInv, AutomationTypes, OthersStay
<1>7. RunInv'
  <2>1. run.status \notin {"none", "new"}
    BY <1>2 DEF AutomationInv, RunInv
  <2>2. ASSUME NEW p \in Positions, p < run'.at
        PROVE  p \in told'.done
    <3>1. CASE run.status = "gone"
      BY <3>1, <1>4, <2>2 DEF AutomationInv, RunInv
    <3>2. CASE run.status # "gone"
      <4>1. p \in Nat /\ stepAt[k] \in Nat /\ p < stepAt[k] + 1
        BY <3>2, <1>2, <1>3, <1>4, <2>2
      <4>2. p < stepAt[k] \/ p = stepAt[k]
        BY <4>1
      <4> QED
        BY <4>2, <1>2
    <3> QED
      BY <3>1, <3>2
  <2> QED
    BY <1>4, <2>1, <2>2 DEF RunInv
<1>8. TaskInv(k)'
  BY <1>1, <1>2, <1>6 DEF TaskInv
<1>9. ASSUME ~told'.interrupted
      PROVE  /\ stepAt[k] = run.at /\ run.at \in Positions
             /\ SentOnce' /\ OnTime(k)'
             /\ \A p \in Positions : p > run.at => p \notin told'.done
  <2>1. SentOnce /\ OnTime(k)
    BY <1>9 DEF AutomationInv
  <2>2. stepAt[k] = run.at /\ run.at \in Positions
    BY <1>2, <2>1 DEF OnTime, Begun, StepTypes
  <2>3. run'.at >= run.at /\ run'.at \in Nat /\ run.at \in Nat
    <3>1. run.at \in Nat
      BY <1>3, <2>2
    <3>2. run'.at = run.at \/ run'.at = run.at + 1
      BY <1>4, <2>2
    <3> QED
      BY <3>1, <3>2
  <2>4. ASSUME NEW p \in Positions, p > run.at
        PROVE  Kept(told)[p] = 0 /\ p \notin told'.done
    <3>1. p # stepAt[k]
      BY <2>2, <2>3, <2>4
    <3> QED
      BY <2>1, <2>4, <3>1 DEF SentOnce
  <2>5. SentOnce'
    <3>1. ASSUME NEW p \in Positions, p > run'.at
          PROVE  p > run.at
      BY <3>1, <2>3, <1>3
    <3> QED
      BY <2>1, <2>4, <3>1 DEF SentOnce
  <2>6. Live' => Kept(told')[run'.at] = 0
    <3>1. ASSUME Live'
          PROVE  run'.at \in Positions /\ run'.at > run.at
      <4>1. run'.at = stepAt[k] + 1
        BY <3>1, <1>4 DEF Live
      <4> QED
        BY <4>1, <1>3, <2>2, <2>3
    <3> QED
      BY <3>1, <2>4
  <2>7. OnTime(k)'
    BY <1>1, <1>4, <1>6, <2>6 DEF OnTime, Begun, StepTypes
  <2> QED
    BY <2>2, <2>4, <2>5, <2>7
<1>10. ASSUME ~told'.interrupted, ~told'.edited
       PROVE  Waits' /\ AsListed(k)'
  <2>1. ~told.interrupted /\ ~told.edited
    BY <1>10
  <2>2. ASSUME NEW p \in DOMAIN steps, steps[p] = "wait", p < run'.at
        PROVE  p \in told'.waited \/ Pending(p)'
    <3>1. p \in Nat /\ run.at \in Nat
      <4>1. steps \in Seq(StepTypes)
        BY DEF AutomationInv, AutomationTypes
      <4>2. p \in Nat
        BY <4>1
      <4> QED
        BY <4>2, <1>3, <1>9, <1>10
    <3>2. CASE p < run.at
      BY <3>2, <2>1, <2>2, <1>2, AllWaited
    <3>3. CASE ~(p < run.at)
      <4>1. run.status # "gone" /\ run'.at = p + 1 /\ p = stepAt[k]
        <5>1. run.status # "gone"
          BY <1>4, <2>2, <3>3
        <5>2. run'.at = run.at + 1
          BY <5>1, <1>4, <1>9, <1>10
        <5>3. p = run.at
          BY <5>2, <3>1, <3>3, <2>2
        <5> QED
          BY <5>1, <5>2, <5>3, <1>9, <1>10
      <4>2. pc = "schedule"
        <5>1. AsListed(k)
          BY <2>1 DEF AutomationInv
        <5> QED
          BY <4>1, <5>1, <2>2 DEF AsListed
      <4>3. p + 1 \in Positions /\ p + 1 > run.at
        BY <4>1, <1>3, <1>9, <1>10, <3>1
      <4>4. p + 1 \notin told'.done
        BY <4>3, <1>9, <1>10
      <4>5. stepPc'[k] = "schedule" /\ stepAt'[k] = p
        BY <1>1, <1>6, <4>1, <4>2
      <4> QED
        BY <4>1, <4>4, <4>5 DEF Pending
    <3> QED
      BY <3>2, <3>3
  <2>3. Waits'
    BY <1>1, <2>2 DEF Waits
  <2>4. AsListed(k)'
    BY <1>6 DEF AsListed, StepTypes
  <2> QED
    BY <2>3, <2>4
<1> QED
  BY <1>2, <1>5, <1>6, <1>7, <1>8, <1>9, <1>10, Working

LEMMA WaitStepStep ==
  ASSUME AutomationInv, NEW k \in ChainTasks, WaitStep(k)
  PROVE  AutomationInv'
<1>1. /\ stepPc[k] = "wait" /\ stepPc' = [stepPc EXCEPT ![k] = "schedule"]
      /\ MoveTo(stepAt[k] + 1) /\ told' = WithDone(told, stepAt[k])
      /\ UNCHANGED <<request, chain, stepAt, delayed, runFaults>>
  BY Zenon DEF WaitStep, Done, WithDone
<1>2. told \in Tolds /\ stepAt[k] \in Positions
  BY TaskFacts
<1> QED
  BY <1>1, <1>2, DoneFacts, MovesOn

LEMMA AdvanceStep ==
  ASSUME AutomationInv, NEW k \in ChainTasks, Advance(k)
  PROVE  AutomationInv'
<1>1. /\ stepPc[k] = "advance" /\ stepPc' = [stepPc EXCEPT ![k] = "enqueue"]
      /\ MoveTo(stepAt[k] + 1)
      /\ UNCHANGED <<request, chain, stepAt, delayed, runFaults, told>>
  BY DEF Advance, GoTo
<1>2. told \in Tolds /\ told.done = told.done \cup {stepAt[k]}
  BY <1>1, TaskFacts DEF AutomationInv, TaskInv
<1> QED
  BY <1>1, <1>2, MovesOn

LEMMA MoveFailsStep ==
  ASSUME AutomationInv, NEW k \in ChainTasks, MoveFails(k)
  PROVE  AutomationInv'
<1>1. PICK pc \in {"enqueue", "schedule"} :
        /\ stepPc' = [stepPc EXCEPT ![k] = pc] /\ stepPc[k] \in {"advance", "wait"}
        /\ told' = [told EXCEPT !.interrupted = TRUE]
        /\ runFaults < MaxRunFaults /\ runFaults' = runFaults + 1
        /\ UNCHANGED <<request, run, chain, stepAt, delayed>>
  BY DEF MoveFails, GoTo
<1>2. /\ told' \in Tolds /\ told'.done = told.done /\ Kept(told') = Kept(told)
      /\ told'.waited = told.waited /\ told'.edited = told.edited /\ told'.interrupted
  BY <1>1, TaskFacts DEF Tolds, Kept
<1>3. runFaults' \in 0 .. MaxRunFaults
  BY <1>1, OneMoreFault
<1>4. UNCHANGED <<automation, steps, edit, edits, run, chain, stepAt, delayed>>
  BY <1>1 DEF request
<1>5. AutomationTypes'
  BY <1>1, <1>2, <1>3, <1>4 DEF AutomationInv, AutomationTypes, StepPcs
<1>6. stepPc'[k] = pc /\ OthersStay(k)
  BY <1>1 DEF AutomationInv, AutomationTypes, OthersStay
<1>7. RunInv'
  BY <1>2, <1>4 DEF AutomationInv, RunInv
<1>8. TaskInv(k)'
  <2>1. TaskInv(k)
    BY DEF AutomationInv
  <2> QED
    BY <1>1, <1>2, <1>4, <1>6, <2>1 DEF TaskInv
<1> QED
  BY <1>2, <1>5, <1>6, <1>7, <1>8, Working

\* The next task takes over: this one only returns.
LEMMA EnqueueNextStep ==
  ASSUME AutomationInv, NEW k \in ChainTasks, EnqueueNext(k)
  PROVE  AutomationInv'
<1> DEFINE wait == IF stepPc[k] = "schedule" THEN stepAt[k] ELSE 0
<1>1. /\ stepPc[k] \in {"enqueue", "schedule"} /\ AddTask(wait)
      /\ stepPc' = [stepPc EXCEPT ![k] = "return"]
      /\ UNCHANGED <<automation, steps, edit, edits, run, stepAt, runFaults, told>>
  BY DEF EnqueueNext, request
<1>2. PICK next \in ChainTasks :
        /\ chain[next].state = "none" /\ chain' = [chain EXCEPT ![next] = Enqueued]
        /\ delayed' = [delayed EXCEPT ![next] = wait]
  BY <1>1, NextTask
<1>3. /\ chain[k].state = "running" /\ stepPc[next] = "idle" /\ next # k /\ Busy(k)
      /\ delayed[k] = 0 /\ wait \in {0} \cup Positions
  BY <1>1, <1>2, TaskFacts DEF Busy
<1>4. /\ chain'[k].state = "running" /\ chain'[next].state = "queued"
      /\ stepPc'[k] = "return" /\ stepPc'[next] = "idle"
      /\ delayed'[k] = 0 /\ delayed'[next] = wait
      /\ \A l \in ChainTasks \ {k, next} :
           chain'[l] = chain[l] /\ stepPc'[l] = stepPc[l] /\ delayed'[l] = delayed[l]
  BY <1>1, <1>2, <1>3 DEF AutomationInv, AutomationTypes, Enqueued
<1>5. AutomationTypes'
  <2>1. chain' \in [ChainTasks -> Tasks(MaxStepRetry)]
    BY <1>2, TaskFacts, TasksOfTheQueue DEF AutomationInv, AutomationTypes
  <2>2. delayed' \in [ChainTasks -> {0} \cup Positions]
    BY <1>2, <1>3 DEF AutomationInv, AutomationTypes
  <2>3. stepPc' \in [ChainTasks -> StepTypes \cup StepPcs]
    BY <1>1 DEF AutomationInv, AutomationTypes, StepPcs
  <2> QED
    BY <1>1, <2>1, <2>2, <2>3 DEF AutomationInv, AutomationTypes
<1> HIDE DEF wait
<1>6. RunInv'
  <2>1. run.status \notin {"none", "new"}
    BY <1>3 DEF AutomationInv, RunInv
  <2> QED
    BY <1>1, <2>1 DEF AutomationInv, RunInv
<1>7. ASSUME NEW l \in ChainTasks
      PROVE  TaskInv(l)'
  <2>1. TaskInv(l)
    BY DEF AutomationInv
  <2>2. CASE l = k
    BY <2>1, <2>2, <1>1, <1>3, <1>4 DEF TaskInv
  <2>3. CASE l = next
    BY <2>3, <1>4 DEF TaskInv
  <2>4. CASE l \notin {k, next}
    BY <2>1, <2>4, <1>1, <1>4 DEF TaskInv
  <2> QED
    BY <2>2, <2>3, <2>4
<1>8. ASSUME ~told'.interrupted
      PROVE  OneTask' /\ SentOnce' /\ \A l \in ChainTasks : OnTime(l)'
  <2>1. ~told.interrupted /\ SentOnce /\ OnTime(k)
    BY <1>1, <1>8 DEF AutomationInv
  <2>2. ASSUME NEW l \in ChainTasks, l # next
        PROVE  ~Busy(l)' /\ stepPc'[l] \in {"idle", "return"}
    <3>1. CASE l = k
      BY <3>1, <1>4 DEF Busy
    <3>2. CASE l # k
      <4>1. ~Busy(l) /\ stepPc[l] \in {"idle", "return"}
        BY <3>2, <2>1, <1>3, AtRest
      <4> QED
        BY <4>1, <3>2, <2>2, <1>4 DEF Busy
    <3> QED
      BY <3>1, <3>2
  <2>3. OneTask'
    BY <2>2 DEF OneTask
  <2>4. SentOnce'
    BY <1>1, <2>1 DEF SentOnce
  <2>5. Live' => Kept(told')[run'.at] = 0
    BY <1>1, <1>3, <2>1 DEF OnTime, Live
  <2>6. ASSUME NEW l \in ChainTasks
        PROVE  OnTime(l)'
    <3>1. CASE l = next
      BY <3>1, <1>4, <2>5 DEF OnTime, Begun, StepTypes
    <3>2. CASE l # next
      BY <3>2, <2>2 DEF OnTime, Begun, StepTypes
    <3> QED
      BY <3>1, <3>2
  <2> QED
    BY <2>3, <2>4, <2>6
<1>9. ASSUME ~told'.interrupted, ~told'.edited
      PROVE  Waits' /\ \A l \in ChainTasks : AsListed(l)'
  <2>1. ~told.interrupted /\ ~told.edited
    BY <1>1, <1>9
  <2>2. ASSUME NEW p \in DOMAIN steps, Pending(p)
        PROVE  Pending(p)'
    <3>1. PICK l \in ChainTasks : \/ stepPc[l] = "schedule" /\ stepAt[l] = p
                                  \/ delayed[l] = p
      BY <2>2 DEF Pending
    <3>2. p # 0
      BY DEF AutomationInv, AutomationTypes
    <3>3. l = k
      BY <3>1, <3>2, <2>1, <1>3, AtRest
    <3>4. wait = p
      BY <3>1, <3>2, <3>3, <1>3 DEF wait
    <3> QED
      BY <3>4, <1>1, <1>4, <2>2 DEF Pending
  <2>3. Waits'
    BY <1>1, <2>1, <2>2 DEF Waits, AutomationInv
  <2>4. ASSUME NEW l \in ChainTasks
        PROVE  AsListed(l)'
    <3>1. AsListed(l)
      BY <2>1 DEF AutomationInv
    <3> QED
      BY <3>1, <1>1, <1>4 DEF AsListed, StepTypes
  <2> QED
    BY <2>3, <2>4
<1> QED
  BY <1>5, <1>6, <1>7, <1>8, <1>9 DEF AutomationInv

LEMMA StepEndsStep ==
  ASSUME AutomationInv, NEW k \in ChainTasks, StepEnds(k)
  PROVE  AutomationInv'
<1>1. /\ stepPc[k] = "return" /\ chain' = [chain EXCEPT ![k] = NoTask]
      /\ stepPc' = [stepPc EXCEPT ![k] = "idle"]
      /\ stepAt' = [stepAt EXCEPT ![k] = 1]
      /\ UNCHANGED <<automation, steps, edit, edits, run, delayed, runFaults, told>>
  BY DEF StepEnds, Succeeds, StepReturns, request
<1>2. chain[k].state = "running" /\ delayed[k] = 0
  BY <1>1, TaskFacts
<1>3. /\ chain'[k].state = "none" /\ stepPc'[k] = "idle" /\ OthersStay(k)
  BY <1>1 DEF AutomationInv, AutomationTypes, NoTask, OthersStay
<1>4. AutomationTypes'
  <2>1. NoTask \in Tasks(MaxStepRetry) /\ 1 \in Positions
    BY PlansAreShort DEF NoTask, Tasks, Positions
  <2> QED
    BY <1>1, <2>1 DEF AutomationInv, AutomationTypes, StepPcs
<1>5. RunInv'
  <2>1. run.status \notin {"none", "new"}
    BY <1>2 DEF AutomationInv, RunInv
  <2> QED
    BY <1>1, <2>1 DEF AutomationInv, RunInv
<1>6. ASSUME NEW l \in ChainTasks
      PROVE  TaskInv(l)'
  <2>1. TaskInv(l)
    BY DEF AutomationInv
  <2> QED
    BY <2>1, <1>1, <1>2, <1>3 DEF TaskInv, OthersStay
<1>7. \A l \in ChainTasks : Busy(l)' => Busy(l)
  BY <1>3 DEF Busy, OthersStay
<1>8. ASSUME ~told'.interrupted
      PROVE  OneTask' /\ SentOnce' /\ \A l \in ChainTasks : OnTime(l)'
  <2>1. OneTask /\ SentOnce /\ \A l \in ChainTasks : OnTime(l)
    BY <1>1, <1>8 DEF AutomationInv
  <2>2. OneTask'
    BY <2>1, <1>7 DEF OneTask
  <2>3. SentOnce'
    BY <2>1, <1>1 DEF SentOnce
  <2>4. ASSUME NEW l \in ChainTasks
        PROVE  OnTime(l)'
    <3>1. CASE l = k
      BY <3>1, <1>3 DEF OnTime, Begun, Busy, StepTypes
    <3>2. CASE l # k
      BY <3>2, <2>1, <1>1, <1>3, <1>7 DEF OnTime, Begun, Live, OthersStay
    <3> QED
      BY <3>1, <3>2
  <2> QED
    BY <2>2, <2>3, <2>4
<1>9. ASSUME ~told'.interrupted, ~told'.edited
      PROVE  Waits' /\ \A l \in ChainTasks : AsListed(l)'
  <2>1. Waits /\ \A l \in ChainTasks : AsListed(l)
    BY <1>1, <1>9 DEF AutomationInv
  <2>2. ASSUME NEW p \in DOMAIN steps, Pending(p)
        PROVE  Pending(p)'
    <3>1. PICK l \in ChainTasks : \/ stepPc[l] = "schedule" /\ stepAt[l] = p
                                  \/ delayed[l] = p
      BY <2>2 DEF Pending
    <3>2. p # 0
      BY DEF AutomationInv, AutomationTypes
    <3>3. l # k
      BY <3>1, <3>2, <1>1, <1>2
    <3> QED
      BY <3>1, <3>3, <2>2, <1>1, <1>3 DEF Pending, OthersStay
  <2>3. Waits'
    BY <2>1, <2>2, <1>1 DEF Waits
  <2>4. ASSUME NEW l \in ChainTasks
        PROVE  AsListed(l)'
    BY <2>1, <1>1, <1>3 DEF AsListed, OthersStay, StepTypes
  <2> QED
    BY <2>3, <2>4
<1> QED
  BY <1>4, <1>5, <1>6, <1>8, <1>9 DEF AutomationInv

-----------------------------------------------------------------------------
(***************************************************************************)
(* The invariant of the run.                                               *)
(***************************************************************************)

LEMMA AutomationInitInv == AutomationInit => AutomationInv
<1> SUFFICES ASSUME AutomationInit
             PROVE  AutomationInv
  OBVIOUS
<1> USE DEF AutomationInit
<1>1. 1 \in Positions /\ Positions \subseteq Nat
  BY PlansAreShort DEF Positions
<1>2. AutomationTypes
  <2>1. told \in Tolds
    BY DEF Untold, Tolds
  <2>2. run \in [status : RunStatuses, at : Positions]
    BY <1>1 DEF NoRun, RunStatuses
  <2>3. chain \in [ChainTasks -> Tasks(MaxStepRetry)]
    BY DEF NoTask, Tasks
  <2>4. edit \in [pc : {"none", "clear", "insert"}, plan : Plans \cup {<<>>}]
    BY DEF NoEdit
  <2>5. edits \in 0 .. MaxEdits /\ runFaults \in 0 .. MaxRunFaults
    OBVIOUS
  <2> QED
    BY <1>1, <2>1, <2>2, <2>3, <2>4, <2>5, PlansAreShort DEF AutomationTypes, StepPcs
<1>3. RunInv
  <2>1. told.done = {} /\ \A p \in Positions : Kept(told)[p] = 0
    BY DEF Untold, Kept
  <2> QED
    BY <1>1, <2>1 DEF RunInv, NoRun, NoTask, Positions
<1>4. ASSUME NEW k \in ChainTasks
      PROVE  TaskInv(k) /\ OnTime(k) /\ AsListed(k) /\ ~Busy(k)
  BY DEF TaskInv, OnTime, AsListed, Busy, Begun, NoTask, StepTypes
<1>5. OneTask /\ SentOnce
  <2>1. told.done = {} /\ \A p \in Positions : Kept(told)[p] = 0
    BY DEF Untold, Kept
  <2> QED
    BY <1>1, <1>4, <2>1 DEF OneTask, SentOnce
<1>6. Waits
  BY DEF Waits
<1> QED
  BY <1>2, <1>3, <1>4, <1>5, <1>6 DEF AutomationInv

LEMMA AutomationStepInv ==
  AutomationInv /\ [AutomationNext]_automationVars => AutomationInv'
<1> SUFFICES ASSUME AutomationInv, [AutomationNext]_automationVars
             PROVE  AutomationInv'
  OBVIOUS
<1>1. CASE createAutomation \/ enableAutomation \/ EditFails
  BY <1>1, RequestStep
<1>2. CASE ClearSteps \/ InsertStep
  BY <1>2, EditStep
<1>3. CASE deleteAutomation
  BY <1>3, DeleteStep
<1>4. CASE Trigger
  BY <1>4, TriggerStep
<1>5. CASE EnqueueFirst
  BY <1>5, FirstStep
<1>6. ASSUME NEW k \in ChainTasks,
             \/ WaitElapses(k) \/ HandleAutomationStep(k)
             \/ ReadStepFails(k) \/ CompleteFails(k) \/ StepDies(k) \/ MoveFails(k)
      PROVE  AutomationInv'
  <2>1. CASE HandleAutomationStep(k)
    BY <2>1, ReadRunStep, ReadStepStep, SendEmailStep, AddToSegmentStepStep,
       ConditionStepStep, WaitStepStep, AdvanceStep, EnqueueNextStep, StepEndsStep
       DEF HandleAutomationStep
  <2> QED
    BY <1>6, <2>1, WaitElapsesStep, ReadStepFailsStep, CompleteFailsStep, StepDiesStep,
       MoveFailsStep
<1>7. CASE UNCHANGED automationVars
  <2>1. UNCHANGED <<automation, steps, edit, edits, run, chain, stepPc, stepAt, delayed,
                    runFaults, told>>
    BY <1>7 DEF automationVars
  <2>2. AutomationTypes'
    BY <2>1 DEF AutomationInv, AutomationTypes
  <2> QED
    BY <2>1, <2>2, RunStays DEF tasks
<1> QED
  BY <1>1, <1>2, <1>3, <1>4, <1>5, <1>6, <1>7 DEF AutomationNext

LEMMA AutomationInvTyped == AutomationInv => AutomationTyped
<1> SUFFICES ASSUME AutomationInv
             PROVE  AutomationTyped
  OBVIOUS
<1>1. AutomationTypes /\ \A k \in ChainTasks : TaskInv(k)
  BY DEF AutomationInv
<1> QED
  BY <1>1 DEF AutomationTypes, AutomationTyped, TaskInv, RunStatuses, Tolds

LEMMA StepsOnce == AutomationInv => EveryStepOnce
<1> SUFFICES ASSUME AutomationInv
             PROVE  EveryStepOnce
  OBVIOUS
<1>1. \A p \in Positions : p < run.at => p \in told.done
  BY DEF AutomationInv, RunInv
<1>2. ASSUME ~told.interrupted
      PROVE  \A p \in Positions : told.sent[p] <= 1 + told.slips[p]
  <2>1. \A p \in Positions : Kept(told)[p] <= 1
    BY <1>2 DEF AutomationInv, SentOnce
  <2>2. told \in Tolds
    BY DEF AutomationInv, AutomationTypes
  <2>3. ASSUME NEW p \in Positions
        PROVE  told.sent[p] <= 1 + told.slips[p]
    BY <2>1, <2>2, KeptFacts
  <2> QED
    BY <2>3
<1>3. ASSUME ~told.interrupted, ~told.edited,
             NEW p \in DOMAIN steps, steps[p] = "wait", p + 1 \in told.done
      PROVE  p \in told.waited
  <2>1. p \in Nat /\ p + 1 \in Positions /\ run.at \in Nat
    BY <1>3 DEF AutomationInv, AutomationTypes, Tolds, Positions
  <2>2. ~(p + 1 > run.at)
    BY <2>1, <1>3 DEF AutomationInv, SentOnce
  <2>3. p < run.at
    BY <2>1, <2>2
  <2>4. p \in told.waited \/ Pending(p)
    BY <2>3, <1>3 DEF AutomationInv, Waits
  <2> QED
    BY <2>4, <1>3 DEF Pending
<1> QED
  BY <1>1, <1>2, <1>3 DEF EveryStepOnce

-----------------------------------------------------------------------------
(***************************************************************************)
(* THE WEBHOOKS: the inductive invariant.                                  *)
(***************************************************************************)

Fanouts == [pc : FanoutPcs, todo : SUBSET Hooks, at : Hooks \cup {NoHook}]

WebhookTypes ==
    /\ lists \in Listings
    /\ hook \in [Hooks -> {"unused", "on", "off", "deleted"}]
    /\ fanout \in [Occurrences -> Fanouts]
    /\ hookEvents \subseteq Pairs
    /\ delivery \in [Pairs -> Tasks(MaxDeliverRetry)]
    /\ worker \in [Pairs -> {"idle", "post", "won", "lost"}]
    /\ fanoutFaults \in 0 .. MaxFanoutFaults

\* A fanout works through what it selected, and a pair has no task before the
\* fanout comes to it.
FanoutInv(o) ==
    /\ fanout[o].pc = "enqueue" <=> fanout[o].at \in Hooks
    /\ fanout[o].at \notin fanout[o].todo
    /\ \A w \in Hooks :
         /\ w \in fanout[o].todo \/ w = fanout[o].at =>
              <<w, o>> \in selected /\ delivery[<<w, o>>].state = "none"
         /\ fanout[o].pc = "none" => delivery[<<w, o>>].state = "none"

PairInv(p) ==
    /\ worker[p] # "idle" <=> delivery[p].state = "running"
    /\ delivery[p].state # "none" => p \in selected
    /\ p \in hookEvents => p \in selected /\ hook[p[1]] # "deleted"

WebhooksInv ==
    /\ WebhookTypes
    /\ answered \subseteq selected /\ selected \subseteq lists
    /\ \A o \in Occurrences : FanoutInv(o)
    /\ \A p \in Pairs : PairInv(p)

LEMMA ListsArePairs == WebhookTypes => lists \subseteq Pairs
BY WebhookAssumption DEF WebhookAssumption, WebhookTypes, Pairs

\* What a fanout is when fields of it are set.
LEMMA FanoutAt ==
  ASSUME NEW r \in Fanouts, NEW s \in FanoutPcs
  PROVE  /\ [r EXCEPT !.pc = s] = [pc |-> s, todo |-> r.todo, at |-> r.at]
         /\ [r EXCEPT !.pc = s, !.at = NoHook] =
              [pc |-> s, todo |-> r.todo, at |-> NoHook]
<1> DEFINE q == [pc |-> s, todo |-> r.todo, at |-> r.at]
<1>1. [r EXCEPT !.pc = s] = q /\ q \in Fanouts
  BY DEF Fanouts
<1>2. [q EXCEPT !.at = NoHook] = [pc |-> s, todo |-> r.todo, at |-> NoHook]
  BY <1>1 DEF Fanouts
<1>3. [r EXCEPT !.pc = s, !.at = NoHook] = [[r EXCEPT !.pc = s] EXCEPT !.at = NoHook]
  BY Zenon
<1> QED
  BY <1>1, <1>2, <1>3

\* Requests about a webhook: a deletion takes its events along.
LEMMA HookStep ==
  ASSUME WebhooksInv, NEW w \in Hooks,
         createWebhook(w) \/ updateWebhook(w) \/ deleteWebhook(w)
  PROVE  WebhooksInv'
<1> USE DEF WebhooksInv
<1>1. /\ UNCHANGED <<lists, fanout, delivery, worker, fanoutFaults, answered, selected>>
      /\ hook[w] # "deleted" /\ hookEvents' \subseteq hookEvents
      /\ \E s \in {"on", "off", "deleted"} :
           /\ hook' = [hook EXCEPT ![w] = s]
           /\ s = "deleted" => \A p \in hookEvents' : p[1] # w
  BY DEF createWebhook, CreateHook, updateWebhook, UpdateHook, deleteWebhook, DeleteHook,
         history
<1>2. WebhookTypes'
  BY <1>1 DEF WebhookTypes
<1>3. \A o \in Occurrences : FanoutInv(o)'
  BY <1>1 DEF FanoutInv
<1>4. ASSUME NEW p \in Pairs
      PROVE  PairInv(p)'
  <2>1. p[1] \in Hooks
    BY DEF Pairs
  <2>2. p \in hookEvents' => hook'[p[1]] # "deleted"
    BY <2>1, <1>1 DEF PairInv, WebhookTypes
  <2> QED
    BY <2>2, <1>1 DEF PairInv
<1> QED
  BY <1>1, <1>2, <1>3, <1>4

\* A fanout that says less: nothing is asked of the rows it drops.
LEMMA FanoutShrinks ==
  ASSUME WebhooksInv, NEW o \in Occurrences, NEW f \in Fanouts,
         fanout' = [fanout EXCEPT ![o] = f], f.pc \in {"insert", "sent", "cut"},
         f.at = NoHook, f.todo \subseteq fanout[o].todo,
         UNCHANGED <<lists, hook, hookEvents, delivery, worker, history>>,
         fanoutFaults' \in 0 .. MaxFanoutFaults
  PROVE  WebhooksInv'
<1> USE DEF WebhooksInv
<1>1. UNCHANGED <<answered, selected>>
  BY DEF history
<1>2. WebhookTypes'
  BY DEF WebhookTypes
<1>3. ASSUME NEW v \in Occurrences
      PROVE  FanoutInv(v)'
  <2>1. FanoutInv(v)
    OBVIOUS
  <2>2. CASE v = o
    <3>1. fanout'[v] = f
      BY <2>2 DEF WebhookTypes
    <3>2. NoHook \notin Hooks
      BY WebhookAssumption DEF WebhookAssumption, NoHook
    <3>3. NoHook \notin f.todo
      BY <3>2 DEF WebhookTypes, Fanouts
    <3> QED
      BY <1>1, <2>1, <2>2, <3>1, <3>2, <3>3 DEF FanoutInv
  <2>3. CASE v # o
    BY <1>1, <2>1, <2>3 DEF FanoutInv, WebhookTypes
  <2> QED
    BY <2>2, <2>3
<1>4. \A p \in Pairs : PairInv(p)'
  BY <1>1 DEF PairInv
<1> QED
  BY <1>1, <1>2, <1>3, <1>4

LEMMA SelectStep ==
  ASSUME WebhooksInv, NEW o \in Occurrences, SelectHooks(o)
  PROVE  WebhooksInv'
<1> USE DEF WebhooksInv
<1> DEFINE on == {w \in Hooks : hook[w] = "on" /\ <<w, o>> \in lists}
<1>0. ASSUME NEW x
      PROVE  [NoFanout EXCEPT !.pc = "insert", !.todo = x]
               = [pc |-> "insert", todo |-> x, at |-> NoHook]
  <2> DEFINE q == [pc |-> "insert", todo |-> {}, at |-> NoHook]
  <2>1. [NoFanout EXCEPT !.pc = "insert"] = q
    <3>1. NoFanout \in Fanouts /\ NoFanout.todo = {} /\ NoFanout.at = NoHook
      BY DEF NoFanout, Fanouts, FanoutPcs
    <3>2. "insert" \in FanoutPcs
      BY DEF FanoutPcs
    <3> QED
      BY <3>1, <3>2, FanoutAt
  <2>2. [q EXCEPT !.todo = x] = [pc |-> "insert", todo |-> x, at |-> NoHook]
    OBVIOUS
  <2>3. [NoFanout EXCEPT !.pc = "insert", !.todo = x]
          = [[NoFanout EXCEPT !.pc = "insert"] EXCEPT !.todo = x]
    BY Zenon
  <2> QED
    BY <2>1, <2>2, <2>3
<1>1. /\ fanout[o].pc = "none"
      /\ fanout' = [fanout EXCEPT ![o] = [pc |-> "insert", todo |-> on, at |-> NoHook]]
      /\ selected' = selected \cup (on \X {o})
      /\ UNCHANGED <<lists, hook, hookEvents, delivery, worker, fanoutFaults, answered>>
  BY Zenon, <1>0 DEF SelectHooks
<1>2. NoHook \notin Hooks
  BY WebhookAssumption DEF WebhookAssumption, NoHook
<1>3. WebhookTypes'
  BY <1>1 DEF WebhookTypes, Fanouts, FanoutPcs
<1>4. selected' \subseteq lists /\ selected \subseteq selected'
  BY <1>1
<1>5. ASSUME NEW v \in Occurrences
      PROVE  FanoutInv(v)'
  <2>1. FanoutInv(v)
    OBVIOUS
  <2>2. CASE v = o
    <3>1. fanout'[v] = [pc |-> "insert", todo |-> on, at |-> NoHook]
      BY <1>1, <2>2 DEF WebhookTypes
    <3>2. ASSUME NEW w \in on
          PROVE  <<w, v>> \in selected'
      BY <1>1, <2>2
    <3>3. \A w \in Hooks : delivery[<<w, v>>].state = "none"
      BY <1>1, <2>1, <2>2 DEF FanoutInv
    <3>4. \A w \in Hooks : w \in on \/ w = NoHook =>
                              <<w, v>> \in selected' /\ delivery'[<<w, v>>].state = "none"
      BY <1>1, <1>2, <3>2, <3>3
    <3>5. NoHook \notin on
      BY <1>2
    <3> HIDE DEF on
    <3> QED
      BY <1>2, <3>1, <3>4, <3>5 DEF FanoutInv
  <2>3. CASE v # o
    BY <1>1, <1>4, <2>1, <2>3 DEF FanoutInv, WebhookTypes
  <2> QED
    BY <2>2, <2>3
<1>6. \A p \in Pairs : PairInv(p)'
  BY <1>1, <1>4 DEF PairInv
<1> QED
  BY <1>1, <1>3, <1>4, <1>5, <1>6

LEMMA InsertHookEventStep ==
  ASSUME WebhooksInv, NEW o \in Occurrences, NEW w \in Hooks, InsertHookEvent(o, w)
  PROVE  WebhooksInv'
<1> USE DEF WebhooksInv
<1>1. /\ fanout[o].pc = "insert" /\ w \in fanout[o].todo
      /\ UNCHANGED <<lists, hook, delivery, worker, fanoutFaults, history>>
  BY DEF InsertHookEvent
<1>2. CASE hook[w] = "deleted"
  <2>1. fanout' = [fanout EXCEPT ![o] = [pc |-> "cut", todo |-> {}, at |-> NoHook]]
        /\ UNCHANGED hookEvents
    BY <1>2 DEF InsertHookEvent, Cut
  <2>2. [pc |-> "cut", todo |-> {}, at |-> NoHook] \in Fanouts
    BY DEF Fanouts, FanoutPcs
  <2>3. fanoutFaults' \in 0 .. MaxFanoutFaults
    BY <1>1 DEF WebhookTypes
  <2> QED
    BY <1>1, <2>1, <2>2, <2>3, FanoutShrinks
<1>3. CASE hook[w] # "deleted"
  <2> DEFINE f == [pc |-> "enqueue", todo |-> fanout[o].todo \ {w}, at |-> w]
  <2>1. /\ hookEvents' = hookEvents \cup {<<w, o>>}
        /\ fanout' = [fanout EXCEPT ![o] = f] /\ UNCHANGED <<answered, selected>>
    BY <1>1, <1>3 DEF InsertHookEvent, history
  <2>2. <<w, o>> \in selected /\ delivery[<<w, o>>].state = "none" /\ <<w, o>> \in Pairs
    BY <1>1 DEF FanoutInv, Pairs
  <2>3. f \in Fanouts
    BY DEF Fanouts, FanoutPcs, WebhookTypes
  <2>4. WebhookTypes'
    BY <1>1, <2>1, <2>2, <2>3 DEF WebhookTypes
  <2>5. ASSUME NEW v \in Occurrences
        PROVE  FanoutInv(v)'
    <3>1. FanoutInv(v)
      OBVIOUS
    <3>2. CASE v = o
      <4>1. fanout'[v] = f
        BY <2>1, <3>2 DEF WebhookTypes
      <4> QED
        BY <1>1, <2>1, <2>2, <3>1, <3>2, <4>1 DEF FanoutInv
    <3>3. CASE v # o
      BY <1>1, <2>1, <3>1, <3>3 DEF FanoutInv, WebhookTypes
    <3> QED
      BY <3>2, <3>3
  <2>6. ASSUME NEW p \in Pairs
        PROVE  PairInv(p)'
    <3>1. p = <<w, o>> => p[1] = w
      OBVIOUS
    <3> QED
      BY <1>1, <1>3, <2>1, <2>2, <3>1 DEF PairInv
  <2> QED
    BY <1>1, <2>1, <2>4, <2>5, <2>6
<1> QED
  BY <1>2, <1>3

LEMMA EnqueueDeliveryStep ==
  ASSUME WebhooksInv, NEW o \in Occurrences, EnqueueDelivery(o)
  PROVE  WebhooksInv'
<1> USE DEF WebhooksInv
<1>1. PICK w \in Hooks :
        /\ w = fanout[o].at /\ delivery' = [delivery EXCEPT ![<<w, o>>] = Enqueued]
        /\ fanout' = [fanout EXCEPT ![o].pc = "insert", ![o].at = NoHook]
        /\ UNCHANGED <<lists, hook, hookEvents, worker, fanoutFaults, answered, selected>>
  BY DEF EnqueueDelivery, FanoutInv, history
<1> DEFINE f == [pc |-> "insert", todo |-> fanout[o].todo, at |-> NoHook]
<1>2. fanout' = [fanout EXCEPT ![o] = f] /\ f \in Fanouts
  <2>1. fanout[o] \in Fanouts /\ "insert" \in FanoutPcs
    BY DEF WebhookTypes, FanoutPcs
  <2>2. fanout' = [fanout EXCEPT ![o] = [fanout[o] EXCEPT !.pc = "insert", !.at = NoHook]]
    BY Zenon, <1>1
  <2>3. f \in Fanouts
    BY <2>1 DEF Fanouts
  <2> QED
    BY <2>1, <2>2, <2>3, FanoutAt
<1>3. /\ <<w, o>> \in Pairs /\ <<w, o>> \in selected
      /\ delivery[<<w, o>>].state = "none" /\ w \notin fanout[o].todo
      /\ fanout[o].pc = "enqueue"
  BY <1>1 DEF FanoutInv, Pairs
<1>4. Enqueued \in Tasks(MaxDeliverRetry) /\ Enqueued.state = "queued"
  BY WebhookAssumption DEF WebhookAssumption, Enqueued, Tasks
<1>5. NoHook \notin Hooks
  BY WebhookAssumption DEF WebhookAssumption, NoHook
<1>6. WebhookTypes'
  BY <1>1, <1>2, <1>4 DEF WebhookTypes
<1>7. ASSUME NEW p \in Pairs
      PROVE  /\ p = <<w, o>> => delivery'[p].state = "queued"
             /\ p # <<w, o>> => delivery'[p] = delivery[p]
  BY <1>1, <1>4 DEF WebhookTypes
<1>8. ASSUME NEW v \in Occurrences
      PROVE  FanoutInv(v)'
  <2>1. FanoutInv(v)
    OBVIOUS
  <2>2. \A u \in Hooks : <<u, v>> \in Pairs
    BY DEF Pairs
  <2>3. CASE v = o
    <3>1. fanout'[v] = f
      BY <1>2, <2>3 DEF WebhookTypes
    <3>2. f.todo \subseteq Hooks
      BY <1>2 DEF Fanouts
    <3>3. ASSUME NEW u \in f.todo
          PROVE  <<u, v>> \in selected' /\ delivery'[<<u, v>>].state = "none"
      <4>1. u # w /\ u \in Hooks /\ u \in fanout[v].todo
        BY <1>3, <2>3, <3>2
      <4>2. <<u, v>> # <<w, o>>
        BY <4>1
      <4> QED
        BY <1>1, <1>7, <2>1, <2>2, <4>1, <4>2 DEF FanoutInv
    <3> QED
      BY <1>5, <3>1, <3>2, <3>3 DEF FanoutInv
  <2>4. CASE v # o
    <3>1. fanout'[v] = fanout[v]
      BY <1>2, <2>4 DEF WebhookTypes
    <3>2. \A u \in Hooks : <<u, v>> # <<w, o>>
      BY <2>4
    <3>3. \A u \in Hooks : delivery'[<<u, v>>] = delivery[<<u, v>>]
      BY <1>7, <2>2, <3>2
    <3> QED
      BY <1>1, <2>1, <3>1, <3>3 DEF FanoutInv
  <2> QED
    BY <2>3, <2>4
<1>9. ASSUME NEW p \in Pairs
      PROVE  PairInv(p)'
  <2>1. PairInv(p)
    OBVIOUS
  <2> QED
    BY <1>1, <1>3, <1>7, <2>1 DEF PairInv
<1> QED
  BY <1>1, <1>6, <1>8, <1>9

\* A step of the task of a pair that exists.
LEMMA TaskOfPair ==
  ASSUME WebhooksInv, NEW p \in Pairs, delivery[p].state # "none",
         NEW task \in Tasks(MaxDeliverRetry), task.state # "none",
         NEW pc \in {"idle", "post", "won", "lost"},
         pc # "idle" <=> task.state = "running",
         delivery' = [delivery EXCEPT ![p] = task],
         worker' = [worker EXCEPT ![p] = pc],
         UNCHANGED <<lists, hook, fanout, hookEvents, fanoutFaults, selected>>,
         answered' \in {answered, answered \cup {p}}
  PROVE  WebhooksInv'
<1> USE DEF WebhooksInv
<1>1. p \in selected
  BY DEF PairInv
<1>2. WebhookTypes'
  BY DEF WebhookTypes
<1>3. ASSUME NEW q \in Pairs
      PROVE  /\ q = p => delivery'[q] = task /\ worker'[q] = pc
             /\ q # p => delivery'[q] = delivery[q] /\ worker'[q] = worker[q]
  BY DEF WebhookTypes
<1>4. ASSUME NEW o \in Occurrences
      PROVE  FanoutInv(o)'
  <2>1. FanoutInv(o)
    OBVIOUS
  <2>2. ASSUME NEW w \in Hooks
        PROVE  delivery[<<w, o>>].state = "none" => delivery'[<<w, o>>].state = "none"
    <3>1. <<w, o>> \in Pairs
      BY DEF Pairs
    <3> QED
      BY <3>1, <1>3
  <2> QED
    BY <2>1, <2>2 DEF FanoutInv
<1>5. ASSUME NEW q \in Pairs
      PROVE  PairInv(q)'
  BY <1>1, <1>3 DEF PairInv
<1> QED
  BY <1>1, <1>2, <1>4, <1>5

LEMMA DeliveryStep ==
  ASSUME WebhooksInv, NEW p \in Pairs, HandleWebhookDeliver(p) \/ DeliveryDies(p)
  PROVE  WebhooksInv'
<1>1. /\ delivery[p] \in Tasks(MaxDeliverRetry) /\ MaxDeliverRetry \in Nat
      /\ worker[p] # "idle" <=> delivery[p].state = "running"
      /\ worker[p] \in {"idle", "post", "won", "lost"}
  BY WebhookAssumption DEF WebhookAssumption, WebhooksInv, WebhookTypes, PairInv
<1>2. /\ Started(delivery[p]) \in Tasks(MaxDeliverRetry)
      /\ Started(delivery[p]).state = "running"
      /\ Finished(delivery[p]) \in Tasks(MaxDeliverRetry)
      /\ Finished(delivery[p]).state = "done"
      /\ Failed(delivery[p], MaxDeliverRetry) \in Tasks(MaxDeliverRetry)
      /\ Failed(delivery[p], MaxDeliverRetry).state \in {"queued", "archived"}
  BY <1>1, TasksOfTheQueue
<1>3. CASE ReadHookEvent(p)
  <2>1. /\ delivery[p].state = "queued"
        /\ UNCHANGED <<lists, hook, fanout, hookEvents, fanoutFaults, selected, answered>>
    BY <1>3 DEF ReadHookEvent, history
  <2>2. \/ /\ delivery' = [delivery EXCEPT ![p] = Started(delivery[p])]
           /\ worker' = [worker EXCEPT ![p] = "post"]
        \/ /\ delivery' = [delivery EXCEPT ![p] = Failed(delivery[p], MaxDeliverRetry)]
           /\ worker' = [worker EXCEPT ![p] = "idle"]
    BY <1>3 DEF ReadHookEvent, HookTaskFails
  <2> QED
    BY <1>2, <2>1, <2>2, TaskOfPair
<1>4. CASE PostEvent(p)
  <2>1. /\ worker[p] = "post"
        /\ UNCHANGED <<lists, hook, fanout, hookEvents, delivery, fanoutFaults, selected>>
        /\ answered' \in {answered, answered \cup {p}}
    BY <1>4 DEF PostEvent
  <2>2. PICK pc \in {"won", "lost"} : worker' = [worker EXCEPT ![p] = pc]
    BY <1>4 DEF PostEvent
  <2>3. delivery' = [delivery EXCEPT ![p] = delivery[p]]
    BY <2>1 DEF WebhooksInv, WebhookTypes
  <2> QED
    BY <1>1, <2>1, <2>2, <2>3, TaskOfPair
<1>5. CASE Deliver(p) \/ DeliveryDies(p)
  <2>1. /\ worker[p] # "idle"
        /\ UNCHANGED <<lists, hook, fanout, hookEvents, fanoutFaults, selected, answered>>
        /\ worker' = [worker EXCEPT ![p] = "idle"]
    BY <1>5 DEF Deliver, DeliveryDies, HookTaskFails, history
  <2>2. \/ delivery' = [delivery EXCEPT ![p] = Finished(delivery[p])]
        \/ delivery' = [delivery EXCEPT ![p] = Failed(delivery[p], MaxDeliverRetry)]
    BY <1>5 DEF Deliver, DeliveryDies, HookTaskFails
  <2> QED
    BY <1>1, <1>2, <2>1, <2>2, TaskOfPair
<1> QED
  BY <1>3, <1>4, <1>5 DEF HandleWebhookDeliver

LEMMA FanoutEnds ==
  ASSUME WebhooksInv, NEW o \in Occurrences,
         FanoutReturns(o) \/ FanoutTimesOut(o) \/ FanoutFails(o)
  PROVE  WebhooksInv'
<1>1. fanout[o] \in Fanouts /\ FanoutInv(o)
  BY DEF WebhooksInv, WebhookTypes
<1>2. UNCHANGED <<lists, hook, hookEvents, delivery, worker, history>>
  BY DEF FanoutReturns, FanoutTimesOut, FanoutFails
<1>3. fanoutFaults' \in 0 .. MaxFanoutFaults
  <2>1. \/ fanoutFaults' = fanoutFaults
        \/ fanoutFaults < MaxFanoutFaults /\ fanoutFaults' = fanoutFaults + 1
    BY DEF FanoutReturns, FanoutTimesOut, FanoutFails
  <2>2. fanoutFaults \in 0 .. MaxFanoutFaults /\ MaxFanoutFaults \in Nat
    BY WebhookAssumption DEF WebhookAssumption, WebhooksInv, WebhookTypes
  <2> QED
    BY <2>1, <2>2
<1>4. CASE FanoutReturns(o)
  <2>1. fanout' = [fanout EXCEPT ![o].pc = "sent"] /\ fanout[o].pc = "insert"
    BY <1>4 DEF FanoutReturns
  <2>2. fanout[o].at = NoHook
    BY <1>1, <2>1 DEF FanoutInv, Fanouts
  <2> DEFINE f == [pc |-> "sent", todo |-> fanout[o].todo, at |-> NoHook]
  <2>3. f \in Fanouts
    BY <1>1 DEF Fanouts, FanoutPcs
  <2>4. fanout' = [fanout EXCEPT ![o] = f]
    <3>1. fanout' = [fanout EXCEPT ![o] = [fanout[o] EXCEPT !.pc = "sent"]]
      BY Zenon, <2>1
    <3>2. "sent" \in FanoutPcs
      BY DEF FanoutPcs
    <3> QED
      BY <1>1, <2>2, <3>1, <3>2, FanoutAt
  <2> QED
    BY <1>2, <1>3, <2>3, <2>4, FanoutShrinks
<1>5. CASE FanoutTimesOut(o) \/ FanoutFails(o)
  <2>1. fanout' = [fanout EXCEPT ![o] = [pc |-> "cut", todo |-> {}, at |-> NoHook]]
    BY <1>5 DEF FanoutTimesOut, FanoutFails, Cut
  <2>2. [pc |-> "cut", todo |-> {}, at |-> NoHook] \in Fanouts
    BY DEF Fanouts, FanoutPcs
  <2> QED
    BY <1>2, <1>3, <2>1, <2>2, FanoutShrinks
<1> QED
  BY <1>4, <1>5

LEMMA WebhooksInitInv == WebhooksInit => WebhooksInv
<1> SUFFICES ASSUME WebhooksInit
             PROVE  WebhooksInv
  OBVIOUS
<1> USE DEF WebhooksInit
<1>1. NoHook \notin Hooks
  BY WebhookAssumption DEF WebhookAssumption, NoHook
<1>2. WebhookTypes
  <2>1. NoTask \in Tasks(MaxDeliverRetry) /\ 0 \in 0 .. MaxFanoutFaults
    BY WebhookAssumption DEF WebhookAssumption, NoTask, Tasks
  <2>2. NoFanout \in Fanouts
    BY DEF NoFanout, Fanouts, FanoutPcs
  <2> QED
    BY <2>1, <2>2 DEF WebhookTypes
<1>3. ASSUME NEW o \in Occurrences
      PROVE  FanoutInv(o)
  <2>1. \A w \in Hooks : delivery[<<w, o>>].state = "none"
    BY DEF NoTask, Pairs
  <2> QED
    BY <1>1, <2>1 DEF FanoutInv, NoFanout
<1>4. \A p \in Pairs : PairInv(p)
  BY DEF PairInv, NoTask
<1> QED
  BY <1>2, <1>3, <1>4 DEF WebhooksInv

LEMMA WebhooksStepInv ==
  WebhooksInv /\ [WebhooksNext]_webhookVars => WebhooksInv'
<1> SUFFICES ASSUME WebhooksInv, [WebhooksNext]_webhookVars
             PROVE  WebhooksInv'
  OBVIOUS
<1>1. ASSUME NEW w \in Hooks, createWebhook(w) \/ updateWebhook(w) \/ deleteWebhook(w)
      PROVE  WebhooksInv'
  BY <1>1, HookStep
<1>2. ASSUME NEW o \in Occurrences, SelectHooks(o) \/ FanoutStep(o) \/ FanoutFails(o)
      PROVE  WebhooksInv'
  BY <1>2, SelectStep, FanoutEnds, InsertHookEventStep, EnqueueDeliveryStep DEF FanoutStep
<1>3. ASSUME NEW p \in Pairs, HandleWebhookDeliver(p) \/ DeliveryDies(p)
      PROVE  WebhooksInv'
  BY <1>3, DeliveryStep
<1>4. CASE UNCHANGED webhookVars
  <2>1. UNCHANGED <<lists, hook, fanout, hookEvents, delivery, worker, fanoutFaults,
                    answered, selected>>
    BY <1>4 DEF webhookVars, history
  <2>2. WebhookTypes' /\ \A o \in Occurrences : FanoutInv(o)'
    BY <2>1 DEF WebhooksInv, WebhookTypes, FanoutInv
  <2>3. \A p \in Pairs : PairInv(p)'
    BY <2>1 DEF WebhooksInv, PairInv
  <2> QED
    BY <2>1, <2>2, <2>3 DEF WebhooksInv
<1> QED
  BY <1>1, <1>2, <1>3, <1>4 DEF WebhooksNext

LEMMA WebhooksInvTyped == WebhooksInv => WebhooksTyped
<1> SUFFICES ASSUME WebhooksInv
             PROVE  WebhooksTyped
  OBVIOUS
<1>1. \A o \in Occurrences :
        /\ fanout[o].pc \in FanoutPcs /\ fanout[o].todo \subseteq Hooks
        /\ fanout[o].pc = "enqueue" <=> fanout[o].at \in Hooks
  BY DEF WebhooksInv, WebhookTypes, Fanouts, FanoutInv
<1>2. hookEvents \subseteq {p \in selected : hook[p[1]] # "deleted"}
  BY DEF WebhooksInv, WebhookTypes, PairInv
<1>3. \A p \in Pairs : worker[p] # "idle" <=> delivery[p].state = "running"
  BY DEF WebhooksInv, PairInv
<1> QED
  BY <1>1, <1>2, <1>3 DEF WebhooksInv, WebhookTypes, WebhooksTyped

-----------------------------------------------------------------------------
(***************************************************************************)
(* Both consumers.                                                         *)
(***************************************************************************)

LEMMA OutboundInvariants ==
  OutboundSpec => [](WebhooksInv /\ AutomationInv)
<1>1. OutboundInit => WebhooksInv /\ AutomationInv
  BY WebhooksInitInv, AutomationInitInv DEF OutboundInit
<1>2. WebhooksInv /\ AutomationInv /\ [OutboundNext]_outboundVars
        => (WebhooksInv /\ AutomationInv)'
  <2> SUFFICES ASSUME WebhooksInv, AutomationInv, [OutboundNext]_outboundVars
               PROVE  WebhooksInv' /\ AutomationInv'
    OBVIOUS
  <2>1. [WebhooksNext]_webhookVars /\ [AutomationNext]_automationVars
    BY DEF OutboundNext, outboundVars
  <2> QED
    BY <2>1, WebhooksStepInv, AutomationStepInv
<1> QED
  BY <1>1, <1>2, PTL DEF OutboundSpec

\* The state of both consumers has its type: a row of webhook_events is one a
\* fanout selected for a webhook that is not deleted, a pair's handler works
\* exactly while its task runs, and only a selected pair is ever answered.
THEOREM OutboundTypeCorrect == OutboundSpec => []OutboundTyped
<1>1. WebhooksInv /\ AutomationInv => OutboundTyped
  BY WebhooksInvTyped, AutomationInvTyped DEF OutboundTyped
<1> QED
  BY <1>1, OutboundInvariants, PTL

\* A run passes no step that was not worked through; and while no task was
\* interrupted after its step, every further email of a step was queued by a
\* call of Emails.Send that returned an error, and none overtakes a wait
\* (automation.go:72-86, :115-124, :182-191), however long the plan and however
\* many tasks, retries and requests there are.
THEOREM StepsAreDoneOnce == OutboundSpec => []EveryStepOnce
BY StepsOnce, OutboundInvariants, PTL

=============================================================================

------------------------------ MODULE Broadcast ------------------------------
(***************************************************************************)
(* Broadcasts: one message to every contact of an audience.  The API       *)
(* (internal/broadcast) moves the row and enqueues broadcast:send tasks,   *)
(* Handlers.HandleBroadcastSend claims the row, reads the recipients,      *)
(* calls email.Service.Send for each of them and writes the outcome.       *)
(*                                                                         *)
(* Send may be called again while the broadcast waits, so one broadcast    *)
(* can have several tasks; nothing deletes the older ones.  Every SQL      *)
(* statement, enqueue and call of email.Service.Send is a step of its own. *)
(* email.Service.Send is the module EmailSend: here it is an answer, with  *)
(* or without an email left behind.  Contacts join and leave an audience,  *)
(* unsubscribe and are suppressed at any time: the query finds any set of  *)
(* recipients, and any of them may be refused a moment later.              *)
(* When a scheduled task becomes due is left open: the worker never looks  *)
(* at scheduled_at.                                                        *)
(*                                                                         *)
(* An operator whose comment starts with "Fault:" is no part of the        *)
(* specification.  It is the operator after it with a plausible bug, and   *)
(* shows that some property can fail.                                      *)
(***************************************************************************)
EXTENDS Naturals, FiniteSets

CONSTANTS
    Broadcasts,  \* broadcasts rows
    Addrs,       \* addresses of contacts
    MaxRetry,    \* asynq.MaxRetry of a broadcast:send task (3 in the code)
    MaxResends   \* bound: calls of Send for a broadcast after the first

ASSUME BroadcastAssumption ==
    /\ IsFiniteSet(Addrs)
    /\ MaxRetry \in Nat
    /\ MaxResends \in Nat

\* Task <<b, k>> is the one the k-th Send of broadcast b enqueues, k from 0.
Tasks == Broadcasts \X (0 .. MaxResends)

BroadcastOf(t) == t[1]

VARIABLES
    \* Postgres
    status,      \* broadcasts.status, "none" before Create
    sentCount, failedCount,
    \* the API
    sends,       \* number of Send calls that changed the row
    sendPc,      \* "enqueue" while such a call has its task still to enqueue
    \* the queue
    taskState, retried,
    \* the worker attempts
    pc,          \* the attempt's next statement, "idle" when there is none
    todo,        \* recipients the loop has still to come to
    ok, fail,    \* recipients it has counted
    \* what happened, for the properties only
    mailed,      \* emails queued, per task and address
    slips,       \* attempts that died in their loop
    lost         \* the UPDATE of an outcome failed and the error was dropped

row     == <<status, sentCount, failedCount>>
api     == <<sends, sendPc>>
queue   == <<taskState, retried>>
attempt == <<pc, todo, ok, fail>>
history == <<mailed, slips, lost>>

vars == <<row, api, queue, attempt, history>>

Outcomes == {"sent", "partial", "failed"}

Waiting == {"queued", "scheduled", "sending"}

Statuses == {"none", "draft", "canceled", "deleted"} \cup Waiting \cup Outcomes

TypeOK ==
    /\ status      \in [Broadcasts -> Statuses]
    /\ sentCount   \in [Broadcasts -> Nat]
    /\ failedCount \in [Broadcasts -> Nat]
    /\ sends       \in [Broadcasts -> 0 .. MaxResends + 1]
    /\ sendPc      \in [Tasks -> {"none", "enqueue", "done"}]
    /\ taskState   \in [Tasks -> {"none", "pending", "active", "retry", "completed",
                                  "archived"}]
    /\ retried     \in [Tasks -> 0 .. MaxRetry]
    /\ pc          \in [Tasks -> {"idle", "load", "claim", "recipients", "loop"}]
    /\ todo        \in [Tasks -> SUBSET Addrs]
    /\ ok          \in [Tasks -> SUBSET Addrs]
    /\ fail        \in [Tasks -> SUBSET Addrs]
    /\ mailed      \in [Tasks -> [Addrs -> Nat]]
    /\ slips       \in [Tasks -> Nat]
    /\ lost        \in [Broadcasts -> BOOLEAN]

Init ==
    /\ status      = [b \in Broadcasts |-> "none"]
    /\ sentCount   = [b \in Broadcasts |-> 0]
    /\ failedCount = [b \in Broadcasts |-> 0]
    /\ sends       = [b \in Broadcasts |-> 0]
    /\ sendPc      = [t \in Tasks |-> "none"]
    /\ taskState   = [t \in Tasks |-> "none"]
    /\ retried     = [t \in Tasks |-> 0]
    /\ pc          = [t \in Tasks |-> "idle"]
    /\ todo        = [t \in Tasks |-> {}]
    /\ ok          = [t \in Tasks |-> {}]
    /\ fail        = [t \in Tasks |-> {}]
    /\ mailed      = [t \in Tasks |-> [a \in Addrs |-> 0]]
    /\ slips       = [t \in Tasks |-> 0]
    /\ lost        = [b \in Broadcasts |-> FALSE]

-----------------------------------------------------------------------------
(***************************************************************************)
(* The API: broadcast.Service.                                             *)
(***************************************************************************)

SetStatus(b, new) ==
    /\ status' = [status EXCEPT ![b] = new]
    /\ UNCHANGED <<sentCount, failedCount, queue, attempt, history>>

Create(b) ==
    /\ status[b] = "none"
    /\ SetStatus(b, "draft")
    /\ UNCHANGED api

\* scheduleBroadcastStatus of the requested time, or of the one in the row: now
\* or later.  The UPDATE repeats the check of the status that Get read.
Send(b) ==
    /\ status[b] \in {"draft", "queued", "scheduled"}
    /\ sends[b] <= MaxResends
    /\ sends'  = [sends EXCEPT ![b] = @ + 1]
    /\ sendPc' = [sendPc EXCEPT ![<<b, sends[b]>>] = "enqueue"]
    /\ \E new \in {"queued", "scheduled"} : SetStatus(b, new)

\* An error answer does not say whether Redis stored the task.
EnqueueSend(t) ==
    /\ sendPc[t] = "enqueue"
    /\ sendPc' = [sendPc EXCEPT ![t] = "done"]
    /\ \/ taskState' = [taskState EXCEPT ![t] = "pending"]
       \/ UNCHANGED taskState
    /\ UNCHANGED <<row, sends, retried, attempt, history>>

Cancel(b) ==
    /\ status[b] \in {"draft"} \cup Waiting
    /\ SetStatus(b, "canceled")
    /\ UNCHANGED api

\* The tasks of a deleted broadcast stay.
Delete(b) ==
    /\ status[b] \notin {"none", "deleted"}
    /\ SetStatus(b, "deleted")
    /\ UNCHANGED api

-----------------------------------------------------------------------------
(***************************************************************************)
(* The queue.                                                              *)
(***************************************************************************)

StartAttempt(t) ==
    /\ taskState[t] \in {"pending", "retry"}
    /\ taskState' = [taskState EXCEPT ![t] = "active"]
    /\ pc' = [pc EXCEPT ![t] = "load"]
    /\ UNCHANGED <<row, api, retried, todo, ok, fail, history>>

EndAttempt(t) ==
    /\ pc'   = [pc EXCEPT ![t] = "idle"]
    /\ todo' = [todo EXCEPT ![t] = {}]
    /\ ok'   = [ok EXCEPT ![t] = {}]
    /\ fail' = [fail EXCEPT ![t] = {}]

\* The handler returned nil.
Complete(t) ==
    /\ EndAttempt(t)
    /\ taskState' = [taskState EXCEPT ![t] = "completed"]
    /\ UNCHANGED retried

RetryWhile(again, t) ==
    /\ EndAttempt(t)
    /\ IF again
       THEN /\ taskState' = [taskState EXCEPT ![t] = "retry"]
            /\ retried' = [retried EXCEPT ![t] = @ + 1]
       ELSE /\ taskState' = [taskState EXCEPT ![t] = "archived"]
            /\ UNCHANGED retried

\* Fault: one retry too many.
RetryOnceMore(t) == RetryWhile(retried[t] <= MaxRetry, t)

\* The handler returned an error, or its lease expired.
RetryOrArchive(t) == RetryWhile(retried[t] < MaxRetry, t)

\* The worker process dies.
LeaseExpires(t) ==
    /\ taskState[t] = "active"
    /\ RetryOrArchive(t)
    /\ slips' = IF pc[t] = "loop" THEN [slips EXCEPT ![t] = @ + 1] ELSE slips
    /\ UNCHANGED <<row, api, mailed, lost>>

-----------------------------------------------------------------------------
(***************************************************************************)
(* Handlers.HandleBroadcastSend.                                           *)
(***************************************************************************)

\* The SELECT of the row: a deleted one is an error, as any failed statement
\* before the loop.
LoadBroadcast(t) ==
    /\ pc[t] = "load"
    /\ status[BroadcastOf(t)] # "deleted"
    /\ IF status[BroadcastOf(t)] \in {"canceled"} \cup Outcomes
       THEN Complete(t)
       ELSE /\ pc' = [pc EXCEPT ![t] = "claim"]
            /\ UNCHANGED <<queue, todo, ok, fail>>
    /\ UNCHANGED <<row, api, history>>

StepFails(t) ==
    /\ pc[t] \in {"load", "claim", "recipients"}
    /\ RetryOrArchive(t)
    /\ UNCHANGED <<row, api, history>>

ClaimFrom(statuses, t) ==
    /\ pc[t] = "claim"
    /\ IF status[BroadcastOf(t)] \in statuses
       THEN /\ status' = [status EXCEPT ![BroadcastOf(t)] = "sending"]
            /\ pc' = [pc EXCEPT ![t] = "recipients"]
            /\ UNCHANGED <<queue, todo, ok, fail>>
       ELSE Complete(t) /\ UNCHANGED status
    /\ UNCHANGED <<sentCount, failedCount, api, history>>

\* Fault: the UPDATE trusts the status that LoadBroadcast has seen.
ClaimAnyway(t) == ClaimFrom(Statuses \ {"none", "deleted"}, t)

\* Fault: a broadcast that is being sent belongs to another worker.
ClaimWaiting(t) == ClaimFrom({"queued", "scheduled"}, t)

\* UPDATE ... SET status = 'sending', for a retry too.
Claim(t) == ClaimFrom(Waiting, t)

\* One of the three queries, and then the team.
ReadRecipients(t) ==
    /\ pc[t] = "recipients"
    /\ \E members \in SUBSET Addrs : todo' = [todo EXCEPT ![t] = members]
    /\ pc' = [pc EXCEPT ![t] = "loop"]
    /\ UNCHANGED <<row, api, queue, ok, fail, history>>

\* email.Service.Send without an Idempotency-Key.  It refuses a recipient who
\* has been suppressed since, and it can fail for other reasons, also after it
\* has left its row and its task behind.
SendOne(t, a, good, queued) ==
    /\ pc[t] = "loop"
    /\ a \in todo[t]
    /\ good => queued
    /\ mailed' = IF queued THEN [mailed EXCEPT ![t][a] = @ + 1] ELSE mailed
    /\ UNCHANGED <<row, api, slips, lost>>

SendNext(t, a) ==
    \E good, queued \in BOOLEAN :
        /\ SendOne(t, a, good, queued)
        /\ todo' = [todo EXCEPT ![t] = @ \ {a}]
        /\ ok'   = IF good THEN [ok EXCEPT ![t] = @ \cup {a}] ELSE ok
        /\ fail' = IF good THEN fail ELSE [fail EXCEPT ![t] = @ \cup {a}]
        /\ UNCHANGED <<queue, pc>>

\* Fault: a recipient that cannot be sent to fails the task.
SendOrRetry(t, a) ==
    \E good, queued \in BOOLEAN :
        /\ SendOne(t, a, good, queued)
        /\ IF good
           THEN /\ todo' = [todo EXCEPT ![t] = @ \ {a}]
                /\ ok' = [ok EXCEPT ![t] = @ \cup {a}]
                /\ UNCHANGED <<queue, pc, fail>>
           ELSE RetryOrArchive(t)

\* Fault: the error is logged and the recipient counted all the same.
SendAndCount(t, a) ==
    \E good, queued \in BOOLEAN :
        /\ SendOne(t, a, good, queued)
        /\ todo' = [todo EXCEPT ![t] = @ \ {a}]
        /\ ok'   = [ok EXCEPT ![t] = @ \cup {a}]
        /\ UNCHANGED <<queue, pc, fail>>

\* The next recipient; a failure is counted and the loop goes on.
SendToRecipient(t, a) == SendNext(t, a)

finalizeBroadcastOutcome(good, bad) ==
    IF good = 0 THEN "failed" ELSE IF bad = 0 THEN "sent" ELSE "partial"

\* The outcome is written whatever the status is by now; the error of the
\* UPDATE is dropped.
Finalize(t) ==
    LET b == BroadcastOf(t)
        good == Cardinality(ok[t])
        bad  == Cardinality(fail[t])
    IN  /\ pc[t] = "loop"
        /\ todo[t] = {}
        /\ \/ /\ status[b] # "deleted"
              /\ status' = [status EXCEPT ![b] = finalizeBroadcastOutcome(good, bad)]
              /\ sentCount'   = [sentCount EXCEPT ![b] = good]
              /\ failedCount' = [failedCount EXCEPT ![b] = bad]
              /\ UNCHANGED lost
           \/ /\ lost' = [lost EXCEPT ![b] = TRUE]
              /\ UNCHANGED row
        /\ Complete(t)
        /\ UNCHANGED <<api, mailed, slips>>

AttemptStep(t) ==
    \/ LoadBroadcast(t)
    \/ StepFails(t)
    \/ Claim(t)
    \/ ReadRecipients(t)
    \/ \E a \in Addrs : SendToRecipient(t, a)
    \/ Finalize(t)

Next ==
    \/ \E b \in Broadcasts : Create(b) \/ Send(b) \/ Cancel(b) \/ Delete(b)
    \/ \E t \in Tasks : \/ EnqueueSend(t)
                        \/ StartAttempt(t)
                        \/ LeaseExpires(t)
                        \/ AttemptStep(t)

Spec == Init /\ [][Next]_vars

\* Asynq takes every task some time and a started attempt runs on.
FairSpec ==
    /\ Spec
    /\ \A t \in Tasks : WF_vars(StartAttempt(t)) /\ WF_vars(AttemptStep(t))

-----------------------------------------------------------------------------
(***************************************************************************)
(* Properties.                                                             *)
(***************************************************************************)

\* An attempt that has claimed the row.
InFlight(t) == pc[t] \in {"recipients", "loop"}

Over(t) == taskState[t] \in {"completed", "archived"}

\* No attempt is under way and none that starts later can claim the row.
Settled(b) ==
    /\ \A k \in 0 .. MaxResends : ~InFlight(<<b, k>>)
    /\ \/ status[b] \in {"canceled", "deleted"} \cup Outcomes
       \/ /\ status[b] = "sending"
          /\ \A k \in 0 .. MaxResends : k < sends[b] => Over(<<b, k>>)

Phase(b) == IF status[b] = "none" THEN "absent"
            ELSE IF Settled(b) THEN "closed" ELSE "open"

Phases == [b \in Broadcasts |-> Phase(b)]

MailedTo(a) == [t \in Tasks |-> mailed[t][a]]

Promise(a) == INSTANCE OutboundPromise
                  WITH Emails <- Broadcasts, MaxReschedules <- MaxResends,
                       phase  <- Phases, copies <- MailedTo(a), reported <- {}

\* For each recipient a broadcast keeps the promise that a single email keeps,
\* and no report of the provider ever opens one again.
\* In particular one that is canceled before an attempt claims it is sent to
\* nobody, and one that has its outcome is not sent again by the older task of a
\* second Send, although the retry of an interrupted attempt may claim it.
KeepsPromise ==
    /\ \A a \in Addrs : Promise(a)!Init
    /\ [][\A a \in Addrs : Promise(a)!Next \/ UNCHANGED Promise(a)!vars]_vars

\* A task sends a recipient a second email only after an attempt died in its
\* loop: a recipient that cannot be sent to does not bring the others a copy.
CopiesExplained ==
    \A t \in Tasks : \A a \in Addrs : mailed[t][a] <= slips[t] + 1

Reached(b) == {a \in Addrs : \E k \in 0 .. MaxResends : mailed[<<b, k>>][a] > 0}

\* The outcome tells what was done, if one task did it without interruption:
\* sent_count were queued, and nobody that is not counted.  Although the row may
\* be canceled and the audience change meanwhile.
OutcomeIsHonest ==
    \A b \in Broadcasts :
        status[b] \in Outcomes /\ sends[b] = 1 /\ slips[<<b, 0>>] = 0
        => LET reached == Cardinality(Reached(b)) IN
           /\ sentCount[b] <= reached
           /\ reached <= sentCount[b] + failedCount[b]
           /\ status[b] = "sent" => reached = sentCount[b]

\* A broadcast whose task is queued gets its outcome (or is canceled or
\* deleted), also when the worker that had claimed it died.
QueuedIsFinished ==
    \A b \in Broadcasts :
        status[b] \in Waiting /\ taskState[<<b, 0>>] # "none"
        ~> \/ status[b] \notin Waiting
           \/ lost[b]
           \/ taskState[<<b, 0>>] = "archived"

=============================================================================

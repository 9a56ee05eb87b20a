-------------------------- MODULE Broadcast_proofs --------------------------
(***************************************************************************)
(* Theorems about Broadcast, for every set of broadcasts, every finite set *)
(* of addresses and every value of the bounds.                             *)
(***************************************************************************)
EXTENDS Broadcast, FiniteSetTheorems, TLAPS

USE BroadcastAssumption

-----------------------------------------------------------------------------
(***************************************************************************)
(* The inductive invariant.                                                *)
(***************************************************************************)

\* Send number k of a broadcast was called exactly when it has a call in sendPc,
\* and a task is stored only by the call that enqueues it.
Numbered(b) ==
    \A k \in 0 .. MaxResends : sendPc[<<b, k>>] # "none" => k < sends[b]

Stored(t) ==
    /\ sendPc[t] # "done" => taskState[t] = "none"
    /\ pc[t] # "idle" => taskState[t] = "active"
    /\ taskState[t] = "none" => slips[t] = 0

\* The emails of an address are as many as the interruptions, except while the
\* attempt is past the address and after the task completed.
Counted(t, a) ==
    /\ mailed[t][a] <= slips[t] + 1
    /\ \/ mailed[t][a] <= slips[t]
       \/ taskState[t] = "completed"
       \/ pc[t] = "loop" /\ a \notin todo[t]

\* The counters of an attempt tell what its task has done, if no earlier attempt
\* died in its loop.
Tallied(t) ==
    slips[t] = 0 =>
      /\ taskState[t] # "completed" =>
           \A a \in Addrs : mailed[t][a] > 0 => pc[t] = "loop" /\ a \in ok[t] \cup fail[t]
      /\ \A a \in ok[t] : mailed[t][a] > 0

\* The counts in the row are those of two sets that enclose the recipients of
\* the task.
Enclosed(b) ==
    \E good, bad \in SUBSET Addrs :
       /\ sentCount[b] = Cardinality(good)
       /\ failedCount[b] = Cardinality(bad)
       /\ \A a \in good : mailed[<<b, 0>>][a] > 0
       /\ \A a \in Addrs : mailed[<<b, 0>>][a] > 0 => a \in good \cup bad
       /\ status[b] = "sent" => bad = {}

Recorded(b) ==
    status[b] \in Outcomes /\ sends[b] <= 1 /\ slips[<<b, 0>>] = 0
    => taskState[<<b, 0>>] = "completed" /\ Enclosed(b)

IInv ==
    /\ TypeOK
    /\ \A b \in Broadcasts : Numbered(b)
    /\ \A t \in Tasks : Stored(t)
    /\ \A t \in Tasks, a \in Addrs : Counted(t, a)
    /\ \A t \in Tasks : Tallied(t)
    /\ \A b \in Broadcasts : Recorded(b)

\* What the proofs need to know of tasks.
LEMMA TaskFacts ==
  /\ \A t \in Tasks : BroadcastOf(t) \in Broadcasts
  /\ \A b \in Broadcasts, k \in 0 .. MaxResends : <<b, k>> \in Tasks
  BY DEF Tasks, BroadcastOf

LEMMA CountFacts ==
  ASSUME NEW S \in SUBSET Addrs
  PROVE  Cardinality(S) \in Nat
  BY FS_Subset, FS_CardinalityType

-----------------------------------------------------------------------------
(***************************************************************************)
(* Type correctness.                                                       *)
(***************************************************************************)

LEMMA InitIInv == Init => IInv
  <1> SUFFICES ASSUME Init PROVE IInv
    OBVIOUS
  <1>1. TypeOK
    BY DEF Init, TypeOK, Statuses
  <1>2. \A b \in Broadcasts : Numbered(b)
    BY TaskFacts DEF Init, Numbered
  <1>3. \A t \in Tasks : Stored(t) /\ Tallied(t) /\ \A a \in Addrs : Counted(t, a)
    BY DEF Init, Stored, Tallied, Counted
  <1>4. \A b \in Broadcasts : Recorded(b)
    BY DEF Init, Recorded, Outcomes
  <1> QED BY <1>1, <1>2, <1>3, <1>4 DEF IInv

\* The row and the calls have their types.
RowTyped ==
    /\ status      \in [Broadcasts -> Statuses]
    /\ sentCount   \in [Broadcasts -> Nat]
    /\ failedCount \in [Broadcasts -> Nat]

ApiTyped ==
    /\ sends  \in [Broadcasts -> 0 .. MaxResends + 1]
    /\ sendPc \in [Tasks -> {"none", "enqueue", "done"}]

QueueTyped ==
    /\ taskState \in [Tasks -> {"none", "pending", "active", "retry", "completed",
                                "archived"}]
    /\ retried   \in [Tasks -> 0 .. MaxRetry]

AttemptTyped ==
    /\ pc   \in [Tasks -> {"idle", "load", "claim", "recipients", "loop"}]
    /\ todo \in [Tasks -> SUBSET Addrs]
    /\ ok   \in [Tasks -> SUBSET Addrs]
    /\ fail \in [Tasks -> SUBSET Addrs]

HistoryTyped ==
    /\ mailed \in [Tasks -> [Addrs -> Nat]]
    /\ slips  \in [Tasks -> Nat]
    /\ lost   \in [Broadcasts -> BOOLEAN]

LEMMA Typed ==
  TypeOK <=> RowTyped /\ ApiTyped /\ QueueTyped /\ AttemptTyped /\ HistoryTyped
  BY DEF TypeOK, RowTyped, ApiTyped, QueueTyped, AttemptTyped, HistoryTyped

LEMMA EndTyped ==
  ASSUME TypeOK, NEW t \in Tasks, Complete(t) \/ RetryOrArchive(t)
  PROVE  QueueTyped' /\ AttemptTyped'
  <1>1. CASE Complete(t)
    BY <1>1 DEF TypeOK, Complete, EndAttempt, QueueTyped, AttemptTyped
  <1>2. CASE RetryOrArchive(t)
    <2>1. AttemptTyped'
      BY <1>2 DEF TypeOK, RetryOrArchive, RetryWhile, EndAttempt, AttemptTyped
    <2>2. QueueTyped'
      <3>1. retried[t] \in 0 .. MaxRetry
        BY DEF TypeOK
      <3>2. CASE retried[t] < MaxRetry
        <4>1. retried[t] + 1 \in 0 .. MaxRetry
          BY <3>1, <3>2
        <4>2. /\ taskState' = [taskState EXCEPT ![t] = "retry"]
              /\ retried' = [retried EXCEPT ![t] = retried[t] + 1]
          BY <1>2, <3>2 DEF RetryOrArchive, RetryWhile
        <4> QED BY <4>1, <4>2 DEF TypeOK, QueueTyped
      <3>3. CASE ~(retried[t] < MaxRetry)
        BY <1>2, <3>3 DEF TypeOK, RetryOrArchive, RetryWhile, QueueTyped
      <3> QED BY <3>2, <3>3
    <2> QED BY <2>1, <2>2
  <1> QED BY <1>1, <1>2

LEMMA NextTypeOK ==
  ASSUME IInv, Next
  PROVE  TypeOK'
  <1> USE DEF row, api, queue, attempt, history
  <1>0. TypeOK /\ RowTyped /\ ApiTyped /\ QueueTyped /\ AttemptTyped /\ HistoryTyped
    BY Typed DEF IInv
  <1>1. ASSUME NEW b \in Broadcasts, Create(b) \/ Cancel(b) \/ Delete(b) PROVE TypeOK'
    BY <1>0, <1>1 DEF TypeOK, Create, Cancel, Delete, SetStatus, Statuses
  <1>2. ASSUME NEW b \in Broadcasts, Send(b) PROVE TypeOK'
    <2>1. PICK new \in {"queued", "scheduled"} : SetStatus(b, new)
      BY <1>2 DEF Send
    <2>2. RowTyped'
      BY <1>0, <2>1 DEF SetStatus, RowTyped, Statuses, Waiting
    <2>3. ApiTyped'
      <3>1. sends[b] \in 0 .. MaxResends /\ sends[b] + 1 \in 0 .. MaxResends + 1
        BY <1>0, <1>2 DEF Send, ApiTyped
      <3>2. sends' \in [Broadcasts -> 0 .. MaxResends + 1]
        BY <1>0, <1>2, <3>1 DEF Send, ApiTyped
      <3>3. sendPc' \in [Tasks -> {"none", "enqueue", "done"}]
        BY <1>0, <1>2 DEF Send, ApiTyped
      <3> QED BY <3>2, <3>3 DEF ApiTyped
    <2>4. UNCHANGED <<queue, attempt, history>>
      BY <2>1 DEF SetStatus
    <2> QED BY <1>0, <2>2, <2>3, <2>4, Typed DEF TypeOK, RowTyped, ApiTyped
  <1>3. ASSUME NEW t \in Tasks, EnqueueSend(t) PROVE TypeOK'
    BY <1>0, <1>3 DEF TypeOK, EnqueueSend
  <1>4. ASSUME NEW t \in Tasks, StartAttempt(t) PROVE TypeOK'
    BY <1>0, <1>4 DEF TypeOK, StartAttempt
  <1>5. ASSUME NEW t \in Tasks, LeaseExpires(t) PROVE TypeOK'
    <2>1. QueueTyped' /\ AttemptTyped'
      BY <1>0, <1>5, EndTyped DEF LeaseExpires
    <2>2. slips' \in [Tasks -> Nat] /\ UNCHANGED <<row, api, mailed, lost>>
      BY <1>0, <1>5 DEF LeaseExpires, HistoryTyped
    <2> QED BY <1>0, <2>1, <2>2 DEF TypeOK, QueueTyped, AttemptTyped
  <1>6. ASSUME NEW t \in Tasks, LoadBroadcast(t) PROVE TypeOK'
    <2>1. UNCHANGED <<row, api, history>>
      BY <1>6 DEF LoadBroadcast
    <2>2. CASE status[BroadcastOf(t)] \in {"canceled"} \cup Outcomes
      <3>1. QueueTyped' /\ AttemptTyped'
        BY <1>0, <1>6, <2>2, EndTyped DEF LoadBroadcast
      <3> QED BY <1>0, <2>1, <3>1 DEF TypeOK, QueueTyped, AttemptTyped
    <2>3. CASE status[BroadcastOf(t)] \notin {"canceled"} \cup Outcomes
      BY <1>0, <1>6, <2>1, <2>3 DEF TypeOK, LoadBroadcast
    <2> QED BY <2>2, <2>3
  <1>7. ASSUME NEW t \in Tasks, StepFails(t) PROVE TypeOK'
    <2>1. QueueTyped' /\ AttemptTyped' /\ UNCHANGED <<row, api, history>>
      BY <1>0, <1>7, EndTyped DEF StepFails
    <2> QED BY <1>0, <2>1 DEF TypeOK, QueueTyped, AttemptTyped
  <1>8. ASSUME NEW t \in Tasks, Claim(t) PROVE TypeOK'
    <2>1. UNCHANGED <<sentCount, failedCount, api, history>>
      BY <1>8 DEF Claim, ClaimFrom
    <2>2. CASE status[BroadcastOf(t)] \notin Waiting
      <3>1. QueueTyped' /\ AttemptTyped' /\ UNCHANGED status
        BY <1>0, <1>8, <2>2, EndTyped DEF Claim, ClaimFrom
      <3> QED BY <1>0, <2>1, <3>1 DEF TypeOK, QueueTyped, AttemptTyped
    <2>3. CASE status[BroadcastOf(t)] \in Waiting
      <3>1. status' \in [Broadcasts -> Statuses]
        BY <1>0, <1>8, <2>3, TaskFacts DEF Claim, ClaimFrom, RowTyped, Statuses, Waiting
      <3>2. pc' \in [Tasks -> {"idle", "load", "claim", "recipients", "loop"}]
        BY <1>0, <1>8, <2>3 DEF Claim, ClaimFrom, AttemptTyped
      <3>3. UNCHANGED <<queue, todo, ok, fail>>
        BY <1>8, <2>3 DEF Claim, ClaimFrom
      <3> QED BY <1>0, <2>1, <3>1, <3>2, <3>3 DEF TypeOK
    <2> QED BY <2>2, <2>3
  <1>9. ASSUME NEW t \in Tasks, ReadRecipients(t) PROVE TypeOK'
    BY <1>0, <1>9 DEF TypeOK, ReadRecipients
  <1>10. ASSUME NEW t \in Tasks, NEW a \in Addrs, SendToRecipient(t, a) PROVE TypeOK'
    <2>1. UNCHANGED <<row, api, queue, pc, slips, lost>>
      BY <1>10 DEF SendToRecipient, SendNext, SendOne
    <2>2. mailed' \in [Tasks -> [Addrs -> Nat]]
      BY <1>0, <1>10 DEF SendToRecipient, SendNext, SendOne, HistoryTyped
    <2>3. /\ todo' \in [Tasks -> SUBSET Addrs]
          /\ ok' \in [Tasks -> SUBSET Addrs]
          /\ fail' \in [Tasks -> SUBSET Addrs]
      BY <1>0, <1>10 DEF SendToRecipient, SendNext, AttemptTyped
    <2> QED BY <1>0, <2>1, <2>2, <2>3 DEF TypeOK
  <1>11. ASSUME NEW t \in Tasks, Finalize(t) PROVE TypeOK'
    <2>1. QueueTyped' /\ AttemptTyped' /\ UNCHANGED <<api, mailed, slips>>
      BY <1>0, <1>11, EndTyped DEF Finalize
    <2>2. Cardinality(ok[t]) \in Nat /\ Cardinality(fail[t]) \in Nat
      BY <1>0, CountFacts DEF AttemptTyped
    <2>3. RowTyped'
      BY <1>0, <1>11, <2>2 DEF Finalize, RowTyped, finalizeBroadcastOutcome, Statuses, Outcomes
    <2>4. lost' \in [Broadcasts -> BOOLEAN]
      BY <1>0, <1>11 DEF Finalize, HistoryTyped
    <2> QED BY <1>0, <2>1, <2>3, <2>4 DEF TypeOK, RowTyped, QueueTyped, AttemptTyped
  <1> QED BY <1>1, <1>2, <1>3, <1>4, <1>5, <1>6, <1>7, <1>8, <1>9, <1>10, <1>11
          DEF Next, AttemptStep

-----------------------------------------------------------------------------
(***************************************************************************)
(* The other conjuncts.                                                    *)
(***************************************************************************)

LEMMA NextNumbered ==
  ASSUME IInv, Next, NEW d \in Broadcasts
  PROVE  Numbered(d)'
  <1>0. TypeOK /\ TypeOK' /\ Numbered(d)
    BY NextTypeOK DEF IInv
  <1>1. ASSUME NEW b \in Broadcasts, Send(b) PROVE Numbered(d)'
    <2>1. /\ sends' = [sends EXCEPT ![b] = sends[b] + 1]
          /\ sendPc' = [sendPc EXCEPT ![<<b, sends[b]>>] = "enqueue"]
          /\ sends[b] \in Nat /\ sends[d] \in Nat
      BY <1>0, <1>1 DEF Send, TypeOK
    <2>2. SUFFICES ASSUME NEW k \in 0 .. MaxResends, sendPc'[<<d, k>>] # "none"
                   PROVE  k < sends'[d]
      BY DEF Numbered
    <2>3. CASE d = b /\ k = sends[b]
      BY <1>0, <2>1, <2>3 DEF TypeOK
    <2>4. CASE ~(d = b /\ k = sends[b])
      <3>1. sendPc'[<<d, k>>] = sendPc[<<d, k>>]
        BY <1>0, <2>1, <2>4, TaskFacts DEF TypeOK
      <3>2. k < sends[d]
        BY <1>0, <2>2, <3>1 DEF Numbered
      <3> QED BY <1>0, <2>1, <3>2 DEF TypeOK
    <2> QED BY <2>3, <2>4
  <1>2. ASSUME NEW t \in Tasks, EnqueueSend(t) PROVE Numbered(d)'
    BY <1>0, <1>2, TaskFacts DEF Numbered, EnqueueSend, TypeOK
  <1>3. ASSUME UNCHANGED api PROVE Numbered(d)'
    BY <1>0, <1>3 DEF Numbered, api
  <1>4. ASSUME NEW b \in Broadcasts, Create(b) \/ Cancel(b) \/ Delete(b) PROVE UNCHANGED api
    BY <1>4 DEF Create, Cancel, Delete
  <1>5. ASSUME NEW t \in Tasks, StartAttempt(t) \/ LeaseExpires(t) \/ AttemptStep(t)
        PROVE  UNCHANGED api
    BY <1>5 DEF StartAttempt, LeaseExpires, AttemptStep, LoadBroadcast, StepFails, Claim,
                ClaimFrom, ReadRecipients, SendToRecipient, SendNext, SendOne, Finalize
  <1> QED BY <1>1, <1>2, <1>3, <1>4, <1>5 DEF Next

\* The end of an attempt, for the task and for the others.
LEMMA EndFacts ==
  ASSUME TypeOK, NEW t \in Tasks, NEW u \in Tasks, Complete(t) \/ RetryOrArchive(t)
  PROVE  /\ pc'[t] = "idle"
         /\ taskState'[t] \in {"completed", "retry", "archived"}
         /\ Complete(t) => taskState'[t] = "completed"
         /\ u # t => pc'[u] = pc[u] /\ taskState'[u] = taskState[u] /\ todo'[u] = todo[u]
  BY DEF TypeOK, Complete, RetryOrArchive, RetryWhile, EndAttempt

LEMMA NextStored ==
  ASSUME IInv, Next, NEW u \in Tasks
  PROVE  Stored(u)'
  <1>0. TypeOK /\ Stored(u) /\ \A b \in Broadcasts : Numbered(b)
    BY DEF IInv
  <1>1. ASSUME NEW b \in Broadcasts, Create(b) \/ Cancel(b) \/ Delete(b) PROVE Stored(u)'
    BY <1>0, <1>1 DEF Stored, Create, Cancel, Delete, SetStatus, api, queue, attempt, history
  <1>2. ASSUME NEW b \in Broadcasts, Send(b) PROVE Stored(u)'
    <2>1. UNCHANGED <<taskState, pc, slips>>
      BY <1>2 DEF Send, SetStatus, queue, attempt, history
    <2>2. sendPc' = [sendPc EXCEPT ![<<b, sends[b]>>] = "enqueue"] /\ sends[b] \in 0 .. MaxResends
      BY <1>0, <1>2 DEF Send, TypeOK
    <2>3. sendPc[<<b, sends[b]>>] # "done"
      <3>1. ~(sends[b] < sends[b])
        BY <2>2
      <3>2. sendPc[<<b, sends[b]>>] # "none" => sends[b] < sends[b]
        BY <1>0, <2>2 DEF Numbered
      <3> QED BY <3>1, <3>2
    <2>4. sendPc'[u] # "done" => sendPc[u] # "done"
      BY <1>0, <2>2, <2>3, TaskFacts DEF TypeOK
    <2> QED BY <1>0, <2>1, <2>4 DEF Stored
  <1>3. ASSUME NEW t \in Tasks, EnqueueSend(t) PROVE Stored(u)'
    BY <1>0, <1>3 DEF Stored, EnqueueSend, TypeOK, attempt, history
  <1>4. ASSUME NEW t \in Tasks, StartAttempt(t) PROVE Stored(u)'
    BY <1>0, <1>4 DEF Stored, StartAttempt, TypeOK, api, history
  <1>5. ASSUME NEW t \in Tasks, Stored(t), pc[t] # "idle" \/ taskState[t] = "active",
               Complete(t) \/ RetryOrArchive(t), UNCHANGED api,
               u # t => slips'[u] = slips[u]
        PROVE  Stored(u)'
    <2>1. sendPc[t] = "done"
      BY <1>5 DEF Stored
    <2> QED BY <1>0, <1>5, <2>1, EndFacts DEF Stored, api
  <1>6. ASSUME NEW t \in Tasks, pc[t] # "idle", pc' = [pc EXCEPT ![t] = pc'[t]],
               UNCHANGED <<api, taskState, slips>>
        PROVE  Stored(u)'
    BY <1>0, <1>6 DEF Stored, TypeOK, api
  <1>7. ASSUME NEW t \in Tasks, LeaseExpires(t) PROVE Stored(u)'
    <2>1. u # t => slips'[u] = slips[u]
      BY <1>0, <1>7 DEF LeaseExpires, TypeOK
    <2> QED BY <1>5, <1>7, <2>1 DEF IInv, LeaseExpires
  <1>8. ASSUME NEW t \in Tasks, LoadBroadcast(t) \/ StepFails(t) \/ Claim(t) PROVE Stored(u)'
    <2>1. pc[t] # "idle" /\ UNCHANGED <<api, slips>>
      BY <1>8 DEF LoadBroadcast, StepFails, Claim, ClaimFrom, history
    <2>2. \/ Complete(t) \/ RetryOrArchive(t)
          \/ pc' = [pc EXCEPT ![t] = pc'[t]] /\ UNCHANGED taskState
      BY <1>0, <1>8 DEF LoadBroadcast, StepFails, Claim, ClaimFrom, queue, TypeOK
    <2> QED BY <1>5, <1>6, <2>1, <2>2 DEF IInv
  <1>9. ASSUME NEW t \in Tasks, ReadRecipients(t) PROVE Stored(u)'
    BY <1>0, <1>6, <1>9 DEF ReadRecipients, queue, TypeOK, history
  <1>10. ASSUME NEW t \in Tasks, NEW a \in Addrs, SendToRecipient(t, a) PROVE Stored(u)'
    BY <1>0, <1>10 DEF SendToRecipient, SendNext, SendOne, Stored, queue, api
  <1>11. ASSUME NEW t \in Tasks, Finalize(t) PROVE Stored(u)'
    BY <1>5, <1>11 DEF IInv, Finalize
  <1> QED BY <1>1, <1>2, <1>3, <1>4, <1>7, <1>8, <1>9, <1>10, <1>11 DEF Next, AttemptStep

LEMMA NextCounted ==
  ASSUME IInv, Next, NEW u \in Tasks, NEW c \in Addrs
  PROVE  Counted(u, c)'
  <1>0. /\ TypeOK /\ Stored(u) /\ Counted(u, c)
        /\ mailed[u][c] \in Nat /\ slips[u] \in Nat
    BY DEF IInv, TypeOK
  <1>1. ASSUME NEW b \in Broadcasts, Create(b) \/ Cancel(b) \/ Delete(b) \/ Send(b)
        PROVE  Counted(u, c)'
    BY <1>0, <1>1 DEF Counted, Create, Cancel, Delete, Send, SetStatus, queue, attempt, history
  <1>2. ASSUME NEW t \in Tasks, EnqueueSend(t) PROVE Counted(u, c)'
    BY <1>0, <1>2 DEF Counted, Stored, EnqueueSend, TypeOK, attempt, history
  <1>3. ASSUME NEW t \in Tasks, StartAttempt(t) PROVE Counted(u, c)'
    BY <1>0, <1>3 DEF Counted, Stored, StartAttempt, TypeOK, history
  <1>4. ASSUME NEW t \in Tasks, LeaseExpires(t) PROVE Counted(u, c)'
    <2>1. mailed' = mailed
      BY <1>4 DEF LeaseExpires
    <2>2. CASE u = t
      BY <1>0, <1>4, <2>1, <2>2 DEF Counted, LeaseExpires, TypeOK
    <2>3. CASE u # t
      <3>1. slips'[u] = slips[u]
        BY <1>0, <1>4, <2>3 DEF LeaseExpires, TypeOK
      <3> QED BY <1>0, <1>4, <2>1, <2>3, <3>1, EndFacts DEF Counted, LeaseExpires
    <2> QED BY <2>2, <2>3
  <1>5. ASSUME NEW t \in Tasks, LoadBroadcast(t) \/ StepFails(t) \/ Claim(t)
        PROVE  Counted(u, c)'
    <2>1. UNCHANGED <<mailed, slips>>
      BY <1>5 DEF LoadBroadcast, StepFails, Claim, ClaimFrom, history
    <2>2. u = t => mailed[u][c] <= slips[u]
      BY <1>0, <1>5 DEF Counted, Stored, LoadBroadcast, StepFails, Claim, ClaimFrom
    <2>3. u # t => pc'[u] = pc[u] /\ taskState'[u] = taskState[u] /\ todo'[u] = todo[u]
      <3>1. CASE Complete(t) \/ RetryOrArchive(t)
        BY <1>0, <3>1, EndFacts
      <3>2. CASE pc' = [pc EXCEPT ![t] = pc'[t]] /\ UNCHANGED <<taskState, todo>>
        BY <1>0, <3>2 DEF TypeOK
      <3> QED BY <1>0, <1>5, <3>1, <3>2
              DEF LoadBroadcast, StepFails, Claim, ClaimFrom, queue, TypeOK
    <2> QED BY <1>0, <2>1, <2>2, <2>3 DEF Counted
  <1>6. ASSUME NEW t \in Tasks, ReadRecipients(t) PROVE Counted(u, c)'
    BY <1>0, <1>6 DEF Counted, Stored, ReadRecipients, TypeOK, queue, history
  <1>7. ASSUME NEW t \in Tasks, NEW a \in Addrs, SendToRecipient(t, a) PROVE Counted(u, c)'
    <2>1. /\ pc[t] = "loop" /\ a \in todo[t]
          /\ mailed' \in {mailed, [mailed EXCEPT ![t][a] = mailed[t][a] + 1]}
          /\ todo' = [todo EXCEPT ![t] = todo[t] \ {a}]
          /\ UNCHANGED <<taskState, pc, slips>>
      BY <1>7 DEF SendToRecipient, SendNext, SendOne, queue
    <2>2. CASE u = t /\ c = a
      <3>1. mailed[u][c] <= slips[u]
        BY <1>0, <2>1, <2>2 DEF Counted, Stored
      <3>2. mailed'[u][c] <= mailed[u][c] + 1
        BY <1>0, <2>1, <2>2 DEF TypeOK
      <3>3. mailed'[u][c] \in Nat
        BY <1>0, NextTypeOK DEF TypeOK
      <3>4. pc'[u] = "loop" /\ c \notin todo'[u]
        BY <1>0, <2>1, <2>2 DEF TypeOK
      <3> QED BY <1>0, <2>1, <3>1, <3>2, <3>3, <3>4 DEF Counted
    <2>3. CASE ~(u = t /\ c = a)
      <3>1. mailed'[u][c] = mailed[u][c]
        BY <1>0, <2>1, <2>3 DEF TypeOK
      <3>2. c \notin todo[u] => c \notin todo'[u]
        BY <1>0, <2>1, <2>3 DEF TypeOK
      <3> QED BY <1>0, <2>1, <3>1, <3>2 DEF Counted
    <2> QED BY <2>2, <2>3
  <1>8. ASSUME NEW t \in Tasks, Finalize(t) PROVE Counted(u, c)'
    BY <1>0, <1>8, EndFacts DEF Counted, Finalize
  <1> QED BY <1>1, <1>2, <1>3, <1>4, <1>5, <1>6, <1>7, <1>8 DEF Next, AttemptStep

\* What the steps of an attempt before its loop leave alone.
LEMMA BeforeLoop ==
  ASSUME TypeOK, NEW t \in Tasks, LoadBroadcast(t) \/ StepFails(t) \/ Claim(t)
  PROVE  /\ pc[t] \in {"load", "claim", "recipients"} /\ pc'[t] # "loop"
         /\ ok'[t] \in {ok[t], {}}
         /\ UNCHANGED <<sentCount, failedCount, api, mailed, slips>>
         /\ \A u \in Tasks \ {t} : /\ pc'[u] = pc[u] /\ taskState'[u] = taskState[u]
                                   /\ ok'[u] = ok[u] /\ fail'[u] = fail[u]
         /\ \A b \in Broadcasts : status'[b] \in {status[b], "sending"}
  <1>1. /\ pc[t] \in {"load", "claim", "recipients"}
        /\ UNCHANGED <<sentCount, failedCount, api, mailed, slips>>
    BY DEF LoadBroadcast, StepFails, Claim, ClaimFrom, row, history
  <1>2. \A b \in Broadcasts : status'[b] \in {status[b], "sending"}
    BY TaskFacts DEF TypeOK, LoadBroadcast, StepFails, Claim, ClaimFrom, row
  <1>3. \/ Complete(t) \/ RetryOrArchive(t)
        \/ /\ pc' \in {[pc EXCEPT ![t] = "claim"], [pc EXCEPT ![t] = "recipients"]}
           /\ UNCHANGED <<queue, ok, fail>>
    BY DEF LoadBroadcast, StepFails, Claim, ClaimFrom
  <1>4. CASE Complete(t) \/ RetryOrArchive(t)
    <2>1. EndAttempt(t) /\ \A u \in Tasks \ {t} : taskState'[u] = taskState[u]
      BY <1>4 DEF Complete, RetryOrArchive, RetryWhile, TypeOK
    <2> QED BY <1>1, <1>2, <2>1 DEF EndAttempt, TypeOK
  <1>5. CASE /\ pc' \in {[pc EXCEPT ![t] = "claim"], [pc EXCEPT ![t] = "recipients"]}
             /\ UNCHANGED <<queue, ok, fail>>
    BY <1>1, <1>2, <1>5 DEF TypeOK, queue
  <1> QED BY <1>3, <1>4, <1>5

LEMMA NextTallied ==
  ASSUME IInv, Next, NEW u \in Tasks
  PROVE  Tallied(u)'
  <1>0. TypeOK /\ Stored(u) /\ Tallied(u)
    BY DEF IInv
  <1>1. ASSUME NEW b \in Broadcasts, Create(b) \/ Cancel(b) \/ Delete(b) \/ Send(b)
        PROVE  Tallied(u)'
    BY <1>0, <1>1 DEF Tallied, Create, Cancel, Delete, Send, SetStatus, queue, attempt, history
  <1>2. ASSUME NEW t \in Tasks, EnqueueSend(t) PROVE Tallied(u)'
    BY <1>0, <1>2 DEF Tallied, Stored, EnqueueSend, TypeOK, attempt, history
  <1>3. ASSUME NEW t \in Tasks, StartAttempt(t) PROVE Tallied(u)'
    BY <1>0, <1>3 DEF Tallied, Stored, StartAttempt, TypeOK, history
  <1>4. ASSUME NEW t \in Tasks, LeaseExpires(t) PROVE Tallied(u)'
    <2>1. mailed' = mailed /\ EndAttempt(t)
      BY <1>4 DEF LeaseExpires, RetryOrArchive, RetryWhile
    <2>2. CASE u = t
      BY <1>0, <1>4, <2>1, <2>2 DEF Tallied, LeaseExpires, EndAttempt, TypeOK
    <2>3. CASE u # t
      <3>1. slips'[u] = slips[u] /\ taskState'[u] = taskState[u]
        BY <1>0, <1>4, <2>3, EndFacts DEF LeaseExpires, TypeOK
      <3> QED BY <1>0, <2>1, <2>3, <3>1 DEF Tallied, EndAttempt, TypeOK
    <2> QED BY <2>2, <2>3
  <1>5. ASSUME NEW t \in Tasks, LoadBroadcast(t) \/ StepFails(t) \/ Claim(t)
        PROVE  Tallied(u)'
    <2>1. CASE u = t
      BY <1>0, <1>5, <2>1, BeforeLoop DEF Tallied, Stored
    <2>2. CASE u # t
      BY <1>0, <1>5, <2>2, BeforeLoop DEF Tallied
    <2> QED BY <2>1, <2>2
  <1>6. ASSUME NEW t \in Tasks, ReadRecipients(t) PROVE Tallied(u)'
    BY <1>0, <1>6 DEF Tallied, Stored, ReadRecipients, TypeOK, queue, history
  <1>7. ASSUME NEW t \in Tasks, NEW a \in Addrs, SendToRecipient(t, a) PROVE Tallied(u)'
    <2>1. PICK good \in BOOLEAN, queued \in BOOLEAN :
             /\ SendOne(t, a, good, queued)
             /\ ok' = IF good THEN [ok EXCEPT ![t] = @ \cup {a}] ELSE ok
             /\ fail' = IF good THEN fail ELSE [fail EXCEPT ![t] = @ \cup {a}]
             /\ UNCHANGED <<queue, pc>>
      BY <1>7 DEF SendToRecipient, SendNext
    <2>2. pc[t] = "loop" /\ UNCHANGED <<taskState, pc, slips>>
      BY <2>1 DEF SendOne, queue
    <2>3. CASE u = t
      <3>1. a \in ok'[u] \cup fail'[u] /\ ok[u] \subseteq ok'[u] /\ fail[u] \subseteq fail'[u]
            /\ ok'[u] \subseteq ok[u] \cup {a}
        BY <1>0, <2>1, <2>3 DEF TypeOK
      <3>2. a \in ok'[u] => good \/ a \in ok[u]
        BY <1>0, <2>1, <2>3 DEF TypeOK
      <3>3. /\ mailed'[u][a] \in Nat /\ mailed[u][a] \in Nat /\ mailed'[u][a] >= mailed[u][a]
            /\ good => mailed'[u][a] > 0
            /\ \A c \in Addrs \ {a} : mailed'[u][c] = mailed[u][c]
        <4>1. mailed' = IF queued THEN [mailed EXCEPT ![t][a] = mailed[t][a] + 1] ELSE mailed
          BY <2>1 DEF SendOne
        <4>2. good => queued
          BY <2>1 DEF SendOne
        <4> QED BY <1>0, <2>3, <4>1, <4>2 DEF TypeOK
      <3>4. ok[u] \subseteq Addrs
        BY <1>0 DEF TypeOK
      <3> QED BY <1>0, <2>2, <2>3, <3>1, <3>2, <3>3, <3>4 DEF Tallied
    <2>4. CASE u # t
      <3>1. mailed'[u] = mailed[u] /\ ok'[u] = ok[u] /\ fail'[u] = fail[u]
        BY <1>0, <2>1, <2>4 DEF SendOne, TypeOK
      <3> QED BY <1>0, <2>2, <3>1 DEF Tallied
    <2> QED BY <2>3, <2>4
  <1>8. ASSUME NEW t \in Tasks, Finalize(t) PROVE Tallied(u)'
    <2>1. UNCHANGED <<mailed, slips>> /\ EndAttempt(t)
          /\ taskState' = [taskState EXCEPT ![t] = "completed"]
      BY <1>8 DEF Finalize, Complete
    <2> QED BY <1>0, <2>1 DEF Tallied, EndAttempt, TypeOK
  <1> QED BY <1>1, <1>2, <1>3, <1>4, <1>5, <1>6, <1>7, <1>8 DEF Next, AttemptStep

\* The row of a broadcast that was sent once is written by its only task.
LEMMA OnlyTask ==
  ASSUME IInv, NEW b \in Broadcasts, sends[b] <= 1, NEW t \in Tasks, BroadcastOf(t) = b,
         taskState[t] # "none"
  PROVE  t = <<b, 0>>
  <1>1. sendPc[t] = "done"
    BY DEF IInv, Stored
  <1>2. PICK k \in 0 .. MaxResends : t = <<b, k>>
    BY DEF Tasks, BroadcastOf
  <1>3. k < sends[b] /\ sends[b] \in Nat
    BY <1>1, <1>2 DEF IInv, Numbered, TypeOK
  <1> QED BY <1>2, <1>3

LEMMA NextRecorded ==
  ASSUME IInv, Next, NEW d \in Broadcasts
  PROVE  Recorded(d)'
  <1> DEFINE s == <<d, 0>>
  <1>0. TypeOK /\ Recorded(d) /\ s \in Tasks /\ Stored(s) /\ Tallied(s)
    BY TaskFacts DEF IInv
  <1>1. SUFFICES ASSUME status'[d] \in Outcomes, sends'[d] <= 1, slips'[s] = 0
                 PROVE  taskState'[s] = "completed" /\ Enclosed(d)'
    BY DEF Recorded
  <1>2. ASSUME sends'[d] = sends[d], status'[d] = status[d], sentCount'[d] = sentCount[d],
               failedCount'[d] = failedCount[d], slips[s] = 0,
               taskState[s] = "completed" =>
                 taskState'[s] = "completed" /\ mailed'[s] = mailed[s]
        PROVE  taskState'[s] = "completed" /\ Enclosed(d)'
    BY <1>0, <1>1, <1>2 DEF Recorded, Enclosed
  <1> HIDE DEF s
  <1>3. ASSUME NEW b \in Broadcasts, Create(b) \/ Cancel(b) \/ Delete(b) \/ Send(b)
        PROVE  taskState'[s] = "completed" /\ Enclosed(d)'
    <2>1. b # d
      BY <1>0, <1>1, <1>3 DEF Create, Cancel, Delete, Send, SetStatus, TypeOK, Outcomes
    <2>2. UNCHANGED <<sentCount, failedCount, slips, taskState, mailed>>
      BY <1>3 DEF Create, Cancel, Delete, Send, SetStatus, queue, history
    <2>3. status'[d] = status[d] /\ sends'[d] = sends[d]
      BY <1>0, <1>3, <2>1 DEF Create, Cancel, Delete, Send, SetStatus, TypeOK, api
    <2> QED BY <1>1, <1>2, <2>2, <2>3
  <1>4. ASSUME NEW t \in Tasks, EnqueueSend(t)
        PROVE  taskState'[s] = "completed" /\ Enclosed(d)'
    <2>1. UNCHANGED <<row, sends, history>>
      BY <1>4 DEF EnqueueSend
    <2>2. taskState[s] = "completed" => taskState'[s] = "completed"
      BY <1>0, <1>4 DEF EnqueueSend, Stored, TypeOK
    <2> QED BY <1>1, <1>2, <2>1, <2>2 DEF row, history
  <1>5. ASSUME NEW t \in Tasks, StartAttempt(t)
        PROVE  taskState'[s] = "completed" /\ Enclosed(d)'
    <2>1. UNCHANGED <<row, api, history>>
      BY <1>5 DEF StartAttempt
    <2>2. taskState[s] = "completed" => taskState'[s] = "completed"
      BY <1>0, <1>5 DEF StartAttempt, TypeOK
    <2> QED BY <1>1, <1>2, <2>1, <2>2 DEF row, api, history
  <1>6. ASSUME NEW t \in Tasks, LeaseExpires(t)
        PROVE  taskState'[s] = "completed" /\ Enclosed(d)'
    <2>1. UNCHANGED <<row, api, mailed>>
      BY <1>6 DEF LeaseExpires
    <2>2. slips[s] = 0
      BY <1>0, <1>1, <1>6 DEF LeaseExpires, TypeOK
    <2>3. taskState[s] = "completed" => taskState'[s] = "completed"
      BY <1>0, <1>6, EndFacts DEF LeaseExpires
    <2> QED BY <1>1, <1>2, <2>1, <2>2, <2>3 DEF row, api
  <1>7. ASSUME NEW t \in Tasks, LoadBroadcast(t) \/ StepFails(t) \/ Claim(t)
        PROVE  taskState'[s] = "completed" /\ Enclosed(d)'
    <2>1. status'[d] = status[d]
      BY <1>0, <1>1, <1>7, BeforeLoop DEF Outcomes
    <2>2. UNCHANGED <<sentCount, failedCount, api, mailed, slips>>
      BY <1>0, <1>7, BeforeLoop
    <2>3. taskState[s] = "completed" => taskState'[s] = "completed"
      BY <1>0, <1>7, BeforeLoop DEF Stored
    <2> QED BY <1>1, <1>2, <2>1, <2>2, <2>3 DEF api
  <1>8. ASSUME NEW t \in Tasks, ReadRecipients(t)
        PROVE  taskState'[s] = "completed" /\ Enclosed(d)'
    BY <1>1, <1>2, <1>8 DEF ReadRecipients, row, api, queue, history
  <1>9. ASSUME NEW t \in Tasks, NEW a \in Addrs, SendToRecipient(t, a)
        PROVE  taskState'[s] = "completed" /\ Enclosed(d)'
    <2>1. pc[t] = "loop" /\ UNCHANGED <<row, api, slips, taskState>>
      BY <1>9 DEF SendToRecipient, SendNext, SendOne, queue
    <2>2. taskState[s] = "completed" => mailed'[s] = mailed[s]
      BY <1>0, <1>9, <2>1 DEF Stored, SendToRecipient, SendNext, SendOne, TypeOK
    <2> QED BY <1>1, <1>2, <2>1, <2>2 DEF row, api
  <1>10. ASSUME NEW t \in Tasks, Finalize(t)
         PROVE  taskState'[s] = "completed" /\ Enclosed(d)'
    <2>0. /\ pc[t] = "loop" /\ UNCHANGED <<api, mailed, slips>>
          /\ taskState' = [taskState EXCEPT ![t] = "completed"]
      BY <1>10 DEF Finalize, Complete
    <2>1. CASE status'[d] = status[d] /\ sentCount'[d] = sentCount[d]
               /\ failedCount'[d] = failedCount[d]
      <3>1. taskState[s] = "completed" => taskState'[s] = "completed"
        BY <1>0, <2>0 DEF TypeOK
      <3> QED BY <1>1, <1>2, <2>0, <2>1, <3>1 DEF api
    <2>2. CASE ~(status'[d] = status[d] /\ sentCount'[d] = sentCount[d]
                 /\ failedCount'[d] = failedCount[d])
      <3>1. /\ BroadcastOf(t) = d
            /\ status' = [status EXCEPT ![d] =
                 finalizeBroadcastOutcome(Cardinality(ok[t]), Cardinality(fail[t]))]
            /\ sentCount' = [sentCount EXCEPT ![d] = Cardinality(ok[t])]
            /\ failedCount' = [failedCount EXCEPT ![d] = Cardinality(fail[t])]
        BY <1>0, <1>10, <2>2, TaskFacts DEF Finalize, TypeOK, row
      <3>2. t = s
        <4>1. taskState[t] = "active"
          BY <2>0 DEF IInv, Stored
        <4> QED BY <1>1, <2>0, <3>1, <4>1, OnlyTask DEF api, s
      <3>3. ok[s] \in SUBSET Addrs /\ fail[s] \in SUBSET Addrs
        BY <1>0 DEF TypeOK
      <3>4. /\ sentCount'[d] = Cardinality(ok[s]) /\ failedCount'[d] = Cardinality(fail[s])
            /\ status'[d] = finalizeBroadcastOutcome(Cardinality(ok[s]), Cardinality(fail[s]))
        BY <1>0, <3>1, <3>2 DEF TypeOK
      <3>5. status'[d] = "sent" => fail[s] = {}
        <4>1. status'[d] = "sent" => Cardinality(fail[s]) = 0
          BY <3>4 DEF finalizeBroadcastOutcome
        <4> QED BY <3>3, <4>1, FS_Subset, FS_EmptySet
      <3>6. /\ \A a \in ok[s] : mailed'[s][a] > 0
            /\ \A a \in Addrs : mailed'[s][a] > 0 => a \in ok[s] \cup fail[s]
        BY <1>0, <1>1, <2>0, <3>2 DEF Tallied, Stored
      <3>7. taskState'[s] = "completed"
        BY <1>0, <2>0, <3>2 DEF TypeOK
      <3>8. Enclosed(d)'
        BY <3>3, <3>4, <3>5, <3>6 DEF Enclosed, s
      <3> QED BY <3>7, <3>8
    <2> QED BY <2>1, <2>2
  <1> QED BY <1>3, <1>4, <1>5, <1>6, <1>7, <1>8, <1>9, <1>10 DEF Next, AttemptStep

LEMMA NextIInv ==
  ASSUME IInv, [Next]_vars
  PROVE  IInv'
  <1>1. CASE Next
    BY <1>1, NextTypeOK, NextNumbered, NextStored, NextCounted, NextTallied, NextRecorded DEF IInv
  <1>2. CASE UNCHANGED vars
    <2>1. UNCHANGED <<status, sentCount, failedCount, sends, sendPc, taskState, retried, pc,
                      todo, ok, fail, mailed, slips, lost>>
      BY <1>2 DEF vars, row, api, queue, attempt, history
    <2>2. TypeOK' /\ \A b \in Broadcasts : Numbered(b)'
      BY <2>1 DEF IInv, TypeOK, Numbered
    <2>3. \A t \in Tasks : Stored(t)' /\ Tallied(t)'
      BY <2>1 DEF IInv, Stored, Tallied
    <2>4. \A t \in Tasks, a \in Addrs : Counted(t, a)'
      BY <2>1 DEF IInv, Counted
    <2>5. \A b \in Broadcasts : Recorded(b)'
      <3>1. ASSUME NEW b \in Broadcasts, Enclosed(b) PROVE Enclosed(b)'
        BY <2>1, <3>1 DEF Enclosed
      <3> QED BY <2>1, <3>1 DEF IInv, Recorded
    <2> QED BY <2>2, <2>3, <2>4, <2>5 DEF IInv
  <1> QED BY <1>1, <1>2

-----------------------------------------------------------------------------
(***************************************************************************)
(* The theorems.                                                           *)
(***************************************************************************)

LEMMA Invariance == Spec => []IInv
  BY InitIInv, NextIInv, PTL DEF Spec

\* Every variable has its type.
THEOREM TypeCorrect == Spec => []TypeOK
  <1>1. IInv => TypeOK
    BY DEF IInv
  <1> QED BY <1>1, Invariance, PTL

\* HandleBroadcastSend queues no second email for a recipient unless an attempt
\* died in its loop, whatever is sent again, canceled, deleted or refused.
THEOREM CopiesAreExplained == Spec => []CopiesExplained
  <1>1. IInv => CopiesExplained
    BY DEF IInv, Counted, CopiesExplained
  <1> QED BY <1>1, Invariance, PTL

\* The outcome of a broadcast that one task sent without interruption tells what
\* was done: sent_count emails were queued at least, and none to a recipient that
\* neither count contains.
THEOREM OutcomesAreHonest == Spec => []OutcomeIsHonest
  <1>1. ASSUME IInv PROVE OutcomeIsHonest
    <2> SUFFICES ASSUME NEW b \in Broadcasts, status[b] \in Outcomes, sends[b] = 1,
                        slips[<<b, 0>>] = 0
                 PROVE  /\ sentCount[b] <= Cardinality(Reached(b))
                        /\ Cardinality(Reached(b)) <= sentCount[b] + failedCount[b]
                        /\ status[b] = "sent" => Cardinality(Reached(b)) = sentCount[b]
      BY DEF OutcomeIsHonest
    <2>1. PICK good \in SUBSET Addrs, bad \in SUBSET Addrs :
             /\ sentCount[b] = Cardinality(good)
             /\ failedCount[b] = Cardinality(bad)
             /\ \A a \in good : mailed[<<b, 0>>][a] > 0
             /\ \A a \in Addrs : mailed[<<b, 0>>][a] > 0 => a \in good \cup bad
             /\ status[b] = "sent" => bad = {}
      BY <1>1 DEF IInv, Recorded, Enclosed
    <2>2. \A k \in 0 .. MaxResends, a \in Addrs : mailed[<<b, k>>][a] > 0 => k = 0
      <3> SUFFICES ASSUME NEW k \in 0 .. MaxResends, k # 0, NEW a \in Addrs
                   PROVE  ~(mailed[<<b, k>>][a] > 0)
        OBVIOUS
      <3>1. <<b, k>> \in Tasks /\ BroadcastOf(<<b, k>>) = b /\ <<b, k>> # <<b, 0>>
        BY TaskFacts DEF BroadcastOf
      <3>2. taskState[<<b, k>>] = "none"
        BY <1>1, <3>1, OnlyTask
      <3>3. Stored(<<b, k>>) /\ Tallied(<<b, k>>)
        BY <1>1, <3>1 DEF IInv
      <3> QED BY <3>2, <3>3 DEF Stored, Tallied
    <2>3. Reached(b) = {a \in Addrs : mailed[<<b, 0>>][a] > 0}
      <3>1. 0 \in 0 .. MaxResends
        OBVIOUS
      <3> QED BY <2>2, <3>1 DEF Reached
    <2>4. /\ good \subseteq Reached(b) /\ Reached(b) \subseteq good \cup bad
          /\ status[b] = "sent" => Reached(b) = good
      BY <2>1, <2>3
    <2>5. /\ IsFiniteSet(good) /\ IsFiniteSet(bad) /\ IsFiniteSet(Reached(b))
          /\ IsFiniteSet(good \cup bad) /\ IsFiniteSet(good \cap bad)
      <3>1. /\ Reached(b) \subseteq Addrs
            /\ good \cup bad \subseteq Addrs /\ good \cap bad \subseteq Addrs
        BY <2>3
      <3> QED BY <3>1, FS_Subset
    <2>6. Cardinality(good) <= Cardinality(Reached(b))
      BY <2>4, <2>5, FS_Subset
    <2>7. Cardinality(Reached(b)) <= Cardinality(good \cup bad)
      BY <2>4, <2>5, FS_Subset
    <2>8. Cardinality(good \cup bad) <= Cardinality(good) + Cardinality(bad)
      <3>1. /\ Cardinality(good) \in Nat /\ Cardinality(bad) \in Nat
            /\ Cardinality(good \cap bad) \in Nat
        BY <2>5, FS_CardinalityType
      <3> QED BY <2>5, <3>1, FS_Union
    <2>9. /\ Cardinality(Reached(b)) \in Nat /\ Cardinality(good \cup bad) \in Nat
          /\ Cardinality(good) \in Nat /\ Cardinality(bad) \in Nat
      BY <2>5, FS_CardinalityType
    <2> QED BY <2>1, <2>4, <2>6, <2>7, <2>8, <2>9
  <1> QED BY <1>1, Invariance, PTL

-----------------------------------------------------------------------------
(***************************************************************************)
(* Broadcast implements OutboundPromise for each recipient: what a step    *)
(* does to the phase of the one broadcast it is about.                     *)
(***************************************************************************)

PromiseNext == \A a \in Addrs : Promise(a)!Next \/ UNCHANGED Promise(a)!vars

\* A step about broadcast b, as far as phases go.
OnlyBroadcast(b) ==
    \A d \in Broadcasts \ {b} :
        /\ status'[d] = status[d] /\ sends'[d] = sends[d]
        /\ \A k \in 0 .. MaxResends :
              pc'[<<d, k>>] = pc[<<d, k>>] /\ taskState'[<<d, k>>] = taskState[<<d, k>>]

LEMMA OthersStay ==
  ASSUME NEW t \in Tasks, UNCHANGED sends,
         \A u \in Tasks \ {t} : pc'[u] = pc[u] /\ taskState'[u] = taskState[u],
         \A d \in Broadcasts \ {BroadcastOf(t)} : status'[d] = status[d]
  PROVE  OnlyBroadcast(BroadcastOf(t))
  <1>1. ASSUME NEW d \in Broadcasts, d # BroadcastOf(t), NEW k \in 0 .. MaxResends
        PROVE  <<d, k>> \in Tasks /\ <<d, k>> # t
    BY <1>1 DEF Tasks, BroadcastOf
  <1> QED BY <1>1 DEF OnlyBroadcast

LEMMA PhasesStep ==
  ASSUME NEW b \in Broadcasts, OnlyBroadcast(b)
  PROVE  Phases' = [Phases EXCEPT ![b] = Phase(b)']
  <1>1. ASSUME NEW d \in Broadcasts, d # b
        PROVE  Phase(d)' = Phase(d)
    <2>1. /\ status'[d] = status[d] /\ sends'[d] = sends[d]
          /\ \A k \in 0 .. MaxResends :
                pc'[<<d, k>>] = pc[<<d, k>>] /\ taskState'[<<d, k>>] = taskState[<<d, k>>]
      BY <1>1 DEF OnlyBroadcast
    <2>2. \A k \in 0 .. MaxResends : /\ Over(<<d, k>>)' <=> Over(<<d, k>>)
                                     /\ InFlight(<<d, k>>)' <=> InFlight(<<d, k>>)
      BY <2>1 DEF Over, InFlight
    <2>3. Settled(d)' <=> Settled(d)
      BY <2>1, <2>2 DEF Settled
    <2> QED BY <2>1, <2>3 DEF Phase
  <1> QED BY <1>1 DEF Phases

\* The moves that OutboundPromise allows.
Moves(b) ==
    \/ Phase(b)' = Phase(b)
    \/ Phase(b) = "absent" /\ Phase(b)' = "open"
    \/ Phase(b) = "open" /\ Phase(b)' = "closed"

LEMMA PromiseStep ==
  ASSUME NEW b \in Broadcasts, OnlyBroadcast(b), Moves(b), UNCHANGED mailed
  PROVE  PromiseNext
  <1> SUFFICES ASSUME NEW a \in Addrs
               PROVE  Promise(a)!Next \/ UNCHANGED Promise(a)!vars
    BY DEF PromiseNext
  <1>1. Phases' = [Phases EXCEPT ![b] = Phase(b)'] /\ Phases[b] = Phase(b)
    BY PhasesStep DEF Phases
  <1>2. MailedTo(a)' = MailedTo(a)
    BY DEF MailedTo
  <1>3. CASE Phase(b)' = Phase(b)
    <2>1. Phases' = Phases
      BY <1>1, <1>3 DEF Phases
    <2> QED BY <1>2, <2>1 DEF Promise!vars
  <1>4. CASE Phase(b) = "absent" /\ Phase(b)' = "open"
    <2>1. Promise(a)!Accept(b)
      BY <1>1, <1>2, <1>4 DEF Promise!Accept
    <2> QED BY <2>1 DEF Promise!Next
  <1>5. CASE Phase(b) = "open" /\ Phase(b)' = "closed"
    <2>1. Promise(a)!Close(b)
      BY <1>1, <1>2, <1>5 DEF Promise!Close
    <2> QED BY <2>1 DEF Promise!Next
  <1> QED BY <1>3, <1>4, <1>5 DEF Moves

\* A broadcast with a row moves as long as a closed one stays closed.
LEMMA ClosedStays ==
  ASSUME NEW b \in Broadcasts, status'[b] = "none" <=> status[b] = "none",
         status[b] # "none" /\ Settled(b) => Settled(b)'
  PROVE  Moves(b)
  BY DEF Moves, Phase

\* The statuses at which no attempt claims the row any more.
Shut == {"canceled", "deleted"} \cup Outcomes

\* A task that is stored and not over is one of those that a closed broadcast
\* that is still being sent would have behind it.
LEMMA SettledShut ==
  ASSUME TypeOK, NEW t \in Tasks, Stored(t), Numbered(BroadcastOf(t)),
         sendPc[t] # "none", ~Over(t), Settled(BroadcastOf(t))
  PROVE  status[BroadcastOf(t)] \in Shut
  <1>1. PICK b \in Broadcasts, k \in 0 .. MaxResends : t = <<b, k>>
    BY DEF Tasks
  <1>2. BroadcastOf(t) = b
    BY <1>1 DEF BroadcastOf
  <1>3. k < sends[b]
    BY <1>1, <1>2 DEF Numbered
  <1> QED BY <1>1, <1>2, <1>3 DEF Settled, Shut

\* The calls of the API: Create accepts, and the row of Send is still open.
LEMMA ApiPromise ==
  ASSUME TypeOK, NEW b \in Broadcasts, Create(b) \/ Send(b) \/ Cancel(b) \/ Delete(b)
  PROVE  PromiseNext
  <1>1. UNCHANGED <<pc, taskState, mailed>>
    BY DEF Create, Send, Cancel, Delete, SetStatus, queue, attempt, history
  <1>2. \A d \in Broadcasts \ {b} : status'[d] = status[d] /\ sends'[d] = sends[d]
    BY DEF Create, Send, Cancel, Delete, SetStatus, api, TypeOK
  <1>3. OnlyBroadcast(b)
    BY <1>1, <1>2 DEF OnlyBroadcast
  <1>4. CASE Create(b)
    <2>1. status[b] = "none" /\ status'[b] = "draft"
      BY <1>4 DEF Create, SetStatus, TypeOK
    <2>2. Phase(b) = "absent" /\ Phase(b)' = "open"
      BY <2>1 DEF Phase, Settled, Outcomes
    <2> QED BY <1>1, <1>3, <2>2, PromiseStep DEF Moves
  <1>5. CASE Send(b)
    <2>1. status[b] \in {"draft", "queued", "scheduled"}
          /\ status'[b] \in {"queued", "scheduled"}
      BY <1>5 DEF Send, SetStatus, TypeOK
    <2>2. Phase(b) = "open" /\ Phase(b)' = "open"
      BY <2>1 DEF Phase, Settled, Outcomes
    <2> QED BY <1>1, <1>3, <2>2, PromiseStep DEF Moves
  <1>6. CASE Cancel(b) \/ Delete(b)
    <2>1. status[b] # "none" /\ status'[b] \in {"canceled", "deleted"}
      BY <1>6 DEF Cancel, Delete, SetStatus, TypeOK, Waiting
    <2>2. Settled(b) => Settled(b)'
      BY <1>1, <2>1 DEF Settled, InFlight
    <2> QED BY <1>1, <1>3, <2>1, <2>2, ClosedStays, PromiseStep
  <1> QED BY <1>4, <1>5, <1>6

\* The queue and the steps before the loop: an attempt that is started or ended
\* has not claimed the row, and one that claims it finds it open.
LEMMA TaskPromise ==
  ASSUME TypeOK, NEW t \in Tasks, Stored(t), Numbered(BroadcastOf(t)),
         \/ EnqueueSend(t) \/ StartAttempt(t) \/ LeaseExpires(t)
         \/ LoadBroadcast(t) \/ StepFails(t) \/ Claim(t)
  PROVE  PromiseNext
  <1> DEFINE b == BroadcastOf(t)
  <1>1. b \in Broadcasts
    BY TaskFacts
  <1>2. UNCHANGED <<sends, mailed>>
    BY DEF EnqueueSend, StartAttempt, LeaseExpires, LoadBroadcast, StepFails, Claim,
           ClaimFrom, api, history
  <1>3. sendPc[t] # "none" /\ ~Over(t)
    <2>1. CASE EnqueueSend(t)
      BY <2>1 DEF EnqueueSend, Stored, Over
    <2>2. CASE ~EnqueueSend(t)
      <3>1. taskState[t] \in {"pending", "retry", "active"}
        BY <2>2 DEF StartAttempt, LeaseExpires, LoadBroadcast, StepFails, Claim,
                    ClaimFrom, Stored
      <3> QED BY <3>1 DEF Stored, Over
    <2> QED BY <2>1, <2>2
  <1>4. Settled(b) => status[b] \in Shut
    BY <1>3, SettledShut
  <1>5. \A u \in Tasks \ {t} : pc'[u] = pc[u] /\ taskState'[u] = taskState[u]
    <2>1. CASE EnqueueSend(t) \/ StartAttempt(t)
      BY <2>1 DEF EnqueueSend, StartAttempt, attempt, TypeOK
    <2>2. CASE LeaseExpires(t)
      BY <2>2, EndFacts DEF LeaseExpires
    <2>3. CASE LoadBroadcast(t) \/ StepFails(t) \/ Claim(t)
      BY <2>3, BeforeLoop
    <2> QED BY <2>1, <2>2, <2>3
  <1>6. /\ \A d \in Broadcasts \ {b} : status'[d] = status[d]
        /\ status'[b] = "none" <=> status[b] = "none"
        /\ status[b] \in Shut => status'[b] = status[b]
    <2>1. CASE Claim(t)
      <3>1. /\ status' \in {status, [status EXCEPT ![b] = "sending"]}
            /\ status' # status => status[b] \in Waiting
        BY <2>1 DEF Claim, ClaimFrom
      <3> QED BY <1>1, <3>1 DEF TypeOK, Waiting, Shut, Outcomes
    <2>2. CASE ~Claim(t)
      <3>1. status' = status
        BY <2>2 DEF EnqueueSend, StartAttempt, LeaseExpires, LoadBroadcast, StepFails, row
      <3> QED BY <3>1
    <2> QED BY <2>1, <2>2
  <1>7. status[b] \in Shut => pc'[t] \in {pc[t], "load", "claim", "idle"}
    <2>1. CASE EnqueueSend(t) \/ StartAttempt(t)
      BY <2>1 DEF EnqueueSend, StartAttempt, attempt, TypeOK
    <2>2. CASE LeaseExpires(t)
      BY <2>2, EndFacts DEF LeaseExpires
    <2>3. CASE LoadBroadcast(t)
      <3>1. Complete(t) \/ pc' = [pc EXCEPT ![t] = "claim"]
        BY <2>3 DEF LoadBroadcast
      <3> QED BY <3>1, EndFacts DEF TypeOK
    <2>4. CASE StepFails(t)
      BY <2>4, EndFacts DEF StepFails
    <2>5. CASE Claim(t)
      <3>1. status[b] \in Shut => Complete(t)
        BY <2>5 DEF Claim, ClaimFrom, Waiting, Shut, Outcomes
      <3> QED BY <3>1, EndFacts
    <2> QED BY <2>1, <2>2, <2>3, <2>4, <2>5
  <1>8. OnlyBroadcast(b)
    BY <1>2, <1>5, <1>6, OthersStay
  <1>9. ASSUME Settled(b)
        PROVE  Settled(b)'
    <2>1. status'[b] = status[b] /\ status[b] \in Shut
      BY <1>4, <1>6, <1>9
    <2>2. ASSUME NEW k \in 0 .. MaxResends
          PROVE  ~InFlight(<<b, k>>)'
      <3>1. <<b, k>> \in Tasks /\ ~InFlight(<<b, k>>)
        BY <1>1, <1>9, TaskFacts DEF Settled
      <3>2. pc'[<<b, k>>] \in {pc[<<b, k>>], "load", "claim", "idle"}
        BY <1>5, <1>7, <2>1, <3>1
      <3> QED BY <3>1, <3>2 DEF InFlight
    <2> QED BY <2>1, <2>2 DEF Settled, Shut
  <1> HIDE DEF b
  <1> QED BY <1>1, <1>2, <1>6, <1>8, <1>9, ClosedStays, PromiseStep

\* An attempt that has claimed the row keeps its broadcast open until the end.
LEMMA ClaimedIsOpen ==
  ASSUME TypeOK, NEW t \in Tasks, InFlight(t), status[BroadcastOf(t)] # "none"
  PROVE  Phase(BroadcastOf(t)) = "open"
  <1>1. PICK b \in Broadcasts, k \in 0 .. MaxResends : t = <<b, k>>
    BY DEF Tasks
  <1> QED BY <1>1 DEF Phase, Settled, BroadcastOf

\* A retried task has as many retries as interruptions, and an attempt runs only
\* for a broadcast that has a row.
Retried(t) ==
    /\ taskState[t] # "archived" => slips[t] <= retried[t]
    /\ sendPc[t] # "none" => status[BroadcastOf(t)] # "none"

LEMMA NextRetried ==
  ASSUME IInv, Next, NEW u \in Tasks, Retried(u)
  PROVE  Retried(u)'
  <1>0. TypeOK /\ Stored(u) /\ BroadcastOf(u) \in Broadcasts
    BY TaskFacts DEF IInv
  <1>1. slips[u] \in Nat /\ retried[u] \in Nat
    BY <1>0 DEF TypeOK
  <1>2. ASSUME NEW b \in Broadcasts, Create(b) \/ Cancel(b) \/ Delete(b)
        PROVE  Retried(u)'
    <2>1. UNCHANGED <<taskState, slips, retried, sendPc>>
      BY <1>2 DEF Create, Cancel, Delete, SetStatus, queue, history, api
    <2>2. \A d \in Broadcasts : status[d] # "none" => status'[d] # "none"
      BY <1>0, <1>2 DEF Create, Cancel, Delete, SetStatus, TypeOK
    <2> QED BY <1>0, <2>1, <2>2 DEF Retried, BroadcastOf
  <1>3. ASSUME NEW b \in Broadcasts, Send(b)
        PROVE  Retried(u)'
    <2>1. /\ UNCHANGED <<taskState, slips, retried>> /\ status[b] # "none"
          /\ sendPc' = [sendPc EXCEPT ![<<b, sends[b]>>] = "enqueue"]
      BY <1>3 DEF Send, SetStatus, queue, history
    <2>2. \A d \in Broadcasts : status[d] # "none" => status'[d] # "none"
      BY <1>0, <1>3 DEF Send, SetStatus, TypeOK
    <2>3. sendPc'[u] = sendPc[u] \/ u = <<b, sends[b]>>
      BY <1>0, <2>1 DEF TypeOK
    <2>4. u = <<b, sends[b]>> => BroadcastOf(u) = b
      BY DEF BroadcastOf
    <2> QED BY <1>0, <2>1, <2>2, <2>3, <2>4 DEF Retried, BroadcastOf
  <1>4. ASSUME NEW t \in Tasks, EnqueueSend(t)
        PROVE  Retried(u)'
    <2>1. UNCHANGED <<slips, retried, status>>
      BY <1>4 DEF EnqueueSend, row, history
    <2>2. sendPc'[u] # "none" => sendPc[u] # "none"
      BY <1>0, <1>4 DEF EnqueueSend, TypeOK
    <2>3. taskState[u] = "archived" => taskState'[u] = "archived"
      BY <1>0, <1>4 DEF EnqueueSend, Stored, TypeOK
    <2> QED BY <2>1, <2>2, <2>3 DEF Retried, BroadcastOf
  <1>5. ASSUME NEW t \in Tasks, StartAttempt(t)
        PROVE  Retried(u)'
    <2>1. UNCHANGED <<slips, retried, status, sendPc>>
      BY <1>5 DEF StartAttempt, row, api, history
    <2>2. taskState[u] = "archived" => taskState'[u] = "archived"
      BY <1>0, <1>5 DEF StartAttempt, TypeOK
    <2> QED BY <2>1, <2>2 DEF Retried, BroadcastOf
  <1>6. ASSUME NEW t \in Tasks, LeaseExpires(t)
        PROVE  Retried(u)'
    <2>1. UNCHANGED <<status, sendPc>> /\ taskState[t] = "active"
      BY <1>6 DEF LeaseExpires, row, api
    <2>2. CASE u = t
      <3>1. slips'[u] <= slips[u] + 1
        BY <1>0, <1>1, <1>6, <2>2 DEF LeaseExpires, TypeOK
      <3>2. taskState'[u] = "archived" \/ retried'[u] = retried[u] + 1
        BY <1>0, <1>6, <2>2 DEF LeaseExpires, RetryOrArchive, RetryWhile, TypeOK
      <3>3. slips'[u] \in Nat
        BY <1>0, <1>1, <1>6, <2>2 DEF LeaseExpires, TypeOK
      <3>4. slips[u] <= retried[u]
        BY <2>1, <2>2 DEF Retried
      <3>5. taskState'[u] # "archived" => slips'[u] <= retried'[u]
        BY <1>1, <3>1, <3>2, <3>3, <3>4
      <3> QED BY <2>1, <3>5 DEF Retried, BroadcastOf
    <2>3. CASE u # t
      <3>1. slips'[u] = slips[u] /\ retried'[u] = retried[u] /\ taskState'[u] = taskState[u]
        BY <1>0, <1>6, <2>3 DEF LeaseExpires, RetryOrArchive, RetryWhile, TypeOK
      <3> QED BY <2>1, <3>1 DEF Retried, BroadcastOf
    <2> QED BY <2>2, <2>3
  <1>7. ASSUME NEW t \in Tasks, LoadBroadcast(t) \/ StepFails(t) \/ Claim(t)
        PROVE  Retried(u)'
    <2>1. UNCHANGED <<slips, sendPc>> /\ pc[t] # "idle"
      BY <1>0, <1>7, BeforeLoop DEF api
    <2>2. taskState[t] = "active"
      BY <1>7, <2>1 DEF IInv, Stored
    <2>3. \A d \in Broadcasts : status'[d] \in {status[d], "sending"}
      BY <1>0, <1>7, BeforeLoop
    <2>4. \/ Complete(t) \/ RetryOrArchive(t) \/ UNCHANGED queue
      BY <1>7 DEF LoadBroadcast, StepFails, Claim, ClaimFrom
    <2>5. /\ retried'[u] >= retried[u] /\ retried'[u] \in Nat
          /\ taskState[u] = "archived" => taskState'[u] = "archived"
      BY <1>0, <1>1, <2>2, <2>4
         DEF Complete, RetryOrArchive, RetryWhile, queue, TypeOK
    <2>6. taskState'[u] # "archived" => slips'[u] <= retried'[u]
      BY <1>1, <2>1, <2>5 DEF Retried
    <2> QED BY <1>0, <2>1, <2>3, <2>6 DEF Retried, BroadcastOf
  <1>8. ASSUME NEW t \in Tasks, ReadRecipients(t) \/ \E a \in Addrs : SendToRecipient(t, a)
        PROVE  Retried(u)'
    <2>1. UNCHANGED <<slips, retried, taskState, status, sendPc>>
      BY <1>8 DEF ReadRecipients, SendToRecipient, SendNext, SendOne, row, api, queue, history
    <2> QED BY <2>1 DEF Retried, BroadcastOf
  <1>9. ASSUME NEW t \in Tasks, Finalize(t)
        PROVE  Retried(u)'
    <2>1. UNCHANGED <<slips, sendPc, retried>> /\ pc[t] = "loop"
          /\ taskState' = [taskState EXCEPT ![t] = "completed"]
      BY <1>9 DEF Finalize, Complete, api
    <2>2. taskState[t] = "active"
      BY <1>9, <2>1 DEF IInv, Stored
    <2>3. taskState[u] = "archived" => taskState'[u] = "archived"
      BY <1>0, <2>1, <2>2 DEF TypeOK
    <2>4. \A d \in Broadcasts : status[d] # "none" => status'[d] # "none"
      BY <1>0, <1>9 DEF Finalize, finalizeBroadcastOutcome, row, TypeOK
    <2> QED BY <1>0, <2>1, <2>3, <2>4 DEF Retried, BroadcastOf
  <1> QED BY <1>2, <1>3, <1>4, <1>5, <1>6, <1>7, <1>8, <1>9 DEF Next, AttemptStep

\* The loop and its end: one more email for one recipient, while the task has
\* retries left for each that it sent before.
LEMMA LoopPromise ==
  ASSUME IInv, NEW t \in Tasks, Retried(t),
         \/ ReadRecipients(t) \/ (\E a \in Addrs : SendToRecipient(t, a)) \/ Finalize(t)
  PROVE  PromiseNext
  <1> DEFINE b == BroadcastOf(t)
  <1>0. TypeOK /\ Stored(t) /\ b \in Broadcasts /\ \A c \in Addrs : Counted(t, c)
    BY TaskFacts DEF IInv
  <1>1. pc[t] \in {"recipients", "loop"} /\ sends' = sends
    BY DEF ReadRecipients, SendToRecipient, SendNext, SendOne, Finalize, api
  <1>2. taskState[t] = "active" /\ status[b] # "none"
    BY <1>0, <1>1 DEF Stored, Retried
  <1>3. InFlight(t) /\ Phase(b) = "open"
    BY <1>0, <1>1, <1>2, ClaimedIsOpen DEF InFlight
  <1>4. CASE Finalize(t)
    <2>1. \A u \in Tasks \ {t} : pc'[u] = pc[u] /\ taskState'[u] = taskState[u]
      BY <1>0, <1>4, EndFacts DEF Finalize
    <2>2. /\ \A d \in Broadcasts \ {b} : status'[d] = status[d]
          /\ status'[b] # "none" /\ mailed' = mailed
      BY <1>0, <1>2, <1>4 DEF Finalize, finalizeBroadcastOutcome, row, TypeOK
    <2>3. OnlyBroadcast(b)
      BY <1>1, <2>1, <2>2, OthersStay
    <2>4. Moves(b)
      BY <1>3, <2>2 DEF Moves, Phase
    <2> HIDE DEF b
    <2> QED BY <1>0, <2>2, <2>3, <2>4, PromiseStep
  <1>5. ASSUME ReadRecipients(t) \/ \E a \in Addrs : SendToRecipient(t, a)
        PROVE  Phases' = Phases
    <2>1. UNCHANGED <<status, taskState>> /\ pc' \in {pc, [pc EXCEPT ![t] = "loop"]}
      BY <1>5 DEF ReadRecipients, SendToRecipient, SendNext, SendOne, row, queue
    <2>2. pc'[t] \in {"recipients", "loop"} /\ \A u \in Tasks \ {t} : pc'[u] = pc[u]
      BY <1>0, <1>1, <2>1 DEF TypeOK
    <2>3. OnlyBroadcast(b)
      BY <1>1, <2>1, <2>2, OthersStay
    <2>4. InFlight(t)'
      BY <2>2 DEF InFlight
    <2>5. Phase(b)' = "open"
      <3>1. PICK k \in 0 .. MaxResends : t = <<b, k>>
        BY DEF Tasks, BroadcastOf
      <3> QED BY <1>2, <2>1, <2>4, <3>1 DEF Phase, Settled
    <2> HIDE DEF b
    <2>6. Phases' = [Phases EXCEPT ![b] = Phase(b)]
      BY <1>0, <1>3, <2>3, <2>5, PhasesStep
    <2> QED BY <1>0, <2>6 DEF Phases
  <1>6. CASE ReadRecipients(t)
    <2>1. mailed' = mailed
      BY <1>6 DEF ReadRecipients, history
    <2> QED BY <1>5, <1>6, <2>1 DEF PromiseNext, Promise!vars, MailedTo
  <1>7. ASSUME NEW a \in Addrs, SendToRecipient(t, a), NEW c \in Addrs
        PROVE  Promise(c)!Next \/ UNCHANGED Promise(c)!vars
    <2>1. /\ pc[t] = "loop" /\ a \in todo[t]
          /\ mailed' \in {mailed, [mailed EXCEPT ![t][a] = mailed[t][a] + 1]}
      BY <1>7 DEF SendToRecipient, SendNext, SendOne
    <2>2. Phases' = Phases
      BY <1>5, <1>7
    <2>3. CASE mailed' = mailed \/ c # a
      <3>1. CASE mailed' = mailed
        BY <2>2, <3>1 DEF MailedTo, Promise!vars
      <3>2. CASE mailed' = [mailed EXCEPT ![t][a] = mailed[t][a] + 1] /\ c # a
        <4>1. ASSUME NEW u \in Tasks
              PROVE  mailed'[u][c] = mailed[u][c]
          <5>1. mailed \in [Tasks -> [Addrs -> Nat]]
            BY <1>0 DEF TypeOK
          <5>2. CASE u = t
            BY <1>0, <3>2, <5>1, <5>2
          <5>3. CASE u # t
            BY <3>2, <5>1, <5>3
          <5> QED BY <5>2, <5>3
        <4>2. MailedTo(c)' = MailedTo(c)
          BY <4>1 DEF MailedTo
        <4> QED BY <2>2, <4>2 DEF Promise!vars
      <3> QED BY <2>1, <2>3, <3>1, <3>2
    <2>4. CASE mailed' = [mailed EXCEPT ![t][a] = mailed[t][a] + 1] /\ c = a
      <3>1. MailedTo(c)' = [MailedTo(c) EXCEPT ![t] = MailedTo(c)[t] + 1]
        BY <1>0, <2>4 DEF MailedTo, TypeOK
      <3>2. mailed[t][a] <= MaxRetry
        <4>1. mailed[t][a] <= slips[t] /\ slips[t] <= retried[t]
          BY <1>0, <1>2, <2>1 DEF Counted, Retried
        <4>2. /\ mailed[t][a] \in Nat /\ slips[t] \in Nat /\ retried[t] \in Nat
              /\ retried[t] <= MaxRetry
          BY <1>0 DEF TypeOK
        <4> QED BY <4>1, <4>2
      <3>3. MailedTo(c)[t] <= MaxRetry
        BY <2>4, <3>2 DEF MailedTo
      <3>4. Phases[t[1]] = "open"
        BY <1>0, <1>3 DEF Phases, BroadcastOf
      <3>5. Promise(c)!Copy(t)
        BY <2>2, <3>1, <3>3, <3>4 DEF Promise!Copy
      <3>6. t \in Promise(c)!Tasks
        BY DEF Promise!Tasks, Tasks
      <3> QED BY <3>5, <3>6 DEF Promise!Next
    <2> QED BY <2>1, <2>3, <2>4
  <1> QED BY <1>4, <1>6, <1>7 DEF PromiseNext

LEMMA NextPromise ==
  ASSUME IInv, \A t \in Tasks : Retried(t), [Next]_vars
  PROVE  [PromiseNext]_vars
  <1>1. ASSUME NEW b \in Broadcasts, Create(b) \/ Send(b) \/ Cancel(b) \/ Delete(b)
        PROVE  PromiseNext
    BY <1>1, ApiPromise DEF IInv
  <1>2. ASSUME NEW t \in Tasks,
               \/ EnqueueSend(t) \/ StartAttempt(t) \/ LeaseExpires(t)
               \/ LoadBroadcast(t) \/ StepFails(t) \/ Claim(t)
        PROVE  PromiseNext
    BY <1>2, TaskPromise, TaskFacts DEF IInv
  <1>3. ASSUME NEW t \in Tasks,
               \/ ReadRecipients(t) \/ (\E a \in Addrs : SendToRecipient(t, a))
               \/ Finalize(t)
        PROVE  PromiseNext
    BY <1>3, LoopPromise
  <1> QED BY <1>1, <1>2, <1>3 DEF Next, AttemptStep

LEMMA InitPromise == Init => \A a \in Addrs : Promise(a)!Init
  <1> SUFFICES ASSUME Init, NEW a \in Addrs PROVE Promise(a)!Init
    OBVIOUS
  <1>1. Phases = [b \in Broadcasts |-> "absent"]
    BY DEF Init, Phases, Phase
  <1>2. MailedTo(a) = [t \in Tasks |-> 0]
    BY DEF Init, MailedTo
  <1> QED BY <1>1, <1>2 DEF Promise!Init, Promise!Tasks, Tasks

\* For each recipient a broadcast implements OutboundPromise: nothing leaves for
\* one that was not created, at most MaxRetry + 1 emails per task, and none once
\* it is canceled, deleted, has its outcome or is out of tasks.
THEOREM BroadcastsKeepPromise == Spec => KeepsPromise
  <1>1. Init => \A t \in Tasks : Retried(t)
    BY DEF Init, Retried
  <1>2. IInv /\ (\A t \in Tasks : Retried(t)) /\ [Next]_vars => (\A t \in Tasks : Retried(t))'
    <2>1. ASSUME IInv, \A t \in Tasks : Retried(t), Next
          PROVE  (\A t \in Tasks : Retried(t))'
      BY <2>1, NextRetried
    <2>2. ASSUME \A t \in Tasks : Retried(t), UNCHANGED vars
          PROVE  (\A t \in Tasks : Retried(t))'
      BY <2>2 DEF vars, row, api, queue, history, Retried
    <2> QED BY <2>1, <2>2
  <1>3. Spec => [](\A t \in Tasks : Retried(t))
    BY <1>1, <1>2, Invariance, PTL DEF Spec
  <1>4. IInv /\ (\A t \in Tasks : Retried(t)) /\ [Next]_vars => [PromiseNext]_vars
    BY NextPromise
  <1> QED
    BY <1>3, <1>4, InitPromise, Invariance, PTL DEF Spec, KeepsPromise, PromiseNext

=============================================================================

-------------------------- MODULE EmailSend_proofs --------------------------
(***************************************************************************)
(* Theorems about EmailSend, for every set of emails, keys and addresses   *)
(* and every value of the bounds.                                          *)
(***************************************************************************)
EXTENDS EmailSend, FiniteSetTheorems, TLAPS

USE EmailSendAssumption

\* The tasks and messages of the model: all that the proofs use of their shape.
LEMMA TaskFacts ==
  /\ \A t \in Tasks : EmailOf(t) \in Emails
  /\ \A e \in Emails : FirstTask(e) \in Tasks
  /\ \A t \in Tasks, n \in Nat : <<t, n>> \in Messages
  BY DEF Tasks, EmailOf, FirstTask, Messages

\* Expanded in nearly every step below.
USE DEF RequestPcs, TaskStates, SuccessPcs, FailurePcs, AttemptPcs,
        EmailStatuses, RowStatuses, postgres, request, queue, attempt, consumer, history

-----------------------------------------------------------------------------
(***************************************************************************)
(* Type correctness.                                                       *)
(***************************************************************************)

\* The initial state has the types.
LEMMA InitTypeOK == Init => TypeOK
  BY NoMessageAssumption DEF Init, TypeOK, Times

\* Enqueueing a Send keeps the types.
LEMMA EnqueueSendTypeOK ==
  ASSUME TypeOK, NEW e \in Emails, EnqueueSend(e)
  PROVE  TypeOK'
  <1>1. taskState' \in [Tasks -> TaskStates]
    BY TaskFacts DEF EnqueueSend, TypeOK
  <1>2. dueAt' \in [Tasks -> Times]
    <2>1. dueAt' \in {dueAt, [dueAt EXCEPT ![FirstTask(e)] = reqAt[e]]}
      BY DEF EnqueueSend, ProcessAt
    <2>2. reqAt[e] \in Times /\ dueAt \in [Tasks -> Times]
      BY DEF TypeOK
    <2>3. FirstTask(e) \in Tasks
      BY TaskFacts
    <2> QED BY <2>1, <2>2, <2>3
  <1>3. answer' \in [Emails -> Emails \cup {NoEmail}]
    BY DEF EnqueueSend, TypeOK
  <1>4. reqPc' \in [Emails -> RequestPcs]
    BY DEF EnqueueSend, TypeOK
  <1> QED BY <1>1, <1>2, <1>3, <1>4 DEF EnqueueSend, TypeOK

\* The handler of POST /emails keeps the types.
LEMMA RequestTypeOK ==
  ASSUME TypeOK, NEW e \in Emails, SendRequest(e)
  PROVE  TypeOK'
  <1>1. CASE ReceiveSend(e)      BY <1>1 DEF ReceiveSend, TypeOK
  <1>2. CASE checkQuota(e)       BY <1>2 DEF checkQuota, TypeOK
  <1>3. CASE LookupKey(e)
    <2>1. answer' \in [Emails -> Emails \cup {NoEmail}]
      BY <1>3 DEF LookupKey, HitsKey, KeyIsLive, TypeOK
    <2>2. reqPc' \in [Emails -> RequestPcs] /\ blind' \subseteq Emails
      BY <1>3 DEF LookupKey, TypeOK
    <2> QED BY <1>3, <2>1, <2>2 DEF LookupKey, TypeOK
  <1>4. CASE InsertEmail(e)
    <2>1. schedAt' \in [Emails -> Times]
      BY <1>4 DEF InsertEmail, TypeOK, Times
    <2>2. reqAt' \in [Emails -> Times]
      BY <1>4 DEF InsertEmail, TypeOK, Times
    <2>3. status' \in [Emails -> RowStatuses]
      BY <1>4 DEF InsertEmail, TypeOK
    <2>4. reqPc' \in [Emails -> RequestPcs]
      BY <1>4 DEF InsertEmail, TypeOK
    <2> QED BY <1>4, <2>1, <2>2, <2>3, <2>4 DEF InsertEmail, TypeOK
  <1>5. CASE StoreAttachments(e) BY <1>5 DEF StoreAttachments, TypeOK
  <1>6. CASE SaveKey(e)          BY <1>6 DEF SaveKey, TypeOK
  <1>7. CASE EnqueueSend(e)      BY <1>7, EnqueueSendTypeOK
  <1> QED BY <1>1, <1>2, <1>3, <1>4, <1>5, <1>6, <1>7 DEF SendRequest

\* Cancel keeps the types.
LEMMA CancelTypeOK ==
  ASSUME TypeOK, NEW e \in Emails, Cancel(e)
  PROVE  TypeOK'
  BY DEF Cancel, TypeOK

\* UpdateSchedule keeps the types.
LEMMA UpdateScheduleTypeOK ==
  ASSUME TypeOK, NEW e \in Emails, NEW at \in Times, UpdateSchedule(e, at)
  PROVE  TypeOK'
  <1>1. resched[e] + 1 \in 0 .. MaxReschedules
    BY DEF UpdateSchedule, RescheduleIn, TypeOK
  <1>2. <<e, resched[e] + 1>> \in Tasks
    BY <1>1 DEF Tasks
  <1>3. resched' \in [Emails -> 0 .. MaxReschedules]
    BY <1>1 DEF UpdateSchedule, RescheduleIn, TypeOK
  <1> QED BY <1>2, <1>3 DEF UpdateSchedule, RescheduleIn, TypeOK

\* A retry or an archival keeps the types of what it changes.
LEMMA RetryOrArchiveTypeOK ==
  ASSUME TypeOK, NEW t \in Tasks, RetryOrArchive(t)
  PROVE  /\ taskState' \in [Tasks -> TaskStates]
         /\ dueAt' \in [Tasks -> Times]
         /\ retried' \in [Tasks -> 0 .. MaxRetry]
         /\ pc' \in [Tasks -> AttemptPcs]
         /\ seen' \in [Tasks -> RowStatuses]
  <1>1. retried' \in [Tasks -> 0 .. MaxRetry]
    <2>1. CASE retried[t] < MaxRetry
      <3>1. retried[t] + 1 \in 0 .. MaxRetry
        BY <2>1 DEF TypeOK
      <3>2. retried' = [retried EXCEPT ![t] = retried[t] + 1]
        BY <2>1 DEF RetryOrArchive, RetryWhile
      <3> QED BY <3>1, <3>2 DEF TypeOK
    <2>2. CASE ~(retried[t] < MaxRetry)
      BY <2>2 DEF RetryOrArchive, RetryWhile, TypeOK
    <2> QED BY <2>1, <2>2
  <1> QED BY <1>1 DEF RetryOrArchive, RetryWhile, TypeOK

\* The queue keeps the types.
LEMMA QueueTypeOK ==
  ASSUME TypeOK, NEW t \in Tasks,
         EnqueueReschedule(t) \/ StartAttempt(t) \/ LeaseExpires(t)
  PROVE  TypeOK'
  <1>1. CASE EnqueueReschedule(t) BY <1>1 DEF EnqueueReschedule, TypeOK
  <1>2. CASE StartAttempt(t)      BY <1>2 DEF StartAttempt, TypeOK
  <1>3. CASE LeaseExpires(t)
    BY <1>3, RetryOrArchiveTypeOK DEF LeaseExpires, TypeOK
  <1> QED BY <1>1, <1>2, <1>3

\* What follows a RecordLocalEvent keeps the types of what it changes.
LEMMA AfterLocalEventTypeOK ==
  ASSUME TypeOK, NEW t \in Tasks, NEW event, AfterLocalEvent(t, event)
  PROVE  /\ taskState' \in [Tasks -> TaskStates]
         /\ dueAt' \in [Tasks -> Times]
         /\ retried' \in [Tasks -> 0 .. MaxRetry]
         /\ pc' \in [Tasks -> AttemptPcs]
         /\ seen' \in [Tasks -> RowStatuses]
  <1>1. CASE RetryOrArchive(t) BY <1>1, RetryOrArchiveTypeOK
  <1>2. CASE Complete(t)       BY <1>2 DEF Complete, TypeOK
  <1>3. CASE /\ pc' = [pc EXCEPT ![t] = "deliveredEvent"]
             /\ seen' = [seen EXCEPT ![t] = "none"]
             /\ UNCHANGED queue
    BY <1>3 DEF TypeOK
  <1> QED BY <1>1, <1>2, <1>3 DEF AfterLocalEvent

\* The worker keeps the types.
LEMMA AttemptTypeOK ==
  ASSUME TypeOK, NEW t \in Tasks, AttemptStep(t)
  PROVE  TypeOK'
  <1>1. CASE LoadEmail(t)      BY <1>1 DEF LoadEmail, LoadUnless, Complete, TypeOK
  <1>2. CASE PrepareFails(t)
    BY <1>2, RetryOrArchiveTypeOK DEF PrepareFails, TypeOK
  <1>3. CASE ReserveWarmup(t)  BY <1>3 DEF ReserveWarmup, TypeOK
  <1>4. CASE SendToProvider(t)
    <2>1. handed' \in [Tasks -> Nat]
      BY <1>4 DEF SendToProvider, TypeOK
    <2>2. slips' \in [Tasks -> Nat]
      <3>1. slips' \in {slips, [slips EXCEPT ![t] = slips[t] + 1]}
        BY <1>4 DEF SendToProvider
      <3> QED BY <3>1 DEF TypeOK
    <2>3. pc' \in [Tasks -> AttemptPcs]
      <3>1. pc' \in {[pc EXCEPT ![t] = "record"], [pc EXCEPT ![t] = "fail"]}
        BY <1>4 DEF SendToProvider
      <3> QED BY <3>1 DEF TypeOK
    <2> QED BY <1>4, <2>1, <2>2, <2>3 DEF SendToProvider, TypeOK
  <1>5. CASE MarkFailed(t)
    <2>1. status' \in {status, [status EXCEPT ![EmailOf(t)] = "failed"]}
      BY <1>5 DEF MarkFailed
    <2>2. status' \in [Emails -> RowStatuses]
      BY <2>1, TaskFacts DEF TypeOK
    <2>3. lost' \in [Emails -> BOOLEAN]
      BY <1>5, TaskFacts DEF MarkFailed, LoseError, TypeOK
    <2>4. pc' \in [Tasks -> AttemptPcs]
      BY <1>5 DEF MarkFailed, TypeOK
    <2> QED BY <1>5, <2>2, <2>3, <2>4 DEF MarkFailed, TypeOK
  <1>6. CASE RecordSent(t)
    <2>1. <<t, handed[t]>> \in Messages
      BY TaskFacts DEF TypeOK
    <2>2. messageId' \in [Emails -> Messages \cup {NoMessage}]
      <3>1. messageId' \in {messageId,
                            [messageId EXCEPT ![EmailOf(t)] = <<t, handed[t]>>]}
        BY <1>6 DEF RecordSent, RecordSentAs
      <3> QED BY <2>1, <3>1, TaskFacts DEF TypeOK
    <2>3. status' \in {status, [status EXCEPT ![EmailOf(t)] = "sent"]}
      BY <1>6 DEF RecordSent, RecordSentAs
    <2>4. lost' \in [Emails -> BOOLEAN]
      BY <1>6, TaskFacts DEF RecordSent, RecordSentAs, LoseError, TypeOK
    <2>5. status' \in [Emails -> RowStatuses]
      BY <2>3, TaskFacts DEF TypeOK
    <2> QED BY <1>6, <2>2, <2>4, <2>5 DEF RecordSent, RecordSentAs, TypeOK
  <1>7. CASE IncrementUsage(t)
    <2>1. usage' \in Nat /\ pc' \in [Tasks -> AttemptPcs]
      BY <1>7 DEF IncrementUsage, TypeOK
    <2>2. lost' \in [Emails -> BOOLEAN]
      BY <1>7, TaskFacts DEF IncrementUsage, LoseError, TypeOK
    <2> QED BY <1>7, <2>1, <2>2 DEF IncrementUsage, TypeOK
  <1>8. CASE LocalEventInsert(t)
    <2>1. pc' \in [Tasks -> AttemptPcs]
      BY <1>8 DEF LocalEventInsert, WritePc, TypeOK
    <2>2. seen' \in [Tasks -> RowStatuses]
      <3>1. seen' \in {[seen EXCEPT ![t] = status[EmailOf(t)]], [seen EXCEPT ![t] = "none"]}
        BY <1>8 DEF LocalEventInsert
      <3> QED BY <3>1, TaskFacts DEF TypeOK
    <2>3. lost' \in [Emails -> BOOLEAN]
      BY <1>8, TaskFacts DEF LocalEventInsert, LoseError, TypeOK
    <2> QED BY <1>8, <2>1, <2>2, <2>3 DEF LocalEventInsert, TypeOK
  <1>9. CASE LocalEventFails(t)
    BY <1>9, AfterLocalEventTypeOK DEF LocalEventFails, TypeOK
  <1>10. CASE LocalEventStatus(t)
    <2>1. PICK call \in DOMAIN WritePc :
             /\ status' \in {status, [status EXCEPT ![EmailOf(t)] =
                                         statusFromEvent(EventPcs[call])]}
             /\ AfterLocalEvent(t, EventPcs[call])
      BY <1>10 DEF LocalEventStatus
    <2>2. statusFromEvent(EventPcs[call]) \in RowStatuses
      BY DEF statusFromEvent, EventPcs, WritePc
    <2>3. status' \in [Emails -> RowStatuses]
      BY <2>1, <2>2, TaskFacts DEF TypeOK
    <2> QED
      BY <1>10, <2>1, <2>3, AfterLocalEventTypeOK DEF LocalEventStatus, TypeOK
  <1> QED
    BY <1>1, <1>2, <1>3, <1>4, <1>5, <1>6, <1>7, <1>8, <1>9, <1>10 DEF AttemptStep

\* What a notification may write.
LEMMA NoticesAreStatuses ==
  Notices \subseteq {"sent", "delivered", "bounced", "complained", "failed", "suppressed"}
  BY DEF EventStatuses, statusFromEvent

\* The consumers keep the types.
LEMMA ConsumerTypeOK ==
  ASSUME TypeOK, NEW e \in Emails, ConsumerStep(e)
  PROVE  TypeOK'
  <1>1. CASE FindByMessage(e)
    <2>1. PICK new \in Notices : noticing' = [noticing EXCEPT ![e] = @ \cup {new}]
      BY <1>1 DEF FindByMessage
    <2>2. noticing' \in [Emails -> SUBSET Notices]
      BY <2>1 DEF TypeOK
    <2> QED BY <1>1, <2>2 DEF FindByMessage, TypeOK
  <1>2. CASE NoticeStatus(e)
    <2>1. PICK new \in noticing[e] : status' = [status EXCEPT ![e] = new]
      BY <1>2 DEF NoticeStatus
    <2>2. new \in RowStatuses
      BY NoticesAreStatuses DEF TypeOK
    <2>3. status' \in [Emails -> RowStatuses]
      BY <2>1, <2>2 DEF TypeOK
    <2>4. reported' \subseteq Emails
      BY <1>2 DEF NoticeStatus, TypeOK
    <2> QED BY <1>2, <2>3, <2>4 DEF NoticeStatus, TypeOK
  <1> QED BY <1>1, <1>2 DEF ConsumerStep

\* The rest of the world keeps the types.
LEMMA WorldTypeOK ==
  ASSUME TypeOK,
         \/ \E a \in Listed : Suppress(a) \/ Unsuppress(a)
         \/ \E k \in Keys : ExpireKey(k)
         \/ Tick
  PROVE  TypeOK'
  <1>1. CASE Tick BY <1>1 DEF Tick, TypeOK, Times
  <1>2. CASE \E a \in Listed : Suppress(a) \/ Unsuppress(a)
    BY <1>2 DEF Suppress, Unsuppress, TypeOK
  <1>3. CASE \E k \in Keys : ExpireKey(k)
    BY <1>3 DEF ExpireKey, KeyIsLive, TypeOK
  <1> QED BY <1>1, <1>2, <1>3

\* Every step keeps the types.
LEMMA TypeCorrectStep ==
  ASSUME TypeOK, Next
  PROVE  TypeOK'
  BY RequestTypeOK, CancelTypeOK, UpdateScheduleTypeOK, QueueTypeOK,
     AttemptTypeOK, ConsumerTypeOK, WorldTypeOK DEF Next

\* Every variable keeps its type in every behaviour of the send path.
THEOREM TypeCorrect == Spec => []TypeOK
  <1>1. TypeOK /\ [Next]_vars => TypeOK'
    BY TypeCorrectStep DEF vars, TypeOK
  <1> QED BY <1>1, InitTypeOK, PTL DEF Spec

-----------------------------------------------------------------------------
(***************************************************************************)
(* The inductive invariant.                                                *)
(***************************************************************************)

\* A row exists once its request has inserted it, a task once the request or
\* the reschedule that makes it has come to its enqueue.
Requests ==
    /\ \A e \in Emails : reqPc[e] \notin {"ok", "error"} => taskState[FirstTask(e)] = "none"
    /\ \A e \in Emails : reqPc[e] \in {"none", "quota", "lookup", "insert"}
                            => status[e] = "none"
    /\ \A e \in Emails : reqPc[e] \in {"attach", "key", "enqueue"} => status[e] # "none"
    /\ \A t \in Tasks : t[2] > resched[EmailOf(t)] => taskState[t] = "none"
    /\ \A t \in Tasks : taskState[t] # "none" => status[EmailOf(t)] # "none"

\* An attempt runs exactly while its task is active, and the copies of a task
\* are its slips and its retries, and one more once an attempt has gone well
\* (or, against the retries, has got as far as its only copy).
Accounted(t) ==
    /\ pc[t] # "idle" <=> taskState[t] = "active"
    /\ handed[t] <= slips[t] + 1
    /\ handed[t] <= retried[t] + 1
    /\ pc[t] \notin SuccessPcs /\ taskState[t] # "completed" => handed[t] <= slips[t]
    /\ pc[t] \notin SuccessPcs \cup FailurePcs /\ taskState[t] \notin {"completed", "archived"}
          => handed[t] <= retried[t]
    /\ pc[t] = "record" => handed[t] > 0

\* Has an attempt taken the task yet?
Begun(t) == taskState[t] \in {"active", "retry", "completed", "archived"}

\* The first task carries the time of its request, and is only begun then.
Timely(e) ==
    /\ resched[e] = 0 /\ status[e] # "none" => schedAt[e] = reqAt[e]
    /\ taskState[FirstTask(e)] # "none" => dueAt[FirstTask(e)] = reqAt[e]
    /\ Begun(FirstTask(e)) => dueAt[FirstTask(e)] <= now
    /\ handed[FirstTask(e)] > 0 => Begun(FirstTask(e))

\* The attempt's pc once the row has been updated to sent.
RecordedPcs == SuccessPcs \ {"record"}

\* From that UPDATE on the row is resolved, unless a write to it was lost.
Resolved(t) ==
    ~lost[EmailOf(t)] /\ (pc[t] \in RecordedPcs \/ taskState[t] = "completed")
    => status[EmailOf(t)] \notin Unsent \cup {"none"}

\* The provider accepted the message that the row names.
Named(e) ==
    \E t \in Tasks : EmailOf(t) = e /\ \E n \in 1 .. handed[t] : messageId[e] = <<t, n>>

\* A row names only accepted messages, and one from the UPDATE to sent on.
Traced(e) ==
    /\ messageId[e] # NoMessage => Named(e)
    /\ status[e] \in {"sent", "delivered"} /\ ~lost[e] => messageId[e] # NoMessage

TracedAttempt(t) ==
    pc[t] \in RecordedPcs /\ ~lost[EmailOf(t)] => messageId[EmailOf(t)] # NoMessage

\* A row that names a message waits for nothing any more, and a notification
\* finds only such a row.
Noticed(e) ==
    /\ messageId[e] # NoMessage => status[e] \notin Unsent \cup {"none"}
    /\ noticing[e] # {} => messageId[e] # NoMessage

-----------------------------------------------------------------------------
(***************************************************************************)
(* What the shared steps of the actions come to.                           *)
(***************************************************************************)

\* A retry or an archival ends the attempt and counts the retry.
LEMMA RetryFacts ==
  ASSUME TypeOK, NEW t \in Tasks, RetryOrArchive(t)
  PROVE  /\ pc' = [pc EXCEPT ![t] = "idle"]
         /\ \/ /\ taskState' = [taskState EXCEPT ![t] = "retry"]
               /\ retried' = [retried EXCEPT ![t] = retried[t] + 1]
            \/ /\ taskState' = [taskState EXCEPT ![t] = "archived"]
               /\ retried' = retried
         /\ dueAt' = dueAt
  BY DEF RetryOrArchive, RetryWhile

\* RecordLocalEvent is followed by a retry after a failure, and otherwise by
\* the end of the task or the second event of the Mailpit driver.
LEMMA LocalEventEnds ==
  ASSUME TypeOK, NEW t \in Tasks, LocalEventFails(t) \/ LocalEventStatus(t)
  PROVE  /\ \/ pc[t] \in FailurePcs /\ RetryOrArchive(t)
            \/ pc[t] \in SuccessPcs \ {"record", "usage"} /\ Complete(t)
            \/ /\ pc[t] \in {"sentEvent", "sentStatus"}
               /\ pc' = [pc EXCEPT ![t] = "deliveredEvent"]
               /\ UNCHANGED queue
         /\ UNCHANGED <<handed, slips, lost, resched, reqPc, reqAt, schedAt, messageId, now>>
  <1>1. CASE LocalEventFails(t)
    <2>1. pc[t] \in {"sentEvent", "failedEvent", "deliveredEvent"}
      BY <1>1 DEF LocalEventFails, EventPcs
    <2>2. EventPcs[pc[t]] = "failed" <=> pc[t] = "failedEvent"
      BY <2>1 DEF EventPcs
    <2>3. EventPcs[pc[t]] = "sent" <=> pc[t] = "sentEvent"
      BY <2>1 DEF EventPcs
    <2> QED BY <1>1, <2>1, <2>2, <2>3 DEF LocalEventFails, AfterLocalEvent
  <1>2. CASE LocalEventStatus(t)
    <2>1. PICK call \in {"sentEvent", "failedEvent", "deliveredEvent"} :
             pc[t] = WritePc[call] /\ AfterLocalEvent(t, EventPcs[call])
      BY <1>2 DEF LocalEventStatus, WritePc
    <2>2. CASE call = "sentEvent"
      BY <1>2, <2>1, <2>2 DEF LocalEventStatus, WritePc, EventPcs, AfterLocalEvent
    <2>3. CASE call = "failedEvent"
      BY <1>2, <2>1, <2>3 DEF LocalEventStatus, WritePc, EventPcs, AfterLocalEvent
    <2>4. CASE call = "deliveredEvent"
      BY <1>2, <2>1, <2>4 DEF LocalEventStatus, WritePc, EventPcs, AfterLocalEvent
    <2> QED BY <2>1, <2>2, <2>3, <2>4
  <1> QED BY <1>1, <1>2

\* A consumer writes nothing but the status of a row that has left the ones in
\* which it waits, and leaves it so.
LEMMA ConsumerFrame ==
  ASSUME TypeOK, NEW e \in Emails, Noticed(e), ConsumerStep(e)
  PROVE  /\ UNCHANGED <<schedAt, messageId, idem, expired, usage, request, queue,
                        attempt, history, now>>
         /\ \/ status' = status /\ reported' = reported
            \/ /\ messageId[e] # NoMessage /\ status[e] \notin Unsent \cup {"none"}
               /\ \E new \in RowStatuses \ (Unsent \cup {"none"}) :
                     /\ status' = [status EXCEPT ![e] = new]
                     /\ reported' = IF new \in SkippedByWorker THEN reported
                                    ELSE reported \cup {e}
  <1>1. CASE FindByMessage(e)
    BY <1>1 DEF FindByMessage
  <1>2. CASE NoticeStatus(e)
    <2>1. PICK new \in noticing[e] :
             /\ status' = [status EXCEPT ![e] = new]
             /\ reported' = IF new \in SkippedByWorker THEN reported ELSE reported \cup {e}
      BY <1>2 DEF NoticeStatus
    <2>2. new \in RowStatuses \ (Unsent \cup {"none"})
      <3>1. new \in Notices
        BY DEF TypeOK
      <3> QED BY <3>1, NoticesAreStatuses DEF Unsent
    <2>3. messageId[e] # NoMessage /\ status[e] \notin Unsent \cup {"none"}
      BY <2>1 DEF Noticed
    <2> QED BY <1>2, <2>1, <2>2, <2>3 DEF NoticeStatus
  <1> QED BY <1>1, <1>2 DEF ConsumerStep

-----------------------------------------------------------------------------
(***************************************************************************)
(* The copies of a task.                                                   *)
(***************************************************************************)

\* A step that leaves a task and its counters alone keeps its account.
LEMMA AccountedStutter ==
  ASSUME NEW u \in Tasks, Accounted(u),
         UNCHANGED <<pc, taskState, handed, slips, retried>>
  PROVE  Accounted(u)'
  BY DEF Accounted

\* A task that becomes queued for the first time has no copy.
LEMMA AccountedQueued ==
  ASSUME TypeOK, NEW u \in Tasks, NEW t \in Tasks, Accounted(u), taskState[t] = "none",
         \E s \in {"handing", "pending"} : taskState' = [taskState EXCEPT ![t] = s],
         UNCHANGED <<pc, handed, slips, retried>>
  PROVE  Accounted(u)'
  BY DEF Accounted, TypeOK

\* A retry, after an attempt that did not end well or whose copy is a slip by
\* now, keeps the account.
LEMMA AccountedRetry ==
  ASSUME TypeOK, NEW u \in Tasks, NEW t \in Tasks, Accounted(u), RetryOrArchive(t),
         taskState[t] = "active", handed' = handed,
         slips' = IF pc[t] \in SuccessPcs THEN [slips EXCEPT ![t] = @ + 1] ELSE slips
  PROVE  Accounted(u)'
  <1>1. CASE u # t
    <2>1. /\ pc'[u] = pc[u] /\ taskState'[u] = taskState[u] /\ retried'[u] = retried[u]
          /\ slips'[u] = slips[u] /\ handed'[u] = handed[u]
      BY <1>1, RetryFacts DEF TypeOK
    <2> QED BY <2>1 DEF Accounted
  <1>2. CASE u = t
    <2>1. /\ pc'[u] = "idle" /\ handed'[u] = handed[u]
          /\ slips'[u] = IF pc[u] \in SuccessPcs THEN slips[u] + 1 ELSE slips[u]
          /\ \/ taskState'[u] = "retry" /\ retried'[u] = retried[u] + 1
             \/ taskState'[u] = "archived" /\ retried'[u] = retried[u]
      BY <1>2, RetryFacts DEF TypeOK
    <2>2. handed[u] \in Nat /\ slips[u] \in Nat /\ retried[u] \in Nat
      BY DEF TypeOK
    <2> QED BY <1>2, <2>1, <2>2 DEF Accounted
  <1> QED BY <1>1, <1>2

\* Moving on inside an attempt keeps the account, unless it forgets a success
\* or a failure.
LEMMA AccountedMove ==
  ASSUME TypeOK, NEW u \in Tasks, NEW t \in Tasks, NEW p \in AttemptPcs \ {"idle", "record"},
         Accounted(u), pc[t] # "idle", pc' = [pc EXCEPT ![t] = p],
         pc[t] \in SuccessPcs => p \in SuccessPcs,
         pc[t] \in FailurePcs => p \in FailurePcs,
         UNCHANGED <<taskState, handed, slips, retried>>
  PROVE  Accounted(u)'
  <1>1. CASE u # t
    <2>1. pc'[u] = pc[u]
      BY <1>1 DEF TypeOK
    <2> QED BY <2>1 DEF Accounted
  <1>2. CASE u = t
    <2>1. pc'[u] = p
      BY <1>2 DEF TypeOK
    <2>2. handed[u] \in Nat /\ slips[u] \in Nat /\ retried[u] \in Nat
      BY DEF TypeOK
    <2> QED BY <1>2, <2>1, <2>2 DEF Accounted
  <1> QED BY <1>1, <1>2

\* Completing a task whose attempt has not failed keeps the account.
LEMMA AccountedComplete ==
  ASSUME TypeOK, NEW u \in Tasks, NEW t \in Tasks, Accounted(u), Complete(t),
         pc[t] \notin FailurePcs, UNCHANGED <<handed, slips>>
  PROVE  Accounted(u)'
  <1>1. CASE u # t
    <2>1. pc'[u] = pc[u] /\ taskState'[u] = taskState[u] /\ retried'[u] = retried[u]
      BY <1>1 DEF Complete, TypeOK
    <2> QED BY <2>1 DEF Accounted
  <1>2. CASE u = t
    <2>1. pc'[u] = "idle" /\ taskState'[u] = "completed" /\ retried'[u] = retried[u]
      BY <1>2 DEF Complete, TypeOK
    <2>2. handed[u] \in Nat /\ slips[u] \in Nat /\ retried[u] \in Nat
      BY DEF TypeOK
    <2> QED BY <1>2, <2>1, <2>2 DEF Accounted
  <1> QED BY <1>1, <1>2

\* A provider call pays for its copy with a slip, or goes on as a success.
LEMMA AccountedSend ==
  ASSUME TypeOK, NEW u \in Tasks, NEW t \in Tasks, Accounted(u), SendToProvider(t)
  PROVE  Accounted(u)'
  <1>1. CASE u # t
    <2>1. pc'[u] = pc[u] /\ handed'[u] = handed[u] /\ slips'[u] = slips[u]
      BY <1>1 DEF SendToProvider, TypeOK
    <2>2. taskState' = taskState /\ retried' = retried
      BY DEF SendToProvider
    <2> QED BY <2>1, <2>2 DEF Accounted
  <1>2. CASE u = t
    <2>1. \/ handed'[u] = handed[u] /\ slips'[u] = slips[u] /\ pc'[u] = "fail"
          \/ handed'[u] = handed[u] + 1 /\ slips'[u] = slips[u] + 1 /\ pc'[u] = "fail"
          \/ handed'[u] = handed[u] + 1 /\ slips'[u] = slips[u] /\ pc'[u] = "record"
      BY <1>2 DEF SendToProvider, TypeOK
    <2>2. taskState' = taskState /\ retried' = retried /\ pc[u] = "send"
      BY <1>2 DEF SendToProvider
    <2>3. handed[u] \in Nat /\ slips[u] \in Nat /\ retried[u] \in Nat
      BY DEF TypeOK
    <2> QED BY <2>1, <2>2, <2>3 DEF Accounted
  <1> QED BY <1>1, <1>2

\* Every step of an attempt keeps the account of every task.
LEMMA AccountedAttempt ==
  ASSUME TypeOK, NEW u \in Tasks, NEW t \in Tasks, Accounted(u), Accounted(t), AttemptStep(t)
  PROVE  Accounted(u)'
  <1>1. CASE LoadEmail(t)
    <2>1. CASE Complete(t)
      BY <1>1, <2>1, AccountedComplete DEF LoadEmail, LoadUnless
    <2>2. CASE pc' = [pc EXCEPT ![t] = "reserve"] /\ UNCHANGED <<queue, seen>>
      BY <1>1, <2>2, AccountedMove DEF LoadEmail, LoadUnless
    <2> QED BY <1>1, <2>1, <2>2 DEF LoadEmail, LoadUnless
  <1>2. CASE PrepareFails(t)
    BY <1>2, AccountedRetry DEF PrepareFails, Accounted
  <1>3. CASE ReserveWarmup(t)
    BY <1>3, AccountedMove DEF ReserveWarmup
  <1>4. CASE SendToProvider(t)
    BY <1>4, AccountedSend
  <1>5. CASE MarkFailed(t)
    BY <1>5, AccountedMove DEF MarkFailed
  <1>6. CASE RecordSent(t)
    BY <1>6, AccountedMove DEF RecordSent, RecordSentAs
  <1>7. CASE IncrementUsage(t)
    BY <1>7, AccountedMove DEF IncrementUsage
  <1>8. CASE LocalEventInsert(t)
    <2>1. CASE pc[t] = "sentEvent"
      <3>1. pc' = [pc EXCEPT ![t] = "sentStatus"]
        BY <1>8, <2>1 DEF LocalEventInsert, WritePc
      <3>2. UNCHANGED <<taskState, handed, slips, retried>>
        BY <1>8 DEF LocalEventInsert
      <3> QED BY <2>1, <3>1, <3>2, AccountedMove
    <2>2. CASE pc[t] = "failedEvent"
      <3>1. pc' = [pc EXCEPT ![t] = "failedStatus"]
        BY <1>8, <2>2 DEF LocalEventInsert, WritePc
      <3>2. UNCHANGED <<taskState, handed, slips, retried>>
        BY <1>8 DEF LocalEventInsert
      <3> QED BY <2>2, <3>1, <3>2, AccountedMove
    <2>3. CASE pc[t] = "deliveredEvent"
      <3>1. pc' = [pc EXCEPT ![t] = "deliveredStatus"]
        BY <1>8, <2>3 DEF LocalEventInsert, WritePc
      <3>2. UNCHANGED <<taskState, handed, slips, retried>>
        BY <1>8 DEF LocalEventInsert
      <3> QED BY <2>3, <3>1, <3>2, AccountedMove
    <2> QED BY <1>8, <2>1, <2>2, <2>3 DEF LocalEventInsert, WritePc
  <1>9. CASE LocalEventFails(t) \/ LocalEventStatus(t)
    <2>1. CASE pc[t] \in FailurePcs /\ RetryOrArchive(t)
      BY <1>9, <2>1, LocalEventEnds, AccountedRetry DEF Accounted
    <2>2. CASE pc[t] \in SuccessPcs /\ Complete(t)
      BY <1>9, <2>2, LocalEventEnds, AccountedComplete
    <2>3. CASE /\ pc[t] \in {"sentEvent", "sentStatus"}
               /\ pc' = [pc EXCEPT ![t] = "deliveredEvent"]
               /\ UNCHANGED queue
      BY <1>9, <2>3, LocalEventEnds, AccountedMove
    <2> QED BY <1>9, <2>1, <2>2, <2>3, LocalEventEnds
  <1> QED
    BY <1>1, <1>2, <1>3, <1>4, <1>5, <1>6, <1>7, <1>8, <1>9 DEF AttemptStep

\* Every step of the system keeps the account of every task.
LEMMA AccountedNext ==
  ASSUME TypeOK, Requests, \A t \in Tasks : Accounted(t), Next, NEW u \in Tasks
  PROVE  Accounted(u)'
  <1>1. ASSUME NEW e \in Emails, SendRequest(e) PROVE Accounted(u)'
    <2>1. CASE EnqueueSend(e)
      <3>1. FirstTask(e) \in Tasks /\ taskState[FirstTask(e)] = "none"
        BY <2>1, TaskFacts DEF EnqueueSend, Requests
      <3>2. \/ taskState' = taskState
            \/ taskState' = [taskState EXCEPT ![FirstTask(e)] = "pending"]
        BY <2>1 DEF EnqueueSend
      <3> QED BY <2>1, <3>1, <3>2, AccountedQueued, AccountedStutter DEF EnqueueSend
    <2>2. CASE ~EnqueueSend(e)
      BY <1>1, <2>2, AccountedStutter
         DEF SendRequest, ReceiveSend, checkQuota, LookupKey, InsertEmail,
             StoreAttachments, SaveKey
    <2> QED BY <2>1, <2>2
  <1>2. ASSUME NEW e \in Emails, Cancel(e) PROVE Accounted(u)'
    BY <1>2, AccountedStutter DEF Cancel
  <1>3. ASSUME NEW e \in Emails, NEW at \in Times, UpdateSchedule(e, at) PROVE Accounted(u)'
    <2>1. <<e, resched[e] + 1>> \in Tasks /\ taskState[<<e, resched[e] + 1>>] = "none"
      <3>1. resched[e] + 1 \in 0 .. MaxReschedules /\ resched[e] + 1 > resched[e]
        BY <1>3 DEF UpdateSchedule, RescheduleIn, TypeOK
      <3>2. <<e, resched[e] + 1>> \in Tasks
        BY <3>1 DEF Tasks
      <3> QED BY <3>1, <3>2 DEF Requests, EmailOf
    <2> QED BY <1>3, <2>1, AccountedQueued DEF UpdateSchedule, RescheduleIn
  <1>4. ASSUME NEW t \in Tasks, EnqueueReschedule(t) PROVE Accounted(u)'
    <2>1. /\ taskState'[u] = IF u = t THEN "pending" ELSE taskState[u]
          /\ taskState[t] = "handing"
      BY <1>4 DEF EnqueueReschedule, TypeOK
    <2>2. UNCHANGED <<pc, handed, slips, retried>>
      BY <1>4 DEF EnqueueReschedule
    <2> QED BY <2>1, <2>2 DEF Accounted
  <1>5. ASSUME NEW t \in Tasks, StartAttempt(t) PROVE Accounted(u)'
    <2>1. /\ taskState'[u] = IF u = t THEN "active" ELSE taskState[u]
          /\ pc'[u] = IF u = t THEN "load" ELSE pc[u]
          /\ taskState[t] \in {"pending", "retry"}
      BY <1>5 DEF StartAttempt, TypeOK
    <2>2. UNCHANGED <<handed, slips, retried>>
      BY <1>5 DEF StartAttempt
    <2> QED BY <2>1, <2>2 DEF Accounted
  <1>6. ASSUME NEW t \in Tasks, LeaseExpires(t) PROVE Accounted(u)'
    BY <1>6, AccountedRetry DEF LeaseExpires
  <1>7. ASSUME NEW t \in Tasks, AttemptStep(t) PROVE Accounted(u)'
    BY <1>7, AccountedAttempt
  <1>8. CASE \/ \E a \in Listed : Suppress(a) \/ Unsuppress(a)
             \/ \E k \in Keys : ExpireKey(k)
             \/ Tick
    BY <1>8, AccountedStutter DEF Suppress, Unsuppress, ExpireKey, Tick
  <1>9. ASSUME NEW e \in Emails, ConsumerStep(e) PROVE Accounted(u)'
    BY <1>9, AccountedStutter DEF ConsumerStep, FindByMessage, NoticeStatus
  <1> QED BY <1>1, <1>2, <1>3, <1>4, <1>5, <1>6, <1>7, <1>8, <1>9 DEF Next

-----------------------------------------------------------------------------
(***************************************************************************)
(* Rows and tasks.                                                         *)
(***************************************************************************)

\* A step that creates neither rows nor tasks, and removes no row, keeps
\* Requests.
LEMMA RequestsKept ==
  ASSUME TypeOK, Requests, UNCHANGED <<reqPc, resched>>,
         \A e \in Emails : status'[e] = "none" <=> status[e] = "none",
         \A t \in Tasks : taskState'[t] = "none" <=> taskState[t] = "none"
  PROVE  Requests'
  BY TaskFacts DEF Requests, EmailOf

\* A retry, an archival and a completion create no task.
LEMMA QueueKeepsTasks ==
  ASSUME TypeOK, NEW t \in Tasks, taskState[t] = "active",
         RetryOrArchive(t) \/ Complete(t)
  PROVE  \A u \in Tasks : taskState'[u] = "none" <=> taskState[u] = "none"
  BY RetryFacts DEF Complete, TypeOK

\* The statements of Send keep Requests.
LEMMA RequestsSend ==
  ASSUME TypeOK, Requests, NEW e \in Emails, SendRequest(e)
  PROVE  Requests'
  <1>1. CASE \/ ReceiveSend(e)
             \/ checkQuota(e)
             \/ LookupKey(e)
             \/ StoreAttachments(e)
             \/ SaveKey(e)
    <2>1. UNCHANGED <<status, taskState, resched>>
      BY <1>1 DEF ReceiveSend, checkQuota, LookupKey, StoreAttachments, SaveKey
    <2>2. \A f \in Emails : f # e => reqPc'[f] = reqPc[f]
      BY <1>1 DEF ReceiveSend, checkQuota, LookupKey, StoreAttachments, SaveKey, TypeOK
    <2>3. \/ /\ reqPc[e] \in {"none", "quota", "lookup"}
             /\ reqPc'[e] \in {"quota", "lookup", "insert", "rejected", "ok", "error"}
          \/ /\ reqPc[e] \in {"attach", "key"}
             /\ reqPc'[e] \in {"key", "enqueue", "error"}
      BY <1>1 DEF ReceiveSend, checkQuota, LookupKey, StoreAttachments, SaveKey, TypeOK
    <2> QED BY <2>1, <2>2, <2>3 DEF Requests, EmailOf
  <1>2. CASE InsertEmail(e)
    <2>1. UNCHANGED <<taskState, resched>>
      BY <1>2 DEF InsertEmail
    <2>2. \A f \in Emails : f # e => reqPc'[f] = reqPc[f] /\ status'[f] = status[f]
      BY <1>2 DEF InsertEmail, TypeOK
    <2>3. reqPc[e] = "insert" /\ reqPc'[e] = "attach" /\ status'[e] # "none"
      BY <1>2 DEF InsertEmail, TypeOK
    <2>4. \A t \in Tasks : taskState[t] # "none" => status'[EmailOf(t)] # "none"
      BY <2>2, <2>3, TaskFacts DEF Requests
    <2> QED BY <2>1, <2>2, <2>3, <2>4 DEF Requests
  <1>3. CASE EnqueueSend(e)
    <2>1. UNCHANGED <<status, resched>>
      BY <1>3 DEF EnqueueSend
    <2>2. \A f \in Emails : f # e => reqPc'[f] = reqPc[f]
      BY <1>3 DEF EnqueueSend, TypeOK
    <2>3. reqPc[e] = "enqueue" /\ reqPc'[e] \in {"ok", "error"}
      BY <1>3 DEF EnqueueSend, TypeOK
    <2>4. \A t \in Tasks : t # FirstTask(e) => taskState'[t] = taskState[t]
      BY <1>3 DEF EnqueueSend, TypeOK
    <2>5. FirstTask(e)[2] = 0 /\ EmailOf(FirstTask(e)) = e
      BY DEF FirstTask, EmailOf
    <2>6. \A f \in Emails : f # e => FirstTask(f) # FirstTask(e)
      BY DEF FirstTask
    <2>7. ~(0 > resched[e])
      BY DEF TypeOK
    <2> QED
      BY <2>1, <2>2, <2>3, <2>4, <2>5, <2>6, <2>7, TaskFacts DEF Requests
  <1> QED BY <1>1, <1>2, <1>3 DEF SendRequest

\* What a step of an attempt may touch: its own task, and the status of its own
\* row, which it moves to sent, failed or delivered.
LEMMA AttemptFrame ==
  ASSUME TypeOK, Requests, NEW t \in Tasks, Accounted(t), AttemptStep(t)
  PROVE  /\ taskState[t] = "active"
         /\ taskState' = taskState \/ RetryOrArchive(t) \/ Complete(t)
         /\ UNCHANGED <<reqPc, reqAt, schedAt, resched, dueAt, now>>
         /\ \/ status' = status
            \/ \E s \in {"sent", "failed", "delivered"} :
                  status' = [status EXCEPT ![EmailOf(t)] = s]
         /\ \A e \in Emails : status'[e] = "none" <=> status[e] = "none"
         /\ lost' \in {lost, [lost EXCEPT ![EmailOf(t)] = TRUE]}
         /\ handed' \in {handed, [handed EXCEPT ![t] = handed[t] + 1]}
  <1>1. taskState[t] = "active" /\ status[EmailOf(t)] # "none"
    BY DEF Requests, Accounted, AttemptStep, LoadEmail, LoadUnless, PrepareFails,
           ReserveWarmup, SendToProvider, MarkFailed, RecordSent, RecordSentAs,
           IncrementUsage, LocalEventInsert,
           LocalEventFails, LocalEventStatus, WritePc, EventPcs
  <1>2. UNCHANGED <<reqPc, reqAt, schedAt, resched, now>>
    BY DEF AttemptStep, LoadEmail, LoadUnless, PrepareFails,
           ReserveWarmup, SendToProvider, MarkFailed, RecordSent, RecordSentAs,
           IncrementUsage, LocalEventInsert,
           LocalEventFails, LocalEventStatus
  <1>3. \/ status' = status
        \/ \E s \in {"sent", "failed", "delivered"} :
              status' = [status EXCEPT ![EmailOf(t)] = s]
    <2>1. CASE LocalEventStatus(t)
      <3>1. PICK call \in {"sentEvent", "failedEvent", "deliveredEvent"} :
               status' \in {status, [status EXCEPT ![EmailOf(t)] =
                                        statusFromEvent(EventPcs[call])]}
        BY <2>1 DEF LocalEventStatus, WritePc
      <3>2. statusFromEvent(EventPcs[call]) \in {"sent", "failed", "delivered"}
        BY DEF statusFromEvent, EventPcs
      <3> QED BY <3>1, <3>2
    <2>2. CASE ~LocalEventStatus(t)
      BY <2>2 DEF AttemptStep, LoadEmail, LoadUnless, PrepareFails,
           ReserveWarmup, SendToProvider, MarkFailed, RecordSent, RecordSentAs,
           IncrementUsage, LocalEventInsert,
           LocalEventFails
    <2> QED BY <2>1, <2>2
  <1>4. taskState' = taskState \/ RetryOrArchive(t) \/ Complete(t)
    BY LocalEventEnds DEF AttemptStep, LoadEmail, LoadUnless, PrepareFails,
           ReserveWarmup, SendToProvider, MarkFailed, RecordSent, RecordSentAs,
           IncrementUsage, LocalEventInsert
  <1>5. \A e \in Emails : status'[e] = "none" <=> status[e] = "none"
    BY <1>1, <1>3, TaskFacts DEF TypeOK
  <1>6. dueAt' = dueAt
    BY LocalEventEnds, RetryFacts
       DEF AttemptStep, Complete, LoadEmail, LoadUnless, PrepareFails,
           ReserveWarmup, SendToProvider, MarkFailed, RecordSent, RecordSentAs,
           IncrementUsage, LocalEventInsert
  <1>7. lost' \in {lost, [lost EXCEPT ![EmailOf(t)] = TRUE]}
    BY DEF AttemptStep, LoseError, LoadEmail, LoadUnless, PrepareFails,
           ReserveWarmup, SendToProvider, MarkFailed, RecordSent, RecordSentAs,
           IncrementUsage, LocalEventInsert,
           LocalEventFails, LocalEventStatus
  <1>8. handed' \in {handed, [handed EXCEPT ![t] = handed[t] + 1]}
    BY DEF AttemptStep, LoadEmail, LoadUnless, PrepareFails,
           ReserveWarmup, SendToProvider, MarkFailed, RecordSent, RecordSentAs,
           IncrementUsage, LocalEventInsert,
           LocalEventFails, LocalEventStatus
  <1> QED BY <1>1, <1>2, <1>3, <1>4, <1>5, <1>6, <1>7, <1>8

\* An attempt takes back neither a copy nor the mark of a lost write.
LEMMA AttemptGrows ==
  ASSUME TypeOK, Requests, NEW t \in Tasks, Accounted(t), AttemptStep(t)
  PROVE  /\ \A u \in Tasks : handed'[u] \in Nat /\ handed[u] <= handed'[u]
         /\ \A e \in Emails : lost[e] => lost'[e]
  <1>1. ASSUME NEW u \in Tasks PROVE handed'[u] \in Nat /\ handed[u] <= handed'[u]
    <2>1. handed[u] \in Nat
      BY DEF TypeOK
    <2>2. CASE handed' = handed
      BY <2>1, <2>2
    <2>3. CASE handed' = [handed EXCEPT ![t] = handed[t] + 1]
      <3>1. handed'[u] = IF u = t THEN handed[u] + 1 ELSE handed[u]
        BY <2>3 DEF TypeOK
      <3> QED BY <2>1, <3>1
    <2> QED BY <2>2, <2>3, AttemptFrame
  <1>2. ASSUME NEW e \in Emails, lost[e] PROVE lost'[e]
    <2>1. CASE lost' = lost
      BY <1>2, <2>1
    <2>2. CASE lost' = [lost EXCEPT ![EmailOf(t)] = TRUE]
      <3>1. lost'[e] = IF e = EmailOf(t) THEN TRUE ELSE lost[e]
        BY <2>2 DEF TypeOK
      <3> QED BY <1>2, <3>1
    <2> QED BY <2>1, <2>2, AttemptFrame
  <1> QED BY <1>1, <1>2

\* Every step of an attempt keeps Requests.
LEMMA RequestsAttempt ==
  ASSUME TypeOK, Requests, NEW t \in Tasks, Accounted(t), AttemptStep(t)
  PROVE  Requests'
  <1>1. \A u \in Tasks : taskState'[u] = "none" <=> taskState[u] = "none"
    BY AttemptFrame, QueueKeepsTasks
  <1> QED BY <1>1, AttemptFrame, RequestsKept

\* Every step of the system keeps Requests.
LEMMA RequestsNext ==
  ASSUME TypeOK, Requests, \A t \in Tasks : Accounted(t), \A e \in Emails : Noticed(e), Next
  PROVE  Requests'
  <1>1. ASSUME NEW e \in Emails, Cancel(e) PROVE Requests'
    BY <1>1, RequestsKept DEF Cancel, TypeOK
  <1>2. ASSUME NEW e \in Emails, NEW at \in Times, UpdateSchedule(e, at) PROVE Requests'
    <2>1. UNCHANGED reqPc
      BY <1>2 DEF UpdateSchedule, RescheduleIn
    <2>2. status[e] \in Unsent /\ status' = [status EXCEPT ![e] = "scheduled"]
      BY <1>2 DEF UpdateSchedule, RescheduleIn
    <2>3. /\ resched[e] \in 0 .. MaxReschedules
          /\ resched' = [resched EXCEPT ![e] = resched[e] + 1]
          /\ taskState' = [taskState EXCEPT ![<<e, resched[e] + 1>>] = "handing"]
      BY <1>2 DEF UpdateSchedule, RescheduleIn, TypeOK
    <2>4. \A f \in Emails : status'[f] = "none" <=> status[f] = "none"
      BY <2>2 DEF TypeOK, Unsent
    <2>5. \A t \in Tasks : taskState'[t] # "none" =>
               taskState[t] # "none" \/ t = <<e, resched[e] + 1>>
      BY <2>3 DEF TypeOK
    <2>6. \A t \in Tasks : t[2] > resched'[EmailOf(t)] => taskState'[t] = "none"
      <3>1. SUFFICES ASSUME NEW t \in Tasks, t[2] > resched'[EmailOf(t)],
                            taskState'[t] # "none"
                     PROVE  FALSE
        OBVIOUS
      <3>2. CASE EmailOf(t) = e
        <4>1. resched'[EmailOf(t)] = resched[e] + 1
          BY <2>3, <3>2 DEF TypeOK
        <4>2. t[2] \in 0 .. MaxReschedules
          BY DEF Tasks
        <4>3. t[2] > resched[e] /\ t # <<e, resched[e] + 1>>
          BY <2>3, <3>1, <4>1, <4>2
        <4> QED BY <2>5, <3>1, <3>2, <4>3 DEF Requests
      <3>3. CASE EmailOf(t) # e
        <4>1. resched'[EmailOf(t)] = resched[EmailOf(t)] /\ t # <<e, resched[e] + 1>>
          BY <2>3, <3>3, TaskFacts DEF TypeOK, EmailOf
        <4> QED BY <2>5, <3>1, <4>1 DEF Requests
      <3> QED BY <3>2, <3>3
    <2>7. \A t \in Tasks : taskState'[t] # "none" => status'[EmailOf(t)] # "none"
      <3>1. EmailOf(<<e, resched[e] + 1>>) = e /\ status[e] # "none"
        BY <2>2 DEF EmailOf, Unsent
      <3> QED BY <2>4, <2>5, <3>1, TaskFacts DEF Requests
    <2>8. \A f \in Emails : FirstTask(f) # <<e, resched[e] + 1>>
      BY <2>3 DEF FirstTask
    <2> QED BY <2>1, <2>4, <2>5, <2>6, <2>7, <2>8, TaskFacts DEF Requests
  <1>3. ASSUME NEW t \in Tasks, EnqueueReschedule(t) \/ StartAttempt(t) PROVE Requests'
    BY <1>3, RequestsKept DEF EnqueueReschedule, StartAttempt, TypeOK
  <1>4. ASSUME NEW t \in Tasks, LeaseExpires(t) PROVE Requests'
    BY <1>4, QueueKeepsTasks, RequestsKept DEF LeaseExpires
  <1>5. ASSUME NEW t \in Tasks, AttemptStep(t) PROVE Requests'
    BY <1>5, RequestsAttempt
  <1>6. CASE \/ \E a \in Listed : Suppress(a) \/ Unsuppress(a)
             \/ \E k \in Keys : ExpireKey(k)
             \/ Tick
    BY <1>6, RequestsKept DEF Suppress, Unsuppress, ExpireKey, Tick
  <1>7. ASSUME NEW e \in Emails, ConsumerStep(e) PROVE Requests'
    <2>1. UNCHANGED <<reqPc, resched, taskState>>
      BY <1>7, ConsumerFrame
    <2>2. \A f \in Emails : status'[f] = "none" <=> status[f] = "none"
      BY <1>7, ConsumerFrame DEF TypeOK
    <2> QED BY <2>1, <2>2, RequestsKept
  <1> QED BY <1>1, <1>2, <1>3, <1>4, <1>5, <1>6, <1>7, RequestsSend DEF Next

-----------------------------------------------------------------------------
(***************************************************************************)
(* The time of the first task.                                             *)
(***************************************************************************)

\* A step that changes nothing Timely looks at keeps it.
LEMMA TimelyStutter ==
  ASSUME NEW e \in Emails, Timely(e),
         UNCHANGED <<resched, status, schedAt, reqAt, taskState, dueAt, handed, now>>
  PROVE  Timely(e)'
  BY DEF Timely, Begun

\* A retry, an archival and a completion leave a begun task begun.
LEMMA BegunStays ==
  ASSUME TypeOK, NEW t \in Tasks, NEW u \in Tasks, taskState[t] = "active",
         taskState' = taskState \/ RetryOrArchive(t) \/ Complete(t)
  PROVE  /\ Begun(u)' <=> Begun(u)
         /\ taskState'[u] = "none" <=> taskState[u] = "none"
  BY RetryFacts DEF Complete, TypeOK, Begun

\* Every step of the system keeps Timely.
LEMMA TimelyNext ==
  ASSUME TypeOK, TypeOK', Requests, \A t \in Tasks : Accounted(t),
         \A e \in Emails : Noticed(e), Next, NEW f \in Emails, Timely(f)
  PROVE  Timely(f)'
  <1> DEFINE u == FirstTask(f)
  <1>0. u \in Tasks
    BY TaskFacts
  <1>1. ASSUME NEW e \in Emails, SendRequest(e) PROVE Timely(f)'
    <2>1. CASE checkQuota(e) \/ LookupKey(e) \/ StoreAttachments(e) \/ SaveKey(e)
      BY <2>1, TimelyStutter DEF checkQuota, LookupKey, StoreAttachments, SaveKey
    <2>2. CASE ReceiveSend(e)
      <3>1. UNCHANGED <<resched, status, schedAt, taskState, dueAt, handed, now>>
        BY <2>2 DEF ReceiveSend
      <3>2. reqAt'[f] = reqAt[f] \/ (status[f] = "none" /\ taskState[u] = "none")
        BY <2>2 DEF ReceiveSend, Requests, TypeOK
      <3> QED BY <3>1, <3>2 DEF Timely, Begun
    <2>3. CASE InsertEmail(e)
      <3>1. UNCHANGED <<resched, taskState, dueAt, handed, now>>
        BY <2>3 DEF InsertEmail
      <3>2. CASE f = e
        <4>1. schedAt'[f] = reqAt'[f] /\ taskState[u] = "none"
          BY <2>3, <3>2 DEF InsertEmail, Requests, TypeOK
        <4> QED BY <3>1, <4>1 DEF Timely, Begun
      <3>3. CASE f # e
        <4>1. schedAt'[f] = schedAt[f] /\ reqAt'[f] = reqAt[f] /\ status'[f] = status[f]
          BY <2>3, <3>3 DEF InsertEmail, TypeOK
        <4> QED BY <3>1, <4>1 DEF Timely, Begun
      <3> QED BY <3>2, <3>3
    <2>4. CASE EnqueueSend(e)
      <3>1. UNCHANGED <<resched, status, schedAt, reqAt, handed, now>>
        BY <2>4 DEF EnqueueSend
      <3>2. CASE f = e
        <4>1. \/ taskState'[u] = taskState[u] /\ dueAt'[u] = dueAt[u]
              \/ taskState'[u] = "pending" /\ dueAt'[u] = reqAt[f]
          BY <1>0, <2>4, <3>2 DEF EnqueueSend, ProcessAt, TypeOK
        <4>2. taskState[u] = "none"
          BY <2>4, <3>2 DEF EnqueueSend, Requests
        <4> QED BY <3>1, <4>1, <4>2 DEF Timely, Begun
      <3>3. CASE f # e
        <4>1. u # FirstTask(e)
          BY <3>3 DEF FirstTask
        <4>2. taskState'[u] = taskState[u] /\ dueAt'[u] = dueAt[u]
          BY <1>0, <2>4, <4>1 DEF EnqueueSend, TypeOK
        <4> QED BY <3>1, <4>2 DEF Timely, Begun
      <3> QED BY <3>2, <3>3
    <2> QED BY <1>1, <2>1, <2>2, <2>3, <2>4 DEF SendRequest
  <1>2. ASSUME NEW e \in Emails, Cancel(e) PROVE Timely(f)'
    <2>1. UNCHANGED <<resched, schedAt, reqAt, taskState, dueAt, handed, now>>
      BY <1>2 DEF Cancel
    <2>2. status'[f] # "none" => status[f] # "none"
      BY <1>2 DEF Cancel, TypeOK
    <2> QED BY <2>1, <2>2 DEF Timely, Begun
  <1>3. ASSUME NEW e \in Emails, NEW at \in Times, UpdateSchedule(e, at) PROVE Timely(f)'
    <2>1. UNCHANGED <<reqAt, handed, now>> /\ resched[e] \in Nat
      BY <1>3 DEF UpdateSchedule, RescheduleIn, TypeOK
    <2>2. u # <<e, resched[e] + 1>>
      BY <2>1 DEF FirstTask
    <2>3. taskState'[u] = taskState[u] /\ dueAt'[u] = dueAt[u]
      BY <1>0, <1>3, <2>2 DEF UpdateSchedule, RescheduleIn, TypeOK
    <2>4. CASE f = e
      <3>1. resched'[f] # 0
        BY <1>3, <2>1, <2>4 DEF UpdateSchedule, RescheduleIn, TypeOK
      <3> QED BY <2>1, <2>3, <3>1 DEF Timely, Begun
    <2>5. CASE f # e
      <3>1. resched'[f] = resched[f] /\ schedAt'[f] = schedAt[f] /\ status'[f] = status[f]
        BY <1>3, <2>5 DEF UpdateSchedule, RescheduleIn, TypeOK
      <3> QED BY <2>1, <2>3, <3>1 DEF Timely, Begun
    <2> QED BY <2>4, <2>5
  <1>4. ASSUME NEW t \in Tasks, EnqueueReschedule(t) PROVE Timely(f)'
    <2>1. UNCHANGED <<resched, status, schedAt, reqAt, dueAt, handed, now>>
      BY <1>4 DEF EnqueueReschedule
    <2>2. \/ taskState'[u] = taskState[u]
          \/ taskState[u] = "handing" /\ taskState'[u] = "pending"
      BY <1>0, <1>4 DEF EnqueueReschedule, TypeOK
    <2> QED BY <2>1, <2>2 DEF Timely, Begun
  <1>5. ASSUME NEW t \in Tasks, StartAttempt(t) PROVE Timely(f)'
    <2>1. UNCHANGED <<resched, status, schedAt, reqAt, dueAt, handed, now>>
      BY <1>5 DEF StartAttempt
    <2>2. \/ taskState'[u] = taskState[u]
          \/ /\ taskState'[u] = "active"
             /\ \/ taskState[u] = "pending" /\ dueAt[u] <= now
                \/ taskState[u] = "retry"
      BY <1>0, <1>5 DEF StartAttempt, TypeOK
    <2> QED BY <2>1, <2>2 DEF Timely, Begun
  <1>6. ASSUME NEW t \in Tasks, LeaseExpires(t) PROVE Timely(f)'
    <2>1. UNCHANGED <<resched, status, schedAt, reqAt, dueAt, handed, now>>
      BY <1>6, RetryFacts DEF LeaseExpires
    <2>2. (Begun(u)' <=> Begun(u)) /\ (taskState'[u] = "none" <=> taskState[u] = "none")
      BY <1>0, <1>6, BegunStays DEF LeaseExpires
    <2> QED BY <2>1, <2>2 DEF Timely
  <1>7. ASSUME NEW t \in Tasks, AttemptStep(t) PROVE Timely(f)'
    <2>1. UNCHANGED <<resched, schedAt, reqAt, dueAt, now>>
      BY <1>7, AttemptFrame
    <2>2. (Begun(u)' <=> Begun(u)) /\ (taskState'[u] = "none" <=> taskState[u] = "none")
      BY <1>0, <1>7, BegunStays, AttemptFrame
    <2>3. status'[f] = "none" <=> status[f] = "none"
      BY <1>7, AttemptFrame
    <2>4. handed'[u] = handed[u] \/ u = t
      <3>1. handed' \in {handed, [handed EXCEPT ![t] = handed[t] + 1]}
        BY <1>7, AttemptFrame
      <3> QED BY <1>0, <3>1 DEF TypeOK
    <2>5. u = t => Begun(u)
      BY <1>7, AttemptFrame DEF Begun
    <2> QED BY <2>1, <2>2, <2>3, <2>4, <2>5 DEF Timely
  <1>8. CASE Tick
    <2>1. UNCHANGED <<resched, status, schedAt, reqAt, taskState, dueAt, handed>>
      BY <1>8 DEF Tick
    <2>2. now' = now + 1 /\ now \in Nat /\ dueAt[u] \in Nat
      BY <1>0, <1>8 DEF Tick, TypeOK, Times
    <2> QED BY <2>1, <2>2 DEF Timely, Begun
  <1>9. CASE \/ \E a \in Listed : Suppress(a) \/ Unsuppress(a)
             \/ \E k \in Keys : ExpireKey(k)
    BY <1>9, TimelyStutter DEF Suppress, Unsuppress, ExpireKey
  <1>10. ASSUME NEW e \in Emails, ConsumerStep(e) PROVE Timely(f)'
    <2>1. UNCHANGED <<resched, schedAt, reqAt, taskState, dueAt, handed, now>>
      BY <1>10, ConsumerFrame
    <2>2. status'[f] = "none" <=> status[f] = "none"
      BY <1>10, ConsumerFrame DEF TypeOK
    <2> QED BY <2>1, <2>2 DEF Timely, Begun
  <1> QED BY <1>1, <1>2, <1>3, <1>4, <1>5, <1>6, <1>7, <1>8, <1>9, <1>10 DEF Next

-----------------------------------------------------------------------------
(***************************************************************************)
(* Completed tasks and the message a row names.                            *)
(***************************************************************************)

\* An attempt comes past the UPDATE to sent, or to a completed task, only
\* through that UPDATE, or because the row said so when it was read.
LEMMA AttemptReaches ==
  ASSUME TypeOK, NEW t \in Tasks, AttemptStep(t),
         pc'[t] \in RecordedPcs \/ (taskState'[t] = "completed" /\ taskState[t] = "active")
  PROVE  \/ pc[t] \in RecordedPcs
         \/ RecordSent(t)
         \/ /\ status[EmailOf(t)] \in SkippedByWorker /\ status' = status
            /\ pc'[t] = "idle"
  <1>1. CASE LoadEmail(t)
    BY <1>1 DEF LoadEmail, LoadUnless, Complete, RecordedPcs, TypeOK
  <1>2. CASE PrepareFails(t)
    BY <1>2, RetryFacts DEF PrepareFails, RecordedPcs, TypeOK
  <1>3. CASE ReserveWarmup(t)
    BY <1>3 DEF ReserveWarmup, RecordedPcs, TypeOK
  <1>4. CASE SendToProvider(t)
    <2>1. pc'[t] \in {"record", "fail"} /\ taskState' = taskState
      BY <1>4 DEF SendToProvider, TypeOK
    <2> QED BY <2>1 DEF RecordedPcs
  <1>5. CASE MarkFailed(t)
    BY <1>5 DEF MarkFailed, RecordedPcs, TypeOK
  <1>6. CASE RecordSent(t)
    BY <1>6
  <1>7. CASE IncrementUsage(t)
    BY <1>7 DEF IncrementUsage, RecordedPcs
  <1>8. CASE LocalEventInsert(t)
    <2>1. pc[t] \in {"sentEvent", "failedEvent", "deliveredEvent"}
      BY <1>8 DEF LocalEventInsert, WritePc
    <2>2. pc[t] = "failedEvent" => pc'[t] = "failedStatus" /\ taskState' = taskState
      BY <1>8 DEF LocalEventInsert, WritePc, TypeOK
    <2> QED BY <2>1, <2>2 DEF RecordedPcs
  <1>9. CASE LocalEventFails(t) \/ LocalEventStatus(t)
    <2>1. CASE pc[t] \in FailurePcs /\ RetryOrArchive(t)
      BY <2>1, RetryFacts DEF RecordedPcs, TypeOK
    <2>2. CASE pc[t] \in SuccessPcs \ {"record", "usage"}
      BY <2>2 DEF RecordedPcs
    <2> QED BY <1>9, <2>1, <2>2, LocalEventEnds
  <1> QED
    BY <1>1, <1>2, <1>3, <1>4, <1>5, <1>6, <1>7, <1>8, <1>9 DEF AttemptStep

\* An attempt does not touch another task.
LEMMA AttemptAlone ==
  ASSUME TypeOK, NEW t \in Tasks, AttemptStep(t), NEW u \in Tasks, u # t
  PROVE  pc'[u] = pc[u] /\ taskState'[u] = taskState[u]
  BY RetryFacts, LocalEventEnds
     DEF AttemptStep, LoadEmail, LoadUnless, PrepareFails, ReserveWarmup,
         SendToProvider, MarkFailed, RecordSent, RecordSentAs, IncrementUsage,
         LocalEventInsert, Complete, TypeOK

\* The UPDATE to sent names the accepted message, or is lost.
LEMMA RecordSentNames ==
  ASSUME TypeOK, NEW t \in Tasks, RecordSent(t)
  PROVE  \/ /\ status'[EmailOf(t)] = "sent"
            /\ messageId' = [messageId EXCEPT ![EmailOf(t)] = <<t, handed[t]>>]
         \/ lost'[EmailOf(t)] /\ status' = status /\ messageId' = messageId
  BY TaskFacts DEF RecordSent, RecordSentAs, LoseError, TypeOK

\* A task outside the attempt's row keeps Resolved, and so does every task
\* whose row is not moved back.
LEMMA ResolvedKept ==
  ASSUME TypeOK, NEW u \in Tasks, Resolved(u),
         lost[EmailOf(u)] => lost'[EmailOf(u)],
         \/ status'[EmailOf(u)] = status[EmailOf(u)]
         \/ status'[EmailOf(u)] \notin Unsent \cup {"none"},
         pc'[u] \in RecordedPcs => pc[u] \in RecordedPcs,
         taskState'[u] = "completed" => taskState[u] = "completed" \/ pc[u] \in RecordedPcs
  PROVE  Resolved(u)'
  BY DEF Resolved, EmailOf

\* Every step of an attempt keeps Resolved.
LEMMA ResolvedAttempt ==
  ASSUME TypeOK, Requests, NEW t \in Tasks, Accounted(t), AttemptStep(t),
         NEW u \in Tasks, Resolved(u)
  PROVE  Resolved(u)'
  <1>1. lost[EmailOf(u)] => lost'[EmailOf(u)]
    BY AttemptGrows, TaskFacts
  <1>2. \/ status'[EmailOf(u)] = status[EmailOf(u)]
        \/ status'[EmailOf(u)] \notin Unsent \cup {"none"}
    <2>1. CASE status' = status
      BY <2>1
    <2>2. ASSUME NEW s \in {"sent", "failed", "delivered"},
                 status' = [status EXCEPT ![EmailOf(t)] = s]
          PROVE  status'[EmailOf(u)] = status[EmailOf(u)] \/ status'[EmailOf(u)] = s
      BY <2>2, TaskFacts DEF TypeOK
    <2> QED BY <2>1, <2>2, AttemptFrame DEF Unsent
  <1>3. CASE u # t
    BY <1>1, <1>2, <1>3, AttemptAlone, ResolvedKept
  <1>4. CASE u = t
    <2>1. taskState[u] = "active"
      BY <1>4, AttemptFrame
    <2>2. CASE ~(pc'[u] \in RecordedPcs \/ taskState'[u] = "completed")
      BY <2>2 DEF Resolved
    <2>3. CASE pc[u] \in RecordedPcs
      BY <1>1, <1>2, <2>3, ResolvedKept
    <2>4. CASE RecordSent(u)
      BY <2>4, RecordSentNames DEF Resolved, Unsent
    <2>5. CASE status[EmailOf(u)] \in SkippedByWorker /\ status' = status
      BY <2>5 DEF Resolved, Unsent, SkippedByWorker
    <2> QED BY <1>4, <2>1, <2>2, <2>3, <2>4, <2>5, AttemptReaches
  <1> QED BY <1>3, <1>4

\* Every step of the system keeps Resolved.
LEMMA ResolvedNext ==
  ASSUME TypeOK, Requests, \A t \in Tasks : Accounted(t),
         \A e \in Emails : Noticed(e), Next, NEW u \in Tasks, Resolved(u)
  PROVE  Resolved(u)'
  <1>1. ASSUME NEW e \in Emails, SendRequest(e) PROVE Resolved(u)'
    <2>1. UNCHANGED <<lost, pc>>
      BY <1>1 DEF SendRequest, ReceiveSend, checkQuota, LookupKey, InsertEmail,
                  StoreAttachments, SaveKey, EnqueueSend
    <2>2. taskState'[u] = "completed" => taskState[u] = "completed"
      BY <1>1 DEF SendRequest, ReceiveSend, checkQuota, LookupKey, InsertEmail,
                  StoreAttachments, SaveKey, EnqueueSend, TypeOK
    <2>3. CASE InsertEmail(e)
      <3>1. status'[EmailOf(u)] = status[EmailOf(u)] \/ status[EmailOf(u)] = "none"
        BY <2>3, TaskFacts DEF InsertEmail, Requests, TypeOK
      <3>2. status[EmailOf(u)] = "none" => taskState[u] = "none" /\ pc[u] = "idle"
        BY DEF Requests, Accounted
      <3> QED BY <2>1, <2>2, <3>1, <3>2, ResolvedKept DEF Resolved, RecordedPcs
    <2>4. CASE ~InsertEmail(e)
      <3>1. status' = status
        BY <1>1, <2>4 DEF SendRequest, ReceiveSend, checkQuota, LookupKey,
                          StoreAttachments, SaveKey, EnqueueSend
      <3> QED BY <2>1, <2>2, <3>1, ResolvedKept
    <2> QED BY <2>3, <2>4
  <1>2. ASSUME NEW e \in Emails, Cancel(e) PROVE Resolved(u)'
    <2>1. UNCHANGED <<lost, pc, taskState>>
      BY <1>2 DEF Cancel
    <2>2. \/ status'[EmailOf(u)] = status[EmailOf(u)]
          \/ status'[EmailOf(u)] = "canceled"
      BY <1>2, TaskFacts DEF Cancel, TypeOK
    <2> QED BY <2>1, <2>2, ResolvedKept DEF Unsent
  <1>3. ASSUME NEW e \in Emails, NEW at \in Times, UpdateSchedule(e, at) PROVE Resolved(u)'
    <2>1. UNCHANGED <<lost, pc>>
      BY <1>3 DEF UpdateSchedule, RescheduleIn
    <2>2. taskState'[u] = "completed" => taskState[u] = "completed"
      BY <1>3 DEF UpdateSchedule, RescheduleIn, TypeOK
    <2>3. status'[EmailOf(u)] = status[EmailOf(u)] \/ status[EmailOf(u)] \in Unsent
      BY <1>3, TaskFacts DEF UpdateSchedule, RescheduleIn, TypeOK
    <2> QED BY <2>1, <2>2, <2>3 DEF Resolved, EmailOf
  <1>4. ASSUME NEW t \in Tasks, EnqueueReschedule(t) \/ StartAttempt(t) PROVE Resolved(u)'
    <2>1. UNCHANGED <<lost, status>>
      BY <1>4 DEF EnqueueReschedule, StartAttempt
    <2>2. /\ pc'[u] \in RecordedPcs => pc[u] \in RecordedPcs
          /\ taskState'[u] = "completed" => taskState[u] = "completed"
      BY <1>4 DEF EnqueueReschedule, StartAttempt, RecordedPcs, TypeOK
    <2> QED BY <2>1, <2>2, ResolvedKept
  <1>5. ASSUME NEW t \in Tasks, LeaseExpires(t) PROVE Resolved(u)'
    <2>1. UNCHANGED <<lost, status>>
      BY <1>5 DEF LeaseExpires
    <2>2. /\ pc'[u] \in RecordedPcs => pc[u] \in RecordedPcs
          /\ taskState'[u] = "completed" => taskState[u] = "completed"
      BY <1>5, RetryFacts DEF LeaseExpires, RecordedPcs, TypeOK
    <2> QED BY <2>1, <2>2, ResolvedKept
  <1>6. ASSUME NEW t \in Tasks, AttemptStep(t) PROVE Resolved(u)'
    BY <1>6, ResolvedAttempt
  <1>7. CASE \/ \E a \in Listed : Suppress(a) \/ Unsuppress(a)
             \/ \E k \in Keys : ExpireKey(k)
             \/ Tick
    BY <1>7, ResolvedKept DEF Suppress, Unsuppress, ExpireKey, Tick
  <1>8. ASSUME NEW e \in Emails, ConsumerStep(e) PROVE Resolved(u)'
    <2>1. UNCHANGED <<lost, pc, taskState>>
      BY <1>8, ConsumerFrame
    <2>2. \/ status'[EmailOf(u)] = status[EmailOf(u)]
          \/ status'[EmailOf(u)] \notin Unsent \cup {"none"}
      BY <1>8, ConsumerFrame, TaskFacts DEF TypeOK
    <2> QED BY <2>1, <2>2, ResolvedKept
  <1> QED BY <1>1, <1>2, <1>3, <1>4, <1>5, <1>6, <1>7, <1>8 DEF Next

\* The id of a row is an accepted message as long as it stays, and the provider
\* takes nothing back.
LEMMA NamedKept ==
  ASSUME TypeOK, NEW e \in Emails, Named(e), messageId'[e] = messageId[e],
         \A t \in Tasks : handed'[t] \in Nat /\ handed[t] <= handed'[t]
  PROVE  Named(e)'
  <1>1. PICK t \in Tasks : EmailOf(t) = e /\ \E n \in 1 .. handed[t] : messageId[e] = <<t, n>>
    BY DEF Named
  <1>2. \A n \in 1 .. handed[t] : n \in 1 .. handed'[t]
    BY DEF TypeOK
  <1> QED BY <1>1, <1>2 DEF Named, EmailOf

\* Every step of an attempt keeps Traced.
LEMMA TracedAttemptStep ==
  ASSUME TypeOK, TypeOK', Requests, NEW t \in Tasks, Accounted(t), TracedAttempt(t),
         AttemptStep(t), NEW e \in Emails, Traced(e)
  PROVE  Traced(e)'
  <1>1. \A u \in Tasks : handed'[u] \in Nat /\ handed[u] <= handed'[u]
    BY AttemptGrows
  <1>2. lost[e] => lost'[e]
    BY AttemptGrows
  <1>3. CASE RecordSent(t)
    <2>1. handed' = handed /\ handed[t] > 0 /\ handed[t] \in Nat
      BY <1>3 DEF RecordSent, RecordSentAs, Accounted, TypeOK
    <2>2. <<t, handed[t]>> # NoMessage
      BY <2>1, TaskFacts, NoMessageAssumption
    <2>3. CASE messageId' = messageId /\ status' = status
      BY <1>1, <1>2, <2>3, NamedKept DEF Traced
    <2>4. CASE messageId' = [messageId EXCEPT ![EmailOf(t)] = <<t, handed[t]>>]
      <3>1. CASE e = EmailOf(t)
        <4>1. messageId'[e] = <<t, handed[t]>>
          BY <2>4, <3>1 DEF TypeOK
        <4>2. handed[t] \in 1 .. handed'[t]
          BY <2>1
        <4>3. Named(e)'
          BY <3>1, <4>1, <4>2 DEF Named, EmailOf
        <4> QED BY <2>2, <4>1, <4>3 DEF Traced
      <3>2. CASE e # EmailOf(t)
        <4>1. messageId'[e] = messageId[e]
          BY <2>4, <3>2 DEF TypeOK
        <4>2. status'[e] = status[e]
          <5>1. CASE status' = status
            BY <5>1
          <5>2. ASSUME NEW s \in {"sent", "failed", "delivered"},
                       status' = [status EXCEPT ![EmailOf(t)] = s]
                PROVE  status'[e] = status[e]
            BY <3>2, <5>2 DEF TypeOK
          <5> QED BY <5>1, <5>2, AttemptFrame
        <4> QED BY <1>1, <1>2, <4>1, <4>2, NamedKept DEF Traced
      <3> QED BY <3>1, <3>2
    <2> QED BY <1>3, <2>3, <2>4, RecordSentNames
  <1>4. CASE ~RecordSent(t)
    <2>1. messageId' = messageId
      BY <1>4 DEF AttemptStep, LoadEmail, LoadUnless, PrepareFails, ReserveWarmup,
                  SendToProvider, MarkFailed, IncrementUsage, LocalEventInsert,
                  LocalEventFails, LocalEventStatus
    <2>2. \/ status'[e] = status[e]
          \/ status'[e] = "failed"
          \/ e = EmailOf(t) /\ pc[t] \in RecordedPcs
      <3>1. CASE LocalEventStatus(t)
        <4>1. PICK call \in {"sentEvent", "failedEvent", "deliveredEvent"} :
                 /\ pc[t] = WritePc[call]
                 /\ status' \in {status, [status EXCEPT ![EmailOf(t)] =
                                             statusFromEvent(EventPcs[call])]}
          BY <3>1 DEF LocalEventStatus, WritePc
        <4>2. CASE call = "failedEvent"
          <5>1. statusFromEvent(EventPcs[call]) = "failed"
            BY <4>2 DEF statusFromEvent, EventPcs
          <5> QED BY <4>1, <5>1, TaskFacts DEF TypeOK
        <4>3. CASE call # "failedEvent"
          <5>1. pc[t] \in RecordedPcs
            BY <4>1, <4>3 DEF WritePc, RecordedPcs
          <5> QED BY <4>1, <5>1, TaskFacts DEF TypeOK
        <4> QED BY <4>2, <4>3
      <3>2. CASE ~LocalEventStatus(t)
        <4>1. status' \in {status, [status EXCEPT ![EmailOf(t)] = "failed"]}
          BY <1>4, <3>2 DEF AttemptStep, LoadEmail, LoadUnless, PrepareFails,
                  ReserveWarmup, SendToProvider, MarkFailed, IncrementUsage,
                  LocalEventInsert, LocalEventFails
        <4> QED BY <4>1, TaskFacts DEF TypeOK
      <3> QED BY <3>1, <3>2
    <2>3. messageId'[e] # NoMessage => Named(e)'
      BY <1>1, <2>1, NamedKept DEF Traced
    <2> QED BY <1>2, <2>1, <2>2, <2>3 DEF Traced, TracedAttempt
  <1> QED BY <1>3, <1>4

\* A row that names a message goes on naming one.
LEMMA NamesStay ==
  ASSUME TypeOK, Next, NEW e \in Emails, messageId[e] # NoMessage
  PROVE  messageId'[e] # NoMessage
  <1>1. ASSUME NEW t \in Tasks, RecordSent(t) PROVE messageId'[e] # NoMessage
    <2>1. handed[t] \in Nat
      BY DEF TypeOK
    <2>2. <<t, handed[t]>> # NoMessage
      BY <2>1, TaskFacts, NoMessageAssumption
    <2>3. messageId' \in {messageId, [messageId EXCEPT ![EmailOf(t)] = <<t, handed[t]>>]}
      BY <1>1 DEF RecordSent, RecordSentAs
    <2>4. messageId'[e] \in {messageId[e], <<t, handed[t]>>}
      BY <2>3 DEF TypeOK
    <2> QED BY <2>2, <2>4
  <1>2. CASE \A t \in Tasks : ~RecordSent(t)
    <2>1. messageId' = messageId
      BY <1>2 DEF Next, SendRequest, ReceiveSend, checkQuota, LookupKey, InsertEmail,
                  StoreAttachments, SaveKey, EnqueueSend, Cancel, UpdateSchedule,
                  RescheduleIn, EnqueueReschedule, StartAttempt, LeaseExpires,
                  AttemptStep, LoadEmail, LoadUnless, PrepareFails, ReserveWarmup,
                  SendToProvider, MarkFailed, IncrementUsage, LocalEventInsert,
                  LocalEventFails, LocalEventStatus, ConsumerStep, FindByMessage,
                  NoticeStatus, Suppress, Unsuppress, ExpireKey, Tick
    <2> QED BY <2>1
  <1> QED BY <1>1, <1>2

\* Outside an attempt no message is accepted or named, and a row that is not
\* named becomes no sent one.
LEMMA WorldFrame ==
  ASSUME TypeOK, Next, \A e \in Emails : Noticed(e), \A t \in Tasks : ~AttemptStep(t)
  PROVE  /\ UNCHANGED <<messageId, handed, lost>>
         /\ \A e \in Emails : \/ status'[e] = status[e]
                              \/ status'[e] \in Unsent \cup {"canceled"}
                              \/ messageId[e] # NoMessage
         /\ \A u \in Tasks : pc'[u] \in RecordedPcs => pc[u] \in RecordedPcs
  <1>1. ASSUME NEW e \in Emails, SendRequest(e)
        PROVE  /\ UNCHANGED <<messageId, handed, lost, pc>>
               /\ \/ status' = status
                  \/ \E s \in Unsent : status' = [status EXCEPT ![e] = s]
    BY <1>1 DEF SendRequest, ReceiveSend, checkQuota, LookupKey, InsertEmail,
                StoreAttachments, SaveKey, EnqueueSend, Unsent
  <1>2. ASSUME NEW e \in Emails, Cancel(e)
        PROVE  /\ UNCHANGED <<messageId, handed, lost, pc>>
               /\ status' = [status EXCEPT ![e] = "canceled"]
    BY <1>2 DEF Cancel
  <1>3. ASSUME NEW e \in Emails, NEW at \in Times, UpdateSchedule(e, at)
        PROVE  /\ UNCHANGED <<messageId, handed, lost, pc>>
               /\ status' = [status EXCEPT ![e] = "scheduled"]
    BY <1>3 DEF UpdateSchedule, RescheduleIn
  <1>4. ASSUME NEW t \in Tasks, EnqueueReschedule(t) \/ StartAttempt(t) \/ LeaseExpires(t)
        PROVE  /\ UNCHANGED <<messageId, handed, lost, status>>
               /\ pc' \in {pc, [pc EXCEPT ![t] = "load"], [pc EXCEPT ![t] = "idle"]}
    BY <1>4, RetryFacts DEF EnqueueReschedule, StartAttempt, LeaseExpires
  <1>5. CASE \/ \E a \in Listed : Suppress(a) \/ Unsuppress(a)
             \/ \E k \in Keys : ExpireKey(k)
             \/ Tick
    BY <1>5 DEF Suppress, Unsuppress, ExpireKey, Tick
  <1>6. ASSUME NEW e \in Emails, NEW s \in Unsent \cup {"canceled"},
               status' = [status EXCEPT ![e] = s]
        PROVE  \A f \in Emails : \/ status'[f] = status[f]
                                \/ status'[f] \in Unsent \cup {"canceled"}
    BY <1>6 DEF TypeOK
  <1>7. ASSUME NEW t \in Tasks,
               pc' \in {pc, [pc EXCEPT ![t] = "load"], [pc EXCEPT ![t] = "idle"]}
        PROVE  \A u \in Tasks : pc'[u] \in RecordedPcs => pc[u] \in RecordedPcs
    BY <1>7 DEF TypeOK, RecordedPcs
  <1>8. "scheduled" \in Unsent
    BY DEF Unsent
  <1>9. CASE \E e \in Emails : SendRequest(e)
    BY <1>1, <1>6, <1>9
  <1>10. CASE \E e \in Emails : Cancel(e)
    BY <1>2, <1>6, <1>10
  <1>11. CASE \E e \in Emails, at \in Times : UpdateSchedule(e, at)
    BY <1>3, <1>6, <1>8, <1>11
  <1>12. CASE \E t \in Tasks : EnqueueReschedule(t) \/ StartAttempt(t) \/ LeaseExpires(t)
    BY <1>4, <1>7, <1>12
  <1>13. ASSUME NEW e \in Emails, ConsumerStep(e)
         PROVE  /\ UNCHANGED <<messageId, handed, lost, pc>>
                /\ \A f \in Emails : status'[f] = status[f] \/ messageId[f] # NoMessage
    BY <1>13, ConsumerFrame DEF TypeOK
  <1> QED BY <1>5, <1>9, <1>10, <1>11, <1>12, <1>13 DEF Next

\* Every step of the system keeps Traced.
LEMMA TracedNext ==
  ASSUME TypeOK, TypeOK', Requests, \A t \in Tasks : Accounted(t) /\ TracedAttempt(t), Next,
         \A f \in Emails : Noticed(f), NEW e \in Emails, Traced(e)
  PROVE  Traced(e)'
  <1>1. ASSUME NEW t \in Tasks, AttemptStep(t) PROVE Traced(e)'
    BY <1>1, TracedAttemptStep
  <1>2. CASE \A t \in Tasks : ~AttemptStep(t)
    <2>1. UNCHANGED <<messageId, handed, lost>>
      BY <1>2, WorldFrame
    <2>2. \/ status'[e] = status[e] \/ status'[e] \in Unsent \cup {"canceled"}
          \/ messageId[e] # NoMessage
      BY <1>2, WorldFrame
    <2>3. Named(e)' <=> Named(e)
      BY <2>1 DEF Named
    <2> QED BY <2>1, <2>2, <2>3 DEF Traced, Unsent
  <1> QED BY <1>1, <1>2

\* Every step of the system keeps TracedAttempt.
LEMMA TracedAttemptNext ==
  ASSUME TypeOK, Requests, \A t \in Tasks : Accounted(t),
         \A e \in Emails : Noticed(e), Next, NEW u \in Tasks, TracedAttempt(u)
  PROVE  TracedAttempt(u)'
  <1>1. EmailOf(u) \in Emails
    BY TaskFacts
  <1>2. messageId[EmailOf(u)] # NoMessage => messageId'[EmailOf(u)] # NoMessage
    BY <1>1, NamesStay
  <1>3. ASSUME NEW t \in Tasks, AttemptStep(t) PROVE TracedAttempt(u)'
    <2>1. lost[EmailOf(u)] => lost'[EmailOf(u)]
      BY <1>1, <1>3, AttemptGrows
    <2>2. CASE pc'[u] \in RecordedPcs => pc[u] \in RecordedPcs
      BY <1>2, <2>1, <2>2 DEF TracedAttempt, EmailOf
    <2>3. CASE pc'[u] \in RecordedPcs /\ pc[u] \notin RecordedPcs
      <3>1. u = t
        BY <1>3, <2>3, AttemptAlone
      <3>2. RecordSent(u)
        BY <1>3, <2>3, <3>1, AttemptReaches DEF RecordedPcs
      <3>3. handed[u] \in Nat
        BY DEF TypeOK
      <3>4. <<u, handed[u]>> # NoMessage
        BY <3>3, TaskFacts, NoMessageAssumption
      <3>5. \/ lost'[EmailOf(u)]
            \/ messageId'[EmailOf(u)] = <<u, handed[u]>>
        BY <1>1, <3>2, RecordSentNames DEF TypeOK
      <3> QED BY <3>4, <3>5 DEF TracedAttempt, EmailOf
    <2> QED BY <2>2, <2>3
  <1>4. CASE \A t \in Tasks : ~AttemptStep(t)
    BY <1>2, <1>4, WorldFrame DEF TracedAttempt
  <1> QED BY <1>3, <1>4

\* Every step of the system keeps Noticed.
LEMMA NoticedNext ==
  ASSUME TypeOK, TypeOK', Requests, \A t \in Tasks : Accounted(t) /\ TracedAttempt(t), Next,
         \A f \in Emails : Noticed(f), NEW e \in Emails
  PROVE  Noticed(e)'
  <1>1. messageId[e] # NoMessage => messageId'[e] # NoMessage
    BY NamesStay
  <1>2. noticing'[e] # {} => messageId'[e] # NoMessage
    <2>1. ASSUME NEW f \in Emails, FindByMessage(f)
          PROVE  noticing'[e] = noticing[e] \/ messageId[e] # NoMessage
      BY <2>1 DEF FindByMessage, TypeOK
    <2>2. ASSUME NEW f \in Emails,
                 \/ SendRequest(f) \/ Cancel(f)
                 \/ \E at \in Times : UpdateSchedule(f, at)
                 \/ NoticeStatus(f)
          PROVE  noticing' = noticing
      BY <2>2 DEF SendRequest, ReceiveSend, checkQuota, LookupKey, InsertEmail,
                  StoreAttachments, SaveKey, EnqueueSend, Cancel, UpdateSchedule,
                  RescheduleIn, NoticeStatus
    <2>3. ASSUME NEW t \in Tasks,
                 EnqueueReschedule(t) \/ StartAttempt(t) \/ LeaseExpires(t)
          PROVE  noticing' = noticing
      BY <2>3 DEF EnqueueReschedule, StartAttempt, LeaseExpires
    <2>4. ASSUME NEW t \in Tasks, AttemptStep(t)
          PROVE  noticing' = noticing
      BY <2>4 DEF AttemptStep, LoadEmail, LoadUnless, PrepareFails, ReserveWarmup,
                  SendToProvider, MarkFailed, RecordSent, RecordSentAs, IncrementUsage,
                  LocalEventInsert, LocalEventFails, LocalEventStatus
    <2>5. CASE \/ \E a \in Listed : Suppress(a) \/ Unsuppress(a)
               \/ \E k \in Keys : ExpireKey(k)
               \/ Tick
      BY <2>5, <1>1 DEF Suppress, Unsuppress, ExpireKey, Tick, Noticed
    <2> QED BY <1>1, <2>1, <2>2, <2>3, <2>4, <2>5 DEF Next, ConsumerStep, Noticed
  <1>3. messageId'[e] # NoMessage => status'[e] \notin Unsent \cup {"none"}
    <2>1. ASSUME NEW t \in Tasks, AttemptStep(t)
          PROVE  messageId'[e] # NoMessage => status'[e] \notin Unsent \cup {"none"}
      <3>1. \/ status'[e] = status[e]
            \/ status'[e] \in {"sent", "failed", "delivered"}
        <4>1. CASE status' = status
          BY <4>1
        <4>2. ASSUME NEW s \in {"sent", "failed", "delivered"},
                     status' = [status EXCEPT ![EmailOf(t)] = s]
              PROVE  status'[e] = status[e] \/ status'[e] = s
          BY <4>2 DEF TypeOK
        <4> QED BY <2>1, <4>1, <4>2, AttemptFrame
      <3>2. messageId'[e] = messageId[e] \/ status'[e] = "sent"
        <4>1. CASE RecordSent(t)
          <5>1. CASE e = EmailOf(t)
            BY <4>1, <5>1, RecordSentNames
          <5>2. CASE e # EmailOf(t)
            BY <4>1, <5>2, RecordSentNames DEF TypeOK
          <5> QED BY <5>1, <5>2
        <4>2. CASE ~RecordSent(t)
          BY <2>1, <4>2
             DEF AttemptStep, LoadEmail, LoadUnless, PrepareFails, ReserveWarmup,
                 SendToProvider, MarkFailed, IncrementUsage, LocalEventInsert,
                 LocalEventFails, LocalEventStatus
        <4> QED BY <4>1, <4>2
      <3> QED BY <3>1, <3>2 DEF Noticed, Unsent
    <2>2. ASSUME NEW f \in Emails, ConsumerStep(f)
          PROVE  messageId'[e] # NoMessage => status'[e] \notin Unsent \cup {"none"}
      <3>1. messageId' = messageId
        BY <2>2, ConsumerFrame
      <3>2. status'[e] = status[e] \/ status'[e] \notin Unsent \cup {"none"}
        BY <2>2, ConsumerFrame DEF TypeOK
      <3> QED BY <3>1, <3>2 DEF Noticed
    <2>3. ASSUME NEW f \in Emails,
                 \/ SendRequest(f) \/ Cancel(f)
                 \/ \E at \in Times : UpdateSchedule(f, at)
          PROVE  messageId'[e] # NoMessage => status'[e] \notin Unsent \cup {"none"}
      <3>1. messageId' = messageId
        BY <2>3 DEF SendRequest, ReceiveSend, checkQuota, LookupKey, InsertEmail,
                    StoreAttachments, SaveKey, EnqueueSend, Cancel, UpdateSchedule,
                    RescheduleIn
      <3>2. status'[e] = status[e] \/ status[e] \in Unsent \cup {"none"}
        <4>1. CASE InsertEmail(f)
          BY <4>1 DEF InsertEmail, Requests, TypeOK
        <4>2. CASE ~InsertEmail(f)
          BY <2>3, <4>2
             DEF SendRequest, ReceiveSend, checkQuota, LookupKey, StoreAttachments,
                 SaveKey, EnqueueSend, Cancel, UpdateSchedule, RescheduleIn, Unsent, TypeOK
        <4> QED BY <4>1, <4>2
      <3> QED BY <3>1, <3>2 DEF Noticed
    <2>4. CASE \/ \E t \in Tasks : EnqueueReschedule(t) \/ StartAttempt(t) \/ LeaseExpires(t)
               \/ \E a \in Listed : Suppress(a) \/ Unsuppress(a)
               \/ \E k \in Keys : ExpireKey(k)
               \/ Tick
      BY <2>4 DEF EnqueueReschedule, StartAttempt, LeaseExpires, Suppress, Unsuppress,
                  ExpireKey, Tick, Noticed
    <2> QED BY <2>1, <2>2, <2>3, <2>4 DEF Next
  <1> QED BY <1>2, <1>3 DEF Noticed

-----------------------------------------------------------------------------
(***************************************************************************)
(* The theorems.                                                           *)
(***************************************************************************)

IInv ==
    /\ TypeOK
    /\ Requests
    /\ \A t \in Tasks : Accounted(t) /\ Resolved(t) /\ TracedAttempt(t)
    /\ \A e \in Emails : Timely(e) /\ Traced(e) /\ Noticed(e)

\* IInv holds at first.
LEMMA InitIInv == Init => IInv
  <1> SUFFICES ASSUME Init PROVE IInv
    OBVIOUS
  <1>1. TypeOK
    BY InitTypeOK
  <1>2. Requests
    BY TaskFacts DEF Init, Requests
  <1>3. ASSUME NEW t \in Tasks PROVE Accounted(t) /\ Resolved(t) /\ TracedAttempt(t)
    BY DEF Init, Accounted, Resolved, TracedAttempt, RecordedPcs
  <1>4. ASSUME NEW e \in Emails PROVE Timely(e) /\ Traced(e) /\ Noticed(e)
    <2>1. /\ status[e] = "none" /\ taskState[FirstTask(e)] = "none"
          /\ handed[FirstTask(e)] = 0 /\ messageId[e] = NoMessage /\ noticing[e] = {}
      BY TaskFacts DEF Init
    <2> QED BY <2>1 DEF Timely, Traced, Begun, Noticed
  <1> QED BY <1>1, <1>2, <1>3, <1>4 DEF IInv

\* Every step keeps IInv.
LEMMA NextIInv == IInv /\ [Next]_vars => IInv'
  <1>1. ASSUME IInv, Next PROVE IInv'
    <2>1. TypeOK'
      BY <1>1, TypeCorrectStep DEF IInv
    <2>2. Requests'
      BY <1>1, RequestsNext DEF IInv
    <2>3. ASSUME NEW t \in Tasks PROVE (Accounted(t) /\ Resolved(t) /\ TracedAttempt(t))'
      BY <1>1, AccountedNext, ResolvedNext, TracedAttemptNext DEF IInv
    <2>4. ASSUME NEW e \in Emails PROVE (Timely(e) /\ Traced(e) /\ Noticed(e))'
      BY <1>1, <2>1, TimelyNext, TracedNext, NoticedNext DEF IInv
    <2>5. /\ (\A t \in Tasks : Accounted(t) /\ Resolved(t) /\ TracedAttempt(t))'
          /\ (\A e \in Emails : Timely(e) /\ Traced(e) /\ Noticed(e))'
      BY <2>3, <2>4
    <2> QED BY <2>1, <2>2, <2>5 DEF IInv
  <1>2. ASSUME IInv, UNCHANGED vars PROVE IInv'
    BY <1>2 DEF IInv, vars, TypeOK, Requests, Accounted, Resolved, TracedAttempt,
                Timely, Traced, Begun, Named, Noticed
  <1> QED BY <1>1, <1>2

\* IInv always holds.
LEMMA AlwaysIInv == Spec => []IInv
  BY InitIInv, NextIInv, PTL DEF Spec

\* Every copy beyond the first of its task is paid for by a slip, and a task
\* makes at most one copy per attempt - however tasks, retries, dying workers
\* and provider time-outs interleave.
THEOREM CopiesAreExplained == Spec => []CopiesExplained
  <1>1. IInv => CopiesExplained
    BY DEF IInv, CopiesExplained, Accounted
  <1> QED BY <1>1, AlwaysIInv, PTL

\* An email that was never rescheduled is not handed to the provider before
\* its scheduled_at.
THEOREM FirstTaskIsOnTime == Spec => []SentOnTime
  <1>1. IInv => SentOnTime
    <2> SUFFICES ASSUME IInv, NEW e \in Emails,
                        handed[FirstTask(e)] > 0, resched[e] = 0
                 PROVE  schedAt[e] <= now
      BY DEF SentOnTime
    <2>1. Begun(FirstTask(e)) /\ dueAt[FirstTask(e)] <= now
      BY DEF IInv, Timely
    <2>2. taskState[FirstTask(e)] # "none"
      BY <2>1 DEF Begun
    <2>3. status[e] # "none"
      <3>1. EmailOf(FirstTask(e)) = e
        BY DEF EmailOf, FirstTask
      <3> QED BY <2>2, <3>1, TaskFacts DEF IInv, Requests
    <2> QED BY <2>1, <2>2, <2>3 DEF IInv, Timely
  <1> QED BY <1>1, AlwaysIInv, PTL

\* Once a task has completed its row waits for nothing, or a write was lost.
THEOREM CompletedStaysResolved == Spec => []CompletedIsResolved
  <1>1. IInv => CompletedIsResolved
    BY DEF IInv, CompletedIsResolved, Resolved
  <1> QED BY <1>1, AlwaysIInv, PTL

\* A row that says sent or delivered names a message the provider accepted for
\* this email, or a write was lost.
THEOREM SentStaysTraceable == Spec => []SentIsTraceable
  <1>1. IInv => SentIsTraceable
    <2> SUFFICES ASSUME IInv, NEW e \in Emails, status[e] \in {"sent", "delivered"}, ~lost[e]
                 PROVE  \E k \in 0 .. MaxReschedules : \E n \in 1 .. handed[<<e, k>>] :
                           messageId[e] = <<<<e, k>>, n>>
      BY DEF SentIsTraceable
    <2>1. PICK t \in Tasks : /\ EmailOf(t) = e
                             /\ \E n \in 1 .. handed[t] : messageId[e] = <<t, n>>
      BY DEF IInv, Traced, Named
    <2>2. PICK k \in 0 .. MaxReschedules : t = <<e, k>>
      BY <2>1 DEF Tasks, EmailOf
    <2> QED BY <2>1, <2>2
  <1> QED BY <1>1, AlwaysIInv, PTL

-----------------------------------------------------------------------------
(***************************************************************************)
(* The usage that quota and billing read.                                  *)
(***************************************************************************)

\* The attempts whose message is accepted and not counted yet.
Uncounted == {t \in Tasks : pc[t] \in {"record", "usage"}}

Backed ==
    /\ IsFiniteSet(Accepted)
    /\ usage + Cardinality(Uncounted) <= Cardinality(Accepted)

LEMMA TasksAreFinite == IsFiniteSet(Tasks)
  <1>1. IsFiniteSet(0 .. MaxReschedules)
    BY FS_Interval
  <1> QED BY <1>1, FS_Product DEF Tasks

\* A step that counts nothing and finishes no attempt keeps the account.
LEMMA BackedQuiet ==
  ASSUME TypeOK, Backed, UNCHANGED <<usage, handed>>,
         \A t \in Tasks : pc'[t] \in {"record", "usage"} => pc[t] \in {"record", "usage"}
  PROVE  Backed'
  <1>1. Accepted' = Accepted
    BY DEF Accepted
  <1>2. Uncounted' \in SUBSET Uncounted /\ IsFiniteSet(Uncounted)
    BY TasksAreFinite, FS_Subset DEF Uncounted
  <1>3. /\ Cardinality(Uncounted') <= Cardinality(Uncounted)
        /\ Cardinality(Uncounted) \in Nat /\ Cardinality(Uncounted') \in Nat
    BY <1>2, FS_Subset, FS_CardinalityType
  <1>4. usage \in Nat /\ Cardinality(Accepted) \in Nat
    BY FS_CardinalityType DEF TypeOK, Backed
  <1> QED BY <1>1, <1>3, <1>4 DEF Backed

\* An accepted message is one more, and its attempt at most one more to count.
LEMMA BackedSend ==
  ASSUME TypeOK, Backed, NEW t \in Tasks, SendToProvider(t)
  PROVE  Backed'
  <1>1. /\ pc[t] = "send" /\ usage' = usage
        /\ \/ handed' = handed /\ pc' = [pc EXCEPT ![t] = "fail"]
           \/ /\ handed' = [handed EXCEPT ![t] = handed[t] + 1]
              /\ pc' \in {[pc EXCEPT ![t] = "record"], [pc EXCEPT ![t] = "fail"]}
    BY DEF SendToProvider
  <1>2. CASE handed' = handed /\ pc' = [pc EXCEPT ![t] = "fail"]
    BY <1>1, <1>2, BackedQuiet DEF TypeOK
  <1>3. CASE /\ handed' = [handed EXCEPT ![t] = handed[t] + 1]
             /\ pc' \in {[pc EXCEPT ![t] = "record"], [pc EXCEPT ![t] = "fail"]}
    <2> DEFINE message == <<t, handed[t] + 1>>
    <2>1. /\ handed[t] \in Nat /\ handed'[t] = handed[t] + 1
          /\ \A u \in Tasks : u # t => handed'[u] = handed[u]
      BY <1>3 DEF TypeOK
    <2>2. 1 .. handed'[t] = (1 .. handed[t]) \cup {handed[t] + 1}
      BY <2>1
    <2>3. {t} \X (1 .. handed'[t]) = ({t} \X (1 .. handed[t])) \cup {message}
      BY <2>2
    <2>4. Accepted' = Accepted \cup {message}
      BY <2>1, <2>3 DEF Accepted
    <2>5. message \notin Accepted
      BY <2>1 DEF Accepted
    <2> HIDE DEF message
    <2>6. /\ IsFiniteSet(Accepted') /\ Cardinality(Accepted) \in Nat
          /\ Cardinality(Accepted') = Cardinality(Accepted) + 1
      BY <2>4, <2>5, FS_AddElement, FS_CardinalityType DEF Backed
    <2>7. Uncounted' \in SUBSET (Uncounted \cup {t}) /\ t \notin Uncounted
          /\ IsFiniteSet(Uncounted)
      BY <1>1, <1>3, TasksAreFinite, FS_Subset DEF Uncounted, TypeOK
    <2>8. /\ IsFiniteSet(Uncounted \cup {t}) /\ Cardinality(Uncounted) \in Nat
          /\ Cardinality(Uncounted \cup {t}) = Cardinality(Uncounted) + 1
      BY <2>7, FS_AddElement, FS_CardinalityType
    <2>9. /\ Cardinality(Uncounted') <= Cardinality(Uncounted) + 1
          /\ Cardinality(Uncounted') \in Nat
      BY <2>7, <2>8, FS_Subset, FS_CardinalityType
    <2>10. usage \in Nat /\ usage + Cardinality(Uncounted) <= Cardinality(Accepted)
      BY DEF TypeOK, Backed
    <2>11. usage + Cardinality(Uncounted') <= Cardinality(Accepted')
      BY <2>6, <2>8, <2>9, <2>10
    <2> QED BY <1>1, <2>6, <2>11 DEF Backed
  <1> QED BY <1>1, <1>2, <1>3

\* The attempt that counts its message has none to count any more.
LEMMA BackedIncrement ==
  ASSUME TypeOK, Backed, NEW t \in Tasks, IncrementUsage(t)
  PROVE  Backed'
  <1>1. /\ pc[t] = "usage" /\ handed' = handed /\ usage' \in {usage, usage + 1}
        /\ pc' = [pc EXCEPT ![t] = "sentEvent"]
    BY DEF IncrementUsage
  <1>2. Accepted' = Accepted
    BY <1>1 DEF Accepted
  <1>3. Uncounted' = Uncounted \ {t} /\ t \in Uncounted /\ IsFiniteSet(Uncounted)
    BY <1>1, TasksAreFinite, FS_Subset DEF Uncounted, TypeOK
  <1>4. /\ Cardinality(Uncounted') = Cardinality(Uncounted) - 1
        /\ Cardinality(Uncounted) \in Nat
    BY <1>3, FS_RemoveElement, FS_CardinalityType
  <1>5. usage \in Nat /\ Cardinality(Accepted) \in Nat
    BY FS_CardinalityType DEF TypeOK, Backed
  <1>6. usage + Cardinality(Uncounted) <= Cardinality(Accepted)
    BY DEF Backed
  <1>7. usage' + Cardinality(Uncounted') <= Cardinality(Accepted)
    BY <1>1, <1>4, <1>5, <1>6
  <1> QED BY <1>2, <1>7 DEF Backed

\* No other step counts, accepts a message or comes to the UPDATE to sent.
LEMMA BackedNext ==
  ASSUME TypeOK, Backed, Next
  PROVE  Backed'
  <1>1. ASSUME NEW e \in Emails,
               \/ SendRequest(e) \/ Cancel(e) \/ \E at \in Times : UpdateSchedule(e, at)
               \/ ConsumerStep(e)
        PROVE  UNCHANGED <<usage, handed, pc>>
    BY <1>1 DEF SendRequest, ReceiveSend, checkQuota, LookupKey, InsertEmail,
                StoreAttachments, SaveKey, EnqueueSend, Cancel, UpdateSchedule,
                RescheduleIn, ConsumerStep, FindByMessage, NoticeStatus
  <1>2. ASSUME NEW t \in Tasks, EnqueueReschedule(t) \/ StartAttempt(t) \/ LeaseExpires(t)
        PROVE  /\ UNCHANGED <<usage, handed>>
               /\ pc' \in {pc, [pc EXCEPT ![t] = "load"], [pc EXCEPT ![t] = "idle"]}
    BY <1>2, RetryFacts DEF EnqueueReschedule, StartAttempt, LeaseExpires
  <1>3. ASSUME NEW t \in Tasks,
               LoadEmail(t) \/ PrepareFails(t) \/ ReserveWarmup(t) \/ MarkFailed(t)
        PROVE  /\ UNCHANGED <<usage, handed>>
               /\ \E p \in {"idle", "reserve", "send", "fail", "failedEvent"} :
                     pc' = [pc EXCEPT ![t] = p]
    BY <1>3, RetryFacts DEF LoadEmail, LoadUnless, Complete, PrepareFails,
                            ReserveWarmup, MarkFailed
  <1>4. ASSUME NEW t \in Tasks, RecordSent(t)
        PROVE  UNCHANGED <<usage, handed>> /\ pc[t] = "record"
               /\ pc' = [pc EXCEPT ![t] = "usage"]
    BY <1>4 DEF RecordSent, RecordSentAs
  <1>5. ASSUME NEW t \in Tasks, LocalEventInsert(t)
        PROVE  /\ UNCHANGED <<usage, handed>>
               /\ \E p \in {"sentStatus", "failedStatus", "deliveredStatus"} :
                     pc' = [pc EXCEPT ![t] = p]
    <2>1. /\ pc[t] \in {"sentEvent", "failedEvent", "deliveredEvent"}
          /\ pc' = [pc EXCEPT ![t] = WritePc[pc[t]]] /\ UNCHANGED <<usage, handed>>
      BY <1>5 DEF LocalEventInsert, WritePc
    <2>2. WritePc[pc[t]] \in {"sentStatus", "failedStatus", "deliveredStatus"}
      BY <2>1 DEF WritePc
    <2> QED BY <2>1, <2>2
  <1>6. ASSUME NEW t \in Tasks, LocalEventFails(t) \/ LocalEventStatus(t)
        PROVE  /\ UNCHANGED <<usage, handed>>
               /\ \E p \in {"idle", "deliveredEvent"} : pc' = [pc EXCEPT ![t] = p]
    <2>1. UNCHANGED <<usage, handed>>
      BY <1>6 DEF LocalEventFails, LocalEventStatus
    <2> QED BY <1>6, <2>1, LocalEventEnds, RetryFacts DEF Complete
  <1>7. CASE \E e \in Emails :
               \/ SendRequest(e) \/ Cancel(e) \/ \E at \in Times : UpdateSchedule(e, at)
               \/ ConsumerStep(e)
    BY <1>1, <1>7, BackedQuiet
  <1>8. ASSUME NEW t \in Tasks, EnqueueReschedule(t) \/ StartAttempt(t) \/ LeaseExpires(t)
        PROVE  Backed'
    BY <1>2, <1>8, BackedQuiet DEF TypeOK
  <1>9. ASSUME NEW t \in Tasks, AttemptStep(t)
        PROVE  Backed'
    <2>1. CASE SendToProvider(t)
      BY <2>1, BackedSend
    <2>2. CASE IncrementUsage(t)
      BY <2>2, BackedIncrement
    <2>3. CASE LoadEmail(t) \/ PrepareFails(t) \/ ReserveWarmup(t) \/ MarkFailed(t)
      BY <1>3, <2>3, BackedQuiet DEF TypeOK
    <2>4. CASE RecordSent(t)
      BY <1>4, <2>4, BackedQuiet DEF TypeOK
    <2>5. CASE LocalEventInsert(t)
      BY <1>5, <2>5, BackedQuiet DEF TypeOK
    <2>6. CASE LocalEventFails(t) \/ LocalEventStatus(t)
      BY <1>6, <2>6, BackedQuiet DEF TypeOK
    <2> QED BY <1>9, <2>1, <2>2, <2>3, <2>4, <2>5, <2>6 DEF AttemptStep
  <1>10. CASE \/ \E a \in Listed : Suppress(a) \/ Unsuppress(a)
              \/ \E k \in Keys : ExpireKey(k)
              \/ Tick
    BY <1>10, BackedQuiet DEF Suppress, Unsuppress, ExpireKey, Tick
  <1> QED BY <1>7, <1>8, <1>9, <1>10 DEF Next

LEMMA InitBacked == Init => Backed
  <1> SUFFICES ASSUME Init PROVE Backed
    OBVIOUS
  <1>1. Accepted = {} /\ Uncounted = {} /\ usage = 0
    BY DEF Init, Accepted, Uncounted
  <1> QED BY <1>1, FS_EmptySet DEF Backed

\* The usage that quota and billing read never exceeds the messages that the
\* provider accepted, over all retries, crashes and tasks.
THEOREM UsageStaysBacked == Spec => []UsageIsBacked
  <1>1. TypeOK /\ Backed /\ [Next]_vars => Backed'
    BY BackedNext DEF vars, Backed, Accepted, Uncounted
  <1>2. Spec => []Backed
    BY <1>1, InitBacked, TypeCorrect, PTL DEF Spec
  <1>3. TypeOK /\ Backed => UsageIsBacked
    <2> SUFFICES ASSUME TypeOK, Backed PROVE UsageIsBacked
      OBVIOUS
    <2>1. IsFiniteSet(Uncounted)
      BY TasksAreFinite, FS_Subset DEF Uncounted
    <2>2. Cardinality(Uncounted) \in Nat /\ Cardinality(Accepted) \in Nat /\ usage \in Nat
      BY <2>1, FS_CardinalityType DEF TypeOK, Backed
    <2> QED BY <2>2 DEF Backed, UsageIsBacked
  <1> QED BY <1>2, <1>3, TypeCorrect, PTL

-----------------------------------------------------------------------------
(***************************************************************************)
(* Idempotency keys.                                                       *)
(***************************************************************************)

\* A step that leaves the requests and the keys alone, and the rows there.
LEMMA KeyedQuiet ==
  ASSUME NEW k \in Keys, KeyIsSettled(k), k \notin expired',
         UNCHANGED <<idem, reqPc, reqKey, blind>>,
         \A e \in Emails : status'[e] = "none" <=> status[e] = "none"
  PROVE  KeyIsSettled(k)' /\ RowsOf(k)' = RowsOf(k)
  BY DEF KeyIsSettled, KeyIsLive, RowsOf

\* A request with the key is answered or blind, and the INSERT of a key takes no
\* other key away.
LEMMA KeyedRequest ==
  ASSUME TypeOK, Requests, NEW e \in Emails, SendRequest(e),
         NEW k \in Keys, KeyIsSettled(k)
  PROVE  KeyIsSettled(k)' /\ RowsOf(k)' = RowsOf(k)
  <1> DEFINE Late == {"insert", "attach", "key", "enqueue"}
  <1>0. /\ k \notin expired /\ idem[k] # NoEmail
        /\ \A f \in Emails \ blind : reqKey[f] = k => reqPc[f] \notin Late
    BY DEF KeyIsSettled, KeyIsLive
  <1>1. ASSUME UNCHANGED <<idem, expired, reqKey, blind>>,
               \A f \in Emails : reqPc'[f] \in Late => reqPc[f] \in Late,
               \A f \in Emails : status'[f] = "none" <=> status[f] = "none"
        PROVE  KeyIsSettled(k)' /\ RowsOf(k)' = RowsOf(k)
    BY <1>0, <1>1 DEF KeyIsSettled, KeyIsLive, RowsOf
  <1>2. CASE ReceiveSend(e)
    <2>1. /\ reqPc[e] = "none" /\ status[e] = "none"
          /\ UNCHANGED <<status, idem, expired, blind>>
      BY <1>2 DEF ReceiveSend, Requests
    <2>2. PICK l \in Keys \cup {NoKey} : reqKey' = [reqKey EXCEPT ![e] = l]
      BY <1>2 DEF ReceiveSend
    <2>3. \A f \in Emails : f # e => reqKey'[f] = reqKey[f]
      BY <2>2 DEF TypeOK
    <2>4. reqPc' \in {[reqPc EXCEPT ![e] = "rejected"], [reqPc EXCEPT ![e] = "quota"]}
      BY <1>2 DEF ReceiveSend
    <2>5. reqPc'[e] \notin Late /\ \A f \in Emails : f # e => reqPc'[f] = reqPc[f]
      BY <2>4 DEF TypeOK
    <2> QED BY <1>0, <2>1, <2>3, <2>5 DEF KeyIsSettled, KeyIsLive, RowsOf
  <1>3. CASE checkQuota(e)
    BY <1>1, <1>3 DEF checkQuota, TypeOK
  <1>4. CASE LookupKey(e)
    <2>1. /\ status[e] = "none" /\ UNCHANGED <<status, idem, expired, reqKey>>
          /\ \A f \in Emails : f # e => reqPc'[f] = reqPc[f]
      BY <1>4 DEF LookupKey, Requests, TypeOK
    <2>2. blind' = blind \/ blind' = blind \cup {e}
      BY <1>4 DEF LookupKey
    <2>3. CASE reqKey[e] = k
      <3>1. reqPc'[e] \in {"ok", "error"} \/ e \in blind'
        BY <1>0, <1>4, <2>3 DEF LookupKey, HitsKey, KeyIsLive, TypeOK
      <3> QED BY <1>0, <2>1, <2>2, <3>1 DEF KeyIsSettled, KeyIsLive, RowsOf
    <2>4. CASE reqKey[e] # k
      BY <1>0, <2>1, <2>2, <2>4 DEF KeyIsSettled, KeyIsLive, RowsOf
    <2> QED BY <2>3, <2>4
  <1>5. CASE InsertEmail(e)
    <2>1. reqPc[e] = "insert" /\ UNCHANGED <<idem, expired, reqKey, blind>>
      BY <1>5 DEF InsertEmail
    <2>2. e \in blind \/ reqKey[e] # k
      BY <1>0, <2>1
    <2>3. \A f \in Emails : f # e => reqPc'[f] = reqPc[f] /\ status'[f] = status[f]
      BY <1>5 DEF InsertEmail, TypeOK
    <2> QED BY <1>0, <2>1, <2>2, <2>3 DEF KeyIsSettled, KeyIsLive, RowsOf
  <1>6. CASE StoreAttachments(e)
    BY <1>1, <1>6 DEF StoreAttachments, TypeOK
  <1>7. CASE SaveKey(e)
    <2>1. /\ reqPc[e] = "key" /\ reqPc' = [reqPc EXCEPT ![e] = "enqueue"]
          /\ UNCHANGED <<status, expired, reqKey, blind>>
      BY <1>7 DEF SaveKey
    <2>2. idem'[k] = idem[k]
      BY <1>0, <1>7 DEF SaveKey, TypeOK
    <2>3. \A f \in Emails : reqPc'[f] \in Late => reqPc[f] \in Late
      BY <2>1 DEF TypeOK
    <2> QED BY <1>0, <2>1, <2>2, <2>3 DEF KeyIsSettled, KeyIsLive, RowsOf
  <1>8. CASE EnqueueSend(e)
    BY <1>1, <1>8 DEF EnqueueSend, TypeOK
  <1> QED BY <1>2, <1>3, <1>4, <1>5, <1>6, <1>7, <1>8 DEF SendRequest

LEMMA KeyedNext ==
  ASSUME IInv, Next, NEW k \in Keys, KeyIsSettled(k), k \notin expired'
  PROVE  KeyIsSettled(k)' /\ RowsOf(k)' = RowsOf(k)
  <1>0. /\ TypeOK /\ Requests /\ \A t \in Tasks : Accounted(t)
        /\ \A f \in Emails : Noticed(f)
    BY DEF IInv
  <1>1. ASSUME NEW e \in Emails, SendRequest(e)
        PROVE  KeyIsSettled(k)' /\ RowsOf(k)' = RowsOf(k)
    BY <1>0, <1>1, KeyedRequest
  <1>2. ASSUME NEW e \in Emails, Cancel(e)
        PROVE  KeyIsSettled(k)' /\ RowsOf(k)' = RowsOf(k)
    <2>1. \A f \in Emails : status'[f] = "none" <=> status[f] = "none"
      BY <1>0, <1>2 DEF Cancel, TypeOK
    <2> QED BY <1>2, <2>1, KeyedQuiet DEF Cancel
  <1>3. ASSUME NEW e \in Emails, NEW at \in Times, UpdateSchedule(e, at)
        PROVE  KeyIsSettled(k)' /\ RowsOf(k)' = RowsOf(k)
    <2>1. \A f \in Emails : status'[f] = "none" <=> status[f] = "none"
      BY <1>0, <1>3 DEF UpdateSchedule, RescheduleIn, Unsent, TypeOK
    <2> QED BY <1>3, <2>1, KeyedQuiet DEF UpdateSchedule, RescheduleIn
  <1>4. ASSUME NEW t \in Tasks, EnqueueReschedule(t) \/ StartAttempt(t) \/ LeaseExpires(t)
        PROVE  KeyIsSettled(k)' /\ RowsOf(k)' = RowsOf(k)
    BY <1>4, KeyedQuiet DEF EnqueueReschedule, StartAttempt, LeaseExpires
  <1>5. ASSUME NEW t \in Tasks, AttemptStep(t)
        PROVE  KeyIsSettled(k)' /\ RowsOf(k)' = RowsOf(k)
    <2>1. UNCHANGED <<idem, reqPc, reqKey, blind>>
      BY <1>5 DEF AttemptStep, LoadEmail, LoadUnless, PrepareFails, ReserveWarmup,
                  SendToProvider, MarkFailed, RecordSent, RecordSentAs, IncrementUsage,
                  LocalEventInsert, LocalEventFails, LocalEventStatus
    <2>2. \A e \in Emails : status'[e] = "none" <=> status[e] = "none"
      BY <1>0, <1>5, AttemptFrame
    <2> QED BY <2>1, <2>2, KeyedQuiet
  <1>6. CASE \/ \E a \in Listed : Suppress(a) \/ Unsuppress(a)
             \/ \E l \in Keys : ExpireKey(l)
             \/ Tick
    BY <1>6, KeyedQuiet DEF Suppress, Unsuppress, ExpireKey, Tick
  <1>7. ASSUME NEW e \in Emails, ConsumerStep(e)
        PROVE  KeyIsSettled(k)' /\ RowsOf(k)' = RowsOf(k)
    <2>1. UNCHANGED <<idem, reqPc, reqKey, blind>>
      BY <1>0, <1>7, ConsumerFrame
    <2>2. \A f \in Emails : status'[f] = "none" <=> status[f] = "none"
      BY <1>0, <1>7, ConsumerFrame DEF TypeOK
    <2> QED BY <2>1, <2>2, KeyedQuiet
  <1> QED BY <1>1, <1>2, <1>3, <1>4, <1>5, <1>6, <1>7 DEF Next

\* Once a key is saved and no request that missed it is under way, no request
\* adds a row for it until it expires, however many come with it at the same
\* time and wherever they stop: only one whose own SELECT of the key fails does.
THEOREM KeysAreUsedOnce == Spec => KeyedOnce
  <1> DEFINE Kept(k) == KeyIsSettled(k) /\ k \notin expired'
                        => KeyIsSettled(k)' /\ RowsOf(k)' = RowsOf(k)
  <1>1. ASSUME IInv, [Next]_vars PROVE [\A k \in Keys : Kept(k)]_vars
    BY <1>1, KeyedNext
  <1> QED BY <1>1, AlwaysIInv, PTL DEF Spec, KeyedOnce

-----------------------------------------------------------------------------
(***************************************************************************)
(* EmailSend implements OutboundPromise: what a step does to the phase of  *)
(* the one email it is about.                                              *)
(***************************************************************************)

\* A step about email e, as far as phases go.
OnlyEmail(e) ==
    \A f \in Emails \ {e} :
        /\ status'[f] = status[f] /\ resched'[f] = resched[f]
        /\ \A k \in 0 .. MaxReschedules :
              pc'[<<f, k>>] = pc[<<f, k>>] /\ taskState'[<<f, k>>] = taskState[<<f, k>>]

LEMMA OnlyTask ==
  ASSUME NEW t \in Tasks, UNCHANGED resched,
         \A u \in Tasks : u # t => pc'[u] = pc[u] /\ taskState'[u] = taskState[u],
         \A f \in Emails : f # EmailOf(t) => status'[f] = status[f]
  PROVE  OnlyEmail(EmailOf(t))
  <1>1. ASSUME NEW f \in Emails, f # EmailOf(t), NEW k \in 0 .. MaxReschedules
        PROVE  <<f, k>> \in Tasks /\ <<f, k>> # t
    BY <1>1 DEF Tasks, EmailOf
  <1> QED BY <1>1 DEF OnlyEmail

LEMMA PhasesStep ==
  ASSUME TypeOK, NEW e \in Emails, OnlyEmail(e)
  PROVE  Phases' = [Phases EXCEPT ![e] = Phase(e)']
  <1>1. ASSUME NEW f \in Emails, f # e
        PROVE  Phase(f)' = Phase(f)
    <2>1. /\ status'[f] = status[f] /\ resched'[f] = resched[f]
          /\ \A k \in 0 .. MaxReschedules :
                pc'[<<f, k>>] = pc[<<f, k>>] /\ taskState'[<<f, k>>] = taskState[<<f, k>>]
      BY <1>1 DEF OnlyEmail
    <2>2. \A k \in 0 .. resched[f] : k \in 0 .. MaxReschedules
      BY DEF TypeOK
    <2>3. \A k \in 0 .. resched[f] : Over(<<f, k>>)' <=> Over(<<f, k>>)
      BY <2>1, <2>2 DEF Over
    <2>4. \A k \in 0 .. MaxReschedules : InFlight(<<f, k>>)' <=> InFlight(<<f, k>>)
      BY <2>1 DEF InFlight
    <2>5. Settled(f)' <=> Settled(f)
      BY <2>1, <2>3, <2>4 DEF Settled
    <2> QED BY <2>1, <2>5 DEF Phase
  <1> QED BY <1>1 DEF Phases

\* The moves that OutboundPromise allows.
Moves(e) ==
    \/ Phase(e)' = Phase(e)
    \/ Phase(e) = "absent" /\ Phase(e)' = "open"
    \/ Phase(e) = "open" /\ Phase(e)' = "closed"

LEMMA PromiseStep ==
  ASSUME TypeOK, NEW e \in Emails, OnlyEmail(e), Moves(e), UNCHANGED <<handed, reported>>
  PROVE  [Promise!Next]_(Promise!vars)
  <1>1. Phases' = [Phases EXCEPT ![e] = Phase(e)'] /\ Phases[e] = Phase(e)
    BY PhasesStep DEF Phases
  <1>2. CASE Phase(e)' = Phase(e)
    <2>1. Phases' = Phases
      BY <1>1, <1>2 DEF Phases
    <2> QED BY <2>1 DEF Promise!vars
  <1>3. CASE Phase(e) = "absent" /\ Phase(e)' = "open"
    <2>1. Promise!Accept(e)
      BY <1>1, <1>3 DEF Promise!Accept
    <2> QED BY <2>1 DEF Promise!Next
  <1>4. CASE Phase(e) = "open" /\ Phase(e)' = "closed"
    <2>1. Promise!Close(e)
      BY <1>1, <1>4 DEF Promise!Close
    <2> QED BY <2>1 DEF Promise!Next
  <1> QED BY <1>2, <1>3, <1>4 DEF Moves

\* An email with a row moves as long as a closed one stays closed.
LEMMA ClosedStays ==
  ASSUME NEW e \in Emails, status'[e] = "none" <=> status[e] = "none",
         status[e] # "none" /\ Settled(e) => Settled(e)'
  PROVE  Moves(e)
  BY DEF Moves, Phase

\* The handler of POST /emails: the INSERT accepts the email.
LEMMA RequestPromise ==
  ASSUME TypeOK, Requests, NEW e \in Emails, SendRequest(e)
  PROVE  [Promise!Next]_(Promise!vars)
  <1>1. CASE ReceiveSend(e) \/ checkQuota(e) \/ LookupKey(e) \/ StoreAttachments(e)
             \/ SaveKey(e)
    <2>1. UNCHANGED <<status, resched, pc, taskState, handed, reported>>
      BY <1>1 DEF ReceiveSend, checkQuota, LookupKey, StoreAttachments, SaveKey
    <2>2. OnlyEmail(e) /\ Phase(e)' = Phase(e)
      BY <2>1 DEF OnlyEmail, Phase, Settled, InFlight, Over
    <2> QED BY <2>1, <2>2, PromiseStep DEF Moves
  <1>2. CASE InsertEmail(e)
    <2>1. status[e] = "none" /\ UNCHANGED <<resched, pc, taskState, handed, reported>>
      BY <1>2 DEF InsertEmail, Requests
    <2>2. status'[e] \in Unsent /\ \A f \in Emails : f # e => status'[f] = status[f]
      BY <1>2 DEF InsertEmail, Unsent, TypeOK
    <2>3. Phase(e) = "absent" /\ Phase(e)' = "open"
      BY <2>1, <2>2 DEF Phase, Settled, Unsent, SkippedByWorker
    <2>4. OnlyEmail(e)
      BY <2>1, <2>2 DEF OnlyEmail
    <2> QED BY <2>1, <2>3, <2>4, PromiseStep DEF Moves
  <1>3. CASE EnqueueSend(e)
    <2> DEFINE t == FirstTask(e)
    <2>1. /\ reqPc[e] = "enqueue" /\ UNCHANGED <<status, resched, pc, handed, reported>>
          /\ taskState' \in {taskState, [taskState EXCEPT ![t] = "pending"]}
      BY <1>3 DEF EnqueueSend
    <2>2. t \in Tasks /\ EmailOf(t) = e /\ taskState[t] = "none" /\ t = <<e, 0>>
      BY <2>1, TaskFacts DEF Requests, FirstTask, EmailOf
    <2>3. \A u \in Tasks : u # t => taskState'[u] = taskState[u]
      BY <2>1 DEF TypeOK
    <2> HIDE DEF t
    <2>4. OnlyEmail(e)
      BY <2>1, <2>2, <2>3, OnlyTask
    <2>5. 0 \in 0 .. resched[e] /\ ~Over(t)
      BY <2>2 DEF Over, TypeOK
    <2>6. Settled(e) => Settled(e)'
      BY <2>1, <2>2, <2>5 DEF Settled, InFlight
    <2> QED BY <2>1, <2>4, <2>6, ClosedStays, PromiseStep
  <1> QED BY <1>1, <1>2, <1>3 DEF SendRequest

\* Cancel and UpdateSchedule: the row still waits, so the email is open.
LEMMA ChangePromise ==
  ASSUME TypeOK, Requests, NEW e \in Emails,
         Cancel(e) \/ \E at \in Times : UpdateSchedule(e, at)
  PROVE  [Promise!Next]_(Promise!vars)
  <1>1. CASE Cancel(e)
    <2>1. /\ status[e] \in Unsent /\ status' = [status EXCEPT ![e] = "canceled"]
          /\ UNCHANGED <<resched, pc, taskState, handed, reported>>
      BY <1>1 DEF Cancel, Unsent
    <2>2. OnlyEmail(e) /\ status'[e] = "canceled"
      BY <2>1 DEF OnlyEmail, TypeOK
    <2>3. ~Settled(e) /\ status[e] # "none"
      BY <2>1 DEF Settled, Unsent, SkippedByWorker
    <2> QED BY <2>1, <2>2, <2>3, ClosedStays, PromiseStep
  <1>2. ASSUME NEW at \in Times, UpdateSchedule(e, at)
        PROVE  [Promise!Next]_(Promise!vars)
    <2> DEFINE t == <<e, resched[e] + 1>>
    <2>1. /\ status[e] \in Unsent /\ status' = [status EXCEPT ![e] = "scheduled"]
          /\ resched[e] < MaxReschedules /\ resched' = [resched EXCEPT ![e] = @ + 1]
          /\ taskState' = [taskState EXCEPT ![t] = "handing"]
          /\ UNCHANGED <<pc, handed, reported>>
      BY <1>2 DEF UpdateSchedule, RescheduleIn
    <2>2. \A f \in Emails : f # e => /\ status'[f] = status[f] /\ resched'[f] = resched[f]
                                     /\ \A k \in 0 .. MaxReschedules :
                                           taskState'[<<f, k>>] = taskState[<<f, k>>]
      BY <2>1 DEF TypeOK, Tasks
    <2>3. OnlyEmail(e) /\ status'[e] = "scheduled"
      BY <2>1, <2>2 DEF OnlyEmail, TypeOK
    <2>4. ~Settled(e) /\ status[e] # "none"
      BY <2>1 DEF Settled, Unsent, SkippedByWorker
    <2> QED BY <2>1, <2>3, <2>4, ClosedStays, PromiseStep
  <1> QED BY <1>1, <1>2

\* A task that is not over is one of those that a closed email with an unsent
\* row would have behind it.
LEMMA SettledSkips ==
  ASSUME TypeOK, Requests, NEW t \in Tasks, taskState[t] # "none", ~Over(t),
         Settled(EmailOf(t))
  PROVE  status[EmailOf(t)] \in SkippedByWorker
  <1>1. PICK e \in Emails, k \in 0 .. MaxReschedules : t = <<e, k>>
    BY DEF Tasks
  <1>2. EmailOf(t) = e /\ t[2] = k
    BY <1>1 DEF EmailOf
  <1>3. ~(k > resched[e]) /\ resched[e] \in Nat
    BY <1>2 DEF Requests, TypeOK
  <1>4. k \in 0 .. resched[e]
    BY <1>3
  <1> QED BY <1>1, <1>2, <1>4 DEF Settled

\* What the queue does to a task: an attempt it starts or takes back is not one
\* that may write.
LEMMA QueuePromise ==
  ASSUME TypeOK, Requests, NEW t \in Tasks, Accounted(t),
         EnqueueReschedule(t) \/ StartAttempt(t) \/ LeaseExpires(t)
  PROVE  [Promise!Next]_(Promise!vars)
  <1> DEFINE e == EmailOf(t)
  <1>1. e \in Emails
    BY TaskFacts
  <1>2. /\ UNCHANGED <<status, resched, handed, reported>>
        /\ taskState[t] \in {"handing", "pending", "retry", "active"}
        /\ pc' \in {pc, [pc EXCEPT ![t] = "load"], [pc EXCEPT ![t] = "idle"]}
        /\ \E s \in TaskStates : taskState' = [taskState EXCEPT ![t] = s]
    BY RetryFacts DEF EnqueueReschedule, StartAttempt, LeaseExpires
  <1>3. \A u \in Tasks : u # t => pc'[u] = pc[u] /\ taskState'[u] = taskState[u]
    BY <1>2 DEF TypeOK
  <1>4. OnlyEmail(e)
    BY <1>2, <1>3, OnlyTask
  <1>5. ASSUME Settled(e)
        PROVE  Settled(e)'
    <2>1. status[e] \in SkippedByWorker
      BY <1>2, <1>5, SettledSkips DEF Over
    <2>2. ASSUME NEW k \in 0 .. MaxReschedules
          PROVE  ~InFlight(<<e, k>>)'
      <3>1. <<e, k>> \in Tasks /\ ~InFlight(<<e, k>>)
        BY <1>1, <1>5 DEF Tasks, Settled
      <3>2. pc'[<<e, k>>] \in {pc[<<e, k>>], "load", "idle"}
        BY <1>2, <3>1 DEF TypeOK
      <3> QED BY <3>1, <3>2 DEF InFlight
    <2> QED BY <1>2, <2>1, <2>2 DEF Settled
  <1> HIDE DEF e
  <1> QED BY <1>1, <1>2, <1>4, <1>5, ClosedStays, PromiseStep

\* The provider accepts a message: a copy of an open email, within the retries.
LEMMA SendPromise ==
  ASSUME TypeOK, Requests, NEW t \in Tasks, Accounted(t), SendToProvider(t)
  PROVE  [Promise!Next]_(Promise!vars)
  <1>1. PICK e \in Emails, k \in 0 .. MaxReschedules : t = <<e, k>>
    BY DEF Tasks
  <1>2. /\ pc[t] = "send" /\ UNCHANGED <<status, resched, taskState, reported>>
        /\ handed' \in {handed, [handed EXCEPT ![t] = @ + 1]}
        /\ pc' \in {[pc EXCEPT ![t] = "record"], [pc EXCEPT ![t] = "fail"]}
    BY DEF SendToProvider
  <1>3. EmailOf(t) = e /\ t[1] = e
    BY <1>1 DEF EmailOf
  <1>4. taskState[t] = "active" /\ status[e] # "none"
    BY <1>2, <1>3 DEF Accounted, Requests
  <1>5. pc'[t] \in {"record", "fail"} /\ \A u \in Tasks : u # t => pc'[u] = pc[u]
    BY <1>2 DEF TypeOK
  <1>6. InFlight(t) /\ InFlight(t)'
    BY <1>2, <1>5 DEF InFlight
  <1>7. Phase(e) = "open" /\ Phase(e)' = "open"
    BY <1>1, <1>2, <1>4, <1>6 DEF Phase, Settled
  <1>8. OnlyEmail(e)
    BY <1>2, <1>3, <1>5, OnlyTask
  <1>9. CASE handed' = handed
    BY <1>2, <1>7, <1>8, <1>9, PromiseStep DEF Moves
  <1>10. CASE handed' = [handed EXCEPT ![t] = @ + 1]
    <2>1. handed[t] <= MaxRetry
      <3>1. handed[t] <= retried[t]
        BY <1>2, <1>4 DEF Accounted
      <3> QED BY <3>1 DEF TypeOK
    <2>2. Phases' = Phases /\ Phases[t[1]] = "open"
      BY <1>3, <1>7, <1>8, PhasesStep DEF Phases
    <2>3. Promise!Copy(t)
      BY <1>2, <1>10, <2>1, <2>2 DEF Promise!Copy
    <2> QED BY <2>3 DEF Promise!Next, Promise!Tasks, Tasks
  <1> QED BY <1>2, <1>9, <1>10

\* Any other step of an attempt: one that has loaded the row keeps its email
\* open, and one that has not leaves a closed email alone.
LEMMA AttemptPromise ==
  ASSUME TypeOK, Requests, NEW t \in Tasks, Accounted(t), AttemptStep(t),
         ~SendToProvider(t)
  PROVE  [Promise!Next]_(Promise!vars)
  <1> DEFINE e == EmailOf(t)
  <1>1. e \in Emails
    BY TaskFacts
  <1>2. /\ taskState[t] = "active" /\ UNCHANGED resched
        /\ status'[e] = "none" <=> status[e] = "none"
        /\ \A f \in Emails : f # e => status'[f] = status[f]
    BY <1>1, AttemptFrame DEF TypeOK
  <1>3. UNCHANGED <<handed, reported>>
    BY DEF AttemptStep, LoadEmail, LoadUnless, PrepareFails, ReserveWarmup, MarkFailed,
           RecordSent, RecordSentAs, IncrementUsage, LocalEventInsert, LocalEventFails,
           LocalEventStatus
  <1>4. \A u \in Tasks : u # t => pc'[u] = pc[u] /\ taskState'[u] = taskState[u]
    BY AttemptAlone
  <1>5. OnlyEmail(e)
    BY <1>2, <1>4, OnlyTask
  <1>6. ASSUME Settled(e)
        PROVE  Settled(e)'
    <2>1. PICK k \in 0 .. MaxReschedules : t = <<e, k>>
      BY DEF Tasks, EmailOf
    <2>2. pc[t] \in {"idle", "load"}
      BY <1>6, <2>1 DEF Settled, InFlight
    <2>3. status[e] \in SkippedByWorker
      BY <1>2, <1>6, SettledSkips DEF Over
    <2>4. LoadEmail(t) \/ PrepareFails(t)
      BY <2>2 DEF AttemptStep, ReserveWarmup, MarkFailed, RecordSent, RecordSentAs,
                  IncrementUsage, LocalEventInsert, LocalEventFails, LocalEventStatus,
                  WritePc, EventPcs
    <2>5. pc'[t] = "idle" /\ status' = status
      BY <2>3, <2>4, RetryFacts DEF LoadEmail, LoadUnless, Complete, PrepareFails, TypeOK
    <2>6. ASSUME NEW j \in 0 .. MaxReschedules
          PROVE  ~InFlight(<<e, j>>)'
      <3>1. <<e, j>> \in Tasks /\ ~InFlight(<<e, j>>)
        BY <1>1, <1>6 DEF Tasks, Settled
      <3> QED BY <1>4, <2>5, <3>1 DEF InFlight
    <2> QED BY <2>3, <2>5, <2>6 DEF Settled
  <1> HIDE DEF e
  <1> QED BY <1>1, <1>2, <1>3, <1>5, <1>6, ClosedStays, PromiseStep

\* A consumer: a row that names a message has a copy that left, so the status
\* of a failure is a report, and one that the worker skips reopens nothing.
LEMMA ConsumerPromise ==
  ASSUME TypeOK, NEW e \in Emails, Noticed(e), Traced(e), ConsumerStep(e)
  PROVE  [Promise!Next]_(Promise!vars)
  <1>1. UNCHANGED <<resched, pc, taskState, handed>>
    BY ConsumerFrame
  <1>2. CASE status' = status /\ reported' = reported
    <2>1. Phases' = Phases
      BY <1>1, <1>2 DEF Phases, Phase, Settled, InFlight, Over
    <2> QED BY <1>1, <1>2, <2>1 DEF Promise!vars
  <1>3. ASSUME messageId[e] # NoMessage, status[e] \notin Unsent \cup {"none"},
               NEW new \in RowStatuses \ (Unsent \cup {"none"}),
               status' = [status EXCEPT ![e] = new],
               reported' = IF new \in SkippedByWorker THEN reported ELSE reported \cup {e}
        PROVE  [Promise!Next]_(Promise!vars)
    <2>1. status'[e] = new /\ \A f \in Emails : f # e => status'[f] = status[f]
      BY <1>3 DEF TypeOK
    <2>2. OnlyEmail(e)
      BY <1>1, <2>1 DEF OnlyEmail
    <2>3. CASE new \in SkippedByWorker
      <3>1. Settled(e) => Settled(e)'
        BY <1>1, <2>1, <2>3 DEF Settled, InFlight
      <3>2. Moves(e)
        BY <1>3, <2>1, <3>1, ClosedStays
      <3> QED BY <1>1, <1>3, <2>2, <2>3, <3>2, PromiseStep
    <2>4. CASE new \notin SkippedByWorker
      <3>1. Phase(e)' \in {Phase(e), "open"} /\ Phase(e) # "absent"
        <4>1. Settled(e)' => Settled(e)
          BY <1>1, <1>3, <2>1, <2>4 DEF Settled, InFlight, Over
        <4> QED BY <1>3, <2>1, <4>1 DEF Phase
      <3>2. Phases' \in {Phases, [Phases EXCEPT ![e] = "open"]} /\ Phases[e] # "absent"
        BY <2>2, <3>1, PhasesStep DEF Phases
      <3>3. \E k \in 0 .. MaxReschedules : handed[<<e, k>>] > 0
        <4>1. PICK t \in Tasks : EmailOf(t) = e /\ \E n \in 1 .. handed[t] : TRUE
          BY <1>3 DEF Traced, Named
        <4>2. PICK k \in 0 .. MaxReschedules : t = <<e, k>>
          BY <4>1 DEF Tasks, EmailOf
        <4>3. handed[t] \in Nat
          BY DEF TypeOK
        <4>4. handed[t] > 0
          BY <4>1, <4>3
        <4> QED BY <4>2, <4>4
      <3>4. Promise!Report(e)
        BY <1>1, <1>3, <2>4, <3>2, <3>3 DEF Promise!Report
      <3> QED BY <3>4 DEF Promise!Next
    <2> QED BY <2>3, <2>4
  <1> QED BY <1>2, <1>3, ConsumerFrame

LEMMA NextPromise ==
  ASSUME IInv, [Next]_vars
  PROVE  [Promise!Next]_(Promise!vars)
  <1>0. TypeOK /\ Requests /\ \A t \in Tasks : Accounted(t)
    BY DEF IInv
  <1>1. ASSUME NEW e \in Emails, SendRequest(e)
        PROVE  [Promise!Next]_(Promise!vars)
    BY <1>0, <1>1, RequestPromise
  <1>2. ASSUME NEW e \in Emails, Cancel(e) \/ \E at \in Times : UpdateSchedule(e, at)
        PROVE  [Promise!Next]_(Promise!vars)
    BY <1>0, <1>2, ChangePromise
  <1>3. ASSUME NEW t \in Tasks, EnqueueReschedule(t) \/ StartAttempt(t) \/ LeaseExpires(t)
        PROVE  [Promise!Next]_(Promise!vars)
    BY <1>0, <1>3, QueuePromise
  <1>4. ASSUME NEW t \in Tasks, AttemptStep(t)
        PROVE  [Promise!Next]_(Promise!vars)
    BY <1>0, <1>4, SendPromise, AttemptPromise
  <1>5. CASE \/ \E a \in Listed : Suppress(a) \/ Unsuppress(a)
             \/ \E k \in Keys : ExpireKey(k)
             \/ Tick
             \/ UNCHANGED vars
    <2>1. UNCHANGED <<status, resched, pc, taskState, handed, reported>>
      BY <1>5 DEF Suppress, Unsuppress, ExpireKey, Tick, vars
    <2>2. Phases' = Phases
      BY <2>1 DEF Phases, Phase, Settled, InFlight, Over
    <2> QED BY <2>1, <2>2 DEF Promise!vars
  <1>6. ASSUME NEW e \in Emails, ConsumerStep(e)
        PROVE  [Promise!Next]_(Promise!vars)
    BY <1>0, <1>6, ConsumerPromise DEF IInv
  <1> QED BY <1>1, <1>2, <1>3, <1>4, <1>5, <1>6 DEF Next

LEMMA InitPromise == Init => Promise!Init
  BY DEF Init, Promise!Init, Promise!Tasks, Tasks, Phases, Phase

\* The send path implements OutboundPromise: copies leave only for an accepted
\* email, at most MaxRetry + 1 per task, and none once the email is canceled,
\* sent or out of tasks with no attempt under way, until the provider reports a
\* copy of it as gone wrong.
THEOREM SendPathKeepsPromise == Spec => KeepsPromise
  BY InitPromise, NextPromise, AlwaysIInv, PTL DEF Spec, KeepsPromise, Promise!Spec

=============================================================================

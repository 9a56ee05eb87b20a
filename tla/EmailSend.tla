----------------------------- MODULE EmailSend -----------------------------
(***************************************************************************)
(* One outbound email, from POST /emails to the hand-off to the provider.  *)
(*                                                                         *)
(* Four kinds of process share the Postgres row and the Redis queue, and   *)
(* no transaction spans two statements of any of them:                     *)
(*                                                                         *)
(*   - the API handlers: email.Service.Send, Cancel and UpdateSchedule;    *)
(*   - the Asynq queue: it runs an email:send task, retries it when the    *)
(*     handler returns an error or the worker dies, and archives it after  *)
(*     MaxRetry retries.  Nothing ever deletes a task, so a rescheduled    *)
(*     email has several;                                                  *)
(*   - the worker attempts: Handlers.HandleEmailSend;                      *)
(*   - the consumers of the provider's notifications:                      *)
(*     Processor.HandleSESJSON, where it writes the status of the row.     *)
(*                                                                         *)
(* Every SQL statement, provider call and enqueue is a step of its own.    *)
(* A process that dies is one that takes no more steps; for a worker the   *)
(* queue notices (LeaseExpires).  One team; rendering, tracking and the    *)
(* webhook and automation fan-out of RecordLocalEvent are left out.        *)
(*                                                                         *)
(* An operator whose comment starts with "Fault:" is no part of the        *)
(* specification.  It is the operator after it with a plausible bug, and   *)
(* shows that some property can fail.                                      *)
(***************************************************************************)
EXTENDS Naturals, EmailStatus

CONSTANTS
    Emails,          \* the POST /emails requests; a row has its request's name
    Addrs,           \* recipient addresses
    Listed,          \* bound: the addresses others put on the suppression list
    Keys,            \* Idempotency-Key header values
    NoKey,           \* "no Idempotency-Key header"
    NoEmail,         \* "no email id"
    NoMessage,       \* provider_message_id IS NULL
    Quota,           \* teams.monthly_quota
    MaxRetry,        \* asynq.MaxRetry of an email:send task (5 in the code)
    MaxReschedules,  \* bound: PATCH /emails/{id} calls per email
    MaxTime,         \* bound: the clock stops here
    Notices,         \* bound: the statuses the provider's notifications lead to
    Mailpit          \* SENDER_DRIVER == "mailpit"

ASSUME EmailSendAssumption ==
    /\ IsFiniteSet(Emails)
    /\ Listed \subseteq Addrs
    /\ NoKey \notin Keys
    /\ NoEmail \notin Emails
    /\ Quota \in Nat \ {0}
    /\ MaxRetry \in Nat
    /\ MaxReschedules \in Nat
    /\ MaxTime \in Nat
    /\ Notices \subseteq EventStatuses
    /\ Mailpit \in BOOLEAN

Times == 0 .. MaxTime

\* Task <<e, 0>> is the one Send enqueues for email e, task <<e, k>> the one
\* the k-th UpdateSchedule of e enqueues.
Tasks == Emails \X (0 .. MaxReschedules)

EmailOf(t) == t[1]

FirstTask(e) == <<e, 0>>

\* A provider message id: the n-th message accepted for task t.
Messages == Tasks \X Nat

ASSUME NoMessageAssumption == NoMessage \notin Messages

VARIABLES
    \* Postgres
    status,      \* emails.status, "none" before the INSERT
    schedAt,     \* emails.scheduled_at, 0 for NULL
    messageId,   \* emails.provider_message_id
    idem,        \* idempotency_keys: key -> email_id
    expired,     \* the keys whose expires_at is past
    usage,       \* usage_periods.emails_sent
    suppressed,  \* addresses of suppressions, or of unsubscribed contacts
    \* the API requests
    reqPc,       \* how far Send has got
    reqKey,      \* its Idempotency-Key
    reqAt,       \* its scheduled_at
    reqTo,       \* its recipient
    answer,      \* the email a 200 answer named
    resched,     \* number of UpdateSchedule calls that changed the row
    blind,       \* the requests whose SELECT of a live key failed
    \* the queue
    taskState, dueAt, retried,
    \* the worker attempts
    pc,          \* the attempt's next statement, "idle" when there is none
    seen,        \* the status RecordLocalEvent has read
    \* the consumers of the provider's notifications
    noticing,    \* the statuses they have yet to write, by the one they read
    \* what happened, for the properties only
    handed,      \* messages the provider accepted for a task
    slips,       \* of these, the ones whose attempt did not end in success
    lost,        \* a statement of an attempt failed and its error was dropped
    reported,    \* emails a notification gave a status the worker does not skip
    now

postgres == <<status, schedAt, messageId, idem, expired, usage, suppressed>>
request  == <<reqPc, reqKey, reqAt, reqTo, answer, resched, blind>>
queue    == <<taskState, dueAt, retried>>
attempt  == <<pc, seen>>
consumer == <<noticing, reported>>
history  == <<handed, slips, lost>>

vars == <<postgres, request, queue, attempt, consumer, history, now>>

RequestPcs ==
    {"none", "quota", "lookup", "insert", "attach", "key", "enqueue",
     "ok", "rejected", "error"}

TaskStates == {"none", "handing", "pending", "active", "retry", "completed", "archived"}

\* After the provider accepted and said so.
SuccessPcs == {"record", "usage", "sentEvent", "sentStatus",
               "deliveredEvent", "deliveredStatus"}

\* After a refused warmup reservation or a failed provider call.
FailurePcs == {"fail", "failedEvent", "failedStatus"}

AttemptPcs == {"idle", "load", "reserve", "send"} \cup SuccessPcs \cup FailurePcs

TypeOK ==
    /\ status     \in [Emails -> RowStatuses]
    /\ schedAt    \in [Emails -> Times]
    /\ messageId  \in [Emails -> Messages \cup {NoMessage}]
    /\ idem       \in [Keys -> Emails \cup {NoEmail}]
    /\ expired    \subseteq Keys
    /\ usage      \in Nat
    /\ suppressed \subseteq Addrs
    /\ reqPc      \in [Emails -> RequestPcs]
    /\ reqKey     \in [Emails -> Keys \cup {NoKey}]
    /\ reqAt      \in [Emails -> Times]
    /\ reqTo      \in [Emails -> SUBSET Addrs]
    /\ answer     \in [Emails -> Emails \cup {NoEmail}]
    /\ resched    \in [Emails -> 0 .. MaxReschedules]
    /\ blind      \subseteq Emails
    /\ taskState  \in [Tasks -> TaskStates]
    /\ dueAt      \in [Tasks -> Times]
    /\ retried    \in [Tasks -> 0 .. MaxRetry]
    /\ pc         \in [Tasks -> AttemptPcs]
    /\ seen       \in [Tasks -> RowStatuses]
    /\ noticing   \in [Emails -> SUBSET Notices]
    /\ reported   \subseteq Emails
    /\ handed     \in [Tasks -> Nat]
    /\ slips      \in [Tasks -> Nat]
    /\ lost       \in [Emails -> BOOLEAN]
    /\ now        \in Times

Init ==
    /\ status     = [e \in Emails |-> "none"]
    /\ schedAt    = [e \in Emails |-> 0]
    /\ messageId  = [e \in Emails |-> NoMessage]
    /\ idem       = [k \in Keys |-> NoEmail]
    /\ expired    = {}
    /\ usage      = 0
    /\ suppressed = {}
    /\ reqPc      = [e \in Emails |-> "none"]
    /\ reqKey     = [e \in Emails |-> NoKey]
    /\ reqAt      = [e \in Emails |-> 0]
    /\ reqTo      = [e \in Emails |-> {}]
    /\ answer     = [e \in Emails |-> NoEmail]
    /\ resched    = [e \in Emails |-> 0]
    /\ blind      = {}
    /\ taskState  = [t \in Tasks |-> "none"]
    /\ dueAt      = [t \in Tasks |-> 0]
    /\ retried    = [t \in Tasks |-> 0]
    /\ pc         = [t \in Tasks |-> "idle"]
    /\ seen       = [t \in Tasks |-> "none"]
    /\ noticing   = [e \in Emails |-> {}]
    /\ reported   = {}
    /\ handed     = [t \in Tasks |-> 0]
    /\ slips      = [t \in Tasks |-> 0]
    /\ lost       = [e \in Emails |-> FALSE]
    /\ now        = 0

-----------------------------------------------------------------------------
(***************************************************************************)
(* email.Service.Send, one action per statement that other processes can   *)
(* come between.                                                           *)
(***************************************************************************)

\* The request arrives: validation, the paused-team and verified-domain
\* checks, then the suppression and contact lookups (Consent has these as two
\* statements, whose errors are dropped).
ReceiveSend(e) ==
    /\ reqPc[e] = "none"
    /\ \E k \in Keys \cup {NoKey}, at \in Times, to \in SUBSET Addrs :
          /\ reqKey' = [reqKey EXCEPT ![e] = k]
          /\ reqAt'  = [reqAt EXCEPT ![e] = at]
          /\ reqTo'  = [reqTo EXCEPT ![e] = to]
          /\ \/ reqPc' = [reqPc EXCEPT ![e] = "rejected"]
             \/ /\ to # {}
                /\ to \cap suppressed = {}
                /\ reqPc' = [reqPc EXCEPT ![e] = "quota"]
    /\ UNCHANGED <<postgres, answer, resched, blind, queue, attempt, consumer, history, now>>

\* Usage counts finished sends only, so queued emails do not use the quota up.
\* (The first check of a month creates the row and passes, as 0 < Quota does.)
checkQuota(e) ==
    /\ reqPc[e] = "quota"
    /\ reqPc' = [reqPc EXCEPT ![e] = IF usage < Quota THEN "lookup" ELSE "rejected"]
    /\ UNCHANGED <<postgres, reqKey, reqAt, reqTo, answer, resched, blind,
                   queue, attempt, consumer, history, now>>

KeyIsLive(k) == /\ k \in Keys \ expired
                /\ idem[k] # NoEmail

\* Fault: the lookup matches only a key whose email still waits.
HitsKeyOfUnsent(k) == KeyIsLive(k) /\ status[idem[k]] \in Unsent

\* The idempotency SELECT finds a row.
HitsKey(k) == KeyIsLive(k)

\* A live key is answered with the email it names, whatever became of it, or
\* with an error when that email cannot be read.  A SELECT of the key that fails
\* passes for one that finds nothing, and Send goes on to a row of its own.
LookupKey(e) ==
    /\ reqPc[e] = "lookup"
    /\ LET k == reqKey[e] IN
          IF HitsKey(k)
          THEN \/ /\ answer' = [answer EXCEPT ![e] = idem[k]]
                  /\ reqPc'  = [reqPc EXCEPT ![e] = "ok"]
                  /\ UNCHANGED blind
               \/ /\ reqPc'  = [reqPc EXCEPT ![e] = "error"]
                  /\ UNCHANGED <<answer, blind>>
               \/ /\ reqPc'  = [reqPc EXCEPT ![e] = "insert"]
                  /\ blind'  = blind \cup {e}
                  /\ UNCHANGED answer
          ELSE /\ reqPc'  = [reqPc EXCEPT ![e] = "insert"]
               /\ UNCHANGED <<answer, blind>>
    /\ UNCHANGED <<postgres, reqKey, reqAt, reqTo, resched,
                   queue, attempt, consumer, history, now>>

\* scheduled_at counts only when it is still in the future, both for the row
\* and for the task that is enqueued later.
InsertEmail(e) ==
    /\ reqPc[e] = "insert"
    /\ LET at == IF reqAt[e] > now THEN reqAt[e] ELSE 0 IN
          /\ status'  = [status EXCEPT ![e] = IF at > 0 THEN "scheduled" ELSE "queued"]
          /\ schedAt' = [schedAt EXCEPT ![e] = at]
          /\ reqAt'   = [reqAt EXCEPT ![e] = at]
    /\ reqPc' = [reqPc EXCEPT ![e] = "attach"]
    /\ UNCHANGED <<messageId, idem, expired, usage, suppressed, reqKey, reqTo,
                   answer, resched, blind, queue, attempt, consumer, history, now>>

\* A bad encoding or a failed Put returns an error and leaves the row behind.
StoreAttachments(e) ==
    /\ reqPc[e] = "attach"
    /\ \E outcome \in {"key", "error"} : reqPc' = [reqPc EXCEPT ![e] = outcome]
    /\ UNCHANGED <<postgres, reqKey, reqAt, reqTo, answer, resched, blind,
                   queue, attempt, consumer, history, now>>

\* ON CONFLICT DO NOTHING: a row that exists, expired or not, stays as it is.
\* The error of a failed INSERT is dropped.
SaveKey(e) ==
    /\ reqPc[e] = "key"
    /\ \/ UNCHANGED idem
       \/ /\ reqKey[e] \in Keys
          /\ idem[reqKey[e]] = NoEmail
          /\ idem' = [idem EXCEPT ![reqKey[e]] = e]
    /\ reqPc' = [reqPc EXCEPT ![e] = "enqueue"]
    /\ UNCHANGED <<status, schedAt, messageId, expired, usage, suppressed, reqKey, reqAt,
                   reqTo, answer, resched, blind, queue, attempt, consumer, history, now>>

\* Fault: always NewEmailSendTask.
ProcessAtOnce(e) == 0

\* The time of the task, whatever the row says by now: NewEmailSendTask has
\* none, NewScheduledEmailSendTask has the scheduled_at of the request.
ProcessAt(e) == reqAt[e]

\* An error answer does not say whether Redis stored the task.
EnqueueSend(e) ==
    /\ reqPc[e] = "enqueue"
    /\ \E stored, answered \in BOOLEAN :
          /\ answered => stored
          /\ IF stored
             THEN /\ taskState' = [taskState EXCEPT ![FirstTask(e)] = "pending"]
                  /\ dueAt' = [dueAt EXCEPT ![FirstTask(e)] = ProcessAt(e)]
             ELSE UNCHANGED <<taskState, dueAt>>
          /\ IF answered
             THEN /\ answer' = [answer EXCEPT ![e] = e]
                  /\ reqPc'  = [reqPc EXCEPT ![e] = "ok"]
             ELSE /\ reqPc'  = [reqPc EXCEPT ![e] = "error"]
                  /\ UNCHANGED answer
    /\ UNCHANGED <<postgres, reqKey, reqAt, reqTo, resched, blind, retried,
                   attempt, consumer, history, now>>

SendRequest(e) ==
    \/ ReceiveSend(e)
    \/ checkQuota(e)
    \/ LookupKey(e)
    \/ InsertEmail(e)
    \/ StoreAttachments(e)
    \/ SaveKey(e)
    \/ EnqueueSend(e)

-----------------------------------------------------------------------------
(***************************************************************************)
(* email.Service.Cancel and UpdateSchedule.  A refused call changes        *)
(* nothing and is not a step.                                              *)
(***************************************************************************)

Cancel(e) ==
    /\ status[e] = "scheduled"
    /\ status' = [status EXCEPT ![e] = "canceled"]
    /\ UNCHANGED <<schedAt, messageId, idem, expired, usage, suppressed,
                   request, queue, attempt, consumer, history, now>>

\* The UPDATE.  The task it goes on to enqueue is in the handler's hands until
\* EnqueueReschedule: a failed enqueue leaves it there.
RescheduleIn(from, e, at) ==
    /\ status[e] \in from
    /\ resched[e] < MaxReschedules
    /\ status'    = [status EXCEPT ![e] = "scheduled"]
    /\ schedAt'   = [schedAt EXCEPT ![e] = at]
    /\ resched'   = [resched EXCEPT ![e] = @ + 1]
    /\ taskState' = [taskState EXCEPT ![<<e, resched[e] + 1>>] = "handing"]
    /\ dueAt'     = [dueAt EXCEPT ![<<e, resched[e] + 1>>] = at]
    /\ UNCHANGED <<messageId, idem, expired, usage, suppressed, reqPc, reqKey,
                   reqAt, reqTo, answer, blind, retried, attempt, consumer, history, now>>

\* Fault: the UPDATE has no condition on the status.
UpdateScheduleOfAny(e, at) == RescheduleIn(EmailStatuses, e, at)

UpdateSchedule(e, at) == RescheduleIn(Unsent, e, at)

EnqueueReschedule(t) ==
    /\ taskState[t] = "handing"
    /\ taskState' = [taskState EXCEPT ![t] = "pending"]
    /\ UNCHANGED <<postgres, request, dueAt, retried, attempt, consumer, history, now>>

-----------------------------------------------------------------------------
(***************************************************************************)
(* Asynq.                                                                  *)
(***************************************************************************)

\* A worker goroutine takes a due task.  The delay before a retry is not timed.
StartAttempt(t) ==
    /\ \/ taskState[t] = "pending" /\ dueAt[t] <= now
       \/ taskState[t] = "retry"
    /\ taskState' = [taskState EXCEPT ![t] = "active"]
    /\ pc' = [pc EXCEPT ![t] = "load"]
    /\ UNCHANGED <<postgres, request, dueAt, retried, seen, consumer, history, now>>

\* The handler returned nil.
Complete(t) ==
    /\ taskState' = [taskState EXCEPT ![t] = "completed"]
    /\ pc'   = [pc EXCEPT ![t] = "idle"]
    /\ seen' = [seen EXCEPT ![t] = "none"]
    /\ UNCHANGED <<dueAt, retried>>

RetryWhile(again, t) ==
    /\ IF again
       THEN /\ taskState' = [taskState EXCEPT ![t] = "retry"]
            /\ retried' = [retried EXCEPT ![t] = @ + 1]
       ELSE /\ taskState' = [taskState EXCEPT ![t] = "archived"]
            /\ UNCHANGED retried
    /\ pc'   = [pc EXCEPT ![t] = "idle"]
    /\ seen' = [seen EXCEPT ![t] = "none"]
    /\ UNCHANGED dueAt

\* Fault: one retry too many.
RetryOnceMore(t) == RetryWhile(retried[t] <= MaxRetry, t)

\* Fault: the retries are not counted.
RetryForever(t) ==
    /\ taskState' = [taskState EXCEPT ![t] = "retry"]
    /\ pc'   = [pc EXCEPT ![t] = "idle"]
    /\ seen' = [seen EXCEPT ![t] = "none"]
    /\ UNCHANGED <<dueAt, retried>>

\* The handler returned an error, or its lease expired.
RetryOrArchive(t) == RetryWhile(retried[t] < MaxRetry, t)

\* The worker process dies; Asynq's recoverer finds the expired lease.
LeaseExpires(t) ==
    /\ taskState[t] = "active"
    /\ RetryOrArchive(t)
    /\ slips' = IF pc[t] \in SuccessPcs THEN [slips EXCEPT ![t] = @ + 1] ELSE slips
    /\ UNCHANGED <<postgres, request, consumer, handed, lost, now>>

-----------------------------------------------------------------------------
(***************************************************************************)
(* Handlers.HandleEmailSend.                                               *)
(***************************************************************************)

LoadUnless(skipped, t) ==
    /\ pc[t] = "load"
    /\ IF status[EmailOf(t)] \in skipped
       THEN Complete(t)
       ELSE /\ pc' = [pc EXCEPT ![t] = "reserve"]
            /\ UNCHANGED <<queue, seen>>
    /\ UNCHANGED <<postgres, request, consumer, history, now>>

\* Fault: a canceled email is not skipped.
LoadCanceledToo(t) == LoadUnless({"sent", "delivered"}, t)

\* Fault: a scheduled email is skipped as well.
LoadUnscheduledOnly(t) == LoadUnless(SkippedByWorker \cup {"scheduled"}, t)

\* Read the row; an email that is canceled or already sent is skipped, one that
\* failed, bounced or was complained of is not.
LoadEmail(t) == LoadUnless(SkippedByWorker, t)

\* The row or an attachment cannot be read: an error, and no trace in the row.
PrepareFails(t) ==
    /\ pc[t] = "load"
    /\ RetryOrArchive(t)
    /\ UNCHANGED <<postgres, request, consumer, history, now>>

\* Fault: the usage is counted with the reservation.
ReserveWarmupAndCount(t) ==
    /\ pc[t] = "reserve"
    /\ \E outcome \in {"send", "fail"} : pc' = [pc EXCEPT ![t] = outcome]
    /\ usage' = usage + 1
    /\ UNCHANGED <<status, schedAt, messageId, idem, expired, suppressed,
                   request, queue, seen, consumer, history, now>>

\* ippool.ReserveSend, for a domain with a dedicated pool: the daily warmup
\* cap or a paused pool refuses.
ReserveWarmup(t) ==
    /\ pc[t] = "reserve"
    /\ \E outcome \in {"send", "fail"} : pc' = [pc EXCEPT ![t] = outcome]
    /\ UNCHANGED <<postgres, request, queue, seen, consumer, history, now>>

\* Sender.Send.  A time-out may hide an accepted message.
SendToProvider(t) ==
    /\ pc[t] = "send"
    /\ \E accepted, answered \in BOOLEAN :
          /\ answered => accepted
          /\ handed' = IF accepted THEN [handed EXCEPT ![t] = @ + 1] ELSE handed
          /\ slips'  = IF accepted /\ ~answered THEN [slips EXCEPT ![t] = @ + 1] ELSE slips
          /\ pc' = [pc EXCEPT ![t] = IF answered THEN "record" ELSE "fail"]
    /\ UNCHANGED <<postgres, request, queue, seen, consumer, lost, now>>

\* A statement on the row whose error is dropped: bounded to one per email.
LoseError(e) ==
    /\ ~lost[e]
    /\ lost' = [lost EXCEPT ![e] = TRUE]

\* UPDATE emails SET status = 'failed', whatever the status is by now.
MarkFailed(t) ==
    /\ pc[t] = "fail"
    /\ \/ /\ status' = [status EXCEPT ![EmailOf(t)] = "failed"]
          /\ UNCHANGED lost
       \/ /\ LoseError(EmailOf(t))
          /\ UNCHANGED status
    /\ pc' = [pc EXCEPT ![t] = "failedEvent"]
    /\ UNCHANGED <<schedAt, messageId, idem, expired, usage, suppressed,
                   request, queue, seen, consumer, handed, slips, now>>

\* UPDATE emails SET status = 'sent', whatever the status is by now.
RecordSentAs(id, t) ==
    /\ pc[t] = "record"
    /\ \/ /\ status' = [status EXCEPT ![EmailOf(t)] = "sent"]
          /\ messageId' = [messageId EXCEPT ![EmailOf(t)] = id]
          /\ UNCHANGED lost
       \/ /\ LoseError(EmailOf(t))
          /\ UNCHANGED <<status, messageId>>
    /\ pc' = [pc EXCEPT ![t] = "usage"]
    /\ UNCHANGED <<schedAt, idem, expired, usage, suppressed,
                   request, queue, seen, consumer, handed, slips, now>>

\* Fault: the provider's message id is not stored.
RecordSentWithoutId(t) == RecordSentAs(messageId[EmailOf(t)], t)

RecordSent(t) == RecordSentAs(<<t, handed[t]>>, t)

\* billing.IncrementUsage; its error is dropped too.
IncrementUsage(t) ==
    /\ pc[t] = "usage"
    /\ \/ usage' = usage + 1 /\ UNCHANGED lost
       \/ LoseError(EmailOf(t)) /\ UNCHANGED usage
    /\ pc' = [pc EXCEPT ![t] = "sentEvent"]
    /\ UNCHANGED <<status, schedAt, messageId, idem, expired, suppressed,
                   request, queue, seen, consumer, handed, slips, now>>

-----------------------------------------------------------------------------
(***************************************************************************)
(* Processor.RecordLocalEvent, called for email.sent, email.failed and,    *)
(* with the Mailpit driver, email.delivered.                               *)
(***************************************************************************)

EventPcs == [sentEvent |-> "sent", failedEvent |-> "failed", deliveredEvent |-> "delivered"]

WritePc == [sentEvent |-> "sentStatus", failedEvent |-> "failedStatus",
            deliveredEvent |-> "deliveredStatus"]

\* INSERT the event, then SELECT the status.  A SELECT that fails leaves "",
\* which forbids no transition, as "none" does.
LocalEventInsert(t) ==
    /\ pc[t] \in DOMAIN WritePc
    /\ pc' = [pc EXCEPT ![t] = WritePc[pc[t]]]
    /\ \/ /\ seen' = [seen EXCEPT ![t] = status[EmailOf(t)]]
          /\ UNCHANGED lost
       \/ /\ seen' = [seen EXCEPT ![t] = "none"]
          /\ LoseError(EmailOf(t))
    /\ UNCHANGED <<postgres, request, queue, consumer, handed, slips, now>>

\* Fault: HandleEmailSend returns the error of RecordLocalEvent.
RetryAfterLocalEvent(t, event) == RetryOrArchive(t)

\* What HandleEmailSend does once RecordLocalEvent is back, with or without an
\* error, from the call with the given pc.
AfterLocalEvent(t, event) ==
    CASE event = "failed" -> RetryOrArchive(t)
      [] event = "sent" /\ Mailpit ->
            /\ pc'   = [pc EXCEPT ![t] = "deliveredEvent"]
            /\ seen' = [seen EXCEPT ![t] = "none"]
            /\ UNCHANGED queue
      [] OTHER -> Complete(t)

\* The INSERT fails and RecordLocalEvent returns before the status.
LocalEventFails(t) ==
    /\ pc[t] \in DOMAIN EventPcs
    /\ AfterLocalEvent(t, EventPcs[pc[t]])
    /\ UNCHANGED <<postgres, request, consumer, history, now>>

\* The UPDATE, allowed by the status that was read.
LocalEventStatus(t) ==
    /\ \E call \in DOMAIN WritePc :
          /\ pc[t] = WritePc[call]
          /\ LET new == statusFromEvent(EventPcs[call]) IN
                status' = IF canTransitionStatus(seen[t], new)
                          THEN [status EXCEPT ![EmailOf(t)] = new]
                          ELSE status
          /\ AfterLocalEvent(t, EventPcs[call])
    /\ UNCHANGED <<schedAt, messageId, idem, expired, usage, suppressed,
                   request, consumer, history, now>>

AttemptStep(t) ==
    \/ LoadEmail(t)
    \/ PrepareFails(t)
    \/ ReserveWarmup(t)
    \/ SendToProvider(t)
    \/ MarkFailed(t)
    \/ RecordSent(t)
    \/ IncrementUsage(t)
    \/ LocalEventInsert(t)
    \/ LocalEventFails(t)
    \/ LocalEventStatus(t)

-----------------------------------------------------------------------------
(***************************************************************************)
(* Processor.HandleSESJSON, as far as it writes the status: what else it   *)
(* does, and which notification says what, is DeliveryEvents' subject.     *)
(* Every worker process runs a consumer and the provider's queue delivers  *)
(* at least once, so any number of notifications of a kind can be under    *)
(* way; noticing keeps the statuses they may still write.                  *)
(***************************************************************************)

\* SELECT the row by its provider_message_id; the status it has allows the one
\* the notification leads to.
FindByMessage(e) ==
    /\ messageId[e] # NoMessage
    /\ \E new \in Notices \ noticing[e] :
          /\ canTransitionStatus(status[e], new)
          /\ noticing' = [noticing EXCEPT ![e] = @ \cup {new}]
    /\ UNCHANGED <<postgres, request, queue, attempt, reported, history, now>>

\* UPDATE emails SET status, whatever the status is by now.
NoticeStatus(e) ==
    /\ \E new \in noticing[e] :
          /\ status' = [status EXCEPT ![e] = new]
          /\ reported' = IF new \in SkippedByWorker THEN reported ELSE reported \cup {e}
    /\ UNCHANGED <<schedAt, messageId, idem, expired, usage, suppressed,
                   request, queue, attempt, noticing, history, now>>

ConsumerStep(e) == FindByMessage(e) \/ NoticeStatus(e)

-----------------------------------------------------------------------------
(***************************************************************************)
(* The rest of the world: other writers of the suppression list, the       *)
(* expiry of a key after 24 hours, and time.                               *)
(***************************************************************************)

Suppress(a) ==
    /\ a \notin suppressed
    /\ suppressed' = suppressed \cup {a}
    /\ UNCHANGED <<status, schedAt, messageId, idem, expired, usage,
                   request, queue, attempt, consumer, history, now>>

Unsuppress(a) ==
    /\ a \in suppressed
    /\ suppressed' = suppressed \ {a}
    /\ UNCHANGED <<status, schedAt, messageId, idem, expired, usage,
                   request, queue, attempt, consumer, history, now>>

ExpireKey(k) ==
    /\ KeyIsLive(k)
    /\ expired' = expired \cup {k}
    /\ UNCHANGED <<status, schedAt, messageId, idem, usage, suppressed,
                   request, queue, attempt, consumer, history, now>>

Tick ==
    /\ now < MaxTime
    /\ now' = now + 1
    /\ UNCHANGED <<postgres, request, queue, attempt, consumer, history>>

Next ==
    \/ \E e \in Emails : \/ SendRequest(e)
                         \/ Cancel(e)
                         \/ \E at \in Times : UpdateSchedule(e, at)
                         \/ ConsumerStep(e)
    \/ \E t \in Tasks : \/ EnqueueReschedule(t)
                        \/ StartAttempt(t)
                        \/ LeaseExpires(t)
                        \/ AttemptStep(t)
    \/ \E a \in Listed : Suppress(a) \/ Unsuppress(a)
    \/ \E k \in Keys : ExpireKey(k)
    \/ Tick

Spec == Init /\ [][Next]_vars

\* Asynq keeps taking due tasks and a started attempt runs on, both for every
\* task on its own (20 goroutines, weighted queues); the clock advances.  The
\* API handlers get no fairness: a client or an API process may go away.
FairSpec ==
    /\ Spec
    /\ WF_vars(Tick)
    /\ \A t \in Tasks : WF_vars(StartAttempt(t)) /\ WF_vars(AttemptStep(t))

-----------------------------------------------------------------------------
(***************************************************************************)
(* Properties.                                                             *)
(***************************************************************************)

\* An attempt that has read the row and may still write to it or send.
InFlight(t) == pc[t] \notin {"idle", "load"}

Over(t) == taskState[t] \in {"completed", "archived"}

\* No attempt is under way, and none that starts later can send as things are:
\* the row says so to every worker, or there is no task left.
Settled(e) ==
    /\ \A k \in 0 .. MaxReschedules : ~InFlight(<<e, k>>)
    /\ \/ status[e] \in SkippedByWorker
       \/ /\ status[e] \notin Unsent \cup {"none"}
          /\ \A k \in 0 .. resched[e] : Over(<<e, k>>)

Phase(e) == IF status[e] = "none" THEN "absent"
            ELSE IF Settled(e) THEN "closed" ELSE "open"

Phases == [e \in Emails |-> Phase(e)]

Promise == INSTANCE OutboundPromise WITH phase <- Phases, copies <- handed

\* The send path keeps the promise of OutboundPromise.  In particular a
\* canceled email that no attempt has already loaded is never sent, whatever
\* tasks for it are still queued, and a sent one is not sent again by the
\* extra task of an UpdateSchedule that comes to run later, unless the
\* provider has meanwhile reported the copy that left as bounced, complained
\* of or rejected: the worker does not skip such a row.
KeepsPromise == Promise!Spec

\* Every copy of an email beyond the first one of its task is paid for by a
\* slip: an attempt whose message was accepted but which died or timed out
\* before it returned nil.  And an attempt sends at most one copy.
CopiesExplained ==
    \A t \in Tasks : /\ handed[t] <= slips[t] + 1
                     /\ handed[t] <= retried[t] + 1

\* A row that says sent or delivered names, unless a write was lost, a message
\* the provider did accept for this very email: HandleSESJSON finds the row
\* only through this id, so without it a bounce would go nowhere.
SentIsTraceable ==
    \A e \in Emails :
        status[e] \in {"sent", "delivered"} /\ ~lost[e]
        => \E k \in 0 .. MaxReschedules : \E n \in 1 .. handed[<<e, k>>] :
              messageId[e] = <<<<e, k>>, n>>

\* When a task has completed, the row does not wait for anything any more (or
\* a write was lost): a late UpdateSchedule cannot put it back to scheduled.
CompletedIsResolved ==
    \A t \in Tasks :
        taskState[t] = "completed" /\ ~lost[EmailOf(t)]
        => status[EmailOf(t)] \notin Unsent \cup {"none"}

\* An email that was never rescheduled is not handed to the provider before
\* its scheduled_at.
SentOnTime ==
    \A e \in Emails :
        handed[FirstTask(e)] > 0 /\ resched[e] = 0 => schedAt[e] <= now

\* The messages the provider accepted.
Accepted == UNION {{t} \X (1 .. handed[t]) : t \in Tasks}

\* The usage that quota and billing read never exceeds what the provider
\* accepted, over all retries, crashes and tasks.
UsageIsBacked == usage <= Cardinality(Accepted)

\* The rows of the requests with the key, but for a request whose own SELECT of
\* it failed.
RowsOf(k) == {e \in Emails \ blind : status[e] # "none" /\ reqKey[e] = k}

KeyIsSettled(k) ==
    /\ KeyIsLive(k)
    /\ \A e \in Emails \ blind :
          reqKey[e] = k => reqPc[e] \notin {"insert", "attach", "key", "enqueue"}

\* Once a key is saved and no request that missed it is still under way, the
\* key adds no further row until it expires, but for a request whose own SELECT
\* of the key failed: Send takes that for a miss.
KeyedOnce ==
    [][\A k \in Keys :
          KeyIsSettled(k) /\ k \notin expired'
          => KeyIsSettled(k)' /\ RowsOf(k)' = RowsOf(k)]_vars

\* Every task in the queue comes to an end: it completes, or is archived after
\* its last retry.
EveryTaskEnds == \A t \in Tasks : taskState[t] = "pending" ~> Over(t)

\* An email that waits and has its task queued does not wait for ever: its
\* status moves on, unless every attempt died or a write was lost.
QueuedIsResolved ==
    \A e \in Emails :
        status[e] \in Unsent /\ taskState[FirstTask(e)] # "none"
        ~> \/ status[e] \notin Unsent
           \/ lost[e]
           \/ taskState[FirstTask(e)] = "archived"

-----------------------------------------------------------------------------
(***************************************************************************)
(* Statements of the documentation that the code does not keep.            *)
(***************************************************************************)

\* docs/architecture.md, send path: the worker loads "email, suppressions,
\* warmup cap" before it sends.  So no attempt should go on past LoadEmail for
\* a recipient who is on the list by then.
WorkerHonoursSuppressions ==
    [][\A t \in Tasks :
          pc[t] = "load" /\ pc'[t] = "reserve"
          => reqTo[EmailOf(t)] \cap suppressed = {}]_vars

\* packages/openapi/openapi.yaml describes the 200 answer of POST /emails as
\* "Queued".  So the email an answer names should have had its task enqueued,
\* or its own request is still about to enqueue it.
AnsweredIsQueued ==
    \A e \in Emails :
        /\ reqPc[e] = "ok"
        /\ reqPc[answer[e]] \notin {"key", "enqueue"}
        => taskState[FirstTask(answer[e])] # "none"

=============================================================================

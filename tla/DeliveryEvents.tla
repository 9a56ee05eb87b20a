--------------------------- MODULE DeliveryEvents ---------------------------
(***************************************************************************)
(* What comes back from SES about a message, from the moment SES accepted  *)
(* it: SES publishes notifications through SNS to an SQS queue, and the    *)
(* worker processes consume the queue (SQSConsumer.Run, HandleSESJSON).    *)
(*                                                                         *)
(* A notification races with the attempt that sent the message: until that *)
(* attempt has stored provider_message_id no notification finds the row,   *)
(* and after it the attempt still records its own email.sent event, with   *)
(* the same read-then-write of the status.  It also races with other       *)
(* notifications, since every worker process runs a consumer, and with     *)
(* the API, which edits the suppression list.                              *)
(*                                                                         *)
(* Every SQL statement and queue call is a step of its own.  The queue is  *)
(* at-least-once and unordered: a notification can be received again as    *)
(* long as it is not deleted, by another consumer too, as a standard SQS   *)
(* queue and an expired visibility timeout allow.  A notification whose    *)
(* signature or JSON is bad only stays in the queue and is left out, as    *)
(* are live events, webhooks and automations, whose errors the handler     *)
(* drops.                                                                  *)
(*                                                                         *)
(* An operator whose comment starts with "Fault:" is no part of the        *)
(* specification.  It is the operator after it with a plausible bug, and   *)
(* shows that some property can fail.                                      *)
(***************************************************************************)
EXTENDS Naturals, EmailStatus, Suppressions

CONSTANTS
    Emails,         \* emails SES has accepted a message for
    To,             \* emails.to_addrs, per email
    Destination,    \* every recipient of the message, as SES knows them
    Addrs,          \* recipient addresses
    Notifications,  \* bound: the notifications SES publishes
    Published,      \* what they may say
    ApiReasons,     \* bound: the reasons POST /suppressions is called with
    Consumers,      \* the worker processes that run an SQSConsumer
    MaxMishaps,     \* bound: crashes, failed statements and API edits, together
    NoNotification  \* a consumer waits in ReceiveMessage

\* What HandleSESJSON looks at in a notification.  affected is the list of
\* bounced or complained recipients; known says whether mail.destination is
\* filled in; permanent is bounceType "Permanent".
Contents ==
    [email : Emails, type : EventTypes, permanent : BOOLEAN,
     affected : SUBSET Addrs, known : BOOLEAN]

ASSUME DeliveryEventsAssumption ==
    /\ To \in [Emails -> SUBSET Addrs]
    /\ Destination \in [Emails -> SUBSET Addrs]
    /\ Published \subseteq Contents
    /\ ApiReasons \subseteq Reasons
    /\ NoNotification \notin Notifications \cup Contents
    /\ MaxMishaps \in Nat

VARIABLES
    \* Postgres
    status,   \* emails.status
    named,    \* provider_message_id is the accepted message's
    reason,   \* suppressions.reason, "none" when there is no row
    events,   \* the notifications email_events has a row for
    \* the attempt that sent the message
    attempt,  \* its next statement
    read,     \* the status it read, "none" once it is used
    \* SES and the queue
    content,  \* of a published notification
    queue,    \* "unborn", "queued" or "deleted"
    \* the consumers
    cpc,      \* the next statement
    holds,    \* the notification being handled
    seen,     \* the status read with the row, "none" once it is used
    todo,     \* the recipients Suppressions.Add is still to be called for
    \* what happened, for the properties only
    lost,     \* notifications for which a statement failed
    vain,     \* notifications whose row was looked up before it was named
    edited,   \* addresses the API took off the list, or put on it as hard
    mishaps

rows     == <<status, named, reason, events>>
sender   == <<attempt, read>>
sqs      == <<content, queue>>
consumer == <<cpc, holds, seen, todo>>
history  == <<lost, vain, edited, mishaps>>

vars == <<rows, sender, sqs, consumer, history>>

AttemptPcs == {"record", "sentEvent", "sentStatus", "done"}

ConsumerPcs == {"idle", "lookup", "event", "status", "suppress", "delete"}

TypeOK ==
    /\ status  \in [Emails -> EmailStatuses]
    /\ named   \in [Emails -> BOOLEAN]
    /\ reason  \in [Addrs -> Reasons \cup {"none"}]
    /\ events  \subseteq Notifications
    /\ attempt \in [Emails -> AttemptPcs]
    /\ read    \in [Emails -> RowStatuses]
    /\ content \in [Notifications -> Contents \cup {NoNotification}]
    /\ queue   \in [Notifications -> {"unborn", "queued", "deleted"}]
    /\ cpc     \in [Consumers -> ConsumerPcs]
    /\ holds   \in [Consumers -> Notifications \cup {NoNotification}]
    /\ seen    \in [Consumers -> RowStatuses]
    /\ todo    \in [Consumers -> SUBSET Addrs]
    /\ lost    \subseteq Notifications
    /\ vain    \subseteq Notifications
    /\ edited  \subseteq Addrs
    /\ mishaps \in 0 .. MaxMishaps

\* SES has just accepted the message.
Init ==
    /\ status  = [e \in Emails |-> "queued"]
    /\ named   = [e \in Emails |-> FALSE]
    /\ reason  = [a \in Addrs |-> "none"]
    /\ events  = {}
    /\ attempt = [e \in Emails |-> "record"]
    /\ read    = [e \in Emails |-> "none"]
    /\ content = [n \in Notifications |-> NoNotification]
    /\ queue   = [n \in Notifications |-> "unborn"]
    /\ cpc     = [c \in Consumers |-> "idle"]
    /\ holds   = [c \in Consumers |-> NoNotification]
    /\ seen    = [c \in Consumers |-> "none"]
    /\ todo    = [c \in Consumers |-> {}]
    /\ lost    = {}
    /\ vain    = {}
    /\ edited  = {}
    /\ mishaps = 0

-----------------------------------------------------------------------------
(***************************************************************************)
(* The end of the attempt that sent the message (HandleEmailSend, and its  *)
(* RecordLocalEvent of email.sent); its errors are EmailSend's subject.    *)
(***************************************************************************)

RecordSent(e) ==
    /\ attempt[e] = "record"
    /\ status'  = [status EXCEPT ![e] = "sent"]
    /\ named'   = [named EXCEPT ![e] = TRUE]
    /\ attempt' = [attempt EXCEPT ![e] = "sentEvent"]
    /\ UNCHANGED <<reason, events, read, sqs, consumer, history>>

\* INSERT the event, then SELECT the status.
LocalEventInsert(e) ==
    /\ attempt[e] = "sentEvent"
    /\ read'    = [read EXCEPT ![e] = status[e]]
    /\ attempt' = [attempt EXCEPT ![e] = "sentStatus"]
    /\ UNCHANGED <<rows, sqs, consumer, history>>

LocalEventStatus(e) ==
    /\ attempt[e] = "sentStatus"
    /\ status'  = IF canTransitionStatus(read[e], "sent")
                  THEN [status EXCEPT ![e] = "sent"] ELSE status
    /\ attempt' = [attempt EXCEPT ![e] = "done"]
    /\ read'    = [read EXCEPT ![e] = "none"]
    /\ UNCHANGED <<named, reason, events, sqs, consumer, history>>

-----------------------------------------------------------------------------
(***************************************************************************)
(* SES and the queue.                                                      *)
(***************************************************************************)

\* SES publishes a notification about the accepted message.
Publish(n) ==
    /\ queue[n] = "unborn"
    /\ \E m \in Published : content' = [content EXCEPT ![n] = m]
    /\ queue' = [queue EXCEPT ![n] = "queued"]
    /\ UNCHANGED <<rows, sender, consumer, history>>

Receive(c, n) ==
    /\ cpc[c] = "idle"
    /\ queue[n] = "queued"
    /\ holds' = [holds EXCEPT ![c] = n]
    /\ cpc'   = [cpc EXCEPT ![c] = "lookup"]
    /\ UNCHANGED <<rows, sender, sqs, seen, todo, history>>

-----------------------------------------------------------------------------
(***************************************************************************)
(* Processor.HandleSESJSON.                                                *)
(***************************************************************************)

Held(c) == content[holds[c]]

Goto(c, next) == cpc' = [cpc EXCEPT ![c] = next]

Mishap ==
    /\ mishaps < MaxMishaps
    /\ mishaps' = mishaps + 1

\* A statement whose error is dropped.
LoseWrite(c) ==
    /\ Mishap
    /\ lost' = lost \cup {holds[c]}

\* SELECT the row by provider_message_id.  No row and a failed query are the
\* same to the handler: it returns nil, so the notification is deleted.
Lookup(c) ==
    /\ cpc[c] = "lookup"
    /\ LET e == Held(c).email IN
          \/ /\ named[e]
             /\ seen' = [seen EXCEPT ![c] = status[e]]
             /\ Goto(c, "event")
             /\ UNCHANGED <<lost, mishaps, vain>>
          \/ /\ ~named[e]
             /\ vain' = vain \cup {holds[c]}
             /\ Goto(c, "delete")
             /\ UNCHANGED <<seen, lost, mishaps>>
          \/ /\ LoseWrite(c)
             /\ Goto(c, "delete")
             /\ UNCHANGED <<seen, vain>>
    /\ UNCHANGED <<rows, sender, sqs, holds, todo, edited>>

InsertEvent(c) ==
    /\ cpc[c] = "event"
    /\ \/ events' = events \cup {holds[c]} /\ UNCHANGED <<lost, mishaps>>
       \/ LoseWrite(c) /\ UNCHANGED events
    /\ Goto(c, "status")
    /\ UNCHANGED <<status, named, reason, sender, sqs, holds, seen, todo, vain, edited>>

Transient(m) == m.type = "bounced" /\ ~m.permanent

\* Fault: one bounced recipient bounces the message.
statusOfAnyRecipient(m) ==
    LET candidate == IF Transient(m) THEN "" ELSE statusFromEvent(m.type) IN
    IF candidate \in {"bounced", "complained"} /\ m.affected = {} THEN "" ELSE candidate

\* The status a notification asks for, "" for none: a bounce or a complaint
\* counts for the message only when it names every recipient.
newStatus(m) ==
    LET candidate    == IF Transient(m) THEN "" ELSE statusFromEvent(m.type)
        destinations == IF m.known THEN Destination[m.email] ELSE To[m.email]
    IN IF /\ candidate \in {"bounced", "complained"}
          /\ ~recipientsCoverAll(m.affected, destinations)
       THEN "" ELSE candidate

\* Fault: the To recipients, when SES lists none.
suppressedOrTo(m) ==
    IF m.type = "complained" \/ (m.type = "bounced" /\ m.permanent)
    THEN IF m.affected = {} THEN To[m.email] ELSE m.affected ELSE {}

\* The recipients that go on the suppression list: never a guess.
suppressedBy(m) ==
    IF m.type = "complained" \/ (m.type = "bounced" /\ m.permanent)
    THEN m.affected ELSE {}

\* UPDATE the status, if the status read by Lookup allows it.
MoveStatus(c) ==
    LET m == Held(c) IN
    /\ cpc[c] = "status"
    /\ \/ /\ status' = IF canTransitionStatus(seen[c], newStatus(m))
                       THEN [status EXCEPT ![m.email] = newStatus(m)] ELSE status
          /\ UNCHANGED <<lost, mishaps>>
       \/ LoseWrite(c) /\ UNCHANGED status
    /\ seen' = [seen EXCEPT ![c] = "none"]
    /\ todo' = [todo EXCEPT ![c] = suppressedBy(m)]
    /\ Goto(c, "suppress")
    /\ UNCHANGED <<named, reason, events, sender, sqs, holds, vain, edited>>

\* Suppressions.Add for one affected recipient after the other.
Suppress(c) ==
    /\ cpc[c] = "suppress"
    /\ IF todo[c] = {}
       THEN /\ Goto(c, "delete")
            /\ UNCHANGED <<reason, todo, lost, mishaps>>
       ELSE \E a \in todo[c] :
              /\ todo' = [todo EXCEPT ![c] = @ \ {a}]
              /\ LET new == IF Held(c).type = "complained" THEN "complaint" ELSE "bounce" IN
                    \/ /\ reason' = [reason EXCEPT ![a] = mergedReason(@, new)]
                       /\ UNCHANGED <<lost, mishaps>>
                    \/ LoseWrite(c) /\ UNCHANGED reason
              /\ UNCHANGED cpc
    /\ UNCHANGED <<status, named, events, sender, sqs, holds, seen, vain, edited>>

Release(c) ==
    /\ cpc'   = [cpc EXCEPT ![c] = "idle"]
    /\ holds' = [holds EXCEPT ![c] = NoNotification]
    /\ seen'  = [seen EXCEPT ![c] = "none"]
    /\ todo'  = [todo EXCEPT ![c] = {}]

\* DeleteMessage after a nil result.  If it fails, the notification stays.
Delete(c) ==
    /\ cpc[c] = "delete"
    /\ \/ queue' = [queue EXCEPT ![holds[c]] = "deleted"]
       \/ UNCHANGED queue
    /\ Release(c)
    /\ UNCHANGED <<rows, sender, content, history>>

\* The worker process dies and a new one takes its place.
Crash(c) ==
    /\ cpc[c] # "idle"
    /\ Mishap
    /\ Release(c)
    /\ UNCHANGED <<rows, sender, sqs, lost, vain, edited>>

-----------------------------------------------------------------------------
(***************************************************************************)
(* The suppression list, edited through the API.                           *)
(***************************************************************************)

\* POST /suppressions takes any reason.
Add(a, new) ==
    /\ Mishap
    /\ reason' = [reason EXCEPT ![a] = mergedReason(@, new)]
    /\ edited' = IF new \in HardReasons THEN edited \cup {a} ELSE edited
    /\ UNCHANGED <<status, named, events, sender, sqs, consumer, lost, vain>>

Remove(a) ==
    /\ reason[a] # "none"
    /\ Mishap
    /\ reason' = [reason EXCEPT ![a] = "none"]
    /\ edited' = edited \cup {a}
    /\ UNCHANGED <<status, named, events, sender, sqs, consumer, lost, vain>>

Handle(c) ==
    \/ Lookup(c)
    \/ InsertEvent(c)
    \/ MoveStatus(c)
    \/ Suppress(c)
    \/ Delete(c)

Next ==
    \/ \E e \in Emails : RecordSent(e) \/ LocalEventInsert(e) \/ LocalEventStatus(e)
    \/ \E n \in Notifications : Publish(n) \/ \E c \in Consumers : Receive(c, n)
    \/ \E c \in Consumers : Handle(c) \/ Crash(c)
    \/ \E a \in Addrs : Remove(a) \/ \E new \in ApiReasons : Add(a, new)

Spec == Init /\ [][Next]_vars

-----------------------------------------------------------------------------
(***************************************************************************)
(* Properties.                                                             *)
(***************************************************************************)

ContentsSoFar == {content[n] : n \in {m \in Notifications : queue[m] # "unborn"}}

\* SES holds these addresses undeliverable for good, or hostile.
Blamed(m) ==
    {a \in m.affected : m.type = "complained" \/ (m.type = "bounced" /\ m.permanent)}

\* A row says bounced or complained only when a single notification of that
\* kind, not a transient one, named every To recipient: no series of partial
\* bounces, duplicates and racing handlers turns into a bounced message.
BounceIsWhole ==
    \A e \in Emails :
        status[e] \in {"bounced", "complained"}
        => \E m \in ContentsSoFar :
              /\ m.email = e /\ m.type = status[e] /\ ~Transient(m)
              /\ (IF m.known THEN Destination[e] ELSE To[e]) \subseteq m.affected
              /\ m.affected # {}

\* SES puts nobody on the suppression list as a bounce or a complaint that no
\* permanent bounce and no complaint named.
SuppressionIsEarned ==
    \A a \in Addrs \ edited :
        reason[a] \in HardReasons => \E m \in ContentsSoFar : a \in Blamed(m)

\* A notification that never missed its row and is now out of the queue has put
\* its recipients on the list for good, whatever crashes, duplicates and API
\* edits of other rows came in between (or one of its statements failed).
DeletedIsApplied ==
    \A n \in Notifications :
        queue[n] = "deleted" /\ n \notin lost \cup vain
        => \A a \in Blamed(content[n]) \ edited : reason[a] \in HardReasons

-----------------------------------------------------------------------------
(***************************************************************************)
(* A statement of a comment and a test that the code does not keep.        *)
(***************************************************************************)

\* internal/events/events.go on canTransitionStatus: it "blocks delivery/sent
\* from overwriting terminal outcomes"; status_test.go: "terminal must not
\* downgrade to delivered".  So no event should.
EventsKeepTerminal ==
    [][\A e \in Emails :
          status[e] \in TerminalStatuses /\ attempt[e] # "record"
          => status'[e] \in TerminalStatuses]_vars

=============================================================================

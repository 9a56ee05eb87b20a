----------------------- MODULE DeliveryEvents_proofs -----------------------
(***************************************************************************)
(* Theorems about DeliveryEvents, for every set of emails, addresses,      *)
(* notifications and worker processes, whatever SES publishes.             *)
(***************************************************************************)
EXTENDS DeliveryEvents, TLAPS

USE DeliveryEventsAssumption DEF DeliveryEventsAssumption

-----------------------------------------------------------------------------
(***************************************************************************)
(* The inductive invariant.                                                *)
(***************************************************************************)

\* What a notification asks to be on the suppression list for good is there.
Applied(n, left) ==
    \A a \in Blamed(content[n]) \ (left \cup edited) : reason[a] \in HardReasons

\* A consumer that is not idle holds a published notification; its todo list
\* holds nobody the notification did not name, and by the time it is empty all
\* those named are on the list, unless a statement was lost.
Handling(c) ==
    /\ cpc[c] = "idle" <=> holds[c] = NoNotification
    /\ cpc[c] # "idle" => queue[holds[c]] # "unborn"
    /\ cpc[c] = "suppress" =>
         /\ todo[c] \subseteq Blamed(Held(c))
         /\ holds[c] \notin lost \cup vain => Applied(holds[c], todo[c])
    /\ cpc[c] = "delete" =>
         (holds[c] \notin lost \cup vain => Applied(holds[c], {}))

PublishedIsKept == \A n \in Notifications : queue[n] # "unborn" => content[n] \in Published

IInv ==
    /\ TypeOK
    /\ PublishedIsKept
    /\ \A c \in Consumers : Handling(c)
    /\ BounceIsWhole
    /\ SuppressionIsEarned
    /\ DeletedIsApplied

-----------------------------------------------------------------------------
(***************************************************************************)
(* The operators.                                                          *)
(***************************************************************************)

\* An upsert of the list keeps a hard reason hard and invents none.
LEMMA Merging ==
  ASSUME NEW old, NEW new
  PROVE  /\ mergedReason(old, new) \in {old, new}
         /\ old \in HardReasons => mergedReason(old, new) \in HardReasons
         /\ new \in HardReasons => mergedReason(old, new) = new
BY DEF mergedReason

\* HandleSESJSON calls Suppressions.Add for the recipients to blame, no others.
LEMMA SuppressesTheBlamed ==
  ASSUME NEW m
  PROVE  suppressedBy(m) = Blamed(m)
BY DEF suppressedBy, Blamed

\* A notification moves a message to bounced or complained only if it names
\* every recipient of it.
LEMMA BouncesWholeOnly ==
  ASSUME NEW m \in Contents, newStatus(m) \in {"bounced", "complained"}
  PROVE  /\ m.type = newStatus(m) /\ ~Transient(m)
         /\ (IF m.known THEN Destination[m.email] ELSE To[m.email]) \subseteq m.affected
         /\ m.affected # {}
BY DEF newStatus, statusFromEvent, recipientsCoverAll, Contents

LEMMA NewStatusTyped ==
  ASSUME NEW m \in Contents
  PROVE  newStatus(m) \in EmailStatuses \cup {""}
BY DEF newStatus, statusFromEvent, EmailStatuses

LEMMA HeldIsPublished ==
  ASSUME TypeOK, PublishedIsKept, NEW c \in Consumers, Handling(c), cpc[c] # "idle"
  PROVE  /\ holds[c] \in Notifications
         /\ Held(c) \in Published /\ Held(c) \in Contents
         /\ Held(c) \in ContentsSoFar
<1>1. holds[c] \in Notifications
  BY DEF TypeOK, Handling
<1> QED
  BY <1>1 DEF Handling, PublishedIsKept, Held, ContentsSoFar

-----------------------------------------------------------------------------
(***************************************************************************)
(* The types.                                                              *)
(***************************************************************************)

LEMMA InitTyped == Init => TypeOK
BY DEF Init, TypeOK, EmailStatuses, RowStatuses, AttemptPcs, ConsumerPcs

LEMMA MishapTyped ==
  ASSUME mishaps \in 0 .. MaxMishaps, Mishap
  PROVE  mishaps' \in 0 .. MaxMishaps
BY DEF Mishap

LEMMA SenderTyped ==
  ASSUME TypeOK, NEW e \in Emails,
         RecordSent(e) \/ LocalEventInsert(e) \/ LocalEventStatus(e)
  PROVE  TypeOK'
<1> USE DEF TypeOK, EmailStatuses, RowStatuses, AttemptPcs
<1>1. CASE RecordSent(e)
  BY <1>1 DEF RecordSent, sqs, consumer, history
<1>2. CASE LocalEventInsert(e)
  BY <1>2 DEF LocalEventInsert, rows, sqs, consumer, history
<1>3. CASE LocalEventStatus(e)
  BY <1>3 DEF LocalEventStatus, sqs, consumer, history
<1> QED
  BY <1>1, <1>2, <1>3

LEMMA QueueTyped ==
  ASSUME TypeOK, NEW n \in Notifications,
         Publish(n) \/ \E c \in Consumers : Receive(c, n)
  PROVE  TypeOK'
<1> USE DEF TypeOK
<1>1. CASE Publish(n)
  BY <1>1 DEF Publish, rows, sender, consumer, history
<1>2. ASSUME NEW c \in Consumers, Receive(c, n)
      PROVE  TypeOK'
  BY <1>2 DEF Receive, rows, sender, sqs, history, ConsumerPcs
<1> QED
  BY <1>1, <1>2

LEMMA GotoTyped ==
  ASSUME TypeOK, NEW c \in Consumers, NEW next \in ConsumerPcs, Goto(c, next)
  PROVE  cpc' \in [Consumers -> ConsumerPcs]
BY DEF TypeOK, Goto

LEMMA LosingTyped ==
  ASSUME TypeOK, NEW c \in Consumers, LoseWrite(c), holds[c] \in Notifications
  PROVE  lost' \subseteq Notifications /\ mishaps' \in 0 .. MaxMishaps
BY MishapTyped DEF TypeOK, LoseWrite

LEMMA ReleaseTyped ==
  ASSUME TypeOK, NEW c \in Consumers, Release(c)
  PROVE  /\ cpc' \in [Consumers -> ConsumerPcs]
         /\ holds' \in [Consumers -> Notifications \cup {NoNotification}]
         /\ seen' \in [Consumers -> RowStatuses]
         /\ todo' \in [Consumers -> SUBSET Addrs]
BY DEF TypeOK, Release, ConsumerPcs, RowStatuses

LEMMA ConsumerTyped ==
  ASSUME TypeOK, PublishedIsKept, NEW c \in Consumers, Handling(c),
         Handle(c) \/ Crash(c)
  PROVE  TypeOK'
<1>1. cpc[c] # "idle"
  BY DEF Handle, Lookup, InsertEvent, MoveStatus, Suppress, Delete, Crash
<1>2. holds[c] \in Notifications /\ Held(c) \in Contents
  BY <1>1, HeldIsPublished
<1>3. Held(c).email \in Emails /\ Held(c).affected \subseteq Addrs
  BY <1>2 DEF Contents
<1>4. CASE Lookup(c)
  <2>1. cpc' \in [Consumers -> ConsumerPcs]
    BY <1>4, GotoTyped DEF Lookup, ConsumerPcs
  <2>2. lost' \subseteq Notifications /\ mishaps' \in 0 .. MaxMishaps
    BY <1>2, <1>4, LosingTyped DEF Lookup, TypeOK
  <2>3. seen' \in [Consumers -> RowStatuses] /\ vain' \subseteq Notifications
    BY <1>2, <1>3, <1>4 DEF Lookup, TypeOK, RowStatuses
  <2> QED
    BY <2>1, <2>2, <2>3, <1>4 DEF Lookup, TypeOK, rows, sender, sqs
<1>5. CASE InsertEvent(c)
  <2>1. cpc' \in [Consumers -> ConsumerPcs]
    BY <1>5, GotoTyped DEF InsertEvent, ConsumerPcs
  <2>2. lost' \subseteq Notifications /\ mishaps' \in 0 .. MaxMishaps
    BY <1>2, <1>5, LosingTyped DEF InsertEvent, TypeOK
  <2>3. events' \subseteq Notifications
    BY <1>2, <1>5 DEF InsertEvent, TypeOK
  <2> QED
    BY <2>1, <2>2, <2>3, <1>5 DEF InsertEvent, TypeOK, sender, sqs
<1>6. CASE MoveStatus(c)
  <2>1. cpc' \in [Consumers -> ConsumerPcs]
    BY <1>6, GotoTyped DEF MoveStatus, ConsumerPcs
  <2>2. lost' \subseteq Notifications /\ mishaps' \in 0 .. MaxMishaps
    BY <1>2, <1>6, LosingTyped DEF MoveStatus, TypeOK
  <2>3. status' \in [Emails -> EmailStatuses]
    BY <1>2, <1>3, <1>6, NewStatusTyped DEF MoveStatus, TypeOK, canTransitionStatus
  <2>4. seen' \in [Consumers -> RowStatuses]
    BY <1>6 DEF MoveStatus, TypeOK, RowStatuses
  <2>5. todo' \in [Consumers -> SUBSET Addrs]
    BY <1>3, <1>6 DEF MoveStatus, TypeOK, suppressedBy
  <2> QED
    BY <2>1, <2>2, <2>3, <2>4, <2>5, <1>6 DEF MoveStatus, TypeOK, sender, sqs
<1>7. CASE Suppress(c)
  <2>1. cpc' \in [Consumers -> ConsumerPcs]
    BY <1>7, GotoTyped DEF Suppress, TypeOK, ConsumerPcs
  <2>2. lost' \subseteq Notifications /\ mishaps' \in 0 .. MaxMishaps
    BY <1>2, <1>7, LosingTyped DEF Suppress, TypeOK
  <2>3. reason' \in [Addrs -> Reasons \cup {"none"}]
    <3>1. CASE UNCHANGED reason
      BY <3>1 DEF TypeOK
    <3>2. ASSUME NEW a \in todo[c], NEW new \in {"complaint", "bounce"},
                 reason' = [reason EXCEPT ![a] = mergedReason(@, new)]
          PROVE  reason' \in [Addrs -> Reasons \cup {"none"}]
      <4>1. a \in Addrs /\ mergedReason(reason[a], new) \in {reason[a], new}
        BY Merging DEF TypeOK
      <4>2. mergedReason(reason[a], new) \in Reasons \cup {"none"}
        BY <4>1 DEF TypeOK, Reasons
      <4> QED
        BY <3>2, <4>1, <4>2 DEF TypeOK
    <3> QED
      BY <1>7, <3>1, <3>2 DEF Suppress
  <2>4. todo' \in [Consumers -> SUBSET Addrs]
    BY <1>7 DEF Suppress, TypeOK
  <2> QED
    BY <2>1, <2>2, <2>3, <2>4, <1>7 DEF Suppress, TypeOK, sender, sqs
<1>8. CASE Delete(c)
  BY <1>2, <1>8, ReleaseTyped DEF Delete, TypeOK, rows, sender, history
<1>9. CASE Crash(c)
  BY <1>9, ReleaseTyped, MishapTyped DEF Crash, TypeOK, rows, sender, sqs
<1> QED
  BY <1>4, <1>5, <1>6, <1>7, <1>8, <1>9 DEF Handle

LEMMA ListTyped ==
  ASSUME TypeOK, NEW a \in Addrs,
         Remove(a) \/ \E new \in ApiReasons : Add(a, new)
  PROVE  TypeOK'
<1> USE DEF rows, sender, sqs, consumer
<1>1. CASE Remove(a)
  BY <1>1, MishapTyped DEF Remove, TypeOK
<1>2. ASSUME NEW new \in ApiReasons, Add(a, new)
      PROVE  TypeOK'
  <2>1. mergedReason(reason[a], new) \in Reasons \cup {"none"}
    BY Merging DEF TypeOK
  <2> QED
    BY <1>2, <2>1, MishapTyped DEF Add, TypeOK
<1> QED
  BY <1>1, <1>2

-----------------------------------------------------------------------------
(***************************************************************************)
(* What no step undoes, and what follows for the consumers and the rows a  *)
(* step does not touch.                                                    *)
(***************************************************************************)

\* A published notification keeps its text, what was lost or edited is never
\* forgotten, and nothing but an edit of the API softens a hard reason.
Steady ==
    /\ \A n \in Notifications :
          queue[n] # "unborn" => queue'[n] # "unborn" /\ content'[n] = content[n]
    /\ lost \subseteq lost' /\ vain \subseteq vain' /\ edited \subseteq edited'
    /\ \A a \in Addrs \ edited' :
          reason[a] \in HardReasons => reason'[a] \in HardReasons

LEMMA SoFarGrows ==
  ASSUME Steady
  PROVE  ContentsSoFar \subseteq ContentsSoFar'
BY DEF Steady, ContentsSoFar

LEMMA AppliedStays ==
  ASSUME PublishedIsKept, Steady, NEW n \in Notifications, queue[n] # "unborn",
         NEW left, Applied(n, left)
  PROVE  Applied(n, left)'
<1>1. content'[n] = content[n] /\ Blamed(content[n]) \subseteq Addrs
  BY DEF PublishedIsKept, Steady, Blamed, Contents
<1> QED
  BY <1>1 DEF Applied, Steady, Blamed

LEMMA Bystander ==
  ASSUME TypeOK, PublishedIsKept, Steady, NEW d \in Consumers, Handling(d),
         cpc'[d] = cpc[d], holds'[d] = holds[d], todo'[d] = todo[d]
  PROVE  Handling(d)'
<1>1. CASE cpc[d] = "idle"
  BY <1>1 DEF Handling
<1>2. CASE cpc[d] # "idle"
  <2>1. holds[d] \in Notifications /\ queue[holds[d]] # "unborn"
    BY <1>2, HeldIsPublished DEF Handling
  <2>2. Held(d)' = Held(d)
    BY <2>1 DEF Held, Steady
  <2>3. \A left : Applied(holds[d], left) => Applied(holds[d], left)'
    BY <2>1, AppliedStays
  <2>4. holds[d] \notin (lost \cup vain)' => holds[d] \notin lost \cup vain
    BY DEF Steady
  <2>5. cpc[d] = "suppress" =>
          /\ todo[d] \subseteq Blamed(Held(d))'
          /\ holds[d] \notin (lost \cup vain)' => Applied(holds[d], todo[d])'
    BY <2>2, <2>3, <2>4 DEF Handling, Blamed
  <2>6. cpc[d] = "delete" =>
          (holds[d] \notin (lost \cup vain)' => Applied(holds[d], {})')
    BY <2>3, <2>4 DEF Handling
  <2> QED
    BY <1>2, <2>1, <2>5, <2>6 DEF Handling, Steady, Applied, Blamed, Held
<1> QED
  BY <1>1, <1>2

LEMMA BouncesStayWhole ==
  ASSUME Steady, BounceIsWhole,
         \A e \in Emails : status'[e] # status[e] => status'[e] \notin {"bounced", "complained"}
  PROVE  BounceIsWhole'
<1> SUFFICES ASSUME NEW e \in Emails, status'[e] \in {"bounced", "complained"}
             PROVE  \E m \in ContentsSoFar' :
                       /\ m.email = e /\ m.type = status'[e] /\ ~Transient(m)
                       /\ (IF m.known THEN Destination[e] ELSE To[e]) \subseteq m.affected
                       /\ m.affected # {}
  BY DEF BounceIsWhole, Transient
<1>1. status'[e] = status[e]
  OBVIOUS
<1> QED
  BY <1>1, SoFarGrows DEF BounceIsWhole

LEMMA StaysEarned ==
  ASSUME Steady, SuppressionIsEarned,
         \A a \in Addrs \ edited' :
            reason'[a] \in HardReasons =>
               reason[a] \in HardReasons \/ \E m \in ContentsSoFar : a \in Blamed(m)
  PROVE  SuppressionIsEarned'
<1> SUFFICES ASSUME NEW a \in Addrs \ edited', reason'[a] \in HardReasons
             PROVE  \E m \in ContentsSoFar' : a \in Blamed(m)
  BY DEF SuppressionIsEarned, Blamed
<1>1. \E m \in ContentsSoFar : a \in Blamed(m)
  BY DEF SuppressionIsEarned, Steady
<1> QED
  BY <1>1, SoFarGrows

LEMMA StaysApplied ==
  ASSUME PublishedIsKept, Steady, DeletedIsApplied,
         \A n \in Notifications :
            queue'[n] = "deleted" =>
               \/ queue[n] = "deleted"
               \/ /\ queue[n] # "unborn"
                  /\ n \notin lost' \cup vain' => Applied(n, {})
  PROVE  DeletedIsApplied'
<1> SUFFICES ASSUME NEW n \in Notifications,
                    queue'[n] = "deleted", n \notin lost' \cup vain'
             PROVE  Applied(n, {})'
  BY DEF DeletedIsApplied, Applied, Blamed
<1>1. queue[n] # "unborn" /\ Applied(n, {})
  BY DEF DeletedIsApplied, Applied, Steady
<1> QED
  BY <1>1, AppliedStays

\* The part of the invariant that a step leaves alone when it does not touch
\* the rows a property speaks of.
LEMMA RowsUntouched ==
  ASSUME Steady, PublishedIsKept, BounceIsWhole, SuppressionIsEarned, DeletedIsApplied
  PROVE  /\ UNCHANGED status => BounceIsWhole'
         /\ UNCHANGED reason => SuppressionIsEarned'
         /\ UNCHANGED queue => DeletedIsApplied'
<1>1. UNCHANGED status => BounceIsWhole'
  BY BouncesStayWhole
<1>2. UNCHANGED reason => SuppressionIsEarned'
  BY StaysEarned DEF Steady
<1>3. ASSUME UNCHANGED queue
      PROVE  DeletedIsApplied'
  <2>1. \A n \in Notifications : queue'[n] = "deleted" => queue[n] = "deleted"
    BY <1>3
  <2> QED
    BY <2>1, StaysApplied
<1> QED
  BY <1>1, <1>2, <1>3

-----------------------------------------------------------------------------
(***************************************************************************)
(* Every step keeps the invariant.                                         *)
(***************************************************************************)

LEMMA InitInv == Init => IInv
<1> SUFFICES ASSUME Init
             PROVE  IInv
  OBVIOUS
<1>1. TypeOK
  BY InitTyped
<1>2. PublishedIsKept /\ \A c \in Consumers : Handling(c)
  BY DEF Init, PublishedIsKept, Handling
<1>3. BounceIsWhole /\ SuppressionIsEarned /\ DeletedIsApplied
  BY DEF Init, BounceIsWhole, SuppressionIsEarned, DeletedIsApplied, HardReasons
<1> QED
  BY <1>1, <1>2, <1>3 DEF IInv

\* The actions the consumers take no part in, and that leave the queue alone.
LEMMA OutsideStep ==
  ASSUME IInv, Steady, UNCHANGED <<sqs, consumer>>
  PROVE  /\ PublishedIsKept'
         /\ \A d \in Consumers : Handling(d)'
<1>1. PublishedIsKept'
  BY DEF IInv, PublishedIsKept, sqs
<1>2. ASSUME NEW d \in Consumers
      PROVE  Handling(d)'
  BY Bystander DEF IInv, consumer
<1> QED
  BY <1>1, <1>2

LEMMA SenderStep ==
  ASSUME IInv, NEW e \in Emails,
         RecordSent(e) \/ LocalEventInsert(e) \/ LocalEventStatus(e)
  PROVE  IInv'
<1>1. TypeOK'
  BY SenderTyped DEF IInv
<1>2. UNCHANGED <<reason, events, sqs, consumer, history>>
  BY DEF RecordSent, LocalEventInsert, LocalEventStatus, rows
<1>3. Steady
  BY <1>2 DEF Steady, sqs, history
<1>4. PublishedIsKept' /\ \A d \in Consumers : Handling(d)'
  BY <1>2, <1>3, OutsideStep
<1>5. SuppressionIsEarned' /\ DeletedIsApplied'
  BY <1>2, <1>3, RowsUntouched DEF IInv, sqs
<1>6. \A f \in Emails : status'[f] # status[f] => status'[f] \notin {"bounced", "complained"}
  <2>1. status' = status \/ status' = [status EXCEPT ![e] = "sent"]
    BY DEF RecordSent, LocalEventInsert, LocalEventStatus, rows
  <2> QED
    BY <2>1 DEF IInv, TypeOK
<1>7. BounceIsWhole'
  BY <1>3, <1>6, BouncesStayWhole DEF IInv
<1> QED
  BY <1>1, <1>4, <1>5, <1>7 DEF IInv

LEMMA ListStep ==
  ASSUME IInv, NEW a \in Addrs,
         Remove(a) \/ \E new \in ApiReasons : Add(a, new)
  PROVE  IInv'
<1>1. TypeOK'
  BY ListTyped DEF IInv
<1>2. UNCHANGED <<status, named, events, sender, sqs, consumer, lost, vain>>
  BY DEF Remove, Add
<1>3. edited \subseteq edited' /\ \A b \in Addrs : b # a => reason'[b] = reason[b]
  BY DEF Remove, Add, IInv, TypeOK
<1>4. a \notin edited' =>
        /\ reason[a] \in HardReasons => reason'[a] \in HardReasons
        /\ reason'[a] \in HardReasons => reason[a] \in HardReasons
  <2>1. CASE Remove(a)
    BY <2>1 DEF Remove
  <2>2. ASSUME NEW new \in ApiReasons, Add(a, new), a \notin edited'
        PROVE  /\ reason[a] \in HardReasons => reason'[a] \in HardReasons
               /\ reason'[a] \in HardReasons => reason[a] \in HardReasons
    <3>1. reason'[a] = mergedReason(reason[a], new) /\ new \notin HardReasons
      BY <2>2 DEF Add, IInv, TypeOK
    <3> QED
      BY <3>1, Merging
  <2> QED
    BY <2>1, <2>2
<1>5. Steady
  BY <1>2, <1>3, <1>4 DEF Steady, sqs
<1>6. PublishedIsKept' /\ \A d \in Consumers : Handling(d)'
  BY <1>2, <1>5, OutsideStep
<1>7. BounceIsWhole' /\ DeletedIsApplied'
  BY <1>2, <1>5, RowsUntouched DEF IInv, sqs
<1>8. SuppressionIsEarned'
  BY <1>3, <1>4, <1>5, StaysEarned DEF IInv
<1> QED
  BY <1>1, <1>6, <1>7, <1>8 DEF IInv

LEMMA PublishStep ==
  ASSUME IInv, NEW n \in Notifications, Publish(n)
  PROVE  IInv'
<1>1. TypeOK'
  BY QueueTyped DEF IInv
<1>2. \A k \in Notifications :
        k # n => queue'[k] = queue[k] /\ content'[k] = content[k]
  BY DEF Publish, IInv, TypeOK
<1>3. queue[n] = "unborn" /\ queue'[n] = "queued" /\ content'[n] \in Published
  BY DEF Publish, IInv, TypeOK
<1>4. UNCHANGED <<rows, sender, consumer, history>>
  BY DEF Publish
<1>5. Steady
  BY <1>2, <1>3, <1>4 DEF Steady, rows, history
<1>6. PublishedIsKept'
  BY <1>2, <1>3 DEF IInv, PublishedIsKept
<1>7. ASSUME NEW d \in Consumers
      PROVE  Handling(d)'
  BY <1>4, <1>5, Bystander DEF IInv, consumer
<1>8. BounceIsWhole' /\ SuppressionIsEarned'
  BY <1>4, <1>5, RowsUntouched DEF IInv, rows
<1>9. DeletedIsApplied'
  <2>1. \A k \in Notifications : queue'[k] = "deleted" => queue[k] = "deleted"
    BY <1>2, <1>3
  <2> QED
    BY <2>1, <1>5, StaysApplied DEF IInv
<1> QED
  BY <1>1, <1>6, <1>7, <1>8, <1>9 DEF IInv

LEMMA ReceiveStep ==
  ASSUME IInv, NEW n \in Notifications, NEW c \in Consumers, Receive(c, n)
  PROVE  IInv'
<1>1. TypeOK'
  BY QueueTyped DEF IInv
<1>2. UNCHANGED <<rows, sender, sqs, seen, todo, history>>
  BY DEF Receive
<1>3. Steady
  BY <1>2 DEF Steady, rows, sqs, history
<1>4. PublishedIsKept'
  BY <1>2 DEF IInv, PublishedIsKept, sqs
<1>5. BounceIsWhole' /\ SuppressionIsEarned' /\ DeletedIsApplied'
  BY <1>2, <1>3, RowsUntouched DEF IInv, rows, sqs
<1>6. ASSUME NEW d \in Consumers
      PROVE  Handling(d)'
  <2>1. CASE d = c
    <3>1. cpc'[c] = "lookup" /\ holds'[c] = n /\ queue'[n] # "unborn" /\ n # NoNotification
      BY DEF Receive, IInv, TypeOK, sqs
    <3> QED
      BY <2>1, <3>1 DEF Handling
  <2>2. CASE d # c
    BY <2>2, <1>3, Bystander DEF Receive, IInv, TypeOK
  <2> QED
    BY <2>1, <2>2
<1> QED
  BY <1>1, <1>4, <1>5, <1>6 DEF IInv

\* A statement of consumer c: the other consumers, the queue and the texts of
\* the notifications are left alone.
LEMMA Consuming ==
  ASSUME IInv, NEW c \in Consumers, Steady, UNCHANGED sqs, Handling(c)',
         \A d \in Consumers \ {c} :
            cpc'[d] = cpc[d] /\ holds'[d] = holds[d] /\ todo'[d] = todo[d]
  PROVE  /\ PublishedIsKept'
         /\ \A d \in Consumers : Handling(d)'
         /\ DeletedIsApplied'
<1>1. PublishedIsKept'
  BY DEF IInv, PublishedIsKept, sqs
<1>2. DeletedIsApplied'
  BY RowsUntouched DEF IInv, sqs
<1>3. ASSUME NEW d \in Consumers \ {c}
      PROVE  Handling(d)'
  BY <1>3, Bystander DEF IInv
<1> QED
  BY <1>1, <1>2, <1>3

LEMMA LookupStep ==
  ASSUME IInv, NEW c \in Consumers, Lookup(c)
  PROVE  IInv'
<1>1. TypeOK'
  BY ConsumerTyped DEF IInv, Handle
<1>2. UNCHANGED <<rows, sender, sqs, holds, todo, edited>>
  BY DEF Lookup
<1>3. Steady
  BY <1>2 DEF Steady, rows, sqs, Lookup, LoseWrite
<1>4. \/ cpc' = [cpc EXCEPT ![c] = "event"]
      \/ cpc' = [cpc EXCEPT ![c] = "delete"] /\ holds[c] \in lost' \cup vain'
  BY DEF Lookup, LoseWrite, Goto
<1>5. Handling(c)'
  BY <1>2, <1>4 DEF Handling, IInv, TypeOK, Lookup, sqs
<1>6. \A d \in Consumers \ {c} : cpc'[d] = cpc[d]
  BY <1>4 DEF IInv, TypeOK
<1>7. PublishedIsKept' /\ (\A d \in Consumers : Handling(d)') /\ DeletedIsApplied'
  BY <1>2, <1>3, <1>5, <1>6, Consuming
<1>8. BounceIsWhole' /\ SuppressionIsEarned'
  BY <1>2, <1>3, RowsUntouched DEF IInv, rows
<1> QED
  BY <1>1, <1>7, <1>8 DEF IInv

LEMMA InsertStep ==
  ASSUME IInv, NEW c \in Consumers, InsertEvent(c)
  PROVE  IInv'
<1>1. TypeOK'
  BY ConsumerTyped DEF IInv, Handle
<1>2. UNCHANGED <<status, reason, sqs, holds, todo, vain, edited>>
  BY DEF InsertEvent
<1>3. Steady
  BY <1>2 DEF Steady, sqs, InsertEvent, LoseWrite
<1>4. cpc' = [cpc EXCEPT ![c] = "status"] /\ cpc[c] = "event"
  BY DEF InsertEvent, Goto
<1>5. Handling(c)'
  BY <1>2, <1>4 DEF Handling, IInv, TypeOK, sqs
<1>6. \A d \in Consumers \ {c} : cpc'[d] = cpc[d]
  BY <1>4 DEF IInv, TypeOK
<1>7. PublishedIsKept' /\ (\A d \in Consumers : Handling(d)') /\ DeletedIsApplied'
  BY <1>2, <1>3, <1>5, <1>6, Consuming
<1>8. BounceIsWhole' /\ SuppressionIsEarned'
  BY <1>2, <1>3, RowsUntouched DEF IInv
<1> QED
  BY <1>1, <1>7, <1>8 DEF IInv

LEMMA MoveStep ==
  ASSUME IInv, NEW c \in Consumers, MoveStatus(c)
  PROVE  IInv'
<1> DEFINE m == Held(c)
<1>1. TypeOK'
  BY ConsumerTyped DEF IInv, Handle
<1>2. UNCHANGED <<reason, sqs, holds, vain, edited>>
  BY DEF MoveStatus
<1>3. Steady
  BY <1>2 DEF Steady, sqs, MoveStatus, LoseWrite
<1>4. /\ holds[c] \in Notifications /\ m \in Contents /\ m \in ContentsSoFar
      /\ queue[holds[c]] # "unborn" /\ holds[c] # NoNotification
  BY HeldIsPublished DEF IInv, MoveStatus, Handling
<1>5. Held(c)' = m
  BY <1>2 DEF Held, sqs
<1>6. /\ cpc' = [cpc EXCEPT ![c] = "suppress"]
      /\ todo' = [todo EXCEPT ![c] = Blamed(m)]
  BY SuppressesTheBlamed DEF MoveStatus, Goto
<1>7. Handling(c)'
  <2>1. cpc'[c] = "suppress" /\ todo'[c] = Blamed(m) /\ holds'[c] = holds[c]
    BY <1>2, <1>6 DEF IInv, TypeOK
  <2>2. Applied(holds[c], todo[c])'
    BY <2>1, <1>5 DEF Applied, Held, Blamed
  <2>3. queue'[holds'[c]] # "unborn"
    BY <1>2, <1>4 DEF sqs
  <2>4. todo'[c] \subseteq Blamed(Held(c)')
    BY <2>1, <1>5
  <2> QED
    BY <2>1, <2>2, <2>3, <2>4, <1>4 DEF Handling, Blamed
<1>8. \A d \in Consumers \ {c} :
        cpc'[d] = cpc[d] /\ holds'[d] = holds[d] /\ todo'[d] = todo[d]
  BY <1>2, <1>6 DEF IInv, TypeOK
<1>9. PublishedIsKept' /\ (\A d \in Consumers : Handling(d)') /\ DeletedIsApplied'
  BY <1>2, <1>3, <1>7, <1>8, Consuming
<1>10. SuppressionIsEarned'
  BY <1>2, <1>3, RowsUntouched DEF IInv
<1>11. BounceIsWhole'
  <2> SUFFICES ASSUME NEW e \in Emails, status'[e] \in {"bounced", "complained"}
               PROVE  \E k \in ContentsSoFar' :
                        /\ k.email = e /\ k.type = status'[e] /\ ~Transient(k)
                        /\ (IF k.known THEN Destination[e] ELSE To[e]) \subseteq k.affected
                        /\ k.affected # {}
    BY DEF BounceIsWhole, Transient
  <2>1. CASE status'[e] = status[e]
    BY <2>1, <1>3, SoFarGrows DEF IInv, BounceIsWhole
  <2>2. CASE status'[e] # status[e]
    <3>1. e = m.email /\ status'[e] = newStatus(m)
      BY <2>2 DEF MoveStatus, IInv, TypeOK
    <3> QED
      BY <3>1, <1>3, <1>4, SoFarGrows, BouncesWholeOnly
  <2> QED
    BY <2>1, <2>2
<1> QED
  BY <1>1, <1>9, <1>10, <1>11 DEF IInv

LEMMA SuppressStep ==
  ASSUME IInv, NEW c \in Consumers, Suppress(c)
  PROVE  IInv'
<1>1. TypeOK'
  BY ConsumerTyped DEF IInv, Handle
<1>2. UNCHANGED <<status, sqs, holds, vain, edited>> /\ cpc[c] = "suppress"
  BY DEF Suppress
<1>3. /\ holds[c] \in Notifications /\ Held(c) \in Contents /\ Held(c) \in ContentsSoFar
      /\ queue[holds[c]] # "unborn" /\ holds[c] # NoNotification
  BY <1>2, HeldIsPublished DEF IInv, Handling
<1>4. Held(c)' = Held(c)
  BY <1>2 DEF Held, sqs
<1>5. CASE todo[c] = {}
  <2>1. /\ cpc' = [cpc EXCEPT ![c] = "delete"]
        /\ UNCHANGED <<reason, todo, lost, mishaps>>
    BY <1>5 DEF Suppress, Goto
  <2>2. Steady
    BY <2>1, <1>2 DEF Steady, sqs
  <2>3. Handling(c)'
    <3>1. cpc'[c] = "delete" /\ holds'[c] = holds[c] /\ queue'[holds'[c]] # "unborn"
      BY <2>1, <1>2, <1>3 DEF IInv, TypeOK, sqs
    <3>2. holds[c] \notin lost \cup vain => Applied(holds[c], {})
      BY <1>2, <1>5 DEF IInv, Handling
    <3>3. holds[c] \notin lost' \cup vain' => Applied(holds[c], {})'
      BY <3>2, <2>1, <1>2, <1>3, <2>2, AppliedStays DEF IInv
    <3> QED
      BY <3>1, <3>3, <1>2, <1>3 DEF Handling, Applied, Blamed
  <2>4. PublishedIsKept' /\ (\A d \in Consumers : Handling(d)') /\ DeletedIsApplied'
    <3>1. \A d \in Consumers \ {c} :
            cpc'[d] = cpc[d] /\ holds'[d] = holds[d] /\ todo'[d] = todo[d]
      BY <2>1, <1>2 DEF IInv, TypeOK
    <3> QED
      BY <3>1, <2>2, <2>3, <1>2, Consuming
  <2>5. BounceIsWhole' /\ SuppressionIsEarned'
    BY <1>2, <2>1, <2>2, RowsUntouched DEF IInv
  <2> QED
    BY <1>1, <2>4, <2>5 DEF IInv
<1>6. CASE todo[c] # {}
  <2> DEFINE new == IF Held(c).type = "complained" THEN "complaint" ELSE "bounce"
  <2>1. PICK a \in todo[c] :
          /\ todo' = [todo EXCEPT ![c] = @ \ {a}]
          /\ \/ /\ reason' = [reason EXCEPT ![a] = mergedReason(@, new)]
                /\ UNCHANGED <<lost, mishaps>>
             \/ LoseWrite(c) /\ UNCHANGED reason
          /\ UNCHANGED cpc
    BY <1>6 DEF Suppress
  <2>2. new \in HardReasons
    BY DEF HardReasons
  <2> HIDE DEF new
  <2>3. a \in Addrs /\ a \in Blamed(Held(c)) /\ todo[c] \subseteq Blamed(Held(c))
    BY <2>1, <1>2 DEF IInv, TypeOK, Handling
  <2>4. /\ \A b \in Addrs : b # a => reason'[b] = reason[b]
        /\ reason[a] \in HardReasons => reason'[a] \in HardReasons
        /\ reason'[a] \in HardReasons \/ holds[c] \in lost'
        /\ lost \subseteq lost'
    BY <2>1, <2>2, <2>3, Merging DEF IInv, TypeOK, LoseWrite
  <2>5. Steady
    BY <2>4, <1>2 DEF Steady, sqs
  <2>6. cpc'[c] = "suppress" /\ todo'[c] = todo[c] \ {a} /\ holds'[c] = holds[c]
    BY <2>1, <1>2 DEF IInv, TypeOK
  <2>7. Handling(c)'
    <3>1. queue'[holds'[c]] # "unborn" /\ todo'[c] \subseteq Blamed(Held(c))'
      BY <2>3, <2>6, <1>2, <1>3, <1>4 DEF sqs, Blamed
    <3>2. ASSUME holds[c] \notin lost' \cup vain'
          PROVE  Applied(holds[c], todo[c])'
      <4>1. Applied(holds[c], todo[c])
        BY <3>2, <2>5, <1>2 DEF IInv, Handling, Steady
      <4>2. \A left : Applied(holds[c], left) => Applied(holds[c], left)'
        BY <2>5, <2>6, <1>3, AppliedStays DEF IInv
      <4>3. reason'[a] \in HardReasons
        BY <3>2, <2>4
      <4> QED
        BY <4>1, <4>2, <4>3, <2>6 DEF Applied, HardReasons
    <3>3. holds'[c] \notin lost' \cup vain' => Applied(holds[c], todo[c])'
      BY <3>2, <2>6
    <3> QED
      BY <3>1, <3>3, <2>6, <1>3 DEF Handling, Applied, Blamed, Held
  <2>8. PublishedIsKept' /\ (\A d \in Consumers : Handling(d)') /\ DeletedIsApplied'
    <3>1. \A d \in Consumers \ {c} :
            cpc'[d] = cpc[d] /\ holds'[d] = holds[d] /\ todo'[d] = todo[d]
      BY <2>1, <1>2 DEF IInv, TypeOK
    <3> QED
      BY <3>1, <2>5, <2>7, <1>2, Consuming
  <2>9. BounceIsWhole'
    BY <1>2, <2>5, RowsUntouched DEF IInv
  <2>10. SuppressionIsEarned'
    BY <2>3, <2>4, <2>5, <1>3, StaysEarned DEF IInv
  <2> QED
    BY <1>1, <2>8, <2>9, <2>10 DEF IInv
<1> QED
  BY <1>5, <1>6

\* Delete and Crash let go of the notification.
LEMMA ReleaseStep ==
  ASSUME IInv, NEW c \in Consumers, Delete(c) \/ Crash(c)
  PROVE  IInv'
<1>1. TypeOK'
  BY ConsumerTyped DEF IInv, Handle
<1>2. UNCHANGED <<rows, sender, content, lost, vain, edited>> /\ Release(c) /\ cpc[c] # "idle"
  BY DEF Delete, Crash, history, sqs
<1>3. holds[c] \in Notifications /\ queue[holds[c]] # "unborn"
  BY <1>2, HeldIsPublished DEF IInv, Handling
<1>4. \/ UNCHANGED queue
      \/ /\ queue' = [queue EXCEPT ![holds[c]] = "deleted"]
         /\ holds[c] \notin lost \cup vain => Applied(holds[c], {})
  BY DEF Delete, Crash, sqs, IInv, Handling
<1>5. \A n \in Notifications :
        \/ queue'[n] = queue[n]
        \/ n = holds[c] /\ queue'[n] = "deleted"
  BY <1>4 DEF IInv, TypeOK
<1>6. Steady
  BY <1>2, <1>3, <1>5 DEF Steady, rows
<1>7. PublishedIsKept'
  BY <1>2, <1>3, <1>5 DEF IInv, PublishedIsKept
<1>8. ASSUME NEW d \in Consumers
      PROVE  Handling(d)'
  <2>1. CASE d = c
    BY <2>1, <1>2 DEF Handling, Release, IInv, TypeOK
  <2>2. CASE d # c
    BY <2>2, <1>2, <1>6, Bystander DEF Release, IInv, TypeOK
  <2> QED
    BY <2>1, <2>2
<1>9. BounceIsWhole' /\ SuppressionIsEarned'
  BY <1>2, <1>6, RowsUntouched DEF IInv, rows
<1>10. DeletedIsApplied'
  <2>1. ASSUME NEW n \in Notifications, queue'[n] = "deleted"
        PROVE  \/ queue[n] = "deleted"
               \/ /\ queue[n] # "unborn"
                  /\ n \notin lost' \cup vain' => Applied(n, {})
    BY <2>1, <1>2, <1>3, <1>4, <1>5
  <2> QED
    BY <2>1, <1>6, StaysApplied DEF IInv
<1> QED
  BY <1>1, <1>7, <1>8, <1>9, <1>10 DEF IInv

LEMMA StutterStep ==
  ASSUME IInv, UNCHANGED vars
  PROVE  IInv'
<1>1. Steady
  BY DEF vars, Steady, rows, sqs, history
<1>2. PublishedIsKept' /\ \A d \in Consumers : Handling(d)'
  BY <1>1, OutsideStep DEF vars
<1>3. BounceIsWhole' /\ SuppressionIsEarned' /\ DeletedIsApplied'
  BY <1>1, RowsUntouched DEF IInv, vars, rows, sqs
<1>4. TypeOK'
  BY DEF IInv, TypeOK, vars, rows, sender, sqs, consumer, history
<1> QED
  BY <1>2, <1>3, <1>4 DEF IInv

LEMMA StepInv == IInv /\ [Next]_vars => IInv'
<1> SUFFICES ASSUME IInv, [Next]_vars
             PROVE  IInv'
  OBVIOUS
<1>1. ASSUME NEW n \in Notifications, Publish(n) \/ \E c \in Consumers : Receive(c, n)
      PROVE  IInv'
  BY <1>1, PublishStep, ReceiveStep
<1>2. ASSUME NEW c \in Consumers, Handle(c) \/ Crash(c)
      PROVE  IInv'
  BY <1>2, LookupStep, InsertStep, MoveStep, SuppressStep, ReleaseStep DEF Handle
<1> QED
  BY <1>1, <1>2, SenderStep, ListStep, StutterStep DEF Next

LEMMA Inductive == Spec => []IInv
BY InitInv, StepInv, PTL DEF Spec

-----------------------------------------------------------------------------
(***************************************************************************)
(* The theorems.                                                           *)
(***************************************************************************)

\* Every variable keeps its type; a consumer that handles a notification needs
\* that it was published.
THEOREM TypeCorrect == Spec => []TypeOK
<1>1. IInv => TypeOK
  BY DEF IInv
<1> QED
  BY Inductive, <1>1, PTL

\* No series of partial, transient or duplicate bounces, racing attempts and
\* consumers makes HandleSESJSON call a message bounced or complained: one
\* notification that names every recipient does.
THEOREM BouncesAreWhole == Spec => []BounceIsWhole
<1>1. IInv => BounceIsWhole
  BY DEF IInv
<1> QED
  BY Inductive, <1>1, PTL

\* Suppressions.Add is never called for an address SES did not blame.
THEOREM SuppressionsAreEarned == Spec => []SuppressionIsEarned
<1>1. IInv => SuppressionIsEarned
  BY DEF IInv
<1> QED
  BY Inductive, <1>1, PTL

\* However consumers crash and notifications are redelivered, one that is out of
\* the queue and met its row and no failed statement has suppressed everybody it
\* blames, and no later upsert softens that.
THEOREM DeletedMeansApplied == Spec => []DeletedIsApplied
<1>1. IInv => DeletedIsApplied
  BY DEF IInv
<1> QED
  BY Inductive, <1>1, PTL

=============================================================================

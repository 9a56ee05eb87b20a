-------------------------- MODULE Workspace_proofs --------------------------
(***************************************************************************)
(* Theorems about the parts of a workspace that Tenancy_proofs and         *)
(* Consent_proofs leave - EventStream and Billing - and about Workspace:   *)
(* each of its behaviours is one of every part, so that what is proved of  *)
(* the parts holds of the workspace.                                       *)
(***************************************************************************)
EXTENDS Workspace, Consent_proofs, Tenancy_proofs, FiniteSetTheorems,
        SequenceTheorems, TLAPS

USE StreamAssumption DEF StreamAssumption

-----------------------------------------------------------------------------
(***************************************************************************)
(* THE EVENT STREAM: the inductive invariant.                              *)
(***************************************************************************)

Starts == [from : {0} \cup LiveEvents, upTo : Nat, between : SUBSET LiveEvents]

StreamTypes ==
    /\ liveEvent \in [LiveEvents -> {"none", "stored", "published", "unpublished"}]
    /\ slots \in Int
    /\ slotsTtl \in BOOLEAN
    /\ expiries \in 0 .. MaxExpiries
    /\ streamPc \in [Listeners -> {"away", "refused", "replay", "subscribe", "live"}]
    /\ pipe \in [Listeners -> Seq(LiveEvents)]
    /\ lastId \in [Listeners -> {0} \cup LiveEvents]
    /\ got \in [Listeners -> SUBSET LiveEvents]
    /\ resumed \in [Listeners -> Starts]

\* The clients that have taken a slot and not given it back.
Holding == {c \in Listeners : streamPc[c] # "away"}

\* The counter covers them, until it expires; and then it lacks no more than
\* one slot for each client.
CounterInv ==
    /\ slots <= MaxSlots
    /\ Cardinality(Holding) - Cardinality(Listeners) <= slots
    /\ expiries = 0 => Cardinality(Holding) <= slots
    /\ StreamsAreBounded

InPipe(c, e) == \E i \in DOMAIN pipe[c] : pipe[c][i] = e

\* Why a client may do without an event it asked for.
Explained(c, e) ==
    \/ e \in got[c] \/ InPipe(c, e)
    \/ e <= resumed[c].from
    \/ e \in resumed[c].between /\ e > resumed[c].upTo
    \/ e <= resumed[c].upTo /\ (resumed[c].from = 0 \/ e > resumed[c].from + MaxReplay)

\* From the replay on, that goes for all that was stored by then, and for all
\* that is published since.
Served(c) ==
    streamPc[c] \in {"subscribe", "live"} =>
        \A e \in Wanted[c] :
            e <= resumed[c].upTo \/ liveEvent[e] = "published" => Explained(c, e)

\* What a client is given it asked for; it waits for nothing before the replay.
Reading(c) ==
    /\ pipe[c] \in Seq(Wanted[c])
    /\ pipe[c] # <<>> => streamPc[c] \in {"subscribe", "live"}
    /\ got[c] \subseteq Wanted[c]
    /\ lastId[c] \in got[c] \cup {0}
    /\ resumed[c].from \in got[c] \cup {0}

StreamInv ==
    /\ StreamTypes
    /\ Recorded = 1 .. Cardinality(Recorded)
    /\ CounterInv
    /\ \A c \in Listeners : Reading(c) /\ Served(c)

LEMMA EventsAreNumbers ==
  /\ LiveEvents \subseteq Nat /\ 0 \notin LiveEvents
  /\ MaxLiveEvents \in Nat /\ MaxReplay \in Nat /\ MaxStreams \in Nat
  /\ MaxExpiries \in Nat /\ MaxSlots \in Nat
  /\ \A c \in Listeners : Wanted[c] \subseteq LiveEvents
BY DEF LiveEvents

LEMMA CountedIsSeq ==
  ASSUME NEW S, NEW n \in Nat, NEW f \in [1 .. n -> S]
  PROVE  f \in Seq(S)
BY SeqDef

\* A stream that has one more event published before it is subscribed.
OneMore(r, e) == [r EXCEPT !.between = @ \cup {e}]

LEMMA StartWithOneMore ==
  ASSUME NEW r \in Starts, NEW e \in LiveEvents
  PROVE  /\ OneMore(r, e) \in Starts
         /\ OneMore(r, e).from = r.from /\ OneMore(r, e).upTo = r.upTo
         /\ OneMore(r, e).between = r.between \cup {e}
BY DEF Starts, OneMore

-----------------------------------------------------------------------------
(***************************************************************************)
(* The slots.                                                              *)
(***************************************************************************)

LEMMA HoldersAreFinite ==
  /\ IsFiniteSet(Holding) /\ IsFiniteSet(Open)
  /\ Cardinality(Holding) \in Nat /\ Cardinality(Open) \in Nat
  /\ Cardinality(Listeners) \in Nat
  /\ Cardinality(Open) <= Cardinality(Holding)
  /\ Cardinality(Holding) <= Cardinality(Listeners)
<1>1. Holding \subseteq Listeners /\ Open \subseteq Holding
  BY DEF Holding, Open
<1>2. IsFiniteSet(Holding) /\ Cardinality(Holding) <= Cardinality(Listeners)
  BY <1>1, FS_Subset
<1>3. IsFiniteSet(Open) /\ Cardinality(Open) <= Cardinality(Holding)
  BY <1>1, <1>2, FS_Subset
<1> QED
  BY <1>2, <1>3, FS_CardinalityType

\* Streams that go on, or end without the counter.
LEMMA CounterStays ==
  ASSUME CounterInv, UNCHANGED <<slots, expiries>>, Holding' = Holding, Open' = Open
  PROVE  CounterInv'
BY DEF CounterInv, StreamsAreBounded

LEMMA GivingBack ==
  ASSUME StreamTypes, CounterInv, NEW c \in Holding, ReleaseSlot,
         streamPc' = [streamPc EXCEPT ![c] = "away"], UNCHANGED expiries
  PROVE  CounterInv'
<1>1. Holding' = Holding \ {c} /\ Open' \subseteq Open
  BY DEF Holding, Open, StreamTypes
<1>2. Cardinality(Holding') = Cardinality(Holding) - 1
  BY <1>1, HoldersAreFinite, FS_RemoveElement
<1>3. Cardinality(Open') <= Cardinality(Open)
  BY <1>1, HoldersAreFinite, FS_Subset
<1>4. slots' \in Int /\ slots' <= slots /\ slots - 1 <= slots'
  BY DEF StreamTypes, ReleaseSlot
<1>5. Cardinality(Open') \in Nat
  BY <1>1, HoldersAreFinite, FS_Subset, FS_CardinalityType
<1>6. MaxSlots \in Int /\ MaxStreams \in Int
  BY EventsAreNumbers
<1>7. /\ slots' <= MaxSlots
      /\ Cardinality(Holding') - Cardinality(Listeners) <= slots'
      /\ expiries' = 0 => Cardinality(Holding') <= slots'
  BY <1>2, <1>4, <1>6, HoldersAreFinite DEF CounterInv, StreamTypes
<1>8. expiries' = 0 => Cardinality(Open') <= MaxStreams
  BY <1>3, <1>5, <1>6, HoldersAreFinite DEF CounterInv, StreamsAreBounded
<1> QED
  BY <1>7, <1>8 DEF CounterInv, StreamsAreBounded

LEMMA TakingASlot ==
  ASSUME StreamTypes, CounterInv, NEW c \in Listeners, ReserveSlot(c)
  PROVE  CounterInv'
<1>1. /\ c \notin Holding /\ slots < MaxSlots /\ slots' = slots + 1 /\ UNCHANGED expiries
      /\ streamPc' = [streamPc EXCEPT ![c] =
                        IF slots' > MaxStreams THEN "refused" ELSE "replay"]
  BY DEF ReserveSlot, Holding, counter
<1>2. Holding' = Holding \cup {c}
  BY <1>1 DEF Holding, StreamTypes
<1>3. Cardinality(Holding') = Cardinality(Holding) + 1
  BY <1>1, <1>2, HoldersAreFinite, FS_AddElement
<1>4. slots \in Int /\ MaxSlots \in Int /\ MaxStreams \in Int
  BY EventsAreNumbers DEF StreamTypes
<1>5. /\ slots' <= MaxSlots
      /\ Cardinality(Holding') - Cardinality(Listeners) <= slots'
      /\ expiries' = 0 => Cardinality(Holding') <= slots'
  BY <1>1, <1>3, <1>4, HoldersAreFinite DEF CounterInv
<1>6. ASSUME expiries' = 0
      PROVE  Cardinality(Open') <= MaxStreams
  <2>1. CASE slots' > MaxStreams
    <3>1. Open' = Open
      BY <1>1, <2>1 DEF Open, StreamTypes, Holding
    <3> QED
      BY <3>1, <1>1, <1>6 DEF CounterInv, StreamsAreBounded
  <2>2. CASE slots' <= MaxStreams
    <3>1. Open' \subseteq Holding'
      BY DEF Open, Holding
    <3>2. IsFiniteSet(Holding')
      BY <1>2, HoldersAreFinite, FS_AddElement
    <3>3. Cardinality(Open') <= Cardinality(Holding') /\ Cardinality(Open') \in Nat
      BY <3>1, <3>2, FS_Subset, FS_CardinalityType
    <3>4. Cardinality(Holding') \in Nat
      BY <3>2, FS_CardinalityType
    <3> QED
      BY <3>3, <3>4, <2>2, <1>1, <1>4, <1>5, <1>6
  <2> QED
    BY <2>1, <2>2, <1>1, <1>4
<1> QED
  BY <1>5, <1>6 DEF CounterInv, StreamsAreBounded

LEMMA ExpiredCounter ==
  ASSUME StreamTypes, CounterInv, SlotsExpire
  PROVE  CounterInv'
<1>1. slots' = 0 /\ expiries' = expiries + 1 /\ expiries' # 0 /\ UNCHANGED streamPc
  BY DEF SlotsExpire, StreamTypes
<1>2. Holding' = Holding
  BY <1>1 DEF Holding
<1>3. 0 <= MaxSlots
  BY EventsAreNumbers
<1> QED
  BY <1>1, <1>2, <1>3, HoldersAreFinite DEF CounterInv, StreamsAreBounded

-----------------------------------------------------------------------------
(***************************************************************************)
(* The rows of the events.                                                 *)
(***************************************************************************)

LEMMA NothingIsForgotten ==
  ASSUME \A e \in LiveEvents : liveEvent'[e] = "none" <=> liveEvent[e] = "none"
  PROVE  Recorded' = Recorded
BY DEF Recorded

LEMMA RecordedIsFinite ==
  /\ IsFiniteSet(Recorded) /\ Cardinality(Recorded) \in Nat
  /\ Cardinality(Recorded) <= MaxLiveEvents
<1>1. IsFiniteSet(LiveEvents) /\ Cardinality(LiveEvents) = MaxLiveEvents
  BY EventsAreNumbers, FS_Interval DEF LiveEvents
<1> QED
  BY <1>1, FS_Subset, FS_CardinalityType DEF Recorded

LEMMA RecordedGrows ==
  ASSUME StreamTypes, Recorded = 1 .. Cardinality(Recorded), RecordEvent
  PROVE  /\ Recorded' = 1 .. Cardinality(Recorded')
         /\ liveEvent' \in [LiveEvents -> {"none", "stored", "published", "unpublished"}]
         /\ \A e \in LiveEvents : liveEvent'[e] = "published" => liveEvent[e] = "published"
<1> DEFINE n == Cardinality(Recorded)
<1>1. n \in Nat /\ n + 1 \in LiveEvents
  BY RecordedIsFinite, EventsAreNumbers DEF RecordEvent, LiveEvents
<1>2. liveEvent' = [liveEvent EXCEPT ![n + 1] = "stored"]
  BY DEF RecordEvent
<1> HIDE DEF n
<1>3. Recorded' = Recorded \cup {n + 1}
  BY <1>1, <1>2 DEF Recorded, StreamTypes
<1>4. Recorded = 1 .. n
  BY DEF n
<1>5. Recorded' = 1 .. (n + 1)
  BY <1>1, <1>3, <1>4
<1>6. Cardinality(Recorded') = n + 1
  BY <1>1, <1>5, FS_Interval
<1> QED
  BY <1>1, <1>2, <1>5, <1>6 DEF StreamTypes

-----------------------------------------------------------------------------
(***************************************************************************)
(* The clients.                                                            *)
(***************************************************************************)

LEMMA ListenerStays ==
  ASSUME NEW d \in Listeners, Reading(d) /\ Served(d),
         streamPc'[d] = streamPc[d], pipe'[d] = pipe[d], lastId'[d] = lastId[d],
         got'[d] = got[d], resumed'[d] = resumed[d],
         \A e \in LiveEvents : liveEvent'[e] = "published" => liveEvent[e] = "published"
  PROVE  Reading(d)' /\ Served(d)'
<1>1. Reading(d)'
  BY DEF Reading
<1>2. Served(d)'
  BY EventsAreNumbers DEF Served, Explained, InPipe
<1> QED
  BY <1>1, <1>2

LEMMA RecordStep ==
  ASSUME StreamInv, RecordEvent
  PROVE  StreamInv'
<1> USE DEF StreamInv
<1>1. UNCHANGED <<counter, streamPc, reader>>
  BY DEF RecordEvent
<1>2. Recorded' = 1 .. Cardinality(Recorded')
  BY RecordedGrows
<1>3. StreamTypes'
  BY <1>1, RecordedGrows DEF StreamTypes, counter, reader
<1>4. CounterInv'
  BY <1>1, CounterStays DEF counter, Holding, Open
<1>5. \A c \in Listeners : Reading(c)' /\ Served(c)'
  BY <1>1, RecordedGrows, ListenerStays DEF reader
<1> QED
  BY <1>2, <1>3, <1>4, <1>5

LEMMA UnpublishedStep ==
  ASSUME StreamInv, NEW e \in LiveEvents, PublishFails(e)
  PROVE  StreamInv'
<1> USE DEF StreamInv
<1>1. UNCHANGED <<counter, streamPc, reader>>
  BY DEF PublishFails
<1>2. /\ liveEvent' \in [LiveEvents -> {"none", "stored", "published", "unpublished"}]
      /\ \A f \in LiveEvents :
            /\ liveEvent'[f] = "none" <=> liveEvent[f] = "none"
            /\ liveEvent'[f] = "published" => liveEvent[f] = "published"
  BY DEF PublishFails, StreamTypes
<1>3. Recorded' = Recorded
  BY <1>2, NothingIsForgotten
<1>4. StreamTypes'
  BY <1>1, <1>2 DEF StreamTypes, counter, reader
<1>5. CounterInv'
  BY <1>1, CounterStays DEF counter, Holding, Open
<1>6. \A c \in Listeners : Reading(c)' /\ Served(c)'
  BY <1>1, <1>2, ListenerStays DEF reader
<1> QED
  BY <1>3, <1>4, <1>5, <1>6

LEMMA PublishStep ==
  ASSUME StreamInv, NEW e \in LiveEvents, publishLive(e)
  PROVE  StreamInv'
<1> USE DEF StreamInv
<1>1. UNCHANGED <<counter, streamPc, lastId, got>>
  BY DEF publishLive
<1>2. /\ liveEvent' \in [LiveEvents -> {"none", "stored", "published", "unpublished"}]
      /\ \A f \in LiveEvents :
            /\ liveEvent'[f] = "none" <=> liveEvent[f] = "none"
            /\ f # e => liveEvent'[f] = liveEvent[f]
  BY DEF publishLive, StreamTypes
<1>3. Recorded' = Recorded
  BY <1>2, NothingIsForgotten
<1>4. ASSUME NEW c \in Listeners
      PROVE  /\ pipe'[c] = IF streamPc[c] = "live" /\ e \in Wanted[c]
                           THEN Append(pipe[c], e) ELSE pipe[c]
             /\ resumed'[c] = IF streamPc[c] = "subscribe"
                              THEN OneMore(resumed[c], e) ELSE resumed[c]
  BY Zenon DEF publishLive, MatchStreamFilters, OneMore
<1>5. ASSUME NEW c \in Listeners
      PROVE  /\ pipe'[c] \in Seq(LiveEvents) /\ resumed'[c] \in Starts
             /\ resumed'[c].from = resumed[c].from /\ resumed'[c].upTo = resumed[c].upTo
             /\ resumed'[c].between =
                  IF streamPc[c] = "subscribe" THEN resumed[c].between \cup {e}
                  ELSE resumed[c].between
  <2>1. resumed[c] \in Starts /\ pipe[c] \in Seq(LiveEvents)
    BY DEF StreamTypes
  <2>2. pipe'[c] \in Seq(LiveEvents)
    <3>1. Append(pipe[c], e) \in Seq(LiveEvents)
      BY <2>1
    <3> QED
      BY <3>1, <2>1, <1>4
  <2>3. CASE streamPc[c] = "subscribe"
    BY <2>1, <2>2, <2>3, <1>4, StartWithOneMore
  <2>4. CASE streamPc[c] # "subscribe"
    BY <2>1, <2>2, <2>4, <1>4
  <2> QED
    BY <2>3, <2>4
<1>6. StreamTypes'
  <2>1. pipe' \in [Listeners -> Seq(LiveEvents)]
    BY <1>5 DEF publishLive
  <2>2. resumed' \in [Listeners -> Starts]
    BY <1>5 DEF publishLive
  <2> QED
    BY <1>1, <1>2, <2>1, <2>2 DEF StreamTypes, counter
<1>7. CounterInv'
  BY <1>1, CounterStays DEF counter, Holding, Open
<1>8. ASSUME NEW c \in Listeners
      PROVE  Reading(c)' /\ Served(c)'
  <2>1. Reading(c)'
    <3>1. pipe'[c] \in Seq(Wanted[c])
      <4>1. pipe[c] \in Seq(Wanted[c])
        BY DEF Reading
      <4>2. CASE e \in Wanted[c]
        <5>1. Append(pipe[c], e) \in Seq(Wanted[c])
          BY <4>1, <4>2
        <5> QED
          BY <5>1, <4>1, <1>4
      <4> QED
        BY <4>1, <4>2, <1>4
    <3>2. pipe'[c] # <<>> => streamPc'[c] \in {"subscribe", "live"}
      BY <1>1, <1>4 DEF Reading
    <3> QED
      BY <3>1, <3>2, <1>1, <1>5 DEF Reading
  <2>2. ASSUME NEW f \in LiveEvents, Explained(c, f)
        PROVE  Explained(c, f)'
    <3>1. ASSUME InPipe(c, f)
          PROVE  InPipe(c, f)'
      <4>1. PICK i \in DOMAIN pipe[c] : pipe[c][i] = f
        BY <3>1 DEF InPipe
      <4>2. pipe[c] \in Seq(LiveEvents)
        BY DEF StreamTypes
      <4>3. i \in DOMAIN Append(pipe[c], e) /\ Append(pipe[c], e)[i] = f
        BY <4>1, <4>2
      <4>4. i \in DOMAIN pipe'[c] /\ pipe'[c][i] = f
        BY <4>1, <4>3, <1>4
      <4> QED
        BY <4>4 DEF InPipe
    <3> QED
      BY <2>2, <3>1, <1>1, <1>5 DEF Explained
  <2>3. ASSUME streamPc'[c] \in {"subscribe", "live"}, NEW f \in Wanted[c],
               f <= resumed'[c].upTo \/ liveEvent'[f] = "published"
        PROVE  Explained(c, f)'
    <3>1. f \in LiveEvents
      BY EventsAreNumbers
    <3>2. CASE f <= resumed[c].upTo \/ liveEvent[f] = "published"
      BY <3>1, <3>2, <2>2, <2>3, <1>1 DEF Served
    <3>3. CASE ~(f <= resumed[c].upTo) /\ f = e
      <4>1. resumed[c].upTo \in Nat /\ f \in Nat
        BY <3>1, EventsAreNumbers DEF StreamTypes, Starts
      <4>2. CASE streamPc[c] = "subscribe"
        <5>1. f \in resumed'[c].between
          BY <4>2, <3>3, <1>5
        <5>2. f > resumed[c].upTo
          BY <4>1, <3>3
        <5>3. f > resumed'[c].upTo
          BY <5>2, <1>5
        <5> QED
          BY <5>1, <5>3 DEF Explained
      <4>3. CASE streamPc[c] = "live"
        <5>1. pipe'[c] = Append(pipe[c], f) /\ pipe[c] \in Seq(LiveEvents)
          BY <4>3, <3>3, <1>4 DEF StreamTypes
        <5>2. Len(pipe[c]) + 1 \in DOMAIN pipe'[c] /\ pipe'[c][Len(pipe[c]) + 1] = f
          BY <5>1, <3>1
        <5> QED
          BY <5>2 DEF Explained, InPipe
      <4> QED
        BY <4>2, <4>3, <2>3, <1>1
    <3> QED
      BY <3>1, <3>2, <3>3, <2>3, <1>2, <1>5
  <2> QED
    BY <2>1, <2>3 DEF Served
<1> QED
  BY <1>3, <1>6, <1>7, <1>8

\* The requests for a slot, and their refusals: nothing of the reader changes.
LEMMA SlotStep ==
  ASSUME StreamInv, NEW c \in Listeners, ReserveSlot(c) \/ RefuseStream(c)
  PROVE  StreamInv'
<1> USE DEF StreamInv
<1>1. UNCHANGED <<liveEvent, expiries, reader>>
  BY DEF ReserveSlot, RefuseStream
<1>2. /\ streamPc[c] \in {"away", "refused"}
      /\ \E next \in {"away", "refused", "replay"} : streamPc' = [streamPc EXCEPT ![c] = next]
  BY DEF ReserveSlot, RefuseStream
<1>3. StreamTypes'
  <2>1. slots' \in Int
    <3>1. slots' \in {slots + 1, slots, slots - 1}
      BY DEF ReserveSlot, RefuseStream, ReleaseSlot
    <3> QED
      BY <3>1 DEF StreamTypes
  <2>2. slotsTtl' \in {slotsTtl, TRUE}
    BY DEF ReserveSlot, RefuseStream
  <2>3. slotsTtl' \in BOOLEAN
    BY <2>2 DEF StreamTypes
  <2> QED
    BY <1>1, <1>2, <2>1, <2>3 DEF StreamTypes, reader
<1>4. CounterInv'
  <2>1. RefuseStream(c) => c \in Holding
    BY DEF RefuseStream, Holding
  <2> QED
    BY <2>1, <1>1, TakingASlot, GivingBack DEF RefuseStream
<1>5. ASSUME NEW d \in Listeners
      PROVE  Reading(d)' /\ Served(d)'
  <2>1. CASE d = c
    <3>1. streamPc'[d] \notin {"subscribe", "live"} /\ pipe[d] = <<>>
      BY <2>1, <1>2 DEF StreamTypes, Reading
    <3> QED
      BY <3>1, <1>1 DEF Reading, Served, reader
  <2>2. CASE d # c
    BY <2>2, <1>1, <1>2, ListenerStays DEF StreamTypes, reader
  <2> QED
    BY <2>1, <2>2
<1>6. Recorded' = 1 .. Cardinality(Recorded')
  BY <1>1, NothingIsForgotten
<1> QED
  BY <1>3, <1>4, <1>5, <1>6

LEMMA SubscribeStep ==
  ASSUME StreamInv, NEW c \in Listeners, SubscribeTo(c)
  PROVE  StreamInv'
<1> USE DEF StreamInv
<1>1. /\ streamPc[c] = "subscribe" /\ streamPc' = [streamPc EXCEPT ![c] = "live"]
      /\ UNCHANGED <<liveEvent, counter, reader>>
  BY DEF SubscribeTo
<1>2. StreamTypes'
  BY <1>1 DEF StreamTypes, counter, reader
<1>3. CounterInv'
  <2>1. Holding' = Holding /\ Open' = Open
    BY <1>1 DEF Holding, Open, StreamTypes
  <2> QED
    BY <1>1, <2>1, CounterStays DEF counter
<1>4. ASSUME NEW d \in Listeners
      PROVE  Reading(d)' /\ Served(d)'
  <2>1. CASE d = c
    <3>1. streamPc'[d] = "live"
      BY <2>1, <1>1 DEF StreamTypes
    <3>2. Reading(d)'
      BY <3>1, <1>1 DEF Reading, reader
    <3>3. Served(d)'
      BY <2>1, <3>1, <1>1 DEF Served, Explained, InPipe, reader
    <3> QED
      BY <3>2, <3>3
  <2>2. CASE d # c
    BY <2>2, <1>1, ListenerStays DEF StreamTypes, reader
  <2> QED
    BY <2>1, <2>2
<1>5. Recorded' = 1 .. Cardinality(Recorded')
  BY <1>1, NothingIsForgotten
<1> QED
  BY <1>2, <1>3, <1>4, <1>5

LEMMA CloseStep ==
  ASSUME StreamInv, NEW c \in Listeners, CloseStream(c)
  PROVE  StreamInv'
<1> USE DEF StreamInv
<1>1. /\ c \in Open /\ ReleaseSlot
      /\ streamPc' = [streamPc EXCEPT ![c] = "away"]
      /\ pipe' = [pipe EXCEPT ![c] = <<>>]
      /\ resumed' = [resumed EXCEPT ![c] = NewStream]
      /\ UNCHANGED <<liveEvent, slotsTtl, expiries, lastId, got>>
  BY DEF CloseStream
<1>2. NewStream \in Starts /\ NewStream.from = 0
  BY DEF NewStream, Starts
<1>3. StreamTypes'
  <2>1. slots' \in Int
    BY <1>1 DEF ReleaseSlot, StreamTypes
  <2>2. pipe' \in [Listeners -> Seq(LiveEvents)]
    BY <1>1, EmptySeq DEF StreamTypes
  <2>3. resumed' \in [Listeners -> Starts]
    BY <1>1, <1>2 DEF StreamTypes
  <2> QED
    BY <1>1, <2>1, <2>2, <2>3 DEF StreamTypes
<1>4. CounterInv'
  BY <1>1, GivingBack DEF Open, Holding
<1>5. ASSUME NEW d \in Listeners
      PROVE  Reading(d)' /\ Served(d)'
  <2>1. CASE d = c
    <3>1. streamPc'[d] = "away" /\ pipe'[d] = <<>> /\ resumed'[d].from = 0
      BY <2>1, <1>1, <1>2 DEF StreamTypes
    <3>2. <<>> \in Seq(Wanted[d])
      BY EmptySeq
    <3> QED
      BY <3>1, <3>2, <1>1 DEF Reading, Served
  <2>2. CASE d # c
    BY <2>2, <1>1, ListenerStays DEF StreamTypes
  <2> QED
    BY <2>1, <2>2
<1>6. Recorded' = 1 .. Cardinality(Recorded')
  BY <1>1, NothingIsForgotten
<1> QED
  BY <1>3, <1>4, <1>5, <1>6

LEMMA ExpireStep ==
  ASSUME StreamInv, SlotsExpire
  PROVE  StreamInv'
<1> USE DEF StreamInv
<1>1. UNCHANGED <<liveEvent, streamPc, reader>>
  BY DEF SlotsExpire
<1>2. StreamTypes'
  <2>1. slots' = 0 /\ slotsTtl' = FALSE
    BY DEF SlotsExpire
  <2>2. expiries' \in 0 .. MaxExpiries
    BY EventsAreNumbers DEF SlotsExpire, StreamTypes
  <2>3. slots' \in Int
    BY <2>1
  <2>5. slotsTtl' \in BOOLEAN
    BY <2>1
  <2>4. UNCHANGED <<liveEvent, streamPc, pipe, lastId, got, resumed>>
    BY <1>1 DEF reader
  <2> QED
    BY <2>2, <2>3, <2>4, <2>5 DEF StreamTypes
<1>3. \A d \in Listeners : Reading(d)' /\ Served(d)'
  BY <1>1, ListenerStays DEF reader
<1>4. Recorded' = 1 .. Cardinality(Recorded')
  BY <1>1, NothingIsForgotten
<1> QED
  BY <1>2, <1>3, <1>4, ExpiredCounter

\* The replay: what the client asks for is queued, or the LIMIT or the missing
\* Last-Event-ID explains that it is not.
LEMMA ReplayStep ==
  ASSUME StreamInv, NEW c \in Listeners, ReplayTo(c)
  PROVE  StreamInv'
<1> USE DEF StreamInv
<1>1. /\ streamPc[c] = "replay" /\ streamPc' = [streamPc EXCEPT ![c] = "subscribe"]
      /\ UNCHANGED <<liveEvent, counter, lastId, got>>
  BY DEF ReplayTo
<1> DEFINE ResumedAfter(from) ==
             {e \in ReplaySince(from) : from # 0 /\ MatchStreamFilters(c, e)}
           stored == Cardinality(Recorded)
<1>from. PICK from \in {0, lastId[c]} :
           \E replayed \in Ascending(ResumedAfter(from)) :
             /\ pipe' = [pipe EXCEPT ![c] = replayed]
             /\ resumed' = [resumed EXCEPT ![c] =
                              [from |-> from, upTo |-> stored, between |-> {}]]
  BY DEF ReplayTo
<1>2. PICK replayed \in Ascending(ResumedAfter(from)) :
        /\ pipe' = [pipe EXCEPT ![c] = replayed]
        /\ resumed' = [resumed EXCEPT ![c] =
                         [from |-> from, upTo |-> stored, between |-> {}]]
  BY <1>from
<1>3. /\ from \in {0} \cup LiveEvents /\ from \in got[c] \cup {0}
      /\ from \in Nat /\ stored \in Nat
  BY RecordedIsFinite, EventsAreNumbers DEF StreamTypes, Reading
<1>4. /\ ResumedAfter(from) \subseteq Wanted[c] /\ ResumedAfter(from) \subseteq LiveEvents
      /\ IsFiniteSet(ResumedAfter(from)) /\ Cardinality(ResumedAfter(from)) \in Nat
  <2>1. ResumedAfter(from) \subseteq Recorded
    BY DEF ReplaySince, After
  <2>2. IsFiniteSet(ResumedAfter(from))
    BY <2>1, RecordedIsFinite, FS_Subset
  <2>3. ResumedAfter(from) \subseteq Wanted[c]
    BY DEF MatchStreamFilters
  <2> QED
    BY <2>2, <2>3, EventsAreNumbers, FS_CardinalityType
<1>5. /\ replayed \in Seq(Wanted[c]) /\ replayed \in Seq(LiveEvents)
      /\ \A e \in ResumedAfter(from) : \E i \in DOMAIN replayed : replayed[i] = e
  <2>1. /\ replayed \in [1 .. Cardinality(ResumedAfter(from)) -> ResumedAfter(from)]
        /\ \A e \in ResumedAfter(from) : \E i \in DOMAIN replayed : replayed[i] = e
    BY DEF Ascending
  <2>2. replayed \in [1 .. Cardinality(ResumedAfter(from)) -> Wanted[c]]
        /\ replayed \in [1 .. Cardinality(ResumedAfter(from)) -> LiveEvents]
    BY <2>1, <1>4
  <2> QED
    BY <2>1, <2>2, <1>4, CountedIsSeq
<1>6. \A e \in Recorded : e \in Wanted[c] /\ from # 0 /\ from < e /\ e <= from + MaxReplay
                            => e \in ResumedAfter(from)
  <2>1. ASSUME NEW e \in Recorded, e \in Wanted[c], from # 0, from < e,
               e <= from + MaxReplay
        PROVE  e \in ResumedAfter(from)
    <3>1. e \in Nat /\ MaxReplay \in Nat
      BY EventsAreNumbers DEF Recorded
    <3>2. e > from /\ e - from <= MaxReplay
      BY <2>1, <3>1, <1>3
    <3> QED
      BY <2>1, <3>2 DEF ReplaySince, After, MatchStreamFilters
  <2> QED
    BY <2>1
<1> HIDE DEF ResumedAfter, stored
<1>7. StreamTypes'
  <2>1. pipe' \in [Listeners -> Seq(LiveEvents)]
    BY <1>2, <1>5 DEF StreamTypes
  <2>2. [from |-> from, upTo |-> stored, between |-> {}] \in Starts
    BY <1>3 DEF Starts
  <2>3. resumed' \in [Listeners -> Starts]
    BY <1>2, <2>2 DEF StreamTypes
  <2> QED
    BY <1>1, <2>1, <2>3 DEF StreamTypes, counter
<1>8. CounterInv'
  <2>1. Holding' = Holding /\ Open' = Open
    BY <1>1 DEF Holding, Open, StreamTypes
  <2> QED
    BY <1>1, <2>1, CounterStays DEF counter
<1>9. Recorded' = 1 .. Cardinality(Recorded')
  BY <1>1, NothingIsForgotten
<1>10. ASSUME NEW d \in Listeners
       PROVE  Reading(d)' /\ Served(d)'
  <2>1. CASE d = c
    <3>1. /\ streamPc'[c] = "subscribe" /\ pipe'[c] = replayed
          /\ resumed'[c].from = from /\ resumed'[c].upTo = stored
      BY <1>1, <1>2 DEF StreamTypes
    <3>2. Reading(c)'
      BY <3>1, <1>1, <1>3, <1>5 DEF Reading
    <3>3. ASSUME NEW e \in Wanted[c], e <= stored \/ liveEvent[e] = "published"
          PROVE  Explained(c, e)'
      <4>1. e \in LiveEvents /\ e \in Nat /\ MaxReplay \in Nat /\ e >= 1
        BY EventsAreNumbers DEF LiveEvents
      <4>2. e \in Recorded /\ e <= stored
        <5>1. Recorded = 1 .. stored
          BY DEF stored
        <5>2. liveEvent[e] = "published" => e \in Recorded
          BY <4>1 DEF Recorded
        <5> QED
          BY <5>1, <5>2, <4>1, <3>3, <1>3
      <4>3. CASE from = 0 \/ e <= from \/ e > from + MaxReplay
        BY <4>2, <4>3, <3>1 DEF Explained
      <4>4. CASE from # 0 /\ from < e /\ e <= from + MaxReplay
        <5>1. \E i \in DOMAIN replayed : replayed[i] = e
          BY <4>2, <4>4, <1>5, <1>6
        <5> QED
          BY <5>1, <3>1 DEF Explained, InPipe
      <4> QED
        BY <4>1, <4>3, <4>4, <1>3
    <3>4. Served(c)'
      BY <3>1, <3>3, <1>1 DEF Served
    <3> QED
      BY <3>2, <3>4, <2>1 DEF Reading, Served, Explained, InPipe
  <2>2. CASE d # c
    BY <2>2, <1>1, <1>2, ListenerStays DEF StreamTypes
  <2> QED
    BY <2>1, <2>2
<1> QED
  BY <1>7, <1>8, <1>9, <1>10

LEMMA ReadStep ==
  ASSUME StreamInv, NEW c \in Listeners, readSSE(c)
  PROVE  StreamInv'
<1> USE DEF StreamInv
<1> DEFINE e == Head(pipe[c])
<1>1. /\ pipe[c] # <<>>
      /\ lastId' = [lastId EXCEPT ![c] = e]
      /\ got' = [got EXCEPT ![c] = got[c] \cup {e}]
      /\ pipe' = [pipe EXCEPT ![c] = Tail(pipe[c])]
      /\ UNCHANGED <<liveEvent, counter, streamPc, resumed>>
  BY DEF readSSE
<1>2. /\ pipe[c] \in Seq(LiveEvents) /\ pipe[c] \in Seq(Wanted[c])
      /\ e \in Wanted[c] /\ e \in LiveEvents
      /\ Tail(pipe[c]) \in Seq(Wanted[c]) /\ Tail(pipe[c]) \in Seq(LiveEvents)
  BY <1>1, HeadTailProperties DEF StreamTypes, Reading
<1> HIDE DEF e
<1>3. StreamTypes'
  BY <1>1, <1>2 DEF StreamTypes, counter
<1>4. CounterInv'
  <2>1. Holding' = Holding /\ Open' = Open
    BY <1>1 DEF Holding, Open
  <2> QED
    BY <1>1, <2>1, CounterStays DEF counter
<1>5. Recorded' = 1 .. Cardinality(Recorded')
  BY <1>1, NothingIsForgotten
<1>6. ASSUME NEW d \in Listeners
      PROVE  Reading(d)' /\ Served(d)'
  <2>1. CASE d = c
    <3>1. /\ pipe'[c] = Tail(pipe[c]) /\ got'[c] = got[c] \cup {e} /\ lastId'[c] = e
          /\ resumed'[c] = resumed[c] /\ streamPc'[c] = streamPc[c]
      BY <1>1 DEF StreamTypes
    <3>2. Reading(c)'
      BY <3>1, <1>1, <1>2 DEF Reading
    <3>3. \A f : InPipe(c, f) => f = e \/ InPipe(c, f)'
      <4>1. ASSUME NEW i \in DOMAIN pipe[c]
            PROVE  pipe[c][i] = e \/ \E j \in DOMAIN pipe'[c] : pipe'[c][j] = pipe[c][i]
        <5>1. CASE i = 1
          BY <5>1, <1>1, <1>2 DEF e
        <5>2. CASE i # 1
          <6>1. /\ i - 1 \in 1 .. Len(Tail(pipe[c]))
                /\ Tail(pipe[c])[i - 1] = pipe[c][i]
            BY <5>2, <1>1, <1>2, HeadTailProperties, LenProperties
          <6>2. DOMAIN Tail(pipe[c]) = 1 .. Len(Tail(pipe[c]))
            BY <1>2, LenProperties
          <6> QED
            BY <6>1, <6>2, <3>1
        <5> QED
          BY <5>1, <5>2
      <4> QED
        BY <4>1 DEF InPipe
    <3>4. \A f : Explained(c, f) => Explained(c, f)'
      BY <3>1, <3>3 DEF Explained
    <3>5. Served(c)'
      BY <3>1, <3>4, <1>1 DEF Served
    <3> QED
      BY <3>2, <3>5, <2>1 DEF Reading, Served, Explained, InPipe
  <2>2. CASE d # c
    BY <2>2, <1>1, ListenerStays DEF StreamTypes
  <2> QED
    BY <2>1, <2>2
<1> QED
  BY <1>3, <1>4, <1>5, <1>6

LEMMA StreamInitInv == StreamInit => StreamInv
<1> SUFFICES ASSUME StreamInit
             PROVE  StreamInv
  OBVIOUS
<1>1. StreamTypes
  <2>1. NewStream \in Starts
    BY DEF NewStream, Starts
  <2>2. pipe \in [Listeners -> Seq(LiveEvents)]
    BY EmptySeq DEF StreamInit
  <2>3. resumed \in [Listeners -> Starts]
    BY <2>1 DEF StreamInit
  <2>4. slots \in Int
    BY DEF StreamInit
  <2>7. slotsTtl \in BOOLEAN
    BY DEF StreamInit
  <2>5. expiries \in 0 .. MaxExpiries
    BY EventsAreNumbers DEF StreamInit
  <2>6. /\ got \in [Listeners -> SUBSET LiveEvents]
        /\ lastId \in [Listeners -> {0} \cup LiveEvents]
    BY DEF StreamInit
  <2> QED
    BY <2>2, <2>3, <2>4, <2>5, <2>6, <2>7 DEF StreamInit, StreamTypes
<1>2. Recorded = 1 .. Cardinality(Recorded)
  <2>1. Recorded = {}
    BY DEF StreamInit, Recorded
  <2> QED
    BY <2>1, FS_EmptySet
<1>3. CounterInv
  <2>1. Holding = {} /\ Open = {}
    BY DEF StreamInit, Holding, Open
  <2> QED
    BY <2>1, FS_EmptySet, EventsAreNumbers, HoldersAreFinite
       DEF StreamInit, CounterInv, StreamsAreBounded
<1>4. ASSUME NEW c \in Listeners
      PROVE  Reading(c) /\ Served(c)
  <2>1. <<>> \in Seq(Wanted[c])
    BY EmptySeq
  <2> QED
    BY <2>1 DEF StreamInit, Reading, Served, NewStream
<1> QED
  BY <1>1, <1>2, <1>3, <1>4 DEF StreamInv

LEMMA StreamStepInv == StreamInv /\ [StreamNext]_streamVars => StreamInv'
<1> SUFFICES ASSUME StreamInv, [StreamNext]_streamVars
             PROVE  StreamInv'
  OBVIOUS
<1>1. CASE UNCHANGED streamVars
  <2>1. StreamTypes'
    BY <1>1 DEF StreamInv, StreamTypes, streamVars
  <2>2. Recorded' = 1 .. Cardinality(Recorded')
    BY <1>1, NothingIsForgotten DEF StreamInv, streamVars
  <2>3. CounterInv'
    BY <1>1, CounterStays DEF StreamInv, streamVars, Holding, Open
  <2>4. \A c \in Listeners : Reading(c)' /\ Served(c)'
    BY <1>1, ListenerStays DEF StreamInv, streamVars
  <2> QED
    BY <2>1, <2>2, <2>3, <2>4 DEF StreamInv
<1>2. CASE RecordEvent \/ SlotsExpire \/ \E e \in LiveEvents : publishLive(e) \/ PublishFails(e)
  BY <1>2, RecordStep, ExpireStep, PublishStep, UnpublishedStep
<1>3. ASSUME NEW c \in Listeners,
             \/ ReserveSlot(c) \/ RefuseStream(c) \/ ReplayTo(c) \/ SubscribeTo(c)
             \/ CloseStream(c) \/ readSSE(c)
      PROVE  StreamInv'
  BY <1>3, SlotStep, ReplayStep, SubscribeStep, CloseStep, ReadStep
<1> QED
  BY <1>1, <1>2, <1>3 DEF StreamNext

LEMMA StreamInductive == StreamSpec => []StreamInv
BY StreamInitInv, StreamStepInv, PTL DEF StreamSpec

\* The rows, the counter and the clients have their types: the counter of the
\* slots may fall below zero, by one for each client at most.
THEOREM StreamTypeCorrect == StreamSpec => []StreamTyped
<1>1. StreamInv => StreamTyped
  <2> SUFFICES ASSUME StreamInv
               PROVE  StreamTyped
    OBVIOUS
  <2>1. slots \in - Cardinality(Listeners) .. MaxSlots
    BY HoldersAreFinite, EventsAreNumbers DEF StreamInv, StreamTypes, CounterInv
  <2> QED
    BY <2>1 DEF StreamTyped, StreamInv, StreamTypes, Reading
<1> QED
  BY StreamInductive, <1>1, PTL

\* For any number of clients, requests, leaked slots and lost EXPIREs, no more
\* streams are open than a team may have, until the counter expires.
THEOREM OpenStreamsAreBounded == StreamSpec => []StreamsAreBounded
<1>1. StreamInv => StreamsAreBounded
  BY DEF StreamInv, CounterInv
<1> QED
  BY StreamInductive, <1>1, PTL

\* For any number of events and clients and any LIMIT: an open stream misses an
\* event only in the window between its replay and its subscription, or by the
\* LIMIT, or because nothing was replayed to it.
THEOREM MissedEventsAreExplained == StreamSpec => []MissedIsExplained
<1>1. StreamInv => MissedIsExplained
  BY DEF StreamInv, Served, Explained, InPipe, MissedIsExplained
<1> QED
  BY StreamInductive, <1>1, PTL

-----------------------------------------------------------------------------
(***************************************************************************)
(* THE PLAN OF A TEAM: the inductive invariant.                            *)
(***************************************************************************)

Gone == {"canceled", "incomplete_expired"}

\* What the last event of a change says.
LastOfChange(kind, status) ==
    \/ kind = "subscription" /\ status \in Paying \cup {"incomplete_expired"}
    \/ kind = "completed" /\ status \in {"active", "incomplete"}
    \/ kind = "async_payment_succeeded" /\ status = "active"
    \/ kind = "deleted" /\ status = "canceled"

EventsNumbered ==
    /\ newest <= events
    /\ \A e \in inFlight : e.n <= events
    /\ newest < events => \E e \in inFlight : e.n = events

\* Without an overlap only the last subscription is alive, and the last event
\* is about it.
OneSub ==
    /\ current = NoSub <=> events = 0
    /\ \A s \in Subs : s # current => sub[s] \in Ended
    /\ current = NoSub => \A s \in Subs : sub[s] = "none"
    /\ current # NoSub => sub[current] # "none"
    /\ \A e \in inFlight : e.n = events =>
         /\ e.sub = current /\ e.status = sub[current]
         /\ LastOfChange(e.kind, e.status)

\* An unpaid subscription says nothing yet: what counts is the event before
\* its two.
Unpaid == current # NoSub /\ sub[current] = "incomplete"

UnpaidInv ==
    Unpaid =>
        /\ events >= 2
        /\ newest < events - 2 => \E e \in inFlight : e.n = events - 2
        /\ \A e \in inFlight :
             /\ e.n = events - 1 => e.kind = "subscription" /\ e.status = "incomplete"
             /\ e.n = events - 2 =>
                  /\ e.kind \in {"subscription", "deleted"} /\ e.status \in Gone
                  /\ sub[e.sub] \in Gone

\* No event is behind a younger one that was handled.
InOrder == ~late /\ ~overlap /\ \A e \in inFlight : e.n >= newest

Right ==
    /\ plan.status = StripeSays
    /\ plan.status = "active" => plan.pro /\ plan.sub = current

BillingInv ==
    /\ BillingTyped
    /\ EventsNumbered
    /\ ~overlap => OneSub /\ UnpaidInv
    /\ InOrder =>
         /\ newest = events => Right
         /\ Unpaid /\ newest >= events - 2 => plan.status = StripeSays

LEMMA StatusToBilling ==
  /\ \A st \in Paying \cup Gone :
       subscriptionStatusToBilling(st) \in {"active", "past_due", "canceled", "paused"}
  /\ \A st \in Gone : subscriptionStatusToBilling(st) = "canceled"
  /\ subscriptionStatusToBilling("active") = "active"
  /\ subscriptionStatusToBilling("incomplete") = ""
  /\ \A st \in SubStatuses : subscriptionStatusToBilling(st)
                               \in {"active", "past_due", "canceled", "paused", ""}
<1>1. /\ subscriptionStatusToBilling("active") = "active"
      /\ subscriptionStatusToBilling("trialing") = "active"
      /\ subscriptionStatusToBilling("past_due") = "past_due"
      /\ subscriptionStatusToBilling("unpaid") = "past_due"
      /\ subscriptionStatusToBilling("canceled") = "canceled"
      /\ subscriptionStatusToBilling("incomplete_expired") = "canceled"
      /\ subscriptionStatusToBilling("paused") = "paused"
  BY DEF subscriptionStatusToBilling
<1>2. subscriptionStatusToBilling("incomplete") = ""
  BY DEF subscriptionStatusToBilling
<1>3. subscriptionStatusToBilling("none") = ""
  BY DEF subscriptionStatusToBilling
<1> QED
  BY <1>1, <1>2, <1>3 DEF Paying, Gone, SubStatuses

\* What the handlers make of the row.
LEMMA Handled ==
  ASSUME BillingTyped, NEW e \in inFlight, HandleStripeEvent(e)
  PROVE  /\ plan' \in [status : {"free", "active", "past_due", "canceled", "paused"},
                       sub : Subs \cup {NoSub}, pro : BOOLEAN]
         /\ e.kind \in {"subscription", "deleted"} /\ e.status \in Gone
              => plan'.status = "canceled"
         /\ e.kind \in {"subscription", "completed"} /\ e.status = "incomplete"
              => plan' = plan
         /\ LastOfChange(e.kind, e.status) /\ e.status # "incomplete" =>
              /\ plan'.status = subscriptionStatusToBilling(e.status)
              /\ plan'.status = "active" => plan'.pro /\ plan'.sub = e.sub
<1> DEFINE Plans == [status : {"free", "active", "past_due", "canceled", "paused"},
                     sub : Subs \cup {NoSub}, pro : BOOLEAN]
<1>1. /\ plan \in Plans /\ e.sub \in Subs /\ e.kind \in EventKinds
      /\ e.status \in SubStatuses
  BY DEF BillingTyped
<1>2. CASE e.kind = "completed" /\ e.status = "incomplete"
  BY <1>1, <1>2 DEF HandleStripeEvent, CheckoutPaid, LastOfChange
<1>3. CASE e.kind \in {"completed", "async_payment_succeeded"}
           /\ ~(e.kind = "completed" /\ e.status = "incomplete")
  <2>1. plan' = [status |-> "active", sub |-> e.sub, pro |-> TRUE]
    BY <1>3 DEF HandleStripeEvent, CheckoutPaid, MarkActive
  <2>2. /\ plan' \in Plans /\ plan'.status = "active" /\ plan'.pro /\ plan'.sub = e.sub
    BY <1>1, <2>1
  <2>3. LastOfChange(e.kind, e.status) /\ e.status # "incomplete" => e.status = "active"
    BY <1>3 DEF LastOfChange
  <2>4. e.kind \notin {"subscription", "deleted"}
    BY <1>3
  <2>5. ~(e.kind \in {"subscription", "completed"} /\ e.status = "incomplete")
    BY <1>3
  <2> QED
    BY <2>2, <2>3, <2>4, <2>5, StatusToBilling
<1>4. CASE e.kind = "subscription"
  <2> DEFINE st == subscriptionStatusToBilling(e.status)
  <2>1. SubscriptionChanged(e)
    BY <1>4 DEF HandleStripeEvent
  <2>2. st \in {"active", "past_due", "canceled", "paused", ""}
    BY <1>1, StatusToBilling
  <2>3. CASE st = ""
    <3>1. plan' = plan
      BY <2>1, <2>3 DEF SubscriptionChanged
    <3>2. e.status \notin Gone /\ e.status \notin Paying
      BY <2>3, StatusToBilling
    <3>3. e.status # "incomplete_expired"
      BY <3>2 DEF Gone
    <3> QED
      BY <1>1, <1>4, <3>1, <3>2, <3>3 DEF LastOfChange
  <2>4. CASE st # ""
    <3>1. plan' = [status |-> st, sub |-> e.sub, pro |-> plan.pro \/ st = "active"]
      BY <2>1, <2>4 DEF SubscriptionChanged, MarkStatus
    <3>2. (plan.pro \/ st = "active") \in BOOLEAN
      OBVIOUS
    <3>3. st \in {"free", "active", "past_due", "canceled", "paused"}
      BY <2>2, <2>4
    <3> HIDE DEF st
    <3>4. /\ plan' \in Plans /\ plan'.status = st /\ plan'.sub = e.sub
          /\ st = "active" => plan'.pro
      BY <1>1, <3>1, <3>2, <3>3
    <3>5. e.status \in Gone => st = "canceled"
      BY StatusToBilling DEF st
    <3>6. e.status # "incomplete"
      BY <2>4, StatusToBilling DEF st
    <3> QED
      BY <1>4, <3>4, <3>5, <3>6 DEF st
  <2> QED
    BY <2>3, <2>4
<1>5. CASE e.kind = "deleted"
  <2>1. plan' = [plan EXCEPT !.status = "canceled"]
    BY <1>5 DEF HandleStripeEvent, MarkCanceled
  <2>2. plan' \in Plans /\ plan'.status = "canceled"
    BY <1>1, <2>1
  <2>3. LastOfChange(e.kind, e.status) => e.status \in Gone
    BY <1>5 DEF LastOfChange, Gone
  <2> QED
    BY <1>5, <2>2, <2>3, StatusToBilling
<1>6. CASE e.kind = "payment_failed"
  <2>1. plan' = plan \/ plan' = [plan EXCEPT !.status = "past_due"]
    BY <1>6 DEF HandleStripeEvent, PaymentFailed
  <2>2. plan' \in Plans
    BY <1>1, <2>1
  <2> QED
    BY <1>6, <2>2 DEF LastOfChange
<1> QED
  BY <1>1, <1>2, <1>3, <1>4, <1>5, <1>6 DEF EventKinds

\* An event that is handled, and may come again.
LEMMA WebhookStep ==
  ASSUME BillingInv, NEW e \in inFlight, stripeWebhook(e)
  PROVE  BillingInv'
<1> USE DEF BillingInv
<1>1. /\ HandleStripeEvent(e) /\ inFlight' \in {inFlight, inFlight \ {e}}
      /\ newest' = IF e.n > newest THEN e.n ELSE newest
      /\ late' = (late \/ e.n < newest)
      /\ UNCHANGED <<checkouts, sub, events, current, overlap>>
  BY DEF stripeWebhook
<1>2. /\ e.n \in 1 .. MaxEvents /\ e.n \in Nat /\ newest \in Nat /\ events \in Nat
      /\ MaxEvents \in Nat /\ e.sub \in Subs /\ e.n <= events
      /\ \A f \in inFlight : f.n \in Nat
  BY BillingAssumption DEF BillingAssumption, BillingTyped, EventsNumbered
<1>3. /\ newest' \in 0 .. MaxEvents /\ newest' \in Nat /\ newest <= newest'
      /\ e.n <= newest' /\ newest' \in {newest, e.n}
  BY <1>1, <1>2 DEF BillingTyped
<1>4. BillingTyped'
  <2>1. late' \in BOOLEAN
    BY <1>1
  <2>2. inFlight' \subseteq inFlight
    BY <1>1
  <2> QED
    BY <1>1, <1>3, <2>1, <2>2, Handled DEF BillingTyped
<1>5. EventsNumbered'
  <2>1. newest' <= events'
    BY <1>1, <1>2, <1>3 DEF EventsNumbered
  <2>2. ASSUME newest' < events'
        PROVE  \E f \in inFlight' : f.n = events'
    <3>1. newest < events /\ e.n # events
      BY <1>1, <1>2, <1>3, <2>2
    <3>2. PICK f \in inFlight : f.n = events
      BY <3>1 DEF EventsNumbered
    <3> QED
      BY <1>1, <3>1, <3>2
  <2> QED
    BY <1>1, <2>1, <2>2 DEF EventsNumbered
<1>6. ASSUME ~overlap'
      PROVE  OneSub' /\ UnpaidInv'
  <2>1. OneSub /\ UnpaidInv /\ inFlight' \subseteq inFlight
    BY <1>1, <1>6
  <2>2. OneSub'
    BY <1>1, <2>1 DEF OneSub
  <2>3. ASSUME Unpaid, newest' < events - 2
        PROVE  \E f \in inFlight' : f.n = events - 2
    <3>1. newest < events - 2 /\ e.n # events - 2
      BY <1>2, <1>3, <2>3
    <3>2. PICK f \in inFlight : f.n = events - 2
      BY <2>1, <2>3, <3>1 DEF UnpaidInv
    <3> QED
      BY <1>1, <3>1, <3>2
  <2>4. UnpaidInv'
    BY <1>1, <2>1, <2>3 DEF UnpaidInv, Unpaid
  <2> QED
    BY <2>2, <2>4
<1>7. ASSUME InOrder'
      PROVE  /\ newest' = events' => Right'
             /\ Unpaid' /\ newest' >= events' - 2 => plan'.status = StripeSays'
  <2>1. /\ ~late /\ ~overlap /\ ~(e.n < newest) /\ newest' = e.n
        /\ \A f \in inFlight' : f.n >= e.n
    <3>1. ~late' /\ ~overlap' /\ \A f \in inFlight' : f.n >= newest'
      BY <1>7 DEF InOrder
    <3>2. ~late /\ ~overlap /\ ~(e.n < newest)
      BY <1>1, <3>1, Zenon
    <3>3. newest' = e.n
      BY <1>1, <1>2, <3>2
    <3> QED
      BY <3>1, <3>2, <3>3
  <2>2. /\ InOrder /\ OneSub /\ UnpaidInv /\ StripeSays' = StripeSays
        /\ Unpaid' <=> Unpaid
    <3>1. \A f \in inFlight : f.n >= newest
      BY <1>1, <1>2, <2>1
    <3> QED
      BY <1>1, <2>1, <3>1 DEF InOrder, StripeSays, Unpaid
  <2>3. ASSUME Unpaid, e.n >= events - 2
        PROVE  plan'.status = StripeSays
    <3>1. StripeSays = IF \E s \in Subs : sub[s] \in Gone THEN "canceled" ELSE "free"
      <4>1. subscriptionStatusToBilling(sub[current]) = ""
        BY <2>3, StatusToBilling DEF Unpaid
      <4>2. Gone = Ended \ {"none"}
        BY DEF Gone, Ended
      <4> QED
        BY <4>1, <4>2 DEF StripeSays
    <3>2. CASE e.n = events - 2
      <4>1. /\ e.kind \in {"subscription", "deleted"} /\ e.status \in Gone
            /\ sub[e.sub] \in Gone
        BY <2>2, <2>3, <3>2 DEF UnpaidInv
      <4>2. plan'.status = "canceled"
        BY <1>1, <4>1, Handled
      <4> QED
        BY <1>2, <3>1, <4>1, <4>2
    <3>3. CASE e.n # events - 2
      <4>1. newest >= events - 2
        <5>1. ASSUME newest < events - 2
              PROVE  FALSE
          <6>1. PICK f \in inFlight : f.n = events - 2
            BY <2>2, <2>3, <5>1 DEF UnpaidInv
          <6>2. f \in inFlight'
            BY <1>1, <3>3, <6>1
          <6> QED
            BY <1>2, <2>1, <2>3, <3>3, <6>1, <6>2
        <5> QED
          BY <1>2, <5>1
      <4>2. plan.status = StripeSays
        BY <2>2, <2>3, <4>1
      <4>3. e.n = events - 1 \/ e.n = events
        BY <1>2, <2>3, <3>3
      <4>4. e.kind \in {"subscription", "completed"} /\ e.status = "incomplete"
        <5>1. CASE e.n = events - 1
          BY <2>2, <2>3, <5>1 DEF UnpaidInv
        <5>2. CASE e.n = events
          BY <2>2, <2>3, <5>2 DEF OneSub, Unpaid, LastOfChange
        <5> QED
          BY <4>3, <5>1, <5>2
      <4>5. plan' = plan
        BY <1>1, <4>4, Handled
      <4> QED
        BY <4>2, <4>5
    <3> QED
      BY <3>2, <3>3
  <2>4. ASSUME e.n = events
        PROVE  Right'
    <3>1. e.sub = current /\ e.status = sub[current] /\ LastOfChange(e.kind, e.status)
      BY <2>2, <2>4 DEF OneSub
    <3>2. current # NoSub
      BY <1>2, <3>1, BillingAssumption DEF BillingAssumption
    <3>3. CASE e.status = "incomplete"
      <4>1. Unpaid /\ e.n >= events - 2
        BY <1>2, <2>4, <3>1, <3>2, <3>3 DEF Unpaid
      <4>2. plan'.status = StripeSays /\ StripeSays \in {"canceled", "free"}
        <5>1. subscriptionStatusToBilling(sub[current]) = ""
          BY <3>1, <3>3, StatusToBilling
        <5> QED
          BY <2>3, <4>1, <5>1 DEF StripeSays
      <4> QED
        BY <2>2, <4>2 DEF Right
    <3>4. CASE e.status # "incomplete"
      <4>1. /\ plan'.status = subscriptionStatusToBilling(sub[current])
            /\ plan'.status = "active" => plan'.pro /\ plan'.sub = current
        BY <1>1, <3>1, <3>4, Handled
      <4>2. e.status \in Paying \cup Gone
        BY <3>1, <3>4 DEF LastOfChange, Paying, Gone
      <4>3. subscriptionStatusToBilling(sub[current]) # ""
        BY <3>1, <4>2, StatusToBilling
      <4>4. StripeSays = subscriptionStatusToBilling(sub[current])
        BY <3>2, <4>3 DEF StripeSays
      <4> QED
        BY <1>1, <2>2, <4>1, <4>4 DEF Right
    <3> QED
      BY <3>3, <3>4
  <2> QED
    BY <1>1, <2>1, <2>2, <2>3, <2>4
<1> QED
  BY <1>4, <1>5, <1>6, <1>7

LEMMA CheckoutStep ==
  ASSUME BillingInv, createCheckout
  PROVE  BillingInv'
<1> USE DEF BillingInv
<1>1. UNCHANGED <<plan, sub, events, inFlight, newest, late, current, overlap>>
      /\ checkouts < Cardinality(Subs) /\ checkouts' = checkouts + 1
  BY DEF createCheckout, CreateCheckout
<1>2. Cardinality(Subs) \in Nat
  BY BillingAssumption, FS_CardinalityType DEF BillingAssumption
<1>3. checkouts' \in 0 .. Cardinality(Subs)
  BY <1>1, <1>2 DEF BillingTyped
<1>4. BillingTyped'
  BY <1>1, <1>3 DEF BillingTyped
<1>5. EventsNumbered' /\ (OneSub => OneSub') /\ (UnpaidInv => UnpaidInv')
  BY <1>1 DEF EventsNumbered, OneSub, UnpaidInv, Unpaid
<1>6. (InOrder' => InOrder) /\ (Right => Right') /\ (Unpaid' => Unpaid)
      /\ StripeSays' = StripeSays
  BY <1>1 DEF InOrder, Right, StripeSays, Unpaid
<1> QED
  BY <1>1, <1>4, <1>5, <1>6

\* The events of a change are numbered on from those before it.
LEMMA Emitted ==
  ASSUME BillingTyped, EventsNumbered,
         NEW s \in Subs, NEW status \in SubStatuses, NEW kinds \in Seq(EventKinds),
         Len(kinds) >= 1, Emit(s, status, kinds)
  PROVE  /\ events' = events + Len(kinds) /\ events' \in 0 .. MaxEvents
         /\ newest < events' /\ newest' = newest /\ late' = late /\ plan' = plan
         /\ sub' = [sub EXCEPT ![s] = status]
         /\ inFlight \subseteq inFlight'
         /\ inFlight' \subseteq [n : 1 .. MaxEvents, kind : EventKinds, sub : Subs,
                                 status : SubStatuses]
         /\ \A e \in inFlight' : e \in inFlight \/
              /\ e.n > events /\ e.n <= events' /\ e.sub = s /\ e.status = status
              /\ e.kind = kinds[e.n - events]
         /\ EventsNumbered'
<1>1. /\ events + Len(kinds) <= MaxEvents /\ events' = events + Len(kinds)
      /\ inFlight' = inFlight \cup
           {[n |-> events + i, kind |-> kinds[i], sub |-> s, status |-> status] :
              i \in DOMAIN kinds}
      /\ sub' = [sub EXCEPT ![s] = status]
      /\ newest' = newest /\ late' = late /\ plan' = plan
  BY DEF Emit
<1>2. /\ events \in Nat /\ newest \in Nat /\ Len(kinds) \in Nat /\ MaxEvents \in Nat
      /\ newest <= events /\ DOMAIN kinds = 1 .. Len(kinds)
      /\ \A e \in inFlight : e.n \in Nat /\ e.n <= events
      /\ \A i \in 1 .. Len(kinds) : kinds[i] \in EventKinds
  BY BillingAssumption DEF BillingAssumption, BillingTyped, EventsNumbered
<1>3. events' \in 0 .. MaxEvents /\ newest < events'
  BY <1>1, <1>2
<1> DEFINE new(i) == [n |-> events + i, kind |-> kinds[i], sub |-> s, status |-> status]
<1>4. ASSUME NEW i \in 1 .. Len(kinds)
      PROVE  /\ new(i) \in [n : 1 .. MaxEvents, kind : EventKinds, sub : Subs,
                            status : SubStatuses]
             /\ new(i).n > events /\ new(i).n <= events'
             /\ new(i).sub = s /\ new(i).status = status
             /\ new(i).kind = kinds[new(i).n - events]
  <2>1. events + i \in 1 .. MaxEvents /\ events + i > events /\ events + i <= events'
        /\ (events + i) - events = i
    BY <1>1, <1>2
  <2>2. new(i).n = events + i
    OBVIOUS
  <2> QED
    BY <1>2, <2>1, <2>2
<1>5. inFlight' = inFlight \cup {new(i) : i \in 1 .. Len(kinds)}
  BY <1>1, <1>2
<1> HIDE DEF new
<1>6. /\ inFlight \subseteq inFlight'
      /\ inFlight' \subseteq [n : 1 .. MaxEvents, kind : EventKinds, sub : Subs,
                              status : SubStatuses]
      /\ \A e \in inFlight' : e \in inFlight \/
           /\ e.n > events /\ e.n <= events' /\ e.sub = s /\ e.status = status
           /\ e.kind = kinds[e.n - events]
  BY <1>4, <1>5 DEF BillingTyped
<1>7. EventsNumbered'
  <2>1. \A e \in inFlight' : e.n <= events'
    BY <1>1, <1>2, <1>6
  <2>2. new(Len(kinds)) \in inFlight' /\ new(Len(kinds)).n = events'
    <3>1. Len(kinds) \in 1 .. Len(kinds)
      BY <1>2
    <3>2. new(Len(kinds)).n = events + Len(kinds)
      BY DEF new
    <3> QED
      BY <1>1, <1>5, <3>1, <3>2
  <2>3. newest' <= events'
    BY <1>1, <1>2, <1>3
  <2>4. \E e \in inFlight' : e.n = events'
    BY <2>2
  <2> QED
    BY <2>1, <2>3, <2>4 DEF EventsNumbered
<1> QED
  BY <1>1, <1>3, <1>6, <1>7

\* A living subscription changes.
LEMMA ChangeStep ==
  ASSUME BillingInv, NEW s \in Subs, NEW from, NEW status \in SubStatuses,
         NEW kinds \in Seq(EventKinds), Len(kinds) >= 1,
         from \cap Ended = {}, status # "incomplete", status # "none",
         LastOfChange(kinds[Len(kinds)], status),
         Change(s, from, status, kinds)
  PROVE  BillingInv'
<1>1. /\ sub[s] \in from /\ Emit(s, status, kinds)
      /\ UNCHANGED <<checkouts, current, overlap>>
  BY DEF Change
<1>2. BillingTyped /\ EventsNumbered
  BY DEF BillingInv
<1>3. /\ events' = events + Len(kinds) /\ events' \in 0 .. MaxEvents
      /\ newest < events' /\ newest' = newest /\ late' = late /\ plan' = plan
      /\ sub' = [sub EXCEPT ![s] = status]
      /\ inFlight \subseteq inFlight'
      /\ inFlight' \subseteq [n : 1 .. MaxEvents, kind : EventKinds, sub : Subs,
                              status : SubStatuses]
      /\ \A e \in inFlight' : e \in inFlight \/
           /\ e.n > events /\ e.n <= events' /\ e.sub = s /\ e.status = status
           /\ e.kind = kinds[e.n - events]
      /\ EventsNumbered'
  BY <1>1, <1>2, Emitted
<1>4. /\ events \in Nat /\ newest \in Nat /\ Len(kinds) \in Nat
      /\ \A e \in inFlight : e.n \in Nat /\ e.n <= events
      /\ events < events'
  BY <1>2, <1>3, BillingAssumption DEF BillingAssumption, BillingTyped, EventsNumbered
<1>5. sub \in [Subs -> SubStatuses]
      /\ sub' \in [Subs -> SubStatuses] /\ sub'[s] = status
      /\ \A r \in Subs : r # s => sub'[r] = sub[r]
  BY <1>2, <1>3 DEF BillingTyped
<1>6. BillingTyped'
  BY <1>1, <1>2, <1>3, <1>5 DEF BillingTyped
<1>7. ASSUME ~overlap'
      PROVE  OneSub' /\ ~Unpaid'
  <2>1. ~overlap /\ OneSub /\ current' = current
    BY <1>1, <1>7 DEF BillingInv
  <2>2. sub[s] \notin Ended
    BY <1>1
  <2>3. s = current
    BY <2>1, <2>2 DEF OneSub
  <2>4. current # NoSub
    BY <2>3, BillingAssumption DEF BillingAssumption
  <2>5. events' # 0
    BY <1>3, <1>4
  <2>6. \A r \in Subs : r # current => sub'[r] \in Ended
    BY <1>5, <2>1, <2>3 DEF OneSub
  <2>7. ASSUME NEW e \in inFlight', e.n = events'
        PROVE  e.sub = current /\ e.status = sub'[current] /\ LastOfChange(e.kind, e.status)
    <3>1. e \notin inFlight
      BY <1>4, <2>7
    <3>2. e.sub = s /\ e.status = status /\ e.kind = kinds[e.n - events]
      BY <1>3, <3>1
    <3>3. e.n - events = Len(kinds)
      BY <1>3, <1>4, <2>7
    <3> QED
      BY <1>5, <2>3, <3>2, <3>3
  <2>8. OneSub'
    BY <1>5, <2>1, <2>3, <2>4, <2>5, <2>6, <2>7 DEF OneSub
  <2> QED
    BY <1>5, <2>1, <2>3, <2>8 DEF Unpaid
<1>8. newest' # events'
  BY <1>3, <1>4
<1>9. UnpaidInv' \/ Unpaid'
  BY DEF UnpaidInv
<1>10. InOrder' => ~overlap'
  BY DEF InOrder
<1> QED
  BY <1>3, <1>6, <1>7, <1>8, <1>9, <1>10 DEF BillingInv

\* The subscription a checkout makes.
LEMMA SubscriptionStep ==
  ASSUME BillingInv, NEW s \in Subs, NEW status \in {"active", "incomplete"},
         Subscribe(s, status)
  PROVE  BillingInv'
<1> DEFINE kinds == <<"subscription", "completed">>
<1>1. /\ checkouts > 0 /\ checkouts' = checkouts - 1 /\ sub[s] = "none"
      /\ Emit(s, status, kinds) /\ current' = s
      /\ overlap' = (overlap \/ \E r \in Subs : sub[r] \notin Ended)
  BY DEF Subscribe
<1>2. BillingTyped /\ EventsNumbered
  BY DEF BillingInv
<1>kinds. /\ kinds \in Seq(EventKinds) /\ Len(kinds) = 2
          /\ kinds[1] = "subscription" /\ kinds[2] = "completed"
  BY DEF EventKinds
<1> HIDE DEF kinds
<1>st. status \in SubStatuses
  BY DEF SubStatuses
<1>len. Len(kinds) >= 1
  BY <1>kinds
<1>3. /\ events' = events + Len(kinds) /\ events' \in 0 .. MaxEvents
      /\ newest < events' /\ newest' = newest /\ late' = late /\ plan' = plan
      /\ sub' = [sub EXCEPT ![s] = status]
      /\ inFlight \subseteq inFlight'
      /\ inFlight' \subseteq [n : 1 .. MaxEvents, kind : EventKinds, sub : Subs,
                              status : SubStatuses]
      /\ \A e \in inFlight' : e \in inFlight \/
           /\ e.n > events /\ e.n <= events' /\ e.sub = s /\ e.status = status
           /\ e.kind = kinds[e.n - events]
      /\ EventsNumbered'
  BY <1>1, <1>2, <1>kinds, <1>st, <1>len, Emitted
<1>4. /\ events \in Nat /\ newest \in Nat /\ newest <= events
      /\ \A e \in inFlight : e.n \in Nat /\ e.n <= events
      /\ \A e \in inFlight' : e.n \in Nat
      /\ events' = events + 2
  BY <1>2, <1>3, <1>kinds, BillingAssumption DEF BillingAssumption, BillingTyped, EventsNumbered
<1>5. sub \in [Subs -> SubStatuses]
      /\ sub' \in [Subs -> SubStatuses] /\ sub'[s] = status
      /\ \A r \in Subs : r # s => sub'[r] = sub[r]
  BY <1>2, <1>3, <1>st DEF BillingTyped
<1>6. BillingTyped'
  <2>1. Cardinality(Subs) \in Nat
    BY BillingAssumption, FS_CardinalityType DEF BillingAssumption
  <2>2. checkouts' \in 0 .. Cardinality(Subs)
    BY <1>1, <1>2, <2>1 DEF BillingTyped
  <2>3. overlap' \in BOOLEAN /\ current' \in Subs \cup {NoSub} /\ late' \in BOOLEAN
        /\ newest' \in 0 .. MaxEvents
    BY <1>1, <1>2, <1>3 DEF BillingTyped
  <2> QED
    BY <1>2, <1>3, <1>5, <2>2, <2>3 DEF BillingTyped
<1>7. s # NoSub
  BY BillingAssumption DEF BillingAssumption
<1>8. ASSUME ~overlap'
      PROVE  ~overlap /\ OneSub /\ \A r \in Subs : sub[r] \in Ended
  BY <1>1, <1>8 DEF BillingInv
<1>9. ASSUME ~overlap'
      PROVE  OneSub'
  <2>1. \A r \in Subs : r # s => sub'[r] \in Ended
    BY <1>5, <1>8, <1>9
  <2>2. ASSUME NEW e \in inFlight', e.n = events'
        PROVE  e.sub = s /\ e.status = sub'[s] /\ LastOfChange(e.kind, e.status)
    <3>1. e \notin inFlight
      BY <1>4, <2>2
    <3>2. e.n - events = 2
      BY <1>4, <2>2
    <3>3. e.sub = s /\ e.status = status /\ e.kind = "completed"
      BY <1>3, <1>kinds, <3>1, <3>2
    <3> QED
      BY <1>5, <3>3 DEF LastOfChange
  <2>3. events' # 0
    BY <1>4
  <2>4. sub'[s] # "none"
    BY <1>5
  <2> QED
    BY <1>1, <1>7, <2>1, <2>2, <2>3, <2>4 DEF OneSub
<1>10. ASSUME ~overlap', current # NoSub
       PROVE  /\ current \in Subs /\ current # s /\ sub[current] \in Gone
              /\ sub'[current] \in Gone
  <2>1. current \in Subs
    BY <1>2, <1>10 DEF BillingTyped
  <2>2. sub[current] \in Ended /\ sub[current] # "none"
    BY <1>8, <1>10, <2>1 DEF OneSub
  <2>3. sub[current] \in Gone
    BY <2>2 DEF Ended, Gone
  <2> QED
    BY <1>1, <1>5, <2>1, <2>2, <2>3
<1>11. ASSUME ~overlap'
       PROVE  UnpaidInv'
  <2>1. events' >= 2 /\ events' - 2 = events /\ events' - 1 = events + 1
    BY <1>4
  <2>2. newest' < events => \E e \in inFlight' : e.n = events
    BY <1>2, <1>3 DEF EventsNumbered
  <2>3. ASSUME NEW e \in inFlight', e.n = events + 1, Unpaid'
        PROVE  e.kind = "subscription" /\ e.status = "incomplete"
    <3>1. e \notin inFlight
      BY <1>4, <2>3
    <3>2. e.n - events = 1
      BY <1>4, <2>3
    <3>3. status = "incomplete"
      BY <1>1, <1>5, <2>3 DEF Unpaid
    <3> QED
      BY <1>3, <1>kinds, <3>1, <3>2, <3>3
  <2>4. ASSUME NEW e \in inFlight', e.n = events
        PROVE  /\ e.kind \in {"subscription", "deleted"} /\ e.status \in Gone
               /\ sub'[e.sub] \in Gone
    <3>1. e \in inFlight
      BY <1>3, <1>4, <2>4
    <3>2. OneSub
      BY <1>8, <1>11
    <3>3. e.sub = current /\ e.status = sub[current] /\ LastOfChange(e.kind, e.status)
      BY <2>4, <3>1, <3>2 DEF OneSub
    <3>4. e.sub \in Subs
      BY <1>2, <3>1 DEF BillingTyped
    <3>5. current # NoSub
      BY <3>3, <3>4, BillingAssumption DEF BillingAssumption
    <3>6. e.status \in Gone /\ sub'[e.sub] \in Gone
      BY <1>10, <1>11, <3>3, <3>5
    <3> QED
      BY <3>3, <3>6 DEF LastOfChange, Gone
  <2> QED
    BY <2>1, <2>2, <2>3, <2>4 DEF UnpaidInv
<1>12. ASSUME InOrder', Unpaid', newest' >= events' - 2
       PROVE  plan'.status = StripeSays'
  <2>1. ~overlap' /\ ~late /\ \A e \in inFlight : e.n >= newest
    BY <1>3, <1>12 DEF InOrder
  <2>2. newest = events
    BY <1>3, <1>4, <1>12
  <2>3. InOrder /\ OneSub
    BY <1>8, <2>1 DEF InOrder
  <2>4. plan.status = StripeSays
    BY <2>2, <2>3 DEF BillingInv, Right
  <2>5. subscriptionStatusToBilling(sub'[current']) = ""
    BY <1>12, StatusToBilling DEF Unpaid
  <2>6. StripeSays' = IF \E r \in Subs : sub'[r] \in Gone THEN "canceled" ELSE "free"
    <3>1. Gone = Ended \ {"none"}
      BY DEF Gone, Ended
    <3> QED
      BY <2>5, <3>1 DEF StripeSays
  <2>7. CASE current = NoSub
    <3>1. StripeSays = "free"
      BY <2>3, <2>7 DEF StripeSays, OneSub
    <3>2. status = "incomplete"
      BY <1>1, <1>5, <1>12 DEF Unpaid
    <3>3. \A r \in Subs : sub'[r] \notin Gone
      BY <1>5, <2>3, <2>7, <3>2 DEF OneSub, Gone
    <3> QED
      BY <1>3, <2>4, <2>6, <3>1, <3>3
  <2>8. CASE current # NoSub
    <3>1. current \in Subs /\ sub[current] \in Gone /\ sub'[current] \in Gone
      BY <1>10, <2>1, <2>8
    <3>2. subscriptionStatusToBilling(sub[current]) = "canceled"
      BY <3>1, StatusToBilling
    <3>3. StripeSays = "canceled"
      BY <2>8, <3>2 DEF StripeSays
    <3> QED
      BY <1>3, <2>4, <2>6, <3>1, <3>3
  <2> QED
    BY <2>7, <2>8
<1>13. newest' # events'
  BY <1>3, <1>4
<1> QED
  BY <1>3, <1>6, <1>9, <1>11, <1>12, <1>13 DEF BillingInv

\* Each change ends with an event that says what the subscription became.
LEMMA StripeStep ==
  ASSUME BillingInv, NEW s \in Subs, StripeChanges(s)
  PROVE  BillingInv'
<1>0. /\ <<"subscription">> \in Seq(EventKinds) /\ <<"deleted">> \in Seq(EventKinds)
      /\ <<"subscription", "async_payment_succeeded">> \in Seq(EventKinds)
      /\ <<"payment_failed", "subscription">> \in Seq(EventKinds)
  BY DEF EventKinds
<1>1. CASE Change(s, {"incomplete"}, "active",
                  <<"subscription", "async_payment_succeeded">>)
  <2> DEFINE kinds == <<"subscription", "async_payment_succeeded">>
  <2>1. Len(kinds) >= 1 /\ kinds[Len(kinds)] = "async_payment_succeeded"
    OBVIOUS
  <2>2. {"incomplete"} \cap Ended = {} /\ "active" \in SubStatuses
    BY DEF Ended, SubStatuses
  <2>3. LastOfChange("async_payment_succeeded", "active")
    BY DEF LastOfChange
  <2>4. kinds \in Seq(EventKinds) /\ Change(s, {"incomplete"}, "active", kinds)
    BY <1>0, <1>1
  <2> HIDE DEF kinds
  <2> QED
    BY <2>1, <2>2, <2>3, <2>4, ChangeStep
<1>2. CASE Change(s, {"incomplete"}, "incomplete_expired", <<"subscription">>)
  <2> DEFINE kinds == <<"subscription">>
  <2>1. Len(kinds) >= 1 /\ kinds[Len(kinds)] = "subscription"
    OBVIOUS
  <2>2. {"incomplete"} \cap Ended = {} /\ "incomplete_expired" \in SubStatuses
    BY DEF Ended, SubStatuses
  <2>3. LastOfChange("subscription", "incomplete_expired")
    BY DEF LastOfChange
  <2>4. kinds \in Seq(EventKinds) /\ Change(s, {"incomplete"}, "incomplete_expired", kinds)
    BY <1>0, <1>2
  <2> HIDE DEF kinds
  <2> QED
    BY <2>1, <2>2, <2>3, <2>4, ChangeStep
<1>3. CASE Change(s, {"active"}, "past_due", <<"payment_failed", "subscription">>)
  <2> DEFINE kinds == <<"payment_failed", "subscription">>
  <2>1. Len(kinds) >= 1 /\ kinds[Len(kinds)] = "subscription"
    OBVIOUS
  <2>2. {"active"} \cap Ended = {} /\ "past_due" \in SubStatuses
    BY DEF Ended, SubStatuses
  <2>3. LastOfChange("subscription", "past_due")
    BY DEF LastOfChange, Paying
  <2>4. kinds \in Seq(EventKinds) /\ Change(s, {"active"}, "past_due", kinds)
    BY <1>0, <1>3
  <2> HIDE DEF kinds
  <2> QED
    BY <2>1, <2>2, <2>3, <2>4, ChangeStep
<1>4. CASE Change(s, SubStatuses \ Ended, "canceled", <<"deleted">>)
  <2> DEFINE kinds == <<"deleted">>
  <2>1. Len(kinds) >= 1 /\ kinds[Len(kinds)] = "deleted"
    OBVIOUS
  <2>2. (SubStatuses \ Ended) \cap Ended = {} /\ "canceled" \in SubStatuses
    BY DEF SubStatuses
  <2>3. LastOfChange("deleted", "canceled")
    BY DEF LastOfChange
  <2>4. kinds \in Seq(EventKinds) /\ Change(s, SubStatuses \ Ended, "canceled", kinds)
    BY <1>0, <1>4
  <2> HIDE DEF kinds
  <2> QED
    BY <2>1, <2>2, <2>3, <2>4, ChangeStep
<1>5. ASSUME NEW status \in Paying, Change(s, Paying, status, <<"subscription">>)
      PROVE  BillingInv'
  <2> DEFINE kinds == <<"subscription">>
  <2>1. Len(kinds) >= 1 /\ kinds[Len(kinds)] = "subscription"
    OBVIOUS
  <2>2. Paying \cap Ended = {} /\ status \in SubStatuses
        /\ status # "incomplete" /\ status # "none"
    BY DEF Ended, SubStatuses, Paying
  <2>3. LastOfChange("subscription", status)
    BY DEF LastOfChange
  <2>4. kinds \in Seq(EventKinds) /\ Change(s, Paying, status, kinds)
    BY <1>0, <1>5
  <2> HIDE DEF kinds
  <2> QED
    BY <2>1, <2>2, <2>3, <2>4, ChangeStep
<1> QED
  BY <1>1, <1>2, <1>3, <1>4, <1>5 DEF StripeChanges

LEMMA BillingInvStart == BillingInit => BillingInv
<1> SUFFICES ASSUME BillingInit PROVE BillingInv
  OBVIOUS
<1> USE DEF BillingInit
<1>1. Cardinality(Subs) \in Nat /\ MaxEvents \in Nat
  BY BillingAssumption, FS_CardinalityType DEF BillingAssumption
<1>2. BillingTyped
  <2>1. plan \in [status : {"free", "active", "past_due", "canceled", "paused"},
                 sub : Subs \cup {NoSub}, pro : BOOLEAN]
    OBVIOUS
  <2>2. sub \in [Subs -> SubStatuses]
    BY DEF SubStatuses
  <2>3. 0 \in 0 .. Cardinality(Subs) /\ 0 \in 0 .. MaxEvents
    BY <1>1
  <2> QED
    BY <2>1, <2>2, <2>3 DEF BillingTyped
<1>3. EventsNumbered /\ OneSub /\ UnpaidInv /\ ~Unpaid
  BY <1>1 DEF EventsNumbered, OneSub, UnpaidInv, Unpaid, Ended
<1>4. StripeSays = "free"
  BY DEF StripeSays
<1>5. Right
  BY <1>4 DEF Right
<1> QED
  BY <1>2, <1>3, <1>5 DEF BillingInv

LEMMA BillingInvStep == BillingInv /\ [BillingNext]_billingVars => BillingInv'
<1> SUFFICES ASSUME BillingInv, [BillingNext]_billingVars PROVE BillingInv'
  OBVIOUS
<1>1. CASE createCheckout
  BY <1>1, CheckoutStep
<1>2. ASSUME NEW s \in Subs, StripeChanges(s)
      PROVE  BillingInv'
  BY <1>2, StripeStep
<1>3. ASSUME NEW s \in Subs, NEW status \in {"active", "incomplete"},
             Subscribe(s, status)
      PROVE  BillingInv'
  BY <1>3, SubscriptionStep
<1>4. ASSUME NEW e \in inFlight, stripeWebhook(e)
      PROVE  BillingInv'
  BY <1>4, WebhookStep
<1>5. CASE UNCHANGED billingVars
  BY <1>5 DEF billingVars, BillingInv, BillingTyped, EventsNumbered, OneSub, UnpaidInv,
              Unpaid, InOrder, Right, StripeSays
<1> QED
  BY <1>1, <1>2, <1>3, <1>4, <1>5 DEF BillingNext

LEMMA BillingInvariant == BillingSpec => []BillingInv
  BY BillingInvStart, BillingInvStep, PTL DEF BillingSpec

(* The row of a team's plan, its checkouts and the events of Stripe stay of
   their types in every billing history (billing/service.go:180-377).       *)
THEOREM BillingTypeCorrect == BillingSpec => []BillingTyped
<1>1. BillingInv => BillingTyped
  BY DEF BillingInv
<1> QED
  BY <1>1, BillingInvariant, PTL

(* A team's row says what Stripe says once every event was handled, each after
   its elders: with any number of subscriptions made one after the other, and
   events that come twice (billing/service.go:273-377).                     *)
THEOREM PlanFollowsStripe == BillingSpec => []BillingFollowsStripe
<1>1. ASSUME BillingInv
      PROVE  BillingFollowsStripe
  <2>1. ASSUME inFlight = {}, ~late, ~overlap
        PROVE  Right
    <3>1. ~(newest < events) /\ newest <= events
      BY <1>1, <2>1 DEF BillingInv, EventsNumbered
    <3>2. newest \in Nat /\ events \in Nat
      BY <1>1, BillingAssumption DEF BillingInv, BillingTyped, BillingAssumption
    <3>3. newest = events
      BY <3>1, <3>2
    <3>4. InOrder
      BY <2>1 DEF InOrder
    <3> QED
      BY <1>1, <3>3, <3>4 DEF BillingInv
  <2> QED
    BY <2>1 DEF BillingFollowsStripe, Right
<1> QED
  BY <1>1, BillingInvariant, PTL

-----------------------------------------------------------------------------
(***************************************************************************)
(* THE WORKSPACE.  A step of one part changes no variable of the others.   *)
(***************************************************************************)

LEMMA OfConsent == WorkspaceSpec => Spec
<1>1. WorkspaceInit => Init
  BY DEF WorkspaceInit
<1>2. [WorkspaceNext]_workspaceVars => [Next]_vars
  BY DEF WorkspaceNext, workspaceVars, Only
<1> QED
  BY <1>1, <1>2, PTL DEF WorkspaceSpec, Spec

LEMMA OfMembers == WorkspaceSpec => MembersSpec
<1>1. WorkspaceInit => MembersInit
  BY DEF WorkspaceInit
<1>2. [WorkspaceNext]_workspaceVars => [MembersNext]_teamVars
  BY DEF WorkspaceNext, workspaceVars, Only
<1> QED
  BY <1>1, <1>2, PTL DEF WorkspaceSpec, MembersSpec

LEMMA OfDomains == WorkspaceSpec => DomainsSpec
<1>1. WorkspaceInit => DomainsInit
  BY DEF WorkspaceInit
<1>2. [WorkspaceNext]_workspaceVars => [DomainsNext]_domainVars
  BY DEF WorkspaceNext, workspaceVars, Only
<1> QED
  BY <1>1, <1>2, PTL DEF WorkspaceSpec, DomainsSpec

LEMMA OfInbound == WorkspaceSpec => InboundSpec
<1>1. WorkspaceInit => InboundInit
  BY DEF WorkspaceInit
<1>2. [WorkspaceNext]_workspaceVars => [InboundNext]_inboundVars
  BY DEF WorkspaceNext, workspaceVars, Only
<1> QED
  BY <1>1, <1>2, PTL DEF WorkspaceSpec, InboundSpec

LEMMA OfBilling == WorkspaceSpec => BillingSpec
<1>1. WorkspaceInit => BillingInit
  BY DEF WorkspaceInit
<1>2. [WorkspaceNext]_workspaceVars => [BillingNext]_billingVars
  BY DEF WorkspaceNext, workspaceVars, Only
<1> QED
  BY <1>1, <1>2, PTL DEF WorkspaceSpec, BillingSpec

LEMMA OfGrants == WorkspaceSpec => GrantsSpec
<1>1. WorkspaceInit => GrantsInit
  BY DEF WorkspaceInit
<1>2. [WorkspaceNext]_workspaceVars => [GrantsNext]_grantVars
  BY DEF WorkspaceNext, workspaceVars, Only
<1> QED
  BY <1>1, <1>2, PTL DEF WorkspaceSpec, GrantsSpec

LEMMA OfTopics == WorkspaceSpec => TopicsSpec
<1>1. WorkspaceInit => TopicsInit
  BY DEF WorkspaceInit
<1>2. [WorkspaceNext]_workspaceVars => [TopicsNext]_topicVars
  BY DEF WorkspaceNext, workspaceVars, Only
<1> QED
  BY <1>1, <1>2, PTL DEF WorkspaceSpec, TopicsSpec

LEMMA OfStream == WorkspaceSpec => StreamSpec
<1>1. WorkspaceInit => StreamInit
  BY DEF WorkspaceInit
<1>2. [WorkspaceNext]_workspaceVars => [StreamNext]_streamVars
  BY DEF WorkspaceNext, workspaceVars, Only
<1> QED
  BY <1>1, <1>2, PTL DEF WorkspaceSpec, StreamSpec

(* In the run that explores the parts side by side every part keeps its types,
   for any number of teams, people, requests and events.                    *)
THEOREM WorkspaceTypeCorrect == WorkspaceSpec => []WorkspaceTyped
<1>1. WorkspaceSpec => [](part \in Parts)
  <2>1. WorkspaceInit => part \in Parts
    BY DEF WorkspaceInit
  <2>2. part \in Parts /\ [WorkspaceNext]_workspaceVars => (part \in Parts)'
    BY DEF WorkspaceNext, workspaceVars, Only
  <2> QED
    BY <2>1, <2>2, PTL DEF WorkspaceSpec
<1>2. /\ part \in Parts
      /\ TypeOK /\ MembersTyped /\ DomainsTyped /\ InboundTyped
      /\ BillingTyped /\ GrantsTyped /\ TopicsTyped /\ StreamTyped
      => WorkspaceTyped
  BY DEF WorkspaceTyped, Parts
<1> QED
  BY <1>1, <1>2, OfConsent, TypeCorrect, OfMembers, MembersTypeCorrect, OfDomains,
     DomainsTypeCorrect, OfInbound, InboundTypeCorrect, OfBilling, BillingTypeCorrect,
     OfGrants, GrantsTypeCorrect, OfTopics, TopicsTypeCorrect, OfStream,
     StreamTypeCorrect, PTL

(* The parts keep their promises side by side: consent, roles, domains,
   mail, plans, grants, topics and streams, each about rows that no handler of
   another part writes.                                                     *)
THEOREM WorkspaceIsSafe ==
  WorkspaceSpec =>
    /\ []UnsubscribeHolds /\ AcceptedMeansWilling /\ HardReasonsStay
    /\ MembershipIsGranted /\ ImplementsClaimedName /\ []TokensFollowGrants
    /\ []MailArrivesOnce /\ []BillingFollowsStripe /\ []TopicChoiceIsKept
    /\ []StreamsAreBounded /\ []MissedIsExplained
BY OfConsent, WishesHold, AcceptedAreWilling, HardReasonsRemain, OfMembers,
   MembersAreGranted, OfDomains, RowsKeepPromise, OfInbound, MailIsStoredOnce,
   OfBilling, PlanFollowsStripe, OfGrants, TokensStayWithGrants, OfTopics, NoIsANo,
   OfStream, OpenStreamsAreBounded, MissedEventsAreExplained

=============================================================================

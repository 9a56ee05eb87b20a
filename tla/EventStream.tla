---------------------------- MODULE EventStream ----------------------------
(***************************************************************************)
(* The live event stream of a team (internal/httpapi/events_stream.go,     *)
(* internal/events/live.go and replay.go): an event is stored in Postgres  *)
(* and then published to Redis, by concurrent processes; a client holds    *)
(* one of the team's slots, is replayed what was stored after its          *)
(* Last-Event-ID, and only then subscribed.                                *)
(*                                                                         *)
(* Events are numbered in the order of (created_at, id).  The hour a       *)
(* replay reaches back does not pass, the connection to Redis holds, and   *)
(* the subscription's buffer of 100 messages does not overflow.            *)
(***************************************************************************)
EXTENDS Integers, Sequences, FiniteSets

CONSTANTS
    Listeners,      \* clients of the stream
    Wanted,         \* the events each of them filters for
    MaxLiveEvents,  \* bound: events recorded
    MaxReplay,      \* LIMIT of the replay (500 in the code)
    MaxStreams,     \* maxEventStreamsPerTeam (10 in the code)
    MaxExpiries,    \* bound: expiries of the slot counter (24 h each)
    MaxSlots        \* bound: slots taken, leaked ones included

LiveEvents == 1 .. MaxLiveEvents

ASSUME StreamAssumption ==
    /\ IsFiniteSet(Listeners)
    /\ {MaxLiveEvents, MaxReplay, MaxStreams, MaxExpiries, MaxSlots} \subseteq Nat
    /\ Wanted \in [Listeners -> SUBSET LiveEvents]

VARIABLES
    liveEvent,  \* "none", "stored", "published", or "unpublished" for good
    slots,      \* the Redis counter raisin:events:streams:<team>
    slotsTtl,   \* whether it has an expiry
    expiries,   \* times it expired
    streamPc,   \* what the handler of a client's request does next
    pipe,       \* written or queued for the client, and not read yet
    lastId,     \* the id the client would send as Last-Event-ID, 0 for none
    got,        \* for the property only: what the client ever read
    resumed     \* for the property only: where its stream began

streamVars == <<liveEvent, slots, slotsTtl, expiries, streamPc, pipe, lastId, got, resumed>>
counter == <<slots, slotsTtl, expiries>>
reader == <<pipe, lastId, got, resumed>>

Open == {c \in Listeners : streamPc[c] \in {"replay", "subscribe", "live"}}
Recorded == {e \in LiveEvents : liveEvent[e] # "none"}
NewStream == [from |-> 0, upTo |-> 0, between |-> {}]

StreamTyped ==
    /\ liveEvent \in [LiveEvents -> {"none", "stored", "published", "unpublished"}]
    /\ Recorded = 1 .. Cardinality(Recorded)
    /\ slots \in - Cardinality(Listeners) .. MaxSlots
    /\ slotsTtl \in BOOLEAN
    /\ expiries \in 0 .. MaxExpiries
    /\ streamPc \in [Listeners -> {"away", "refused", "replay", "subscribe", "live"}]
    /\ \A c \in Listeners :
         /\ pipe[c] \in Seq(Wanted[c])
         /\ pipe[c] # <<>> => streamPc[c] \in {"subscribe", "live"}
         /\ got[c] \subseteq Wanted[c]
         /\ lastId[c] \in got[c] \cup {0}
         /\ resumed[c].from \in got[c] \cup {0}

StreamInit ==
    /\ liveEvent = [e \in LiveEvents |-> "none"]
    /\ slots = 0
    /\ slotsTtl = FALSE
    /\ expiries = 0
    /\ streamPc = [c \in Listeners |-> "away"]
    /\ pipe = [c \in Listeners |-> <<>>]
    /\ lastId = [c \in Listeners |-> 0]
    /\ got = [c \in Listeners |-> {}]
    /\ resumed = [c \in Listeners |-> NewStream]

-----------------------------------------------------------------------------
(* The processes that record events.                                       *)

RecordEvent ==
    /\ Cardinality(Recorded) < MaxLiveEvents
    /\ liveEvent' = [liveEvent EXCEPT ![Cardinality(Recorded) + 1] = "stored"]
    /\ UNCHANGED <<counter, streamPc, reader>>

MatchStreamFilters(c, e) == e \in Wanted[c]

\* Redis hands a message to those subscribed at the moment, and forgets it.
publishLive(e) ==
    /\ liveEvent[e] = "stored"
    /\ liveEvent' = [liveEvent EXCEPT ![e] = "published"]
    /\ pipe' = [c \in Listeners |->
                  IF streamPc[c] = "live" /\ MatchStreamFilters(c, e)
                  THEN Append(pipe[c], e) ELSE pipe[c]]
    /\ resumed' = [c \in Listeners |->
                     IF streamPc[c] = "subscribe"
                     THEN [resumed[c] EXCEPT !.between = @ \cup {e}] ELSE resumed[c]]
    /\ UNCHANGED <<counter, streamPc, lastId, got>>

\* The process dies in between, or Redis refuses: the error is dropped.
PublishFails(e) ==
    /\ liveEvent[e] = "stored"
    /\ liveEvent' = [liveEvent EXCEPT ![e] = "unpublished"]
    /\ UNCHANGED <<counter, streamPc, reader>>

-----------------------------------------------------------------------------
(* streamEmailEvents.                                                      *)

\* INCR, and EXPIRE by the one that finds 1; the error of EXPIRE is dropped.
ReserveSlot(c) ==
    /\ streamPc[c] = "away" /\ slots < MaxSlots
    /\ slots' = slots + 1
    /\ \/ UNCHANGED slotsTtl
       \/ slots' = 1 /\ slotsTtl' = TRUE
    /\ streamPc' = [streamPc EXCEPT ![c] =
                      IF slots' > MaxStreams THEN "refused" ELSE "replay"]
    /\ UNCHANGED <<liveEvent, expiries, reader>>

\* DECR runs with the context of the request: once the client is gone the
\* call is refused before it is sent, and the slot stays taken.
ReleaseSlot == UNCHANGED slots \/ slots' = slots - 1

\* Fault: a refused request gives back the slot of another, too.
RefuseTwice(c) ==
    /\ streamPc[c] = "refused"
    /\ slots' = slots - 2
    /\ streamPc' = [streamPc EXCEPT ![c] = "away"]
    /\ UNCHANGED <<liveEvent, slotsTtl, expiries, reader>>

RefuseStream(c) ==
    /\ streamPc[c] = "refused"
    /\ ReleaseSlot
    /\ streamPc' = [streamPc EXCEPT ![c] = "away"]
    /\ UNCHANGED <<liveEvent, slotsTtl, expiries, reader>>

After(id) == {e \in Recorded : e > id}

\* Fault: the newest rows, as in a listing.
NewestSince(id) == {e \in After(id) : Cardinality(After(e)) < MaxReplay}

\* The oldest MaxReplay rows after the id, the filter is applied later.
ReplaySince(id) == {e \in After(id) : e - id <= MaxReplay}

\* The sequence of these events: every one of them, the older before the younger.
Ascending(events) ==
    {s \in [1 .. Cardinality(events) -> events] :
       /\ \A e \in events : \E i \in DOMAIN s : s[i] = e
       /\ \A i, j \in DOMAIN s : i < j => s[i] < s[j]}

\* Without a Last-Event-ID nothing is replayed, and nothing either when the
\* SELECT fails: the stream goes on.
ReplayTo(c) ==
    /\ streamPc[c] = "replay"
    /\ \E from \in {0, lastId[c]} :
         /\ \E replayed \in Ascending({e \in ReplaySince(from) :
                                        from # 0 /\ MatchStreamFilters(c, e)}) :
              pipe' = [pipe EXCEPT ![c] = replayed]
         /\ resumed' = [resumed EXCEPT ![c] =
               [from |-> from, upTo |-> Cardinality(Recorded), between |-> {}]]
    /\ streamPc' = [streamPc EXCEPT ![c] = "subscribe"]
    /\ UNCHANGED <<liveEvent, counter, lastId, got>>

SubscribeTo(c) ==
    /\ streamPc[c] = "subscribe"
    /\ streamPc' = [streamPc EXCEPT ![c] = "live"]
    /\ UNCHANGED <<liveEvent, counter, reader>>

\* The client goes or the process dies; what it has not read is lost.
CloseStream(c) ==
    /\ c \in Open
    /\ ReleaseSlot
    /\ streamPc' = [streamPc EXCEPT ![c] = "away"]
    /\ pipe' = [pipe EXCEPT ![c] = <<>>]
    /\ resumed' = [resumed EXCEPT ![c] = NewStream]
    /\ UNCHANGED <<liveEvent, slotsTtl, expiries, lastId, got>>

SlotsExpire ==
    /\ slotsTtl /\ expiries < MaxExpiries
    /\ slots' = 0
    /\ slotsTtl' = FALSE
    /\ expiries' = expiries + 1
    /\ UNCHANGED <<liveEvent, streamPc, reader>>

\* readSSE of the Go SDK hands the client one event after the other.
readSSE(c) ==
    /\ pipe[c] # <<>>
    /\ lastId' = [lastId EXCEPT ![c] = Head(pipe[c])]
    /\ got' = [got EXCEPT ![c] = @ \cup {Head(pipe[c])}]
    /\ pipe' = [pipe EXCEPT ![c] = Tail(@)]
    /\ UNCHANGED <<liveEvent, counter, streamPc, resumed>>

StreamNext ==
    \/ RecordEvent
    \/ \E e \in LiveEvents : publishLive(e) \/ PublishFails(e)
    \/ \E c \in Listeners :
         \/ ReserveSlot(c) \/ RefuseStream(c) \/ ReplayTo(c) \/ SubscribeTo(c)
         \/ CloseStream(c) \/ readSSE(c)
    \/ SlotsExpire

StreamSpec == StreamInit /\ [][StreamNext]_streamVars

-----------------------------------------------------------------------------
(* The properties.                                                         *)

\* An open stream misses a published event it asked for only if the event is
\* as old as its Last-Event-ID or was published between the replay and the
\* subscription (events_stream.go:84-104), or was stored before a replay
\* that was not asked for, that failed, or that had reached its LIMIT.
MissedIsExplained ==
    \A c \in Listeners, e \in LiveEvents :
      streamPc[c] = "live" /\ e \in Wanted[c] /\ liveEvent[e] = "published" =>
        \/ e \in got[c] \/ \E i \in DOMAIN pipe[c] : pipe[c][i] = e
        \/ e <= resumed[c].from
        \/ e \in resumed[c].between /\ e > resumed[c].upTo
        \/ /\ e <= resumed[c].upTo
           /\ resumed[c].from = 0 \/ e > resumed[c].from + MaxReplay

\* No team has more streams open than it may, however the requests cross and
\* whatever slots were leaked, until the counter expires under streams that
\* are still open (events_stream.go:44-60).
StreamsAreBounded == expiries = 0 => Cardinality(Open) <= MaxStreams

=============================================================================

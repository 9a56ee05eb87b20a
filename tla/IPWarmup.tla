------------------------------ MODULE IPWarmup ------------------------------
(***************************************************************************)
(* Dedicated IP pools that warm up (internal/ippool): every UTC day a pool *)
(* moves one day on in its plan, which gives it a higher daily cap, and    *)
(* every send reserves one message of the day's cap.                       *)
(*                                                                         *)
(* Three callers run advanceWarmupIfDue: the scheduler's daily tick, one   *)
(* per worker process (TickAllWarmups), the API (TickWarmup) and every     *)
(* send (ReserveSend).  Its transaction locks the pool's rows, so it is    *)
(* one step, but it looks at two clocks: time.Now() after the locks are    *)
(* taken, and now() of SQL, which is the time the transaction began.       *)
(* ReserveSend then reserves in a second transaction.                      *)
(*                                                                         *)
(* Days are numbered; the clocks of the processes and the database agree.  *)
(*                                                                         *)
(* An operator whose comment starts with "Fault:" is no part of the        *)
(* specification.  It is the operator after it with a plausible bug, and   *)
(* shows that some property can fail.                                      *)
(***************************************************************************)
EXTENDS Naturals, Sequences, FiniteSets

CONSTANTS
    Pools,        \* ip_pools rows
    NoPool,       \* "no pool"
    Workers,      \* goroutines that run a tick or reserve for a send
    Plan,         \* warmup_schedules.plan
    DefaultCap,   \* daily_cap of a new schedule, and without a plan (50 in the code)
    MaxDay,       \* bound: the clock stops on this day
    MaxFailures,  \* bound: transactions that fail
    MaxPauses     \* bound: calls of Pause

ASSUME IPWarmupAssumption ==
    /\ NoPool \notin Pools
    /\ Plan \in Seq(Nat)
    /\ DefaultCap \in Nat
    /\ MaxDay \in Nat
    /\ MaxFailures \in Nat
    /\ MaxPauses \in Nat

Days == 0 .. MaxDay

VARIABLES
    \* ip_pools and warmup_schedules; a pool can lack its schedule
    status,     \* "none" before Create and after Delete
    scheduled,  \* the pool has a warmup_schedules row
    dayIndex, dailyCap, sentToday,
    lastReset,  \* the day of last_reset_at
    \* the callers
    pc,         \* next transaction, "idle" when there is none
    todo,       \* pools still to advance
    goal,       \* the pool ReserveSend is called for
    current,    \* the pool of the open transaction
    began,      \* the day it began
    \* the world
    today, failures, pauses,
    \* what happened, for the properties only
    created,    \* the day of Create
    granted,    \* successful reservations
    straddled   \* pools advanced by a transaction that began on an earlier day

schedule == <<scheduled, dayIndex, dailyCap, sentToday, lastReset>>
caller   == <<pc, todo, goal, current, began>>
bounds   == <<failures, pauses>>

history  == <<created, granted, straddled>>

vars == <<status, schedule, caller, today, bounds, history>>

PoolStatuses == {"warming", "active", "paused", "none"}

TypeOK ==
    /\ status    \in [Pools -> PoolStatuses]
    /\ scheduled \in [Pools -> BOOLEAN]
    /\ dayIndex  \in [Pools -> Nat]
    /\ dailyCap  \in [Pools -> Nat]
    /\ sentToday \in [Pools -> Nat]
    /\ lastReset \in [Pools -> Days]
    /\ pc        \in [Workers -> {"idle", "begin", "advance", "reserve"}]
    /\ todo      \in [Workers -> SUBSET Pools]
    /\ goal      \in [Workers -> Pools \cup {NoPool}]
    /\ current   \in [Workers -> Pools \cup {NoPool}]
    /\ began     \in [Workers -> Days]
    /\ today     \in Days
    /\ failures  \in 0 .. MaxFailures
    /\ pauses    \in 0 .. MaxPauses
    /\ created   \in [Pools -> Days \cup {MaxDay + 1}]
    /\ granted   \in [Pools -> Nat]
    /\ straddled \subseteq Pools

Init ==
    /\ status    = [p \in Pools |-> "none"]
    /\ scheduled = [p \in Pools |-> FALSE]
    /\ dayIndex  = [p \in Pools |-> 0]
    /\ dailyCap  = [p \in Pools |-> 0]
    /\ sentToday = [p \in Pools |-> 0]
    /\ lastReset = [p \in Pools |-> 0]
    /\ pc        = [w \in Workers |-> "idle"]
    /\ todo      = [w \in Workers |-> {}]
    /\ goal      = [w \in Workers |-> NoPool]
    /\ current   = [w \in Workers |-> NoPool]
    /\ began     = [w \in Workers |-> 0]
    /\ today     = 0
    /\ failures  = 0
    /\ pauses    = 0
    /\ created   = [p \in Pools |-> MaxDay + 1]
    /\ granted   = [p \in Pools |-> 0]
    /\ straddled = {}

-----------------------------------------------------------------------------
(***************************************************************************)
(* Create, Pause, Resume, Delete.                                          *)
(***************************************************************************)

\* The pool is inserted, then its schedule: the error of the second INSERT is
\* dropped and leaves a pool that no reservation can ever use.  An id is used
\* once.
Create(p) ==
    /\ created[p] = MaxDay + 1
    /\ created' = [created EXCEPT ![p] = today]
    /\ status'  = [status EXCEPT ![p] = "warming"]
    /\ \/ /\ scheduled' = [scheduled EXCEPT ![p] = TRUE]
          /\ dailyCap'  = [dailyCap EXCEPT ![p] = DefaultCap]
          /\ lastReset' = [lastReset EXCEPT ![p] = today]
          /\ UNCHANGED failures
       \/ /\ failures < MaxFailures
          /\ failures' = failures + 1
          /\ UNCHANGED <<scheduled, dailyCap, lastReset>>
    /\ UNCHANGED <<dayIndex, sentToday, caller, today, pauses, granted, straddled>>

Pause(p) ==
    /\ status[p] # "none"
    /\ pauses < MaxPauses
    /\ pauses' = pauses + 1
    /\ status' = [status EXCEPT ![p] = "paused"]
    /\ UNCHANGED <<schedule, caller, today, failures, history>>

\* Back to warming, also for a pool that was active.
Resume(p) ==
    /\ status[p] = "paused"
    /\ status' = [status EXCEPT ![p] = "warming"]
    /\ UNCHANGED <<schedule, caller, today, bounds, history>>

\* The schedule is deleted with its pool.
Delete(p) ==
    /\ status[p] # "none"
    /\ status'    = [status EXCEPT ![p] = "none"]
    /\ scheduled' = [scheduled EXCEPT ![p] = FALSE]
    /\ UNCHANGED <<dayIndex, dailyCap, sentToday, lastReset, caller, today, bounds,
                   history>>

-----------------------------------------------------------------------------
(***************************************************************************)
(* The three callers.                                                      *)
(***************************************************************************)

Running(p) == status[p] \in {"warming", "active"}

Due(p) == /\ Running(p)
          /\ scheduled[p]
          /\ lastReset[p] < today

Call(w, pools, p) ==
    /\ pc[w] = "idle"
    /\ pc'   = [pc EXCEPT ![w] = "begin"]
    /\ todo' = [todo EXCEPT ![w] = pools]
    /\ goal' = [goal EXCEPT ![w] = p]
    /\ UNCHANGED <<status, schedule, current, began, today, bounds, history>>

TickPools(w, due) == due # {} /\ Call(w, due, NoPool)

\* Fault: a pool at the end of its plan is forgotten.
TickWarming(w) == TickPools(w, {p \in Pools : Due(p) /\ status[p] = "warming"})

\* The daily tick, for every pool that is due when it starts.
TickAllWarmups(w) == TickPools(w, {p \in Pools : Due(p)})

\* POST /dedicated-ips/{id}/warmup/tick
TickWarmup(w, p) == status[p] # "none" /\ Call(w, {p}, NoPool)

\* A send from a domain of this pool, which may have been deleted meanwhile.
ReserveSend(w, p) == created[p] <= today /\ Call(w, {p}, p)

Return(w) ==
    /\ pc'      = [pc EXCEPT ![w] = "idle"]
    /\ todo'    = [todo EXCEPT ![w] = {}]
    /\ goal'    = [goal EXCEPT ![w] = NoPool]
    /\ current' = [current EXCEPT ![w] = NoPool]
    /\ began'   = [began EXCEPT ![w] = 0]

\* The transaction fails and so does the whole call: a tick leaves the pools it
\* has not come to for its next run.
Fail(w) ==
    /\ pc[w] # "idle"
    /\ failures < MaxFailures
    /\ failures' = failures + 1
    /\ Return(w)
    /\ UNCHANGED <<status, schedule, today, pauses, history>>

-----------------------------------------------------------------------------
(***************************************************************************)
(* advanceWarmupIfDue and the second transaction of ReserveSend.           *)
(***************************************************************************)

\* BEGIN: now() of the transaction is fixed here.
BeginAdvance(w) ==
    /\ pc[w] = "begin"
    /\ \E p \in todo[w] :
          /\ current' = [current EXCEPT ![w] = p]
          /\ todo'    = [todo EXCEPT ![w] = @ \ {p}]
    /\ began' = [began EXCEPT ![w] = today]
    /\ pc' = [pc EXCEPT ![w] = "advance"]
    /\ UNCHANGED <<status, schedule, goal, today, bounds, history>>

\* The cap NextWarmupDay gives for the day after this one.  Days count from 0.
nextCap(day) ==
    IF day + 1 < Len(Plan) THEN Plan[day + 2]
    ELSE IF Plan # <<>> THEN Plan[Len(Plan)] ELSE DefaultCap

\* The rest of the call.
Proceed(w) ==
    /\ pc' = [pc EXCEPT ![w] = IF todo[w] # {} THEN "begin"
                               ELSE IF goal[w] # NoPool THEN "reserve" ELSE "idle"]
    /\ current' = [current EXCEPT ![w] = NoPool]
    /\ began'   = [began EXCEPT ![w] = 0]
    /\ UNCHANGED <<todo, goal>>

NextDayUntil(p, resetAt) ==
    /\ dayIndex'  = [dayIndex EXCEPT ![p] = @ + 1]
    /\ dailyCap'  = [dailyCap EXCEPT ![p] = nextCap(dayIndex[p])]
    /\ sentToday' = [sentToday EXCEPT ![p] = 0]
    /\ lastReset' = [lastReset EXCEPT ![p] = resetAt]
    /\ status'    = [status EXCEPT ![p] =
                        IF dayIndex[p] + 1 < Len(Plan) THEN @ ELSE "active"]
    /\ UNCHANGED scheduled

\* Fault: last_reset_at is the end of the day.
NextDayAhead(p, day) == NextDayUntil(p, day + 1)

\* Move p on to its next day, under the row locks.
NextDay(p, day) == NextDayUntil(p, day)

\* A missing row is an error, which ends the call.
AdvanceIf(w, due) ==
    LET p == current[w] IN
    /\ pc[w] = "advance"
    /\ IF status[p] = "none" \/ (Running(p) /\ ~scheduled[p])
       THEN Return(w) /\ UNCHANGED <<status, schedule, straddled>>
       ELSE /\ Proceed(w)
            /\ IF due
               THEN /\ NextDay(p, began[w])
                    /\ straddled' = IF began[w] < today THEN straddled \cup {p} ELSE straddled
               ELSE UNCHANGED <<status, schedule, straddled>>
    /\ UNCHANGED <<today, bounds, created, granted>>

\* Fault: the decision of TickAllWarmups is not taken again under the locks.
AdvanceAgain(w) == AdvanceIf(w, Running(current[w]))

\* The day is compared with the clock of the process, last_reset_at is set to
\* the day the transaction began.
Advance(w) == AdvanceIf(w, Due(current[w]))

ReserveWhen(w, allowed) ==
    LET p == goal[w] IN
    /\ pc[w] = "reserve"
    /\ IF allowed
       THEN /\ sentToday' = [sentToday EXCEPT ![p] = @ + 1]
            /\ granted'   = [granted EXCEPT ![p] = @ + 1]
       ELSE UNCHANGED <<sentToday, granted>>
    /\ Return(w)
    /\ UNCHANGED <<status, scheduled, dayIndex, dailyCap, lastReset, today, bounds,
                   created, straddled>>

\* Fault: one message over the cap.
ReserveOneMore(w) ==
    ReserveWhen(w, /\ Running(goal[w]) /\ scheduled[goal[w]]
                   /\ sentToday[goal[w]] <= dailyCap[goal[w]])

\* Fault: advanceWarmupIfDue has seen that the pool is not paused.
ReservePaused(w) ==
    ReserveWhen(w, scheduled[goal[w]] /\ sentToday[goal[w]] < dailyCap[goal[w]])

\* A paused or deleted pool, a missing schedule and a cap that is reached
\* refuse the send.
Reserve(w) ==
    ReserveWhen(w, /\ Running(goal[w]) /\ scheduled[goal[w]]
                   /\ sentToday[goal[w]] < dailyCap[goal[w]])

Midnight ==
    /\ today < MaxDay
    /\ today' = today + 1
    /\ UNCHANGED <<status, schedule, caller, bounds, history>>

Next ==
    \/ \E p \in Pools :
          \/ Create(p)
          \/ Pause(p)
          \/ Resume(p)
          \/ Delete(p)
          \/ \E w \in Workers : TickWarmup(w, p) \/ ReserveSend(w, p)
    \/ \E w \in Workers :
          \/ TickAllWarmups(w)
          \/ BeginAdvance(w)
          \/ Advance(w)
          \/ Reserve(w)
          \/ Fail(w)
    \/ Midnight

Spec == Init /\ [][Next]_vars

\* Asynq runs the scheduler's tick, and a call that has begun goes on.
FairSpec ==
    /\ Spec
    /\ \A w \in Workers : /\ SF_vars(TickAllWarmups(w))
                          /\ WF_vars(BeginAdvance(w) \/ Advance(w) \/ Reserve(w))

-----------------------------------------------------------------------------
(***************************************************************************)
(* Properties.                                                             *)
(***************************************************************************)

\* What the plan allows on the given day after Create.
PlannedCap(day) ==
    IF day = 0 \/ Plan = <<>> THEN DefaultCap
    ELSE Plan[IF day < Len(Plan) THEN day + 1 ELSE Len(Plan)]

\* The messages that the plan allows up to the given day.
Planned(day) == UNION {{d} \X (1 .. PlannedCap(d)) : d \in 0 .. day}

\* All reservations ever granted for a pool, and the ones that today's cap
\* still holds, stay within what the plan allows up to its day: no race of
\* sends, ticks, pauses and failures lets a message more through, not even by
\* resetting a counter that is already in use.
GrantsFollowPlan ==
    \A p \in Pools :
        scheduled[p]
        => granted[p] + dailyCap[p]
              <= sentToday[p] + Cardinality(Planned(dayIndex[p]))

\* However many ticks, retries and sends ask for it, a pool does not move on
\* more than once a day - as long as no transaction that moves it began on an
\* earlier day.
AdvancesDaily ==
    \A p \in Pools \ straddled :
        scheduled[p] => dayIndex[p] + created[p] <= today

\* A pool that stays paused stands still, even for a send that found it running
\* in its first transaction.
PausedStandsStill ==
    [][\A p \in Pools :
          status[p] = "paused" /\ status'[p] = "paused"
          => UNCHANGED <<dayIndex[p], sentToday[p], lastReset[p]>>]_vars

\* A pool that is due is moved on (or paused, or deleted), although the call
\* that was to do it may fail and give up.
DueIsAdvanced == \A p \in Pools : Due(p) ~> ~Due(p)

-----------------------------------------------------------------------------
(***************************************************************************)
(* A statement of a comment that the code does not keep.                   *)
(***************************************************************************)

\* internal/ippool/service.go on TickAllWarmups: it advances a pool "whose last
\* reset was before today".  So a pool moves on at most once a day.
AdvancesOnlyDaily ==
    \A p \in Pools : scheduled[p] => dayIndex[p] + created[p] <= today

=============================================================================

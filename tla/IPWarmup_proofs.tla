-------------------------- MODULE IPWarmup_proofs --------------------------
(***************************************************************************)
(* Theorems about IPWarmup, for every set of pools and workers, every plan *)
(* and every value of the bounds.                                          *)
(***************************************************************************)
EXTENDS IPWarmup, FiniteSetTheorems, TLAPS

USE IPWarmupAssumption

USE DEF PoolStatuses, schedule, caller, bounds, history

-----------------------------------------------------------------------------
(***************************************************************************)
(* Type correctness.                                                       *)
(***************************************************************************)

\* Days are numbers, and no day is the mark of a pool that was never created.
LEMMA DayFacts ==
  /\ 0 \in Days
  /\ \A d \in Days : d \in Nat /\ d <= MaxDay /\ d # MaxDay + 1
  BY DEF Days

\* Every day of a plan has a cap.
LEMMA CapFacts ==
  ASSUME NEW day \in Nat
  PROVE  nextCap(day) \in Nat
  <1>1. Len(Plan) \in Nat /\ \A i \in 1 .. Len(Plan) : Plan[i] \in Nat
    OBVIOUS
  <1>2. CASE day + 1 < Len(Plan)
    <2>1. day + 2 \in 1 .. Len(Plan)
      BY <1>1, <1>2
    <2> QED BY <1>1, <1>2, <2>1 DEF nextCap
  <1>3. CASE ~(day + 1 < Len(Plan)) /\ Plan # <<>>
    <2>1. Len(Plan) \in 1 .. Len(Plan)
      BY <1>1, <1>3
    <2> QED BY <1>1, <1>3, <2>1 DEF nextCap
  <1>4. CASE ~(day + 1 < Len(Plan)) /\ Plan = <<>>
    BY <1>4 DEF nextCap
  <1> QED BY <1>2, <1>3, <1>4

\* The types hold at first.
LEMMA InitTypeOK == Init => TypeOK
  BY DayFacts DEF Init, TypeOK

\* A call that returns has idle variables.
LEMMA ReturnTypeOK ==
  ASSUME TypeOK, NEW w \in Workers, Return(w)
  PROVE  /\ pc' \in [Workers -> {"idle", "begin", "advance", "reserve"}]
         /\ todo' \in [Workers -> SUBSET Pools]
         /\ goal' \in [Workers -> Pools \cup {NoPool}]
         /\ current' \in [Workers -> Pools \cup {NoPool}]
         /\ began' \in [Workers -> Days]
  BY DayFacts DEF Return, TypeOK

\* A call that goes on keeps the types of its variables.
LEMMA ProceedTypeOK ==
  ASSUME TypeOK, NEW w \in Workers, Proceed(w)
  PROVE  /\ pc' \in [Workers -> {"idle", "begin", "advance", "reserve"}]
         /\ todo' \in [Workers -> SUBSET Pools]
         /\ goal' \in [Workers -> Pools \cup {NoPool}]
         /\ current' \in [Workers -> Pools \cup {NoPool}]
         /\ began' \in [Workers -> Days]
  BY DayFacts DEF Proceed, TypeOK

\* The next day of a pool has the types of a day.
LEMMA NextDayTypeOK ==
  ASSUME TypeOK, NEW p \in Pools, NEW day \in Days, NextDay(p, day)
  PROVE  /\ dayIndex' \in [Pools -> Nat]
         /\ dailyCap' \in [Pools -> Nat]
         /\ sentToday' \in [Pools -> Nat]
         /\ lastReset' \in [Pools -> Days]
         /\ status' \in [Pools -> PoolStatuses]
         /\ scheduled' = scheduled
  <1>1. dayIndex[p] \in Nat /\ nextCap(dayIndex[p]) \in Nat
    BY CapFacts DEF TypeOK
  <1>2. status' \in {status, [status EXCEPT ![p] = "active"]}
    BY DEF NextDay, NextDayUntil, TypeOK
  <1> QED BY <1>1, <1>2 DEF NextDay, NextDayUntil, TypeOK

\* The transaction of advanceWarmupIfDue ends the call, or moves the pool on to
\* its next day, or leaves the pools alone.
LEMMA AdvanceCases ==
  ASSUME NEW w \in Workers, Advance(w)
  PROVE  /\ UNCHANGED <<today, bounds, created, granted>>
         /\ Return(w) \/ Proceed(w)
         /\ \/ UNCHANGED <<status, schedule, straddled>>
            \/ /\ Due(current[w])
               /\ NextDay(current[w], began[w])
               /\ straddled' = IF began[w] < today THEN straddled \cup {current[w]}
                                                   ELSE straddled
  BY DEF Advance, AdvanceIf

\* A caller is at a pool: the open transaction has one, and so has a send that
\* comes to its reservation.
AtPool ==
  \A w \in Workers :
     /\ pc[w] = "advance" => current[w] \in Pools
     /\ pc[w] = "reserve" => goal[w] \in Pools

\* A call that returns is at no pool.
LEMMA ReturnAtPool ==
  ASSUME TypeOK, AtPool, NEW w \in Workers, Return(w)
  PROVE  AtPool'
  <1>1. \A v \in Workers : pc'[v] = IF v = w THEN "idle" ELSE pc[v]
    BY DEF Return, TypeOK
  <1>2. \A v \in Workers \ {w} : current'[v] = current[v] /\ goal'[v] = goal[v]
    BY DEF Return, TypeOK
  <1> QED BY <1>1, <1>2 DEF AtPool

\* A call that goes on comes to its reservation only for a pool.
LEMMA ProceedAtPool ==
  ASSUME TypeOK, AtPool, NEW w \in Workers, Proceed(w)
  PROVE  AtPool'
  <1>1. \A v \in Workers \ {w} : pc'[v] = pc[v] /\ current'[v] = current[v]
    BY DEF Proceed, TypeOK
  <1>2. pc'[w] # "advance" /\ (pc'[w] = "reserve" => goal[w] # NoPool)
    BY DEF Proceed, TypeOK
  <1>3. goal' = goal /\ goal[w] \in Pools \cup {NoPool}
    BY DEF Proceed, TypeOK
  <1> QED BY <1>1, <1>2, <1>3 DEF AtPool

\* Every step keeps the types and the callers at their pools.
LEMMA NextTypeOK ==
  ASSUME TypeOK, AtPool, [Next]_vars
  PROVE  TypeOK' /\ AtPool'
  <1>1. CASE UNCHANGED vars
    BY <1>1 DEF vars, TypeOK, AtPool
  <1>2. ASSUME NEW p \in Pools, Create(p) PROVE TypeOK' /\ AtPool'
    <2>1. /\ created' \in [Pools -> Days \cup {MaxDay + 1}]
          /\ status' \in [Pools -> PoolStatuses]
      BY <1>2 DEF Create, TypeOK
    <2>2. /\ UNCHANGED <<dayIndex, sentToday, caller, today, pauses, granted, straddled>>
          /\ \/ /\ scheduled' = [scheduled EXCEPT ![p] = TRUE]
                /\ dailyCap'  = [dailyCap EXCEPT ![p] = DefaultCap]
                /\ lastReset' = [lastReset EXCEPT ![p] = today]
                /\ UNCHANGED failures
             \/ /\ failures < MaxFailures
                /\ failures' = failures + 1
                /\ UNCHANGED <<scheduled, dailyCap, lastReset>>
      BY <1>2 DEF Create
    <2>3. /\ scheduled' \in [Pools -> BOOLEAN]
          /\ dailyCap' \in [Pools -> Nat]
          /\ lastReset' \in [Pools -> Days]
          /\ failures' \in 0 .. MaxFailures
      <3>1. CASE UNCHANGED <<scheduled, dailyCap, lastReset>>
        BY <2>2, <3>1 DEF TypeOK
      <3>2. CASE ~UNCHANGED <<scheduled, dailyCap, lastReset>>
        <4>1. /\ scheduled' = [scheduled EXCEPT ![p] = TRUE]
              /\ dailyCap' = [dailyCap EXCEPT ![p] = DefaultCap]
              /\ lastReset' = [lastReset EXCEPT ![p] = today]
          BY <2>2, <3>2
        <4>2. scheduled' \in [Pools -> BOOLEAN]
          <5>1. scheduled' = [q \in Pools |-> IF q = p THEN TRUE ELSE scheduled[q]]
            BY <4>1 DEF TypeOK
          <5>2. \A q \in Pools : (IF q = p THEN TRUE ELSE scheduled[q]) \in BOOLEAN
            BY DEF TypeOK
          <5> QED BY <5>1, <5>2
        <4>3. failures' \in 0 .. MaxFailures
          BY <2>2 DEF TypeOK
        <4>4. dailyCap' \in [Pools -> Nat] /\ lastReset' \in [Pools -> Days]
          <5>1. /\ dailyCap \in [Pools -> Nat] /\ DefaultCap \in Nat
                /\ lastReset \in [Pools -> Days] /\ today \in Days
            BY DEF TypeOK
          <5> QED BY <4>1, <5>1
        <4> QED BY <4>2, <4>3, <4>4
      <3> QED BY <3>1, <3>2
    <2> QED BY <2>1, <2>2, <2>3 DEF TypeOK, AtPool
  <1>3. ASSUME NEW p \in Pools, Pause(p) PROVE TypeOK' /\ AtPool'
    BY <1>3 DEF Pause, TypeOK, AtPool
  <1>4. ASSUME NEW p \in Pools, Resume(p) PROVE TypeOK' /\ AtPool'
    BY <1>4 DEF Resume, TypeOK, AtPool
  <1>5. ASSUME NEW p \in Pools, Delete(p) PROVE TypeOK' /\ AtPool'
    BY <1>5 DEF Delete, TypeOK, AtPool
  <1>6. ASSUME NEW w \in Workers, NEW pools \in SUBSET Pools,
               NEW g \in Pools \cup {NoPool}, Call(w, pools, g)
        PROVE  TypeOK' /\ AtPool'
    BY <1>6 DEF Call, TypeOK, AtPool
  <1>7. ASSUME NEW w \in Workers, BeginAdvance(w) PROVE TypeOK' /\ AtPool'
    <2>1. PICK p \in Pools : /\ current' = [current EXCEPT ![w] = p]
                             /\ todo' = [todo EXCEPT ![w] = @ \ {p}]
      BY <1>7 DEF BeginAdvance, TypeOK
    <2> QED BY <1>7, <2>1 DEF BeginAdvance, TypeOK, AtPool
  <1>8. ASSUME NEW w \in Workers, Advance(w) PROVE TypeOK' /\ AtPool'
    <2>1. pc[w] = "advance" /\ current[w] \in Pools /\ began[w] \in Days
      BY <1>8 DEF Advance, AdvanceIf, AtPool, TypeOK
    <2>2. /\ pc' \in [Workers -> {"idle", "begin", "advance", "reserve"}]
          /\ todo' \in [Workers -> SUBSET Pools]
          /\ goal' \in [Workers -> Pools \cup {NoPool}]
          /\ current' \in [Workers -> Pools \cup {NoPool}]
          /\ began' \in [Workers -> Days]
          /\ AtPool'
      BY <1>8, AdvanceCases, ReturnTypeOK, ProceedTypeOK, ReturnAtPool, ProceedAtPool
    <2>3. /\ dayIndex' \in [Pools -> Nat]
          /\ dailyCap' \in [Pools -> Nat]
          /\ sentToday' \in [Pools -> Nat]
          /\ lastReset' \in [Pools -> Days]
          /\ status' \in [Pools -> PoolStatuses]
          /\ scheduled' \in [Pools -> BOOLEAN]
      <3>1. CASE UNCHANGED <<status, schedule, straddled>>
        BY <3>1 DEF TypeOK
      <3>2. CASE NextDay(current[w], began[w])
        BY <2>1, <3>2, NextDayTypeOK DEF TypeOK
      <3> QED BY <1>8, <3>1, <3>2, AdvanceCases
    <2>4. straddled' \subseteq Pools
      BY <1>8, <2>1, AdvanceCases DEF TypeOK
    <2>5. UNCHANGED <<today, bounds, created, granted>>
      BY <1>8, AdvanceCases
    <2> QED BY <2>2, <2>3, <2>4, <2>5 DEF TypeOK
  <1>9. ASSUME NEW w \in Workers, Reserve(w) PROVE TypeOK' /\ AtPool'
    <2>1. Return(w)
      BY <1>9 DEF Reserve, ReserveWhen
    <2>2. goal[w] \in Pools
      BY <1>9 DEF Reserve, ReserveWhen, AtPool
    <2>3. sentToday' \in [Pools -> Nat] /\ granted' \in [Pools -> Nat]
      <3>1. \/ /\ sentToday' = [sentToday EXCEPT ![goal[w]] = @ + 1]
               /\ granted' = [granted EXCEPT ![goal[w]] = @ + 1]
            \/ UNCHANGED <<sentToday, granted>>
        BY <1>9 DEF Reserve, ReserveWhen
      <3>2. sentToday \in [Pools -> Nat] /\ granted \in [Pools -> Nat]
        BY DEF TypeOK
      <3>3. CASE UNCHANGED <<sentToday, granted>>
        BY <3>2, <3>3
      <3>4. CASE /\ sentToday' = [sentToday EXCEPT ![goal[w]] = @ + 1]
                 /\ granted' = [granted EXCEPT ![goal[w]] = @ + 1]
        BY <2>2, <3>2, <3>4
      <3> QED BY <3>1, <3>3, <3>4
    <2>4. UNCHANGED <<status, scheduled, dayIndex, dailyCap, lastReset, today, bounds,
                      created, straddled>>
      BY <1>9 DEF Reserve, ReserveWhen
    <2>5. /\ pc' \in [Workers -> {"idle", "begin", "advance", "reserve"}]
          /\ todo' \in [Workers -> SUBSET Pools]
          /\ goal' \in [Workers -> Pools \cup {NoPool}]
          /\ current' \in [Workers -> Pools \cup {NoPool}]
          /\ began' \in [Workers -> Days]
          /\ AtPool'
      BY <2>1, ReturnTypeOK, ReturnAtPool
    <2> QED BY <2>3, <2>4, <2>5 DEF TypeOK
  <1>10. ASSUME NEW w \in Workers, Fail(w) PROVE TypeOK' /\ AtPool'
    <2>1. Return(w) /\ UNCHANGED <<status, schedule, today, pauses, history>>
      BY <1>10 DEF Fail
    <2>2. failures' \in 0 .. MaxFailures
      BY <1>10 DEF Fail, TypeOK
    <2>3. /\ pc' \in [Workers -> {"idle", "begin", "advance", "reserve"}]
          /\ todo' \in [Workers -> SUBSET Pools]
          /\ goal' \in [Workers -> Pools \cup {NoPool}]
          /\ current' \in [Workers -> Pools \cup {NoPool}]
          /\ began' \in [Workers -> Days]
          /\ AtPool'
      BY <2>1, ReturnTypeOK, ReturnAtPool
    <2> QED BY <2>1, <2>2, <2>3 DEF TypeOK
  <1>11. CASE Midnight
    <2>1. today' \in Days
      BY <1>11 DEF Midnight, Days, TypeOK
    <2> QED BY <1>11, <2>1 DEF Midnight, TypeOK, AtPool
  <1>12. ASSUME NEW w \in Workers, TickAllWarmups(w) PROVE TypeOK' /\ AtPool'
    <2>1. {p \in Pools : Due(p)} \in SUBSET Pools
      OBVIOUS
    <2> QED BY <1>6, <1>12, <2>1 DEF TickAllWarmups, TickPools
  <1>13. ASSUME NEW w \in Workers, NEW p \in Pools, TickWarmup(w, p)
         PROVE  TypeOK' /\ AtPool'
    BY <1>6, <1>13 DEF TickWarmup
  <1>14. ASSUME NEW w \in Workers, NEW p \in Pools, ReserveSend(w, p)
         PROVE  TypeOK' /\ AtPool'
    BY <1>6, <1>14 DEF ReserveSend
  <1> QED BY <1>1, <1>2, <1>3, <1>4, <1>5, <1>7, <1>8, <1>9, <1>10, <1>11, <1>12,
             <1>13, <1>14 DEF Next

\* Every variable keeps its type.
THEOREM TypeCorrect == Spec => []TypeOK
  <1>1. Init => TypeOK /\ AtPool
    BY InitTypeOK DEF Init, AtPool
  <1>2. TypeOK /\ AtPool /\ [Next]_vars => (TypeOK /\ AtPool)'
    BY NextTypeOK
  <1> QED BY <1>1, <1>2, PTL DEF Spec

-----------------------------------------------------------------------------
(***************************************************************************)
(* One day a day.  last_reset_at keeps a pool's days apart only together   *)
(* with the clocks: it is never in the future, and neither is the begin of *)
(* an open transaction, which becomes the next last_reset_at.              *)
(***************************************************************************)

\* A pool that has not been created has no row.
Fresh ==
  \A p \in Pools :
     created[p] = MaxDay + 1 => status[p] = "none" /\ ~scheduled[p] /\ dayIndex[p] = 0

\* No clock value that is stored is in the future.
Past == /\ \A p \in Pools : lastReset[p] <= today
        /\ \A w \in Workers : began[w] <= today

\* The days a pool has moved on lie between Create and its last reset.
Spaced ==
  \A p \in Pools \ straddled : scheduled[p] => dayIndex[p] + created[p] <= lastReset[p]

\* The inductive invariant.
IInv == TypeOK /\ AtPool /\ Fresh /\ Past /\ Spaced

\* The invariant holds at first.
LEMMA InitIInv == Init => IInv
  <1> SUFFICES ASSUME Init PROVE IInv
    OBVIOUS
  <1>1. TypeOK
    BY InitTypeOK
  <1>2. AtPool /\ Fresh
    BY DEF Init, AtPool, Fresh
  <1>3. Past /\ Spaced
    BY DEF Init, Past, Spaced
  <1> QED BY <1>1, <1>2, <1>3 DEF IInv

\* Create gives a fresh pool the current day.
LEMMA CreateIInv ==
  ASSUME IInv, NEW p \in Pools, Create(p)
  PROVE  Fresh' /\ Past' /\ Spaced'
  <1>1. /\ created[p] = MaxDay + 1
        /\ created' = [created EXCEPT ![p] = today]
        /\ status' = [status EXCEPT ![p] = "warming"]
        /\ \/ /\ scheduled' = [scheduled EXCEPT ![p] = TRUE]
              /\ lastReset' = [lastReset EXCEPT ![p] = today]
           \/ UNCHANGED <<scheduled, lastReset>>
        /\ UNCHANGED <<dayIndex, caller, today, straddled>>
    BY DEF Create
  <1>2. /\ created'[p] = today /\ today # MaxDay + 1 /\ today \in Nat
        /\ dayIndex'[p] = 0
    BY <1>1, DayFacts DEF IInv, TypeOK, Fresh
  <1>3. \A q \in Pools \ {p} :
           /\ created'[q] = created[q] /\ status'[q] = status[q]
           /\ scheduled'[q] = scheduled[q] /\ lastReset'[q] = lastReset[q]
           /\ dayIndex'[q] = dayIndex[q]
    BY <1>1 DEF IInv, TypeOK
  <1>4. Fresh'
    BY <1>2, <1>3 DEF IInv, Fresh
  <1>5. /\ \A w \in Workers : began'[w] <= today'
        /\ lastReset'[p] <= today'
    BY <1>1, <1>2 DEF IInv, TypeOK, Past
  <1>6. Past'
    BY <1>1, <1>3, <1>5 DEF IInv, Past
  <1>7. ASSUME scheduled'[p] PROVE dayIndex'[p] + created'[p] <= lastReset'[p]
    <2>1. ~scheduled[p]
      BY <1>1 DEF IInv, Fresh
    <2>2. lastReset'[p] = today
      BY <1>1, <1>7, <2>1 DEF IInv, TypeOK
    <2> QED BY <1>2, <2>2
  <1> QED BY <1>1, <1>3, <1>4, <1>6, <1>7 DEF IInv, Spaced

\* A transaction that began today and finds the pool due moves its last reset
\* forward with its day.
LEMMA AdvanceIInv ==
  ASSUME IInv, NEW w \in Workers, Advance(w)
  PROVE  Fresh' /\ Past' /\ Spaced'
  <1>1. /\ UNCHANGED <<today, created>>
        /\ current[w] \in Pools /\ began[w] \in Nat /\ began[w] <= today /\ today \in Nat
    BY AdvanceCases, DayFacts DEF IInv, TypeOK, AtPool, Past, Advance, AdvanceIf
  <1>2. \A v \in Workers : began'[v] \in {began[v], 0}
    BY AdvanceCases DEF Return, Proceed, IInv, TypeOK
  <1>3. \A v \in Workers : began'[v] <= today'
    BY <1>1, <1>2 DEF IInv, Past
  <1>4. CASE UNCHANGED <<status, schedule, straddled>>
    BY <1>1, <1>3, <1>4 DEF IInv, Fresh, Past, Spaced
  <1>5. CASE /\ Due(current[w])
             /\ NextDay(current[w], began[w])
             /\ straddled' = IF began[w] < today THEN straddled \cup {current[w]}
                                                 ELSE straddled
    <2> DEFINE p == current[w]
    <2>1. /\ Running(p) /\ scheduled[p] /\ lastReset[p] < today
          /\ lastReset[p] \in Nat /\ dayIndex[p] \in Nat
      BY <1>1, <1>5, DayFacts DEF Due, IInv, TypeOK
    <2>2. /\ lastReset'[p] = began[w]
          /\ dayIndex'[p] = dayIndex[p] + 1
          /\ scheduled' = scheduled
      BY <1>1, <1>5 DEF NextDay, NextDayUntil, IInv, TypeOK
    <2>3. \A q \in Pools \ {p} : /\ lastReset'[q] = lastReset[q]
                                 /\ dayIndex'[q] = dayIndex[q]
                                 /\ status'[q] = status[q]
      BY <1>5 DEF NextDay, NextDayUntil, IInv, TypeOK
    <2>4. created[p] # MaxDay + 1
      BY <1>1, <2>1 DEF Running, IInv, Fresh
    <2>5. Fresh'
      BY <1>1, <2>2, <2>3, <2>4 DEF IInv, Fresh
    <2>6. Past'
      BY <1>1, <1>3, <2>2, <2>3 DEF IInv, Past
    <2>7. ASSUME p \notin straddled' PROVE dayIndex'[p] + created'[p] <= lastReset'[p]
      <3>1. began[w] = today /\ p \notin straddled
        BY <1>1, <1>5, <2>7
      <3>2. dayIndex[p] + created[p] <= lastReset[p]
        BY <1>1, <2>1, <3>1 DEF IInv, Spaced
      <3>3. created[p] \in Nat
        <4>1. created[p] \in Days
          BY <1>1, <2>4 DEF IInv, TypeOK
        <4> QED BY <4>1, DayFacts
      <3> QED BY <1>1, <2>1, <2>2, <3>1, <3>2, <3>3
    <2>8. straddled \subseteq straddled'
      BY <1>5
    <2>9. Spaced'
      BY <1>1, <2>2, <2>3, <2>7, <2>8 DEF IInv, Spaced
    <2> QED BY <2>5, <2>6, <2>9
  <1> QED BY <1>4, <1>5, AdvanceCases

\* Every step keeps the invariant.
LEMMA NextIInv ==
  ASSUME IInv, [Next]_vars
  PROVE  IInv'
  <1>1. TypeOK' /\ AtPool'
    BY NextTypeOK DEF IInv
  <1>2. Fresh' /\ Past' /\ Spaced'
    <2>1. ASSUME UNCHANGED <<created, scheduled, dayIndex, lastReset, today, straddled>>,
                 \A p \in Pools : status[p] = "none" => status'[p] = "none",
                 \A w \in Workers : began'[w] \in {began[w], 0, today}
          PROVE  Fresh' /\ Past' /\ Spaced'
      <3>1. Fresh' /\ Spaced'
        BY <2>1 DEF IInv, Fresh, Spaced
      <3>2. today \in Nat
        BY DayFacts DEF IInv, TypeOK
      <3> QED BY <2>1, <3>1, <3>2 DEF IInv, Past
    <2>2. CASE UNCHANGED vars
      BY <2>1, <2>2 DEF vars
    <2>3. ASSUME NEW p \in Pools, Pause(p) \/ Resume(p) PROVE Fresh' /\ Past' /\ Spaced'
      <3>1. /\ status[p] # "none"
            /\ \A q \in Pools \ {p} : status'[q] = status[q]
            /\ UNCHANGED <<created, scheduled, dayIndex, lastReset, today, straddled, began>>
        BY <2>3 DEF Pause, Resume, IInv, TypeOK
      <3> QED BY <2>1, <3>1
    <2>4. ASSUME NEW p \in Pools, Delete(p) PROVE Fresh' /\ Past' /\ Spaced'
      <3>1. /\ status[p] # "none" /\ scheduled' = [scheduled EXCEPT ![p] = FALSE]
            /\ status' = [status EXCEPT ![p] = "none"]
            /\ UNCHANGED <<created, dayIndex, lastReset, today, straddled, began>>
        BY <2>4 DEF Delete
      <3>2. \A q \in Pools : /\ scheduled'[q] => scheduled[q]
                             /\ status[q] = "none" => status'[q] = "none"
        BY <3>1 DEF IInv, TypeOK
      <3>3. Fresh'
        BY <3>1, <3>2 DEF IInv, Fresh
      <3> QED BY <3>1, <3>2, <3>3 DEF IInv, Past, Spaced
    <2>5. ASSUME NEW w \in Workers, NEW pools, NEW g, Call(w, pools, g)
          PROVE  Fresh' /\ Past' /\ Spaced'
      BY <2>1, <2>5 DEF Call
    <2>6. ASSUME NEW w \in Workers, BeginAdvance(w) PROVE Fresh' /\ Past' /\ Spaced'
      <3>1. /\ began' = [began EXCEPT ![w] = today]
            /\ UNCHANGED <<status, created, scheduled, dayIndex, lastReset, today, straddled>>
        BY <2>6 DEF BeginAdvance
      <3>2. \A v \in Workers : began'[v] \in {began[v], 0, today}
        BY <3>1 DEF IInv, TypeOK
      <3> QED BY <2>1, <3>1, <3>2
    <2>7. ASSUME NEW w \in Workers, Reserve(w) \/ Fail(w) PROVE Fresh' /\ Past' /\ Spaced'
      <3>1. /\ Return(w)
            /\ UNCHANGED <<status, created, scheduled, dayIndex, lastReset, today, straddled>>
        BY <2>7 DEF Reserve, ReserveWhen, Fail
      <3>2. \A v \in Workers : began'[v] \in {began[v], 0, today}
        BY <3>1 DEF Return, IInv, TypeOK
      <3> QED BY <2>1, <3>1, <3>2
    <2>8. CASE Midnight
      <3>1. /\ today' = today + 1 /\ today \in Nat
            /\ UNCHANGED <<status, created, scheduled, dayIndex, lastReset, straddled, began>>
        BY <2>8, DayFacts DEF Midnight, IInv, TypeOK
      <3>2. Fresh' /\ Spaced'
        BY <3>1 DEF IInv, Fresh, Spaced
      <3>3. /\ \A p \in Pools : lastReset[p] \in Nat
            /\ \A w \in Workers : began[w] \in Nat
        BY DayFacts DEF IInv, TypeOK
      <3> QED BY <3>1, <3>2, <3>3 DEF IInv, Past
    <2> QED BY <2>2, <2>3, <2>4, <2>5, <2>6, <2>7, <2>8, CreateIInv, AdvanceIInv
            DEF Next, TickAllWarmups, TickPools, TickWarmup, ReserveSend
  <1> QED BY <1>1, <1>2 DEF IInv

\* The invariant holds in every state.
LEMMA AlwaysIInv == Spec => []IInv
  <1>1. IInv /\ [Next]_vars => IInv'
    BY NextIInv
  <1> QED BY <1>1, InitIInv, PTL DEF Spec

\* A pool moves on at most once a day, however many ticks, retries and sends
\* ask for it, unless a transaction of advanceWarmupIfDue ran past midnight.
THEOREM OneDayADay == Spec => []AdvancesDaily
  <1>1. IInv => AdvancesDaily
    <2> SUFFICES ASSUME IInv, NEW p \in Pools \ straddled, scheduled[p]
                 PROVE  dayIndex[p] + created[p] <= today
      BY DEF AdvancesDaily
    <2>1. dayIndex[p] + created[p] <= lastReset[p] /\ lastReset[p] <= today
      BY DEF IInv, Spaced, Past
    <2>2. /\ dayIndex[p] \in Nat /\ created[p] \in Nat
          /\ lastReset[p] \in Nat /\ today \in Nat
      BY DayFacts DEF IInv, TypeOK
    <2> QED BY <2>1, <2>2
  <1> QED BY <1>1, AlwaysIInv, PTL

-----------------------------------------------------------------------------
(***************************************************************************)
(* A paused pool.                                                          *)
(***************************************************************************)

\* A step that leaves a pool paused leaves its day alone.
LEMMA PausedStep ==
  ASSUME IInv, [Next]_vars, NEW p \in Pools, status[p] = "paused"
  PROVE  UNCHANGED <<dayIndex[p], sentToday[p], lastReset[p]>>
  <1>1. CASE UNCHANGED <<dayIndex, sentToday, lastReset>>
    BY <1>1
  <1>2. ASSUME NEW q \in Pools, Create(q)
        PROVE  UNCHANGED <<dayIndex[p], sentToday[p], lastReset[p]>>
    <2>1. q # p
      BY <1>2 DEF Create, IInv, Fresh
    <2>2. /\ UNCHANGED <<dayIndex, sentToday>>
          /\ lastReset' \in {lastReset, [lastReset EXCEPT ![q] = today]}
      BY <1>2 DEF Create
    <2> QED BY <2>1, <2>2 DEF IInv, TypeOK
  <1>3. ASSUME NEW w \in Workers, Advance(w)
        PROVE  UNCHANGED <<dayIndex[p], sentToday[p], lastReset[p]>>
    <2>1. CASE UNCHANGED <<status, schedule, straddled>>
      BY <2>1
    <2>2. CASE Due(current[w]) /\ NextDay(current[w], began[w])
      <3>1. current[w] # p
        BY <2>2 DEF Due, Running
      <3> QED BY <2>2, <3>1 DEF NextDay, NextDayUntil, IInv, TypeOK
    <2> QED BY <1>3, <2>1, <2>2, AdvanceCases
  <1>4. ASSUME NEW w \in Workers, Reserve(w)
        PROVE  UNCHANGED <<dayIndex[p], sentToday[p], lastReset[p]>>
    <2>1. /\ UNCHANGED <<dayIndex, lastReset>>
          /\ \/ UNCHANGED sentToday
             \/ /\ Running(goal[w])
                /\ sentToday' = [sentToday EXCEPT ![goal[w]] = @ + 1]
      BY <1>4 DEF Reserve, ReserveWhen
    <2>2. CASE UNCHANGED sentToday
      BY <2>1, <2>2
    <2>3. CASE Running(goal[w]) /\ sentToday' = [sentToday EXCEPT ![goal[w]] = @ + 1]
      <3>1. goal[w] # p
        BY <2>3 DEF Running
      <3> QED BY <2>1, <2>3, <3>1 DEF IInv, TypeOK
    <2> QED BY <2>1, <2>2, <2>3
  <1> QED BY <1>1, <1>2, <1>3, <1>4
          DEF Next, vars, Pause, Resume, Delete, TickAllWarmups, TickPools, TickWarmup,
              ReserveSend, Call, BeginAdvance, Fail, Midnight

\* A pool that stays paused is neither advanced nor charged, also by a send that
\* found it running in its first transaction.
THEOREM PausedPoolsStandStill == Spec => PausedStandsStill
  <1>1. IInv /\ [Next]_vars
        => [\A p \in Pools :
               status[p] = "paused" /\ status'[p] = "paused"
               => UNCHANGED <<dayIndex[p], sentToday[p], lastReset[p]>>]_vars
    BY PausedStep
  <1> QED BY <1>1, AlwaysIInv, PTL DEF Spec, PausedStandsStill

-----------------------------------------------------------------------------
(***************************************************************************)
(* What a pool has sent and what its plan allows.                          *)
(***************************************************************************)

\* A new day of the plan adds its cap to what the plan allows, and the cap is
\* the one that NextWarmupDay gives.
LEMMA PlannedNext ==
  ASSUME NEW day \in Nat, IsFiniteSet(Planned(day))
  PROVE  /\ IsFiniteSet(Planned(day + 1))
         /\ Cardinality(Planned(day + 1)) = Cardinality(Planned(day)) + nextCap(day)
  <1> DEFINE Added == {day + 1} \X (1 .. nextCap(day))
  <1>1. PlannedCap(day + 1) = nextCap(day)
    BY DEF PlannedCap, nextCap
  <1>2. 0 .. (day + 1) = (0 .. day) \cup {day + 1} /\ day + 1 \notin 0 .. day
    OBVIOUS
  <1>3. Planned(day + 1) = Planned(day) \cup Added
    BY <1>1, <1>2 DEF Planned
  <1>4. Planned(day) \cap Added = {}
    BY <1>2 DEF Planned
  <1>5. IsFiniteSet(Added) /\ Cardinality(Added) = nextCap(day)
    <2>1. nextCap(day) \in Nat
      BY CapFacts
    <2>2. /\ IsFiniteSet(1 .. nextCap(day))
          /\ Cardinality(1 .. nextCap(day)) = nextCap(day)
      BY <2>1, FS_Interval
    <2>3. IsFiniteSet({day + 1}) /\ Cardinality({day + 1}) = 1
      BY FS_Singleton
    <2>4. /\ IsFiniteSet(Added)
          /\ Cardinality(Added) = Cardinality({day + 1}) * Cardinality(1 .. nextCap(day))
      BY <2>2, <2>3, FS_Product
    <2> HIDE DEF Added
    <2> QED BY <2>1, <2>2, <2>3, <2>4
  <1> HIDE DEF Added
  <1>6. /\ IsFiniteSet(Planned(day) \cup Added)
        /\ Cardinality(Planned(day) \cup Added)
              = Cardinality(Planned(day)) + Cardinality(Added) - Cardinality({})
    BY <1>4, <1>5, FS_Union
  <1>7. Cardinality({}) = 0 /\ Cardinality(Planned(day)) \in Nat /\ nextCap(day) \in Nat
    BY FS_EmptySet, FS_CardinalityType, CapFacts
  <1>8. Cardinality(Planned(day) \cup Added) = Cardinality(Planned(day)) + nextCap(day)
    BY <1>5, <1>6, <1>7
  <1> QED BY <1>3, <1>6, <1>8, Zenon

\* On its first day a pool may send the default cap.
LEMMA PlannedFirst ==
  IsFiniteSet(Planned(0)) /\ Cardinality(Planned(0)) = DefaultCap
  <1>1. 0 .. 0 = {0} /\ PlannedCap(0) = DefaultCap
    BY DEF PlannedCap
  <1>2. Planned(0) = {0} \X (1 .. DefaultCap)
    BY <1>1 DEF Planned
  <1>3. /\ IsFiniteSet(1 .. DefaultCap) /\ Cardinality(1 .. DefaultCap) = DefaultCap
        /\ IsFiniteSet({0}) /\ Cardinality({0}) = 1
    <2>1. /\ IsFiniteSet(1 .. DefaultCap)
          /\ Cardinality(1 .. DefaultCap) = IF 1 > DefaultCap THEN 0 ELSE DefaultCap - 1 + 1
      BY FS_Interval
    <2>2. Cardinality(1 .. DefaultCap) = DefaultCap
      BY <2>1
    <2> QED BY <2>1, <2>2, FS_Singleton
  <1>4. /\ IsFiniteSet({0} \X (1 .. DefaultCap))
        /\ Cardinality({0} \X (1 .. DefaultCap))
              = Cardinality({0}) * Cardinality(1 .. DefaultCap)
    BY <1>3, FS_Product
  <1>5. Cardinality({0} \X (1 .. DefaultCap)) = DefaultCap
    BY <1>3, <1>4
  <1> QED BY <1>2, <1>4, <1>5, Zenon

\* Nothing is sent or granted before Create.
Unused == \A p \in Pools : created[p] = MaxDay + 1 => sentToday[p] = 0 /\ granted[p] = 0

\* The account of a pool.  GrantsFollowPlan alone is not inductive: a new day
\* forgets what was sent on the last one, which was not more than its cap.
Account(p) ==
    /\ IsFiniteSet(Planned(dayIndex[p]))
    /\ sentToday[p] <= dailyCap[p]
    /\ granted[p] + dailyCap[p] <= sentToday[p] + Cardinality(Planned(dayIndex[p]))

PlanInv == IInv /\ Unused /\ \A p \in Pools : scheduled[p] => Account(p)

\* A pool that is left alone keeps its account.
LEMMA AccountStays ==
  ASSUME NEW p \in Pools, Account(p),
         dayIndex'[p] = dayIndex[p], dailyCap'[p] = dailyCap[p],
         sentToday'[p] = sentToday[p], granted'[p] = granted[p]
  PROVE  Account(p)'
  BY DEF Account

\* Create opens the account of its pool.
LEMMA CreateAccount ==
  ASSUME PlanInv, NEW p \in Pools, Create(p)
  PROVE  Unused' /\ \A q \in Pools : scheduled'[q] => Account(q)'
  <1>1. /\ created[p] = MaxDay + 1
        /\ created' = [created EXCEPT ![p] = today]
        /\ \/ /\ scheduled' = [scheduled EXCEPT ![p] = TRUE]
              /\ dailyCap' = [dailyCap EXCEPT ![p] = DefaultCap]
           \/ UNCHANGED <<scheduled, dailyCap>>
        /\ UNCHANGED <<dayIndex, sentToday, granted>>
    BY DEF Create
  <1>2. \A q \in Pools \ {p} : created'[q] = created[q]
    BY <1>1 DEF PlanInv, IInv, TypeOK
  <1>3. created'[p] # MaxDay + 1
    BY <1>1, DayFacts DEF PlanInv, IInv, TypeOK
  <1>4. Unused'
    BY <1>1, <1>2, <1>3 DEF PlanInv, Unused
  <1>5. /\ sentToday[p] = 0 /\ granted[p] = 0 /\ dayIndex[p] = 0 /\ ~scheduled[p]
    BY <1>1 DEF PlanInv, IInv, Unused, Fresh
  <1>6. ASSUME NEW q \in Pools, q # p, scheduled'[q]
        PROVE  Account(q)'
    <2>1. scheduled[q] /\ dailyCap'[q] = dailyCap[q]
      BY <1>1, <1>6 DEF PlanInv, IInv, TypeOK
    <2> QED BY <1>1, <2>1, AccountStays DEF PlanInv
  <1>7. ASSUME scheduled'[p]
        PROVE  Account(p)'
    <2>1. dailyCap'[p] = DefaultCap
      BY <1>1, <1>5, <1>7 DEF PlanInv, IInv, TypeOK
    <2>2. sentToday'[p] = 0 /\ granted'[p] = 0 /\ dayIndex'[p] = 0
      BY <1>1, <1>5
    <2> QED BY <2>1, <2>2, PlannedFirst DEF Account
  <1> QED BY <1>4, <1>6, <1>7

\* A day that is over takes what was not sent with it.
LEMMA AdvanceAccount ==
  ASSUME PlanInv, NEW w \in Workers, Advance(w)
  PROVE  Unused' /\ \A q \in Pools : scheduled'[q] => Account(q)'
  <1>1. PICK p \in Pools : p = current[w] /\ UNCHANGED <<created, granted>>
    BY AdvanceCases DEF PlanInv, IInv, AtPool, Advance, AdvanceIf
  <1>2. CASE UNCHANGED <<status, schedule, straddled>>
    BY <1>1, <1>2, AccountStays DEF PlanInv, Unused
  <1>3. CASE Due(p) /\ NextDay(p, began[w])
    <2>1. scheduled' = scheduled /\ scheduled[p] /\ Account(p)
      BY <1>1, <1>3 DEF Due, NextDay, NextDayUntil, PlanInv
    <2>2. /\ dayIndex'[p] = dayIndex[p] + 1
          /\ dailyCap'[p] = nextCap(dayIndex[p])
          /\ sentToday'[p] = 0
          /\ \A q \in Pools : q # p => /\ dayIndex'[q] = dayIndex[q]
                                       /\ dailyCap'[q] = dailyCap[q]
                                       /\ sentToday'[q] = sentToday[q]
      BY <1>1, <1>3 DEF NextDay, NextDayUntil, PlanInv, IInv, TypeOK
    <2>3. Unused'
      BY <1>1, <2>2 DEF PlanInv, Unused
    <2>4. Account(p)'
      <3>1. /\ dayIndex[p] \in Nat /\ dailyCap[p] \in Nat /\ sentToday[p] \in Nat
            /\ granted[p] \in Nat /\ nextCap(dayIndex[p]) \in Nat
        BY <1>1, CapFacts DEF PlanInv, IInv, TypeOK
      <3>2. /\ IsFiniteSet(Planned(dayIndex[p] + 1))
            /\ Cardinality(Planned(dayIndex[p] + 1))
                  = Cardinality(Planned(dayIndex[p])) + nextCap(dayIndex[p])
            /\ Cardinality(Planned(dayIndex[p])) \in Nat
        BY <2>1, <3>1, PlannedNext, FS_CardinalityType DEF Account
      <3>3. granted[p] <= Cardinality(Planned(dayIndex[p]))
        BY <2>1, <3>1, <3>2 DEF Account
      <3>4. granted[p] + nextCap(dayIndex[p]) <= 0 + Cardinality(Planned(dayIndex[p] + 1))
        BY <3>1, <3>2, <3>3
      <3>5. granted'[p] = granted[p]
        BY <1>1
      <3>6. IsFiniteSet(Planned(dayIndex'[p]))
        BY <2>2, <3>2
      <3>7. sentToday'[p] <= dailyCap'[p]
        BY <2>2, <3>1
      <3>8. granted'[p] + dailyCap'[p] <= sentToday'[p] + Cardinality(Planned(dayIndex'[p]))
        BY <2>2, <3>4, <3>5
      <3> QED BY <3>6, <3>7, <3>8 DEF Account
    <2>5. ASSUME NEW q \in Pools, q # p, scheduled'[q]
          PROVE  Account(q)'
      <3>1. /\ scheduled[q]
            /\ dayIndex'[q] = dayIndex[q] /\ dailyCap'[q] = dailyCap[q]
            /\ sentToday'[q] = sentToday[q] /\ granted'[q] = granted[q]
        BY <1>1, <2>1, <2>2, <2>5
      <3> QED BY <3>1, AccountStays DEF PlanInv
    <2> QED BY <2>3, <2>4, <2>5
  <1> QED BY <1>1, <1>2, <1>3, AdvanceCases

\* A send is granted under the cap, and counted where it is granted.
LEMMA ReserveAccount ==
  ASSUME PlanInv, NEW w \in Workers, Reserve(w)
  PROVE  Unused' /\ \A q \in Pools : scheduled'[q] => Account(q)'
  <1>1. PICK p \in Pools :
           /\ UNCHANGED <<created, scheduled, dayIndex, dailyCap>>
           /\ \/ UNCHANGED <<sentToday, granted>>
              \/ /\ Running(p) /\ scheduled[p] /\ sentToday[p] < dailyCap[p]
                 /\ sentToday' = [sentToday EXCEPT ![p] = @ + 1]
                 /\ granted' = [granted EXCEPT ![p] = @ + 1]
    BY DEF Reserve, ReserveWhen, PlanInv, IInv, AtPool
  <1>2. CASE UNCHANGED <<sentToday, granted>>
    BY <1>1, <1>2, AccountStays DEF PlanInv, Unused
  <1>3. CASE /\ Running(p) /\ scheduled[p] /\ sentToday[p] < dailyCap[p]
             /\ sentToday' = [sentToday EXCEPT ![p] = @ + 1]
             /\ granted' = [granted EXCEPT ![p] = @ + 1]
    <2>1. /\ sentToday'[p] = sentToday[p] + 1 /\ granted'[p] = granted[p] + 1
          /\ \A q \in Pools : q # p => sentToday'[q] = sentToday[q] /\ granted'[q] = granted[q]
      BY <1>1, <1>3 DEF PlanInv, IInv, TypeOK
    <2>2. created[p] # MaxDay + 1
      BY <1>1, <1>3 DEF Running, PlanInv, IInv, Fresh
    <2>3. Unused'
      BY <1>1, <2>1, <2>2 DEF PlanInv, Unused
    <2>4. Account(p)'
      <3>1. Account(p)
        BY <1>1, <1>3 DEF PlanInv
      <3>2. /\ dailyCap[p] \in Nat /\ sentToday[p] \in Nat /\ granted[p] \in Nat
            /\ Cardinality(Planned(dayIndex[p])) \in Nat
        BY <1>1, <3>1, FS_CardinalityType DEF PlanInv, IInv, TypeOK, Account
      <3>3. /\ sentToday[p] + 1 <= dailyCap[p]
            /\ (granted[p] + 1) + dailyCap[p]
                  <= (sentToday[p] + 1) + Cardinality(Planned(dayIndex[p]))
        BY <1>3, <3>1, <3>2 DEF Account
      <3>4. dayIndex'[p] = dayIndex[p] /\ dailyCap'[p] = dailyCap[p]
        BY <1>1
      <3>5. IsFiniteSet(Planned(dayIndex'[p]))
        BY <3>1, <3>4 DEF Account
      <3>6. sentToday'[p] <= dailyCap'[p]
        BY <2>1, <3>3, <3>4
      <3>7. granted'[p] + dailyCap'[p] <= sentToday'[p] + Cardinality(Planned(dayIndex'[p]))
        BY <2>1, <3>3, <3>4
      <3> QED BY <3>5, <3>6, <3>7 DEF Account
    <2>5. ASSUME NEW q \in Pools, q # p, scheduled'[q]
          PROVE  Account(q)'
      <3>1. /\ scheduled[q]
            /\ dayIndex'[q] = dayIndex[q] /\ dailyCap'[q] = dailyCap[q]
            /\ sentToday'[q] = sentToday[q] /\ granted'[q] = granted[q]
        BY <1>1, <2>1, <2>5
      <3> QED BY <3>1, AccountStays DEF PlanInv
    <2> QED BY <2>3, <2>4, <2>5
  <1> QED BY <1>1, <1>2, <1>3

\* Every step keeps the accounts.
LEMMA NextPlanInv ==
  ASSUME PlanInv, [Next]_vars
  PROVE  PlanInv'
  <1>1. IInv'
    BY NextIInv DEF PlanInv
  <1>2. Unused' /\ \A q \in Pools : scheduled'[q] => Account(q)'
    <2>1. ASSUME UNCHANGED <<dayIndex, dailyCap, sentToday, created, granted>>,
                 \A q \in Pools : scheduled'[q] => scheduled[q]
          PROVE  Unused' /\ \A q \in Pools : scheduled'[q] => Account(q)'
      BY <2>1, AccountStays DEF PlanInv, Unused
    <2>2. ASSUME NEW p \in Pools, Delete(p)
          PROVE  Unused' /\ \A q \in Pools : scheduled'[q] => Account(q)'
      <3>1. scheduled' = [scheduled EXCEPT ![p] = FALSE]
            /\ UNCHANGED <<dayIndex, dailyCap, sentToday, created, granted>>
        BY <2>2 DEF Delete
      <3>2. \A q \in Pools : scheduled'[q] => scheduled[q]
        BY <3>1 DEF PlanInv, IInv, TypeOK
      <3> QED BY <2>1, <3>1, <3>2
    <2>3. CASE UNCHANGED <<schedule, created, granted>>
      BY <2>1, <2>3
    <2> QED BY <2>2, <2>3, CreateAccount, AdvanceAccount, ReserveAccount
            DEF Next, vars, Pause, Resume, TickAllWarmups, TickPools, TickWarmup,
                ReserveSend, Call, BeginAdvance, Fail, Midnight
  <1> QED BY <1>1, <1>2 DEF PlanInv

\* However sends, ticks, pauses and failures race, a pool is granted no more than
\* its plan allows up to its day, and today's cap less what was sent today is
\* still within it.
THEOREM PlanIsNeverExceeded == Spec => []GrantsFollowPlan
  <1>1. Init => PlanInv
    <2>1. Init => IInv
      BY InitIInv
    <2>2. Init => Unused /\ \A p \in Pools : ~scheduled[p]
      BY DEF Init, Unused
    <2> QED BY <2>1, <2>2 DEF PlanInv
  <1>2. PlanInv /\ [Next]_vars => PlanInv'
    BY NextPlanInv
  <1>3. PlanInv => GrantsFollowPlan
    BY DEF PlanInv, Account, GrantsFollowPlan
  <1> QED BY <1>1, <1>2, <1>3, PTL DEF Spec

=============================================================================

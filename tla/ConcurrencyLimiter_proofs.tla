---------------------- MODULE ConcurrencyLimiter_proofs ----------------------
(***************************************************************************)
(* The limiter never admits more than maximumConcurrent calls and never    *)
(* keeps one waiting beside a free slot, for any number of calls and any   *)
(* limits.                                                                 *)
(***************************************************************************)
EXTENDS ConcurrencyLimiter, FiniteSetTheorems, TLAPS

\* The inductive invariant: the queue must name the waiting calls, or the
\* call a release wakes could be one that is admitted already.
IndInv ==
    TypeOK /\ CountsAdmitted /\ NoIdleSlotWhileWaiting /\ QueueMatchesCalls

\* A set of calls is finite, and admitting one more call adds one to the count.
LEMMA CountUp ==
    ASSUME NEW S \in SUBSET Calls, NEW c \in Calls \ S
    PROVE  /\ Cardinality(S) \in Nat
           /\ Cardinality(S \cup {c}) = Cardinality(S) + 1
<1>1. IsFiniteSet(S)
  BY LimitsAssumption, FS_Subset
<1> QED BY <1>1, FS_CardinalityType, FS_AddElement

\* Letting one call go takes one from the count.
LEMMA CountDown ==
    ASSUME NEW S \in SUBSET Calls, NEW c \in S
    PROVE  /\ Cardinality(S) \in Nat \ {0}
           /\ Cardinality(S \ {c}) = Cardinality(S) - 1
<1>1. IsFiniteSet(S)
  BY LimitsAssumption, FS_Subset
<1>2. Cardinality(S) # 0
  BY <1>1, FS_EmptySet
<1> QED BY <1>1, <1>2, FS_CardinalityType, FS_RemoveElement

\* The limiter starts with every call idle.
LEMMA InitInd == Init => IndInv
<1> SUFFICES ASSUME Init PROVE IndInv
  OBVIOUS
<1>1. Admitted = {}
  BY DEF Init, Admitted
<1>2. Cardinality(Admitted) = 0
  BY <1>1, FS_EmptySet
<1> QED BY <1>2, LimitsAssumption
        DEF Init, IndInv, TypeOK, CountsAdmitted, NoIdleSlotWhileWaiting,
            QueueMatchesCalls

\* acquire takes a free slot, so nobody was waiting.
LEMMA AcquireStep ==
    ASSUME IndInv, NEW c \in Calls, acquire(c)
    PROVE  IndInv'
<1>1. Admitted' = Admitted \cup {c} /\ c \notin Admitted
  BY DEF acquire, Admitted, IndInv, TypeOK
<1>2. active' = Cardinality(Admitted')
  BY <1>1, CountUp DEF acquire, IndInv, CountsAdmitted, Admitted
<1>3. waiting = <<>>
  BY LimitsAssumption DEF acquire, IndInv, TypeOK, NoIdleSlotWhileWaiting
<1>4. TypeOK'
  BY DEF acquire, IndInv, TypeOK
<1>5. QueueMatchesCalls'
  BY <1>3 DEF acquire, IndInv, TypeOK, QueueMatchesCalls
<1> QED BY <1>2, <1>3, <1>4, <1>5, LimitsAssumption
        DEF acquire, IndInv, TypeOK, CountsAdmitted, NoIdleSlotWhileWaiting

\* A call is queued only behind a full house.
LEMMA EnqueueStep ==
    ASSUME IndInv, NEW c \in Calls, Enqueue(c)
    PROVE  IndInv'
<1>1. Admitted' = Admitted
  BY DEF Enqueue, Admitted, IndInv, TypeOK
<1>2. TypeOK'
  BY DEF Enqueue, IndInv, TypeOK
<1>3. /\ Len(waiting') = Len(waiting) + 1
      /\ DOMAIN waiting = 1..Len(waiting)
      /\ DOMAIN waiting' = 1..(Len(waiting) + 1)
      /\ waiting'[Len(waiting) + 1] = c
      /\ \A i \in 1..Len(waiting) : waiting'[i] = waiting[i]
      /\ Len(waiting) \in Nat
  BY DEF Enqueue, IndInv, TypeOK
<1>4. \A i \in 1..Len(waiting) : waiting[i] # c
  BY <1>3 DEF Enqueue, IndInv, QueueMatchesCalls
<1>5. QueueMatchesCalls'
  <2>1. Len(waiting') <= maximumQueued
    BY <1>3, LimitsAssumption DEF Enqueue
  <2>2. \A i, j \in DOMAIN waiting' : waiting'[i] = waiting'[j] => i = j
    BY <1>3, <1>4 DEF IndInv, QueueMatchesCalls
  <2>3. ASSUME NEW d \in Calls
        PROVE  pc'[d] = "waiting"
                 <=> \E i \in DOMAIN waiting' : waiting'[i] = d
    <3>1. CASE d = c
      BY <3>1, <1>3 DEF Enqueue, IndInv, TypeOK
    <3>2. CASE d # c
      <4>1. pc'[d] = pc[d]
        BY <3>2 DEF Enqueue, IndInv, TypeOK
      <4>2. (\E i \in DOMAIN waiting' : waiting'[i] = d)
              <=> \E i \in DOMAIN waiting : waiting[i] = d
        BY <3>2, <1>3
      <4> QED BY <4>1, <4>2 DEF IndInv, QueueMatchesCalls
    <3> QED BY <3>1, <3>2
  <2> QED BY <2>1, <2>2, <2>3 DEF QueueMatchesCalls
<1> QED BY <1>1, <1>2, <1>5, LimitsAssumption
        DEF Enqueue, IndInv, TypeOK, CountsAdmitted, NoIdleSlotWhileWaiting

\* Refuse, Start and Forget move a call between states nothing counts apart.
LEMMA QuietStep ==
    ASSUME IndInv, NEW c \in Calls, Refuse(c) \/ Start(c) \/ Forget(c)
    PROVE  IndInv'
<1>1. Admitted' = Admitted
  BY DEF Refuse, Start, Forget, Admitted, IndInv, TypeOK
<1>2. TypeOK'
  BY DEF Refuse, Start, Forget, IndInv, TypeOK
<1>3. \A d \in Calls : pc'[d] = "waiting" <=> pc[d] = "waiting"
  BY DEF Refuse, Start, Forget, IndInv, TypeOK
<1>4. active' = active /\ waiting' = waiting
  BY DEF Refuse, Start, Forget
<1> QED BY <1>1, <1>2, <1>3, <1>4
        DEF IndInv, CountsAdmitted, NoIdleSlotWhileWaiting, QueueMatchesCalls

\* release frees a slot, or hands it to the first waiter, who is not admitted.
LEMMA ReleaseStep ==
    ASSUME IndInv, NEW c \in Calls, release(c)
    PROVE  IndInv'
<1>0. c \in Admitted /\ Admitted \in SUBSET Calls
  BY DEF release, Admitted
<1>1. CASE waiting = <<>>
  <2>1. Admitted' = Admitted \ {c}
    BY <1>1 DEF release, Admitted, IndInv, TypeOK
  <2>2. active' = active - 1 /\ waiting' = <<>>
    BY <1>1 DEF release
  <2>3. active' = Cardinality(Admitted') /\ active' \in Nat
        /\ active' <= maximumConcurrent
    BY <1>0, <2>1, <2>2, CountDown, LimitsAssumption
       DEF IndInv, CountsAdmitted
  <2>4. TypeOK'
    BY <1>1, <2>2, <2>3 DEF release, IndInv, TypeOK
  <2>5. QueueMatchesCalls'
    BY <1>1, <2>2 DEF release, IndInv, TypeOK, QueueMatchesCalls
  <2> QED BY <2>2, <2>3, <2>4, <2>5
          DEF IndInv, CountsAdmitted, NoIdleSlotWhileWaiting
<1>2. CASE waiting # <<>>
  <2> DEFINE h == Head(waiting)
  <2>1. /\ Len(waiting) \in Nat \ {0}
        /\ DOMAIN waiting = 1..Len(waiting)
        /\ h = waiting[1] /\ h \in Calls
        /\ waiting' = Tail(waiting)
        /\ Len(waiting') = Len(waiting) - 1
        /\ DOMAIN waiting' = 1..(Len(waiting) - 1)
        /\ \A i \in 1..(Len(waiting) - 1) : waiting'[i] = waiting[i + 1]
        /\ waiting' \in Seq(Calls)
    BY <1>2 DEF release, IndInv, TypeOK
  <2>2. pc[h] = "waiting"
    BY <2>1 DEF IndInv, QueueMatchesCalls
  <2>3. h # c /\ h \notin Admitted
    BY <2>2 DEF release, Admitted
  <2>4. pc' = [pc EXCEPT ![c] = "idle", ![h] = "granted"]
    BY <1>2 DEF release
  <2>5. Admitted' = (Admitted \ {c}) \cup {h}
    BY <2>1, <2>3, <2>4 DEF Admitted, IndInv, TypeOK
  <2>6. active' = active
    BY <1>2 DEF release, IndInv, TypeOK
  <2>7. Cardinality(Admitted') = Cardinality(Admitted)
    <3>1. /\ Cardinality(Admitted) \in Nat \ {0}
          /\ Cardinality(Admitted \ {c}) = Cardinality(Admitted) - 1
      BY <1>0, CountDown
    <3>2. Cardinality((Admitted \ {c}) \cup {h})
            = Cardinality(Admitted \ {c}) + 1
      BY <1>0, <2>1, <2>3, CountUp
    <3> QED BY <2>5, <3>1, <3>2
  <2>8. TypeOK'
    BY <2>1, <2>4, <2>6 DEF IndInv, TypeOK
  <2>9. active = maximumConcurrent
    BY <1>2 DEF IndInv, NoIdleSlotWhileWaiting
  <2>10. QueueMatchesCalls'
    <3>1. Len(waiting') <= maximumQueued
      BY <2>1, LimitsAssumption DEF IndInv, QueueMatchesCalls
    <3>2. \A i, j \in DOMAIN waiting' : waiting'[i] = waiting'[j] => i = j
      <4> SUFFICES ASSUME NEW i \in 1..(Len(waiting) - 1),
                          NEW j \in 1..(Len(waiting) - 1),
                          waiting[i + 1] = waiting[j + 1]
                   PROVE  i = j
        BY <2>1
      <4>1. i + 1 \in DOMAIN waiting /\ j + 1 \in DOMAIN waiting
        BY <2>1
      <4> QED BY <2>1, <4>1 DEF IndInv, QueueMatchesCalls
    <3>3. ASSUME NEW d \in Calls
          PROVE  pc'[d] = "waiting"
                   <=> \E i \in DOMAIN waiting' : waiting'[i] = d
      <4>1. CASE d = h
        <5>1. pc'[d] # "waiting"
          BY <4>1, <2>1, <2>4 DEF IndInv, TypeOK
        <5>2. ASSUME NEW i \in 1..(Len(waiting) - 1), waiting[i + 1] = waiting[1]
              PROVE  FALSE
          <6>1. i + 1 \in DOMAIN waiting /\ 1 \in DOMAIN waiting /\ i + 1 # 1
            BY <2>1
          <6> QED BY <5>2, <6>1 DEF IndInv, QueueMatchesCalls
        <5> QED BY <4>1, <5>1, <5>2, <2>1
      <4>2. CASE d = c
        <5>1. pc'[d] # "waiting" /\ pc[d] # "waiting"
          BY <4>2, <2>3, <2>4 DEF IndInv, TypeOK, release
        <5>2. \A i \in DOMAIN waiting : waiting[i] # d
          BY <5>1 DEF IndInv, QueueMatchesCalls
        <5>3. \A i \in 1..(Len(waiting) - 1) : i + 1 \in DOMAIN waiting
          BY <2>1
        <5> QED BY <5>1, <5>2, <5>3, <2>1
      <4>3. CASE d # h /\ d # c
        <5>1. pc'[d] = pc[d]
          BY <4>3, <2>4 DEF IndInv, TypeOK
        <5>2. ASSUME NEW i \in DOMAIN waiting, waiting[i] = d
              PROVE  \E k \in DOMAIN waiting' : waiting'[k] = d
          <6>1. i # 1 /\ i - 1 \in 1..(Len(waiting) - 1) /\ (i - 1) + 1 = i
            BY <4>3, <5>2, <2>1
          <6>2. waiting'[i - 1] = d
            BY <5>2, <6>1, <2>1
          <6> QED BY <6>1, <6>2, <2>1
        <5>3. ASSUME NEW i \in DOMAIN waiting', waiting'[i] = d
              PROVE  \E k \in DOMAIN waiting : waiting[k] = d
          <6>1. i + 1 \in DOMAIN waiting /\ waiting[i + 1] = d
            BY <5>3, <2>1
          <6> QED BY <6>1
        <5> QED BY <5>1, <5>2, <5>3 DEF IndInv, QueueMatchesCalls
      <4> QED BY <4>1, <4>2, <4>3
    <3> QED BY <3>1, <3>2, <3>3 DEF QueueMatchesCalls
  <2> QED BY <2>6, <2>7, <2>8, <2>9, <2>10
          DEF IndInv, CountsAdmitted, NoIdleSlotWhileWaiting
<1> QED BY <1>1, <1>2

\* Every step of the limiter keeps the inductive invariant.
LEMMA NextInd == IndInv /\ [Next]_vars => IndInv'
<1> SUFFICES ASSUME IndInv, [Next]_vars PROVE IndInv'
  OBVIOUS
<1>1. CASE UNCHANGED vars
  BY <1>1 DEF vars, IndInv, TypeOK, CountsAdmitted, Admitted,
              NoIdleSlotWhileWaiting, QueueMatchesCalls
<1>2. ASSUME NEW c \in Calls,
             \/ acquire(c) \/ Enqueue(c) \/ Refuse(c)
             \/ Start(c) \/ release(c) \/ Forget(c)
      PROVE  IndInv'
  BY <1>2, AcquireStep, EnqueueStep, QuietStep, ReleaseStep
<1> QED BY <1>1, <1>2 DEF Next

\* active is the number of admitted calls and never passes the maximum.
THEOREM AdmitsWithinLimit == Spec => []CountsAdmitted
<1>1. IndInv => CountsAdmitted
  BY DEF IndInv
<1> QED BY <1>1, InitInd, NextInd, PTL DEF Spec

\* No call waits while a slot is free: a release can never be missed.
THEOREM NoLostWakeUp == Spec => []NoIdleSlotWhileWaiting
<1>1. IndInv => NoIdleSlotWhileWaiting
  BY DEF IndInv
<1> QED BY <1>1, InitInd, NextInd, PTL DEF Spec

\* The queue holds exactly the waiting calls, each once, within its limit.
THEOREM QueueAlwaysMatches == Spec => []QueueMatchesCalls
<1>1. IndInv => QueueMatchesCalls
  BY DEF IndInv
<1> QED BY <1>1, InitInd, NextInd, PTL DEF Spec

\* All of it: slots are neither lost nor given twice, nobody waits beside a
\* free slot, and the queue is that of the waiting calls.
THEOREM LimiterIsSound == Spec => []SlotsAndQueueSound
<1>1. IndInv => SlotsAndQueueSound
  BY DEF IndInv, SlotsAndQueueSound
<1> QED BY <1>1, InitInd, NextInd, PTL DEF Spec
=============================================================================

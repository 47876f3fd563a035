----------------------- MODULE GeocodingRateLimit_proofs -----------------------
(***************************************************************************)
(* No client gets more than two windows' worth of requests in any stretch  *)
(* as long as a window, and every bucket counts what its client was        *)
(* allowed, for any clients, limit, window and number of buckets.          *)
(***************************************************************************)
EXTENDS GeocodingRateLimit, FiniteSetTheorems, TLAPS

\* How many requests of a history are in the times of T.
In(history, T) == Cardinality(RequestsIn(history, T))

\* The history of a client up to a time.
History(clock) ==
    {h \in [0..MaxTime -> Nat] :
        /\ \A u \in 0..MaxTime : u > clock => h[u] = 0
        /\ IsFiniteSet(RequestsIn(h, 0..MaxTime))}

\* In the time before s that one stretch can share with s, a client got no more
\* than one window allows.
Before(h, s) == \A t \in 0..s : t > s - windowMs => In(h, t..s - 1) <= limit

\* What a bucket says about the history of its client, and what there is to say
\* about a client whose last window is over.
InWindow(b, h, clock) ==
    LET s == b.resetAt - windowMs
    IN  /\ In(h, s..clock) = IF b.count > limit THEN limit ELSE b.count
        /\ Before(h, s)
NoWindow(h, clock) == h[clock] = 0 /\ Before(h, clock)

TwoWindows(h, clock) ==
    \A t \in 0..clock : In(h, {u \in t..t + windowMs - 1 : u <= clock}) <= 2 * limit

BucketType(clock) == [count : 1..limit + 1, resetAt : windowMs..clock + windowMs]

\* The inductive invariant.
RateInv ==
    /\ DOMAIN buckets \subseteq Clients /\ IsFiniteSet(DOMAIN buckets)
    /\ Cardinality(DOMAIN buckets) <= maximumBuckets
    /\ \A c \in DOMAIN buckets : buckets[c] \in BucketType(now)
    /\ now \in 0..MaxTime
    /\ admitted \in [Clients -> History(now)]
    /\ \A c \in Clients :
          /\ IF HasBucket(c) THEN InWindow(buckets[c], admitted[c], now)
                             ELSE NoWindow(admitted[c], now)
          /\ TwoWindows(admitted[c], now)

-----------------------------------------------------------------------------
(* Counting requests.                                                      *)

LEMMA RequestElements ==
    ASSUME NEW h, NEW T, NEW x
    PROVE  x \in RequestsIn(h, T) <=> \E u \in T : x \in {u} \X (1..h[u])
  BY DEF RequestsIn

\* More times hold more requests.
LEMMA InSubset ==
    ASSUME NEW clock, NEW h \in History(clock),
           NEW T \in SUBSET (0..MaxTime), NEW S \in SUBSET T
    PROVE  /\ IsFiniteSet(RequestsIn(h, S)) /\ IsFiniteSet(RequestsIn(h, T))
           /\ In(h, S) \in Nat /\ In(h, T) \in Nat /\ In(h, S) <= In(h, T)
<1>1. RequestsIn(h, S) \subseteq RequestsIn(h, T)
  BY DEF RequestsIn
<1>2. RequestsIn(h, T) \subseteq RequestsIn(h, 0..MaxTime)
  BY DEF RequestsIn
<1>3. IsFiniteSet(RequestsIn(h, 0..MaxTime))
  BY DEF History
<1>4. IsFiniteSet(RequestsIn(h, T))
  BY <1>2, <1>3, FS_Subset
<1> QED BY <1>1, <1>4, FS_Subset, FS_CardinalityType DEF In

\* The requests of two stretches are at most those of each.
LEMMA InUnion ==
    ASSUME NEW clock, NEW h \in History(clock),
           NEW S \in SUBSET (0..MaxTime), NEW T \in SUBSET (0..MaxTime)
    PROVE  In(h, S \union T) <= In(h, S) + In(h, T)
<1> DEFINE A == RequestsIn(h, S)
           B == RequestsIn(h, T)
<1>1. RequestsIn(h, S \union T) = A \union B
  BY DEF RequestsIn
<1>2. IsFiniteSet(A) /\ IsFiniteSet(B)
  BY InSubset
<1>3. In(h, S \union T) = Cardinality(A \union B)
  BY <1>1 DEF In
<1>4. In(h, S) = Cardinality(A) /\ In(h, T) = Cardinality(B)
  BY DEF In
<1> HIDE DEF A, B
<1>5. /\ Cardinality(A \union B) = Cardinality(A) + Cardinality(B) - Cardinality(A \cap B)
      /\ IsFiniteSet(A \cap B)
  BY <1>2, FS_Union, FS_Intersection
<1>6. Cardinality(A) \in Nat /\ Cardinality(B) \in Nat /\ Cardinality(A \cap B) \in Nat
  BY <1>2, <1>5, FS_CardinalityType
<1> QED BY <1>3, <1>4, <1>5, <1>6

\* Times without requests do not count.
LEMMA InWithoutZeros ==
    ASSUME NEW h, NEW T, NEW S \in SUBSET T, \A u \in T \ S : h[u] = 0
    PROVE  In(h, T) = In(h, S)
<1>1. \A u \in T \ S : {u} \X (1..h[u]) = {}
  OBVIOUS
<1>2. \A x : x \in RequestsIn(h, T) <=> x \in RequestsIn(h, S)
  BY <1>1, RequestElements
<1>3. RequestsIn(h, T) = RequestsIn(h, S)
  BY <1>2
<1> QED BY <1>3 DEF In

LEMMA InNothing ==
    ASSUME NEW h, NEW T, \A u \in T : h[u] = 0
    PROVE  In(h, T) = 0 /\ IsFiniteSet(RequestsIn(h, T))
<1>1. RequestsIn(h, T) = {}
  <2>1. \A u \in T : {u} \X (1..h[u]) = {}
    OBVIOUS
  <2> QED BY <2>1 DEF RequestsIn
<1> QED BY <1>1, FS_EmptySet DEF In

\* A request that is let through now counts in every stretch up to now.
LEMMA InAdmitted ==
    ASSUME NEW clock \in 0..MaxTime, NEW h \in History(clock)
    PROVE  LET h2 == [h EXCEPT ![clock] = @ + 1]
           IN  /\ h2 \in History(clock)
               /\ \A T \in SUBSET (0..MaxTime) :
                     In(h2, T) = IF clock \in T THEN In(h, T) + 1 ELSE In(h, T)
<1> DEFINE h2 == [h EXCEPT ![clock] = @ + 1]
           last == <<clock, h[clock] + 1>>
<1>1. /\ h \in [0..MaxTime -> Nat] /\ h2 \in [0..MaxTime -> Nat] /\ h2[clock] = h[clock] + 1
      /\ \A u \in (0..MaxTime) \ {clock} : h2[u] = h[u]
  BY DEF History
<1>2. 1..h[clock] + 1 = (1..h[clock]) \union {h[clock] + 1} /\ h[clock] + 1 \notin 1..h[clock]
  BY <1>1
<1>3. last \in {clock} \X (1..h2[clock])
  BY <1>1
<1> HIDE DEF h2
<1>4. ASSUME NEW T \in SUBSET (0..MaxTime), clock \in T
      PROVE  /\ last \notin RequestsIn(h, T)
             /\ RequestsIn(h2, T) = RequestsIn(h, T) \union {last}
  <2>1. last \notin RequestsIn(h, T)
    <3> SUFFICES ASSUME last \in RequestsIn(h, T) PROVE FALSE
      OBVIOUS
    <3>1. PICK v \in T : last \in {v} \X (1..h[v])
      BY RequestElements
    <3> QED BY <1>2, <3>1
  <2>2. ASSUME NEW x \in RequestsIn(h2, T)
        PROVE  x \in RequestsIn(h, T) \union {last}
    <3>1. PICK v \in T : x \in {v} \X (1..h2[v])
      BY RequestElements
    <3>2. CASE v = clock
      <4>1. x \in {clock} \X (1..h[clock]) \/ x = last
        BY <1>1, <1>2, <3>1, <3>2
      <4> QED BY <1>4, <4>1, RequestElements
    <3>3. CASE v # clock
      BY <1>1, <3>1, <3>3, RequestElements
    <3> QED BY <3>2, <3>3
  <2>3. ASSUME NEW x \in RequestsIn(h, T)
        PROVE  x \in RequestsIn(h2, T)
    <3>1. PICK v \in T : x \in {v} \X (1..h[v])
      BY RequestElements
    <3>2. x \in {v} \X (1..h2[v])
      BY <1>1, <1>2, <3>1
    <3> QED BY <3>1, <3>2, RequestElements
  <2>4. last \in RequestsIn(h2, T)
    BY <1>3, <1>4, RequestElements
  <2> QED BY <2>1, <2>2, <2>3, <2>4
<1> HIDE DEF last
<1>5. ASSUME NEW T \in SUBSET (0..MaxTime)
      PROVE  /\ IsFiniteSet(RequestsIn(h2, T))
             /\ In(h2, T) = IF clock \in T THEN In(h, T) + 1 ELSE In(h, T)
  <2>0. IsFiniteSet(RequestsIn(h, T))
    BY InSubset
  <2>1. CASE clock \in T
    BY <1>4, <2>0, <2>1, FS_AddElement DEF In
  <2>2. CASE clock \notin T
    <3>1. \A u \in T : h2[u] = h[u]
      BY <1>1, <2>2
    <3>2. RequestsIn(h2, T) = RequestsIn(h, T)
      BY <3>1 DEF RequestsIn
    <3> QED BY <2>0, <2>2, <3>2 DEF In
  <2> QED BY <2>1, <2>2
<1>6. h2 \in History(clock)
  <2>1. \A u \in 0..MaxTime : u > clock => h2[u] = 0
    BY <1>1 DEF History
  <2>2. IsFiniteSet(RequestsIn(h2, 0..MaxTime))
    BY <1>5
  <2> QED BY <1>1, <2>1, <2>2 DEF History
<1> QED BY <1>5, <1>6 DEF h2

-----------------------------------------------------------------------------
(* The history of one client.                                              *)

LEMMA FreshHistory ==
    ASSUME NEW clock \in 0..MaxTime
    PROVE  /\ NoRequests \in History(clock) /\ NoWindow(NoRequests, clock)
           /\ TwoWindows(NoRequests, clock)
<1>1. NoRequests \in [0..MaxTime -> Nat] /\ \A u \in 0..MaxTime : NoRequests[u] = 0
  BY DEF NoRequests
<1>2. \A T \in SUBSET (0..MaxTime) : In(NoRequests, T) = 0 /\ IsFiniteSet(RequestsIn(NoRequests, T))
  BY <1>1, InNothing
<1>3. limit \in Nat /\ MaxTime \in Nat
  BY LimitsAssumption
<1>4. \A t \in 0..clock : /\ t..clock - 1 \in SUBSET (0..MaxTime)
                          /\ {u \in t..t + windowMs - 1 : u <= clock} \in SUBSET (0..MaxTime)
  BY <1>3
<1>5. NoRequests \in History(clock)
  BY <1>1, <1>2 DEF History
<1>6. NoWindow(NoRequests, clock)
  BY <1>1, <1>2, <1>3, <1>4 DEF NoWindow, Before
<1>7. TwoWindows(NoRequests, clock)
  BY <1>2, <1>3, <1>4 DEF TwoWindows
<1> QED BY <1>5, <1>6, <1>7

\* Time passes: a window goes on or ends.
LEMMA HistoryTicks ==
    ASSUME NEW clock \in 0..MaxTime, NEW next \in 0..MaxTime, next = clock + 1,
           NEW h \in History(clock)
    PROVE  /\ h \in History(next)
           /\ NoWindow(h, clock) => NoWindow(h, next)
           /\ \A b \in BucketType(clock) :
                 b.resetAt > clock /\ InWindow(b, h, clock)
                 => IF b.resetAt > next THEN InWindow(b, h, next) ELSE NoWindow(h, next)
           /\ TwoWindows(h, clock) => TwoWindows(h, next)
<1>0. /\ limit \in Nat \ {0} /\ windowMs \in Nat \ {0} /\ MaxTime \in Nat
      /\ clock \in Nat /\ next \in Nat
  BY LimitsAssumption
<1>1. h[next] = 0 /\ h \in [0..MaxTime -> Nat]
  BY <1>0 DEF History
<1>2. h \in History(next)
  BY <1>0 DEF History
<1>3. ASSUME NEW t \in 0..clock
      PROVE  In(h, t..next) = In(h, t..clock)
  <2>1. t..clock \in SUBSET (t..next) /\ \A u \in (t..next) \ (t..clock) : u = next
    BY <1>0
  <2>2. \A u \in (t..next) \ (t..clock) : h[u] = 0
    BY <1>1, <2>1
  <2>3. t..clock \in SUBSET (t..next)
    BY <2>1
  <2> QED BY <2>2, <2>3, InWithoutZeros
<1>4. ASSUME \A t \in 0..clock : t > next - windowMs => In(h, t..clock) <= limit
      PROVE  NoWindow(h, next)
  <2>1. ASSUME NEW t \in 0..next, t > next - windowMs
        PROVE  In(h, t..next - 1) <= limit
    <3>1. t..next - 1 = t..clock
      BY <1>0
    <3>2. CASE t = next
      <4>1. t..clock = {}
        BY <1>0, <3>2
      <4>2. In(h, {}) = 0
        BY InNothing
      <4> QED BY <1>0, <3>1, <4>1, <4>2
    <3>3. CASE t # next
      <4>1. t \in 0..clock
        BY <1>0, <3>3
      <4>2. In(h, t..clock) <= limit
        BY <1>4, <2>1, <4>1
      <4> QED BY <3>1, <4>2
    <3> QED BY <3>2, <3>3
  <2> QED BY <1>1, <2>1 DEF NoWindow, Before
<1>5. ASSUME NoWindow(h, clock)
      PROVE  NoWindow(h, next)
  <2>1. ASSUME NEW t \in 0..clock, t > next - windowMs
        PROVE  In(h, t..clock) <= limit
    <3>1. t > clock - windowMs
      BY <1>0, <2>1
    <3>2. In(h, t..clock - 1) <= limit
      BY <1>5, <3>1 DEF NoWindow, Before
    <3>3. t..clock - 1 \in SUBSET (t..clock) /\ \A u \in (t..clock) \ (t..clock - 1) : u = clock
      BY <1>0
    <3>4. h[clock] = 0
      BY <1>5 DEF NoWindow
    <3>5. In(h, t..clock) = In(h, t..clock - 1)
      BY <3>3, <3>4, InWithoutZeros
    <3> QED BY <3>2, <3>5
  <2> QED BY <1>4, <2>1
<1>6. ASSUME NEW b \in BucketType(clock), b.resetAt > clock, InWindow(b, h, clock)
      PROVE  IF b.resetAt > next THEN InWindow(b, h, next) ELSE NoWindow(h, next)
  <2> DEFINE s == b.resetAt - windowMs
  <2>1. /\ s \in 0..clock /\ b.resetAt = s + windowMs /\ b.count \in Nat
        /\ b.resetAt \in Nat
    BY <1>0, <1>6 DEF BucketType
  <2>2. /\ In(h, s..clock) = IF b.count > limit THEN limit ELSE b.count
        /\ Before(h, s)
    BY <1>6 DEF InWindow
  <2>3. CASE b.resetAt > next
    <3>1. In(h, s..next) = In(h, s..clock)
      BY <1>3, <2>1
    <3>2. InWindow(b, h, next)
      BY <2>2, <3>1 DEF InWindow
    <3> QED BY <2>3, <3>2
  <2>4. CASE ~(b.resetAt > next)
    <3> HIDE DEF s
    <3>1. s = next - windowMs
      BY <1>0, <1>6, <2>1, <2>4
    <3>2. ASSUME NEW t \in 0..clock, t > next - windowMs
          PROVE  In(h, t..clock) <= limit
      <4>1. t..clock \in SUBSET (s..clock) /\ s..clock \in SUBSET (0..MaxTime)
        BY <1>0, <2>1, <3>1, <3>2
      <4>2. /\ In(h, t..clock) \in Nat /\ In(h, s..clock) \in Nat
            /\ In(h, t..clock) <= In(h, s..clock)
        BY <4>1, InSubset
      <4> QED BY <1>0, <2>1, <2>2, <4>2
    <3>3. NoWindow(h, next)
      BY <1>4, <3>2
    <3> QED BY <2>4, <3>3
  <2> QED BY <2>3, <2>4
<1>7. ASSUME TwoWindows(h, clock)
      PROVE  TwoWindows(h, next)
  <2>1. ASSUME NEW t \in 0..next
        PROVE  In(h, {u \in t..t + windowMs - 1 : u <= next}) <= 2 * limit
    <3> DEFINE T2 == {u \in t..t + windowMs - 1 : u <= next}
               T == {u \in t..t + windowMs - 1 : u <= clock}
    <3>1. T \in SUBSET T2 /\ \A u \in T2 \ T : u = next
      BY <1>0
    <3>2. CASE t = next
      <4>1. T = {}
        BY <1>0, <3>2
      <4> HIDE DEF T, T2
      <4>2. In(h, T2) = 0
        BY <1>1, <3>1, <4>1, InNothing
      <4> QED BY <1>0, <4>2 DEF T2
    <3>3. CASE t # next
      <4>1. t \in 0..clock
        BY <1>0, <3>3
      <4>2. In(h, T) <= 2 * limit
        BY <1>7, <4>1 DEF TwoWindows
      <4> HIDE DEF T, T2
      <4>3. In(h, T2) = In(h, T)
        BY <1>1, <3>1, InWithoutZeros
      <4> QED BY <4>2, <4>3 DEF T2
    <3> QED BY <3>2, <3>3
  <2> QED BY <2>1 DEF TwoWindows
<1> QED BY <1>2, <1>5, <1>6, <1>7

\* A window starts with a request.
LEMMA WindowOpens ==
    ASSUME NEW clock \in 0..MaxTime, NEW h \in History(clock), NoWindow(h, clock)
    PROVE  InWindow([count |-> 1, resetAt |-> clock + windowMs],
                    [h EXCEPT ![clock] = @ + 1], clock)
<1> DEFINE h2 == [h EXCEPT ![clock] = @ + 1]
           b == [count |-> 1, resetAt |-> clock + windowMs]
<1>0. limit \in Nat \ {0} /\ windowMs \in Nat \ {0} /\ MaxTime \in Nat /\ clock \in Nat
  BY LimitsAssumption
<1>1. \A T \in SUBSET (0..MaxTime) :
         In(h2, T) = IF clock \in T THEN In(h, T) + 1 ELSE In(h, T)
  BY InAdmitted
<1>2. b.resetAt - windowMs = clock /\ b.count = 1
  BY <1>0
<1> HIDE DEF h2, b
<1>3. In(h2, clock..clock) = 1
  <2>1. clock..clock = {clock} /\ {clock} \in SUBSET (0..MaxTime)
    BY <1>0
  <2>2. In(h, {clock}) = 0
    BY InNothing DEF NoWindow
  <2> QED BY <1>1, <2>1, <2>2
<1>4. ASSUME NEW t \in 0..clock, t > clock - windowMs
      PROVE  In(h2, t..clock - 1) <= limit
  <2>1. t..clock - 1 \in SUBSET (0..MaxTime) /\ clock \notin t..clock - 1
    BY <1>0
  <2> QED BY <1>1, <1>4, <2>1 DEF NoWindow, Before
<1>5. Before(h2, clock)
  BY <1>4 DEF Before
<1>6. In(h2, b.resetAt - windowMs..clock) = 1 /\ Before(h2, b.resetAt - windowMs)
  BY <1>2, <1>3, <1>5
<1>7. InWindow(b, h2, clock)
  BY <1>0, <1>2, <1>6 DEF InWindow
<1> QED BY <1>7 DEF h2, b

\* A request in a window is let through and counted ...
LEMMA WindowCounts ==
    ASSUME NEW clock \in 0..MaxTime, NEW h \in History(clock),
           NEW b \in BucketType(clock), b.resetAt > clock, InWindow(b, h, clock),
           b.count < limit
    PROVE  InWindow([b EXCEPT !.count = b.count + 1], [h EXCEPT ![clock] = @ + 1], clock)
<1> DEFINE h2 == [h EXCEPT ![clock] = @ + 1]
           b2 == [b EXCEPT !.count = b.count + 1]
           s == b.resetAt - windowMs
<1>0. /\ limit \in Nat \ {0} /\ windowMs \in Nat \ {0} /\ MaxTime \in Nat /\ clock \in Nat
      /\ b.count \in Nat /\ b.resetAt \in Nat /\ s \in 0..clock
  BY LimitsAssumption DEF BucketType
<1>1. \A T \in SUBSET (0..MaxTime) :
         In(h2, T) = IF clock \in T THEN In(h, T) + 1 ELSE In(h, T)
  BY InAdmitted
<1>2. b2.count = b.count + 1 /\ b2.resetAt - windowMs = s
  BY DEF BucketType
<1> HIDE DEF h2, b2
<1>3. In(h, s..clock) = b.count
  BY <1>0 DEF InWindow
<1> HIDE DEF s
<1>4. In(h2, s..clock) = b.count + 1
  <2>1. s..clock \in SUBSET (0..MaxTime) /\ clock \in s..clock
    BY <1>0
  <2> QED BY <1>1, <1>3, <2>1
<1>5. ASSUME NEW t \in 0..s, t > s - windowMs
      PROVE  In(h2, t..s - 1) <= limit
  <2>1. t..s - 1 \in SUBSET (0..MaxTime) /\ clock \notin t..s - 1
    BY <1>0
  <2> QED BY <1>1, <1>5, <2>1 DEF InWindow, Before, s
<1>6. Before(h2, s)
  BY <1>5 DEF Before
<1>7. In(h2, b2.resetAt - windowMs..clock) = b2.count /\ Before(h2, b2.resetAt - windowMs)
  BY <1>2, <1>4, <1>6
<1>8. InWindow(b2, h2, clock)
  BY <1>0, <1>2, <1>7 DEF InWindow
<1> QED BY <1>8 DEF h2, b2

\* ... or refused, at the limit, and counted as well.
LEMMA WindowRefuses ==
    ASSUME NEW clock \in 0..MaxTime, NEW h \in History(clock),
           NEW b \in BucketType(clock), InWindow(b, h, clock), b.count >= limit,
           NEW n \in Nat, n > limit
    PROVE  InWindow([b EXCEPT !.count = n], h, clock)
<1> DEFINE b2 == [b EXCEPT !.count = n]
<1>1. limit \in Nat /\ b.count \in Nat /\ (b.count > limit \/ b.count = limit)
  BY LimitsAssumption DEF BucketType
<1>2. b2.count = n /\ b2.resetAt = b.resetAt
  BY DEF BucketType
<1> HIDE DEF b2
<1>3. In(h, b.resetAt - windowMs..clock) = limit /\ Before(h, b.resetAt - windowMs)
  BY <1>1 DEF InWindow
<1>4. InWindow(b2, h, clock)
  BY <1>1, <1>2, <1>3 DEF InWindow
<1> QED BY <1>4 DEF b2

\* What is let through in a window adds to one more window at most.
LEMMA AdmittedFits ==
    ASSUME NEW clock \in 0..MaxTime, NEW h \in History(clock), TwoWindows(h, clock),
           NEW b \in BucketType(clock), b.resetAt > clock,
           InWindow(b, [h EXCEPT ![clock] = @ + 1], clock)
    PROVE  TwoWindows([h EXCEPT ![clock] = @ + 1], clock)
<1> DEFINE h2 == [h EXCEPT ![clock] = @ + 1]
           s == b.resetAt - windowMs
<1>0. /\ limit \in Nat \ {0} /\ windowMs \in Nat \ {0} /\ MaxTime \in Nat /\ clock \in Nat
      /\ b.count \in Nat /\ s \in 0..clock
  BY LimitsAssumption DEF BucketType
<1>1. /\ h2 \in History(clock)
      /\ \A T \in SUBSET (0..MaxTime) :
            In(h2, T) = IF clock \in T THEN In(h, T) + 1 ELSE In(h, T)
  BY InAdmitted
<1>2. In(h2, s..clock) <= limit /\ Before(h2, s)
  BY <1>0 DEF InWindow
<1> HIDE DEF h2, s
<1>3. ASSUME NEW t \in 0..clock
      PROVE  In(h2, {u \in t..t + windowMs - 1 : u <= clock}) <= 2 * limit
  <2> DEFINE T == {u \in t..t + windowMs - 1 : u <= clock}
  <2>1. CASE t + windowMs - 1 < clock
    <3>1. T \in SUBSET (0..MaxTime) /\ clock \notin T
      BY <1>0, <2>1
    <3>2. In(h2, T) = In(h, T)
      BY <1>1, <3>1
    <3> QED BY <3>2 DEF TwoWindows
  <2>2. CASE t + windowMs - 1 >= clock /\ t >= s
    <3>1. T \in SUBSET (s..clock) /\ s..clock \in SUBSET (0..MaxTime)
      BY <1>0, <2>2
    <3> HIDE DEF T
    <3>2. In(h2, T) \in Nat /\ In(h2, s..clock) \in Nat /\ In(h2, T) <= In(h2, s..clock)
      BY <1>1, <3>1, InSubset
    <3>3. In(h2, T) <= 2 * limit
      BY <1>0, <1>2, <3>2
    <3> QED BY <3>3 DEF T
  <2>3. CASE t + windowMs - 1 >= clock /\ t < s
    <3>1. /\ T = (t..s - 1) \union (s..clock)
          /\ t..s - 1 \in SUBSET (0..MaxTime) /\ s..clock \in SUBSET (0..MaxTime)
      BY <1>0, <2>3
    <3>2. t \in 0..s /\ t > s - windowMs
      BY <1>0, <2>3
    <3> HIDE DEF T
    <3>3. In(h2, t..s - 1) <= limit
      BY <1>2, <3>2 DEF Before
    <3>4. /\ In(h2, T) <= In(h2, t..s - 1) + In(h2, s..clock)
          /\ In(h2, t..s - 1) \in Nat /\ In(h2, s..clock) \in Nat
      BY <1>1, <3>1, InUnion, InSubset
    <3>5. In(h2, T) \in Nat
      <4>1. T \in SUBSET (0..MaxTime)
        BY <3>1
      <4> QED BY <1>1, <4>1, InSubset
    <3>6. In(h2, T) <= 2 * limit
      BY <1>0, <1>2, <3>3, <3>4, <3>5
    <3> QED BY <3>6 DEF T
  <2> QED BY <1>0, <2>1, <2>2, <2>3
<1> QED BY <1>3 DEF TwoWindows, h2

-----------------------------------------------------------------------------
(* The limiter.                                                            *)

LEMMA RateInit ==
    ASSUME Init
    PROVE  RateInv
<1>1. DOMAIN buckets = {} /\ now = 0 /\ now \in 0..MaxTime
      /\ admitted = [c \in Clients |-> NoRequests]
  BY LimitsAssumption DEF Init
<1>2. /\ NoRequests \in History(now) /\ NoWindow(NoRequests, now)
      /\ TwoWindows(NoRequests, now)
  BY <1>1, FreshHistory
<1>3. IsFiniteSet(DOMAIN buckets) /\ Cardinality(DOMAIN buckets) <= maximumBuckets
  <2>1. maximumBuckets \in Nat /\ Cardinality({}) = 0 /\ IsFiniteSet({})
    BY FS_EmptySet, LimitsAssumption
  <2> QED BY <1>1, <2>1
<1>4. admitted \in [Clients -> History(now)] /\ \A c \in Clients : admitted[c] = NoRequests
  BY <1>1, <1>2
<1>5. \A c \in Clients : ~HasBucket(c)
  BY <1>1 DEF HasBucket
<1> QED BY <1>1, <1>2, <1>3, <1>4, <1>5 DEF RateInv

LEMMA RateTick ==
    ASSUME RateInv, Tick
    PROVE  RateInv'
<1>1. now' = now + 1 /\ now \in 0..MaxTime /\ now' \in 0..MaxTime
      /\ buckets' = buckets /\ admitted' = admitted
  BY LimitsAssumption DEF Tick, RateInv
<1>2. \A c \in DOMAIN buckets : buckets[c] \in BucketType(now) /\ buckets[c] \in BucketType(now')
  <2>1. BucketType(now) \subseteq BucketType(now')
    BY <1>1, LimitsAssumption DEF BucketType
  <2> QED BY <2>1 DEF RateInv
<1>3. ASSUME NEW c \in Clients
      PROVE  /\ admitted[c] \in History(now')
             /\ IF HasBucket(c)' THEN InWindow(buckets[c], admitted[c], now')
                                 ELSE NoWindow(admitted[c], now')
             /\ TwoWindows(admitted[c], now')
  <2>1. /\ admitted[c] \in History(now) /\ TwoWindows(admitted[c], now)
        /\ IF HasBucket(c) THEN InWindow(buckets[c], admitted[c], now)
                           ELSE NoWindow(admitted[c], now)
    BY DEF RateInv
  <2>2. /\ admitted[c] \in History(now') /\ TwoWindows(admitted[c], now')
        /\ NoWindow(admitted[c], now) => NoWindow(admitted[c], now')
    BY <1>1, <2>1, HistoryTicks
  <2>3. CASE ~HasBucket(c)
    <3>1. ~HasBucket(c)'
      <4>1. c \in DOMAIN buckets => buckets[c].resetAt \in Int
        BY <1>1, <1>2, LimitsAssumption DEF BucketType
      <4> QED BY <1>1, <2>3, <4>1 DEF HasBucket
    <3> QED BY <2>1, <2>2, <2>3, <3>1
  <2>4. CASE HasBucket(c)
    <3>1. buckets[c] \in BucketType(now) /\ buckets[c].resetAt > now
      BY <1>2, <2>4 DEF HasBucket
    <3>2. IF buckets[c].resetAt > now' THEN InWindow(buckets[c], admitted[c], now')
                                       ELSE NoWindow(admitted[c], now')
      BY <1>1, <2>1, <2>4, <3>1, HistoryTicks
    <3>3. HasBucket(c)' <=> buckets[c].resetAt > now'
      BY <1>1, <2>4 DEF HasBucket
    <3> QED BY <2>2, <3>2, <3>3
  <2> QED BY <2>3, <2>4
<1>4. admitted' \in [Clients -> History(now')]
  BY <1>1, <1>3 DEF RateInv
<1> QED BY <1>1, <1>2, <1>3, <1>4 DEF RateInv

\* A request changes its client's bucket and history, and evicts others.
LEMMA RequestCounted ==
    ASSUME RateInv, NEW c \in Clients, now' = now,
           NEW K \in SUBSET DOMAIN buckets, Cardinality(K \union {c}) <= maximumBuckets,
           NEW b \in BucketType(now), b.resetAt > now,
           NEW h \in History(now), InWindow(b, h, now), TwoWindows(h, now),
           buckets' = [d \in K \union {c} |-> IF d = c THEN b ELSE buckets[d]],
           admitted' = [d \in Clients |->
               IF d = c THEN h ELSE IF d \in Live \ K THEN NoRequests ELSE admitted[d]]
    PROVE  RateInv'
<1>1. /\ DOMAIN buckets' = K \union {c} /\ buckets'[c] = b
      /\ \A d \in K \ {c} : buckets'[d] = buckets[d]
  OBVIOUS
<1>2. DOMAIN buckets \subseteq Clients /\ IsFiniteSet(DOMAIN buckets) /\ now \in 0..MaxTime
      /\ \A d \in DOMAIN buckets : buckets[d] \in BucketType(now)
  BY DEF RateInv
<1>3. DOMAIN buckets' \subseteq Clients /\ IsFiniteSet(DOMAIN buckets')
  <2>1. IsFiniteSet(K)
    BY <1>2, FS_Subset
  <2>2. IsFiniteSet(K \union {c})
    BY <2>1, FS_AddElement
  <2> QED BY <1>1, <1>2, <2>2
<1>4. \A d \in DOMAIN buckets' : buckets'[d] \in BucketType(now)
  BY <1>1, <1>2
<1>5. /\ NoRequests \in History(now) /\ NoWindow(NoRequests, now)
      /\ TwoWindows(NoRequests, now)
  BY <1>2, FreshHistory
<1>6. admitted' \in [Clients -> History(now)]
  BY <1>5 DEF RateInv
<1>7. ASSUME NEW d \in Clients
      PROVE  /\ IF HasBucket(d)' THEN InWindow(buckets'[d], admitted'[d], now)
                                 ELSE NoWindow(admitted'[d], now)
             /\ TwoWindows(admitted'[d], now)
  <2>1. CASE d = c
    <3>1. HasBucket(d)' /\ admitted'[d] = h /\ buckets'[d] = b
      BY <1>1, <2>1 DEF HasBucket
    <3> QED BY <3>1
  <2>2. CASE d # c /\ d \in K
    <3>1. /\ d \in DOMAIN buckets' /\ d \in DOMAIN buckets /\ buckets'[d] = buckets[d]
          /\ admitted'[d] = admitted[d]
      BY <1>1, <2>2
    <3>2. HasBucket(d)' <=> HasBucket(d)
      BY <3>1 DEF HasBucket
    <3> QED BY <3>1, <3>2 DEF RateInv
  <2>3. CASE d # c /\ d \notin K
    <3>1. ~HasBucket(d)'
      BY <1>1, <2>3 DEF HasBucket
    <3>2. CASE d \in Live
      <4>1. admitted'[d] = NoRequests
        BY <2>3, <3>2
      <4> QED BY <1>5, <3>1, <4>1
    <3>3. CASE d \notin Live
      <4>1. admitted'[d] = admitted[d] /\ ~HasBucket(d)
        BY <2>3, <3>3 DEF Live, HasBucket
      <4> QED BY <3>1, <4>1 DEF RateInv
    <3> QED BY <3>2, <3>3
  <2> QED BY <2>1, <2>2, <2>3
<1> QED BY <1>1, <1>2, <1>3, <1>4, <1>6, <1>7 DEF RateInv

\* One more element is at most one more in number.
LEMMA OneMore ==
    ASSUME NEW S, NEW x, IsFiniteSet(S)
    PROVE  /\ Cardinality(S \union {x}) <= Cardinality(S) + 1
           /\ Cardinality(S \union {x}) \in Nat
<1>1. Cardinality(S) \in Nat
  BY FS_CardinalityType
<1>2. Cardinality(S \union {x}) = IF x \in S THEN Cardinality(S) ELSE Cardinality(S) + 1
  BY FS_AddElement
<1> QED BY <1>1, <1>2

\* There is room for one more bucket.
LEMMA RoomForOne ==
    ASSUME RateInv, NEW c, NEW kept \in Room
    PROVE  /\ kept \in SUBSET DOMAIN buckets /\ kept \subseteq Live
           /\ Cardinality(kept \union {c}) <= maximumBuckets
<1>1. kept \subseteq Live /\ Live \subseteq DOMAIN buckets
  BY DEF Room, Live
<1>2. IsFiniteSet(DOMAIN buckets) /\ maximumBuckets \in Nat \ {0}
  BY LimitsAssumption DEF RateInv
<1>3. IsFiniteSet(kept)
  BY <1>1, <1>2, FS_Subset
<1>4. Cardinality(kept) \in Nat /\ Cardinality(kept) < maximumBuckets
  <2>1. Cardinality(kept) \in Nat
    BY <1>3, FS_CardinalityType
  <2> QED BY <1>2, <2>1 DEF Room
<1>5. Cardinality(kept \union {c}) <= Cardinality(kept) + 1 /\ Cardinality(kept \union {c}) \in Nat
  BY <1>3, OneMore
<1> QED BY <1>1, <1>2, <1>4, <1>5

LEMMA RateRequest ==
    ASSUME RateInv, NEW c \in Clients, Admit(c) \/ RateLimited(c)
    PROVE  RateInv'
<1> DEFINE b == buckets[c]
           h == admitted[c]
           more == [h EXCEPT ![now] = @ + 1]
<1>0. /\ limit \in Nat \ {0} /\ windowMs \in Nat \ {0} /\ now' = now /\ now \in 0..MaxTime
      /\ now \in Nat /\ h \in History(now) /\ h \in [0..MaxTime -> Nat]
      /\ TwoWindows(h, now)
  BY LimitsAssumption DEF Admit, RateLimited, RateInv, History
<1>1. more \in History(now)
  BY <1>0, InAdmitted
<1>2. CASE HasBucket(c)
  <2> DEFINE n == IF b.count > limit THEN b.count ELSE b.count + 1
             b2 == [b EXCEPT !.count = n]
             K == DOMAIN buckets
  <2>1. c \in K /\ b \in BucketType(now) /\ b.resetAt > now /\ InWindow(b, h, now)
    BY <1>2 DEF HasBucket, RateInv
  <2>2. b.count \in 1..limit + 1 /\ n \in 1..limit + 1 /\ n \in Nat
    BY <1>0, <2>1 DEF BucketType
  <2>3. b2.count = n /\ b2.resetAt = b.resetAt /\ b2 \in BucketType(now)
    BY <2>1, <2>2 DEF BucketType
  <2>4. buckets' = [buckets EXCEPT ![c].count = n] /\ buckets'[c].count = n
        /\ (Admit(c) => n <= limit) /\ (RateLimited(c) => n > limit)
    <3>1. Counted(c) = {[buckets EXCEPT ![c].count = n]}
      BY <1>2 DEF Counted
    <3>2. [buckets EXCEPT ![c].count = n][c].count = n
      BY <2>1, <2>3
    <3> QED BY <3>1, <3>2 DEF Admit, RateLimited
  <2>5. K \union {c} = K /\ Cardinality(K \union {c}) <= maximumBuckets
    <3>1. K \union {c} = K
      BY <2>1
    <3> QED BY <3>1 DEF RateInv
  <2>6. buckets' = [d \in K \union {c} |-> IF d = c THEN b2 ELSE buckets[d]] /\ DOMAIN buckets' = K
    BY <2>1, <2>4
  <2> HIDE DEF b2, n, K
  <2>7. Live \ DOMAIN buckets' = {} /\ Live \ K = {}
    BY <2>6 DEF Live, K
  <2>8. CASE Admit(c)
    <3>1. b.count < limit /\ n = b.count + 1
      BY <1>0, <2>2, <2>4, <2>8 DEF n
    <3>2. InWindow(b2, more, now)
      BY <1>0, <2>1, <3>1, WindowCounts DEF b2
    <3>3. TwoWindows(more, now)
      BY <1>0, <2>1, <2>3, <3>2, AdmittedFits
    <3>4. admitted' = [d \in Clients |->
             IF d = c THEN more ELSE IF d \in Live \ K THEN NoRequests ELSE admitted[d]]
      <4>1. admitted' = [d \in Clients |-> [admitted EXCEPT ![c][now] = @ + 1][d]]
        BY <2>7, <2>8 DEF Admit, Remember
      <4>2. admitted \in [Clients -> History(now)]
        BY DEF RateInv
      <4> QED BY <2>7, <4>1, <4>2
    <3> HIDE DEF more, h, b
    <3> QED BY <1>0, <1>1, <2>1, <2>3, <2>5, <2>6, <3>2, <3>3, <3>4, RequestCounted DEF K
  <2>9. CASE RateLimited(c)
    <3>1. b.count >= limit /\ n > limit
      BY <1>0, <2>2, <2>4, <2>9 DEF n
    <3>2. InWindow(b2, h, now)
      BY <1>0, <2>1, <2>2, <3>1, WindowRefuses DEF b2
    <3>3. admitted' = [d \in Clients |->
             IF d = c THEN h ELSE IF d \in Live \ K THEN NoRequests ELSE admitted[d]]
      BY <2>7, <2>9 DEF RateLimited, Remember
    <3> HIDE DEF h, b
    <3> QED BY <1>0, <2>1, <2>3, <2>5, <2>6, <3>2, <3>3, RequestCounted DEF K
  <2> QED BY <2>8, <2>9
<1>3. CASE ~HasBucket(c)
  <2> DEFINE b2 == [count |-> 1, resetAt |-> now + windowMs]
  <2>1. PICK kept \in Room : buckets' = Opened(c, kept)
    BY <1>3 DEF Admit, RateLimited, Counted
  <2>2. buckets' = [d \in kept \union {c} |-> IF d = c THEN b2 ELSE buckets[d]]
    BY <2>1 DEF Opened
  <2>3. b2 \in BucketType(now) /\ b2.resetAt > now /\ b2.count = 1
    BY <1>0 DEF BucketType
  <2>4. buckets'[c] = b2 /\ DOMAIN buckets' = kept \union {c}
    BY <2>2
  <2> HIDE DEF b2
  <2>5. Admit(c)
    <3>1. ~RateLimited(c)
      <4>1. RateLimited(c) => buckets'[c].count > limit
        BY DEF RateLimited
      <4> QED BY <1>0, <2>3, <2>4, <4>1
    <3> QED BY <3>1
  <2>6. kept \in SUBSET DOMAIN buckets /\ kept \subseteq Live
        /\ Cardinality(kept \union {c}) <= maximumBuckets
    BY RoomForOne
  <2>7. c \notin Live
    BY <1>3 DEF Live, HasBucket
  <2>8. NoWindow(h, now)
    BY <1>3 DEF RateInv
  <2>9. InWindow(b2, more, now)
    BY <1>0, <2>8, WindowOpens DEF b2
  <2>10. TwoWindows(more, now)
    BY <1>0, <2>3, <2>9, AdmittedFits
  <2>11. admitted' = [d \in Clients |->
            IF d = c THEN more ELSE IF d \in Live \ kept THEN NoRequests ELSE admitted[d]]
    <3>1. Live \ DOMAIN buckets' = Live \ kept
      BY <2>4, <2>7
    <3>2. admitted \in [Clients -> History(now)]
      BY DEF RateInv
    <3>3. admitted' = [d \in Clients |->
             IF d \in Live \ kept THEN NoRequests ELSE [admitted EXCEPT ![c][now] = @ + 1][d]]
      BY <2>5, <3>1 DEF Admit, Remember
    <3> QED BY <2>7, <3>2, <3>3
  <2> HIDE DEF more, h
  <2> QED BY <1>0, <1>1, <2>2, <2>3, <2>6, <2>9, <2>10, <2>11, RequestCounted
<1> QED BY <1>2, <1>3

\* The buckets and histories of the rate limit fit together in every state.
LEMMA RateInductive ==
    Spec => []RateInv
<1>1. Init => RateInv
  BY RateInit
<1>2. RateInv /\ [Next]_vars => RateInv'
  <2> SUFFICES ASSUME RateInv, [Next]_vars PROVE RateInv'
    OBVIOUS
  <2>1. CASE UNCHANGED vars
    BY <2>1 DEF vars, RateInv, HasBucket
  <2>2. CASE Next
    BY <2>2, RateTick, RateRequest DEF Next
  <2> QED BY <2>1, <2>2
<1> QED BY <1>1, <1>2, PTL DEF Spec

LEMMA RateInvMeaning ==
    RateInv => TypeOK /\ RateIsLimited
<1> SUFFICES ASSUME RateInv PROVE TypeOK /\ RateIsLimited
  OBVIOUS
<1>1. TypeOK
  BY DEF RateInv, TypeOK, BucketType
<1>2. BucketCountsWindow
  <2>1. \A c \in Live : c \in Clients /\ HasBucket(c)
    BY DEF RateInv, Live, HasBucket
  <2> QED BY <2>1 DEF BucketCountsWindow, RateInv, InWindow, AdmittedIn, In
<1>3. AtMostTwoWindows
  BY DEF AtMostTwoWindows, RateInv, TwoWindows, AdmittedIn, In
<1> QED BY <1>1, <1>2, <1>3 DEF RateIsLimited

\* The Map holds one bucket for each of at most maximumBuckets clients, with
\* counts and ends as the guard writes them.
THEOREM RateTypeCorrect ==
    Spec => []TypeOK
<1>1. RateInv => TypeOK
  BY RateInvMeaning
<1> QED BY <1>1, RateInductive, PTL

\* Whatever requests of other clients, evictions and pruning come between, a
\* client is refused exactly when its window is used up, and gets at most twice
\* the limit in any stretch of time as long as a window.
THEOREM RateAlwaysLimited ==
    Spec => []RateIsLimited
<1>1. RateInv => RateIsLimited
  BY RateInvMeaning
<1> QED BY <1>1, RateInductive, PTL
=============================================================================

-------------------------- MODULE GeocodingRateLimit --------------------------
(***************************************************************************)
(* The rate limit in front of every geocoding endpoint.                    *)
(*                                                                         *)
(*   src/src/geocoding/rate-limit/geocoding-rate-limit.guard.ts            *)
(*                                                                         *)
(* canActivate runs without interruption.  A bucket lives for one window   *)
(* and is inserted into the Map when its window starts, so the order of    *)
(* the Map is the order in which windows end; which of two buckets that    *)
(* end in the same millisecond comes first is left open.                   *)
(***************************************************************************)
EXTENDS Integers, FiniteSets

CONSTANTS
    Clients,
    limit, windowMs,
    maximumBuckets,  \* 10_000
    MaxTime          \* bound of the clock

\* A limit or a window of zero is replaced by its default at the start; time
\* is in milliseconds.
ASSUME LimitsAssumption ==
    /\ {limit, windowMs, maximumBuckets} \subseteq Nat \ {0}
    /\ MaxTime \in Nat

VARIABLES
    buckets,   \* this.buckets
    now,
    admitted   \* per client and time: the requests let through since the
               \* client's bucket was last evicted

vars == <<buckets, now, admitted>>

NoRequests == [t \in 0..MaxTime |-> 0]

Init ==
    /\ buckets = << >>
    /\ now = 0
    /\ admitted = [c \in Clients |-> NoRequests]

\* Mutant: buckets are pruned one unit of time early.
LiveEarly == {c \in DOMAIN buckets : buckets[c].resetAt > now + 1}

\* What prune leaves: the clients whose windows are not over.
Live == {c \in DOMAIN buckets : buckets[c].resetAt > now}

\* The client has a bucket whose window is not over.
HasBucket(c) == c \in DOMAIN buckets /\ buckets[c].resetAt > now

\* What may be left of the Map after expired buckets are pruned and the oldest
\* ones are dropped until there is room for one more.
Room ==
    IF Cardinality(Live) < maximumBuckets
    THEN {Live}
    ELSE {kept \in SUBSET Live :
             /\ Cardinality(kept) = maximumBuckets - 1
             /\ \A c \in kept, d \in Live \ kept : buckets[d].resetAt <= buckets[c].resetAt}

\* A window of the client starts, with the request in it.
Opened(c, kept) ==
    [d \in kept \union {c} |->
        IF d = c THEN [count |-> 1, resetAt |-> now + windowMs] ELSE buckets[d]]

\* A request is counted in its client's bucket.  Counts above the limit are
\* all alike and not told apart.
Counted(c) ==
    IF HasBucket(c)
    THEN {[buckets EXCEPT ![c].count = IF @ > limit THEN @ ELSE @ + 1]}
    ELSE {Opened(c, kept) : kept \in Room}

\* The history of clients whose buckets are evicted starts again.
Remember(history) ==
    admitted' = [c \in Clients |->
        IF c \in Live \ DOMAIN buckets' THEN NoRequests ELSE history[c]]

\* canActivate lets the request through ...
Admit(c) ==
    /\ \E map \in Counted(c) : map[c].count <= limit /\ buckets' = map
    /\ Remember([admitted EXCEPT ![c][now] = @ + 1])
    /\ UNCHANGED now

\* ... or answers 429.  The refused request is counted too.
RateLimited(c) ==
    /\ \E map \in Counted(c) : map[c].count > limit /\ buckets' = map
    /\ Remember(admitted)
    /\ UNCHANGED now

Tick == now < MaxTime /\ now' = now + 1 /\ UNCHANGED <<buckets, admitted>>

Next == (\E c \in Clients : Admit(c) \/ RateLimited(c)) \/ Tick

Spec == Init /\ [][Next]_vars

-----------------------------------------------------------------------------
\* The requests of a history in the times of T, and how many they are.
RequestsIn(history, T) == UNION {{u} \X (1..history[u]) : u \in T}
AdmittedIn(c, T) == Cardinality(RequestsIn(admitted[c], T))

\* The variables hold what the class allows: a bucket for each of at most
\* maximumBuckets clients.
TypeOK ==
    /\ DOMAIN buckets \subseteq Clients /\ Cardinality(DOMAIN buckets) <= maximumBuckets
    /\ \A c \in DOMAIN buckets :
          buckets[c] \in [count : 1..limit + 1, resetAt : windowMs..now + windowMs]
    /\ now \in 0..MaxTime

\* While its window lasts, a bucket counts exactly the requests its client
\* had let through in it, up to the limit: neither other clients, nor pruning,
\* nor refused requests make it forget one or refuse a client early.
BucketCountsWindow ==
    \A c \in Live :
        AdmittedIn(c, buckets[c].resetAt - windowMs..now)
            = IF buckets[c].count > limit THEN limit ELSE buckets[c].count

\* Over any stretch of time as long as a window a client whose bucket is not
\* evicted gets at most twice the limit: the end of one window and the start
\* of the next.
AtMostTwoWindows ==
    \A c \in Clients, t \in 0..now :
        AdmittedIn(c, {u \in t..t + windowMs - 1 : u <= now}) <= 2 * limit

\* Both.
RateIsLimited == BucketCountsWindow /\ AtMostTwoWindows
=============================================================================

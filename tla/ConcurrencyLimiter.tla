-------------------------- MODULE ConcurrencyLimiter --------------------------
(***************************************************************************)
(* The limiter in front of the geocoding provider.                         *)
(*                                                                         *)
(*   src/src/geocoding/concurrency/concurrency-limiter.ts                  *)
(*                                                                         *)
(* acquire and release run without interruption on the event loop; between *)
(* them anything may happen.  A waiter that release resolves is counted at *)
(* once and starts its operation in a later turn of the loop.              *)
(***************************************************************************)
EXTENDS Naturals, Sequences, FiniteSets

CONSTANTS
    Calls,              \* calls of run in progress at the same time
    maximumConcurrent,
    maximumQueued

ASSUME LimitsAssumption ==
    /\ IsFiniteSet(Calls)
    /\ maximumConcurrent \in Nat \ {0}
    /\ maximumQueued \in Nat

VARIABLES
    active,   \* this.active
    waiting,  \* this.waiting: the calls whose callbacks it holds, in order
    pc        \* per call: idle, waiting, granted, running or refused

vars == <<active, waiting, pc>>

Init ==
    /\ active = 0
    /\ waiting = <<>>
    /\ pc = [c \in Calls |-> "idle"]

\* acquire with a free slot.
acquire(c) ==
    /\ pc[c] = "idle"
    /\ active < maximumConcurrent
    /\ active' = active + 1
    /\ pc' = [pc EXCEPT ![c] = "granted"]
    /\ UNCHANGED waiting

\* acquire without one: the call is queued ...
Enqueue(c) ==
    /\ pc[c] = "idle"
    /\ active >= maximumConcurrent
    /\ Len(waiting) < maximumQueued
    /\ waiting' = Append(waiting, c)
    /\ pc' = [pc EXCEPT ![c] = "waiting"]
    /\ UNCHANGED active

\* ... or refused with UNAVAILABLE.
Refuse(c) ==
    /\ pc[c] = "idle"
    /\ active >= maximumConcurrent
    /\ Len(waiting) >= maximumQueued
    /\ pc' = [pc EXCEPT ![c] = "refused"]
    /\ UNCHANGED <<active, waiting>>

\* The promise of acquire is resolved: operation() is called.
Start(c) ==
    /\ pc[c] = "granted"
    /\ pc' = [pc EXCEPT ![c] = "running"]
    /\ UNCHANGED <<active, waiting>>

\* Mutant: the waiter is resolved but not counted.
releaseUncounted(c) ==
    /\ pc[c] = "running"
    /\ active' = active - 1
    /\ IF waiting = <<>>
       THEN /\ pc' = [pc EXCEPT ![c] = "idle"]
            /\ UNCHANGED waiting
       ELSE /\ pc' = [pc EXCEPT ![c] = "idle", ![Head(waiting)] = "granted"]
            /\ waiting' = Tail(waiting)

\* Mutant: the last waiter is popped instead of the first one shifted.
releaseLast(c) ==
    /\ pc[c] = "running"
    /\ IF waiting = <<>>
       THEN /\ active' = active - 1
            /\ pc' = [pc EXCEPT ![c] = "idle"]
            /\ UNCHANGED waiting
       ELSE /\ pc' = [pc EXCEPT ![c] = "idle",
                                ![waiting[Len(waiting)]] = "granted"]
            /\ waiting' = SubSeq(waiting, 1, Len(waiting) - 1)
            /\ UNCHANGED active

\* The operation is over, well or badly (finally): the slot is given back
\* and, in the same turn, taken by the first waiter.
release(c) ==
    /\ pc[c] = "running"
    /\ IF waiting = <<>>
       THEN /\ active' = active - 1
            /\ pc' = [pc EXCEPT ![c] = "idle"]
            /\ UNCHANGED waiting
       ELSE /\ active' = (active - 1) + 1
            /\ pc' = [pc EXCEPT ![c] = "idle", ![Head(waiting)] = "granted"]
            /\ waiting' = Tail(waiting)

\* The caller of a refused run has its error.
Forget(c) ==
    /\ pc[c] = "refused"
    /\ pc' = [pc EXCEPT ![c] = "idle"]
    /\ UNCHANGED <<active, waiting>>

Next ==
    \E c \in Calls : \/ acquire(c) \/ Enqueue(c) \/ Refuse(c)
                     \/ Start(c) \/ release(c) \/ Forget(c)

Spec == Init /\ [][Next]_vars

-----------------------------------------------------------------------------
Admitted == {c \in Calls : pc[c] \in {"granted", "running"}}

\* The variables hold what the class allows.
TypeOK ==
    /\ active \in Nat
    /\ waiting \in Seq(Calls)
    /\ pc \in [Calls -> {"idle", "waiting", "granted", "running", "refused"}]

\* active counts the admitted calls, neither more (a slot would be lost for
\* ever) nor fewer (the provider would get more than its share), and never
\* passes the maximum: also when a release hands its slot on.
CountsAdmitted ==
    /\ active = Cardinality(Admitted)
    /\ active <= maximumConcurrent

\* Nobody waits while a slot is free, so nobody can be forgotten: the only
\* thing that wakes a waiter is a release.
NoIdleSlotWhileWaiting == waiting # <<>> => active = maximumConcurrent

\* The queue holds exactly the waiting calls, each once, within its limit.
QueueMatchesCalls ==
    /\ \A c \in Calls : pc[c] = "waiting" <=> \E i \in DOMAIN waiting : waiting[i] = c
    /\ \A i, j \in DOMAIN waiting : waiting[i] = waiting[j] => i = j
    /\ Len(waiting) <= maximumQueued

\* The three together.
SlotsAndQueueSound == CountsAdmitted /\ NoIdleSlotWhileWaiting /\ QueueMatchesCalls
=============================================================================

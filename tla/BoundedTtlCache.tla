--------------------------- MODULE BoundedTtlCache ---------------------------
(***************************************************************************)
(* The bounded cache under any sequence of get, set and clear.             *)
(*                                                                         *)
(*   src/src/geocoding/cache/bounded-ttl-cache.ts                          *)
(***************************************************************************)
EXTENDS TtlCache

CONSTANTS
    Keys,
    Ttls,            \* times to live the callers ask for
    maximumEntries,
    MaxTime          \* bound of the clock

VARIABLES
    entries,  \* this.entries
    used,     \* every key ever set since the last clear, in the order of its
              \* last use, with its expiry: what an unbounded cache would hold
    now

vars == <<entries, used, now>>

Init == entries = <<>> /\ used = <<>> /\ now = 0

\* The value is the time of the set: what tells two sets of a key apart.
set(key, ttlMs) ==
    /\ entries' = AfterSet(entries, key, now, ttlMs, now, maximumEntries)
    /\ used' = Append(Without(used, key),
                      [key |-> key, value |-> now, expiresAt |-> now + ttlMs])
    /\ UNCHANGED now

get(key) ==
    /\ entries' = AfterGet(entries, key, now)
    /\ used' = IF Got(entries, key, now) = {}
               THEN used
               ELSE Without(used, key) \o SelectSeq(used, LAMBDA e : e.key = key)
    /\ UNCHANGED now

clear == entries' = <<>> /\ used' = <<>> /\ UNCHANGED now

Tick == now < MaxTime /\ now' = now + 1 /\ UNCHANGED <<entries, used>>

Next ==
    \/ \E key \in Keys, ttlMs \in Ttls : set(key, ttlMs)
    \/ \E key \in Keys : get(key)
    \/ clear
    \/ Tick

Spec == Init /\ [][Next]_vars

-----------------------------------------------------------------------------
\* The variables hold what the class allows.
TypeOK ==
    /\ entries \in Seq([key : Keys, value : Nat, expiresAt : Nat])
    /\ used \in Seq([key : Keys, value : Nat, expiresAt : Nat])
    /\ now \in 0..MaxTime

\* Eviction takes the least recently used entry: a value that has not expired
\* is still there while fewer than maximumEntries keys were used after it.
\* A token handed to a client depends on it: with Photon a place can only be
\* looked up in this cache.
RecentlyUsedSurvives ==
    \A i \in DOMAIN used :
        used[i].expiresAt > now /\ Len(used) - i < maximumEntries
            => Got(entries, used[i].key, now) = {used[i].value}
=============================================================================

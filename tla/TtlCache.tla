------------------------------- MODULE TtlCache -------------------------------
(***************************************************************************)
(* The Map of a bounded cache with a time to live, as operators.           *)
(*                                                                         *)
(*   src/src/geocoding/cache/bounded-ttl-cache.ts                          *)
(*                                                                         *)
(* A JavaScript Map lists its keys in the order they were inserted, so the *)
(* Map is a sequence of entries, oldest first.                             *)
(***************************************************************************)
EXTENDS Integers, Sequences

\* The entry of a key: a set with at most one member.
EntryOf(entries, key) ==
    {entries[i] : i \in {j \in DOMAIN entries : entries[j].key = key}}

\* Map.delete
Without(entries, key) == SelectSeq(entries, LAMBDA e : e.key # key)

\* Mutant: an entry lives until the moment after its last one.
GotLate(entries, key, now) ==
    {e.value : e \in {x \in EntryOf(entries, key) : x.expiresAt >= now}}

\* The value get returns, in a set: empty when it returns undefined.
Got(entries, key, now) ==
    {e.value : e \in {x \in EntryOf(entries, key) : x.expiresAt > now}}

\* Mutant: a hit leaves its entry where it is.
AfterGetUnmoved(entries, key, now) ==
    IF \E e \in EntryOf(entries, key) : e.expiresAt <= now
    THEN Without(entries, key)
    ELSE entries

\* The Map after get: an expired entry is deleted, a live one moved to the
\* end.
AfterGet(entries, key, now) ==
    Without(entries, key) \o
        (LET live == {e \in EntryOf(entries, key) : e.expiresAt > now}
         IN  IF live = {} THEN <<>> ELSE <<CHOOSE e \in live : TRUE>>)

\* The last n members of a sequence.
Newest(entries, n) ==
    IF Len(entries) <= n
    THEN entries
    ELSE SubSeq(entries, Len(entries) - n + 1, Len(entries))

\* The Map after set: the entry is the newest, the oldest ones are evicted
\* while there are too many.
AfterSet(entries, key, value, ttlMs, now, maximumEntries) ==
    Newest(Append(Without(entries, key),
                  [key |-> key, value |-> value, expiresAt |-> now + ttlMs]),
           maximumEntries)
=============================================================================

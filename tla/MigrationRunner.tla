-------------------------- MODULE MigrationRunner --------------------------
(***************************************************************************)
(* Schema migrations at start-up, run by every instance that boots.        *)
(*                                                                         *)
(*   src/src/database/migration-runner.ts, DatabaseService's bootstrap     *)
(*                                                                         *)
(* PostgreSQL's session advisory lock and its transactions are external:   *)
(* the lock is held by one connection and freed with it, and a transaction *)
(* takes effect when it commits.  Names are numbers in sorted order; the   *)
(* sorted array the loop walks is the set of names still to come, of which *)
(* it takes the least.                                                     *)
(***************************************************************************)
EXTENDS Integers, Sequences, FiniteSetsExt

CONSTANTS
    Instances,
    Names,         \* instance |-> the migrations its release ships
    MaxBoots       \* bound: how often an instance boots

NoOne == "no one"

\* A release ships every name that sorts before one it ships: names are
\* numbered, and a later release adds names at the end.
ASSUME ReleasesAssumption ==
    /\ NoOne \notin Instances
    /\ Names \in [Instances -> SUBSET Nat]
    /\ \A i, j \in Instances : \A x \in Names[i], y \in Names[j] :
          x < y => x \in Names[j]
    /\ MaxBoots \in Nat

VARIABLES
    advisory,  \* the connection that holds the advisory lock
    recorded,  \* schema_migrations; its creation is idempotent
    effects,   \* the migrations that took effect, in order
    boots,
    stage,     \* per instance: where runMigrations is
    applied,   \* per instance: the Set read from schema_migrations
    todo       \* per instance: the names the loop has not come to

vars == <<advisory, recorded, effects, boots, stage, applied, todo>>

\* The name the loop has come to.
First(i) == Min(todo[i])

Init ==
    /\ advisory = NoOne
    /\ recorded = {}
    /\ effects = << >>
    /\ boots = [i \in Instances |-> 0]
    /\ stage = [i \in Instances |-> "down"]
    /\ applied = [i \in Instances |-> {}]
    /\ todo = [i \in Instances |-> {}]

Goto(i, label) == stage' = [stage EXCEPT ![i] = label]

\* The instance connects and asks for the lock.
Boot(i) ==
    /\ stage[i] = "down"
    /\ boots[i] < MaxBoots
    /\ boots' = [boots EXCEPT ![i] = @ + 1]
    /\ Goto(i, "locking")
    /\ UNCHANGED <<advisory, recorded, effects, applied, todo>>

\* Mutant: the lock is not waited for.
LockAtOnce(i) ==
    /\ stage[i] = "locking"
    /\ advisory' = i
    /\ Goto(i, "reading")
    /\ UNCHANGED <<recorded, effects, boots, applied, todo>>

\* SELECT pg_advisory_lock: waits until it is free.
Lock(i) ==
    /\ stage[i] = "locking"
    /\ advisory = NoOne
    /\ advisory' = i
    /\ Goto(i, "reading")
    /\ UNCHANGED <<recorded, effects, boots, applied, todo>>

\* The directory and the table are read.
Read(i) ==
    /\ stage[i] = "reading"
    /\ applied' = [applied EXCEPT ![i] = recorded]
    /\ todo' = [todo EXCEPT ![i] = Names[i]]
    /\ Goto(i, "looping")
    /\ UNCHANGED <<advisory, recorded, effects, boots>>

\* The loop: past a migration that is applied, into one that is not, or out.
Loop(i) ==
    /\ stage[i] = "looping"
    /\ IF todo[i] = {}
       THEN Goto(i, "unlocking") /\ UNCHANGED todo
       ELSE IF First(i) \in applied[i]
       THEN todo' = [todo EXCEPT ![i] = @ \ {First(i)}] /\ UNCHANGED stage
       ELSE Goto(i, "migrating") /\ UNCHANGED todo
    /\ UNCHANGED <<advisory, recorded, effects, boots, applied>>

\* The migration and its record commit together.
Committed(i) ==
    /\ effects' = Append(effects, First(i))
    /\ recorded' = recorded \union {First(i)}

\* BEGIN, the statements, the record, COMMIT.  The record is a primary key: a
\* name already there fails the transaction.
Migrate(i) ==
    /\ stage[i] = "migrating"
    /\ First(i) \notin recorded
    /\ stage' = [stage EXCEPT ![i] = "looping"]
    /\ Committed(i)
    /\ todo' = [todo EXCEPT ![i] = @ \ {First(i)}]
    /\ UNCHANGED <<advisory, boots, applied>>

\* A statement fails: ROLLBACK, unlock, release, and the boot fails.
MigrateFails(i) ==
    /\ stage[i] = "migrating"
    /\ Goto(i, "down")
    /\ advisory' = IF advisory = i THEN NoOne ELSE advisory
    /\ UNCHANGED <<recorded, effects, boots, applied, todo>>

\* pg_advisory_unlock, release: the instance is up.
Unlock(i) ==
    /\ stage[i] = "unlocking"
    /\ Goto(i, "up")
    /\ advisory' = IF advisory = i THEN NoOne ELSE advisory
    /\ UNCHANGED <<recorded, effects, boots, applied, todo>>

\* The instance or its connection dies, also while COMMIT is under way: the
\* lock is freed and an open transaction is rolled back or committed.
Die(i) ==
    /\ stage[i] # "down"
    /\ Goto(i, "down")
    /\ advisory' = IF advisory = i THEN NoOne ELSE advisory
    /\ \/ UNCHANGED <<recorded, effects>>
       \/ /\ stage[i] = "migrating" /\ First(i) \notin recorded
          /\ Committed(i)
    /\ UNCHANGED <<boots, applied, todo>>

Next == \E i \in Instances :
    \/ Boot(i) \/ Lock(i) \/ Read(i) \/ Loop(i) \/ Migrate(i) \/ MigrateFails(i)
    \/ Unlock(i) \/ Die(i)

Spec == Init /\ [][Next]_vars

-----------------------------------------------------------------------------
\* The variables hold what the function and the table allow.
TypeOK ==
    /\ advisory \in Instances \union {NoOne}
    /\ recorded \subseteq UNION {Names[i] : i \in Instances}
    /\ effects \in Seq(Nat)
    /\ boots \in [Instances -> 0..MaxBoots]
    /\ stage \in [Instances -> {"down", "locking", "reading", "looping",
                                "migrating", "unlocking", "up"}]
    /\ applied \in [Instances -> SUBSET Nat]
    /\ todo \in [Instances -> SUBSET Nat]

\* Whatever instances boot together and whenever one dies, every migration
\* takes effect once, is recorded exactly if it did, and no migration takes
\* effect before one that sorts before it (releases add names at the end); no
\* instance runs one that another has run since it read the table; an instance
\* that is up has all of its migrations.
SchemaIsMigrated ==
    /\ IsInjective(effects)
    /\ Range(effects) = recorded
    /\ \A j, k \in DOMAIN effects : j < k => effects[j] < effects[k]
    /\ \A i \in Instances : stage[i] = "migrating" => First(i) \notin recorded
    /\ \A i \in Instances : stage[i] = "up" => Names[i] \subseteq recorded
=============================================================================

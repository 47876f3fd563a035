------------------------ MODULE MigrationRunner_proofs ------------------------
(***************************************************************************)
(* The migration runner for any number of instances, releases and boots:   *)
(* the advisory lock keeps what an instance read of schema_migrations true *)
(* until it is done, so that every migration takes effect once and in      *)
(* order, wherever instances die.                                          *)
(***************************************************************************)
EXTENDS MigrationRunner, WellFoundedInduction, TLAPS

\* The instance's connection has the lock.
Holds(i) == stage[i] \in {"reading", "looping", "migrating", "unlocking"}

LockInv == \A i \in Instances : Holds(i) <=> advisory = i

\* The order of the effects, and what makes the next one the last: nothing is
\* recorded before what sorts before it.
EffectsInv ==
    /\ Range(effects) = recorded
    /\ \A j, k \in DOMAIN effects : j < k => effects[j] < effects[k]
    /\ \A x \in recorded, i \in Instances : \A y \in Names[i] :
          y < x => y \in recorded

\* What the loop has left behind is recorded, and what it has not come to is
\* recorded only if it was when the table was read.
LoopInv(i) ==
    /\ stage[i] \in {"looping", "migrating", "unlocking"} =>
          /\ todo[i] \subseteq Names[i]
          /\ Names[i] \ todo[i] \subseteq recorded
          /\ todo[i] \cap recorded \subseteq applied[i]
          /\ applied[i] \subseteq recorded
    /\ stage[i] = "migrating" => todo[i] # {} /\ First(i) \notin applied[i]
    /\ stage[i] = "unlocking" => todo[i] = {}
    /\ stage[i] = "up" => Names[i] \subseteq recorded

IndInv ==
    /\ TypeOK
    /\ LockInv
    /\ EffectsInv
    /\ \A i \in Instances : LoopInv(i)

-----------------------------------------------------------------------------
\* Every set of naturals that is not empty has a least element.
LEMMA LeastNatural ==
    ASSUME NEW T \in SUBSET Nat, T # {}
    PROVE  \E m \in T : \A k \in T : m <= k
<1> DEFINE R == OpToRel(<, Nat)
<1>1. IsWellFoundedOn(R, Nat)
  BY NatLessThanWellFounded
<1>2. \E x \in T : \A y \in T : ~(<<y, x>> \in R)
  <2> HIDE DEF R
  <2> QED BY <1>1, WFMin
<1>3. \A x, y \in Nat : y < x => <<y, x>> \in R
  BY DEF OpToRel
<1> HIDE DEF R
<1>4. PICK x \in T : \A y \in T : ~(<<y, x>> \in R)
  BY <1>2
<1>5. ASSUME NEW y \in T PROVE x <= y
  <2>1. x \in Nat /\ y \in Nat
    OBVIOUS
  <2>2. ~(y < x)
    BY <1>3, <1>4, <2>1
  <2> QED BY <2>1, <2>2
<1> QED BY <1>4, <1>5

\* The loop has come to the least of the names it has not dealt with.
LEMMA FirstIsLeast ==
    ASSUME TypeOK, NEW i \in Instances, todo[i] # {}
    PROVE  /\ First(i) \in todo[i] /\ First(i) \in Nat
           /\ \A k \in todo[i] : First(i) <= k
<1>1. todo[i] \in SUBSET Nat
  BY DEF TypeOK
<1>2. \E m \in todo[i] : \A k \in todo[i] : m <= k
  BY <1>1, LeastNatural
<1> QED BY <1>1, <1>2 DEF First, Min

\* What an instance that is about to migrate knows: its migration is not
\* recorded, and everything recorded sorts before it.
LEMMA NextMigration ==
    ASSUME IndInv, NEW i \in Instances, stage[i] = "migrating"
    PROVE  /\ First(i) \in Names[i] /\ First(i) \in todo[i] /\ First(i) \in Nat
           /\ First(i) \notin recorded
           /\ \A x \in recorded : x \in Nat /\ x < First(i)
           /\ \A j \in Instances : \A y \in Names[j] :
                 y < First(i) => y \in recorded
<1>1. /\ TypeOK /\ EffectsInv /\ LoopInv(i)
  BY DEF IndInv
<1>2. /\ todo[i] # {} /\ First(i) \notin applied[i]
      /\ todo[i] \subseteq Names[i] /\ Names[i] \ todo[i] \subseteq recorded
      /\ todo[i] \cap recorded \subseteq applied[i]
  BY <1>1 DEF LoopInv
<1>3. /\ First(i) \in todo[i] /\ First(i) \in Nat
      /\ \A k \in todo[i] : First(i) <= k
  BY <1>1, <1>2, FirstIsLeast
<1>4. First(i) \in Names[i] /\ First(i) \notin recorded
  BY <1>2, <1>3
<1>5. ASSUME NEW x \in recorded PROVE x \in Nat /\ x < First(i)
  <2>1. x \in Nat
    BY <1>1, ReleasesAssumption DEF TypeOK
  <2>2. ~(First(i) < x)
    BY <1>1, <1>4 DEF EffectsInv
  <2> QED BY <1>3, <1>4, <2>1, <2>2
<1>6. ASSUME NEW j \in Instances, NEW y \in Names[j], y < First(i)
      PROVE  y \in recorded
  <2>1. y \in Names[i] /\ y \in Nat
    BY <1>4, <1>6, ReleasesAssumption
  <2>2. y \notin todo[i]
    BY <1>3, <1>6, <2>1
  <2> QED BY <1>2, <2>1, <2>2
<1> QED BY <1>3, <1>4, <1>5, <1>6

\* A committed migration is the next effect in order.
LEMMA CommitStep ==
    ASSUME IndInv, NEW i \in Instances, stage[i] = "migrating", Committed(i)
    PROVE  /\ EffectsInv' /\ effects' \in Seq(Nat)
           /\ recorded' = recorded \cup {First(i)}
           /\ recorded' \subseteq UNION {Names[j] : j \in Instances}
<1> DEFINE m == First(i)
<1>1. /\ m \in Names[i] /\ m \in Nat /\ m \notin recorded
      /\ \A x \in recorded : x \in Nat /\ x < m
      /\ \A j \in Instances : \A y \in Names[j] : y < m => y \in recorded
  BY NextMigration
<1>2. /\ effects \in Seq(Nat) /\ Range(effects) = recorded
      /\ \A j, k \in DOMAIN effects : j < k => effects[j] < effects[k]
      /\ \A x \in recorded, j \in Instances : \A y \in Names[j] :
            y < x => y \in recorded
      /\ recorded \subseteq UNION {Names[j] : j \in Instances}
  BY DEF IndInv, EffectsInv, TypeOK
<1>3. effects' = Append(effects, m) /\ recorded' = recorded \cup {m}
  BY DEF Committed
<1> HIDE DEF m
<1>4. /\ effects' \in Seq(Nat) /\ Len(effects') = Len(effects) + 1
      /\ DOMAIN effects = 1..Len(effects) /\ DOMAIN effects' = 1..(Len(effects) + 1)
      /\ \A k \in 1..Len(effects) : effects'[k] = effects[k]
      /\ effects'[Len(effects) + 1] = m
      /\ Len(effects) \in Nat
  BY <1>1, <1>2, <1>3
<1>5. Range(effects') = recorded'
  <2>1. \A x : x \in Range(effects') <=> x \in Range(effects) \/ x = m
    BY <1>4 DEF Range
  <2> QED BY <1>2, <1>3, <2>1
<1>6. ASSUME NEW j \in DOMAIN effects', NEW k \in DOMAIN effects', j < k
      PROVE  effects'[j] < effects'[k]
  <2>1. j \in 1..Len(effects)
    BY <1>4, <1>6
  <2>2. effects[j] \in recorded /\ effects'[j] = effects[j]
    BY <1>2, <1>4, <2>1 DEF Range
  <2>3. CASE k \in 1..Len(effects)
    BY <1>2, <1>4, <1>6, <2>1, <2>3
  <2>4. CASE k = Len(effects) + 1
    BY <1>1, <1>4, <2>2, <2>4
  <2> QED BY <1>4, <2>3, <2>4
<1>7. \A x \in recorded', j \in Instances : \A y \in Names[j] :
         y < x => y \in recorded'
  BY <1>1, <1>2, <1>3
<1>8. recorded' \subseteq UNION {Names[j] : j \in Instances}
  BY <1>1, <1>2, <1>3
<1> QED BY <1>3, <1>4, <1>5, <1>6, <1>7, <1>8 DEF EffectsInv, m

-----------------------------------------------------------------------------
(* Every step keeps the inductive invariant.                               *)

\* The initial states satisfy the inductive invariant.
LEMMA InitInd == Init => IndInv
<1> SUFFICES ASSUME Init PROVE IndInv
  OBVIOUS
<1>1. TypeOK
  BY ReleasesAssumption DEF Init, TypeOK
<1>2. LockInv
  BY ReleasesAssumption DEF Init, LockInv, Holds
<1>3. EffectsInv
  BY DEF Init, EffectsInv, Range
<1>4. \A i \in Instances : LoopInv(i)
  BY DEF Init, LoopInv
<1> QED BY <1>1, <1>2, <1>3, <1>4 DEF IndInv

\* Nothing that another instance does touches a loop under the lock.
LEMMA OthersKept ==
    ASSUME IndInv, NEW i \in Instances, NEW j \in Instances, j # i,
           stage'[j] = stage[j], todo'[j] = todo[j], applied'[j] = applied[j],
           recorded \subseteq recorded',
           recorded' = recorded \/ Holds(i)
    PROVE  LoopInv(j)'
<1>1. LoopInv(j)
  BY DEF IndInv
<1>2. First(j)' = First(j)
  BY DEF First
<1>3. CASE recorded' = recorded
  BY <1>1, <1>2, <1>3 DEF LoopInv
<1>4. CASE Holds(i)
  <2>1. ~Holds(j)
    BY <1>4 DEF IndInv, LockInv
  <2> QED BY <1>1, <2>1 DEF LoopInv, Holds
<1> QED BY <1>3, <1>4

\* Boot, pg_advisory_lock and the reads.
LEMMA EnterStep ==
    ASSUME IndInv, NEW i \in Instances, Boot(i) \/ Lock(i) \/ Read(i)
    PROVE  IndInv'
<1> USE DEF IndInv
<1>1. /\ recorded' = recorded /\ effects' = effects
      /\ \A j \in Instances : j # i =>
           stage'[j] = stage[j] /\ todo'[j] = todo[j] /\ applied'[j] = applied[j]
  BY DEF Boot, Lock, Read, Goto, TypeOK
<1>2. TypeOK'
  <2>1. CASE Boot(i)
    BY <2>1, ReleasesAssumption DEF Boot, Goto, TypeOK
  <2>2. CASE Lock(i)
    BY <2>2 DEF Lock, Goto, TypeOK
  <2>3. CASE Read(i)
    <3>1. recorded \in SUBSET Nat /\ Names[i] \in SUBSET Nat
      BY ReleasesAssumption DEF TypeOK
    <3> QED BY <2>3, <3>1 DEF Read, Goto, TypeOK
  <2> QED BY <2>1, <2>2, <2>3
<1>3. LockInv'
  <2>1. CASE Boot(i)
    BY <2>1 DEF Boot, Goto, TypeOK, LockInv, Holds
  <2>2. CASE Lock(i)
    BY <2>2, ReleasesAssumption DEF Lock, Goto, TypeOK, LockInv, Holds
  <2>3. CASE Read(i)
    BY <2>3 DEF Read, Goto, TypeOK, LockInv, Holds
  <2> QED BY <2>1, <2>2, <2>3
<1>4. EffectsInv'
  BY <1>1 DEF EffectsInv
<1>5. LoopInv(i)'
  <2>1. CASE Boot(i) \/ Lock(i)
    BY <2>1 DEF Boot, Lock, Goto, TypeOK, LoopInv
  <2>2. CASE Read(i)
    BY <2>2 DEF Read, Goto, TypeOK, LoopInv
  <2> QED BY <2>1, <2>2
<1>6. \A j \in Instances : LoopInv(j)'
  BY <1>1, <1>5, OthersKept
<1> QED BY <1>2, <1>3, <1>4, <1>6

\* A turn of the loop.
LEMMA LoopStep ==
    ASSUME IndInv, NEW i \in Instances, Loop(i)
    PROVE  IndInv'
<1> USE DEF IndInv
<1>1. /\ recorded' = recorded /\ effects' = effects /\ advisory' = advisory
      /\ applied' = applied /\ boots' = boots /\ stage[i] = "looping"
      /\ \A j \in Instances : j # i => stage'[j] = stage[j] /\ todo'[j] = todo[j]
  BY DEF Loop, Goto, TypeOK
<1>2. \/ todo[i] = {} /\ stage' = [stage EXCEPT ![i] = "unlocking"] /\ todo' = todo
      \/ /\ todo[i] # {} /\ First(i) \in applied[i] /\ stage' = stage
         /\ todo' = [todo EXCEPT ![i] = @ \ {First(i)}]
      \/ /\ todo[i] # {} /\ First(i) \notin applied[i] /\ todo' = todo
         /\ stage' = [stage EXCEPT ![i] = "migrating"]
  BY DEF Loop, Goto
<1>3. TypeOK'
  BY <1>1, <1>2 DEF TypeOK
<1>4. LockInv'
  BY <1>1, <1>2 DEF LockInv, Holds, TypeOK
<1>5. EffectsInv'
  BY <1>1 DEF EffectsInv
<1>6. LoopInv(i)'
  <2>1. /\ todo[i] \subseteq Names[i] /\ Names[i] \ todo[i] \subseteq recorded
        /\ todo[i] \cap recorded \subseteq applied[i] /\ applied[i] \subseteq recorded
    BY <1>1 DEF LoopInv
  <2>2. CASE todo[i] = {} /\ stage' = [stage EXCEPT ![i] = "unlocking"] /\ todo' = todo
    BY <1>1, <2>1, <2>2 DEF LoopInv, TypeOK
  <2>3. CASE /\ todo[i] # {} /\ First(i) \in applied[i] /\ stage' = stage
             /\ todo' = [todo EXCEPT ![i] = @ \ {First(i)}]
    <3>1. todo'[i] = todo[i] \ {First(i)} /\ stage'[i] = "looping"
      BY <1>1, <2>3 DEF TypeOK
    <3> QED BY <1>1, <2>1, <2>3, <3>1 DEF LoopInv
  <2>4. CASE /\ todo[i] # {} /\ First(i) \notin applied[i] /\ todo' = todo
             /\ stage' = [stage EXCEPT ![i] = "migrating"]
    <3>1. First(i)' = First(i) /\ stage'[i] = "migrating"
      BY <2>4 DEF First, TypeOK
    <3> QED BY <1>1, <2>1, <2>4, <3>1 DEF LoopInv
  <2> QED BY <1>2, <2>2, <2>3, <2>4
<1>7. \A j \in Instances : LoopInv(j)'
  BY <1>1, <1>6, OthersKept
<1> QED BY <1>3, <1>4, <1>5, <1>7

\* A migration commits.
LEMMA MigrateStep ==
    ASSUME IndInv, NEW i \in Instances, Migrate(i)
    PROVE  IndInv'
<1> USE DEF IndInv
<1>1. /\ stage[i] = "migrating" /\ Committed(i)
      /\ stage' = [stage EXCEPT ![i] = "looping"]
      /\ todo' = [todo EXCEPT ![i] = @ \ {First(i)}]
      /\ advisory' = advisory /\ boots' = boots /\ applied' = applied
  BY DEF Migrate
<1>2. /\ EffectsInv' /\ effects' \in Seq(Nat)
      /\ recorded' = recorded \cup {First(i)}
      /\ recorded' \subseteq UNION {Names[j] : j \in Instances}
  BY <1>1, CommitStep
<1>3. TypeOK'
  BY <1>1, <1>2 DEF TypeOK
<1>4. LockInv'
  BY <1>1 DEF LockInv, Holds, TypeOK
<1>5. LoopInv(i)'
  <2>1. /\ todo[i] \subseteq Names[i] /\ Names[i] \ todo[i] \subseteq recorded
        /\ todo[i] \cap recorded \subseteq applied[i] /\ applied[i] \subseteq recorded
    BY <1>1 DEF LoopInv
  <2>2. stage'[i] = "looping" /\ todo'[i] = todo[i] \ {First(i)} /\ applied'[i] = applied[i]
    BY <1>1 DEF TypeOK
  <2> QED BY <1>2, <2>1, <2>2 DEF LoopInv
<1>6. ASSUME NEW j \in Instances, j # i PROVE LoopInv(j)'
  <2>1. stage'[j] = stage[j] /\ todo'[j] = todo[j] /\ applied'[j] = applied[j]
    BY <1>1, <1>6 DEF TypeOK
  <2>2. Holds(i)
    BY <1>1 DEF Holds
  <2> QED BY <1>2, <1>6, <2>1, <2>2, OthersKept
<1> QED BY <1>2, <1>3, <1>4, <1>5, <1>6

\* The run ends: the instance is up, or its connection is gone.
LEMMA LeaveStep ==
    ASSUME IndInv, NEW i \in Instances, MigrateFails(i) \/ Unlock(i) \/ Die(i)
    PROVE  IndInv'
<1> USE DEF IndInv
<1>1. /\ boots' = boots /\ applied' = applied /\ todo' = todo
      /\ advisory' = IF advisory = i THEN NoOne ELSE advisory
      /\ \/ recorded' = recorded /\ effects' = effects
         \/ stage[i] = "migrating" /\ Committed(i)
  BY DEF MigrateFails, Unlock, Die
<1>2. \/ stage' = [stage EXCEPT ![i] = "down"]
      \/ /\ stage[i] = "unlocking" /\ stage' = [stage EXCEPT ![i] = "up"]
         /\ recorded' = recorded
  BY DEF MigrateFails, Unlock, Die, Goto
<1>3. /\ EffectsInv' /\ effects' \in Seq(Nat)
      /\ recorded \subseteq recorded'
      /\ recorded' = recorded \/ Holds(i)
      /\ recorded' \subseteq UNION {Names[j] : j \in Instances}
  <2>1. CASE recorded' = recorded /\ effects' = effects
    BY <2>1 DEF EffectsInv, TypeOK
  <2>2. CASE stage[i] = "migrating" /\ Committed(i)
    BY <2>2, CommitStep DEF Holds
  <2> QED BY <1>1, <2>1, <2>2
<1>4. TypeOK'
  BY <1>1, <1>2, <1>3 DEF TypeOK
<1>5. LockInv'
  BY <1>1, <1>2, ReleasesAssumption DEF LockInv, Holds, TypeOK
<1>6. LoopInv(i)'
  BY <1>1, <1>2 DEF LoopInv, TypeOK
<1>7. ASSUME NEW j \in Instances, j # i PROVE LoopInv(j)'
  <2>1. stage'[j] = stage[j] /\ todo'[j] = todo[j] /\ applied'[j] = applied[j]
    BY <1>1, <1>2, <1>7 DEF TypeOK
  <2> QED BY <1>3, <1>7, <2>1, OthersKept
<1> QED BY <1>3, <1>4, <1>5, <1>6, <1>7

\* The inductive invariant holds in every reachable state.
THEOREM Inductive == Spec => []IndInv
<1>1. IndInv /\ [Next]_vars => IndInv'
  <2> SUFFICES ASSUME IndInv, [Next]_vars PROVE IndInv'
    OBVIOUS
  <2>1. CASE UNCHANGED vars
    BY <2>1 DEF vars, IndInv, TypeOK, LockInv, Holds, EffectsInv, LoopInv, First
  <2> QED BY <2>1, EnterStep, LoopStep, MigrateStep, LeaveStep DEF Next
<1> QED BY <1>1, InitInd, PTL DEF Spec

\* The lock, the table and the loops keep their types.
THEOREM TypeCorrect == Spec => []TypeOK
<1>1. IndInv => TypeOK
  BY DEF IndInv
<1> QED BY <1>1, Inductive, PTL

\* Whatever instances boot together and wherever one dies, every migration
\* takes effect once and in order, is recorded exactly if it did, is not run
\* again, and an instance that is up has all of its own.
THEOREM SchemaAlwaysMigrated == Spec => []SchemaIsMigrated
<1>1. IndInv => SchemaIsMigrated
  <2> SUFFICES ASSUME IndInv PROVE SchemaIsMigrated
    OBVIOUS
  <2>1. /\ effects \in Seq(Nat) /\ Range(effects) = recorded
        /\ \A j, k \in DOMAIN effects : j < k => effects[j] < effects[k]
    BY DEF IndInv, TypeOK, EffectsInv
  <2>2. IsInjective(effects)
    <3>1. ASSUME NEW j \in DOMAIN effects, NEW k \in DOMAIN effects, j # k
          PROVE  effects[j] # effects[k]
      <4>1. j \in Nat /\ k \in Nat /\ effects[j] \in Nat /\ effects[k] \in Nat
        BY <2>1
      <4>2. j < k \/ k < j
        BY <3>1, <4>1
      <4> QED BY <2>1, <4>1, <4>2
    <3> QED BY <3>1 DEF IsInjective
  <2>3. \A i \in Instances : stage[i] = "migrating" => First(i) \notin recorded
    BY NextMigration
  <2>4. \A i \in Instances : stage[i] = "up" => Names[i] \subseteq recorded
    BY DEF IndInv, LoopInv
  <2> QED BY <2>1, <2>2, <2>3, <2>4 DEF SchemaIsMigrated
<1> QED BY <1>1, Inductive, PTL
=============================================================================

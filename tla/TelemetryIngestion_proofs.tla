---------------------- MODULE TelemetryIngestion_proofs ----------------------
(***************************************************************************)
(* Telemetry ingestion for any number of attempts, Gateways and batches of *)
(* any length: batches of one Gateway never deadlock, and persistBatch,    *)
(* whose statements each see another state of the tables, implements the   *)
(* atomic delivery of TelemetryLog.  The row lock of a Node is what keeps  *)
(* the statuses given so far true until COMMIT.                            *)
(***************************************************************************)
EXTENDS TelemetryIngestion, WellFoundedInduction, TLAPS

\* The valid readings persistBatch has dealt with.
Done(a) == {i \in Valid(batch[a]) : i < next[a]}

RowOf(reading) == <<"node", reading.node>>

Holding == {"node", "telemetry", "commit"}

\* A row has one holder, and a transaction that holds anything holds the row
\* of its Gateway.
LocksInv ==
    /\ \A a, b \in Attempts : a # b => holds[a] \cap holds[b] = {}
    /\ \A a \in Attempts :
          IF pc[a] \in Holding THEN GatewayRow(a) \in holds[a] ELSE holds[a] = {}

\* Where a transaction is, and the rows of the Nodes it has locked.
Position(a) ==
    /\ gateway[a] \in Gateways /\ batch[a] \in Batches
    /\ next[a] \in 1..(Len(batch[a]) + 1)
    /\ IF pc[a] = "commit" THEN next[a] = Len(batch[a]) + 1
       ELSE next[a] \in Valid(batch[a])
    /\ pc[a] = "begin" => Done(a) = {}
    /\ \A i \in Done(a) : RowOf(batch[a][i]) \in holds[a]
    /\ pc[a] = "telemetry" => NodeRow(a) \in holds[a]

\* What it has done so far is what one atomic delivery would do now.
AsIfNow(a) ==
    /\ \A i \in DOMAIN batch[a] :
          ~batch[a][i].decodes => status[a][i] = "REJECTED_INVALID"
    /\ \A i \in Done(a) :
          /\ Identity(batch[a][i]) \in Identities(log \cup written[a])
          /\ status[a][i] =
                IF Log!IsNew(batch[a], log, i) THEN "INSERTED" ELSE "DUPLICATE"
    /\ written[a] = {batch[a][i] : i \in {j \in Done(a) : Log!IsNew(batch[a], log, j)}}

TransactionInv ==
    \A a \in Attempts :
        IF InTransaction(a) THEN Position(a) /\ AsIfNow(a) ELSE written[a] = {}

IndInv == TypeOK /\ LocksInv /\ TransactionInv

-----------------------------------------------------------------------------
(* The loop over the valid readings.                                       *)

\* Every set of naturals that is not empty has a least element.
LEMMA LeastNatural ==
    ASSUME NEW T \in SUBSET Nat, T # {}
    PROVE  \E m \in T : \A k \in T : m <= k
<1> DEFINE R == OpToRel(<, Nat)
<1>1. IsWellFoundedOn(R, Nat)
  BY NatLessThanWellFounded
<1>2. \E x \in T : \A y \in T : ~(<<y, x>> \in R)
  <2> HIDE DEF R
  <2> QED BY <1>1, WFMin
<1>3. \A x, y \in Nat : y < x => <<y, x>> \in R
  BY DEF OpToRel
<1> HIDE DEF R
<1>4. PICK x \in T : \A y \in T : ~(<<y, x>> \in R)
  BY <1>2
<1>5. ASSUME NEW y \in T PROVE x <= y
  <2>1. x \in Nat /\ y \in Nat
    OBVIOUS
  <2>2. ~(y < x)
    BY <1>3, <1>4, <2>1
  <2> QED BY <2>1, <2>2
<1> QED BY <1>4, <1>5

\* The loop reaches the first valid reading from i on and leaves out only
\* readings that do not decode.
LEMMA NextValidIsFirst ==
    ASSUME NEW b \in Batches, NEW i \in 1..(Len(b) + 1)
    PROVE  /\ NextValid(b, i) \in i..(Len(b) + 1)
           /\ NextValid(b, i) \in Valid(b) \cup {Len(b) + 1}
           /\ \A k \in i..(NextValid(b, i) - 1) : k \notin Valid(b)
<1> DEFINE T == {j \in i..(Len(b) + 1) : j \in Valid(b) \cup {Len(b) + 1}}
<1>1. Len(b) \in Nat
  BY BatchesAssumption
<1>2. T \in SUBSET Nat /\ Len(b) + 1 \in T
  BY <1>1
<1>3. PICK m \in T : \A k \in T : m <= k
  <2> HIDE DEF T
  <2> QED BY <1>2, LeastNatural
<1>4. ASSUME NEW k \in i..(m - 1) PROVE k \notin Valid(b)
  <2>1. k \in i..(Len(b) + 1) /\ ~(m <= k)
    BY <1>1, <1>3
  <2> QED BY <1>3, <2>1
<1>5. \E j \in i..(Len(b) + 1) :
        /\ j \in Valid(b) \cup {Len(b) + 1}
        /\ \A k \in i..(j - 1) : k \notin Valid(b)
  BY <1>3, <1>4
<1> QED BY <1>5 DEF NextValid

\* Whether a reading is the first of its identity concerns its own Node only:
\* rows of another transaction in progress are of other Nodes.
LEMMA NewKept ==
    ASSUME IndInv, NEW a \in Attempts, NEW c \in Attempts, a # c,
           InTransaction(a), InTransaction(c), NEW i \in Done(a)
    PROVE  Log!IsNew(batch[a], log \cup written[c], i) <=> Log!IsNew(batch[a], log, i)
<1>1. Position(a) /\ Position(c) /\ AsIfNow(c) /\ holds[a] \cap holds[c] = {}
  BY DEF IndInv, LocksInv, TransactionInv
<1>2. ASSUME NEW row \in written[c] PROVE Identity(row) # Identity(batch[a][i])
  <2>1. PICK j \in Done(c) : row = batch[c][j]
    BY <1>1 DEF AsIfNow
  <2>2. RowOf(batch[c][j]) # RowOf(batch[a][i])
    BY <1>1 DEF Position
  <2> QED BY <2>1, <2>2 DEF RowOf, Identity
<1>3. Identity(batch[a][i]) \in Log!Identities(log \cup written[c])
        <=> Identity(batch[a][i]) \in Log!Identities(log)
  BY <1>2 DEF Log!Identities, Log!Identity, Identity
<1> QED BY <1>3 DEF Log!IsNew, Log!Identity, Identity

-----------------------------------------------------------------------------
(* The inductive invariant.                                                *)

Fine(a) == IF InTransaction(a) THEN Position(a) /\ AsIfNow(a) ELSE written[a] = {}

SameAs(a) ==
    /\ gateway'[a] = gateway[a] /\ batch'[a] = batch[a]
    /\ pc'[a] = pc[a] /\ next'[a] = next[a]
    /\ written'[a] = written[a] /\ status'[a] = status[a] /\ holds'[a] = holds[a]

\* A step of one attempt that leaves the committed rows alone does not
\* concern another attempt.
LEMMA FrameStep ==
    ASSUME NEW a \in Attempts, Fine(a), SameAs(a), log' = log
    PROVE  Fine(a)'
BY DEF Fine, SameAs, InTransaction, Position, AsIfNow, Done, Valid, NodeRow, Log!IsNew,
       Log!Identities, Identities

\* Nothing is stored or in progress at first.
LEMMA InitInd == Init => IndInv
<1> SUFFICES ASSUME Init PROVE IndInv
  OBVIOUS
<1>1. TypeOK
  <2>1. <<>> \in [DOMAIN <<>> -> Status]
    BY DEF Status
  <2>2. status \in [Attempts -> UNION {[DOMAIN b -> Status] : b \in Batches \cup {<<>>}}]
    BY <2>1 DEF Init
  <2> QED BY <2>2 DEF Init, TypeOK
<1>2. LocksInv /\ TransactionInv
  BY DEF Init, LocksInv, TransactionInv, Holding, InTransaction
<1> QED BY <1>1, <1>2 DEF IndInv

\* A batch arrives: the loop stands at its first valid reading.
LEMMA ReceiveStep ==
    ASSUME IndInv, NEW a \in Attempts, NEW g \in Gateways, NEW readings \in Batches,
           Receive(a, g, readings)
    PROVE  IndInv'
<1>1. /\ batch'[a] = readings /\ gateway'[a] = g /\ next'[a] = NextValid(readings, 1)
      /\ status'[a] = [i \in DOMAIN readings |->
                         IF i \in Valid(readings) THEN "PENDING" ELSE "REJECTED_INVALID"]
      /\ pc'[a] \in {"failed", "committed", "begin"}
      /\ pc'[a] = "begin" => Valid(readings) # {}
      /\ log' = log /\ written' = written /\ holds' = holds
      /\ written[a] = {} /\ holds[a] = {}
  BY DEF Receive, IndInv, TypeOK, LocksInv, TransactionInv, InTransaction, Holding
<1>2. \A b \in Attempts \ {a} : SameAs(b)
  BY DEF Receive, SameAs, IndInv, TypeOK
<1>3. Len(readings) \in Nat /\ DOMAIN readings = 1..Len(readings)
  BY BatchesAssumption
<1>4. /\ next'[a] \in 1..(Len(readings) + 1)
      /\ next'[a] \in Valid(readings) \cup {Len(readings) + 1}
      /\ \A k \in 1..(next'[a] - 1) : k \notin Valid(readings)
  BY <1>1, <1>3, NextValidIsFirst
<1>5. TypeOK'
  <2>1. /\ gateway' \in [Attempts -> Gateways \cup {NULL}]
        /\ batch' \in [Attempts -> Batches \cup {<<>>}]
        /\ pc' \in [Attempts -> {"unsent", "begin", "node", "telemetry", "commit",
                                 "committed", "answered", "lost", "failed"}]
    BY DEF Receive, IndInv, TypeOK
  <2>2. next' \in [Attempts -> Nat]
    BY <1>1, <1>3, <1>4 DEF Receive, IndInv, TypeOK
  <2>3. status'[a] \in [DOMAIN readings -> Status]
    BY <1>1 DEF Status
  <2>4. status' \in [Attempts -> UNION {[DOMAIN b -> Status] : b \in Batches \cup {<<>>}}]
    BY <1>1, <2>3 DEF Receive, IndInv, TypeOK
  <2>5. \A b \in Attempts : DOMAIN status'[b] = DOMAIN batch'[b]
    BY <1>1, <1>2 DEF SameAs, IndInv, TypeOK
  <2> QED BY <1>1, <2>1, <2>2, <2>4, <2>5 DEF TypeOK, IndInv
<1>6. LocksInv'
  <2>1. \A b \in Attempts \ {a} : pc'[b] = pc[b] /\ gateway'[b] = gateway[b]
    BY DEF Receive, IndInv, TypeOK
  <2> QED BY <1>1, <2>1 DEF LocksInv, IndInv, GatewayRow, Holding
<1>7. Fine(a)'
  <2>1. CASE pc'[a] = "begin"
    <3>1. next'[a] \in Valid(readings)
      BY <1>1, <1>3, <1>4, <2>1 DEF Valid
    <3>2. {i \in Valid(readings) : i < next'[a]} = {}
      BY <1>3, <1>4 DEF Valid
    <3>3. Position(a)'
      BY <1>1, <1>4, <2>1, <3>1, <3>2 DEF Position, Done
    <3>4. AsIfNow(a)'
      BY <1>1, <3>2 DEF AsIfNow, Done, Valid
    <3> QED BY <2>1, <3>3, <3>4 DEF Fine, InTransaction
  <2>2. CASE pc'[a] # "begin"
    BY <1>1, <2>2 DEF Fine, InTransaction
  <2> QED BY <2>1, <2>2
<1>8. \A b \in Attempts : Fine(b)'
  <2>1. ASSUME NEW b \in Attempts, b # a PROVE Fine(b)'
    <3>1. Fine(b)
      BY DEF Fine, IndInv, TransactionInv
    <3> QED BY <1>1, <1>2, <2>1, <3>1, FrameStep
  <2> QED BY <1>7, <2>1
<1> QED BY <1>5, <1>6, <1>8 DEF IndInv, TransactionInv, Fine

\* A statement gets its row only if nobody else has it.
LEMMA LockStep ==
    ASSUME IndInv, NEW a \in Attempts, upsertGateway(a) \/ upsertNode(a)
    PROVE  IndInv'
<1>1. UNCHANGED <<log, gateway, batch, next, written, status>>
  BY DEF upsertGateway, upsertNode
<1>2. PICK row \in {GatewayRow(a), NodeRow(a)} :
        /\ row = IF pc[a] = "begin" THEN GatewayRow(a) ELSE NodeRow(a)
        /\ pc[a] \in {"begin", "node"} /\ Free(a, row)
        /\ holds' = [holds EXCEPT ![a] = @ \cup {row}]
        /\ pc' = [pc EXCEPT ![a] = IF pc[a] = "begin" THEN "node" ELSE "telemetry"]
  BY DEF upsertGateway, upsertNode, Lock
<1>3. Fine(a) /\ InTransaction(a)
  BY <1>2 DEF IndInv, TransactionInv, Fine, InTransaction
<1>4. row \in Rows
  <2>1. CASE pc[a] = "begin"
    BY <1>2, <1>3, <2>1 DEF Rows, GatewayRow, Fine, Position
  <2>2. CASE pc[a] = "node"
    <3>1. batch[a] \in Batches /\ next[a] \in DOMAIN batch[a]
      BY <1>3, <2>2 DEF Fine, Position, Valid
    <3>2. batch[a][next[a]] \in Readings
      BY <3>1 DEF Readings
    <3> QED BY <1>2, <2>2, <3>2 DEF Rows, NodeRow
  <2> QED BY <1>2, <2>1, <2>2
<1>5. /\ holds'[a] = holds[a] \cup {row}
      /\ pc'[a] = IF pc[a] = "begin" THEN "node" ELSE "telemetry"
      /\ \A b \in Attempts \ {a} : holds'[b] = holds[b] /\ pc'[b] = pc[b]
  BY <1>2 DEF IndInv, TypeOK
<1>6. TypeOK'
  BY <1>1, <1>2, <1>4 DEF IndInv, TypeOK
<1>7. LocksInv'
  <2>1. \A b \in Attempts \ {a} : holds'[a] \cap holds'[b] = {}
    BY <1>2, <1>5 DEF Free, IndInv, LocksInv
  <2>2. GatewayRow(a) \in holds'[a] /\ pc'[a] \in Holding
    BY <1>2, <1>5 DEF IndInv, LocksInv, Holding
  <2> QED BY <1>1, <1>5, <2>1, <2>2 DEF IndInv, LocksInv, GatewayRow
<1>8. Fine(a)'
  <2>1. Position(a)'
    BY <1>1, <1>2, <1>3, <1>5 DEF Fine, Position, Done, NodeRow
  <2>2. AsIfNow(a)'
    BY <1>1, <1>3 DEF Fine, AsIfNow, Done, Log!IsNew, Log!Identities, Identities
  <2> QED BY <1>5, <2>1, <2>2 DEF Fine, InTransaction
<1>9. \A b \in Attempts : Fine(b)'
  <2>1. ASSUME NEW b \in Attempts, b # a PROVE Fine(b)'
    <3>1. Fine(b)
      BY DEF Fine, IndInv, TransactionInv
    <3>2. SameAs(b)
      BY <1>1, <1>5, <2>1 DEF SameAs
    <3> QED BY <1>1, <3>1, <3>2, FrameStep
  <2> QED BY <1>8, <2>1
<1> QED BY <1>6, <1>7, <1>9 DEF IndInv, TransactionInv, Fine

\* The status ON CONFLICT gives a reading is that of an atomic delivery: what
\* came before it in the batch is stored or written by this transaction.
LEMMA InsertStep ==
    ASSUME IndInv, NEW a \in Attempts, insertTelemetry(a)
    PROVE  IndInv'
<1> DEFINE b == batch[a]
           n == next[a]
           following == NextValid(b, n + 1)
           inserted == Identity(b[n]) \notin Identities(log \cup written[a])
<1>1. /\ pc[a] = "telemetry"
      /\ written' = [written EXCEPT ![a] = IF inserted THEN @ \cup {b[n]} ELSE @]
      /\ status' = [status EXCEPT ![a][n] = IF inserted THEN "INSERTED" ELSE "DUPLICATE"]
      /\ next' = [next EXCEPT ![a] = following]
      /\ pc' = [pc EXCEPT ![a] = IF following > Len(b) THEN "commit" ELSE "node"]
      /\ UNCHANGED <<log, gateway, batch, holds>>
  BY DEF insertTelemetry
<1>2. Position(a) /\ AsIfNow(a)
  BY <1>1 DEF IndInv, TransactionInv, InTransaction
<1>3. /\ b \in Batches /\ Len(b) \in Nat /\ DOMAIN b = 1..Len(b)
      /\ n \in Valid(b) /\ n \in 1..Len(b) /\ b[n].decodes
      /\ \A i \in DOMAIN b : b[i].decodes \in BOOLEAN
  BY <1>1, <1>2, BatchesAssumption DEF Position, Valid
<1>4. /\ following \in (n + 1)..(Len(b) + 1)
      /\ following \in Valid(b) \cup {Len(b) + 1}
      /\ \A k \in (n + 1)..(following - 1) : k \notin Valid(b)
  BY <1>3, NextValidIsFirst
<1>5. b[n] \in Readings
  BY <1>3 DEF Readings
<1> HIDE DEF b, n, following, inserted
<1>6. /\ written'[a] = IF inserted THEN written[a] \cup {b[n]} ELSE written[a]
      /\ next'[a] = following
      /\ pc'[a] = IF following > Len(b) THEN "commit" ELSE "node"
      /\ DOMAIN status'[a] = DOMAIN status[a]
      /\ status'[a] = [status[a] EXCEPT ![n] =
                         IF inserted THEN "INSERTED" ELSE "DUPLICATE"]
      /\ DOMAIN status[a] = DOMAIN b
      /\ \A c \in Attempts \ {a} : SameAs(c)
  BY <1>1 DEF IndInv, TypeOK, SameAs, b
<1>7. status[a] \in [DOMAIN b -> Status]
  BY <1>6 DEF IndInv, TypeOK
<1>8. /\ status'[a][n] = IF inserted THEN "INSERTED" ELSE "DUPLICATE"
      /\ \A i \in DOMAIN b : i # n => status'[a][i] = status[a][i]
      /\ status'[a] \in [DOMAIN b -> Status]
  BY <1>3, <1>6, <1>7 DEF Status
<1>9. TypeOK'
  <2>1. /\ next' \in [Attempts -> Nat]
        /\ pc' \in [Attempts -> {"unsent", "begin", "node", "telemetry", "commit",
                                 "committed", "answered", "lost", "failed"}]
    BY <1>1, <1>3, <1>4 DEF IndInv, TypeOK
  <2>2. written' \in [Attempts -> SUBSET Readings]
    BY <1>1, <1>5 DEF IndInv, TypeOK
  <2>3. b \in Batches
    BY <1>3
  <2>4. status' \in [Attempts -> UNION {[DOMAIN c -> Status] : c \in Batches \cup {<<>>}}]
    BY <1>1, <1>6, <1>8, <2>3 DEF IndInv, TypeOK
  <2>5. \A c \in Attempts : DOMAIN status'[c] = DOMAIN batch'[c]
    BY <1>1, <1>6 DEF IndInv, TypeOK, SameAs, b
  <2> QED BY <1>1, <2>1, <2>2, <2>4, <2>5 DEF IndInv, TypeOK
<1>10. LocksInv'
  <2>1. pc[a] \in Holding /\ pc'[a] \in Holding
    BY <1>1, <1>6 DEF Holding
  <2> QED BY <1>1, <1>6, <2>1 DEF IndInv, LocksInv, GatewayRow, SameAs
<1>11. Done(a)' = Done(a) \cup {n} /\ n \notin Done(a)
  <2>1. /\ Done(a)' = {i \in Valid(b) : i < following}
        /\ Done(a) = {i \in Valid(b) : i < n}
    BY <1>1, <1>6 DEF Done, Valid, b, n
  <2>2. \A i \in Valid(b) : i \in Nat /\ i \in 1..Len(b)
    BY <1>3 DEF Valid
  <2>3. ASSUME NEW i \in Valid(b) PROVE i < following <=> (i < n \/ i = n)
    <3>1. i \in Nat /\ n \in Nat
      BY <1>3, <2>2
    <3>2. following \in Nat /\ n + 1 <= following
      BY <1>3, <1>4, <3>1
    <3>3. i < following /\ ~(i < n) /\ i # n => i \in (n + 1)..(following - 1)
      BY <3>1, <3>2
    <3>4. i < n \/ i = n => i < following
      BY <3>1, <3>2
    <3> QED BY <1>4, <2>3, <3>3, <3>4
  <2>4. n \in Valid(b) /\ ~(n < n)
    BY <1>3
  <2> QED BY <2>1, <2>3, <2>4
<1>12. inserted <=> Log!IsNew(b, log, n)
  <2>1. \A j \in 1..(n - 1) : b[j].decodes => j \in Done(a)
    BY <1>3 DEF Done, Valid, b, n
  <2>2. ASSUME inserted PROVE Log!IsNew(b, log, n)
    BY <1>2, <1>3, <2>1, <2>2
       DEF inserted, Log!IsNew, Log!Identities, Log!Identity, Identities, Identity, AsIfNow,
           b
  <2>3. ASSUME Log!IsNew(b, log, n) PROVE inserted
    <3>1. ASSUME NEW row \in written[a] PROVE Identity(row) # Identity(b[n])
      <4>1. PICK j \in Done(a) : row = b[j]
        BY <1>2, <3>1 DEF AsIfNow, b
      <4>2. j \in 1..(n - 1) /\ b[j].decodes
        BY <1>3, <4>1 DEF Done, Valid, b, n
      <4> QED BY <2>3, <4>1, <4>2 DEF Log!IsNew, Log!Identity, Identity
    <3> QED BY <2>3, <3>1
            DEF inserted, Log!IsNew, Log!Identities, Log!Identity, Identities, Identity
  <2> QED BY <2>2, <2>3
<1>13. Position(a)'
  <2>1. NodeRow(a) = RowOf(b[n])
    BY DEF NodeRow, RowOf, b, n
  <2>2. \A i \in Done(a)' : RowOf(b[i]) \in holds[a]
    BY <1>1, <1>2, <1>11, <2>1 DEF Position, b
  <2>3. batch'[a] = b /\ holds'[a] = holds[a] /\ gateway'[a] = gateway[a]
    BY <1>1 DEF b
  <2>4. pc'[a] = "commit" => following = Len(b) + 1
    BY <1>3, <1>4, <1>6
  <2>5. pc'[a] # "commit" => following \in Valid(b)
    BY <1>3, <1>4, <1>6
  <2>6. following \in 1..(Len(b) + 1)
    BY <1>3, <1>4
  <2> QED BY <1>2, <1>3, <1>6, <2>2, <2>3, <2>4, <2>5, <2>6 DEF Position
<1>14. AsIfNow(a)'
  <2>1. batch'[a] = b /\ batch[a] = b /\ log' = log
    BY <1>1 DEF b
  <2>2. \A i \in DOMAIN b : ~b[i].decodes => status'[a][i] = "REJECTED_INVALID"
    BY <1>2, <1>3, <1>8, <2>1 DEF AsIfNow
  <2>3. \A i \in Done(a)' : Identity(b[i]) \in Identities(log \cup written'[a])
    BY <1>2, <1>6, <1>11, <2>1 DEF AsIfNow, Identities, inserted
  <2>4. \A i \in Done(a)' : status'[a][i] =
            IF Log!IsNew(b, log, i) THEN "INSERTED" ELSE "DUPLICATE"
    <3>1. \A i \in Done(a) : i \in DOMAIN b
      BY <2>1 DEF Done, Valid
    <3> QED BY <1>2, <1>8, <1>11, <1>12, <2>1, <3>1 DEF AsIfNow
  <2>5. written'[a] = {b[i] : i \in {j \in Done(a)' : Log!IsNew(b, log, j)}}
    BY <1>2, <1>6, <1>11, <1>12, <2>1 DEF AsIfNow
  <2> QED BY <2>1, <2>2, <2>3, <2>4, <2>5
          DEF AsIfNow, Log!IsNew, Log!Identities, Identities
<1>15. InTransaction(a)'
  BY <1>6 DEF InTransaction
<1>16. \A c \in Attempts : Fine(c)'
  <2>1. ASSUME NEW c \in Attempts, c # a PROVE Fine(c)'
    <3>1. Fine(c)
      BY DEF Fine, IndInv, TransactionInv
    <3> QED BY <1>1, <1>6, <2>1, <3>1, FrameStep
  <2> QED BY <1>13, <1>14, <1>15, <2>1 DEF Fine
<1> QED BY <1>9, <1>10, <1>16 DEF IndInv, TransactionInv, Fine

\* COMMIT stores rows of Nodes that nobody else has touched.
LEMMA CommitStep ==
    ASSUME IndInv, NEW a \in Attempts, Commit(a)
    PROVE  IndInv'
<1>1. /\ pc[a] = "commit" /\ log' = log \cup written[a]
      /\ written'[a] = {} /\ holds'[a] = {} /\ pc'[a] = "committed"
      /\ UNCHANGED <<gateway, batch, next, status>>
      /\ \A b \in Attempts \ {a} : SameAs(b)
  BY DEF Commit, IndInv, TypeOK, SameAs
<1>2. TypeOK'
  BY DEF Commit, IndInv, TypeOK
<1>3. LocksInv'
  BY <1>1 DEF IndInv, LocksInv, GatewayRow, SameAs, Holding
<1>4. Fine(a)'
  BY <1>1 DEF Fine, InTransaction
<1>5. ASSUME NEW b \in Attempts, b # a PROVE Fine(b)'
  <2>1. Fine(b) /\ SameAs(b)
    BY <1>1, <1>5 DEF Fine, IndInv, TransactionInv
  <2>2. CASE InTransaction(b)
    <3>1. Position(b) /\ AsIfNow(b)
      BY <2>1, <2>2 DEF Fine
    <3>2. /\ Done(b)' = Done(b) /\ batch'[b] = batch[b] /\ written'[b] = written[b]
          /\ status'[b] = status[b]
      BY <2>1 DEF SameAs, Done, Valid
    <3>3. Position(b)'
      BY <2>1, <3>1, <3>2 DEF SameAs, Position, NodeRow, Valid
    <3>4. InTransaction(a)
      BY <1>1 DEF InTransaction
    <3>5. \A i \in Done(b) : Log!IsNew(batch[b], log', i) <=> Log!IsNew(batch[b], log, i)
      BY <1>1, <1>5, <2>2, <3>4, NewKept
    <3>6. \A i \in Done(b) : Identity(batch[b][i]) \in Identities(log' \cup written[b])
      BY <1>1, <3>1 DEF AsIfNow, Identities
    <3>7. written[b] = {batch[b][i] : i \in {j \in Done(b) : Log!IsNew(batch[b], log', j)}}
      BY <3>1, <3>5 DEF AsIfNow
    <3>8. \A i \in Done(b) : status[b][i] =
            IF Log!IsNew(batch[b], log', i) THEN "INSERTED" ELSE "DUPLICATE"
      BY <3>1, <3>5 DEF AsIfNow
    <3>9. \A i \in DOMAIN batch[b] :
            ~batch[b][i].decodes => status[b][i] = "REJECTED_INVALID"
      BY <3>1 DEF AsIfNow
    <3>10. AsIfNow(b)'
      BY <3>2, <3>6, <3>7, <3>8, <3>9 DEF AsIfNow, Log!IsNew, Log!Identities, Identities
    <3> QED BY <3>3, <3>10, <2>1, <2>2 DEF Fine, InTransaction, SameAs
  <2>3. CASE ~InTransaction(b)
    BY <2>1, <2>3 DEF Fine, InTransaction, SameAs
  <2> QED BY <2>2, <2>3
<1> QED BY <1>2, <1>3, <1>4, <1>5 DEF IndInv, TransactionInv, Fine

\* A victim of the deadlock detector waits, so it is in a transaction.
LEMMA DeadlockedWait ==
    ASSUME NEW a \in Deadlocked
    PROVE  /\ a \in Attempts /\ pc[a] \in {"begin", "node"}
           /\ \E b \in Attempts : b # a /\ Wanted(b) \cap holds[a] # {}
<1>1. PICK C \in SUBSET Attempts : Knot(C) /\ a \in C
  BY DEF Deadlocked
<1>2. Wanted(a) # {}
  BY <1>1 DEF Knot, WaitsFor
<1> QED BY <1>1, <1>2 DEF Knot, WaitsFor, Wanted

\* The end of a transaction without COMMIT, or of a request after it, leaves
\* everything to the others as it was.
LEMMA EndStep ==
    ASSUME IndInv, NEW a \in Attempts,
           \/ (InTransaction(a) /\ Rollback(a))
           \/ Answer(a) \/ LoseAnswer(a)
    PROVE  IndInv'
<1>1. /\ UNCHANGED <<log, gateway, batch, next, status>>
      /\ written'[a] = {} /\ holds'[a] = {}
      /\ pc'[a] \in {"failed", "answered", "lost"}
      /\ \A b \in Attempts \ {a} : SameAs(b)
  BY DEF Rollback, Answer, LoseAnswer, IndInv, TypeOK, SameAs, LocksInv, Holding,
         TransactionInv, InTransaction
<1>2. TypeOK'
  BY DEF Rollback, Answer, LoseAnswer, IndInv, TypeOK
<1>3. LocksInv'
  BY <1>1 DEF IndInv, LocksInv, GatewayRow, SameAs, Holding
<1>4. Fine(a)'
  BY <1>1 DEF Fine, InTransaction
<1>5. ASSUME NEW b \in Attempts, b # a PROVE Fine(b)'
  <2>1. Fine(b) /\ SameAs(b)
    BY <1>1, <1>5 DEF Fine, IndInv, TransactionInv
  <2> QED BY <1>1, <2>1, FrameStep
<1> QED BY <1>2, <1>3, <1>4, <1>5 DEF IndInv, TransactionInv, Fine

\* What a batch has done so far is what one delivery would do now, and rows
\* have one holder, always.
THEOREM Inductive == Spec => []IndInv
<1>1. IndInv /\ [Next]_vars => IndInv'
  <2> SUFFICES ASSUME IndInv, [Next]_vars PROVE IndInv'
    OBVIOUS
  <2>1. CASE UNCHANGED vars
    <3>1. TypeOK' /\ LocksInv' /\ log' = log /\ \A a \in Attempts : SameAs(a)
      BY <2>1 DEF vars, IndInv, TypeOK, LocksInv, GatewayRow, SameAs
    <3>2. \A a \in Attempts : Fine(a)
      BY DEF IndInv, TransactionInv, Fine
    <3>3. \A a \in Attempts : Fine(a)'
      BY <3>1, <3>2, FrameStep
    <3> QED BY <3>1, <3>3 DEF IndInv, TransactionInv, Fine
  <2>2. CASE BreakDeadlock
    <3>1. PICK a \in Deadlocked : Rollback(a)
      BY <2>2 DEF BreakDeadlock
    <3>2. a \in Attempts /\ InTransaction(a)
      BY DeadlockedWait DEF InTransaction
    <3> QED BY <3>1, <3>2, EndStep
  <2>3. ASSUME NEW a \in Attempts,
               \/ \E g \in Gateways, readings \in Batches : Receive(a, g, readings)
               \/ Step(a) \/ Abort(a) \/ LoseAnswer(a)
        PROVE  IndInv'
    BY <2>3, ReceiveStep, LockStep, InsertStep, CommitStep, EndStep DEF Step, Abort
  <2> QED BY <2>1, <2>2, <2>3 DEF Next
<1> QED BY <1>1, InitInd, PTL DEF Spec

\* The variables hold what ingest and the tables allow.
THEOREM TypeCorrect == Spec => []TypeOK
<1>1. IndInv => TypeOK
  BY DEF IndInv
<1> QED BY <1>1, Inductive, PTL

\* Whoever is waited for holds the row of its Gateway, which has one holder:
\* the attempts of a deadlock come from different Gateways.
THEOREM GatewaysNeverDeadlockAlone == Spec => []OneGatewayNeverDeadlocks
<1>1. IndInv => OneGatewayNeverDeadlocks
  <2> SUFFICES ASSUME IndInv, NEW a \in Deadlocked, NEW b \in Deadlocked, a # b
               PROVE  gateway[a] # gateway[b]
    BY DEF OneGatewayNeverDeadlocks
  <2>1. /\ a \in Attempts /\ holds[a] # {}
        /\ b \in Attempts /\ holds[b] # {}
    BY DeadlockedWait
  <2>2. GatewayRow(a) \in holds[a] /\ GatewayRow(b) \in holds[b]
    BY <2>1 DEF IndInv, LocksInv
  <2>3. GatewayRow(a) # GatewayRow(b)
    BY <2>1, <2>2 DEF IndInv, LocksInv
  <2> QED BY <2>3 DEF GatewayRow
<1> QED BY <1>1, Inductive, PTL

-----------------------------------------------------------------------------
(* The refinement: COMMIT, or the end of a request without a valid reading,*)
(* is the atomic step; every other step stutters.                          *)

\* A batch without a valid reading is delivered by being received.
LEMMA ReceiveRefines ==
    ASSUME IndInv, NEW a \in Attempts, NEW g \in Gateways, NEW readings \in Batches,
           Receive(a, g, readings)
    PROVE  Log!Next \/ UNCHANGED <<log, AnswerOf>>
<1>1. /\ pc[a] = "unsent" /\ log' = log
      /\ \A b \in Attempts \ {a} : pc'[b] = pc[b] /\ status'[b] = status[b]
      /\ status'[a] = [i \in DOMAIN readings |->
                         IF i \in Valid(readings) THEN "PENDING" ELSE "REJECTED_INVALID"]
      /\ pc'[a] \in {"failed", "committed", "begin"}
      /\ pc'[a] = "committed" => Valid(readings) = {}
  BY DEF Receive, IndInv, TypeOK
<1>2. CASE pc'[a] = "committed"
  <2>1. \A i \in DOMAIN readings : ~readings[i].decodes
    BY <1>1, <1>2 DEF Valid
  <2>2. status'[a] = Log!Statuses(readings, log)
    BY <1>1, <2>1 DEF Log!Statuses, Valid
  <2>3. log' = log \cup {readings[i] : i \in {j \in DOMAIN readings :
                                                Log!IsNew(readings, log, j)}}
    BY <1>1, <2>1 DEF Log!IsNew
  <2>4. AnswerOf[a] = NULL
    BY <1>1 DEF AnswerOf, Stored
  <2>5. AnswerOf' = [AnswerOf EXCEPT ![a] = Log!Statuses(readings, log)]
    BY <1>1, <1>2, <2>2 DEF AnswerOf, Stored
  <2>6. Log!Store(a, readings)
    BY <2>3, <2>4, <2>5 DEF Log!Store
  <2> QED BY <2>6 DEF Log!Next
<1>3. CASE pc'[a] # "committed"
  BY <1>1, <1>3 DEF AnswerOf, Stored
<1> QED BY <1>2, <1>3

\* COMMIT delivers the batch: every reading is dealt with, as if now.
LEMMA CommitRefines ==
    ASSUME IndInv, NEW a \in Attempts, Commit(a)
    PROVE  Log!Next
<1> DEFINE b == batch[a]
<1>1. /\ pc[a] = "commit" /\ log' = log \cup written[a] /\ status' = status
      /\ pc'[a] = "committed" /\ \A c \in Attempts \ {a} : pc'[c] = pc[c]
  BY DEF Commit, IndInv, TypeOK
<1>2. Position(a) /\ AsIfNow(a)
  BY <1>1 DEF IndInv, TransactionInv, InTransaction
<1>3. /\ b \in Batches /\ Len(b) \in Nat /\ DOMAIN b = 1..Len(b)
      /\ \A i \in DOMAIN b : b[i].decodes \in BOOLEAN
      /\ next[a] = Len(b) + 1
  BY <1>1, <1>2, BatchesAssumption DEF Position
<1>4. Done(a) = {i \in DOMAIN b : b[i].decodes}
  <2>1. \A i \in DOMAIN b : i < next[a]
    BY <1>3
  <2> QED BY <2>1 DEF Done, Valid
<1>5. status[a] = Log!Statuses(b, log)
  <2>1. status[a] = [i \in DOMAIN b |-> status[a][i]]
    BY DEF IndInv, TypeOK
  <2>2. \A i \in DOMAIN b : status[a][i] = Log!Statuses(b, log)[i]
    BY <1>2, <1>3, <1>4 DEF AsIfNow, Log!Statuses
  <2> QED BY <2>1, <2>2 DEF Log!Statuses
<1>6. written[a] = {b[i] : i \in {j \in DOMAIN b : Log!IsNew(b, log, j)}}
  BY <1>2, <1>4 DEF AsIfNow, Log!IsNew
<1>7. AnswerOf[a] = NULL
  BY <1>1 DEF AnswerOf, Stored
<1>8. AnswerOf' = [AnswerOf EXCEPT ![a] = Log!Statuses(b, log)]
  BY <1>1, <1>5 DEF AnswerOf, Stored
<1>9. Log!Store(a, b)
  BY <1>1, <1>6, <1>7, <1>8 DEF Log!Store
<1> QED BY <1>3, <1>9 DEF Log!Next

\* Any other step is invisible.
LEMMA OtherStutters ==
    ASSUME IndInv, NEW a \in Attempts,
           \/ upsertGateway(a) \/ upsertNode(a) \/ insertTelemetry(a)
           \/ Answer(a) \/ LoseAnswer(a) \/ (InTransaction(a) /\ Rollback(a))
    PROVE  UNCHANGED <<log, AnswerOf>>
<1>1. /\ log' = log
      /\ Stored(a) => Stored(a)' /\ status'[a] = status[a]
      /\ ~Stored(a) => ~(Stored(a)')
      /\ \A b \in Attempts \ {a} : pc'[b] = pc[b] /\ status'[b] = status[b]
  BY DEF upsertGateway, upsertNode, insertTelemetry, Answer, LoseAnswer, Rollback,
         InTransaction, Stored, IndInv, TypeOK
<1>2. \A b \in Attempts : (IF Stored(b) THEN status[b] ELSE NULL)' =
                           (IF Stored(b) THEN status[b] ELSE NULL)
  BY <1>1 DEF Stored
<1> QED BY <1>1, <1>2 DEF AnswerOf

\* The answers a Gateway gets and the rows of the table are those of atomic
\* deliveries, for every batch, order of Nodes, repetition and interleaving.
THEOREM Refinement == Spec => AtomicDelivery
<1>1. Init => Log!Init
  BY DEF Init, Log!Init, AnswerOf, Stored
<1>2. IndInv /\ [Next]_vars => [Log!Next]_<<log, AnswerOf>>
  <2> SUFFICES ASSUME IndInv, [Next]_vars PROVE Log!Next \/ UNCHANGED <<log, AnswerOf>>
    OBVIOUS
  <2>1. CASE UNCHANGED vars
    BY <2>1 DEF vars, AnswerOf, Stored
  <2>2. CASE BreakDeadlock
    <3>1. PICK a \in Deadlocked : Rollback(a)
      BY <2>2 DEF BreakDeadlock
    <3>2. a \in Attempts /\ InTransaction(a)
      BY DeadlockedWait DEF InTransaction
    <3> QED BY <3>1, <3>2, OtherStutters
  <2>3. ASSUME NEW a \in Attempts,
               \/ \E g \in Gateways, readings \in Batches : Receive(a, g, readings)
               \/ Step(a) \/ Abort(a) \/ LoseAnswer(a)
        PROVE  Log!Next \/ UNCHANGED <<log, AnswerOf>>
    <3>1. CASE \E g \in Gateways, readings \in Batches : Receive(a, g, readings)
      BY <3>1, ReceiveRefines
    <3>2. CASE Commit(a)
      BY <3>2, CommitRefines
    <3>3. CASE \/ upsertGateway(a) \/ upsertNode(a) \/ insertTelemetry(a)
               \/ Answer(a) \/ LoseAnswer(a) \/ (InTransaction(a) /\ Rollback(a))
      BY <3>3, OtherStutters
    <3>4. \/ \E g \in Gateways, readings \in Batches : Receive(a, g, readings)
          \/ Commit(a)
          \/ \/ upsertGateway(a) \/ upsertNode(a) \/ insertTelemetry(a)
             \/ Answer(a) \/ LoseAnswer(a) \/ (InTransaction(a) /\ Rollback(a))
      BY <2>3 DEF Step, Abort
    <3> QED BY <3>1, <3>2, <3>3, <3>4
  <2> QED BY <2>1, <2>2, <2>3 DEF Next
<1> QED BY <1>1, <1>2, Inductive, PTL DEF Spec, AtomicDelivery, Log!Spec
=============================================================================

-------------------------- MODULE TelemetryIngestion --------------------------
(***************************************************************************)
(* POST of a telemetry batch, statement by statement.                      *)
(*                                                                         *)
(*   src/src/iot/services/telemetry-ingestion.service.ts (ingest)          *)
(*   src/src/iot/repositories/iot-ingestion.repository.ts                  *)
(*                                                                         *)
(* Several Gateways hear the same Nodes and send batches at the same time; *)
(* an answer may be lost and the batch sent again.  persistBatch is one    *)
(* READ COMMITTED transaction: the row of the Gateway, then for every      *)
(* reading the row of its Node and the telemetry row.  Rows it updated or  *)
(* inserted stay locked until it ends.  What happens to a Node's derived   *)
(* state after COMMIT is the subject of SensorState.                       *)
(***************************************************************************)
EXTENDS Sequences, Naturals

CONSTANTS
    Attempts,         \* POST requests, a repetition being another attempt
    Gateways,         \* hardware MACs
    Batches,          \* sequences of readings a Gateway may send
    MaximumBatchSize, \* configuration: readings of one batch
    NULL

ASSUME BatchesAssumption ==
    /\ MaximumBatchSize \in Nat \ {0}
    /\ NULL \notin Gateways
    /\ \A b \in Batches :
          /\ Len(b) \in Nat /\ DOMAIN b = 1..Len(b)
          /\ \A i \in DOMAIN b : b[i].decodes \in BOOLEAN

VARIABLES
    log,      \* committed rows of iot_telemetry
    gateway,  \* per attempt: who sent it
    batch,    \* per attempt: request.readings
    pc,       \* per attempt: where ingest is
    next,     \* per attempt: the reading persistBatch has reached
    written,  \* per attempt: rows inserted by its transaction
    status,   \* per attempt: the statuses known so far, by index
    holds     \* per attempt: the rows its transaction has locked

vars == <<log, gateway, batch, pc, next, written, status, holds>>

Identity(reading) == <<reading.node, reading.key>>

Identities(rows) == {Identity(row) : row \in rows}

Init ==
    /\ log = {}
    /\ gateway = [a \in Attempts |-> NULL]
    /\ batch = [a \in Attempts |-> <<>>]
    /\ pc = [a \in Attempts |-> "unsent"]
    /\ next = [a \in Attempts |-> 0]
    /\ written = [a \in Attempts |-> {}]
    /\ status = [a \in Attempts |-> <<>>]
    /\ holds = [a \in Attempts |-> {}]

-----------------------------------------------------------------------------
(* The request.                                                            *)

\* The indices `valid` keeps; the others are REJECTED_INVALID at once.
Valid(readings) == {i \in DOMAIN readings : readings[i].decodes}

\* The first valid index from i on, or one past the end.
NextValid(readings, i) ==
    CHOOSE j \in i..(Len(readings) + 1) :
        /\ j \in Valid(readings) \cup {Len(readings) + 1}
        /\ \A k \in i..(j - 1) : k \notin Valid(readings)

\* A batch over the limit is a BadRequest; one without a valid reading is
\* answered without a transaction.
Receive(a, g, readings) ==
    /\ pc[a] = "unsent"
    /\ gateway' = [gateway EXCEPT ![a] = g]
    /\ batch' = [batch EXCEPT ![a] = readings]
    /\ status' = [status EXCEPT ![a] = [i \in DOMAIN readings |->
                      IF i \in Valid(readings) THEN "PENDING"
                      ELSE "REJECTED_INVALID"]]
    /\ next' = [next EXCEPT ![a] = NextValid(readings, 1)]
    /\ pc' = [pc EXCEPT ![a] =
                IF Len(readings) > MaximumBatchSize THEN "failed"
                ELSE IF Valid(readings) = {} THEN "committed" ELSE "begin"]
    /\ UNCHANGED <<log, written, holds>>

-----------------------------------------------------------------------------
(* The statements of persistBatch.                                         *)

Free(a, row) == \A b \in Attempts \ {a} : row \notin holds[b]

Lock(a, row) == holds' = [holds EXCEPT ![a] = @ \cup {row}]

GatewayRow(a) == <<"gateway", gateway[a]>>
NodeRow(a) == <<"node", batch[a][next[a]].node>>

\* Mutant: the Gateway is looked up, not updated, so its row is not locked.
lookupGateway(a) ==
    /\ pc[a] = "begin"
    /\ pc' = [pc EXCEPT ![a] = "node"]
    /\ UNCHANGED <<log, gateway, batch, next, written, status, holds>>

upsertGateway(a) ==
    /\ pc[a] = "begin"
    /\ Free(a, GatewayRow(a))
    /\ Lock(a, GatewayRow(a))
    /\ pc' = [pc EXCEPT ![a] = "node"]
    /\ UNCHANGED <<log, gateway, batch, next, written, status>>

upsertNode(a) ==
    /\ pc[a] = "node"
    /\ Free(a, NodeRow(a))
    /\ Lock(a, NodeRow(a))
    /\ pc' = [pc EXCEPT ![a] = "telemetry"]
    /\ UNCHANGED <<log, gateway, batch, next, written, status>>

\* Mutant: duplicates are looked for among the committed rows only.
insertUnseen(a) ==
    LET reading == batch[a][next[a]]
        inserted == Identity(reading) \notin Identities(log)
        following == NextValid(batch[a], next[a] + 1)
    IN
    /\ pc[a] = "telemetry"
    /\ written' = [written EXCEPT ![a] =
                     IF inserted THEN @ \cup {reading} ELSE @]
    /\ status' = [status EXCEPT ![a][next[a]] =
                    IF inserted THEN "INSERTED" ELSE "DUPLICATE"]
    /\ next' = [next EXCEPT ![a] = following]
    /\ pc' = [pc EXCEPT ![a] =
                IF following > Len(batch[a]) THEN "commit" ELSE "node"]
    /\ UNCHANGED <<log, gateway, batch, holds>>

\* INSERT INTO iot_telemetry ... ON CONFLICT DO NOTHING: committed rows and
\* rows of this transaction count.  A row another transaction has inserted
\* and not committed cannot be in the way: its Node is locked.
insertTelemetry(a) ==
    LET reading == batch[a][next[a]]
        inserted == Identity(reading) \notin Identities(log \cup written[a])
        following == NextValid(batch[a], next[a] + 1)
    IN
    /\ pc[a] = "telemetry"
    /\ written' = [written EXCEPT ![a] =
                     IF inserted THEN @ \cup {reading} ELSE @]
    /\ status' = [status EXCEPT ![a][next[a]] =
                    IF inserted THEN "INSERTED" ELSE "DUPLICATE"]
    /\ next' = [next EXCEPT ![a] = following]
    /\ pc' = [pc EXCEPT ![a] =
                IF following > Len(batch[a]) THEN "commit" ELSE "node"]
    /\ UNCHANGED <<log, gateway, batch, holds>>

\* COMMIT; ingest then recomputes the Nodes that got rows.
Commit(a) ==
    /\ pc[a] = "commit"
    /\ log' = log \cup written[a]
    /\ written' = [written EXCEPT ![a] = {}]
    /\ holds' = [holds EXCEPT ![a] = {}]
    /\ pc' = [pc EXCEPT ![a] = "committed"]
    /\ UNCHANGED <<gateway, batch, next, status>>

InTransaction(a) == pc[a] \in {"begin", "node", "telemetry", "commit"}

\* Mutant: the client goes back to the pool inside its transaction.
Leak(a) ==
    /\ written' = [written EXCEPT ![a] = {}]
    /\ pc' = [pc EXCEPT ![a] = "failed"]
    /\ UNCHANGED <<log, gateway, batch, next, status, holds>>

\* ROLLBACK: a statement fails, the process dies, no connection is free.
Rollback(a) ==
    /\ written' = [written EXCEPT ![a] = {}]
    /\ holds' = [holds EXCEPT ![a] = {}]
    /\ pc' = [pc EXCEPT ![a] = "failed"]
    /\ UNCHANGED <<log, gateway, batch, next, status>>

Abort(a) == InTransaction(a) /\ Rollback(a)

-----------------------------------------------------------------------------
(* Waiting.                                                                *)

\* The row the next statement of an attempt needs, if any.
Wanted(a) ==
    IF pc[a] = "begin" THEN {GatewayRow(a)}
    ELSE IF pc[a] = "node" THEN {NodeRow(a)} ELSE {}

WaitsFor(a, b) == a # b /\ Wanted(a) \cap holds[b] # {}

\* Attempts each of which waits for one of them and makes one of them wait;
\* a row has one holder, so such a set consists of cycles.
Knot(C) ==
    \A a \in C : (\E b \in C : WaitsFor(a, b)) /\ (\E b \in C : WaitsFor(b, a))

\* PostgreSQL's deadlock detector (deadlock_timeout): attempts that wait for
\* themselves through each other.
Deadlocked == UNION {C \in SUBSET Attempts : Knot(C)}

BreakDeadlock == \E a \in Deadlocked : Rollback(a)

-----------------------------------------------------------------------------
(* The answer.                                                             *)

Answer(a) ==
    /\ pc[a] = "committed"
    /\ pc' = [pc EXCEPT ![a] = "answered"]
    /\ UNCHANGED <<log, gateway, batch, next, written, status, holds>>

\* The process dies, or a connection, during or after COMMIT.
LoseAnswer(a) ==
    /\ pc[a] = "committed"
    /\ pc' = [pc EXCEPT ![a] = "lost"]
    /\ UNCHANGED <<log, gateway, batch, next, written, status, holds>>

Step(a) ==
    \/ upsertGateway(a)
    \/ upsertNode(a)
    \/ insertTelemetry(a)
    \/ Commit(a)
    \/ Answer(a)

Next ==
    \/ \E a \in Attempts :
          \/ \E g \in Gateways, readings \in Batches : Receive(a, g, readings)
          \/ Step(a)
          \/ Abort(a)
          \/ LoseAnswer(a)
    \/ BreakDeadlock

Spec == Init /\ [][Next]_vars

\* A statement that can run is run, and PostgreSQL breaks every deadlock.
Fairness == (\A a \in Attempts : WF_vars(Step(a))) /\ WF_vars(BreakDeadlock)

FairSpec == Spec /\ Fairness

-----------------------------------------------------------------------------
Readings == UNION {{b[i] : i \in DOMAIN b} : b \in Batches}

Status == {"PENDING", "REJECTED_INVALID", "INSERTED", "DUPLICATE"}

\* Rows a transaction locks.
Rows == ({"gateway"} \X Gateways) \cup ({"node"} \X {r.node : r \in Readings})

\* The variables hold what ingest and the tables allow.
TypeOK ==
    /\ log \subseteq Readings
    /\ gateway \in [Attempts -> Gateways \cup {NULL}]
    /\ batch \in [Attempts -> Batches \cup {<<>>}]
    /\ pc \in [Attempts -> {"unsent", "begin", "node", "telemetry", "commit",
                            "committed", "answered", "lost", "failed"}]
    /\ next \in [Attempts -> Nat]
    /\ written \in [Attempts -> SUBSET Readings]
    /\ status \in [Attempts -> UNION {[DOMAIN b -> Status] : b \in Batches \cup {<<>>}}]
    /\ \A a \in Attempts : DOMAIN status[a] = DOMAIN batch[a]
    /\ holds \in [Attempts -> SUBSET Rows]

Stored(a) == pc[a] \in {"committed", "answered", "lost"}

\* The answer as the abstract specification has it: nothing before COMMIT.
AnswerOf == [a \in Attempts |-> IF Stored(a) THEN status[a] ELSE NULL]

Log == INSTANCE TelemetryLog WITH answers <- AnswerOf

\* persistBatch and its statuses are those of one atomic step at COMMIT,
\* although every statement sees another committed state of the tables.  So a
\* Gateway that was told INSERTED or DUPLICATE may drop the reading: it is
\* stored, also when the answer is that of a repetition, and exactly one
\* delivery is told INSERTED.
AtomicDelivery == Log!Spec

\* Batches of one Gateway queue up at its row before they hold anything:
\* only batches of different Gateways can deadlock over Nodes.
OneGatewayNeverDeadlocks ==
    \A a, b \in Deadlocked : a # b => gateway[a] # gateway[b]

\* Every received batch is answered, lost after COMMIT, or failed: nobody
\* waits for ever, whatever order the batches name their Nodes in.
AttemptsEnd ==
    \A a \in Attempts :
        pc[a] # "unsent" ~> pc[a] \in {"answered", "lost", "failed"}
=============================================================================

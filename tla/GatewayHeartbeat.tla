--------------------------- MODULE GatewayHeartbeat ---------------------------
(***************************************************************************)
(* Heartbeats of Gateways, over the registry they share with telemetry.    *)
(*                                                                         *)
(*   src/src/iot/services/gateway-heartbeat.service.ts                     *)
(*   src/src/iot/repositories/gateway-heartbeat.repository.ts              *)
(*   src/src/iot/repositories/iot-ingestion.repository.ts (upsertGateway)  *)
(*   src/src/iot/models/gateway-heartbeat.models.ts                        *)
(*                                                                         *)
(* persist is one READ COMMITTED transaction and an action is one of its   *)
(* statements.  A row of iot_gateways has two unique keys, the MAC and the *)
(* logical id; a statement that would write a key another transaction is   *)
(* writing waits for that transaction to end.  A batch of telemetry        *)
(* appears with its first statement only: TelemetryIngestion has the rest. *)
(***************************************************************************)
EXTENDS Naturals

CONSTANTS
    Requests,      \* POST requests, each sent once
    Macs,          \* hardware MACs
    GatewayIds,    \* logical ids
    Intervals,     \* heartbeatIntervalSeconds, 15..3600
    Retention,     \* age at which cleanup deletes a sample: 30 days
    MaxTime,       \* bound of the clock
    GatewaysWait,  \* whether a Gateway awaits an answer before its next beat
    NULL

ASSUME ConstantsAssumption ==
    /\ Intervals \subseteq Nat \ {0}
    /\ Retention \in Nat /\ MaxTime \in Nat
    /\ GatewaysWait \in BOOLEAN
    /\ NULL \notin GatewayIds

VARIABLES
    clock,
    gateways,  \* iot_gateways: the logical id of a MAC, or NULL
    statuses,  \* iot_gateway_status: the heartbeat shown for a MAC, or NULL
    metrics,   \* iot_gateway_metrics: heartbeats with a sample
    job,       \* per request: what it carries, or NULL
    pc,        \* per request: the statement it has reached
    holds,     \* per request: the MACs whose rows it has locked
    writes,    \* per request: the logical id it has written, uncommitted
    accepted,  \* auxiliary: heartbeats whose transaction committed
    told       \* heartbeats answered with 202 and sent to the dashboard

tables == <<gateways, statuses, metrics>>
vars == <<clock, tables, job, pc, holds, writes, accepted, told>>

Init ==
    /\ clock = 0
    /\ gateways = [m \in Macs |-> NULL]
    /\ statuses = [m \in Macs |-> NULL]
    /\ metrics = {}
    /\ job = [r \in Requests |-> NULL]
    /\ pc = [r \in Requests |-> "unsent"]
    /\ holds = [r \in Requests |-> {}]
    /\ writes = [r \in Requests |-> NULL]
    /\ accepted = {}
    /\ told = {}

Heartbeat == [request : Requests, mac : Macs, at : Nat, interval : Intervals]

\* What a request carries; a batch has no interval.
Job == [mac : Macs, gatewayId : GatewayIds, at : Nat, interval : Intervals \cup {NULL}]

\* The heartbeat of a request, as its three statements store it.
BeatOf(r) == [request |-> r, mac |-> job[r].mac, at |-> job[r].at,
              interval |-> job[r].interval]

Over(r) == pc[r] \in {"unsent", "told", "lost", "rejected", "failed"}

-----------------------------------------------------------------------------
(* Requests arrive.  receivedAt is read before the transaction begins.     *)

Sent(r, mac, gatewayId, interval) ==
    job' = [job EXCEPT ![r] = [mac |-> mac, gatewayId |-> gatewayId,
                               at |-> clock, interval |-> interval]]

\* A heartbeat, not a batch.
IsHeartbeat(r) == job[r].interval # NULL

InProgress(mac) ==
    \E r \in Requests : ~Over(r) /\ IsHeartbeat(r) /\ job[r].mac = mac

accept(r, mac, gatewayId, interval) ==
    /\ pc[r] = "unsent"
    /\ GatewaysWait => ~InProgress(mac)
    /\ Sent(r, mac, gatewayId, interval)
    /\ pc' = [pc EXCEPT ![r] = "select"]
    /\ UNCHANGED <<clock, tables, holds, writes, accepted, told>>

\* validateRelationships or the size limit: nothing is stored.
validateRelationships(r) ==
    /\ pc[r] = "unsent"
    /\ pc' = [pc EXCEPT ![r] = "rejected"]
    /\ UNCHANGED <<clock, tables, job, holds, writes, accepted, told>>

ingest(r, mac, gatewayId) ==
    /\ pc[r] = "unsent"
    /\ Sent(r, mac, gatewayId, NULL)
    /\ pc' = [pc EXCEPT ![r] = "upsert"]
    /\ UNCHANGED <<clock, tables, holds, writes, accepted, told>>

-----------------------------------------------------------------------------
(* The registry.                                                           *)

Others(r) == Requests \ {r}

Free(r, rows) == \A s \in Others(r) : holds[s] \cap rows = {}

\* Rows that match hardware_mac = $1 OR logical_gateway_id = $2.
Matching(r) == {m \in Macs : /\ gateways[m] # NULL
                             /\ \/ m = job[r].mac
                                \/ gateways[m] = job[r].gatewayId}

\* A transaction in progress has written one of the keys, or has written
\* over a row that has the logical id: the unique index makes others wait.
KeyBusy(r) ==
    \E s \in Others(r) :
        /\ writes[s] # NULL
        /\ \/ job[s].mac = job[r].mac
           \/ job[r].gatewayId \in {writes[s], gateways[job[s].mac]}

\* Mutant: no unique index on logical_gateway_id.
NeverTaken(r) == FALSE

\* The unique index iot_gateways_logical_gateway_id_unique.
LogicalIdTaken(r) ==
    \E m \in Macs \ {job[r].mac} : gateways[m] = job[r].gatewayId

Ended(r, how) ==
    /\ pc' = [pc EXCEPT ![r] = how]
    /\ holds' = [holds EXCEPT ![r] = {}]
    /\ writes' = [writes EXCEPT ![r] = NULL]

\* Mutant: the client goes back to the pool inside its transaction.
Leak(r, how) ==
    /\ pc' = [pc EXCEPT ![r] = how]
    /\ UNCHANGED <<clock, tables, job, holds, writes, accepted, told>>

Rollback(r, how) ==
    /\ Ended(r, how)
    /\ UNCHANGED <<clock, tables, job, accepted, told>>

\* SELECT ... FOR UPDATE of resolveGateway, and the refusal of a logical id
\* that another MAC has.  No row, no lock.  A row that gets the logical id
\* while the statement waits may be missed; the next statement then fails.
selectIdentity(r) ==
    /\ pc[r] = "select"
    /\ Free(r, Matching(r))
    /\ IF Matching(r) \subseteq {job[r].mac}
       THEN /\ holds' = [holds EXCEPT ![r] = Matching(r)]
            /\ pc' = [pc EXCEPT ![r] =
                        IF Matching(r) = {} THEN "insert" ELSE "update"]
            /\ UNCHANGED <<clock, tables, job, writes, accepted, told>>
       ELSE Rollback(r, "rejected")

Wrote(r, next) ==
    /\ writes' = [writes EXCEPT ![r] = job[r].gatewayId]
    /\ holds' = [holds EXCEPT ![r] = {job[r].mac}]
    /\ pc' = [pc EXCEPT ![r] = next]
    /\ UNCHANGED <<clock, tables, job, accepted, told>>

\* UPDATE or INSERT of resolveGateway: an insert may find that somebody else
\* has registered the MAC since, and either that the logical id is taken.
resolveGateway(r) ==
    /\ pc[r] \in {"update", "insert"}
    /\ ~KeyBusy(r)
    /\ IF \/ LogicalIdTaken(r)
          \/ pc[r] = "insert" /\ gateways[job[r].mac] # NULL
       THEN Rollback(r, "failed")
       ELSE Wrote(r, "status")

\* INSERT ... ON CONFLICT (hardware_mac) DO UPDATE of a telemetry batch.
upsertGateway(r) ==
    /\ pc[r] = "upsert"
    /\ Free(r, {job[r].mac})
    /\ ~KeyBusy(r)
    /\ IF LogicalIdTaken(r) THEN Rollback(r, "failed") ELSE Wrote(r, "commit")

-----------------------------------------------------------------------------
(* The rest of persist.                                                    *)

\* Nobody else writes the status of a Gateway whose row this one has.
statusUpsert(r) ==
    /\ pc[r] = "status"
    /\ pc' = [pc EXCEPT ![r] = "metrics"]
    /\ UNCHANGED <<clock, tables, job, holds, writes, accepted, told>>

\* Mutant: the sample is inserted by a query outside the transaction.
metricsOutside(r) ==
    /\ pc[r] = "metrics"
    /\ pc' = [pc EXCEPT ![r] = "commit"]
    /\ metrics' = metrics \cup {BeatOf(r)}
    /\ UNCHANGED <<clock, gateways, statuses, job, holds, writes, accepted, told>>

metricsInsert(r) ==
    /\ pc[r] = "metrics"
    /\ pc' = [pc EXCEPT ![r] = "commit"]
    /\ UNCHANGED <<clock, tables, job, holds, writes, accepted, told>>

\* Mutant: ON CONFLICT (gateway_id) DO NOTHING.
StatusKept(r) ==
    [statuses EXCEPT ![job[r].mac] = IF @ = NULL THEN BeatOf(r) ELSE @]

\* ON CONFLICT (gateway_id) DO UPDATE: the times are not compared.
StatusAfter(r) == [statuses EXCEPT ![job[r].mac] = BeatOf(r)]

\* COMMIT: all rows of the transaction appear.
Commit(r) ==
    LET beats == IF IsHeartbeat(r) THEN {BeatOf(r)} ELSE {} IN
    /\ pc[r] = "commit"
    /\ gateways' = [gateways EXCEPT ![job[r].mac] = writes[r]]
    /\ statuses' = IF beats = {} THEN statuses ELSE StatusAfter(r)
    /\ metrics' = metrics \cup beats
    /\ accepted' = accepted \cup beats
    /\ Ended(r, "committed")
    /\ UNCHANGED <<clock, job, told>>

\* Mutant: the answer does not wait for the transaction.
emitAtOnce(r) ==
    /\ pc[r] \in {"select", "committed"}
    /\ told' = IF IsHeartbeat(r) THEN told \cup {BeatOf(r)} ELSE told
    /\ pc' = [pc EXCEPT ![r] = "told"]
    /\ UNCHANGED <<clock, tables, job, holds, writes, accepted>>

\* events.emit and the answer.
emit(r) ==
    /\ pc[r] = "committed"
    /\ told' = IF IsHeartbeat(r) THEN told \cup {BeatOf(r)} ELSE told
    /\ pc' = [pc EXCEPT ![r] = "told"]
    /\ UNCHANGED <<clock, tables, job, holds, writes, accepted>>

\* A statement or COMMIT fails, or the process dies.
Abort(r) ==
    /\ ~Over(r)
    /\ Rollback(r, IF pc[r] = "committed" THEN "lost" ELSE "failed")

\* DELETE ... WHERE sampled_at < now() - 30 days, every six hours.
cleanup ==
    /\ metrics' = {b \in metrics : b.at + Retention >= clock}
    /\ metrics' # metrics
    /\ UNCHANGED <<clock, gateways, statuses, job, pc, holds, writes, accepted,
                   told>>

Tick ==
    /\ clock < MaxTime
    /\ clock' = clock + 1
    /\ UNCHANGED <<tables, job, pc, holds, writes, accepted, told>>

-----------------------------------------------------------------------------
Arrive(r) ==
    \/ \E m \in Macs, g \in GatewayIds, i \in Intervals : accept(r, m, g, i)
    \/ validateRelationships(r)
    \/ \E m \in Macs, g \in GatewayIds : ingest(r, m, g)

Step(r) ==
    \/ selectIdentity(r)
    \/ resolveGateway(r)
    \/ upsertGateway(r)
    \/ statusUpsert(r)
    \/ metricsInsert(r)
    \/ Commit(r)
    \/ emit(r)

Next ==
    \/ \E r \in Requests : Arrive(r) \/ Step(r) \/ Abort(r)
    \/ cleanup
    \/ Tick

Spec == Init /\ [][Next]_vars

\* A statement that can run is run; nothing else is promised.
Fairness == \A r \in Requests : WF_vars(Step(r))

FairSpec == Spec /\ Fairness

-----------------------------------------------------------------------------
\* The variables hold what the tables and the service allow.
TypeOK ==
    /\ clock \in Nat
    /\ gateways \in [Macs -> GatewayIds \cup {NULL}]
    /\ statuses \in [Macs -> Heartbeat \cup {NULL}]
    /\ metrics \subseteq Heartbeat
    /\ job \in [Requests -> Job \cup {NULL}]
    /\ pc \in [Requests -> {"unsent", "select", "insert", "update", "upsert",
                            "status", "metrics", "commit", "committed", "told",
                            "lost", "rejected", "failed"}]
    /\ holds \in [Requests -> SUBSET Macs]
    /\ writes \in [Requests -> GatewayIds \cup {NULL}]
    /\ accepted \subseteq Heartbeat
    /\ told \subseteq Heartbeat

\* resolveGateway looks whether the logical id belongs to another MAC before
\* it writes, and upsertGateway does not look at all; still no two MACs ever
\* share one, whatever they write at once.
OneMacPerGatewayId ==
    \A m, k \in Macs : gateways[m] # NULL /\ gateways[m] = gateways[k] => m = k

\* "iot_gateway_metrics stores one compact sample per accepted heartbeat":
\* none for one that failed half way, and none missing before its time.
SamplesMatchAccepted ==
    /\ metrics \subseteq accepted
    /\ \A b \in accepted : b.at + Retention >= clock => b \in metrics

\* "returns HTTP 202 after persistence": what a Gateway and the dashboard
\* are told of is stored.
ToldIsAccepted == told \subseteq accepted

\* "iot_gateway_status stores the latest accepted snapshot for each Gateway":
\* the stored heartbeat is an accepted one, and none was received after it.
LatestStored ==
    \A m \in Macs :
        LET mine == {b \in accepted : b.mac = m} IN
        IF mine = {} THEN statuses[m] = NULL
        ELSE statuses[m] \in mine /\ \A b \in mine : b.at <= statuses[m].at

\* Every request ends: nobody waits for ever for a row or a key.
RequestsEnd ==
    \A r \in Requests :
        pc[r] # "unsent" ~> Over(r)
=============================================================================

----------------------- MODULE GatewayHeartbeat_proofs -----------------------
(***************************************************************************)
(* The registry and the tables of heartbeats, for any number of requests,  *)
(* MACs and logical ids: the unique index keeps logical ids apart although *)
(* the code looks before it writes, samples and answers are those of       *)
(* committed heartbeats, and the status is the latest one if a Gateway     *)
(* awaits its answers.                                                     *)
(***************************************************************************)
EXTENDS GatewayHeartbeat, TLAPS

Writing == {"status", "metrics", "commit"}

\* A request in progress carries something, and has written its logical id
\* exactly between its first statement that writes and its end.
RequestInv ==
    \A r \in Requests :
        /\ ~Over(r) => job[r] \in Job
        /\ writes[r] # NULL => pc[r] \in Writing
        /\ pc[r] \in Writing => writes[r] = job[r].gatewayId

\* Transactions in progress have written different keys, and none of them a
\* logical id that a committed row of another MAC has.
KeysInv ==
    /\ \A r, s \in Requests :
          r # s /\ pc[r] \in Writing /\ pc[s] \in Writing =>
              job[r].mac # job[s].mac /\ writes[r] # writes[s]
    /\ \A r \in Requests, m \in Macs :
          pc[r] \in Writing /\ m # job[r].mac => gateways[m] # writes[r]

\* A committed request that is not answered yet is accepted.
CommittedInv ==
    \A r \in Requests : pc[r] = "committed" /\ IsHeartbeat(r) => BeatOf(r) \in accepted

RegistryInv == TypeOK /\ RequestInv /\ KeysInv /\ OneMacPerGatewayId

IndInv == RegistryInv /\ SamplesMatchAccepted /\ CommittedInv /\ ToldIsAccepted

-----------------------------------------------------------------------------
(* The inductive invariant.                                                *)

\* Nothing is stored or in progress at first.
LEMMA InitInd == Init => IndInv
BY ConstantsAssumption
   DEF Init, IndInv, RegistryInv, TypeOK, RequestInv, KeysInv, OneMacPerGatewayId,
       SamplesMatchAccepted, CommittedInv, ToldIsAccepted, Over, Writing

\* A request arrives: its keys do not matter before it writes.
LEMMA ArriveStep ==
    ASSUME IndInv, NEW r \in Requests, Arrive(r)
    PROVE  IndInv'
<1>1. /\ pc[r] = "unsent" /\ UNCHANGED <<clock, tables, holds, writes, accepted, told>>
      /\ \/ /\ \E j \in Job : job' = [job EXCEPT ![r] = j]
            /\ pc' = [pc EXCEPT ![r] = "select"] \/ pc' = [pc EXCEPT ![r] = "upsert"]
         \/ job' = job /\ pc' = [pc EXCEPT ![r] = "rejected"]
  BY DEF Arrive, accept, validateRelationships, ingest, Sent, Job, IndInv, RegistryInv,
         TypeOK
<1>2. /\ pc'[r] \in {"select", "upsert", "rejected"}
      /\ pc'[r] # "rejected" => job'[r] \in Job
      /\ \A s \in Requests \ {r} : pc'[s] = pc[s] /\ job'[s] = job[s]
      /\ pc' \in [Requests -> {"unsent", "select", "insert", "update", "upsert",
                            "status", "metrics", "commit", "committed", "told",
                            "lost", "rejected", "failed"}]
      /\ job' \in [Requests -> Job \cup {NULL}]
  BY <1>1 DEF IndInv, RegistryInv, TypeOK
<1>3. TypeOK'
  BY <1>1, <1>2 DEF IndInv, RegistryInv, TypeOK, tables
<1>4. RequestInv'
  BY <1>1, <1>2 DEF IndInv, RegistryInv, RequestInv, Over, Writing
<1>5. KeysInv'
  BY <1>1, <1>2 DEF IndInv, RegistryInv, KeysInv, Writing, tables
<1>6. OneMacPerGatewayId' /\ SamplesMatchAccepted' /\ ToldIsAccepted'
  BY <1>1 DEF IndInv, RegistryInv, OneMacPerGatewayId, SamplesMatchAccepted,
              ToldIsAccepted, tables
<1>7. CommittedInv'
  BY <1>1, <1>2 DEF IndInv, CommittedInv, IsHeartbeat, BeatOf
<1> QED BY <1>3, <1>4, <1>5, <1>6, <1>7 DEF IndInv, RegistryInv

\* A request that ends without a COMMIT leaves no trace.
LEMMA RollbackStep ==
    ASSUME IndInv, NEW r \in Requests, NEW how \in {"rejected", "failed", "lost"},
           Rollback(r, how)
    PROVE  IndInv'
<1>1. /\ UNCHANGED <<clock, tables, job, accepted, told>>
      /\ pc'[r] = how /\ writes'[r] = NULL
      /\ \A s \in Requests \ {r} : pc'[s] = pc[s] /\ writes'[s] = writes[s]
  BY DEF Rollback, Ended, IndInv, RegistryInv, TypeOK
<1>2. TypeOK'
  BY DEF Rollback, Ended, IndInv, RegistryInv, TypeOK, tables
<1>3. RequestInv'
  BY <1>1 DEF IndInv, RegistryInv, RequestInv, Over, Writing
<1>4. KeysInv'
  BY <1>1 DEF IndInv, RegistryInv, KeysInv, Writing, tables
<1>5. OneMacPerGatewayId' /\ SamplesMatchAccepted' /\ ToldIsAccepted'
  BY <1>1 DEF IndInv, RegistryInv, OneMacPerGatewayId, SamplesMatchAccepted,
              ToldIsAccepted, tables
<1>6. CommittedInv'
  BY <1>1 DEF IndInv, CommittedInv, IsHeartbeat, BeatOf
<1> QED BY <1>2, <1>3, <1>4, <1>5, <1>6 DEF IndInv, RegistryInv

\* The unique keys: nobody has written either of them, and no other row has
\* the logical id.
LEMMA WroteStep ==
    ASSUME IndInv, NEW r \in Requests, NEW next \in Writing, ~Over(r), pc[r] \notin Writing,
           ~KeyBusy(r), ~LogicalIdTaken(r), Wrote(r, next)
    PROVE  IndInv'
<1>1. /\ UNCHANGED <<clock, tables, job, accepted, told>>
      /\ pc'[r] = next /\ writes'[r] = job[r].gatewayId
      /\ \A s \in Requests \ {r} : pc'[s] = pc[s] /\ writes'[s] = writes[s]
  BY DEF Wrote, IndInv, RegistryInv, TypeOK
<1>2. job[r] \in Job /\ job[r].gatewayId \in GatewayIds /\ job[r].mac \in Macs
  BY DEF IndInv, RegistryInv, RequestInv, Job
<1>3. TypeOK'
  BY <1>2 DEF Wrote, IndInv, RegistryInv, TypeOK, tables, Writing
<1>4. RequestInv'
  BY <1>1, <1>2 DEF IndInv, RegistryInv, RequestInv, Over, Writing
<1>5. ASSUME NEW s \in Requests \ {r}, pc[s] \in Writing
      PROVE  job[s].mac # job[r].mac /\ writes[s] # job[r].gatewayId
  <2>1. writes[s] # NULL
    <3>1. job[s] \in Job /\ writes[s] = job[s].gatewayId
      BY <1>5 DEF IndInv, RegistryInv, RequestInv, Over, Writing
    <3> QED BY <3>1, ConstantsAssumption DEF Job
  <2> QED BY <1>5, <2>1 DEF KeyBusy, Others
<1>6. \A m \in Macs : m # job[r].mac => gateways[m] # job[r].gatewayId
  BY DEF LogicalIdTaken
<1>7. KeysInv'
  BY <1>1, <1>5, <1>6 DEF IndInv, RegistryInv, KeysInv, tables
<1>8. OneMacPerGatewayId' /\ SamplesMatchAccepted' /\ ToldIsAccepted'
  BY <1>1 DEF IndInv, RegistryInv, OneMacPerGatewayId, SamplesMatchAccepted,
              ToldIsAccepted, tables
<1>9. CommittedInv'
  BY <1>1 DEF IndInv, CommittedInv, IsHeartbeat, BeatOf, Writing
<1> QED BY <1>3, <1>4, <1>7, <1>8, <1>9 DEF IndInv, RegistryInv

\* A statement that neither writes a key nor ends the request.
LEMMA GoOnStep ==
    ASSUME IndInv, NEW r \in Requests, NEW next, ~Over(r),
           \/ pc[r] = "select" /\ next \in {"insert", "update"}
           \/ pc[r] = "status" /\ next = "metrics"
           \/ pc[r] = "metrics" /\ next = "commit",
           pc' = [pc EXCEPT ![r] = next], holds' \in [Requests -> SUBSET Macs],
           UNCHANGED <<clock, tables, job, writes, accepted, told>>
    PROVE  IndInv'
<1>1. /\ pc'[r] = next
      /\ next \in Writing <=> pc[r] \in Writing
      /\ pc[r] # "committed" /\ next # "committed"
      /\ \A s \in Requests \ {r} : pc'[s] = pc[s]
  BY DEF IndInv, RegistryInv, TypeOK, Writing
<1>2. TypeOK'
  BY DEF IndInv, RegistryInv, TypeOK, tables
<1>3. RequestInv'
  BY <1>1 DEF IndInv, RegistryInv, RequestInv, Over, Writing
<1>4. KeysInv'
  BY <1>1 DEF IndInv, RegistryInv, KeysInv, tables
<1>5. OneMacPerGatewayId' /\ SamplesMatchAccepted' /\ ToldIsAccepted'
  BY DEF IndInv, RegistryInv, OneMacPerGatewayId, SamplesMatchAccepted, ToldIsAccepted,
         tables
<1>6. CommittedInv'
  BY <1>1 DEF IndInv, CommittedInv, IsHeartbeat, BeatOf
<1> QED BY <1>2, <1>3, <1>4, <1>5, <1>6 DEF IndInv, RegistryInv

\* What COMMIT does, in the words of the invariant.
LEMMA CommitFacts ==
    ASSUME IndInv, NEW r \in Requests, Commit(r)
    PROVE  /\ job[r] \in Job /\ UNCHANGED <<clock, job, told>>
           /\ pc[r] = "commit" /\ pc'[r] = "committed" /\ writes'[r] = NULL
           /\ \A s \in Requests \ {r} : pc'[s] = pc[s] /\ writes'[s] = writes[s]
           /\ gateways'[job[r].mac] = writes[r]
           /\ \A m \in Macs \ {job[r].mac} : gateways'[m] = gateways[m]
           /\ IF IsHeartbeat(r)
              THEN /\ BeatOf(r) \in Heartbeat
                   /\ statuses' = [statuses EXCEPT ![job[r].mac] = BeatOf(r)]
                   /\ metrics' = metrics \cup {BeatOf(r)}
                   /\ accepted' = accepted \cup {BeatOf(r)}
              ELSE UNCHANGED <<statuses, metrics, accepted>>
<1>1. job[r] \in Job /\ pc[r] = "commit"
  BY DEF Commit, IndInv, RegistryInv, RequestInv, Over
<1>2. /\ pc'[r] = "committed" /\ writes'[r] = NULL
      /\ \A s \in Requests \ {r} : pc'[s] = pc[s] /\ writes'[s] = writes[s]
      /\ UNCHANGED <<clock, job, told>>
  BY DEF Commit, Ended, IndInv, RegistryInv, TypeOK
<1>3. /\ gateways'[job[r].mac] = writes[r]
      /\ \A m \in Macs \ {job[r].mac} : gateways'[m] = gateways[m]
  BY <1>1 DEF Commit, IndInv, RegistryInv, TypeOK, Job
<1>4. CASE IsHeartbeat(r)
  <2>1. BeatOf(r) \in Heartbeat
    BY <1>1, <1>4 DEF IsHeartbeat, BeatOf, Heartbeat, Job
  <2> QED BY <1>1, <1>2, <1>3, <1>4, <2>1 DEF Commit, StatusAfter
<1>5. CASE ~IsHeartbeat(r)
  BY <1>1, <1>2, <1>3, <1>5 DEF Commit
<1> QED BY <1>4, <1>5

\* COMMIT: the row, the status and the sample appear together, and no other
\* row or transaction has the logical id.
LEMMA CommitStep ==
    ASSUME IndInv, NEW r \in Requests, Commit(r)
    PROVE  IndInv'
<1> USE CommitFacts
<1>1. writes[r] = job[r].gatewayId /\ writes[r] \in GatewayIds /\ job[r].mac \in Macs
  BY DEF IndInv, RegistryInv, RequestInv, Writing, Job
<1>2. TypeOK'
  <2>1. gateways' \in [Macs -> GatewayIds \cup {NULL}]
    BY <1>1 DEF Commit, IndInv, RegistryInv, TypeOK
  <2>2. /\ statuses' \in [Macs -> Heartbeat \cup {NULL}]
        /\ metrics' \subseteq Heartbeat /\ accepted' \subseteq Heartbeat
    BY DEF IndInv, RegistryInv, TypeOK
  <2>3. /\ pc' = [pc EXCEPT ![r] = "committed"] /\ holds' = [holds EXCEPT ![r] = {}]
        /\ writes' = [writes EXCEPT ![r] = NULL]
    BY DEF Commit, Ended
  <2> QED BY <2>1, <2>2, <2>3 DEF IndInv, RegistryInv, TypeOK
<1>3. RequestInv'
  BY DEF IndInv, RegistryInv, RequestInv, Over, Writing
<1>4. KeysInv'
  <2>1. ASSUME NEW s \in Requests, NEW m \in Macs, pc'[s] \in Writing, m # job[s].mac
        PROVE  gateways'[m] # writes'[s]
    <3>1. s # r /\ pc[s] \in Writing /\ writes'[s] = writes[s]
      BY <2>1 DEF Writing
    <3>2. writes[s] # writes[r]
      BY <3>1 DEF IndInv, RegistryInv, KeysInv, Writing
    <3>3. gateways[m] # writes[s]
      BY <2>1, <3>1 DEF IndInv, RegistryInv, KeysInv
    <3> QED BY <3>1, <3>2, <3>3
  <2>2. ASSUME NEW s \in Requests, NEW t \in Requests, s # t, pc'[s] \in Writing,
               pc'[t] \in Writing
        PROVE  job[s].mac # job[t].mac /\ writes'[s] # writes'[t]
    BY <2>2 DEF IndInv, RegistryInv, KeysInv, Writing
  <2> QED BY <2>1, <2>2 DEF KeysInv
<1>5. OneMacPerGatewayId'
  <2>1. \A m \in Macs \ {job[r].mac} : gateways[m] # writes[r]
    BY DEF IndInv, RegistryInv, KeysInv, Writing
  <2> QED BY <1>1, <2>1 DEF IndInv, RegistryInv, OneMacPerGatewayId
<1>6. SamplesMatchAccepted'
  BY DEF IndInv, SamplesMatchAccepted
<1>7. CommittedInv'
  BY DEF IndInv, CommittedInv, IsHeartbeat, BeatOf
<1>8. ToldIsAccepted'
  BY DEF IndInv, ToldIsAccepted
<1> QED BY <1>2, <1>3, <1>4, <1>5, <1>6, <1>7, <1>8 DEF IndInv, RegistryInv

\* The answer tells of a heartbeat that is accepted.
LEMMA EmitStep ==
    ASSUME IndInv, NEW r \in Requests, emit(r)
    PROVE  IndInv'
<1>1. /\ pc[r] = "committed" /\ pc'[r] = "told"
      /\ \A s \in Requests \ {r} : pc'[s] = pc[s]
      /\ UNCHANGED <<clock, tables, job, holds, writes, accepted>>
  BY DEF emit, IndInv, RegistryInv, TypeOK
<1>2. told' \subseteq accepted
  <2>1. CASE IsHeartbeat(r)
    <3>1. told' = told \cup {BeatOf(r)}
      BY <2>1 DEF emit
    <3> QED BY <1>1, <2>1, <3>1 DEF IndInv, CommittedInv, ToldIsAccepted
  <2>2. CASE ~IsHeartbeat(r)
    BY <2>2 DEF emit, IndInv, ToldIsAccepted
  <2> QED BY <2>1, <2>2
<1>3. TypeOK'
  BY <1>1, <1>2 DEF emit, IndInv, RegistryInv, TypeOK, tables
<1>4. RequestInv' /\ KeysInv'
  BY <1>1 DEF IndInv, RegistryInv, RequestInv, KeysInv, Over, Writing, tables
<1>5. OneMacPerGatewayId' /\ SamplesMatchAccepted' /\ ToldIsAccepted'
  BY <1>1, <1>2 DEF IndInv, RegistryInv, OneMacPerGatewayId, SamplesMatchAccepted,
                    ToldIsAccepted, tables
<1>6. CommittedInv'
  BY <1>1 DEF IndInv, CommittedInv, IsHeartbeat, BeatOf
<1> QED BY <1>3, <1>4, <1>5, <1>6 DEF IndInv, RegistryInv

\* Time passes, or old samples are deleted.
LEMMA TimeStep ==
    ASSUME IndInv, Tick \/ cleanup
    PROVE  IndInv'
<1>1. /\ UNCHANGED <<gateways, statuses, job, pc, holds, writes, accepted, told>>
      /\ clock \in Nat /\ clock' \in Nat
      /\ \/ clock' = clock + 1 /\ metrics' = metrics
         \/ clock' = clock /\ metrics' = {b \in metrics : b.at + Retention >= clock}
  BY DEF Tick, cleanup, tables, IndInv, RegistryInv, TypeOK
<1>2. TypeOK'
  BY <1>1 DEF IndInv, RegistryInv, TypeOK
<1>3. RequestInv' /\ KeysInv' /\ OneMacPerGatewayId' /\ CommittedInv' /\ ToldIsAccepted'
  BY <1>1 DEF IndInv, RegistryInv, RequestInv, KeysInv, OneMacPerGatewayId, CommittedInv,
              ToldIsAccepted, Over, IsHeartbeat, BeatOf
<1>4. SamplesMatchAccepted'
  <2>1. metrics' \subseteq accepted'
    BY <1>1 DEF IndInv, SamplesMatchAccepted
  <2>2. ASSUME NEW b \in accepted, b.at + Retention >= clock'
        PROVE  b \in metrics'
    <3>1. b.at + Retention \in Nat
      BY ConstantsAssumption DEF IndInv, RegistryInv, TypeOK, Heartbeat
    <3>2. b.at + Retention >= clock
      BY <1>1, <2>2, <3>1
    <3> QED BY <1>1, <3>2 DEF IndInv, SamplesMatchAccepted
  <2> QED BY <1>1, <2>1, <2>2 DEF SamplesMatchAccepted
<1> QED BY <1>2, <1>3, <1>4 DEF IndInv, RegistryInv

\* Every step keeps the invariant.
LEMMA NextInd == IndInv /\ [Next]_vars => IndInv'
<1> SUFFICES ASSUME IndInv, [Next]_vars PROVE IndInv'
  OBVIOUS
<1>1. ASSUME NEW r \in Requests, selectIdentity(r) PROVE IndInv'
  <2>1. CASE Matching(r) \subseteq {job[r].mac}
    <3>1. holds' \in [Requests -> SUBSET Macs]
      BY <1>1, <2>1 DEF selectIdentity, Matching, IndInv, RegistryInv, TypeOK
    <3> QED BY <1>1, <2>1, <3>1, GoOnStep DEF selectIdentity, Over
  <2>2. CASE ~(Matching(r) \subseteq {job[r].mac})
    BY <1>1, <2>2, RollbackStep DEF selectIdentity
  <2> QED BY <2>1, <2>2
<1>2. ASSUME NEW r \in Requests, resolveGateway(r) PROVE IndInv'
  BY <1>2, WroteStep, RollbackStep DEF resolveGateway, Over, Writing
<1>3. ASSUME NEW r \in Requests, upsertGateway(r) PROVE IndInv'
  BY <1>3, WroteStep, RollbackStep DEF upsertGateway, Over, Writing
<1>4. ASSUME NEW r \in Requests, statusUpsert(r) \/ metricsInsert(r) PROVE IndInv'
  <2>1. holds' \in [Requests -> SUBSET Macs]
    BY <1>4 DEF statusUpsert, metricsInsert, IndInv, RegistryInv, TypeOK
  <2> QED BY <1>4, <2>1, GoOnStep DEF statusUpsert, metricsInsert, Over
<1>5. ASSUME NEW r \in Requests, Abort(r) PROVE IndInv'
  BY <1>5, RollbackStep DEF Abort
<1>6. CASE UNCHANGED vars
  BY <1>6 DEF vars, tables, IndInv, RegistryInv, TypeOK, RequestInv, KeysInv,
              OneMacPerGatewayId, CommittedInv, ToldIsAccepted, SamplesMatchAccepted, Over,
              IsHeartbeat, BeatOf
<1> QED BY <1>1, <1>2, <1>3, <1>4, <1>5, <1>6, ArriveStep, CommitStep, EmitStep, TimeStep
        DEF Next, Step

\* The inductive invariant holds in every state.
LEMMA Inductive == Spec => []IndInv
BY InitInd, NextInd, PTL DEF Spec

\* The tables and the requests keep their types.
THEOREM TypeCorrect == Spec => []TypeOK
<1>1. IndInv => TypeOK
  BY DEF IndInv, RegistryInv
<1> QED BY <1>1, Inductive, PTL

\* No two MACs ever share a logical id, however many requests of Gateways and
\* batches look, write and commit at once.
THEOREM GatewayIdsStayUnique == Spec => []OneMacPerGatewayId
<1>1. IndInv => OneMacPerGatewayId
  BY DEF IndInv, RegistryInv
<1> QED BY <1>1, Inductive, PTL

\* There is one sample per accepted heartbeat until it is too old, and none of
\* a heartbeat that failed on its way.
THEOREM SamplesAlwaysMatch == Spec => []SamplesMatchAccepted
<1>1. IndInv => SamplesMatchAccepted
  BY DEF IndInv
<1> QED BY <1>1, Inductive, PTL

\* What Gateways and the dashboard were told of is stored.
THEOREM ToldIsAlwaysAccepted == Spec => []ToldIsAccepted
<1>1. IndInv => ToldIsAccepted
  BY DEF IndInv
<1> QED BY <1>1, Inductive, PTL

-----------------------------------------------------------------------------
(* The latest heartbeat.                                                   *)

\* The heartbeats of a Gateway take turns, and each one in progress was
\* received after all that are accepted.
TurnsInv ==
    /\ \A b \in accepted : b.at <= clock
    /\ \A r \in Requests : ~Over(r) /\ IsHeartbeat(r) => job[r].at <= clock
    /\ \A r, s \in Requests :
          /\ ~Over(r) /\ IsHeartbeat(r) /\ ~Over(s) /\ IsHeartbeat(s)
          /\ job[r].mac = job[s].mac
          => r = s
    /\ \A r \in Requests, b \in accepted :
          ~Over(r) /\ IsHeartbeat(r) /\ b.mac = job[r].mac => b.at <= job[r].at

\* A step that brings no heartbeat and accepts none.
LEMMA TurnsKept ==
    ASSUME TurnsInv, LatestStored, IndInv, clock' \in Nat, clock <= clock',
           UNCHANGED <<accepted, statuses>>,
           \A r \in Requests :
               ~Over(r)' /\ IsHeartbeat(r)' =>
                   ~Over(r) /\ IsHeartbeat(r) /\ job'[r] = job[r]
    PROVE  TurnsInv' /\ LatestStored'
<1>1. \A b \in accepted : b.at \in Nat
  BY DEF IndInv, RegistryInv, TypeOK, Heartbeat
<1>2. clock \in Nat
  BY DEF IndInv, RegistryInv, TypeOK
<1>3. \A b \in accepted' : b.at <= clock'
  BY <1>1, <1>2 DEF TurnsInv
<1>4. \A r \in Requests : ~Over(r)' /\ IsHeartbeat(r)' => job'[r].at <= clock'
  <2>1. \A r \in Requests : ~Over(r) => job[r].at \in Nat
    BY DEF IndInv, RegistryInv, RequestInv, Job
  <2> QED BY <1>2, <2>1 DEF TurnsInv
<1>5. TurnsInv'
  BY <1>3, <1>4 DEF TurnsInv
<1> QED BY <1>5 DEF LatestStored

\* A Gateway that awaits its answers has no other heartbeat in progress, and
\* receivedAt is not before anything accepted.
LEMMA TurnsArrive ==
    ASSUME GatewaysWait, TurnsInv, LatestStored, IndInv, NEW r \in Requests, Arrive(r)
    PROVE  TurnsInv' /\ LatestStored'
<1>1. ASSUME NEW m \in Macs, NEW g \in GatewayIds, NEW i \in Intervals, accept(r, m, g, i)
      PROVE  TurnsInv' /\ LatestStored'
  <2>1. /\ pc[r] = "unsent" /\ pc'[r] = "select"
        /\ job'[r] = [mac |-> m, gatewayId |-> g, at |-> clock, interval |-> i]
        /\ \A s \in Requests \ {r} : pc'[s] = pc[s] /\ job'[s] = job[s]
        /\ UNCHANGED <<clock, statuses, accepted>>
    BY <1>1 DEF accept, Sent, tables, IndInv, RegistryInv, TypeOK
  <2>2. ~InProgress(m)
    BY <1>1 DEF accept
  <2>3. \A s \in Requests \ {r} :
            ~Over(s)' /\ IsHeartbeat(s)' => ~Over(s) /\ IsHeartbeat(s) /\ job'[s].mac # m
    BY <2>1, <2>2 DEF InProgress, Over, IsHeartbeat
  <2>4. job'[r].mac = m /\ job'[r].at = clock
    BY <2>1
  <2>5. \A b \in accepted' : b.at <= clock'
    BY <2>1 DEF TurnsInv
  <2>6. \A s, t \in Requests :
          /\ ~Over(s)' /\ IsHeartbeat(s)' /\ ~Over(t)' /\ IsHeartbeat(t)'
          /\ job'[s].mac = job'[t].mac
          => s = t
    BY <2>1, <2>3, <2>4 DEF TurnsInv
  <2>7. \A s \in Requests, b \in accepted' :
          ~Over(s)' /\ IsHeartbeat(s)' /\ b.mac = job'[s].mac => b.at <= job'[s].at
    BY <2>1, <2>3, <2>4, <2>5 DEF TurnsInv
  <2>8. \A s \in Requests : ~Over(s)' /\ IsHeartbeat(s)' => job'[s].at <= clock'
    <3>1. clock \in Nat
      BY DEF IndInv, RegistryInv, TypeOK
    <3> QED BY <2>1, <2>3, <2>4, <3>1 DEF TurnsInv
  <2>9. TurnsInv'
    BY <2>5, <2>6, <2>7, <2>8 DEF TurnsInv
  <2> QED BY <2>1, <2>9 DEF LatestStored
<1>2. ASSUME validateRelationships(r) \/ \E m \in Macs, g \in GatewayIds : ingest(r, m, g)
      PROVE  TurnsInv' /\ LatestStored'
  <2>1. /\ pc'[r] = "rejected" \/ (pc'[r] = "upsert" /\ job'[r].interval = NULL)
        /\ \A s \in Requests \ {r} : pc'[s] = pc[s] /\ job'[s] = job[s]
        /\ UNCHANGED <<clock, statuses, accepted>>
    BY <1>2 DEF validateRelationships, ingest, Sent, tables, IndInv, RegistryInv, TypeOK
  <2>2. \A s \in Requests :
            ~Over(s)' /\ IsHeartbeat(s)' => ~Over(s) /\ IsHeartbeat(s) /\ job'[s] = job[s]
    BY <2>1 DEF Over, IsHeartbeat
  <2>3. clock' \in Nat /\ clock <= clock'
    BY <2>1 DEF IndInv, RegistryInv, TypeOK
  <2> QED BY <2>1, <2>2, <2>3, TurnsKept
<1> QED BY <1>1, <1>2 DEF Arrive

\* The heartbeat that commits is the last one received of its Gateway.
LEMMA TurnsCommit ==
    ASSUME TurnsInv, LatestStored, IndInv, NEW r \in Requests, Commit(r)
    PROVE  TurnsInv' /\ LatestStored'
<1> USE CommitFacts
<1>1. \A s \in Requests : Over(s)' <=> Over(s)
  BY DEF Over
<1>2. CASE ~IsHeartbeat(r)
  <2>1. clock' \in Nat /\ clock <= clock'
    BY DEF IndInv, RegistryInv, TypeOK
  <2> QED BY <1>1, <1>2, <2>1, TurnsKept DEF IsHeartbeat
<1>3. CASE IsHeartbeat(r)
  <2> DEFINE m == job[r].mac
  <2>1. /\ accepted' = accepted \cup {BeatOf(r)}
        /\ statuses' = [statuses EXCEPT ![m] = BeatOf(r)]
        /\ BeatOf(r).mac = m /\ BeatOf(r).at = job[r].at /\ job[r].at \in Nat /\ m \in Macs
    BY <1>3 DEF BeatOf, Job
  <2>2. ~Over(r)
    BY DEF Over
  <2>3. job[r].at <= clock
    BY <1>3, <2>2 DEF TurnsInv
  <2>4. \A b \in accepted : b.mac = m => b.at <= job[r].at
    BY <1>3, <2>2 DEF TurnsInv
  <2>5. \A s \in Requests :
            ~Over(s)' /\ IsHeartbeat(s)' => ~Over(s) /\ IsHeartbeat(s) /\ job'[s] = job[s]
    BY <1>1 DEF IsHeartbeat
  <2>6. ASSUME NEW s \in Requests, NEW b \in accepted', ~Over(s), IsHeartbeat(s),
               b.mac = job[s].mac
        PROVE  b.at <= job[s].at
    <3>1. CASE b \in accepted
      BY <2>6, <3>1 DEF TurnsInv
    <3>2. CASE b = BeatOf(r)
      <4>1. s = r
        BY <1>3, <2>1, <2>2, <2>6, <3>2 DEF TurnsInv
      <4> QED BY <2>1, <3>2, <4>1
    <3> QED BY <2>1, <3>1, <3>2
  <2>7. \A b \in accepted' : b.at <= clock'
    BY <2>1, <2>3 DEF TurnsInv
  <2>8. TurnsInv'
    BY <2>5, <2>6, <2>7 DEF TurnsInv
  <2>9. ASSUME NEW k \in Macs
        PROVE  LET mine == {b \in accepted' : b.mac = k} IN
               IF mine = {} THEN statuses'[k] = NULL
               ELSE statuses'[k] \in mine /\ \A b \in mine : b.at <= statuses'[k].at
    <3>1. CASE k = m
      <4>1. statuses'[k] = BeatOf(r)
        BY <2>1, <3>1 DEF IndInv, RegistryInv, TypeOK
      <4>2. \A b \in accepted' : b.mac = k => b.at <= BeatOf(r).at
        BY <2>1, <2>4, <3>1
      <4> QED BY <2>1, <3>1, <4>1, <4>2
    <3>2. CASE k # m
      <4>1. statuses'[k] = statuses[k]
        BY <2>1, <3>2 DEF IndInv, RegistryInv, TypeOK
      <4>2. {b \in accepted' : b.mac = k} = {b \in accepted : b.mac = k}
        BY <2>1, <3>2
      <4> QED BY <4>1, <4>2 DEF LatestStored
    <3> QED BY <3>1, <3>2
  <2> QED BY <2>8, <2>9 DEF LatestStored
<1> QED BY <1>2, <1>3

\* Every other statement, every end and the passing of time bring no heartbeat
\* and accept none.
LEMMA TurnsOther ==
    ASSUME TurnsInv, LatestStored, IndInv,
           \/ \E r \in Requests :
                 \/ selectIdentity(r) \/ resolveGateway(r) \/ upsertGateway(r)
                 \/ statusUpsert(r) \/ metricsInsert(r) \/ emit(r) \/ Abort(r)
           \/ cleanup \/ Tick \/ UNCHANGED vars
    PROVE  TurnsInv' /\ LatestStored'
<1>1. UNCHANGED <<job, accepted, statuses>>
  BY DEF selectIdentity, resolveGateway, upsertGateway, statusUpsert, metricsInsert, emit,
         Abort, Rollback, Wrote, cleanup, Tick, vars, tables
<1>2. clock' \in Nat /\ clock <= clock'
  <2>1. clock' = clock \/ clock' = clock + 1
    BY DEF selectIdentity, resolveGateway, upsertGateway, statusUpsert, metricsInsert, emit,
           Abort, Rollback, Wrote, cleanup, Tick, vars
  <2>2. clock \in Nat
    BY DEF IndInv, RegistryInv, TypeOK
  <2> QED BY <2>1, <2>2
<1>3. \A s \in Requests : Over(s) => Over(s)'
  <2>1. ASSUME NEW r \in Requests,
               \/ selectIdentity(r) \/ resolveGateway(r) \/ upsertGateway(r)
               \/ statusUpsert(r) \/ metricsInsert(r) \/ emit(r) \/ Abort(r)
        PROVE  ~Over(r) /\ \A s \in Requests \ {r} : pc'[s] = pc[s]
    BY <2>1 DEF selectIdentity, resolveGateway, upsertGateway, statusUpsert, metricsInsert,
                emit, Abort, Rollback, Ended, Wrote, Over, IndInv, RegistryInv, TypeOK
  <2>2. ASSUME cleanup \/ Tick \/ UNCHANGED vars PROVE pc' = pc
    BY <2>2 DEF cleanup, Tick, vars
  <2> QED BY <2>1, <2>2 DEF Over
<1> QED BY <1>1, <1>2, <1>3, TurnsKept DEF IsHeartbeat

\* Where Gateways await their answers, the stored status is the latest accepted
\* heartbeat of its Gateway, also when heartbeats fail or race with batches.
THEOREM LatestWhenGatewaysWait ==
    ASSUME GatewaysWait
    PROVE  Spec => []LatestStored
<1>1. Init => TurnsInv /\ LatestStored
  BY DEF Init, TurnsInv, LatestStored, Over
<1>2. IndInv /\ TurnsInv /\ LatestStored /\ [Next]_vars => TurnsInv' /\ LatestStored'
  BY TurnsArrive, TurnsCommit, TurnsOther DEF Next, Step
<1> QED BY <1>1, <1>2, Inductive, PTL DEF Spec
=============================================================================

----------------------------- MODULE TelemetryLog -----------------------------
(***************************************************************************)
(* What telemetry ingestion promises a Gateway: a delivery is stored all   *)
(* at once, and its answer says of every reading whether that very moment  *)
(* stored it, found it stored, or refused it.  TelemetryIngestion is shown *)
(* to implement this.                                                      *)
(***************************************************************************)
EXTENDS Sequences, Naturals

CONSTANTS
    Attempts,  \* POST requests, a repetition being another attempt
    Batches,   \* sequences of readings a Gateway may send
    NULL

VARIABLES
    log,     \* the rows of iot_telemetry
    answers  \* per attempt: the status of every reading, or NULL

\* The columns of iot_telemetry_identity_unique.
Identity(reading) == <<reading.node, reading.key>>

Identities(rows) == {Identity(row) : row \in rows}

\* Whether reading i of the batch is the first of its identity there is.
IsNew(batch, rows, i) ==
    /\ batch[i].decodes
    /\ Identity(batch[i]) \notin Identities(rows)
    /\ \A j \in 1..(i - 1) :
          batch[j].decodes => Identity(batch[j]) # Identity(batch[i])

Statuses(batch, rows) ==
    [i \in DOMAIN batch |->
        IF ~batch[i].decodes THEN "REJECTED_INVALID"
        ELSE IF IsNew(batch, rows, i) THEN "INSERTED" ELSE "DUPLICATE"]

Init ==
    /\ log = {}
    /\ answers = [a \in Attempts |-> NULL]

Store(a, batch) ==
    /\ answers[a] = NULL
    /\ log' = log \cup {batch[i] : i \in {j \in DOMAIN batch :
                                             IsNew(batch, log, j)}}
    /\ answers' = [answers EXCEPT ![a] = Statuses(batch, log)]

Next == \E a \in Attempts, batch \in Batches : Store(a, batch)

Spec == Init /\ [][Next]_<<log, answers>>
=============================================================================

--------------------------- MODULE MCFloodSnapshot ---------------------------
(***************************************************************************)
(* FloodSnapshot with two Nodes and one request at a time: readers need no *)
(* second writer, since the rows of a transaction appear at once.          *)
(***************************************************************************)
EXTENDS MCSensorState, FloodSnapshot

CONSTANT n2  \* model value

\* A MEDIUM and a LOW reading, observed at different times.
SnapshotReadings == {ReadingOf(1, 1, 0, 8, {}), ReadingOf(1, 2, 1, 9, {})}

\* n1 has a deployment, at the last version; n2 is heard before it gets one
\* and changes it later.
DeployedFirst ==
    [n \in Nodes |->
        IF n = n1 THEN [config |-> BaseConfig, version |-> MaxVersion] ELSE NULL]
=============================================================================

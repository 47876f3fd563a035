------------------------- MODULE MCTelemetryIngestion -------------------------
(***************************************************************************)
(* Two Gateways that hear the same two Nodes, and three attempts: enough   *)
(* for a repetition of a batch while another Gateway's batch names the     *)
(* Nodes in the opposite order.                                            *)
(***************************************************************************)
EXTENDS TelemetryIngestion, TLC

CONSTANTS n1, n2, g1, g2, a1, a2, a3  \* model values

ReadingOf(node, payload, decodes) ==
    [node |-> node, key |-> 1, payload |-> payload, decodes |-> decodes]

\* One reading heard twice with different contents, in both orders of the
\* Nodes, a repeated reading, a damaged one and a batch that is too long.
MCBatches ==
    LET x == ReadingOf(n1, "x", TRUE)
        y == ReadingOf(n2, "y", TRUE)
        z == ReadingOf(n1, "z", TRUE)
        bad == ReadingOf(n1, "x", FALSE)
    IN  {<<x, y>>, <<y, z>>, <<x, z>>, <<bad, y>>, <<bad>>, <<x, y, z>>}

Symmetry == Permutations(Attempts) \cup Permutations(Gateways)
=============================================================================

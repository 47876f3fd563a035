-------------------------- MODULE MCGatewayHeartbeat --------------------------
(***************************************************************************)
(* Three requests of two MACs that use two logical ids: two first          *)
(* heartbeats of one Gateway, a heartbeat against a batch, and two MACs    *)
(* after one logical id.                                                   *)
(***************************************************************************)
EXTENDS GatewayHeartbeat, TLC

CONSTANTS r1, r2, r3, m1, m2, g1, g2  \* model values

Symmetry == Permutations(Requests) \cup Permutations(Macs)
              \cup Permutations(GatewayIds)
=============================================================================

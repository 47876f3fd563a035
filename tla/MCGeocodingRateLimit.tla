------------------------- MODULE MCGeocodingRateLimit -------------------------
(***************************************************************************)
(* Three clients, two buckets, windows of two units: a bucket is evicted   *)
(* while its window lasts, another one expires, and a stretch of time as   *)
(* long as a window lies across two windows of a client.                   *)
(***************************************************************************)
EXTENDS GeocodingRateLimit, TLC

Symmetry == Permutations(Clients)
=============================================================================

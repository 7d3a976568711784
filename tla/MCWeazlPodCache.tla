-------------------------- MODULE MCWeazlPodCache --------------------------
(* Small instances of WeazlPodCache for TLC. *)
EXTENDS WeazlPodCache, TLC
CONSTANTS k1, k2, r1, r2

\* Two accounts of one library share a track, which may change at its source.
Shared == (k1 :> {r1}) @@ (k2 :> {r1, r2})
=============================================================================

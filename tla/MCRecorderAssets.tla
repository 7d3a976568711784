-------------------------- MODULE MCRecorderAssets --------------------------
(* Small instances of RecorderAssets for TLC. *)
EXTENDS RecorderAssets

\* A timeline on which a chunk, a real gap and a tail fit.
FourSlots  == 1 .. 4
ThreeSlots == 1 .. 3
\* The first capture and one reconnection.
TwoAttempts == 1 .. 2
OneAttempt  == {1}
=============================================================================

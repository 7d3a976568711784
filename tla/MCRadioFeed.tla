---------------------------- MODULE MCRadioFeed ----------------------------
(* Small instances of RadioFeed for TLC. *)
EXTENDS RadioFeed, TLC
CONSTANTS h1, h2, u1, u2, i1, i2

\* Two playback ids of one hub and one of another.
Three == {<<h1, i1>>, <<h1, i2>>, <<h2, i1>>}
\* Each hub belongs to an account of its own.
OneEach == (h1 :> u1) @@ (h2 :> u2)
=============================================================================

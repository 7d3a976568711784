-------------------------- MODULE MCFlightPlayback --------------------------
(* Small instances of FlightPlayback for TLC. *)
EXTENDS FlightPlayback

Seg(from, to) == [from |-> from, to |-> to]
Tracks2 == {"a", "b"}
\* Station a has two files without a gap, a gap, and a last file; b starts late.
Timeline2 == [s \in Tracks2 |-> IF s = "a" THEN <<Seg(0, 1), Seg(1, 3), Seg(3, 4), Seg(6, 7), Seg(7, 9)>>
                              ELSE <<Seg(2, 4)>>]
\* One station, with a gap before a file of two units.
Tracks1 == {"a"}
Timeline1 == [s \in Tracks1 |-> <<Seg(0, 1), Seg(2, 4), Seg(4, 6)>>]
=============================================================================

--------------------------- MODULE MCRecorderJobs ---------------------------
(* Small instances of RecorderJobs for TLC. *)
EXTENDS RecorderJobs

Once(first, len)         == [kind |-> "once", first |-> first, len |-> len, until |-> first]
Daily(first, len, until) == [kind |-> "daily", first |-> first, len |-> len, until |-> until]

\* Two overlapping one-off windows.
OnceRules  == {Once(1, 2), Once(2, 1)}
\* A recurrence, and a one-off window over its second occurrence, which the horizon does
\* not reach before the clock has moved.
DemandRules == {Daily(1, 1, 3), Once(2, 2)}
\* The lengths of immediate recordings.
ShortRules == {Once(0, 1), Once(0, 2)}
\* One occurrence of a recurrence, and the same length for immediate recordings.
ShortSeries == {Daily(1, 1, 2)}
=============================================================================

-------------------------- MODULE MCLibraryWrites --------------------------
(* Small instances of LibraryWrites for TLC. *)
EXTENDS LibraryWrites
CONSTANTS k1, k2

Ask(op, on, what) == [op |-> op, on |-> on, what |-> what]

\* One occurrence asked for with two tracks, a write upstream, a Mood and its end.
AllBodies == {Ask("scrobble", 1, 1), Ask("scrobble", 1, 2), Ask("write", 0, 1),
              Ask("mood", 0, 1), Ask("stop", 1, 0)}

\* A request of each kind; then a retry of it, with the same key or another, or with
\* another body.
AskThenRetry == [r \in Requests |->
  IF r = 1 THEN {k1} \X {Ask("scrobble", 1, 1), Ask("write", 0, 1), Ask("mood", 0, 1)}
  ELSE ({k1} \X {Ask("scrobble", 1, 1), Ask("scrobble", 1, 2), Ask("write", 0, 1),
                 Ask("mood", 0, 1)})
       \cup ({k2} \X {Ask("scrobble", 1, 1), Ask("mood", 0, 1), Ask("stop", 1, 0)})]
=============================================================================

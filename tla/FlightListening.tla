-------------------------- MODULE FlightListening --------------------------
(***************************************************************************)
(* What the player of recordings promises its listener: one clock for the  *)
(* session, which only a command or the passing of time moves; a recorded  *)
(* unit of time passes only while it is heard, a gap passes by itself;     *)
(* switching the station keeps the position, pausing freezes it, and a     *)
(* recording is taken up again where it was left, or from its start when   *)
(* it has been revised.  FlightPlayback implements this module.            *)
(***************************************************************************)
EXTENDS Naturals

CONSTANTS
  Stations,  \* the stations of the recorded session
  Duration,  \* its length
  Material,  \* Material[s]: the units of time that station s has recorded
  Over       \* Over[s][t]: where resuming at t may start over, at the end of a file

VARIABLES
  listening, \* is a recording open
  station,   \* the station that is chosen
  paused,
  pos,       \* the position on the session's clock
  sounding,  \* is audio coming out
  commands   \* how many commands the listener has given, toggles by themselves

vars == <<listening, station, paused, pos, sounding, commands>>

Init ==
  /\ listening = FALSE /\ paused = TRUE /\ sounding = FALSE
  /\ station \in Stations
  /\ pos = 0 /\ commands = [toggle |-> 0, other |-> 0]

Given(kind) == commands' = [commands EXCEPT ![kind] = @ + 1]
Command == Given("other")

(***************************************************************************)
(* Commands.  A command may also be left without sound, and then paused.   *)
(***************************************************************************)
Leave  == /\ Command /\ listening /\ ~listening'
          /\ UNCHANGED <<station, pos>>

Seek   == /\ Command /\ listening /\ listening'
          /\ pos' \in 0..Duration /\ paused' \in {paused, TRUE}
          /\ UNCHANGED station

Switch == /\ Command /\ listening /\ listening'
          /\ station' \in Stations
          /\ UNCHANGED <<paused, pos>>

Toggle == /\ Given("toggle") /\ listening /\ listening'
          /\ \/ ~paused /\ paused' /\ pos' = pos
             \/ paused /\ pos' \in {pos} \cup Over[station][pos]
          /\ UNCHANGED station

\* A command about something else, or about nothing that is open.
Other  == /\ Command \/ Given("toggle")
          /\ UNCHANGED <<listening, station, paused, pos>>

(***************************************************************************)
(* What happens without a command.                                         *)
(***************************************************************************)
Arrive  == /\ ~listening /\ listening'
           /\ paused' /\ pos' \in {pos, 0}
           /\ UNCHANGED <<station, commands>>

Advance == /\ listening /\ ~paused
           /\ pos \in Material[station] => sounding
           /\ pos' = pos + 1 /\ pos' <= Duration
           /\ UNCHANGED <<listening, station, paused, commands>>

GiveUp  == /\ listening /\ paused'
           /\ UNCHANGED <<listening, station, pos, commands>>

Sound   == UNCHANGED <<listening, station, paused, pos, commands>>

Next == \/ Leave \/ Seek \/ Switch \/ Toggle \/ Other
        \/ Arrive \/ Advance \/ GiveUp \/ Sound

Spec == Init /\ [][Next]_vars
=============================================================================

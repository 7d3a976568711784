-------------------------- MODULE WebOutput_proofs --------------------------
(***************************************************************************)
(* Proofs about WebOutput for any number of items, commands, revisions,    *)
(* acts and failures: who plays, who controls a receiver, and what a       *)
(* change of its queue replaces.                                           *)
(***************************************************************************)
EXTENDS WebOutput, TLAPS

-----------------------------------------------------------------------------
(* Who controls the receiver                                                *)

\* The fields of the records that steps update; what they hold matters only below.
IsOp(o) == o = [kind |-> o.kind, at |-> o.at, type |-> o.type, fresh |-> o.fresh, rev |-> o.rev,
                drift |-> o.drift, base |-> o.base, queue |-> o.queue, plays |-> o.plays, id |-> o.id]
IsLate(l) == l = [on |-> l.on, id |-> l.id, fresh |-> l.fresh]
IsLocal(l) == "src" \in DOMAIN l
Shape ==
  /\ IsOp(op) /\ IsLate(late) /\ IsLocal(local)
  /\ op.fresh \in BOOLEAN /\ late.on \in BOOLEAN /\ late.fresh \in BOOLEAN
  /\ remote.on \in BOOLEAN /\ kept \in BOOLEAN /\ signedIn \in BOOLEAN
  /\ chosen \in [op : BOOLEAN, late : BOOLEAN]

\* A receiver plays for a session that has a queue to save, and no transfer is left.
Controls ==
  remote.on => signedIn /\ kept /\ ~late.on /\ op.kind # "transfer" /\ local.src # "library"
\* A transfer that may still take the output over was begun in this session, and nothing
\* was chosen since; the same of one that was not confirmed.
Transfers ==
  op.kind = "transfer" /\ op.fresh => signedIn /\ ~chosen.op /\ (op.at # "get" => kept)
Unconfirmed == late.on /\ late.fresh => signedIn /\ kept /\ ~chosen.late
Returns == op.kind = "return" => ~late.on

OutputInv == Shape /\ Controls /\ Transfers /\ Unconfirmed /\ Returns

\* A newer choice: every transfer is out of date.
LEMMA NewerKeeps ==
  ASSUME Shape, Newer
  PROVE  /\ IsOp(op') /\ op'.fresh = FALSE /\ op'.kind = op.kind /\ op'.at = op.at
         /\ IsLate(late') /\ late'.fresh = FALSE /\ late'.on = late.on
BY DEF Shape, IsOp, IsLate, Newer

\* A choice made here, while no receiver plays.
LEMMA ChosenKeeps ==
  ASSUME OutputInv, Newer, Chosen, UNCHANGED <<signedIn, remote, kept>>, IsLocal(local'),
         remote.on => local'.src # "library"
  PROVE  OutputInv'
<1>1. chosen' \in [op : BOOLEAN, late : BOOLEAN]
  BY DEF Chosen
<1>2. QED
  BY <1>1, NewerKeeps DEF OutputInv, Shape, Controls, Transfers, Unconfirmed, Returns

\* A request of perform(), or none when one is under way.
LEMMA PerformKeeps ==
  ASSUME OutputInv, NEW type, NEW q, NEW seen, Perform(type, q, seen),
         UNCHANGED <<signedIn, remote, kept>>
  PROVE  OutputInv'
<1>1. CASE Busy
  BY <1>1 DEF Perform, OutputInv, Shape, Controls, Transfers, Unconfirmed, Returns
<1>2. CASE ~Busy
  <2>1. IsOp(op') /\ op'.kind = "perform" /\ op'.fresh = FALSE
    BY <1>2 DEF Perform, Idle, IsOp
  <2>2. QED
    BY <1>2, <2>1 DEF Perform, OutputInv, Shape, Controls, Transfers, Unconfirmed, Returns
<1>3. QED
  BY <1>1, <1>2

LEMMA IdleIsOp == IsOp(Idle) /\ Idle.kind = "none" /\ Idle.fresh = FALSE /\ Idle.at = "none"
BY DEF IsOp, Idle

\* The request under way ends; the receiver stays whose it is.
LEMMA IdleKeeps ==
  ASSUME OutputInv, op' = Idle, UNCHANGED <<signedIn, local, late, chosen, kept>>,
         remote'.on = remote.on
  PROVE  OutputInv'
BY IdleIsOp DEF OutputInv, Shape, Controls, Transfers, Unconfirmed, Returns

LEMMA ResumedKeeps ==
  ASSUME OutputInv, op.kind = "return", Resumed, UNCHANGED signedIn
  PROVE  OutputInv'
<1>1. /\ remote'.on = FALSE /\ kept' = FALSE /\ UNCHANGED chosen
  BY DEF Resumed, Here
<1>2. CASE op' = Idle /\ UNCHANGED <<local, late, flight>>
  BY <1>1, <1>2, IdleIsOp DEF OutputInv, Shape, Controls, Transfers, Unconfirmed, Returns
<1>3. CASE /\ op' = [op EXCEPT !.at = "resume", !.fresh = FALSE]
           /\ late' = [late EXCEPT !.fresh = FALSE]
           /\ local' = [src |-> "library", playing |-> TRUE, current |-> TRUE]
  <2>1. IsLate(late') /\ late'.fresh = FALSE /\ late'.on = late.on /\ IsLocal(local')
    BY <1>3 DEF OutputInv, Shape, IsLate, IsLocal
  <2>2. IsOp(op') /\ op'.kind = "return" /\ op'.fresh = FALSE
    BY <1>3 DEF OutputInv, Shape, IsOp
  <2>3. QED
    BY <1>1, <2>1, <2>2 DEF OutputInv, Shape, Controls, Transfers, Unconfirmed, Returns
<1>4. QED
  BY <1>2, <1>3 DEF Resumed

LEMMA FailedKeeps ==
  ASSUME OutputInv, Failed, UNCHANGED signedIn
  PROVE  OutputInv'
BY IdleKeeps, ResumedKeeps DEF Failed

\* Nothing that the invariant reads changes.
LEMMA NothingKeeps ==
  ASSUME OutputInv, UNCHANGED <<signedIn, local, remote, kept, op, late, chosen>>
  PROVE  OutputInv'
BY DEF OutputInv, Shape, Controls, Transfers, Unconfirmed, Returns

\* The audio element only changes what it plays.
LEMMA LocalKeeps ==
  ASSUME OutputInv, UNCHANGED <<signedIn, remote, kept, op, late, chosen>>, IsLocal(local'),
         remote.on => local'.src # "library"
  PROVE  OutputInv'
BY DEF OutputInv, Shape, Controls, Transfers, Unconfirmed, Returns

LEMMA LocalEdits ==
  ASSUME IsLocal(local)
  PROVE  /\ IsLocal([local EXCEPT !.playing = ~@]) /\ [local EXCEPT !.playing = ~@].src = local.src
         /\ \A b : /\ IsLocal([local EXCEPT !.playing = b]) /\ [local EXCEPT !.playing = b].src = local.src
                  /\ IsLocal([local EXCEPT !.current = b]) /\ [local EXCEPT !.current = b].src = local.src
         /\ \A a, b : /\ IsLocal([local EXCEPT !.src = a, !.playing = b])
                     /\ [local EXCEPT !.src = a, !.playing = b].src = a
<1> USE DEF IsLocal
<1>1. IsLocal([local EXCEPT !.playing = ~@]) /\ [local EXCEPT !.playing = ~@].src = local.src
  OBVIOUS
<1>2. ASSUME NEW b
      PROVE  /\ IsLocal([local EXCEPT !.playing = b]) /\ [local EXCEPT !.playing = b].src = local.src
             /\ IsLocal([local EXCEPT !.current = b]) /\ [local EXCEPT !.current = b].src = local.src
  <2>1. IsLocal([local EXCEPT !.playing = b]) /\ [local EXCEPT !.playing = b].src = local.src
    OBVIOUS
  <2>2. IsLocal([local EXCEPT !.current = b]) /\ [local EXCEPT !.current = b].src = local.src
    OBVIOUS
  <2>3. QED
    BY <2>1, <2>2, Zenon
<1>3. ASSUME NEW a, NEW b
      PROVE  /\ IsLocal([local EXCEPT !.src = a, !.playing = b])
             /\ [local EXCEPT !.src = a, !.playing = b].src = a
  OBVIOUS
<1>4. QED
  BY <1>1, <1>2, <1>3, Zenon

LEMMA PlayHereKeeps ==
  ASSUME OutputInv, ~remote.on, PlayHere, UNCHANGED <<signedIn, remote, kept>>
  PROVE  OutputInv'
<1>1. IsLocal(local')
  BY DEF PlayHere, IsLocal
<1>2. QED
  BY <1>1, ChosenKeeps DEF PlayHere

LEMMA OutputStep ==
  ASSUME OutputInv, [Next]_vars
  PROVE  OutputInv'
<1> USE DEF OutputInv
<1>1. CASE Play
  <2>1. UNCHANGED <<signedIn, remote, kept>>
    BY <1>1 DEF Play, Act, session
  <2>2. QED
    BY <1>1, <2>1, PerformKeeps, PlayHereKeeps DEF Play, Shape
<1>2. CASE Stop
  <2>1. UNCHANGED <<signedIn, remote, kept>>
    BY <1>2 DEF Stop, Act, session
  <2>2. CASE remote.on
    BY <1>2, <2>1, <2>2, PerformKeeps DEF Stop
  <2>3. CASE ~remote.on
    <3>1. Newer /\ Chosen /\ local' = [local EXCEPT !.src = "none", !.playing = FALSE]
      BY <1>2, <2>3 DEF Stop, Silence
    <3>2. IsLocal(local') /\ local'.src = "none"
      BY <3>1, LocalEdits, Zenon DEF Shape
    <3>3. QED
      BY <2>1, <2>3, <3>1, <3>2, ChosenKeeps
  <2>4. QED
    BY <2>2, <2>3
<1>3. CASE NextTrack
  <2>1. UNCHANGED <<signedIn, remote, kept>>
    BY <1>3 DEF NextTrack, Act, session
  <2>2. QED
    BY <1>3, <2>1, PerformKeeps, PlayHereKeeps DEF NextTrack, TakeNext, Shape
<1>4. CASE Toggle
  <2>1. UNCHANGED <<signedIn, remote, kept>>
    BY <1>4 DEF Toggle, Act, session
  <2>2. CASE remote.on
    <3>1. CASE Pending
      BY <1>4, <2>1, <2>2, <3>1, ChosenKeeps DEF Toggle, Shape, Controls
    <3>2. CASE ~Pending
      BY <1>4, <2>1, <2>2, <3>2, PerformKeeps DEF Toggle
    <3>3. QED
      BY <3>1, <3>2
  <2>3. CASE ~remote.on /\ local' = [local EXCEPT !.playing = ~@]
             /\ IF Pending THEN Newer /\ Chosen ELSE UNCHANGED <<op, late, chosen>>
    <3>1. IsLocal(local')
      BY <2>3, LocalEdits DEF Shape
    <3>2. CASE Pending
      BY <2>1, <2>3, <3>1, <3>2, ChosenKeeps
    <3>3. CASE ~Pending
      BY <2>1, <2>3, <3>1, <3>3, LocalKeeps
    <3>4. QED
      BY <3>2, <3>3
  <2>4. CASE ~remote.on /\ PlayHere
    BY <2>1, <2>4, PlayHereKeeps
  <2>5. QED
    BY <1>4, <2>2, <2>3, <2>4 DEF Toggle, TakeNext
<1>5. CASE Ended
  <2>1. UNCHANGED <<signedIn, remote, kept>> /\ ~remote.on
    BY <1>5 DEF Ended, session
  <2>2. CASE TakeNext
    BY <2>1, <2>2, PlayHereKeeps DEF TakeNext
  <2>3. CASE local' = [local EXCEPT !.playing = FALSE] /\ UNCHANGED <<queue, op, late, flight, chosen>>
    BY <2>1, <2>3, LocalKeeps, LocalEdits DEF Shape
  <2>4. QED
    BY <1>5, <2>2, <2>3 DEF Ended
<1>6. CASE EditQueue \/ BuildMood \/ MoodStarts \/ MoodTrack \/ MoodEnds
  BY <1>6, NothingKeeps DEF EditQueue, BuildMood, MoodStarts, MoodTrack, MoodEnds, Act, Away, session
<1>7. CASE EditDue
  <2>1. UNCHANGED <<signedIn, remote, kept>>
    BY <1>7 DEF EditDue, session
  <2>2. CASE remote.on
    BY <1>7, <2>1, <2>2, PerformKeeps DEF EditDue
  <2>3. CASE ~remote.on
    BY <1>7, <2>1, <2>3, NothingKeeps DEF EditDue
  <2>4. QED
    BY <2>2, <2>3
<1>8. CASE ChooseReceiver
  <2>1. /\ IsOp(op') /\ op'.kind = "transfer" /\ op'.at = "get" /\ op'.fresh = TRUE
    BY <1>8 DEF ChooseReceiver, Idle, IsOp
  <2>2. /\ chosen' \in [op : BOOLEAN, late : BOOLEAN] /\ ~chosen'.op /\ chosen'.late = chosen.late
    BY <1>8 DEF ChooseReceiver, Shape
  <2>3. signedIn /\ ~remote.on /\ UNCHANGED <<signedIn, local, remote, kept, late>>
    BY <1>8 DEF ChooseReceiver, Act, session
  <2>4. QED
    BY <2>1, <2>2, <2>3 DEF Shape, Controls, Transfers, Unconfirmed, Returns
<1>9. CASE ChooseBrowser
  <2>1. IsOp(op') /\ op'.kind = "return" /\ op'.fresh = FALSE
    BY <1>9 DEF ChooseBrowser, Idle, IsOp
  <2>2. remote.on /\ UNCHANGED <<signedIn, local, remote, kept, late, chosen>>
    BY <1>9 DEF ChooseBrowser, Act, session
  <2>3. QED
    BY <2>1, <2>2 DEF Shape, Controls, Transfers, Unconfirmed, Returns
<1>10. CASE Got
  <2>1. UNCHANGED <<signedIn, local, remote>>
    BY <1>10 DEF Got, Request, Waits, session
  <2>2. CASE /\ op.kind = "transfer" /\ kept' = TRUE
             /\ op' = [op EXCEPT !.at = "post", !.type = "load", !.rev = told.rev,
                                 !.drift = told.drift, !.base = told.queue, !.queue = queue,
                                 !.plays = local.playing]
             /\ late' = [on |-> TRUE, id |-> 0, fresh |-> op.fresh]
             /\ chosen' = [chosen EXCEPT !.late = chosen.op]
    <3>1. IsOp(op') /\ op'.kind = "transfer" /\ op'.fresh = op.fresh /\ op'.at = "post"
      BY <2>2 DEF Shape, IsOp
    <3>2. IsLate(late') /\ late'.on = TRUE /\ late'.fresh = op.fresh
      BY <2>2 DEF IsLate
    <3>3. /\ chosen' \in [op : BOOLEAN, late : BOOLEAN]
          /\ chosen'.op = chosen.op /\ chosen'.late = chosen.op
      BY <2>2 DEF Shape
    <3>4. QED
      BY <2>1, <2>2, <3>1, <3>2, <3>3 DEF Shape, Controls, Transfers, Unconfirmed, Returns
  <2>3. CASE op' = Idle /\ UNCHANGED <<late, chosen, kept>>
    BY <2>1, <2>3, IdleKeeps
  <2>4. CASE /\ op.kind = "return" /\ UNCHANGED <<late, chosen, kept>>
             /\ op' = [op EXCEPT !.at = "post", !.type = "stop", !.rev = told.rev,
                                 !.drift = told.drift, !.base = told.queue, !.queue = told.queue,
                                 !.plays = told.playing]
    <3>1. IsOp(op') /\ op'.kind = "return" /\ op'.fresh = op.fresh
      BY <2>4 DEF Shape, IsOp
    <3>2. QED
      BY <2>1, <2>4, <3>1 DEF Shape, Controls, Transfers, Unconfirmed, Returns
  <2>5. QED
    BY <1>10, <2>2, <2>3, <2>4 DEF Got
<1>11. CASE Posted
  <2>1. PICK i \in Ids : /\ op' = [op EXCEPT !.at = "poll", !.id = i]
                         /\ late' = IF op.type = "load" /\ late.on THEN [late EXCEPT !.id = i] ELSE late
    BY <1>11 DEF Posted
  <2>2. UNCHANGED <<signedIn, local, remote, chosen, kept>> /\ op.at = "post"
    BY <1>11 DEF Posted, Request, Waits, Accepts, session
  <2>3. IsOp(op') /\ op'.kind = op.kind /\ op'.fresh = op.fresh
    BY <2>1 DEF Shape, IsOp
  <2>4. IsLate(late') /\ late'.on = late.on /\ late'.fresh = late.fresh
    BY <2>1 DEF Shape, IsLate
  <2>5. QED
    BY <2>2, <2>3, <2>4 DEF Shape, Controls, Transfers, Unconfirmed, Returns
<1>12. CASE Refused \/ PollFails \/ RequestFails
  BY <1>12, FailedKeeps DEF Refused, PollFails, RequestFails, Request, session
<1>13. CASE Applied
  <2>1. UNCHANGED <<signedIn, local, remote, chosen, kept, late>> /\ op.at = "poll"
    BY <1>13 DEF Applied, Request, Waits, session
  <2>2. IsOp(op') /\ op'.kind = op.kind /\ op'.fresh = op.fresh
    BY <1>13 DEF Applied, Shape, IsOp
  <2>3. QED
    BY <2>1, <2>2 DEF Shape, Controls, Transfers, Unconfirmed, Returns
<1>14. CASE Done
  <2>1. UNCHANGED signedIn /\ op.at = "read"
    BY <1>14 DEF Done, Request, session
  <2>2. CASE op.kind = "return" /\ Resumed
    BY <2>1, <2>2, ResumedKeeps
  <2>3. CASE Performed /\ UNCHANGED <<chosen, kept>>
    <3>1. op' = Idle /\ UNCHANGED <<local, late>>
      BY <2>3 DEF Performed
    <3>2. remote'.on = remote.on
      <4>1. CASE remote.on
        <5>1. remote'.on = TRUE
          BY <2>3, <4>1 DEF Performed, Mirror
        <5>2. remote.on = TRUE
          BY <4>1 DEF Shape
        <5>3. QED
          BY <5>1, <5>2
      <4>2. CASE ~remote.on
        BY <2>3, <4>2 DEF Performed
      <4>3. QED
        BY <4>1, <4>2
    <3>3. QED
      BY <2>1, <2>3, <3>1, <3>2, IdleKeeps
  <2>4. CASE Completed /\ UNCHANGED <<chosen, kept>>
    <3>1. IsLate(late') /\ late'.on = FALSE /\ late'.fresh = FALSE /\ IsOp(op') /\ op'.kind = "none"
          /\ op'.fresh = FALSE
      BY <2>4, IdleIsOp DEF Completed, NoLate, IsLate
    <3>2. CASE op.fresh
      <4>1. IsLocal(local') /\ local'.src = "none" /\ remote'.on = TRUE
        <5>1. local' = [local EXCEPT !.src = "none", !.playing = FALSE] /\ remote'.on = TRUE
          BY <2>4, <3>2 DEF Completed, Silence, Mirror
        <5>2. QED
          BY <5>1, LocalEdits, Zenon DEF Shape
      <4>2. QED
        BY <2>1, <2>4, <3>1, <3>2, <4>1 DEF Completed, Shape, Controls, Transfers, Unconfirmed, Returns
    <3>3. CASE ~op.fresh
      BY <2>1, <2>4, <3>1, <3>3 DEF Completed, Shape, Controls, Transfers, Unconfirmed, Returns
    <3>4. QED
      BY <3>2, <3>3
  <2>5. QED
    BY <1>14, <2>2, <2>3, <2>4 DEF Done
<1>15. CASE Snapshot
  <2>1. UNCHANGED <<signedIn, op, chosen, kept>>
    BY <1>15 DEF Snapshot, Request, session
  <2>2. CASE LateHit
    <3>1. IsLate(late') /\ late'.on = FALSE /\ late'.fresh = FALSE
      BY <1>15, <2>2 DEF Snapshot, NoLate, IsLate
    <3>2. CASE late.fresh
      <4>1. IsLocal(local') /\ local'.src = "none" /\ remote'.on = TRUE
        <5>1. local' = [local EXCEPT !.src = "none", !.playing = FALSE] /\ remote'.on = TRUE
          BY <1>15, <2>2, <3>2 DEF Snapshot, Silence, Mirror
        <5>2. QED
          BY <5>1, LocalEdits, Zenon DEF Shape
      <4>2. QED
        BY <2>1, <2>2, <3>1, <3>2, <4>1 DEF LateHit, Busy, Shape, Controls, Transfers, Unconfirmed, Returns
    <3>3. CASE ~late.fresh
      <4>1. UNCHANGED <<local, remote>>
        BY <1>15, <2>2, <3>3 DEF Snapshot
      <4>2. QED
        BY <2>1, <3>1, <4>1 DEF Shape, Controls, Transfers, Unconfirmed, Returns
    <3>4. QED
      BY <3>2, <3>3
  <2>3. CASE ~LateHit
    <3>1. remote.on /\ remote'.on = TRUE /\ UNCHANGED <<local, late>>
      BY <1>15, <2>3 DEF Snapshot, Mirror
    <3>2. QED
      BY <2>1, <3>1 DEF Shape, Controls, Transfers, Unconfirmed, Returns
  <2>4. QED
    BY <2>2, <2>3
<1>16. CASE OpenFlight
  BY <1>16, ChosenKeeps, LocalEdits DEF OpenFlight, Act, session, Shape
<1>17. CASE FlightOpens
  <2>1. /\ local' = [local EXCEPT !.src = "recording", !.playing = FALSE]
        /\ UNCHANGED <<signedIn, remote, kept, op, late, chosen>>
    BY <1>17 DEF FlightOpens, Away, session
  <2>2. IsLocal(local') /\ local'.src = "recording"
    BY <2>1, LocalEdits, Zenon DEF Shape
  <2>3. QED
    BY <2>1, <2>2, LocalKeeps
<1>18. CASE SignOut
  <2>1. /\ signedIn' = FALSE /\ remote'.on = FALSE /\ kept' = FALSE /\ Newer
        /\ chosen' \in [op : BOOLEAN, late : BOOLEAN] /\ IsLocal(local')
    BY <1>18 DEF SignOut, Here, OutOfDate, Chosen, IsLocal
  <2>2. QED
    BY <2>1, NewerKeeps DEF Shape, Controls, Transfers, Unconfirmed, Returns
<1>19. CASE SignIn
  <2>1. /\ signedIn' = TRUE /\ ~signedIn /\ UNCHANGED <<remote, kept, op, late, chosen>>
        /\ IsLocal(local')
    BY <1>19, LocalEdits DEF SignIn, Shape
  <2>2. QED
    BY <2>1 DEF Shape, Controls, Transfers, Unconfirmed, Returns
<1>20. CASE SeeUser
  <2>1. remote'.on = FALSE /\ UNCHANGED <<signedIn, local, kept, op, late, chosen>>
    BY <1>20 DEF SeeUser, Here
  <2>2. QED
    BY <2>1 DEF Shape, Controls, Transfers, Unconfirmed, Returns
<1>21. CASE Apply \/ Reject \/ Expire \/ LocalChange \/ Drift \/ Report
  BY <1>21, NothingKeeps DEF Apply, Reject, Expire, LocalChange, Drift, Report, Afar, session
<1>22. CASE UNCHANGED vars
  BY <1>22, NothingKeeps DEF vars, session
<1>23. CASE ResumeEnds
  <2>1. op' = Idle /\ UNCHANGED <<signedIn, remote, kept, late, chosen>>
    BY <1>23 DEF ResumeEnds, Request, session
  <2>2. IsLocal(local') /\ local'.src = local.src
    BY <1>23, LocalEdits DEF ResumeEnds, Shape
  <2>3. QED
    BY <2>1, <2>2, IdleIsOp DEF Shape, Controls, Transfers, Unconfirmed, Returns
<1>24. QED
  BY <1>1, <1>2, <1>3, <1>4, <1>5, <1>6, <1>7, <1>8, <1>9, <1>10, <1>11, <1>12, <1>13, <1>14, <1>15,
     <1>16, <1>17, <1>18, <1>19, <1>20, <1>21, <1>22, <1>23 DEF Next, Answers

LEMMA OutputHolds == Spec => []OutputInv
<1>1. Init => OutputInv
  <2> SUFFICES ASSUME Init PROVE OutputInv
    OBVIOUS
  <2>1. op = Idle /\ IsOp(op) /\ op.kind = "none" /\ op.fresh = FALSE
    BY IdleIsOp DEF Init
  <2>2. IsLate(late) /\ late.on = FALSE /\ late.fresh = FALSE
    BY DEF Init, NoLate, IsLate
  <2>3. IsLocal(local) /\ remote.on = FALSE /\ kept = FALSE /\ signedIn = TRUE
    BY DEF Init, Here, IsLocal
  <2>4. chosen \in [op : BOOLEAN, late : BOOLEAN]
    BY DEF Init
  <2>5. QED
    BY <2>1, <2>2, <2>3, <2>4 DEF OutputInv, Shape, Controls, Transfers, Unconfirmed, Returns
<1>2. QED
  BY <1>1, OutputStep, PTL DEF Spec

\* While a receiver plays, the browser's own library audio is silent (completeTransfer and
\* the guards of play, web/remote.js, player.js).
THEOREM OneOfThemPlays == Spec => []OneOutput
<1>1. OutputInv => OneOutput
  BY DEF OutputInv, Controls, OneOutput
<1>2. QED
  BY <1>1, OutputHolds, PTL

\* Only a session controls a receiver, and with a queue of its own to save
\* (localOutputSaved, web/remote.js, api.js).
THEOREM SessionsControl == Spec => []SessionOwnsOutput
<1>1. OutputInv => SessionOwnsOutput
  BY DEF OutputInv, Controls, SessionOwnsOutput
<1>2. QED
  BY <1>1, OutputHolds, PTL

\* A step that hands the output to a receiver completes a transfer or confirms one.
LEMMA HandedOver ==
  ASSUME OutputInv, [Next]_vars, ~remote.on, remote'.on
  PROVE  \/ op.kind = "transfer" /\ op.fresh
         \/ ~Busy /\ late.on /\ late.fresh
<1>1. CASE Done
  <2>1. CASE Resumed
    BY <2>1 DEF Resumed, Here
  <2>2. CASE Performed
    BY <2>2 DEF Performed
  <2>3. CASE Completed
    BY <2>3 DEF Completed
  <2>4. QED
    BY <1>1, <2>1, <2>2, <2>3 DEF Done
<1>2. CASE Snapshot
  BY <1>2 DEF Snapshot, LateHit
<1>3. CASE Refused \/ PollFails \/ RequestFails
  BY <1>3 DEF Refused, PollFails, RequestFails, Failed, Resumed, Here
<1>4. CASE SignOut \/ SeeUser
  BY <1>4 DEF SignOut, SeeUser, Here
<1>5. QED
  BY <1>1, <1>2, <1>3, <1>4
     DEF Next, Answers, vars, Play, Stop, NextTrack, Toggle, Ended, EditQueue, EditDue, ChooseReceiver,
         ChooseBrowser, Got, Posted, Applied, OpenFlight, FlightOpens, BuildMood, MoodStarts,
         MoodTrack, MoodEnds, SignIn, Apply, Reject, Expire, LocalChange, Drift, Report, ResumeEnds,
         Away, Afar, Waits

\* A transfer takes the output over only when nothing was chosen here since it began
\* (transferVersion, web/remote.js).
THEOREM NewerChoicesStay == Spec => NewerSelectionKept
<1>1. OutputInv /\ [Next]_vars
        => [~remote.on /\ remote'.on => IF Busy THEN ~chosen.op ELSE ~chosen.late]_vars
  BY HandedOver DEF OutputInv, Transfers, Unconfirmed, Busy
<1>2. QED
  BY <1>1, OutputHolds, PTL DEF Spec, NewerSelectionKept

-----------------------------------------------------------------------------
(* What a change of the receiver's queue replaces                           *)

\* A queue seen at a revision is the receiver's as long as the revision is and the receiver
\* has not moved on by itself under it.
Matches(rev, drift, base) ==
  /\ rev \in Nat /\ drift \in Nat /\ rev <= receiver.rev
  /\ rev = receiver.rev => drift <= receiver.drift /\ (drift = receiver.drift => base = receiver.queue)
\* The fields of what the receiver is, and the server knows of it, that matter here.
HasState(r) == {"rev", "drift", "queue", "applied"} \subseteq DOMAIN r /\ r.rev \in Nat /\ r.drift \in Nat
SeenInv ==
  /\ HasState(receiver) /\ IsOp(op)
  /\ Matches(told.rev, told.drift, told.queue)
  /\ remote.on => Matches(remote.rev, remote.drift, remote.queue)
  /\ edit.on => Matches(edit.rev, edit.drift, edit.base)
  /\ op.at = "post" => Matches(op.rev, op.drift, op.base)
  /\ DOMAIN sent = Ids
  /\ \A i \in Ids : /\ "status" \in DOMAIN sent[i]
                    /\ sent[i].status # "none" => Matches(sent[i].rev, sent[i].drift, sent[i].base)

\* What a step may take for seen while the receiver stays as it is: what it was shown, and
\* what was seen before.
Same(s, b, r, c) == s.rev = r.rev /\ s.drift = r.drift /\ b = c
ToldSeen == \/ Same(told', told'.queue, told, told.queue)
            \/ Same(told', told'.queue, receiver, receiver.queue)
RemoteSeen == remote'.on => \/ remote.on /\ Same(remote', remote'.queue, remote, remote.queue)
                            \/ Same(remote', remote'.queue, told, told.queue)
EditSeen == edit'.on => \/ UNCHANGED edit
                        \/ remote.on /\ Same(edit', edit'.base, remote, remote.queue)
OpSeen == op'.at = "post" => \/ op.at = "post" /\ Same(op', op'.base, op, op.base)
                             \/ Same(op', op'.base, told, told.queue)
                             \/ remote.on /\ Same(op', op'.base, remote, remote.queue)
                             \/ edit.on /\ Same(op', op'.base, edit, edit.base)
SentSeen ==
  /\ DOMAIN sent' = Ids
  /\ \A i \in Ids : /\ "status" \in DOMAIN sent'[i]
                    /\ sent'[i].status # "none" =>
                         \/ sent[i].status # "none" /\ Same(sent'[i], sent'[i].base, sent[i], sent[i].base)
                         \/ op.at = "post" /\ Same(sent'[i], sent'[i].base, op, op.base)

LEMMA SeenAlready ==
  ASSUME SeenInv, UNCHANGED receiver, IsOp(op'), ToldSeen, RemoteSeen, EditSeen, OpSeen, SentSeen
  PROVE  SeenInv'
<1>1. \A r, d, b : Matches(r, d, b)' <=> Matches(r, d, b)
  BY DEF Matches
<1>2. Matches(receiver.rev, receiver.drift, receiver.queue)
  BY DEF SeenInv, HasState, Matches
<1>3. QED
  BY <1>2 DEF SeenInv, HasState, Matches, ToldSeen, RemoteSeen, EditSeen, OpSeen, SentSeen, Same

\* The receiver has moved on, to a new revision or under the one it has.
LEMMA MovedOn ==
  ASSUME SeenInv, HasState(receiver'),
         \/ receiver'.rev = receiver.rev + 1
         \/ receiver'.rev = receiver.rev /\ receiver'.drift = receiver.drift + 1,
         told' = told \/ told' = receiver',
         UNCHANGED <<remote, edit, op>>, SentSeen
  PROVE  SeenInv'
<1>1. ASSUME NEW r, NEW d, NEW b, Matches(r, d, b)
      PROVE  /\ r \in Nat /\ d \in Nat /\ r <= receiver'.rev
             /\ r = receiver'.rev => d <= receiver'.drift /\ (d = receiver'.drift => b = receiver'.queue)
  <2>1. r \in Nat /\ d \in Nat /\ r <= receiver.rev /\ receiver.rev \in Nat /\ receiver.drift \in Nat
        /\ (r = receiver.rev => d <= receiver.drift)
    BY <1>1 DEF SeenInv, HasState, Matches
  <2>2. CASE receiver'.rev = receiver.rev + 1
    BY <2>1, <2>2
  <2>3. CASE receiver'.rev = receiver.rev /\ receiver'.drift = receiver.drift + 1
    BY <2>1, <2>3
  <2>4. QED
    BY <2>2, <2>3
<1>2. QED
  BY <1>1 DEF SeenInv, HasState, Matches, SentSeen, Same

LEMMA SentSame ==
  ASSUME SeenInv, UNCHANGED sent
  PROVE  SentSeen
BY DEF SeenInv, SentSeen, Same

LEMMA NewerSeen ==
  ASSUME IsOp(op), Newer
  PROVE  OpSeen
BY DEF Newer, IsOp, OpSeen, Same

LEMMA PerformSeen ==
  ASSUME NEW type, NEW q, NEW rev, NEW drift, NEW base,
         Perform(type, q, [rev |-> rev, drift |-> drift, base |-> base])
  PROVE  \/ UNCHANGED op
         \/ op'.rev = rev /\ op'.drift = drift /\ op'.base = base
BY DEF Perform, Idle

LEMMA AcceptSeen ==
  ASSUME SeenInv, NEW i \in Ids, op.at = "post", Accept(i)
  PROVE  SentSeen /\ UNCHANGED <<receiver, told>>
BY DEF SeenInv, Accept, SentSeen, Same

LEMMA FailedSeen ==
  ASSUME SeenInv, Failed
  PROVE  RemoteSeen /\ OpSeen
<1>1. op' = Idle \/ op' = [op EXCEPT !.at = "resume", !.fresh = FALSE]
  BY DEF Failed, Resumed
<1>2. op'.at # "post"
  BY <1>1, IdleIsOp DEF SeenInv, IsOp
<1>3. QED
  BY <1>2 DEF Failed, Resumed, Here, RemoteSeen, OpSeen, Same

LEMMA SeenStep ==
  ASSUME SeenInv, IsOp(op'), [Next]_vars
  PROVE  SeenInv'
<1>1. CASE UNCHANGED <<remote, edit, op, receiver, told, sent>>
  BY <1>1, SeenAlready, SentSame DEF ToldSeen, Same, RemoteSeen, EditSeen, OpSeen
<1>2. CASE Play \/ Stop \/ NextTrack \/ Toggle \/ OpenFlight \/ Ended
  <2>1. UNCHANGED <<remote, edit, receiver, told, sent>>
    BY <1>2 DEF Play, Stop, NextTrack, Toggle, OpenFlight, Ended, Act, server
  <2>2. \/ Newer
        \/ UNCHANGED op
        \/ remote.on /\ \E type, q : Perform(type, q, [rev |-> remote.rev, drift |-> remote.drift, base |-> remote.queue])
    BY <1>2 DEF Play, Stop, NextTrack, Toggle, OpenFlight, Ended, TakeNext, PlayHere, Seen
  <2>3. OpSeen
    BY <2>2, NewerSeen, PerformSeen DEF SeenInv, OpSeen, Same
  <2>4. QED
    BY <2>1, <2>3, SeenAlready, SentSame DEF ToldSeen, Same, RemoteSeen, EditSeen
<1>3. CASE EditQueue \/ MoodTrack
  <2>1. UNCHANGED <<remote, op, receiver, told, sent>>
    BY <1>3 DEF EditQueue, MoodTrack, Act, server
  <2>2. EditSeen
    <3>1. \E q : ChangeQueue(q)
      BY <1>3 DEF EditQueue, MoodTrack
    <3>2. QED
      BY <3>1 DEF ChangeQueue, EditSeen, Same
  <2>3. QED
    BY <2>1, <2>2, SeenAlready, SentSame DEF ToldSeen, Same, RemoteSeen, OpSeen
<1>4. CASE EditDue
  <2>1. UNCHANGED <<remote, receiver, told, sent>> /\ edit.on /\ edit' = NoEdit
    BY <1>4 DEF EditDue, server
  <2>2. \/ UNCHANGED op
        \/ \E type, q : Perform(type, q, [rev |-> edit.rev, drift |-> edit.drift, base |-> edit.base])
    BY <1>4 DEF EditDue, Expected
  <2>3. OpSeen
    BY <2>1, <2>2, PerformSeen DEF OpSeen, Same
  <2>4. QED
    BY <2>1, <2>3, SeenAlready, SentSame DEF ToldSeen, Same, RemoteSeen, EditSeen, NoEdit
<1>5. CASE ChooseReceiver \/ ChooseBrowser
  <2>1. UNCHANGED <<remote, edit, receiver, told, sent>> /\ op'.at = "get"
    BY <1>5 DEF ChooseReceiver, ChooseBrowser, Act, server, Idle
  <2>2. QED
    BY <2>1, SeenAlready, SentSame DEF ToldSeen, Same, RemoteSeen, EditSeen, OpSeen
<1>6. CASE Got
  <2>1. UNCHANGED <<remote, edit, receiver, told, sent>>
    BY <1>6 DEF Got, Request, Waits, server
  <2>2. OpSeen
    BY <1>6, IdleIsOp DEF Got, SeenInv, IsOp, OpSeen, Same
  <2>3. QED
    BY <2>1, <2>2, SeenAlready, SentSame DEF ToldSeen, Same, RemoteSeen, EditSeen
<1>7. CASE Posted
  <2>1. UNCHANGED <<remote, edit>> /\ op.at = "post" /\ \E i \in Ids : Accept(i)
    BY <1>7 DEF Posted, Request, Waits, Accepts
  <2>2. OpSeen
    BY <1>7 DEF Posted, SeenInv, IsOp, OpSeen, Same
  <2>3. QED
    BY <2>1, <2>2, SeenAlready, AcceptSeen DEF ToldSeen, Same, RemoteSeen, EditSeen
<1>8. CASE Refused \/ PollFails
  <2>1. Failed /\ UNCHANGED <<edit, receiver, told, sent>>
    BY <1>8 DEF Refused, PollFails, Request, server
  <2>2. QED
    BY <2>1, FailedSeen, SeenAlready, SentSame DEF ToldSeen, Same, EditSeen
<1>9. CASE RequestFails
  <2>1. /\ Failed /\ UNCHANGED edit
        /\ UNCHANGED <<receiver, told, sent>> \/ (op.at = "post" /\ \E i \in Ids : Accept(i))
    BY <1>9 DEF RequestFails, Request, Accepts, server
  <2>2. SentSeen /\ UNCHANGED <<receiver, told>>
    BY <2>1, SentSame, AcceptSeen
  <2>3. QED
    BY <2>1, <2>2, FailedSeen, SeenAlready DEF ToldSeen, Same, EditSeen
<1>10. CASE Applied
  <2>1. UNCHANGED <<remote, edit, receiver, told, sent>>
    BY <1>10 DEF Applied, Request, Waits, server
  <2>2. OpSeen
    BY <1>10 DEF Applied, SeenInv, IsOp, OpSeen, Same
  <2>3. QED
    BY <2>1, <2>2, SeenAlready, SentSame DEF ToldSeen, Same, RemoteSeen, EditSeen
<1>11. CASE Done
  <2>1. UNCHANGED <<edit, receiver, told, sent>> /\ op'.at # "post"
    <3>1. op' = Idle \/ op' = [op EXCEPT !.at = "resume", !.fresh = FALSE]
      BY <1>11 DEF Done, Completed, Performed, Resumed
    <3>2. op'.at # "post"
      BY <3>1, IdleIsOp DEF SeenInv, IsOp
    <3>3. QED
      BY <1>11, <3>2 DEF Done, Request, server
  <2>2. RemoteSeen
    BY <1>11 DEF Done, Completed, Performed, Resumed, Mirror, Here, RemoteSeen, Same
  <2>3. QED
    BY <2>1, <2>2, IdleIsOp, SeenAlready, SentSame DEF ToldSeen, Same, EditSeen, OpSeen
<1>12. CASE Snapshot
  <2>1. UNCHANGED <<edit, op, receiver, told, sent>>
    BY <1>12 DEF Snapshot, Request, server
  <2>2. RemoteSeen
    BY <1>12 DEF Snapshot, Mirror, RemoteSeen, Same
  <2>3. QED
    BY <2>1, <2>2, SeenAlready, SentSame DEF ToldSeen, Same, EditSeen, OpSeen
<1>13. CASE SignOut
  <2>1. UNCHANGED <<edit, receiver, told, sent>> /\ remote'.on = FALSE /\ Newer
    BY <1>13 DEF SignOut, OutOfDate, Here, server
  <2>2. QED
    BY <2>1, NewerSeen, SeenAlready, SentSame DEF ToldSeen, Same, RemoteSeen, EditSeen, SeenInv
<1>14. CASE SeeUser
  <2>1. UNCHANGED <<op, receiver, told, sent>> /\ remote'.on = FALSE /\ edit'.on = FALSE
    BY <1>14 DEF SeeUser, Here, NoEdit, server
  <2>2. QED
    BY <2>1, SeenAlready, SentSame DEF ToldSeen, Same, RemoteSeen, EditSeen, OpSeen
<1>15. CASE Apply
  <2>1. PICK i \in Ids :
          /\ receiver' = [Carried(sent[i]) EXCEPT !.applied = i]
          /\ \/ sent' = [sent EXCEPT ![i].status = "applied"] /\ told' = receiver'
             \/ UNCHANGED <<sent, told>>
          /\ sent[i].status \in {"queued", "unknown"} /\ UNCHANGED <<remote, edit, op>>
    BY <1>15, Zenon DEF Apply, Afar
  <2>2. SentSeen
    <3>1. CASE sent' = [sent EXCEPT ![i].status = "applied"]
      BY <2>1, <3>1 DEF SeenInv, SentSeen, Same
    <3>2. CASE UNCHANGED sent
      BY <3>2, SentSame
    <3>3. QED
      BY <2>1, <3>1, <3>2
  <2>3. receiver'.rev = receiver.rev + 1 /\ HasState(receiver')
    <3>1. /\ Carried(sent[i]).rev = receiver.rev + 1 /\ Carried(sent[i]).drift = 0
          /\ {"rev", "drift", "queue", "applied"} \subseteq DOMAIN Carried(sent[i])
      BY DEF SeenInv, HasState, Carried
    <3>2. receiver'.rev = receiver.rev + 1 /\ receiver'.drift = 0
          /\ {"rev", "drift", "queue", "applied"} \subseteq DOMAIN receiver'
      BY <2>1, <3>1
    <3>3. QED
      BY <3>2 DEF SeenInv, HasState
  <2>4. QED
    BY <2>1, <2>2, <2>3, MovedOn
<1>16. CASE Reject \/ Expire
  <2>1. PICK i \in Ids : \E new \in {"rejected", "unknown"} :
          /\ sent' = [sent EXCEPT ![i].status = new] /\ told' \in {told, receiver}
          /\ sent[i].status = "queued" /\ UNCHANGED <<remote, edit, op, receiver>>
    BY <1>16 DEF Reject, Expire, Afar
  <2>2. SentSeen
    BY <2>1 DEF SeenInv, SentSeen, Same
  <2>3. QED
    BY <2>1, <2>2, SeenAlready DEF ToldSeen, Same, RemoteSeen, EditSeen, OpSeen, SeenInv
<1>17. CASE LocalChange
  <2>1. PICK i \in Items : receiver' = [receiver EXCEPT !.rev = @ + 1, !.drift = 0, !.queue = @ \ {i}]
    BY <1>17 DEF LocalChange
  <2>2. receiver'.rev = receiver.rev + 1 /\ HasState(receiver')
    BY <2>1 DEF SeenInv, HasState
  <2>3. QED
    BY <1>17, <2>2, MovedOn, SentSame DEF LocalChange, Afar
<1>18. CASE Drift
  <2>1. PICK i \in Items : receiver' = [receiver EXCEPT !.drift = @ + 1, !.queue = @ \ {i}]
    BY <1>18 DEF Drift
  <2>2. receiver'.rev = receiver.rev /\ receiver'.drift = receiver.drift + 1 /\ HasState(receiver')
    BY <2>1 DEF SeenInv, HasState
  <2>3. QED
    BY <1>18, <2>2, MovedOn, SentSame DEF Drift
<1>19. CASE Report
  <2>1. told' = receiver /\ UNCHANGED <<remote, edit, op, receiver, sent>>
    BY <1>19 DEF Report, Afar
  <2>2. QED
    BY <2>1, SeenAlready, SentSame DEF ToldSeen, Same, RemoteSeen, EditSeen, OpSeen, SeenInv
<1>20. CASE ResumeEnds
  <2>1. op' = Idle /\ UNCHANGED <<remote, edit, receiver, told, sent>>
    BY <1>20 DEF ResumeEnds, Request, server
  <2>2. QED
    BY <2>1, IdleIsOp, SeenAlready, SentSame DEF ToldSeen, Same, RemoteSeen, EditSeen, OpSeen
<1>21. QED
  BY <1>1, <1>2, <1>3, <1>4, <1>5, <1>6, <1>7, <1>8, <1>9, <1>10, <1>11, <1>12, <1>13, <1>14, <1>15,
     <1>16, <1>17, <1>18, <1>19, <1>20
     DEF Next, Answers, vars, server, FlightOpens, BuildMood, MoodStarts, MoodEnds, SignIn, Away, Act

\* A change of the queue replaces only the queue that the listener saw when changing it, or
\* what the receiver has moved on to under that revision (the captured revision of
\* remote-queue-save, web/remote.js, and the server's check of it).
THEOREM OnlySeenReplaced == Spec => SeenQueueReplaced
<1>1. Init => SeenInv
  <2> SUFFICES ASSUME Init PROVE SeenInv
    OBVIOUS
  <2>1. receiver = [rev |-> 0, drift |-> 0, queue |-> {}, playing |-> FALSE, applied |-> 0]
        /\ told = receiver /\ op = Idle /\ remote.on = FALSE /\ edit.on = FALSE
    BY DEF Init, Here, NoEdit
  <2>2. DOMAIN sent = Ids
        /\ \A i \in Ids : "status" \in DOMAIN sent[i] /\ sent[i].status = "none"
    BY DEF Init, NotSent
  <2>3. QED
    BY <2>1, <2>2, IdleIsOp DEF SeenInv, HasState, Matches
<1>2. SeenInv /\ IsOp(op)' /\ [Next]_vars => SeenInv'
  BY SeenStep
<1>3. ASSUME SeenInv, [Next]_vars, NEW i \in Ids, receiver.applied # i, receiver'.applied = i
      PROVE  /\ sent[i].rev = receiver.rev /\ sent[i].drift <= receiver.drift
             /\ sent[i].drift = receiver.drift => sent[i].base = receiver.queue
  <2>1. CASE Apply
    <3>1. PICK j \in Ids : /\ receiver' = [Carried(sent[j]) EXCEPT !.applied = j]
                           /\ sent[j].status \in {"queued", "unknown"} /\ sent[j].rev = receiver.rev
      BY <2>1 DEF Apply
    <3>2. receiver'.applied = j \/ receiver'.applied = receiver.applied
      BY <3>1 DEF Carried
    <3>3. CASE receiver'.applied = j
      <4>1. j = i
        BY <1>3, <3>3
      <4>2. QED
        BY <1>3, <3>1, <4>1 DEF SeenInv, Matches
    <3>4. QED
      BY <1>3, <3>2, <3>3
  <2>2. CASE LocalChange \/ Drift
    <3>1. \/ \E q, n : receiver' = [receiver EXCEPT !.rev = n, !.drift = 0, !.queue = q]
          \/ \E q, n : receiver' = [receiver EXCEPT !.drift = n, !.queue = q]
      BY <2>2 DEF LocalChange, Drift
    <3>2. receiver'.applied = receiver.applied
      BY <1>3, <3>1 DEF SeenInv, HasState
    <3>3. QED
      BY <1>3, <3>2
  <2>3. CASE UNCHANGED receiver
    BY <1>3, <2>3
  <2>4. CASE Posted \/ RequestFails
    BY <1>3, <2>4 DEF Posted, RequestFails, Accept, server
  <2>5. QED
    BY <1>3, <2>1, <2>2, <2>3, <2>4
       DEF Next, Answers, vars, server, Play, Stop, NextTrack, Toggle, Ended, EditQueue, EditDue,
           ChooseReceiver, ChooseBrowser, Got, Refused, Applied, PollFails, Done, Snapshot,
           OpenFlight, FlightOpens, BuildMood, MoodStarts, MoodTrack, MoodEnds, SignOut, SignIn,
           SeeUser, Reject, Expire, Report, ResumeEnds, Away, Act
<1>4. SeenInv /\ [Next]_vars
        => [\A i \in Ids : /\ sent[i].type = "replaceQueue"
                           /\ receiver.applied # i /\ receiver'.applied = i
                           => /\ sent[i].rev = receiver.rev /\ sent[i].drift <= receiver.drift
                              /\ sent[i].drift = receiver.drift => sent[i].base = receiver.queue]_vars
  BY <1>3
<1>5. OutputInv => IsOp(op)
  BY DEF OutputInv, Shape
<1>6. QED
  BY <1>1, <1>2, <1>4, <1>5, OutputHolds, PTL DEF Spec, SeenQueueReplaced
=============================================================================

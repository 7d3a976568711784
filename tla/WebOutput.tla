----------------------------- MODULE WebOutput -----------------------------
(***************************************************************************)
(* Where the browser plays: its own audio element or a receiver that it    *)
(* controls (web/player.js, web/remote.js), with the two features that     *)
(* need local output, recordings and Mood.  Commands and the receiver are  *)
(* those of RemotePlayback, here only as the browser meets them.           *)
(* A queue is a set of items; playing or not is kept, which track and      *)
(* where in it are not.  One account, one receiver, one controller; the    *)
(* server stays up, and the receiver keeps its connection.  A receiver that *)
(* cannot fetch the track it turned to keeps its revision (drift), and the *)
(* server may know less than the receiver is at (told).                    *)
(***************************************************************************)
EXTENDS Naturals

CONSTANTS
  Items,       \* what can be queued
  MaxIds,      \* bound: remote commands
  MaxRev,      \* bound: revisions of the receiver
  MaxActs,     \* bound: acts of the listener
  MaxFailures  \* bound: requests that fail or whose answer is lost, tracks not fetched

Ids == 1 .. MaxIds
ASSUME OutputConstantsOK == {MaxIds, MaxRev, MaxActs, MaxFailures} \subseteq Nat

VARIABLES
  signedIn,   \* state.user
  feed,       \* the user the 500 ms interval has seen: its event feed is open
  local,      \* the audio element, and whether state.current is set
  queue,      \* state.queue
  remote,     \* state.remote, the player as last mirrored
  kept,       \* state.localOutputSaved: is there a queue to save while a receiver plays
  op,         \* what busy stands for: a transfer, a return or a control
  late,       \* pendingTransfer
  edit,       \* the captured change of the queue that waits for its 200 ms
  mood, flight,
  receiver,   \* the receiver
  told,       \* the receiver as the server knows it
  sent,       \* the commands the server has accepted
  chosen,     \* history: was something chosen here since op, since late began
  acts, failures

session == <<signedIn, feed>>
server == <<receiver, told, sent>>
bounds == <<acts, failures>>
vars == <<session, local, queue, remote, kept, op, late, edit, mood, flight, server, chosen, bounds>>

Here == [on |-> FALSE, rev |-> 0, drift |-> 0, queue |-> {}, playing |-> FALSE]
NoEdit == [on |-> FALSE, rev |-> 0, drift |-> 0, base |-> {}, queue |-> {}]
NoLate == [on |-> FALSE, id |-> 0, fresh |-> FALSE]
NotSent == [status |-> "none", type |-> "none", rev |-> 0, drift |-> 0, base |-> {}, queue |-> {},
            plays |-> FALSE]
Idle == [kind |-> "none", at |-> "none", type |-> "none", fresh |-> FALSE, rev |-> 0,
         drift |-> 0, base |-> {}, queue |-> {}, plays |-> FALSE, id |-> 0]
Types == {"none", "load", "stop", "control", "replaceQueue"}

TypeOK ==
  /\ {signedIn, feed, kept} \subseteq BOOLEAN
  /\ local \in [src : {"none", "library", "recording"}, playing : BOOLEAN, current : BOOLEAN]
  /\ queue \subseteq Items
  /\ remote \in [on : BOOLEAN, rev : 0 .. MaxRev, drift : Nat, queue : SUBSET Items,
                 playing : BOOLEAN]
  /\ op \in [kind : {"none", "transfer", "return", "perform"},
             at : {"none", "get", "post", "poll", "read", "resume"},
             type : Types, fresh : BOOLEAN, rev : 0 .. MaxRev, drift : Nat, base : SUBSET Items,
             queue : SUBSET Items, plays : BOOLEAN, id : 0 .. MaxIds]
  /\ late \in [on : BOOLEAN, id : 0 .. MaxIds, fresh : BOOLEAN]
  /\ edit \in [on : BOOLEAN, rev : 0 .. MaxRev, drift : Nat, base : SUBSET Items, queue : SUBSET Items]
  /\ mood \in {"idle", "asked", "running"} /\ flight \in {"idle", "asked", "open"}
  /\ {receiver, told} \subseteq
       [rev : 0 .. MaxRev, drift : Nat, queue : SUBSET Items, playing : BOOLEAN, applied : 0 .. MaxIds]
  /\ sent \in [Ids -> [status : {"none", "queued", "applied", "rejected", "unknown"}, type : Types,
                       rev : 0 .. MaxRev, drift : Nat, base : SUBSET Items, queue : SUBSET Items,
                       plays : BOOLEAN]]
  /\ chosen \in [op : BOOLEAN, late : BOOLEAN]
  /\ acts \in 0 .. MaxActs /\ failures \in 0 .. MaxFailures

\* The page has been loaded for a session, with the queue and the track saved for it.
Init ==
  /\ signedIn = TRUE /\ feed = FALSE /\ queue \in SUBSET Items /\ remote = Here /\ kept = FALSE
  /\ \E c \in BOOLEAN : local = [src |-> "none", playing |-> FALSE, current |-> c]
  /\ op = Idle /\ late = NoLate /\ edit = NoEdit /\ mood = "idle" /\ flight = "idle"
  /\ receiver = [rev |-> 0, drift |-> 0, queue |-> {}, playing |-> FALSE, applied |-> 0]
  /\ told = receiver
  /\ sent = [i \in Ids |-> NotSent]
  /\ chosen = [op |-> FALSE, late |-> FALSE] /\ acts = 0 /\ failures = 0

Act == signedIn /\ acts < MaxActs /\ acts' = acts + 1 /\ UNCHANGED <<session, failures, server>>
Busy == op.kind # "none"
Pending == op.kind \in {"transfer", "return"}     \* state.remotePending

-----------------------------------------------------------------------------
(* Local playback                                                           *)

\* state.transferVersion moves: a transfer under way or unconfirmed is out of date.
Newer == op' = [op EXCEPT !.fresh = FALSE] /\ late' = [late EXCEPT !.fresh = FALSE]
Chosen == chosen' = [op |-> TRUE, late |-> TRUE]
Closed(f) == IF f = "open" THEN "idle" ELSE f

\* play() and stop() of the browser's own audio end an open recording; one whose manifest
\* is under way comes all the same.
PlayHere ==
  /\ Newer /\ Chosen /\ flight' = Closed(flight)
  /\ local' = [src |-> "library", playing |-> TRUE, current |-> TRUE]
Silence == /\ local' = [local EXCEPT !.src = "none", !.playing = FALSE]
           /\ flight' = Closed(flight)

\* mirror(): the receiver as the server knows it.
Mirror == /\ remote' = [on |-> TRUE, rev |-> told.rev, drift |-> told.drift, queue |-> told.queue,
                        playing |-> told.playing]
          /\ queue' = told.queue

\* perform() up to its first await: one request at a time; the queue shown is the receiver's.
\* A track that is chosen is to play.
Perform(type, q, seen) ==
  /\ IF Busy THEN UNCHANGED <<op, queue>>
     ELSE /\ op' = [Idle EXCEPT !.kind = "perform", !.at = "post", !.type = type, !.queue = q,
                                !.rev = seen.rev, !.drift = seen.drift, !.base = seen.base,
                                !.plays = type = "load"]
          /\ queue' = remote.queue
  /\ UNCHANGED <<local, late, flight, chosen>>
Seen == [rev |-> remote.rev, drift |-> remote.drift, base |-> remote.queue]

\* A track is chosen: play(), previous(), playList(), or remoteLoad() of it.
Play ==
  /\ Act
  /\ IF remote.on THEN Perform("load", queue, Seen) ELSE PlayHere /\ UNCHANGED queue
  /\ UNCHANGED <<remote, kept, edit, mood>>
Stop ==
  /\ Act
  /\ IF remote.on THEN Perform("stop", {}, Seen)
     ELSE Newer /\ Chosen /\ Silence /\ UNCHANGED queue
  /\ UNCHANGED <<remote, kept, edit, mood>>
\* The first of the queue is taken; with an empty queue nothing happens.
TakeNext == (\E i \in queue : queue' = queue \ {i}) /\ PlayHere
NextTrack ==
  /\ Act
  /\ IF remote.on THEN Perform("control", {}, Seen) ELSE TakeNext
  /\ UNCHANGED <<remote, kept, edit, mood>>
\* toggle(): only while a transfer or a return is pending it counts as a newer choice.
Toggle ==
  /\ Act
  /\ IF remote.on
     THEN IF Pending THEN Newer /\ Chosen /\ UNCHANGED <<local, queue, flight>>
          ELSE Perform("control", {}, Seen)
     ELSE IF flight = "open" \/ (local.current /\ local.src # "none")
     THEN /\ IF Pending THEN Newer /\ Chosen ELSE UNCHANGED <<op, late, chosen>>
          /\ local' = [local EXCEPT !.playing = ~@] /\ UNCHANGED <<queue, flight>>
     ELSE IF local.current THEN PlayHere /\ UNCHANGED queue ELSE TakeNext
  /\ UNCHANGED <<remote, kept, edit, mood>>
\* The track ends by itself: the next one plays, or nothing.
Ended ==
  /\ ~remote.on /\ local.src = "library" /\ local.playing
  /\ \/ TakeNext
     \/ /\ queue = {} /\ local' = [local EXCEPT !.playing = FALSE]
        /\ UNCHANGED <<queue, op, late, flight, chosen>>
  /\ UNCHANGED <<session, remote, kept, edit, mood, server, bounds>>

-----------------------------------------------------------------------------
(* The queue while a receiver plays                                         *)

\* saveState(): a change is captured together with the player it was made for.
ChangeQueue(q) ==
  /\ queue' = q
  /\ IF remote.on /\ q # remote.queue
     THEN edit' = [on |-> TRUE, rev |-> remote.rev, drift |-> remote.drift, base |-> remote.queue,
                   queue |-> q]
     ELSE UNCHANGED edit
EditQueue ==
  /\ Act /\ \E i \in Items : ChangeQueue(IF i \in queue THEN queue \ {i} ELSE queue \cup {i})
  /\ UNCHANGED <<local, remote, kept, op, late, mood, flight, chosen>>

\* Mutant of Expected: the revision is read when the change is submitted.
ExpectedNow(e) == [rev |-> remote.rev, drift |-> remote.drift, base |-> e.base]
Expected(e) == [rev |-> e.rev, drift |-> e.drift, base |-> e.base]
\* The timer waits on while a request is under way, and is dropped with the receiver.
EditDue ==
  /\ edit.on /\ edit' = NoEdit
  /\ IF remote.on THEN ~Busy /\ Perform("replaceQueue", edit.queue, Expected(edit))
     ELSE UNCHANGED <<local, queue, op, late, flight, chosen>>
  /\ UNCHANGED <<session, remote, kept, mood, server, bounds>>

-----------------------------------------------------------------------------
(* Choosing the output                                                      *)

LocalOnly == flight = "open" \/ mood = "running"
ChooseReceiver ==
  /\ Act /\ feed /\ ~Busy /\ ~LocalOnly /\ ~remote.on
  /\ op' = [Idle EXCEPT !.kind = "transfer", !.at = "get", !.fresh = TRUE]
  /\ chosen' = [chosen EXCEPT !.op = FALSE]
  /\ UNCHANGED <<local, queue, remote, kept, late, edit, mood, flight>>
ChooseBrowser ==
  /\ Act /\ ~Busy /\ ~LocalOnly /\ remote.on
  /\ op' = [Idle EXCEPT !.kind = "return", !.at = "get"]
  /\ UNCHANGED <<local, queue, remote, kept, late, edit, mood, flight, chosen>>

Request == UNCHANGED <<session, edit, mood, acts>>
Waits == UNCHANGED <<local, queue, remote, flight>>

\* The player is read.  A transfer builds its playback and remembers itself and the local
\* queue; a return takes the snapshot that it will resume from.
Got ==
  /\ op.at = "get"
  /\ \/ /\ op.kind = "transfer" /\ local.current
        /\ op' = [op EXCEPT !.at = "post", !.type = "load", !.rev = told.rev, !.drift = told.drift,
                            !.base = told.queue, !.queue = queue, !.plays = local.playing]
        /\ late' = [on |-> TRUE, id |-> 0, fresh |-> op.fresh]
        /\ chosen' = [chosen EXCEPT !.late = chosen.op] /\ kept' = TRUE
     \/ /\ op.kind = "transfer" /\ ~local.current /\ op' = Idle /\ UNCHANGED <<late, chosen, kept>>
     \/ /\ op.kind = "return" /\ UNCHANGED <<late, chosen, kept>>
        /\ op' = [op EXCEPT !.at = "post", !.type = "stop", !.rev = told.rev, !.drift = told.drift,
                            !.base = told.queue, !.queue = told.queue, !.plays = told.playing]
  /\ Request /\ Waits /\ UNCHANGED <<server, failures>>

\* The server takes one command at a time, for the revision that the browser has seen;
\* after one it gave up, the receiver has reconnected.
Accepts == /\ op.at = "post" /\ op.rev = told.rev /\ op.drift = told.drift
           /\ \A j \in Ids : sent[j].status # "queued"
Accept(i) ==
  /\ sent[i].status = "none" /\ \A j \in Ids : j < i => sent[j].status # "none"
  /\ sent' = [sent EXCEPT ![i] = [status |-> "queued", type |-> op.type, rev |-> op.rev,
                drift |-> op.drift, base |-> op.base, queue |-> op.queue, plays |-> op.plays]]
  /\ UNCHANGED <<receiver, told>>
Posted ==
  /\ Accepts
  /\ \E i \in Ids :
       /\ Accept(i) /\ op' = [op EXCEPT !.at = "poll", !.id = i]
       /\ late' = IF op.type = "load" /\ late.on THEN [late EXCEPT !.id = i] ELSE late
  /\ Request /\ Waits /\ UNCHANGED <<chosen, kept, failures>>

\* Playing here again: the receiver is let go of and the track that it had is started; a
\* receiver with nothing loaded leaves nothing to play.
Resumed ==
  /\ remote' = Here /\ kept' = FALSE /\ UNCHANGED chosen
  /\ \/ /\ op' = [op EXCEPT !.at = "resume", !.fresh = FALSE]
        /\ late' = [late EXCEPT !.fresh = FALSE] /\ flight' = Closed(flight)
        /\ local' = [src |-> "library", playing |-> TRUE, current |-> TRUE] /\ queue' = op.queue
     \/ op' = Idle /\ queue' = {} /\ UNCHANGED <<local, late, flight>>
\* The audio has started or failed to.  What the receiver had paused is paused here, and so
\* is whatever was chosen meanwhile.
ResumeEnds ==
  /\ op.at = "resume" /\ op' = Idle
  /\ local' = IF op.plays THEN local ELSE [local EXCEPT !.playing = FALSE]
  /\ Request /\ UNCHANGED <<queue, remote, kept, late, flight, chosen, server, failures>>
\* A request did not succeed.  A return whose stop failed may go on: the listener is asked.
Failed ==
  \/ /\ op' = Idle /\ UNCHANGED <<local, remote, kept, late, flight, chosen>>
     /\ queue' = IF remote.on /\ op.kind = "perform" THEN remote.queue ELSE queue
  \/ op.kind = "return" /\ op.at # "get" /\ Resumed

\* A request fails, or the server has taken the command and its answer is lost.
RequestFails ==
  /\ op.at \in {"get", "post", "poll", "read"} /\ Failed
  /\ failures < MaxFailures /\ failures' = failures + 1
  /\ \/ UNCHANGED server
     \/ Accepts /\ \E i \in Ids : Accept(i)
  /\ Request
Refused ==
  /\ op.at = "post" /\ ~Accepts /\ Failed
  /\ Request /\ UNCHANGED <<server, failures>>
Applied ==
  /\ op.at = "poll" /\ sent[op.id].status = "applied" /\ op' = [op EXCEPT !.at = "read"]
  /\ Request /\ Waits /\ UNCHANGED <<late, chosen, kept, server, failures>>
\* Rejected, unknown, or no result in seventy polls.
PollFails ==
  /\ op.at = "poll" /\ sent[op.id].status # "applied" /\ Failed
  /\ Request /\ UNCHANGED <<server, failures>>

\* Mutant of Completed: an applied transfer is taken over whatever was chosen since.
CompletedAlways ==
  op.kind = "transfer" /\ late' = NoLate /\ op' = Idle /\ Silence /\ Mirror
\* Mutant of Completed: the local audio goes on.
CompletedPlaying ==
  /\ op.kind = "transfer" /\ late' = NoLate /\ op' = Idle
  /\ IF op.fresh THEN Mirror /\ UNCHANGED <<local, flight>>
     ELSE UNCHANGED <<local, flight, remote, queue>>
Completed ==
  /\ op.kind = "transfer" /\ late' = NoLate /\ op' = Idle
  /\ IF op.fresh THEN Silence /\ Mirror ELSE UNCHANGED <<local, flight, remote, queue>>
Performed ==
  /\ op.kind = "perform" /\ op' = Idle
  /\ IF remote.on THEN Mirror ELSE UNCHANGED <<remote, queue>>
  /\ UNCHANGED <<local, flight, late>>
\* The command is applied and the player has been read again.
Done ==
  /\ op.at = "read"
  /\ \/ (Completed \/ Performed) /\ UNCHANGED <<chosen, kept>>
     \/ op.kind = "return" /\ Resumed
  /\ Request /\ UNCHANGED <<server, failures>>

\* Mutant of LateHit: the command's status decides, not what the receiver says it applied.
LateHitByStatus == late.on /\ late.id # 0 /\ ~Busy /\ sent[late.id].status = "applied"
LateHit == late.on /\ late.id # 0 /\ ~Busy /\ told.applied = late.id
\* A snapshot of the event feed: an unconfirmed transfer may prove to have been applied.
Snapshot ==
  /\ feed /\ signedIn
  /\ IF LateHit
     THEN /\ late' = NoLate
          /\ IF late.fresh THEN Silence /\ Mirror
             ELSE UNCHANGED <<local, flight, remote, queue>>
     ELSE remote.on /\ Mirror /\ UNCHANGED <<local, flight, late>>
  /\ Request /\ UNCHANGED <<op, chosen, kept, server, failures>>

-----------------------------------------------------------------------------
(* Recordings, Mood, the session                                            *)

Away == UNCHANGED <<session, remote, kept, edit, server, bounds>>
OpenFlight ==
  /\ Act /\ ~remote.on /\ ~Pending
  /\ Newer /\ Chosen /\ flight' = "asked"
  /\ local' = [local EXCEPT !.src = "none", !.playing = FALSE]
  /\ UNCHANGED <<queue, remote, kept, edit, mood>>
\* The manifest has come.
FlightOpens ==
  /\ flight = "asked" /\ flight' = "open"
  /\ local' = [local EXCEPT !.src = "recording", !.playing = FALSE]
  /\ Away /\ UNCHANGED <<queue, op, late, mood, chosen>>
BuildMood ==
  /\ Act /\ ~remote.on /\ ~Pending /\ mood = "idle" /\ local.current /\ mood' = "asked"
  /\ UNCHANGED <<local, queue, remote, kept, op, late, edit, flight, chosen>>
\* api('llm') has answered: the run starts, or nothing is configured.
MoodStarts ==
  /\ mood = "asked" /\ mood' \in {"running", "idle"}
  /\ Away /\ UNCHANGED <<local, queue, op, late, flight, chosen>>
\* A track of the run is queued; the run ends with the last one, with an error or by hand.
MoodTrack ==
  /\ mood = "running" /\ mood' \in {"running", "idle"}
  /\ \E i \in Items : ChangeQueue(queue \cup {i})
  /\ UNCHANGED <<session, local, remote, kept, op, late, flight, server, chosen, bounds>>
MoodEnds ==
  /\ mood = "running" /\ mood' = "idle"
  /\ Away /\ UNCHANGED <<local, queue, op, late, flight, chosen>>

\* Mutant of OutOfDate: resetting the player does not count as a newer choice.
OutOfDateNot == UNCHANGED <<op, late>>
OutOfDate == Newer
\* signedOut() and resetPlayer(); a request under way goes on, and so does what it set off.
SignOut ==
  /\ signedIn /\ acts < MaxActs /\ acts' = acts + 1 /\ signedIn' = FALSE
  /\ remote' = Here /\ kept' = FALSE /\ OutOfDate /\ Chosen /\ queue' = {}
  /\ local' = [src |-> "none", playing |-> FALSE, current |-> FALSE]
  /\ flight' = Closed(flight) /\ mood' = IF mood = "running" THEN "idle" ELSE mood
  /\ UNCHANGED <<feed, edit, server, failures>>
SignIn ==
  /\ ~signedIn /\ signedIn' = TRUE
  /\ queue' \in SUBSET Items /\ \E c \in BOOLEAN : local' = [local EXCEPT !.current = c]
  /\ UNCHANGED <<feed, remote, kept, op, late, edit, mood, flight, server, chosen, bounds>>
\* The 500 ms interval finds another user.
SeeUser ==
  /\ feed # signedIn /\ feed' = signedIn /\ remote' = Here /\ edit' = NoEdit
  /\ UNCHANGED <<signedIn, local, queue, kept, op, late, mood, flight, server, chosen, bounds>>

-----------------------------------------------------------------------------
(* The receiver and the server's results                                    *)

Afar == UNCHANGED <<session, local, queue, remote, kept, op, late, edit, mood, flight, chosen, bounds>>
\* The receiver carries a command out, also one the server has given up, and says so.  The
\* acknowledgement of the latter may be too late.
Carried(c) ==
  [receiver EXCEPT !.rev = @ + 1, !.drift = 0,
     !.queue = IF c.type \in {"load", "replaceQueue"} THEN c.queue ELSE @,
     !.playing = CASE c.type = "load" -> c.plays [] c.type = "stop" -> FALSE
                   [] c.type = "control" -> ~@   [] OTHER -> @]
Apply ==
  \E i \in Ids :
    /\ sent[i].status \in {"queued", "unknown"} /\ sent[i].rev = receiver.rev /\ receiver.rev < MaxRev
    /\ receiver' = [Carried(sent[i]) EXCEPT !.applied = i]
    /\ \/ sent' = [sent EXCEPT ![i].status = "applied"] /\ told' = receiver'
       \/ sent[i].status = "unknown" /\ UNCHANGED <<sent, told>>
    /\ Afar
\* A refusal is acknowledged with the receiver's state.
Reject ==
  \E i \in Ids : /\ sent[i].status = "queued" /\ told' = receiver
                 /\ sent' = [sent EXCEPT ![i].status = "rejected"] /\ UNCHANGED receiver /\ Afar
Expire ==
  \E i \in Ids : /\ sent[i].status = "queued"
                 /\ sent' = [sent EXCEPT ![i].status = "unknown"] /\ UNCHANGED <<receiver, told>> /\ Afar
\* Somebody uses the receiver itself, or its track ends.
LocalChange ==
  /\ receiver.rev < MaxRev
  /\ \E i \in Items : receiver' = [receiver EXCEPT !.rev = @ + 1, !.drift = 0, !.queue = @ \ {i}]
  /\ UNCHANGED <<told, sent>> /\ Afar
\* The receiver has turned to the next track and cannot fetch it: the revision stays.
Drift ==
  /\ failures < MaxFailures /\ failures' = failures + 1
  /\ \E i \in Items : receiver' = [receiver EXCEPT !.drift = @ + 1, !.queue = @ \ {i}]
  /\ UNCHANGED <<session, local, queue, remote, kept, op, late, edit, mood, flight, told, sent, chosen,
                 acts>>
\* Telemetry: the server learns a new revision; other news of one it knows it refuses.
Report ==
  /\ receiver.rev > told.rev /\ told' = receiver
  /\ UNCHANGED <<receiver, sent>> /\ Afar

-----------------------------------------------------------------------------

Answers == Got \/ Posted \/ Refused \/ Applied \/ PollFails \/ Done \/ ResumeEnds
Next ==
  \/ Play \/ Stop \/ NextTrack \/ Toggle \/ Ended \/ EditQueue \/ EditDue
  \/ ChooseReceiver \/ ChooseBrowser \/ Answers \/ RequestFails \/ Snapshot
  \/ OpenFlight \/ FlightOpens \/ BuildMood \/ MoodStarts \/ MoodTrack \/ MoodEnds
  \/ SignOut \/ SignIn \/ SeeUser \/ Apply \/ Reject \/ Expire \/ LocalChange \/ Drift \/ Report

Spec == Init /\ [][Next]_vars
\* Requests are answered, the interval runs, the feed delivers, the receiver reports; nobody
\* has to do anything.
FairSpec ==
  Spec /\ WF_vars(Answers) /\ WF_vars(Snapshot) /\ WF_vars(SeeUser) /\ WF_vars(Report)

-----------------------------------------------------------------------------
(* Properties                                                               *)

\* While a receiver plays, the browser's own library audio is silent.
OneOutput == remote.on => local.src # "library"

\* Only a session controls a receiver, and only with a queue of its own to save: what
\* flushState() writes meanwhile is that queue and never an empty one.
SessionOwnsOutput == remote.on => signedIn /\ kept

\* "Late transfer completion cannot stop a newer local selection"
\* (REMOTE_PLAYBACK_V1.md:120): a transfer takes the output over only when nothing was
\* chosen here since it began, whether it is confirmed in time or by a later snapshot.
NewerSelectionKept ==
  [][~remote.on /\ remote'.on => IF Busy THEN ~chosen.op ELSE ~chosen.late]_vars

\* A change of the queue replaces only the queue that the listener saw when changing it,
\* however often the receiver has been mirrored in between.  One thing the revision does not
\* catch, and is excepted: where the receiver got to by itself under it since.
SeenQueueReplaced ==
  [][\A i \in Ids : /\ sent[i].type = "replaceQueue"
                    /\ receiver.applied # i /\ receiver'.applied = i
                    => /\ sent[i].rev = receiver.rev /\ sent[i].drift <= receiver.drift
                       /\ sent[i].drift = receiver.drift => sent[i].base = receiver.queue]_vars

\* "An unconfirmed transfer displays uncertainty and must reconcile"
\* (REMOTE_PLAYBACK_V1.md:119), as far as the code does it: a transfer whose command the
\* browser knows (late.id # 0), once the receiver has applied it and nothing newer happened on
\* either side, makes the browser control the receiver.  The other half is LateReconciled.
Recognised == signedIn /\ late.on /\ late.fresh /\ late.id # 0 /\ receiver.applied = late.id
RecognisedReconciled == Recognised ~> (remote.on \/ ~Recognised)

\* "must reconcile" (REMOTE_PLAYBACK_V1.md:119) of any unconfirmed transfer: one whose POST was
\* accepted and its answer lost has no id to be recognised by (remote.js:52, 104).
Applicable == \E i \in Ids : /\ receiver.applied = i /\ sent[i].type = "load"
                            /\ late.on /\ late.fresh /\ late.id \in {0, i}
LateReconciled == signedIn /\ Applicable /\ ~remote.on ~> (remote.on \/ ~(signedIn /\ Applicable))

\* "Flight Recorder and active Mood require local output" (REMOTE_PLAYBACK_V1.md:124).
LocalOutputOnly == remote.on => ~LocalOnly
=============================================================================

--------------------------- MODULE FlightPlayback ---------------------------
(***************************************************************************)
(* The browser's player of recorded sessions: the playback and its 250 ms  *)
(* tick (web/flight-playback.js), the buffer that fetches ahead of it      *)
(* (web/flight-buffer.js) and the one audio element they share with the    *)
(* rest of the player.  A unit of time is far longer than a tick.  What a  *)
(* closed buffer still does is dropped: its awaits end by an abort or by a *)
(* test of closed.  One does not: open() after the import of the parser    *)
(* (flight-buffer.js:58) goes on to activate(), which moves the element.   *)
(***************************************************************************)
EXTENDS Integers, Sequences, FiniteSets, FiniteSetsExt

CONSTANTS
  Tracks,      \* the stations of the manifest, each with a track
  First,       \* the first of them
  Timeline,    \* Timeline[s]: the segments of the track of s in order, [from, to]
  Duration,    \* length of the session
  Windows,     \* the choices of how far to read ahead
  Behind,      \* what stays cached behind the position (60 s)
  Slack,       \* what MSE keeps beyond that before it removes (30 s)
  Late,        \* bound: how far the clock of a gap runs on before a tick
  MaxCommands, \* bound: commands of the listener
  MaxFailures  \* bound: requests, media and play() calls that fail

Times == 0 .. Duration

ASSUME FlightConstantsOK ==
  /\ IsFiniteSet(Tracks) /\ First \in Tracks /\ Duration \in Nat
  /\ IsFiniteSet(Windows) /\ Windows # {} /\ Windows \subseteq Nat \ {0}
  /\ \A s \in Tracks :
       /\ Timeline[s] \in Seq([from : Times, to : Times])
       /\ \A i \in DOMAIN Timeline[s] :
            /\ Timeline[s][i].from < Timeline[s][i].to
            /\ i > 1 => Timeline[s][i - 1].to <= Timeline[s][i].from
  /\ {Behind, Slack, Late, MaxCommands, MaxFailures} \subseteq Nat

VARIABLES
  continuous, \* does the browser have MediaSource for AAC
  window,     \* the choice that localStorage keeps
  saved,      \* the place that localStorage keeps
  asked,      \* a manifest is on its way and its request is the current version
  playback,   \* the playback; not on: null
  buffer,     \* its FlightBuffer
  task,       \* the await that open(), leaveGapOrAdvance() or seekFlight() is in
  audio,      \* the audio element; its time is the position in the session
  clock,      \* time since the anchor, in a gap
  commands,   \* how many commands the listener has given, toggles by themselves
  failures

flightVars == <<continuous, window, saved, asked, playback, buffer, task, audio, clock,
                commands, failures>>

Off == [on |-> FALSE, station |-> First, offset |-> 0, paused |-> TRUE, loading |-> FALSE,
        gap |-> FALSE, waiting |-> 0]
NoBuffer == [opened |-> FALSE, fetching |-> 0, target |-> 0, until |-> 0, have |-> {},
             cut |-> 0, active |-> 0, retry |-> FALSE]
NoTask == [kind |-> "none", at |-> "none", seg |-> 0, pos |-> 0]
Silent == [src |-> "none", playing |-> FALSE, time |-> 0]

FlightTypeOK ==
  LET Segs == DOMAIN Timeline[playback.station] \cup {0} IN
  /\ continuous \in BOOLEAN /\ asked \in BOOLEAN /\ window \in Windows
  /\ saved \in [pos : Times, station : Tracks]
  /\ playback \in [on : BOOLEAN, station : Tracks, offset : Times, paused : BOOLEAN,
                   loading : BOOLEAN, gap : BOOLEAN, waiting : Segs]
  /\ buffer \in [opened : BOOLEAN, fetching : Segs, target : Times, until : Nat,
                 have : SUBSET Segs, cut : Times, active : Segs, retry : BOOLEAN]
  /\ task \in [kind : {"none", "open", "leave", "seek"}, seg : Segs, pos : Times,
               at : {"none", "source", "fetch", "fill", "attach"}]
  /\ audio \in [src : {"none", "recording", "other"}, playing : BOOLEAN, time : Times]
  /\ clock \in Times
  /\ commands \in [toggle : 0 .. MaxCommands, other : 0 .. MaxCommands]
  /\ failures \in 0 .. MaxFailures

FlightInit ==
  /\ continuous \in BOOLEAN /\ window \in Windows
  /\ saved = [pos |-> 0, station |-> First]
  /\ asked = FALSE /\ playback = Off /\ buffer = NoBuffer /\ task = NoTask
  /\ audio = Silent /\ clock = 0 /\ failures = 0
  /\ commands = [toggle |-> 0, other |-> 0]

Given(kind) == /\ commands.toggle + commands.other < MaxCommands
               /\ commands' = [commands EXCEPT ![kind] = @ + 1]
Command == Given("other")
Fails == failures < MaxFailures /\ failures' = failures + 1

-----------------------------------------------------------------------------
(* The timeline and the buffer.  A segment is its index in the track of the *)
(* chosen station, 0 is none.                                               *)

Segments == DOMAIN Timeline[playback.station]
From(i) == Timeline[playback.station][i].from
To(i) == Timeline[playback.station][i].to
\* Mutant of FirstOf: findIndex for find.
FirstOfIndex(S) == IF S = {} THEN -1 ELSE Min(S)
FirstOf(S) == IF S = {} THEN 0 ELSE Min(S)
SegAfter(t) == FirstOf({i \in Segments : To(i) > t})
Later(t, u) == Max({t, u})

\* What of a cached segment is left once MSE has removed everything before the cut.
Has(b, i) == i \in b.have /\ Later(From(i), b.target) >= b.cut
Buffered(b, t) == t >= b.cut /\ \E i \in b.have : From(i) <= t /\ t < To(i)
Ahead(b, t) == Max({e \in t .. Duration : \A u \in t .. (e - 1) : Buffered(b, u)}) - t

\* Mutant of Evict: what was played stays cached.
EvictNothing(b) == b
Evict(b) ==
  LET floor == Later(0, b.target - Behind) IN
  IF continuous
  THEN IF \E t \in 0 .. (floor - Slack - 1) : Buffered(b, t)
       THEN [b EXCEPT !.cut = floor, !.have = {i \in @ : To(i) > floor}] ELSE b
  ELSE [b EXCEPT !.have = {i \in @ : To(i) >= floor /\ From(i) <= b.until}]

Wanted(b) == FirstOf({i \in Segments : To(i) > b.target /\ From(i) < b.until /\ ~Has(b, i)})
\* One turn of pump(), up to the await of the next segment.
Pump(b) == LET e == Evict(b) IN [e EXCEPT !.fetching = Wanted(e)]
\* fill(): a buffer that is busy, not open, failing or full enough only moves its target.
FillAhead(b, pos, w) ==
  LET t == [b EXCEPT !.target = pos] IN
  IF t.fetching # 0 \/ ~t.opened \/ t.retry \/ 5 * Ahead(t, pos) >= 4 * w THEN t
  ELSE Pump([t EXCEPT !.until = pos + w])
Fill(b, pos) == FillAhead(b, pos, window)

HasData(t) == IF continuous THEN Buffered(buffer, t)
              ELSE buffer.active # 0 /\ From(buffer.active) <= t /\ t < To(buffer.active)
Sounding == audio.src = "recording" /\ audio.playing /\ HasData(audio.time)

\* position(), of a playback that is on.
Position ==
  LET p == playback IN
  Min({Duration,
       IF p.loading \/ p.waiting # 0 THEN p.offset
       ELSE IF p.gap THEN p.offset + (IF p.paused THEN 0 ELSE clock) ELSE audio.time})

-----------------------------------------------------------------------------
(* Opening, selecting and closing                                           *)

\* selectAudio(): the old buffer is closed, with what it was doing, and a new one opens.
Select(p) ==
  /\ playback' = [p EXCEPT !.loading = TRUE, !.gap = FALSE, !.waiting = 0]
  /\ buffer' = [NoBuffer EXCEPT !.target = p.offset]
  /\ task' = [kind |-> "open", at |-> "source", seg |-> 0, pos |-> p.offset]
  /\ audio' = [src |-> IF continuous THEN "recording" ELSE audio.src,
               playing |-> FALSE, time |-> 0]
  /\ clock' = 0 /\ asked' = FALSE

\* stopFlightPlayback(), which remembers the place; it changes nothing without a playback,
\* not even the version, so that a manifest on its way still arrives.
Close ==
  /\ saved' = IF playback.on THEN [pos |-> Position, station |-> playback.station] ELSE saved
  /\ playback' = Off /\ buffer' = NoBuffer /\ task' = NoTask /\ clock' = 0

OpenFlight ==
  /\ Command /\ Close /\ audio' = Silent /\ asked' = TRUE
  /\ UNCHANGED <<continuous, window, failures>>
\* Stop, the deletion of the recording, or the end of the browser's session.
StopAll ==
  /\ Command /\ Close /\ audio' = Silent
  /\ UNCHANGED <<continuous, window, asked, failures>>
\* A library track or a live station is played instead.
PlayOther ==
  /\ Command /\ Close /\ audio' = [src |-> "other", playing |-> TRUE, time |-> 0]
  /\ UNCHANGED <<continuous, window, asked, failures>>

\* The manifest arrives: at the remembered place, or at the start when it was revised.
ManifestArrives ==
  /\ asked
  /\ \E pos \in {saved.pos, 0} :
       Select([Off EXCEPT !.on = TRUE, !.station = saved.station, !.offset = pos])
  /\ UNCHANGED <<continuous, window, saved, commands, failures>>
ManifestFails ==
  /\ asked /\ asked' = FALSE /\ Fails
  /\ UNCHANGED <<continuous, window, saved, playback, buffer, task, audio, clock, commands>>

\* playAudio(): a file that has ended starts over; only a paused element can refuse.
Play(p, a) ==
  LET over == ~continuous /\ buffer'.active # 0 /\ a.time = To(buffer'.active) IN
  \/ /\ playback' = p
     /\ audio' = [a EXCEPT !.playing = TRUE, !.time = IF over THEN From(buffer'.active) ELSE @]
     /\ UNCHANGED failures
  \/ ~a.playing /\ playback' = [p EXCEPT !.paused = TRUE] /\ audio' = a /\ Fails
\* Mutant of Resume: a listener who paused during an await is not respected.
ResumeAnyway(p, a) == IF p.gap THEN playback' = p /\ audio' = a /\ UNCHANGED failures ELSE Play(p, a)
Resume(p, a) ==
  IF p.paused \/ p.gap THEN playback' = p /\ audio' = a /\ UNCHANGED failures ELSE Play(p, a)

\* The end of open(), and of selectAudio() after it.
Opened(b, seg, a) ==
  /\ buffer' = Fill([b EXCEPT !.opened = TRUE], playback.offset)
  /\ task' = NoTask /\ clock' = 0
  /\ Resume([playback EXCEPT !.loading = FALSE,
                             !.gap = (seg = 0) \/ From(seg) > playback.offset], a)

\* Compatibility: the element loads another file before the await of its metadata.
Loading == [audio EXCEPT !.src = "recording", !.playing = FALSE]
UserIdle == UNCHANGED <<continuous, window, saved, asked, commands>>

\* The media source has opened; without one there is nothing to wait for.
SourceOpens ==
  /\ task.kind = "open" /\ task.at = "source"
  /\ LET seg == SegAfter(task.pos) IN
     IF seg = 0 THEN Opened(buffer, 0, audio)
     ELSE /\ task' = [task EXCEPT !.at = "fetch", !.seg = seg]
          /\ UNCHANGED <<playback, buffer, audio, clock, failures>>
  /\ UserIdle
\* The first segment is there.
FirstFetched ==
  /\ task.kind = "open" /\ task.at = "fetch"
  /\ LET b == [buffer EXCEPT !.have = {task.seg}] IN
     IF continuous
     THEN Opened(b, task.seg, [audio EXCEPT !.time = Later(task.pos, From(task.seg))])
     ELSE /\ buffer' = b /\ audio' = Loading
          /\ task' = [task EXCEPT !.at = "attach", !.pos = Later(@, From(task.seg))]
          /\ UNCHANGED <<playback, clock, failures>>
  /\ UserIdle
OpenFails ==
  /\ task.kind = "open" /\ (task.at = "source" => continuous) /\ Fails
  /\ playback' = [playback EXCEPT !.paused = TRUE] /\ task' = NoTask
  /\ UserIdle /\ UNCHANGED <<buffer, audio, clock>>

-----------------------------------------------------------------------------
(* The buffer's own requests                                                *)

Fetched ==
  /\ buffer.fetching # 0
  /\ buffer' = Pump([buffer EXCEPT !.have = @ \cup {buffer.fetching}])
  /\ UserIdle /\ UNCHANGED <<playback, task, audio, clock, failures>>
FetchFails ==
  /\ buffer.fetching # 0 /\ Fails
  /\ buffer' = [buffer EXCEPT !.fetching = 0, !.retry = TRUE]
  /\ UserIdle /\ UNCHANGED <<playback, task, audio, clock>>
\* Three seconds later.
RetryDue ==
  /\ buffer.retry /\ buffer' = [buffer EXCEPT !.retry = FALSE]
  /\ UserIdle /\ UNCHANGED <<playback, task, audio, clock, failures>>

-----------------------------------------------------------------------------
(* The tick                                                                 *)

\* activate() of a segment the buffer has, from leaveGapOrAdvance().
Enter(p, seg) ==
  IF continuous
  THEN /\ buffer' = Fill(buffer, From(seg)) /\ task' = NoTask
       /\ Resume([p EXCEPT !.loading = FALSE], [audio EXCEPT !.time = From(seg)])
  ELSE /\ playback' = p /\ audio' = Loading /\ UNCHANGED <<buffer, failures>>
       /\ task' = [kind |-> "leave", at |-> "attach", seg |-> seg, pos |-> From(seg)]

\* leaveGapOrAdvance(), up to its first await.
LeaveFor(seg) ==
  LET p == [playback EXCEPT !.offset = From(seg), !.loading = TRUE, !.gap = FALSE, !.waiting = 0]
  IN /\ clock' = 0
     /\ IF Has(buffer, seg) THEN Enter(p, seg)
        ELSE /\ playback' = p /\ buffer' = Fill(buffer, From(seg))
             /\ task' = [kind |-> "leave", at |-> "fill", seg |-> seg, pos |-> From(seg)]
             /\ UNCHANGED <<audio, failures>>
\* The fill it waited for has ended, with the segment or without it.
LeaveFilled ==
  /\ task.kind = "leave" /\ task.at = "fill" /\ buffer.fetching = 0
  /\ IF Has(buffer, task.seg) THEN Enter(playback, task.seg)
     ELSE /\ playback' = [playback EXCEPT !.loading = FALSE, !.waiting = task.seg]
          /\ buffer' = Fill(buffer, task.pos) /\ task' = NoTask
          /\ UNCHANGED <<audio, failures>>
  /\ UserIdle /\ UNCHANGED clock

\* Compatibility: the metadata of the file has loaded.
Attached ==
  /\ task.at = "attach"
  /\ LET b == [buffer EXCEPT !.active = task.seg]
         a == [audio EXCEPT !.time = task.pos]
     IN IF task.kind = "open" THEN Opened(b, task.seg, a)
        ELSE /\ buffer' = Fill(b, task.pos) /\ task' = NoTask /\ UNCHANGED clock
             /\ Resume([playback EXCEPT !.loading = FALSE], a)
  /\ UserIdle
\* It has not: a gap is left paused, a seek opens a new buffer.
AttachFails ==
  /\ task.at = "attach" /\ task.kind # "open" /\ Fails
  /\ IF task.kind = "seek" THEN Select([playback EXCEPT !.offset = task.pos])
     ELSE /\ playback' = [playback EXCEPT !.paused = TRUE]
          /\ buffer' = Fill(buffer, task.pos) /\ task' = NoTask
          /\ UNCHANGED <<asked, audio, clock>>
  /\ UNCHANGED <<continuous, window, saved, commands>>

Running == playback.on /\ ~playback.loading /\ ~playback.paused
NextSegment == IF playback.waiting # 0 THEN playback.waiting
               ELSE FirstOf({i \in Segments : From(i) >= playback.offset})
\* A gap has passed, or the segment that was missing is asked for again.
GapOver == /\ Running /\ (playback.gap \/ playback.waiting # 0)
           /\ NextSegment # 0 /\ Position >= From(NextSegment)
\* The audio has come to the end of a segment and has no more data.
Drained == /\ Running /\ ~playback.gap /\ playback.waiting = 0 /\ ~HasData(audio.time)
           /\ \E i \in Segments : To(i) = audio.time
Follower == FirstOf({i \in Segments : From(i) = audio.time})
\* Mutant of GapBegins: audio that has run dry is always taken to be buffering.
GapNever == FALSE
GapBegins == Drained /\ Follower = 0
HandOff == Drained /\ Follower # 0 /\ ~continuous

TickTail ==
  LET over == ~playback.paused /\ Position >= Duration
      p == IF GapBegins THEN [playback EXCEPT !.offset = Position, !.gap = TRUE] ELSE playback
  IN /\ playback' = IF over THEN [p EXCEPT !.offset = Duration, !.loading = TRUE,
                                           !.paused = TRUE] ELSE p
     /\ audio' = IF over THEN [audio EXCEPT !.playing = FALSE] ELSE audio
     /\ clock' = IF GapBegins THEN 0 ELSE clock
     /\ buffer' = Fill(buffer, Position)
     /\ UNCHANGED <<task, failures>>

\* tick(): the end of a gap, the handoff to the next file, or else the beginning of a
\* gap, the end of the session and the refill.
Tick ==
  /\ playback.on
  /\ IF GapOver THEN LeaveFor(NextSegment)
     ELSE IF HandOff THEN LeaveFor(Follower) ELSE TickTail
  /\ UserIdle

-----------------------------------------------------------------------------
(* Time                                                                     *)

\* The audio plays what it has; the clock of a gap runs on to the next segment.
Heard ==
  /\ Sounding /\ audio.time < Duration
  /\ audio' = [audio EXCEPT !.time = @ + 1]
  /\ UNCHANGED clock
GapPasses ==
  /\ Running /\ playback.gap /\ playback.waiting = 0 /\ Position < Duration
  /\ NextSegment # 0 => Position < From(NextSegment) + Late
  /\ clock' = clock + 1 /\ UNCHANGED audio
TimePasses ==
  /\ Heard \/ GapPasses
  /\ UserIdle /\ UNCHANGED <<playback, buffer, task, failures>>

-----------------------------------------------------------------------------
(* The listener                                                             *)

SelectStation(s) ==
  /\ Command /\ playback.on
  /\ Select([playback EXCEPT !.offset = Position, !.station = s])
  /\ UNCHANGED <<continuous, window, saved, failures>>

\* seekFlight(): within what is cached, or with a new buffer.
SeekTo(p, to) ==
  IF p.loading \/ ~Buffered(buffer, to) THEN Select([p EXCEPT !.offset = to]) /\ UNCHANGED failures
  ELSE LET q == [p EXCEPT !.offset = to, !.gap = FALSE, !.waiting = 0] IN
       /\ clock' = 0 /\ UNCHANGED asked
       /\ IF continuous
          THEN /\ buffer' = Fill(buffer, to) /\ UNCHANGED task
               /\ Resume(q, [audio EXCEPT !.time = to])
          ELSE /\ playback' = [q EXCEPT !.loading = TRUE] /\ audio' = Loading
               /\ task' = [kind |-> "seek", at |-> "attach", pos |-> to,
                           seg |-> FirstOf({i \in Segments : From(i) <= to /\ to < To(i)})]
               /\ UNCHANGED <<buffer, failures>>
Seek(to) ==
  /\ Command /\ playback.on
  /\ SeekTo(playback, to)
  /\ UNCHANGED <<continuous, window, saved>>

\* toggleFlight()
\* Mutant of Pause: the place is not taken before the clock stops.
PauseOnly ==
  /\ ~playback.paused
  /\ playback' = [playback EXCEPT !.paused = TRUE]
  /\ audio' = [audio EXCEPT !.playing = FALSE] /\ clock' = 0
  /\ UNCHANGED <<asked, buffer, task, failures>>
Pause ==
  /\ ~playback.paused
  /\ playback' = [playback EXCEPT !.offset = Position, !.paused = TRUE]
  /\ audio' = [audio EXCEPT !.playing = FALSE] /\ clock' = 0
  /\ UNCHANGED <<asked, buffer, task, failures>>
Unpause ==
  LET p == [playback EXCEPT !.paused = FALSE] IN
  /\ playback.paused
  /\ IF p.offset >= Duration THEN SeekTo(p, 0)
     ELSE IF p.loading THEN Select(p) /\ UNCHANGED failures
     ELSE UNCHANGED <<asked, buffer, task>> /\ clock' = 0 /\ Resume(p, audio)
Toggle ==
  /\ Given("toggle") /\ playback.on /\ (Pause \/ Unpause)
  /\ UNCHANGED <<continuous, window, saved>>

\* The choice of the buffer's length.
SetWindow(w) ==
  /\ Command /\ playback.on /\ window' = w
  /\ buffer' = FillAhead(buffer, Position, w)
  /\ UNCHANGED <<continuous, saved, asked, playback, task, audio, clock, failures>>

-----------------------------------------------------------------------------
Listener ==
  \/ OpenFlight \/ StopAll \/ PlayOther \/ Toggle
  \/ \E s \in Tracks : SelectStation(s)
  \/ \E to \in Times : Seek(to)
  \/ \E w \in Windows \ {window} : SetWindow(w)
Answers ==
  \/ ManifestArrives \/ ManifestFails \/ SourceOpens \/ FirstFetched \/ OpenFails
  \/ Fetched \/ FetchFails \/ RetryDue \/ LeaveFilled \/ Attached \/ AttachFails
FlightNext == Listener \/ Answers \/ Tick \/ TimePasses

FlightSpec == FlightInit /\ [][FlightNext]_flightVars

(* Awaits end, the pause after a failed request is over some time, the timer of an *)
(* open playback is always armed again, and the audio element plays what it has.   *)
FairFlight == /\ FlightSpec /\ WF_flightVars(Answers) /\ WF_flightVars(RetryDue)
              /\ WF_flightVars(Tick) /\ WF_flightVars(TimePasses)

-----------------------------------------------------------------------------
(* Properties                                                               *)

\* The place on the session's clock: after a close, the one that is remembered.
Place == IF playback.on THEN Position ELSE saved.pos
Recorded(s) == UNION {Timeline[s][i].from .. (Timeline[s][i].to - 1) : i \in DOMAIN Timeline[s]}
FileStarts(s, t) == {Timeline[s][i].from : i \in {j \in DOMAIN Timeline[s] : Timeline[s][j].to = t}}

Promise == INSTANCE FlightListening WITH
  Stations <- Tracks,
  Material <- [s \in Tracks |-> Recorded(s)],
  Over <- [s \in Tracks |-> [t \in Times |->
            (IF t = Duration THEN {0} ELSE {}) \cup FileStarts(s, t)]],
  listening <- playback.on,
  station <- IF playback.on THEN playback.station ELSE saved.station,
  paused <- playback.paused,
  pos <- Place,
  sounding <- Sounding
\* "One clock advances only during session playback. Switching station keeps T; pause
\* freezes T globally" (docs/SUBWEAZL_API_V1.md:301-302), and "the player reads the actual
\* audio clock, which stops during buffering" (docs/WEB_MEDIA_BUFFER.md:16): through all
\* awaits of the buffer the playback implements FlightListening.
Listening == Promise!Spec

\* Recorded audio is silent while its playback is paused, opening or closed, whatever
\* await was under way when the listener paused, sought, switched or left.
SilentWhenPaused ==
  Sounding => playback.on /\ ~playback.paused /\ (playback.loading => task.kind = "leave")

\* "bounded buffering" (docs/WEB_MEDIA_BUFFER.md:54): what is cached reaches no further
\* than the window, and what was played is given up, but for the whole segments at either
\* end; the media source cuts the first of them, some time later.
Lengths(s) == {Timeline[s][i].to - Timeline[s][i].from : i \in DOMAIN Timeline[s]}
Longest == Max({0} \cup UNION {Lengths(s) : s \in Tracks})
BoundedBuffer ==
  Cardinality({t \in Times : Buffered(buffer, t)})
    <= Behind + Max(Windows) + Longest + (IF continuous THEN Slack ELSE Longest)

\* An unpaused recording goes on: it comes to its end, is paused by a failure or by its
\* listener, or is closed; no gap, missing segment or late answer leaves it standing.
PlaysOn == playback.on /\ ~playback.paused ~> ~playback.on \/ playback.paused

\* "Real capture gaps keep their original timeline and resume at the next segment"
\* (tests/recorder-buffer.cjs:44): no recorded segment lies between the place where a gap
\* is left and the segment that is played next.
NothingSkipped ==
  [][playback.gap /\ ~playback'.gap /\ playback.on /\ commands' = commands =>
       \A i \in Segments : ~(To(i) > playback.offset /\ To(i) <= playback'.offset)]_flightVars
=============================================================================

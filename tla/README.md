# A verification project for Weazltunes

This directory keeps TLA+ models of the parts of Weazltunes in which concurrency,
failure, ordering and restarts decide whether the program is right.  On the server these
are the recorder, the remote playback protocol, the cache of pocket devices, the writes to
the music library and the live radio feeds; in the browser the player of recordings, the
choice between local and remote output, and the session with its pages and its saving.
TLC checks the models on small instances; TLAPS proves many of their properties for every
value of the constants.  Line numbers refer to the files of this commit.

## 1. Inventory

The server is one Go process.  Its durable state is a SQLite database used as a
key-value table (`v1_store.go`) and files below one data directory; a JSON file
keeps web accounts.  One mutex, `apiV1.mu`, serialises nearly all of the native
API's state; background work (a one-second scheduler tick, one goroutine per
recording, one per encode, one per Mood, one per radio feed) takes it for short
sections and works outside it in between.

The browser client is a page of ES modules on one event loop.  Nothing there runs in
parallel, but every `await` lets timers, media events, other clicks, a sign-out and the
answers of other requests come in between; what a function looked at before an `await` may
be stale after it.

| Component | State | Operations | Interaction | What is hard | Correct means |
|---|---|---|---|---|---|
| Recorder: schedules and jobs (`recorder_api`, `_scheduler`, `_quota`, `_time`, `_types`) | schedule and job records, `active`, `packaging` | POST/PATCH/DELETE of schedules and sessions, stop, tick, `runJob` | records under `mu`; workers observe `Stop` through a context | handlers between the sections of a worker; restart between firing and advancing; failed puts | an occurrence is recorded once; limits hold; states tell the truth; every job ends |
| Recorder: capture and publication (`_capture`, `_publish`, `_compact*`, `_finalize`, `_read`) | segments, manifests, unlink journal, files, staging directory | capture attempt, recovery, packing, finalisation, cleanup, deletion | files first, then SQLite | a crash between a rename and a commit | what is listed is on disk, once, and never changes |
| Remote playback (`remote_*`, `web/remote.js`, `scripts/remote-receiver.py`) | players, generations, commands; the receiver's state file | register, connect, submit, SSE stream, report, ack, expire | HTTP and SSE between controller, server and receiver | lost, late and repeated messages; reconnects; restarts | a command runs at most once and its result is true |
| WeazlPod preparations (`weazlpod_*`) | jobs, in-flight keys, representations, leases, readers | prepare, encode, publish, poll, lease, read, evict | an encode worker publishes files and pins | eviction and expiry racing readers and publication | a lease is playable; the budget holds |
| Native API sessions (`v1_auth`, `v1_media`) | access, refresh and media credentials | login, refresh with replay, revoke, lease | records under `mu` | a refresh whose answer is lost | one live refresh token per session |
| Idempotent mutations (`v1_http`, `v1_mutations`, `playlists`) | markers, scrobble records, favourites | favourite, scrobble, playlist | the upstream library, outside any transaction | crash between the effect and its marker | no write happens twice under one key |
| Mood jobs (`v1_mood`, `mood`, `mood_library`) | job records, per-library busy marks | start, poll, cancel, recover | a model service and the library | cancel racing publication; restart | one outcome, one playlist |
| Radio relay and feeds (`radio*`, `icy`, `weazlpod_live`) | feeds, subscribers, live workers | play, metadata subscribe, reconnect | goroutines and channels | shared upstreams and late subscribers | limits; an ended feed ends for all |
| Stations (`v1_stations`) | versioned records | CRUD with entity tags | the recorder reads names | lost updates | a stale tag never wins |
| Web accounts and settings (`accounts`, `auth`, `store`, `migration`, `state_validation`, `password`) | one JSON file | login, account and settings changes | browser sessions | failed saves | memory agrees with the file |
| Web recording playback (`web/flight-playback.js`, `flight-buffer.js`) | the playback, its version, the buffer, the audio element | open, select a station, seek, pause, tick, fill, evict | manifest and segments by HTTP; media source or one file at a time | a pause, seek or switch during any await; segments that fail; gaps | one clock that only time and the listener move; sound only of what is there |
| Web output control (`web/remote.js`, `player.js`) | where the page plays, a transfer under way or unconfirmed, a captured queue | transfer, return, controls, queue changes, snapshots | commands to the server, the event feed, recordings and Mood | late and lost confirmations; sign-out during a transfer | one output; a newer choice wins |
| Web session, pages and saving (`web/auth.js`, `api.js`, `navigation.js`, `quick-actions.js`, `app.js`, `flight-recorder.js`, `mood.js`) | the account, the view, pending actions, the chain of saves | sign in and out, change the connection, navigate, act, save | the browser API | answers of the page, action or session before | what is shown and saved belongs to who is signed in |
| Library, language model, downloads, planning | none or configuration | queries, archives, streams | upstream services | I/O | (not modelled) |

`PROJECT.json` lists these with their source files, and lists the hazards: what can
go wrong, at its line, with the properties that would catch it, or the reason why none does.

## 2. Modules

| Module | Models | Checked by | Proved in |
|---|---|---|---|
| `RecorderJobs` | schedules, sessions, jobs, admission, tick, workers | `MCRecorderJobs` | `RecorderJobs_proofs` |
| `RecorderAssets` | one session's pieces, files, packing, publication, deletion | `MCRecorderAssets` | `Recordings_proofs` |
| `RemotePlayback` | controller, server and receiver of one player | `MCRemotePlayback` | `RemotePlayback_proofs` |
| `WeazlPodCache` | preparations, workers, shared encodes, budget, eviction, leases, readers | `MCWeazlPodCache` | `WeazlPodCache_proofs` |
| `LibraryWrites` | idempotency records, scrobbles, other upstream writes, Mood runs | `MCLibraryWrites` | `LibraryWrites_proofs` |
| `RadioFeed` | relays, metadata feeds and their listeners, live encoder slots | `MCRadioFeed` | `RadioFeed_proofs` |
| `FlightListening` | what the player of recordings promises its listener (abstract) | through `FlightPlayback` | its refinement in `Recordings_proofs` |
| `FlightPlayback` | the browser's player of recordings and its buffer; implements `FlightListening` | `MCFlightPlayback` | `Recordings_proofs` |
| `WebOutput` | the browser's side of remote playback, with recordings and Mood | `MCWebOutput` | `WebOutput_proofs` |
| `WebSession` | the page over sign-ins and sign-outs: what it shows, what waits, what it saves | `MCWebSession` | `WebSession_proofs` |

On the server each module stands for itself: the components meet in the program only through
`apiV1.mu` and the database, and no component reads another's records while they
change, apart from the disk reserve that the recorder and the cache share (a free
choice in `WeazlPodCache`).  `WebOutput` is the composition in the browser: local audio,
recordings, Mood and the receiver meet in it, each reduced to what the others see of it.

The `MC` modules extend a module and define values for its constants; a `.cfg` file
picks values, a specification and properties.  Definitions whose comment says
"Mutant of" change another definition the way a slip in the code would; no
specification uses them.  Each property that a run checks is known to fail under one of
them.

Conventions shared by the modules:

* A handler that runs under `a.mu` is one action.  Where code unlocks and locks again,
  or starts a goroutine, the pieces are separate actions and everything else may
  happen in between.
* In the browser a function is one action from its start, or from the end of an `await`, to
  the next `await`.
* `Fault` (bounded by `MaxFaults`) is a failed database write, rename, unlink or
  encode, or a crash; what was done before it stays done, what follows is not done.
* `Restart` keeps durable records and files and resets memory to what the start-up
  code rebuilds.
* A variable that only a property reads (`leftover`, `far`, `ran`, ...) says so
  where it is declared.
* `Fault` covers writes and calls.  Reads of the database are taken to succeed, except
  for the list of the jobs that an edit cancels, whose failure leaves them scheduled
  (`recorder_scheduler.go:40-43`).  A tick that cannot read does nothing and the next one
  tries again, and so it does with the mark of a missed job (`recorder_scheduler.go:81`, `:94`).
* Every instance is bounded in time, requests and faults, so the models stop when the
  bounds are used up; for that reason the configurations switch the deadlock check
  off, except for `RadioFeed`, whose requests come again and again and where it stays on.
  That nothing waits for ever inside the bounds is what the liveness properties say.

### RecorderJobs

Time is a small integer; `Rule` stands for `scheduleInput`: a one-off window or a
daily recurrence, whose starts `WindowStarts` lists (what `scheduleWindow` yields
once a local time is resolved).  A job id is `<<schedule, start>>` or
`<<"session", n>>`, the identity `advanceSchedules` gives an occurrence.  `worker[j]` is
the program counter of `runJob`; `ctxDone` the cancelled contexts; `packaging` the set
`a.packaging`; `pending` the part of `SaveSchedule` that follows its commit
(`cancelOtherUpcoming`, which releases nothing but writes job by job).  That part drops a put
that fails and gives up when it cannot list the jobs, and the handler answers success all the same.

`Tick` is the whole of `tick`: advance the schedules, miss what is over, launch by
start order while streams remain, and expire by retention.  `CreateSession`,
`SaveSchedule`, `DeleteSchedule`, `Stop`, `DeleteSession` are the handlers of
`recorder_api.go`; `Begin`, `CaptureEnd`, `EnterFinalizing`, `Finalize`, `Exit` the
sections of `runJob`.

A sum over a set, such as the stations of several jobs, is the number of pairs of a member
and one of its units (`Total`), since the prover knows cardinalities and cannot use a fold.
`leftover` names the jobs that an edit should have cancelled and left scheduled, by a crash or
by a list or put that failed; `far` the schedules whose one-off window lay past `Horizon` when
they were saved.  Three properties leave out the former and one the latter (section 5).
`Horizon` is the year and a day, or 400 steps, after which `recurringWindows` stops.

### RecorderAssets

A piece is `<<station, slot, attempt>>`: one ten-second file of one capture attempt.
Its life is produced (in staging), probed, admitted (renamed under the overlap and
quota checks), recorded (the SQLite transaction).  An asset is the set of pieces its
file holds, so a packed chunk is a set with several members.  `files` is the disk,
`assets`, `job`, `manifest`, `garbage` are the tables.  `Compact`, `Finalize`,
`RemoveStaging`, `Cleanup`, `Delete`, `Unlink` follow the functions of the same names.

### RemotePlayback

`player` and `cmds` are the server's memory, `records` its database, `stream` and `sent`
the event stream and the snapshots it wrote, `receiver` and `disk` the receiver's memory
and state file, `wire` the reports and acknowledgements under way (lost, reordered
and delivered more than once), `view` what the controller last saw.  Generations are
the `connection_id`s of `connect`.  The receiver is `scripts/remote-receiver.py`, the
reference client the repository ships.

A receiver numbers its states, but not all of them.  When it turns to another track or to the held
library by itself and cannot fetch it, `consume()` raises and the revision stays as it was
(`LocalRevision`).  `drift` counts these changes since the last revision.  The server refuses a
report that tells of one (`remote_http.go:179-182`), so a controller does not learn of it.

### WeazlPodCache

An action is a section of `podPrepare`, `podWork`, `podBuild`, `podPublish`, `podLease`,
`podAsset` or the preparation handlers that holds `p.mu`.  `worker[j]` is where the worker
of a preparation is: fetching, waiting for the channel of another's encode, encoding,
having renamed the file, having recorded it.  `running * Reservation` is `p.reserved`.
Candidates for eviction leave in any order (the code sorts them by last access, which no
property tells apart), and the disk reserve shared with the recorder may refuse at any
time.  `lease[r]` keeps only the longest lease of a representation, since a shorter one
asks for less.  `Init` starts with any representations of an earlier life that fit, and
there are finitely many of them.  The bytes of a set of representations are a `Total`, as in
`RecorderJobs`.
A pin that cannot be saved makes the code encode a representation again and remove the
file under its leases; the variable `replaced` names those and `LeasePlayable` leaves them
out, which is a gap of the code and not of the model (see the hazard at
`weazlpod_store.go:152`).

### LibraryWrites

`apiV1.mu` is held from the look at the idempotency record to the answer, upstream calls
included, so `mu` names the request that holds it, and its steps (`Begin`, the handler's
steps, `Settle`) interleave only with Mood runs, restarts and arrivals.  The marker of
a key is written before the effect (`Begin`) and its result after it (`Settle`).
A scrobble is recorded, sent, and confirmed in three steps.  All other upstream writes
are one kind, `Write`.  A Mood job is named after the request that made it.  Its ten
minutes, a curator that fails and a browser that leaves all make the next step of a run
fail, so any step may fail.  `Asks` restricts what a request may ask for, in order to
keep the instance small.  `lost` names the Mood records whose last save failed: `emit` drops
the error, and `NoOrphan` leaves them out.

### RadioFeed

A hub belongs to a browser session or a native device, a feed to a playback id of a
hub.  `acquire` and its `release` are one action each, as they hold the hub's mutex.
`publish` holds the feed's mutex but its listeners read their channels without it, so it
is one step per channel operation: `Drain` and `Send` for each listener, with `todo` the
listeners still to tell; `begin` and `subscribe` wait while a publish is under way
(`Locked`).  The deferred calls of a relay are single steps in their order.  A relay is
either one of bytes or, once it has claimed a slot, one with an encoder.  The station is
free to answer or not, to play titles and to stop.

### FlightListening and FlightPlayback

`FlightListening` is the promise: a listener has one clock; only a command or the passing
of time moves it; a recorded unit of time passes only while it is heard and a gap passes
by itself; a switch of the station keeps the place and a pause freezes it.
`FlightPlayback` is the code.  `task` is the await that `open()`, `leaveGapOrAdvance()` or
`seekFlight()` is in; a new `Select` replaces it, as the version does in the code.  `Tick` is
the whole 250 ms tick: the end of a gap, the handoff to the next file, or else the beginning
of a gap, the end of the session and the refill.  `buffer.have` holds the segments that are
cached and `cut` the point before which the media source has removed everything; `Pump`
evicts and then asks for the next segment, and `fill` is the decision to do so.  `continuous`
chooses between the media source and the compatibility path of one file at a time, in which
an ended file starts over on `play()` (`Over` in the refinement).  A unit of time is far
longer than a tick.  `Late` bounds how far the clock of a gap runs past the start of the
next segment before the tick sees it: 0 in `flight`, where ticks are in time, 1 in
`flight_gap`.

`BoundedBuffer` allows what is behind, the widest window, one whole segment at the far end, and
at the near end what the media source keeps until it removes (`Slack`) or, one file at a time,
a second whole segment.  `Opened` fills at the playback's offset and not at the start of its
first segment, as `open()` does.  Actions and constants carry the word `Flight` or names of
their own (`Tracks`, `Timeline`), so that the proofs about a recording's capture and about its
player can share the module `Recordings_proofs`.

The refinement maps `listening` to an open playback, the place to `Position` (the code's
`position()`) or, when closed, to what `localStorage` keeps, and `sounding` to an element that
plays and has data.  It takes every step of the buffer, the awaits and the tick to a stutter,
a `GiveUp` or an `Advance`.

### WebOutput

`op` is what `busy` stands for (a transfer, a return or a control, and the request it waits for),
`late` is `pendingTransfer`, `edit` the captured change of the queue that waits 200 ms, `feed` the
user that the 500 ms interval has seen.  `Newer` is the move of `state.transferVersion`.  The
server and the receiver are free to apply, reject, give up or apply late; the server takes one
command at a time for the revision seen.  `receiver` is what the receiver is at and `told` what
the server knows of it, which a report or an acknowledgement brings up to date; `drift` is that of
`RemotePlayback`.  Unlike there, the server stays up, so that no revision is used twice, and the
receiver keeps its connection.  `ResumeEnds` is what a return does after the audio has started: it
pauses what the receiver had paused, whatever was chosen meanwhile.  `chosen` is history: whether
something was chosen here since a transfer began.  A queue is a set, since only what it holds
matters here.  One account, one receiver and one controller; positions, volume, the rate limit of
the sliders and the media keys are left out.

### WebSession

`account` says whether there is a user, whether the app is shown, by which sign-in and for which
identity (an account with its library, which a change of the connection replaces).  `session`
lists the sessions that the server has started with their identities, and `cookie` is the one that
the page's requests reach.  A request carries the cookie of the moment it was sent (`by`) and
is answered for that session, also after the page has another; the server looks once whether
the session has ended (`auth.go:99-121`).  A change of the connection starts a session and ends
all others of the account (`connection.go:67`).

`loads` are the accounts being loaded: the user is set first, the saved queue is read
(`LoadReads`), and the rest of `loadAccount()` (`Loaded`) does not look whether there still is a
user, so it may follow a sign-out and show the app without one.  `leave` is how far a sign-out or
a change of the connection has come: waiting for its save, for the server, for the answer.
`Connected` redraws nothing; `view.old` says that what is shown was drawn before it.  `fetches`
and `lists` are the navigations and recorder lists under way, `quick` and `loose` the actions that
wait, aborted at sign-out or not.  `chain` is `saveChain`: each member is captured when it is
queued, `fresh` says that no `cancelSave()` has dropped it, `sent` that its request is under way.
A write that fails was done, was not, or is done later (`afloat`).  `Refused` stands for any answer
401, also one to an earlier session's request.  `excused` is history and names what `SavesOwn`,
`SavedInOrder` and `ChangesSaved` except (section 5).

The page starts signed out, as one that found no session; the answer to the login form and the
session it starts are one step.  An event of Mood is taken to be read before the answer that
ended its session (`mood.go:49-51`).  The arrays beside the page, such as `state.playlists`,
are left out.  A write may wait longer in the model than in the browser.

## 3. Runs

All runs finish within four minutes on two workers.  A "violation" run states what a
document or a test promises and shows, by a counterexample, that the code does otherwise; the
corresponding entry under "findings" quotes both.

| Run | Instance | Shows |
|---|---|---|
| `jobs_series` | two schedules, a one-off and a two-day recurrence, a horizon of 2, 3 requests, 1 fault, time 0..4 | `HonestOutcome`, `StreamsWithinLimit`, `UpcomingDemandFits`, `NeverFiredTwice` |
| `jobs_live` | a schedule and a session, one stream, 1 fault, fair | `EveryJobEnds` |
| `assets_timeline` | one station, 4 slots, 2 attempts, room for 3 pieces, chunks of 2, 2 faults, fair | `SegmentsPlayable`, `TimelineOnce`, `GarbageDrains` |
| `remote` | two commands, one of them confirmed by any state but an error, one message under way, two generations, and two of: a crash, a restart, a failed write or fetch; fair | `TypeOK`, `HonestResult`, `OneByOne`, `AimedAt`, `PollEnds` |
| `pod_cache` | two keys of which one may change, two preparations and workers, budget for two reservations, 1 fault, time 0..3, fair | `TypeOK`, `LeasePlayable`, `BudgetKept`, `EncodeOnce`, `EveryPreparationEnds` |
| `writes` | two requests, two keys, Mood of two tracks, 1 fault, 1 restart, 1 revocation, expiry, fair | `ScrobbledOnce`, `AcceptedTruly`, `NoOrphan`, `EverythingEnds` |
| `radio` | two relays, two listeners, three playback ids of two hubs, room for one feed a hub, one listener a feed, one encoder; deadlock checked, fair | `NewestReaches`, `AllGivenBack`, `OwnerFreed` |
| `flight` | two stations, five segments with a gap and one segment, both modes, two windows, 4 commands, 1 failure, fair | `FlightTypeOK`, `SilentWhenPaused`, `BoundedBuffer`, `Listening` (the refinement), `PlaysOn` |
| `flight_gap` | one station, a gap before the second of three segments, 5 commands, a late tick | violation of `NothingSkipped` |
| `output` | one item, two commands, three revisions, 3 acts, 1 failure, fair | `OneOutput`, `SessionOwnsOutput`, `NewerSelectionKept`, `SeenQueueReplaced`, `RecognisedReconciled` |
| `output_apart` | one item, one command, 3 acts | violation of `LocalOutputOnly` |
| `session` | two identities, three sessions, 2 acts, 2 changes of the queue, 1 fault, fair | `ShownIsCurrent`, `QuickActionsEnd`, `SavesOwn`, `SavedInOrder`, `ChangesSaved` |

Why the bounds are enough.  Two occurrences of a recurrence are what an edit, an
advance and a restart can confuse; three requests are a create, an edit and a
delete.  Four slots and chunks of two give a full chunk, a chunk cut by a gap and a
tail; the second attempt overlaps the first.  Two generations are an old and a current
connection; two commands are a pending one and its rival.  Two preparations are a leader
and a follower of one encode, two requests a first try and its retry, two relays and
two listeners a holder and the one that comes too early or too late; the limits of one
bite for the second.  Four commands of the listener are, for one, a pause, a seek and a
switch during the opening that the first began; two windows differ in whether the next
segment is wanted.  Two remote commands are a transfer and what is chosen after it; three
sessions and two changes are an old session with a write under way, a new one in which it is
answered, and a change of the connection beside them.  A horizon of two, with time 0..4, ends
before the last window.  One fault reaches every single point of failure and two a
failure of the recovery from one.  What needs more of anything is left to the theorems.

Some definitions of properties are in no run: what the code breaks (section 5), what a theorem
says of every instance (`RetryInsertable`, `NothingLost`, `ManifestImmutable`, `ReservationKept`,
`ActiveHasOccurrence`, `MoodHonest`, `OutcomeFinal`, `OneMood`, `OneOwner`), and what holds on the
run's own instance and is implied or covered by its neighbours (`ReadyLeasable`, `WrittenOnce`,
`SuccessRepeats`).

## 4. Fairness

* `RecorderJobs!FairSpec`: the clock advances, the ticker fires, goroutines run and a
  handler that holds the mutex finishes.  Sections that wait for `a.mu` are strongly
  fair since Go's `sync.Mutex` hands itself to a waiter it has starved.
* `RecorderAssets!FairSpec`: the ticker calls the cleanup again and again (strongly fair,
  as it needs the mutex); a section under way finishes.
* `RemotePlayback!FairSpec`: only `Expire` is fair, since the controller polls and each of
  its requests runs `remoteCleanup`.  Nothing is assumed of the receiver.
* `WeazlPodCache!FairSpec`: each worker's steps are weakly fair, since a fetch or an encode
  ends by its context if by nothing else.  Clients, readers and the clock owe nothing.
* `LibraryWrites!FairSpec`: the work of requests and Mood runs as a whole is weakly fair:
  every upstream call has a timeout, so something is done as long as something can be.
* `RadioFeed!FairSpec`: only the deferred calls of a relay and the channel operations of a
  publish are fair.  A listener may read nothing for ever, and the property that a relay
  lets its id go (`OwnerFreed`) holds all the same.

* `FlightPlayback!FairFlight`: awaits end (`Answers`), the three seconds after a failed request
  pass, the timer of an open playback is armed again by each tick, and time passes for an
  element that has data.  The listener owes nothing.
* `WebOutput!FairSpec`: a request is answered or fails, the event feed delivers, the 500 ms
  interval runs, and a receiver that is connected reports every two seconds (`Report`).  It
  need not carry out anything.
* `WebSession!FairSpec`: a timer that is set fires, the chain sends its first write, and the
  server writes or refuses it.

## 5. Divergences

Two disagreements between the code and its documents or tests have a run: `flight_gap` and
`output_apart` (see "findings").  The following have none: a property kept beside its
model, or an exception that a checked property makes.  TLC violates each of these properties, or
the checked one without its exception, on the instance given, and the hazards refer to them.

* `RecorderJobs!AdmittedDemandFits`.  Admission counts jobs by state and schedule
  (`recorder_quota.go:137`); two sessions posted before one tick are both admitted. Instance:
  `Schedules = {}`, `Sessions = {1, 2}`, `Rules <- ShortRules`, `Counts = {1}`, `MaxStreams = 1`,
  `Day = 3`, `Horizon = 3`, `MaxTime = 2`, no fault, two requests, `Retention = 0`.
* `RecorderJobs!CancelledRecordsNothing`.  A deletion between the tick that launches a worker and
  the worker's first section is overwritten (`recorder_scheduler.go:190`).  Instance: `Schedules =
  {1}`, `Sessions = {}`, `Rules <- OnceRules`, `MaxTime = 4`, the rest as above.
* `RecorderJobs!StreamsWithinLimit`, `UpcomingDemandFits` and `NeverFiredTwice` without the
  exception of `leftover`.  An edit writes the schedule and then cancels its jobs one by one.  A
  crash between the two, a list that fails or a put that fails leaves jobs of the old rule
  scheduled, and in the last two cases the client is told of success
  (`recorder_scheduler.go:38-53`).  Such a job is recorded; the next tick may put the record of
  the edited schedule's occurrence over it while it is captured, and from then on counts its
  streams by the new record (`recorder_scheduler.go:80-103`).  Instances: that of `jobs_series` for
  `UpcomingDemandFits`; rules `Daily(1, 1, 3)` and `Once(3, 1)` with two faults, `Day = 2`,
  `Horizon = 2` and `MaxTime = 4` for the others, with one schedule and two requests for
  `NeverFiredTwice`, and with two schedules, three requests, `Counts = {1, 2}` and
  `MaxStreams = 2` for `StreamsWithinLimit`.
* `RecorderJobs!UpcomingDemandFits` without the exception of `far`.  A one-off window past the
  horizon is compared with no occurrence of a recurrence there, and is admitted beside a daily
  series that fills the limit (`recorder_quota.go:98-100`); docs/API_REFERENCE.md:537-538 says "At
  most six simultaneous station streams globally; overlapping demand returns 409".
  Instance: that of `jobs_series`.
* `RecorderAssets!DeletedFilesGone`.  A crash between the tombstone and the unlinks leaves the
  files of a deleted recording for good (`recorder_finalize.go:85`).  Instance: one station, three
  slots, one attempt, one fault.
* `RemotePlayback!StaleRefused`.  After a restart of the server revision numbers are used again
  and an old `If-Match` matches (`remote_types.go:113`), so `AimedAt` is stated for a server that
  stays up.  Instance: one command, `MaxRev = 4`, `MaxGen = 2`, one restart, no fault.
  `ResultsStick` fails too, when the write of a result fails and the server restarts: one command,
  `MaxRev = 3`, two reports, a fault and a restart.
* `RemotePlayback!AimedAt` without `drift`.  A receiver that turned to another track and cannot
  fetch it keeps its revision (`remote-receiver.py:130-142`), although the server refuses reports
  for it with "Discrete changes require a new receiver revision." (`remote_http.go:179-180`), and
  a command for the state before it still runs.  `SeenQueueReplaced` excepts the same.
  Instance: that of `remote`.
* `WebOutput!LateReconciled`.  docs/REMOTE_PLAYBACK_V1.md:119 says that an unconfirmed transfer
  "must reconcile".  One whose POST was accepted and whose answer was lost has no `commandId`
  (`remote.js:52`), the event feed looks for none (`remote.js:104`), and the receiver plays beside
  the browser's own audio.  Instance: one item, `MaxIds = 1`, `MaxRev = 1`, `MaxActs = 1`,
  `MaxFailures = 1`.  The run `output` checks the other half, `RecognisedReconciled`.
* A return to the browser looks at nothing after its awaits: it pauses what was chosen while the
  audio started, and plays in a page that has been signed out (`remote.js:84-87`; `Resumed` and
  `ResumeEnds` have no guard).  No document says what it should do.
* `WebSession!SavedApart`.  While the library of a new connection is loaded, and for good when
  that fails, the page is in use with the queue of the library before, and saves it under the new
  identity (`auth.js:41-45`).  `SavedInOrder` and `ChangesSaved` leave out the queues that get to
  another identity in this way.  Instance: that of `session`.
* `WebSession!ShownIsCurrent` without `view.old`.  In the same time the page still shows what was
  drawn from the library before: nothing is redrawn until the account has been loaded
  (`auth.js:27`).  Instance: that of `session`.
* `WebSession!SearchKept`.  The recorder's list looks at the view and not at the query
  (`flight-recorder.js:21`) and is drawn over the results of a search.  Instance: that of
  `session` with three acts.
* `WebSession!SavesOwn` without its exception, in two ways.  A load that fails leaves the user set
  and the login screen shown; a write captured meanwhile may wait behind another when somebody
  else signs in, since nothing calls `cancelSave()` (`auth.js:53`, `api.js:18`).  And what is
  captured after the `cancelSave()` of `auth.js:40`, while the connection is being changed, waits
  behind a slow write and goes out with the cookie of the new session (`connection.go:67`).
  `stranded` names both.  Instances: that of `session` with no fault for the second, and with two
  faults and no change of the connection for the first.
* A load that is under way at a sign-out goes on (`auth.js:14-16`): the login screen is hidden and
  the app is shown without a user, where `flushState()` saves nothing (`api.js:21`).
  `ChangesSaved` excepts a page without a user (`nobody`), and `ShownIsCurrent` speaks of a page
  that has one.  Instance: that of `session`, for the claim that a shown app has a user.
* `SavedInOrder` without its exceptions.  A queue that is loaded while a write of it is under way
  or waits is older than that write, and what is changed from it is put in its place (`replaced`);
  and a write whose answer was lost may be done after a later one (`api.js:24-28`).
  Instance: that of `session`, for each of the two.
* Late names of playlists are taken before the navigation's id is compared (`navigation.js:44`,
  `:52`), so a page may list those of the session before.  Not modelled.
* `WeazlPodCache!LeasePlayable` without its exception.  A pin that cannot be saved counts as a
  miss, and the representation is encoded again under its leases (`weazlpod_store.go:152`).
  Instance: that of `pod_cache`.

## 6. Proofs

The proofs assume the constants' named assumptions, and nothing else.

`RecorderJobs_proofs`.  `IInv` joins to `TypeOK`: a job that is scheduled or missed has not
started (`FreshUnstarted`); a job that started is not before its start (`NotBeforeStart`); a
worker's program counter agrees with the record it works on (`WorkersSeeTheirJob`); no job record
of a schedule lies after the schedule's `next` (`NothingPastNext`); and a handler between its two
commits keeps the schedule's `next` (`HandlerKeepsNext`).  The jobs that an edit failed to cancel
(`leftover`) are outside of the parts that speak of upcoming jobs.  `NothingPastNext` is what
makes `NeverFiredTwice` inductive: when the tick creates the occurrence after `next`, no record
with that identity exists.

`StreamLimit` counts all workers that have not given their slots back (`RelayFits`), capturing or
not: the tick admits the last of those it launches beside all the others, a worker in packaging
captures nothing (`PackagingCapturesNothing`), and every other step keeps the counts and adds no
worker.  `UpcomingFits` is about two sets of windows.  The windows that the active schedules
reserve fit together at every later instant (`ReservedFits`; those of `far` are not counted): a
schedule is saved only when its windows fit beside all others (`SaveReservedFits`), and time only
takes windows away (`ReservedShrinks`).  Admission looks only as far as the horizon; past it there
are only recurrences, and what they do there they did a day before, within it (`HorizonEnough`). A
job that still waits is the next occurrence of its schedule (`UpcomingIsNext`), its start is one
of the rule's (`NextIsStart`), and so its window is one of the reserved; an immediate recording
never waits (`SessionsStarted`).

`Recordings_proofs`, capture.  `IInv` says that what is not published is held in single pieces
(`UnpublishedPlain`), that a published session has no worker (`PublishedAlone`), that
listed assets are files that the journal does not name (`Present`), what a packing
worker owns (`PackingOwns`), and that a renamed piece is on disk (`RenamedPresent`).
`OnceInv` adds to `TimelineOnce` that renamed pieces fit what is listed (`RenamedFits`)
and that groups do not overlap (`GroupsApart`); `QuotaInv` adds to `ReservationKept` that
what is renamed still fits (`RenamedWithin`), because the lock is held from the check to the
transaction, and that packing leaves the captured pieces as they are.  This proof covers
any number of stations recovered side by side, of which the run has one.

`Recordings_proofs`, playback.  `FlightInv` is one invariant for the player with all of its
awaits.  Each segment it speaks of is one of the chosen station's (`Typed`); a closed playback
has no buffer and no await (`Closed`), and a manifest on its way none (`AskedOnce`); an await
still belongs to the place that the playback has (`Awaits`: while it opens, to the first
segment that ends after the place; while it leaves a gap, to the start of the next; while it
seeks, to the segment at the place); a missing segment is waited for at its start (`Missing`); the
audio of a paused playback stands at its place (`AtRest`), which is why a listener who
continues hears what was paused; the element plays recorded sound only for a playback that
goes on (`Quiet`); and a gap lies between segments, with its clock not past the next one
(`Gaps`).  From it follow `FlightTypes` and `SilentHolds`, for every timeline, window and bound.

`ListeningImplemented` is the refinement: every step of the player is a step of
`FlightListening` or a stutter.  Each action has a lemma that says what the listener notices
of it: nothing, or at most that the playback was paused (`Still`), a stay at a new place (`Stays`),
or time that passes (`Onward`); a lemma per action of `FlightListening` takes these to it.
The theorem assumes `Late = 0`: with a late tick the place of a gap goes back to the start
of the next segment, which the code does by a part of the 250 ms of a tick and the model
by a whole unit.  The run `flight_gap` shows what else a late tick may do.

`BufferBounded` bounds the cache, also for `Late = 0`.  `BoundedBuffer` counts what is cached
and says nothing of where, so it is not inductive.  Its invariant `Cached` names a place, the
greatest one from which the buffer has read ahead: nothing it has, is waiting for or has been
told to reach lies further than a window beyond that place (`ReadAhead`), and nothing it has
or would still ask for lies further behind it than the bound (`StoredFrom` for the media source,
which cuts what it has; `FiledFrom` for whole files, one at a time).  The second half is what makes
a return harmless: a seek backwards within the cache, a file that starts over or a
buffer whose target moves back may not make it fetch again what the first bound no longer
covers.  `Cached` was checked as an invariant by TLC, in both modes, before it was proved.
The lemmas go bottom up: what eviction, a turn of `pump()` and `fill()` do to the invariant
(`EvictStored` to `FillCached`), what a move of the place does (`PlaceFiled`), then one
lemma per action (those that end in `Cached`), and last that the places between both ends are
no more than the bound (`SpanBounded`, `HeldSpan`).

`LibraryWrites_proofs`.  `SendInv` holds the types of what a submission goes through; that
only the request which holds the mutex is inside its handler (`Exclusive`); that a
submission has a record, which comes first (`Recording`); what is true of an occurrence
between its record and its confirmation (`Sending`); and that answers and the records of
keys say no more than happened (`Answering`, `Marking`).  From it follow `ScrobbledOnce` and
`AcceptedTruly`.  `MoodInv` relates the progress of each run to its saved record and says
that no run precedes its request; from it follow `MoodHonest` and `OutcomeFinal`.  `Solo`
adds that the library user is claimed exactly while one run is active (`OneMood`).  `Tended`
says that the run behind a record that says running is a native one that has not yet come to
its outcome, or could not save it; from it follows `NoOrphan`.
`OutcomeFinal` and `OneMood` need no run of their own, since the proofs cover every
instance.

`WeazlPodCache_proofs`.  `WorkInv` says that a worker's job is there, names its key and
outlives the worker's deadline (`Serves`: this is why dropping the expired jobs never drops
one that a worker will finish), that an encode under way is in the set that others look at
(`Encoder`), and that it has one worker (`Single`).  `LeaseInv` adds that a representation with
its record has its file, that its pin covers every lease (`Kept`), and that what is being
encoded is not in the cache (`Fresh`), which is why a failed `Store` removes no leased file.
From them follow `EncodeOnce` and `LeasePlayable`, for any number of keys, preparations,
restarts and failed writes.  `BudgetHolds` needs of these that a worker's target is its own
(`Single`) and not yet in the cache (`Fresh`): what a worker stores is then added once, and is no
larger than the reservation it gives up.  `Counted` says that the workers under way are as
many as the code's counter claims.  `CacheTypes` is the type invariant, with the bounds of the
counters.

`RemotePlayback_proofs`.  Whether a command ran cannot be read off the server's state: a
command shown as rejected may have been refused by a report that is older than its delivery.
The invariant therefore says what each message under way has a right to claim.  `Dead` is
the receiver's side: a command of another generation, for a revision that has passed, or
with a result already, never runs, and stays so (`Never`).  An acknowledgement that refuses
(`AckTrue`, `NoteTrue`) and a report that the server would take as a refusal (`ReportTrue`)
both name a dead command that did not run; for a report that holds because at most one command of
a generation is unresolved (`Single`, `Lone`) and, if it ran, it is what the receiver applied
last (`Last`, `RanKnown`).  From them follow `HonestResult` and `OneByOne`, for any number of
commands, connections, crashes, restarts, failed writes and messages that are lost, late or
repeated.  `AimedAt` has an invariant of its own (`AInv`), which holds until the first
restart of the server: what the server, a message, a result and a submitted command say of the
receiver is its state or lies behind it, by a revision or by drift under the same one (`Behind`);
and what a controller saw is what the server has, as long as the ETag matches (`Seen`).

`RadioFeed_proofs`.  Counts are proved as cardinalities: `refs` counts the requests that hold a
feed (`RefsOK`), `live` the relays that run an encoder for an account (`SlotsOK`), and an active
feed has exactly one relay that plays on it (`OwnersOK`).  A new feed always finds a place,
by a pigeonhole argument (`Fresh`): that is why the model needs no more feeds than requests.
Whoever is still to be told of an event listens on the feed that is being published to
(`TellOK`), and any other listener has the latest event in its channel or has sent it
(`NewsOK`).  From them follow `AllGivenBack`, `NewestReaches` and `OneOwner`; the last needs
no run, since the proof covers every instance.

`WebOutput_proofs`.  `OutputInv` relates the mirrored player to the session and the local audio
(`Controls`), a transfer under way to the queue that is kept for it (`Transfers`), an unconfirmed
one to what was chosen since (`Unconfirmed`); a return leaves none behind (`Returns`).  `SeenInv`
says that what the browser, a captured change and a command name by revision and drift is the
receiver's queue at that point, or lies behind it (`Matches`); since no revision is used twice, a
queue is replaced only as it was seen, drift aside. From them follow `OneOutput`,
`SessionOwnsOutput`, `NewerSelectionKept` and `SeenQueueReplaced`.

`WebSession_proofs`.  `SessionInv` says that a page with a user sends its requests to a session of
the user's identity, or to none; `QuickInv` that a pending quick action was chosen since the user
signed in.  `ShownInv` ties what is shown to the view (`Draws`) and, on a page that was drawn
since the connection changed, every answer that is still wanted to the user's identity (`Wanted`).
`SavesInv` says, unless something was stranded, that a write that may still be sent was captured
for the identity that has the page, and that one that was sent reached the identity it was
captured for (`Owned`).  Most steps only end writes (`Ends`: done, lost, cancelled), and one lemma
covers all of these.  `OrderInv` says, unless something was replaced, that the states of an
identity's own queue get newer from what is saved and what is afloat, along the live writes of the
chain, to what the page has (`InOrder`).  From them follow `QuickActionsEnd`, `ShownIsCurrent`,
`SavesOwn` and `SavedInOrder`, for any number of sessions and faults.

## 7. Only model-checked

* Liveness (`EveryJobEnds`, `GarbageDrains`, `PollEnds`, `EveryPreparationEnds`,
  `EverythingEnds`, `OwnerFreed`, `PlaysOn`, `RecognisedReconciled`, `ChangesSaved`) is beyond the
  prover, as are statements about `ENABLED`.

## 8. Not modelled

* Bytes, codecs, wording, HTTP framing, and the argument lists of ffmpeg and MP4Box.
* Local time: `scheduleWindow` resolves wall clocks and daylight saving; the models take
  its results as given.
* Entity tags of playlists and stations, and what Mood puts into a playlist.
* Parsing of ICY metadata and of playlists, probes with a range of two bytes, and the pipe
  of the live encoder.
* Storage accounting at admission and the storage credit of PATCH (`recorder_quota.go`).
* A closed media-source buffer that was waiting for its parser to be imported
  (`flight-buffer.js:58`) runs on to `activate()` and sets the time of the audio element that a
  newer playback may be using; `FlightPlayback` drops what a closed buffer does.
* In the browser: forms that post one request, drawing, presets, favourites, bulk deletion, the
  rate limit of the sliders, media keys, and the metadata stream of a live station.
* The durable store is the `Fault` of every module that writes: a put or a transaction that
  happens or does not.
* Native sessions and refresh rotation, stations and the settings file, receiver enrollment,
  downloads and media leases change state and are not modelled; they come first in section 9.
* The other components with status `not_modelled` in `PROJECT.json` keep no state of their own
  or are pure input and output, as their notes say.

## 9. Plan

Done: the modules of section 2 and their proofs.  What would come next, in this order:

1. `NativeSessions` (`v1_auth`, `v1_media`): login, refresh with its replay of a lost
   answer, revocation of a device while a refresh or a login is under way, media leases.
   Abstract specification: a device has at most one live refresh credential, and a
   revoked device has none.
2. Playlist edits in `LibraryWrites`: entity tags, and `moodBusy` asked before the
   playlist is replaced.
3. `Stations` and the settings kept by `putState`: versioned records with entity tags.
   Abstract specification: a register with compare-and-set, which the handlers implement.
4. `RecorderQuota`: storage at admission, and the credit that PATCH gives back.
5. An abstract specification of a recording (it is asked for, captured, published once,
   deleted) that `RecorderJobs` and `RecorderAssets` refine.
6. Receiver enrollment; the resolution of local times over a change of daylight saving as
   operators checked against a definition.

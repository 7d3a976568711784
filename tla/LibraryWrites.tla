--------------------------- MODULE LibraryWrites ---------------------------
(* Writes of native clients to the music library of one account: the       *)
(* idempotency keys in front of every mutation (v1_http.go), scrobbles and *)
(* other upstream writes (v1_mutations.go), and Mood, which builds a       *)
(* playlist in the background (v1_mood.go, mood.go).  A mutation holds     *)
(* apiV1.mu from its first look at its key to its answer, the calls        *)
(* upstream included; a Mood run takes it only to save an event.           *)
EXTENDS Integers, FiniteSets, FiniteSetsExt

CONSTANTS
  Requests,     \* the requests, 1 .. n: a retry is another request with the same key
  Keys,         \* idempotency keys
  Bodies,       \* what clients ask for: [op, on, what]
  Asks,         \* [Requests -> SUBSET (Keys \X Bodies)]: what a request may be
  Occurrences,  \* scrobble occurrences
  Devices,
  Size,         \* moodSize: the tracks of a full Mood playlist
  Keep,         \* 30 days: the life of an idempotency record
  MaxTime,      \* bound of the clock
  MaxFaults,    \* bound on failed saves and failed calls upstream
  MaxRestarts   \* bound on restarts of the server

Ops   == {"scrobble", "write", "mood", "stop"}
Paths == [op : Ops, on : Requests \cup {0}]

ASSUME WritesAssumption ==
  /\ Requests \subseteq Nat \ {0} /\ Bodies \subseteq [op : Ops, on : Nat, what : Nat]
  /\ Asks \in [Requests -> SUBSET (Keys \X Bodies)]
  /\ \A b \in Bodies : /\ b.op = "scrobble" => b.on \in Occurrences
                       /\ b.op = "stop" => b.on \in Requests
  /\ Occurrences \subseteq Nat
  /\ {Keep, MaxTime, MaxFaults, MaxRestarts} \subseteq Nat /\ Size \in Nat \ {0}

VARIABLES
  now,        \* the clock, coarse enough for Keep
  mark,       \* the "mutation" records, by path and key
  scrobbled,  \* the "scrobble" records, by occurrence
  record,     \* the "mood" records; the job of a request is named after it
  revoked,    \* the revoked devices
  mu,         \* the request that holds apiV1.mu across its calls, or 0
  request,    \* the progress of a request and its answer
  moodJobs,   \* whether Server.moodJobs has the library user
  run,        \* the Mood runs in memory, native and browser
  plays,      \* upstream: submissions of an occurrence
  writes,     \* upstream: effects of the writes sent under a key
  sentAt,     \* for properties: when the last effect under a key was begun
  lost,       \* for properties: Mood records whose last state could not be saved
  faults, restarts
durable  == <<mark, scrobbled, record, revoked>>
upstream == <<plays, writes, sentAt>>
vars == <<now, durable, mu, request, moodJobs, run, upstream, lost, faults, restarts>>

NoMark   == [hash |-> <<>>, answer |-> "none", expires |-> 0]
NoPlay   == [hash |-> 0, status |-> "none"]
NoJob    == [state |-> "none", device |-> "none", told |-> 0]
NoRun    == [pc |-> "none", kind |-> "none", cancelled |-> FALSE, count |-> 0, saved |-> 0]
NoBody   == [op |-> "none", on |-> 0, what |-> 0]
NoRequest == [pc |-> "idle", device |-> "none", key |-> "none", body |-> NoBody,
              begun |-> 0, answer |-> "none", at |-> 0]
Answers  == {"ok", "refused", "unknown", "full"}
Inside   == {"calling", "sending", "sent", "settling"}

Init ==
  /\ now = 0
  /\ mark = [p \in Paths \X Keys |-> NoMark]
  /\ scrobbled = [o \in Occurrences |-> NoPlay]
  /\ record = [r \in Requests |-> NoJob] /\ revoked = {}
  /\ mu = 0 /\ request = [r \in Requests |-> NoRequest]
  /\ moodJobs = FALSE /\ run = [r \in Requests |-> NoRun]
  /\ plays = [o \in Occurrences |-> 0]
  /\ writes = [k \in Keys |-> 0] /\ sentAt = [k \in Keys |-> 0]
  /\ lost = {} /\ faults = 0 /\ restarts = 0

\* A save or a call upstream fails.
Fault == faults < MaxFaults /\ faults' = faults + 1

----------------------------------------------------------------------------
\* The digests of mutation: the path and the key name the record, the body is hashed.
Id(r) == <<[op |-> request[r].body.op,
            on |-> IF request[r].body.op = "stop" THEN request[r].body.on ELSE 0],
           request[r].key>>
Hash(r) == <<request[r].body.on, request[r].body.what>>

\* Mutant of Known: an ambiguous record is tried again
KnownResult(m) == m # NoMark /\ m.answer # "unknown" /\ now < m.expires
\* Mutant of Result: the result is saved without its status
ResultMarker(r) == [hash |-> Hash(r), answer |-> "unknown", expires |-> now + Keep]
Known(m)   == m # NoMark /\ now < m.expires
Pending(r) == [hash |-> Hash(r), answer |-> "unknown", expires |-> now + Keep]
Result(r)  == [hash |-> Hash(r), answer |-> request[r].answer, expires |-> now + Keep]

\* auth lets the request in; from here on it may wait for apiV1.mu.
Arrive(r, d, k, b) ==
  /\ request[r].pc = "idle" /\ d \notin revoked /\ <<k, b>> \in Asks[r]
  /\ \A q \in Requests : q < r => request[q].pc # "idle"
  /\ b.op = "stop" => b.on < r
  /\ request' = [request EXCEPT ![r] = [NoRequest EXCEPT !.pc = "waiting", !.device = d,
                                                         !.key = k, !.body = b]]
  /\ UNCHANGED <<now, durable, mu, moodJobs, run, upstream, lost, faults, restarts>>

\* Mutant of Reply: an early return forgets the mutex.
ReplyHeld(r, answer) ==
  /\ request' = [request EXCEPT ![r].pc = "done", ![r].answer = answer, ![r].at = now]
  /\ UNCHANGED mu
\* The answer of a request, which gives apiV1.mu back.
Reply(r, answer) ==
  /\ request' = [request EXCEPT ![r].pc = "done", ![r].answer = answer, ![r].at = now]
  /\ mu' = 0

\* The handler's result, to be saved before it is the answer.
Settling(r, answer) ==
  request' = [request EXCEPT ![r].pc = "settling", ![r].answer = answer]

\* A key that is still known is answered from its record; else a marker comes first.
Begin(r) ==
  /\ mu = 0 /\ request[r].pc = "waiting"
  /\ \/ /\ Known(mark[Id(r)])
        /\ Reply(r, IF mark[Id(r)].hash = Hash(r) THEN mark[Id(r)].answer ELSE "refused")
        /\ UNCHANGED <<mark, faults>>
     \/ /\ ~Known(mark[Id(r)])
        /\ Fault /\ Reply(r, "full") /\ UNCHANGED mark
     \/ /\ ~Known(mark[Id(r)])
        /\ mark' = [mark EXCEPT ![Id(r)] = Pending(r)] /\ mu' = r
        /\ request' = [request EXCEPT ![r].pc = "calling", ![r].begun = now]
        /\ UNCHANGED faults
  /\ UNCHANGED <<now, scrobbled, record, revoked, moodJobs, run, upstream, lost, restarts>>

\* Save the result and answer with it; an unsaved result leaves the marker.
Settle(r) ==
  /\ request[r].pc = "settling"
  /\ \/ mark' = [mark EXCEPT ![Id(r)] = Result(r)] /\ Reply(r, request[r].answer)
        /\ UNCHANGED faults
     \/ Fault /\ Reply(r, "unknown") /\ UNCHANGED mark
  /\ UNCHANGED <<now, scrobbled, record, revoked, moodJobs, run, upstream, lost, restarts>>

----------------------------------------------------------------------------
(* Scrobbles and other writes upstream.                                    *)
Calling(r, op) == request[r].pc = "calling" /\ request[r].body.op = op
Unsent(r)   == request' = [request EXCEPT ![r].pc = "sending"]
\* Mutant of Seen: only an accepted occurrence counts as seen
SeenAccepted(o) == scrobbled[o].status = "accepted"
Seen(o)     == scrobbled[o] # NoPlay
\* Mutant of Recalled: an occurrence that is recorded was accepted
RecalledBlind(r) == "ok"
Recalled(r) == LET s == scrobbled[request[r].body.on] IN
  IF s.hash # request[r].body.what THEN "refused"
  ELSE IF s.status = "accepted" THEN "ok" ELSE "unknown"

\* An occurrence is recorded before it is sent, and answered from its record ever after.
Scrobble(r) ==
  /\ Calling(r, "scrobble")
  /\ LET o == request[r].body.on IN
       \/ Seen(o) /\ Settling(r, Recalled(r)) /\ UNCHANGED <<scrobbled, faults>>
       \/ ~Seen(o) /\ Fault /\ Settling(r, "full") /\ UNCHANGED scrobbled
       \/ /\ ~Seen(o) /\ Unsent(r) /\ UNCHANGED faults
          /\ scrobbled' = [scrobbled EXCEPT ![o] =
                             [hash |-> request[r].body.what, status |-> "outcome_unknown"]]
  /\ UNCHANGED <<now, mark, record, revoked, mu, moodJobs, run, upstream, lost, restarts>>

\* A favourite or a playlist: checked, then sent.
Write(r) ==
  /\ Calling(r, "write")
  /\ Unsent(r) \/ Settling(r, "refused")
  /\ UNCHANGED <<now, durable, mu, moodJobs, run, upstream, lost, faults, restarts>>

\* The call takes effect upstream, or fails before it does.
Send(r) ==
  /\ request[r].pc = "sending"
  /\ \/ /\ request' = [request EXCEPT ![r].pc = "sent"]
        /\ IF request[r].body.op = "scrobble"
           THEN /\ plays' = [plays EXCEPT ![request[r].body.on] = @ + 1]
                /\ UNCHANGED <<writes, sentAt>>
           ELSE /\ writes' = [writes EXCEPT ![request[r].key] = @ + 1]
                /\ sentAt' = [sentAt EXCEPT ![request[r].key] = request[r].begun]
                /\ UNCHANGED plays
        /\ UNCHANGED faults
     \/ Fault /\ Settling(r, "unknown") /\ UNCHANGED upstream
  /\ UNCHANGED <<now, durable, mu, moodJobs, run, lost, restarts>>

\* The answer of the library, its confirmation and the save of an accepted scrobble; any
\* of them may fail, and a favourite or a playlist may not be what was asked for.
Confirm(r) ==
  /\ request[r].pc = "sent"
  /\ \/ /\ Settling(r, "ok")
        /\ scrobbled' = IF request[r].body.op = "scrobble"
                        THEN [scrobbled EXCEPT ![request[r].body.on].status = "accepted"]
                        ELSE scrobbled
        /\ UNCHANGED faults
     \/ Fault /\ Settling(r, "unknown") /\ UNCHANGED scrobbled
     \/ request[r].body.op = "write" /\ Settling(r, "refused") /\ UNCHANGED <<scrobbled, faults>>
  /\ UNCHANGED <<now, mark, record, revoked, mu, moodJobs, run, upstream, lost, restarts>>

----------------------------------------------------------------------------
(* Mood.                                                                   *)
\* The ten minutes of a run, or a browser that leaves, make the next step of a run fail;
\* any step may fail here.
Active(j) == run[j].pc \notin {"none", "ended"}
NewRun(kind) == [pc |-> "starting", kind |-> kind, cancelled |-> FALSE, count |-> 0, saved |-> 0]
Busy == moodJobs
Cancelled(J) == [j \in Requests |-> IF j \in J /\ Active(j)
                                    THEN [run[j] EXCEPT !.cancelled = TRUE] ELSE run[j]]

\* POST mood/jobs: claim the library user, save the job, start it.  It is refused when the
\* user is claimed, and without a curator.
Mood(r) ==
  /\ Calling(r, "mood")
  /\ \/ Settling(r, "refused") /\ UNCHANGED <<moodJobs, record, run, faults>>
     \/ ~Busy /\ Fault /\ Settling(r, "full") /\ UNCHANGED <<moodJobs, record, run>>
     \/ /\ ~Busy /\ moodJobs' = TRUE /\ Settling(r, "ok") /\ UNCHANGED faults
        /\ record' = [record EXCEPT ![r] = [state |-> "running",
                                            device |-> request[r].device, told |-> 0]]
        /\ run' = [run EXCEPT ![r] = NewRun("native")]
  /\ UNCHANGED <<now, mark, scrobbled, revoked, mu, upstream, lost, restarts>>

\* POST /api/mood of the browser: no idempotency key, no record, the same claim.
Browse(r) ==
  /\ request[r].pc = "idle" /\ ~Busy /\ moodJobs' = TRUE
  /\ \A q \in Requests : q < r => request[q].pc # "idle"
  /\ request' = [request EXCEPT ![r].pc = "done", ![r].answer = "ok", ![r].at = now]
  /\ run' = [run EXCEPT ![r] = NewRun("browser")]
  /\ UNCHANGED <<now, durable, mu, upstream, lost, faults, restarts>>

\* DELETE mood/jobs/{id}: cancel what is registered for the job.
Stop(r) ==
  /\ Calling(r, "stop")
  /\ LET j == request[r].body.on IN
       \/ record[j] = NoJob /\ Settling(r, "refused") /\ UNCHANGED run
       \/ record[j] # NoJob /\ Settling(r, "ok") /\ run' = Cancelled({j})
  /\ UNCHANGED <<now, durable, mu, moodJobs, upstream, lost, faults, restarts>>

MoodStep(j, pc) == run' = [run EXCEPT ![j].pc = pc]
Native(j)  == run[j].kind = "native"
Idle(j)    == run[j].kind = "browser" \/ mu = 0
Library    == <<now, mark, scrobbled, revoked, mu, request, moodJobs, upstream, restarts>>

\* The seed, the candidates and the Mood playlist, which starts again with the seed.
StartPlaylist(j) ==
  /\ run[j].pc = "starting"
  /\ \/ ~run[j].cancelled
        /\ run' = [run EXCEPT ![j].pc = "telling", ![j].count = 1, ![j].saved = 1]
     \/ \E s \in {0, 1} : run' = [run EXCEPT ![j].pc = "failing", ![j].saved = s]
  /\ UNCHANGED <<Library, record, lost, faults>>

Added(j) == [run[j] EXCEPT !.pc = "telling", !.count = @ + 1, !.saved = @ + 1]

\* The curator names the next track and the library adds it; or the run fails, with or
\* without the track.
AddTrack(j) ==
  /\ run[j].pc = "adding"
  /\ \/ ~run[j].cancelled
        /\ run' = [run EXCEPT ![j] = Added(j)]
     \/ \E s \in {0, 1} :
          run' = [run EXCEPT ![j].pc = "failing", ![j].saved = @ + s]
  /\ UNCHANGED <<Library, record, lost, faults>>

\* The event of a track: saved with the job, or written to the browser that still listens.
Tell(j) ==
  /\ run[j].pc = "telling" /\ Idle(j)
  /\ \/ /\ MoodStep(j, IF run[j].count = Size THEN "finishing" ELSE "adding")
        /\ record' = IF Native(j) THEN [record EXCEPT ![j].told = @ + 1] ELSE record
        /\ UNCHANGED faults
     \/ Native(j) /\ Fault /\ MoodStep(j, "failing") /\ UNCHANGED record
     \/ ~Native(j) /\ MoodStep(j, "failing") /\ UNCHANGED <<record, faults>>
  /\ UNCHANGED <<Library, lost>>

\* The last event of a full playlist; when it cannot be saved the run has failed.
Finish(j) ==
  /\ run[j].pc = "finishing" /\ Idle(j)
  /\ \/ /\ MoodStep(j, "closing") /\ UNCHANGED faults
        /\ record' = IF Native(j) THEN [record EXCEPT ![j].state = "completed"] ELSE record
     \/ Native(j) /\ Fault /\ MoodStep(j, "failing") /\ UNCHANGED record
     \/ ~Native(j) /\ MoodStep(j, "failing") /\ UNCHANGED <<record, faults>>
  /\ UNCHANGED <<Library, lost>>

\* The error event of a failed run; a save that fails is not tried again.
Fail(j) ==
  /\ run[j].pc = "failing" /\ Idle(j) /\ MoodStep(j, "closing")
  /\ \/ /\ record' = IF Native(j) THEN [record EXCEPT ![j].state = "failed"] ELSE record
        /\ UNCHANGED <<lost, faults>>
     \/ Native(j) /\ Fault /\ lost' = lost \cup {j} /\ UNCHANGED record
  /\ UNCHANGED Library

\* The library user is free again.
Close(j) ==
  /\ run[j].pc = "closing" /\ MoodStep(j, "ended") /\ moodJobs' = FALSE
  /\ UNCHANGED <<now, durable, mu, request, upstream, lost, faults, restarts>>

----------------------------------------------------------------------------
\* Logout or removal of a device, which cancels what it runs even if it cannot be saved.
Revoke(d) ==
  /\ mu = 0 /\ d \notin revoked
  /\ run' = Cancelled({j \in Requests : record[j].device = d /\ record[j].state = "running"})
  /\ \/ revoked' = revoked \cup {d} /\ UNCHANGED faults
     \/ Fault /\ UNCHANGED revoked
  /\ UNCHANGED <<now, mark, scrobbled, record, mu, request, moodJobs, upstream, lost, restarts>>

\* recoverMoods: what was running has failed.
\* Mutant of Recovered: a start fails no job
RecoveredNone(j) == record[j]
Recovered(j) == IF record[j].state = "running" THEN [record[j] EXCEPT !.state = "failed"]
                ELSE record[j]
Running == {j \in Requests : record[j].state = "running"}

\* The server stops anywhere and starts again from its database.
Restart ==
  /\ restarts < MaxRestarts /\ restarts' = restarts + 1
  /\ request' = [r \in Requests |-> IF request[r].pc \in Inside \cup {"waiting"}
                                    THEN [request[r] EXCEPT !.pc = "dropped"] ELSE request[r]]
  /\ mu' = 0 /\ moodJobs' = FALSE
  /\ run' = [j \in Requests |-> IF Active(j) THEN [run[j] EXCEPT !.pc = "ended"] ELSE run[j]]
  /\ \/ /\ record' = [j \in Requests |-> Recovered(j)] /\ lost' = {} /\ UNCHANGED faults
     \/ \E j \in Running :
          /\ Fault /\ lost' = {j}
          /\ record' = [i \in Requests |-> IF i = j THEN record[i] ELSE Recovered(i)]
  /\ UNCHANGED <<now, mark, scrobbled, revoked, upstream>>

Advance ==
  /\ now < MaxTime /\ now' = now + 1
  /\ UNCHANGED <<durable, mu, request, moodJobs, run, upstream, lost, faults, restarts>>

Handle(r)  == Begin(r) \/ Scrobble(r) \/ Write(r) \/ Send(r) \/ Confirm(r)
              \/ Mood(r) \/ Stop(r) \/ Settle(r)
MoodRun(j) == StartPlaylist(j) \/ AddTrack(j) \/ Tell(j) \/ Finish(j) \/ Fail(j) \/ Close(j)

Next ==
  \/ \E r \in Requests, d \in Devices, k \in Keys, b \in Bodies : Arrive(r, d, k, b)
  \/ \E r \in Requests : Browse(r)
  \/ \E r \in Requests : Handle(r)
  \/ \E j \in Requests : MoodRun(j)
  \/ \E d \in Devices : Revoke(d)
  \/ Restart \/ Advance

Spec == Init /\ [][Next]_vars

\* A request gets its turn at the mutex, and every call upstream ends: by its answer, by
\* the timeout of the client or by the end of the context of a Mood run.  That something is
\* done as long as something can be is enough here.
Work     == \E r \in Requests : Handle(r) \/ MoodRun(r)
Fairness == WF_vars(Work)
FairSpec == Spec /\ Fairness

----------------------------------------------------------------------------
TypeOK ==
  /\ now \in 0 .. MaxTime
  /\ mark \in [Paths \X Keys -> [hash : (Nat \X Nat) \cup {<<>>},
                                 answer : Answers \cup {"none"}, expires : Nat]]
  /\ scrobbled \in [Occurrences ->
       [hash : Nat, status : {"none", "outcome_unknown", "accepted"}]]
  /\ record \in [Requests -> [state : {"none", "running", "completed", "failed"},
                              device : Devices \cup {"none"}, told : 0 .. Size]]
  /\ revoked \subseteq Devices
  /\ mu \in Requests \cup {0}
  /\ request \in [Requests ->
       [pc : Inside \cup {"idle", "waiting", "done", "dropped"},
        device : Devices \cup {"none"}, key : Keys \cup {"none"},
        body : Bodies \cup {NoBody}, begun : Nat, answer : Answers \cup {"none"}, at : Nat]]
  /\ moodJobs \in BOOLEAN
  /\ run \in [Requests ->
       [pc : {"none", "starting", "adding", "telling", "finishing", "failing", "closing",
              "ended"},
        kind : {"none", "native", "browser"}, cancelled : BOOLEAN,
        count : 0 .. Size, saved : 0 .. Size]]
  /\ plays \in [Occurrences -> Nat] /\ writes \in [Keys -> Nat] /\ sentAt \in [Keys -> Nat]
  /\ lost \subseteq Requests
  /\ faults \in 0 .. MaxFaults /\ restarts \in 0 .. MaxRestarts

Answered(r, answer) == request[r].pc = "done" /\ request[r].answer = answer
Scrobbles(r) == request[r].body.op = "scrobble"

\* An occurrence is submitted upstream at most once: whatever keys its retries carry, whatever
\* call or save failed, across restarts and after the records of the keys have expired
\* (v1_mutations.go:72-98).
ScrobbledOnce == \A o \in Occurrences : plays[o] <= 1

\* A scrobble answered with accepted has reached the library, for the track that was asked
\* for (v1_mutations.go:76-102).
AcceptedTruly == \A r \in Requests : Scrobbles(r) /\ Answered(r, "ok") =>
  LET o == request[r].body.on IN
    plays[o] = 1 /\ scrobbled[o] = [hash |-> request[r].body.what, status |-> "accepted"]

\* Two effects of one key lie a whole life of its record apart: a retry within it never
\* writes again, whatever became of the first attempt (v1_http.go:82-107).
WrittenOnce == [][\A k \in Keys : writes'[k] > writes[k] =>
                    writes[k] = 0 \/ sentAt'[k] >= sentAt[k] + Keep]_vars

\* Once a key has been answered with success its retries are answered with success, until
\* its record expires (v1_http.go:83-90).
SuccessRepeats == [][\A q, r \in Requests :
   /\ Answered(q, "ok") /\ request[r].pc = "waiting" /\ request'[r].pc = "done"
   /\ request[q].key # "none" /\ Id(q) = Id(r) /\ Hash(q) = Hash(r) /\ now < request[q].at + Keep
   => request'[r].answer = "ok"]_vars

\* One Mood writes to the playlist of a library user, native or browser, and the user is
\* free when none does (v1_mood.go:68-81,183-191, mood.go:42-64).
OneMood == Cardinality({j \in Requests : Active(j)}) = IF moodJobs THEN 1 ELSE 0

\* A Mood that says it is completed has all its tracks in the library, and no event tells of
\* a track the library has not confirmed (mood.go:142-162, v1_mood.go:199-212).
MoodHonest == \A j \in Requests :
  /\ record[j].told <= run[j].saved
  /\ record[j].state = "completed" => run[j].saved = Size

\* The saved outcome of a Mood is final: no late event, cancellation or restart changes it.
OutcomeFinal == [][\A j \in Requests : record[j].state \in {"completed", "failed"} =>
                     record'[j] = record[j]]_vars

\* A saved Mood that runs has a run behind it, or its last save failed: a client that polls
\* or follows its events is not left waiting (v1_mood.go:214-220,237-250).
NoOrphan == \A j \in Running : Active(j) \/ j \in lost

\* Every request is answered or lost with the server, and every Mood run ends and frees
\* the library user: nothing waits for ever for the mutex, for a key or for an event.
AtRest == ~moodJobs /\ \A r \in Requests :
            request[r].pc \in {"idle", "done", "dropped"} /\ ~Active(r)
EverythingEnds == ~AtRest ~> AtRest
=============================================================================

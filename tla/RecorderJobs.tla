---------------------------- MODULE RecorderJobs ----------------------------
(***************************************************************************)
(* The Flight Recorder's scheduler and the life of its jobs: the one-second *)
(* tick, the per-job worker goroutine, and the API handlers that create,    *)
(* edit, cancel, stop and delete recordings                                 *)
(* (internal/server/recorder_scheduler.go, recorder_api.go,                 *)
(* recorder_quota.go, recorder_time.go).                                    *)
(*                                                                         *)
(* The SQLite records (sched, job) survive a restart; the goroutines, their *)
(* contexts and the packaging flags (worker, ctxDone, packaging) do not.    *)
(* Every handler and every section of the tick and of a worker runs under   *)
(* the API mutex a.mu.  Handlers that commit more than once hold it across  *)
(* several steps (pending), so that a crash can fall between the commits.   *)
(***************************************************************************)
EXTENDS Integers, FiniteSets, FiniteSetsExt

CONSTANTS
  Schedules,   \* ids of recording schedules (integers, in id order)
  Sessions,    \* ids of immediate recordings (integers, in id order)
  Rules,       \* the recurrences and windows users submit
  Counts,      \* station counts users submit
  MaxStreams,  \* simultaneous capture streams per installation (6 in the code)
  Day,         \* period of a daily recurrence, in clock units
  Horizon,     \* how far ahead recurringWindows looks (a year and a day in the code)
  MaxTime,     \* bound: the last instant of the clock
  MaxFaults,   \* bound: restarts and failed SQLite writes
  MaxRequests, \* bound: API mutations that take effect
  Retention    \* RetentionDays in clock units, 0 when retention is off

Time   == 0 .. MaxTime
Rule   == [kind : {"once", "daily"}, first : Time, len : Nat \ {0}, until : Time]
JobIds == (Schedules \cup Sessions) \X Time
Owner(j) == j[1]   \* schedule id, or the session's own random id
Start(j) == j[2]   \* startsAt: part of a schedule's job id (s.ID + "-" + unix)

ASSUME ConstantsOK ==
  /\ Schedules \subseteq Nat /\ Sessions \subseteq Nat
  /\ IsFiniteSet(Schedules) /\ IsFiniteSet(Sessions) /\ Schedules \cap Sessions = {}
  /\ Rules \subseteq Rule /\ Rules # {} /\ Counts # {}
  /\ \A r \in Rules : r.until + r.len <= MaxTime /\ r.len <= Day
  /\ MaxStreams \in Nat \ {0} /\ Counts \subseteq 1 .. MaxStreams
  /\ Day \in Nat \ {0} /\ MaxTime \in Nat
  /\ Horizon \in Nat /\ \A r \in Rules : r.kind = "daily" => r.len + Day <= Horizon + 1
  /\ MaxFaults \in Nat /\ MaxRequests \in Nat /\ Retention \in Nat

VARIABLES
  now,        \* a.now()
  sched,      \* "schedule" records
  job,        \* "job" records
  worker,     \* program counter of runJob for each job ("none": not in a.active)
  ctxDone,    \* jobs whose context has been cancelled by Stop
  packaging,  \* a.packaging
  pending,    \* at most one handler between two commits, holding a.mu
  faults,     \* restarts and failed writes so far
  requests,   \* API mutations so far
  leftover,   \* history: upcoming jobs a handler failed to cancel after its commit
  far         \* history: schedules whose one-off window lay past the horizon when saved

vars == <<now, sched, job, worker, ctxDone, packaging, pending, faults, requests,
          leftover, far>>

Final     == {"complete", "partial", "failed", "missed", "cancelled"}
JobStates == {"none", "scheduled", "recording", "finalizing"} \cup Final
Job   == [state : JobStates, len : Nat, count : 0 .. MaxStreams,
          stopped : BOOLEAN, started : BOOLEAN, tomb : BOOLEAN]
Sched == [state : {"none", "active", "cancelled", "finished"},
          rule : Rules, next : Time, count : Counts]
WorkerStates == {"none", "launched", "capturing", "captured", "packaging", "exiting"}

NoJob == [state |-> "none", len |-> 0, count |-> 0,
          stopped |-> FALSE, started |-> FALSE, tomb |-> FALSE]
NoSched == [state |-> "none", rule |-> CHOOSE r \in Rules : TRUE,
            next |-> 0, count |-> CHOOSE c \in Counts : TRUE]
End(j) == Start(j) + job[j].len
Exists(j) == job[j].state # "none"
Nonfinal(j) == job[j].state \in {"scheduled", "recording", "finalizing"}
Active == {j \in JobIds : worker[j] # "none"}

TypeOK ==
  /\ now \in Time
  /\ sched \in [Schedules -> Sched]
  /\ job \in [JobIds -> Job]
  /\ worker \in [JobIds -> WorkerStates]
  /\ ctxDone \subseteq JobIds
  /\ packaging \subseteq JobIds
  /\ pending \subseteq [sched : Schedules, keep : SUBSET JobIds]
  /\ faults \in 0 .. MaxFaults /\ requests \in 0 .. MaxRequests
  /\ leftover \subseteq JobIds /\ far \subseteq Schedules

Init ==
  /\ now = 0
  /\ sched = [s \in Schedules |-> NoSched]
  /\ job = [j \in JobIds |-> NoJob]
  /\ worker = [j \in JobIds |-> "none"]
  /\ ctxDone = {} /\ packaging = {} /\ pending = {}
  /\ faults = 0 /\ requests = 0 /\ leftover = {} /\ far = {}

Unlocked == pending = {}
Request == Unlocked /\ requests < MaxRequests /\ requests' = requests + 1
Fault == faults < MaxFaults /\ faults' = faults + 1

-----------------------------------------------------------------------------
(* Windows and capacity                                                     *)

\* scheduleWindow: the starts of the rule that a search from `after` may return;
\* a once rule ignores `after`, a recurrence starts strictly after it.
WindowStarts(r, after) ==
  IF r.kind = "once" THEN {r.first}
  ELSE {t \in Time : t > after /\ t <= r.until /\ t % Day = r.first % Day}

Window(src, start, len, count) ==
  [src |-> src, start |-> start, end |-> start + len, count |-> count]

\* Mutant of RuleWindows: the cursor moves on before the first window is taken.
LaterWindowsOnly(src, r, after, count) ==
  LET starts == WindowStarts(r, after)
  IN {Window(src, t, r.len, count) :
        t \in {u \in starts : r.kind = "once" \/ (u <= after + Horizon /\ u # Min(starts))}}

\* recurringWindows: the window of a once rule, however far it lies, and the later
\* occurrences of a recurrence that start within the horizon.
RuleWindows(src, r, after, count) ==
  {Window(src, t, r.len, count) :
     t \in {u \in WindowStarts(r, after) : r.kind = "once" \/ u <= after + Horizon}}

\* A once rule that ends past the horizon: capacity does not compare all of its window
\* with the recurrences.
PastHorizon(r) == r.kind = "once" /\ r.first + r.len > now + Horizon + 1

\* The sum of n over S, counted as n[x] units of each x.
Total(n, S) == Cardinality(UNION {{x} \X (1 .. n[x]) : x \in S})
StationSum(ws) == Total([w \in ws |-> w.count], ws)
DemandAt(ws, t) == StationSum({w \in ws : w.start <= t /\ t < w.end})
\* overlapValid: the edge sweep lets an end release its streams before an equal
\* start takes them, so it compares the demand at each instant with the limit.
OverlapValid(ws) == \A t \in {w.start : w \in ws} : DemandAt(ws, t) <= MaxStreams

\* ScheduleID of a job: empty for an immediate recording.
ScheduleIDOf(j) == Schedules \cap {Owner(j)}

\* capacity: `exclude` is the schedule being edited, empty on a POST.  A job of an
\* active schedule is left to that schedule's own windows, and a scheduled job
\* whose ScheduleID equals exclude is skipped, the empty id included.
Capacity(new, exclude) ==
  LET others == {s \in Schedules \ exclude : sched[s].state = "active"}
      jobs   == {j \in JobIds : /\ Nonfinal(j)
                                /\ ~(ScheduleIDOf(j) = exclude /\ job[j].state = "scheduled")
                                /\ Owner(j) \notin others}
  IN OverlapValid(new
       \cup (UNION {RuleWindows(<<s>>, sched[s].rule, now, sched[s].count) : s \in others})
       \cup {Window(j, Start(j), job[j].len, job[j].count) : j \in jobs})

-----------------------------------------------------------------------------
(* API handlers                                                             *)

NewJob(len, count) == [state |-> "scheduled", len |-> len, count |-> count,
                       stopped |-> FALSE, started |-> FALSE, tomb |-> FALSE]

\* POST /flight-recorder/sessions: an immediate recording.
CreateSession(i, len, count) ==
  /\ Request
  /\ \A t \in Time : ~Exists(<<i, t>>)
  /\ now + len <= MaxTime
  /\ Capacity({Window(<<>>, now, len, count)}, {})
  /\ job' = [job EXCEPT ![<<i, now>>] = NewJob(len, count)]
  /\ UNCHANGED <<now, sched, worker, ctxDone, packaging, pending, faults, leftover, far>>

\* POST and PATCH /flight-recorder/schedules: commit schedule and job together,
\* then cancel the schedule's other upcoming jobs one by one.
SaveSchedule(s, r, count) ==
  /\ Request
  /\ LET exclude == IF sched[s].state = "none" THEN {} ELSE {s}
         starts  == WindowStarts(r, now)
         start   == Min(starts)
     IN /\ starts # {} /\ start > now
        /\ Capacity(RuleWindows(<<>>, r, now, count), exclude)
        /\ sched' = [sched EXCEPT ![s] = [state |-> "active", rule |-> r,
                                          next |-> start, count |-> count]]
        /\ job' = [job EXCEPT ![<<s, start>>] = NewJob(r.len, count)]
        /\ pending' = {[sched |-> s, keep |-> {<<s, start>>}]}
  /\ far' = (far \ {s}) \cup {z \in {s} : PastHorizon(r)}
  /\ UNCHANGED <<now, worker, ctxDone, packaging, faults, leftover>>

\* DELETE /flight-recorder/schedules/{id}
DeleteSchedule(s) ==
  /\ Request
  /\ sched[s].state # "none"
  /\ sched' = [sched EXCEPT ![s].state = "cancelled"]
  /\ pending' = {[sched |-> s, keep |-> {}]}
  /\ UNCHANGED <<now, job, worker, ctxDone, packaging, faults, leftover, far>>

Upcoming(p) == {j \in JobIds \ p.keep : Owner(j) = p.sched /\ job[j].state = "scheduled"}

\* cancelOtherUpcoming: one put per upcoming job, then the handler returns.  It ignores
\* a put that fails, gives up when it cannot list the jobs, and the handler answers
\* success in both cases: a job it does not reach stays scheduled.
CancelUpcoming ==
  \E p \in pending :
    /\ \/ /\ \E j \in Upcoming(p) : job' = [job EXCEPT ![j].state = "cancelled"]
          /\ UNCHANGED <<pending, faults, leftover>>
       \/ /\ Fault
          /\ \E j \in Upcoming(p) : /\ pending' = {[p EXCEPT !.keep = @ \cup {j}]}
                                    /\ leftover' = leftover \cup {j}
          /\ UNCHANGED job
       \/ /\ Fault
          /\ pending' = {} /\ leftover' = leftover \cup Upcoming(p)
          /\ UNCHANGED job
       \/ /\ Upcoming(p) = {} /\ pending' = {}
          /\ UNCHANGED <<job, faults, leftover>>
    /\ UNCHANGED <<now, sched, worker, ctxDone, packaging, requests, far>>

\* POST /flight-recorder/sessions/{id}/stop
Stop(j) ==
  /\ Request
  /\ Nonfinal(j) /\ ~job[j].tomb
  /\ job' = [job EXCEPT ![j].stopped = TRUE,
                        ![j].state = IF @ = "scheduled" /\ Start(j) > now
                                     THEN "cancelled" ELSE "finalizing"]
  /\ ctxDone' = ctxDone \cup ({j} \cap Active)
  /\ UNCHANGED <<now, sched, worker, packaging, pending, faults, leftover, far>>

\* DELETE /flight-recorder/sessions/{id}: only a final session becomes a tombstone.
DeleteSession(j) ==
  /\ Request
  /\ job[j].state \in Final /\ ~job[j].tomb
  /\ job' = [job EXCEPT ![j].tomb = TRUE]
  /\ UNCHANGED <<now, sched, worker, ctxDone, packaging, pending, faults, leftover, far>>

-----------------------------------------------------------------------------
(* The scheduler tick                                                       *)

\* advanceSchedules: active schedules whose current occurrence is over.
Ready == {s \in Schedules : /\ sched[s].state = "active"
                            /\ LET c == <<s, sched[s].next>>
                               IN Exists(c) /\ (~Nonfinal(c) \/ End(c) < now)}
\* Mutant of Later: the search does not step past the current occurrence.
LaterOrSame(s) == IF sched[s].rule.kind = "once" THEN {}
                  ELSE WindowStarts(sched[s].rule, sched[s].next - 1)
Later(s) == IF sched[s].rule.kind = "once" THEN {}
            ELSE WindowStarts(sched[s].rule, sched[s].next)

\* The schedule after the tick, given the outcome of its next occurrence.
Advanced(s, out) ==
  IF s \notin Ready \/ out[s] = "unsaved" THEN sched[s]
  ELSE IF Later(s) = {} THEN [sched[s] EXCEPT !.state = "finished"]
  ELSE [sched[s] EXCEPT !.next = Min(Later(s))]

Occurrence(s, out) ==
  LET fresh == NewJob(sched[s].rule.len, sched[s].count)
  IN [fresh EXCEPT !.state =
        IF out[s] = "invalid" THEN "failed"
        ELSE IF Min(Later(s)) + fresh.len < now THEN "missed" ELSE "scheduled"]

\* The job records after advanceSchedules (saveScheduleJob commits both records).
JobsAdvanced(out) ==
  [j \in JobIds |->
     IF \E s \in Ready : /\ Later(s) # {} /\ out[s] # "unsaved"
                         /\ j = <<s, Min(Later(s))>>
     THEN Occurrence(Owner(j), out) ELSE job[j]]

\* A scheduled job whose whole window has passed is missed.
JobsMissed(jb) ==
  [j \in JobIds |->
     IF jb[j].state = "scheduled" /\ Start(j) + jb[j].len <= now /\ worker[j] = "none"
        /\ ~jb[j].tomb
     THEN [jb[j] EXCEPT !.state = "missed"] ELSE jb[j]]

\* Mutant of Startable: a restart does not take up interrupted recordings.
StartableFresh(jb) ==
  {j \in JobIds : /\ worker[j] = "none" /\ ~jb[j].tomb
                  /\ \/ jb[j].state = "finalizing"
                     \/ jb[j].state = "scheduled" /\ Start(j) <= now}
Startable(jb) ==
  {j \in JobIds : /\ worker[j] = "none" /\ ~jb[j].tomb
                  /\ \/ jb[j].state \in {"recording", "finalizing"}
                     \/ jb[j].state = "scheduled" /\ Start(j) <= now}

Precedes(j, k) == Owner(j) < Owner(k) \/ (Owner(j) = Owner(k) /\ Start(j) < Start(k))
Streams(jb, js) == Total([j \in js |-> jb[j].count], js)

\* Mutant of IsLaunch: launches of the same pass do not add to the streams counted.
IsLaunchUncounted(jb, L) ==
  \A j \in Startable(jb) :
    j \in L <=> \/ jb[j].state = "finalizing"
               \/ Streams(jb, Active \ packaging) + jb[j].count <= MaxStreams

\* The jobs one pass over the rows in id order starts: a finalizing job always,
\* any other while its stations fit beside the streams already counted.
IsLaunch(jb, L) ==
  \A j \in Startable(jb) :
    j \in L <=>
      \/ jb[j].state = "finalizing"
      \/ Streams(jb, (Active \ packaging)
                       \cup {k \in L : Precedes(k, j) /\ jb[k].state # "finalizing"})
           + jb[j].count <= MaxStreams

Expired(jb, j) ==
  Retention > 0 /\ jb[j].state \in Final /\ Start(j) + jb[j].len < now - Retention

\* tick: advance the schedules, mark missed jobs, launch workers, apply retention.
Tick ==
  /\ Unlocked
  /\ \E out \in [Ready -> {"ok", "invalid", "unsaved"}] :
       LET jb == JobsMissed(JobsAdvanced(out)) IN
       /\ IF \E s \in Ready : out[s] = "unsaved" THEN Fault ELSE UNCHANGED faults
       /\ sched' = [s \in Schedules |-> Advanced(s, out)]
       /\ job' = [j \in JobIds |-> IF Expired(jb, j) THEN [jb[j] EXCEPT !.tomb = TRUE]
                                                     ELSE jb[j]]
       /\ \E L \in SUBSET Startable(jb) :
            /\ IsLaunch(jb, L)
            /\ worker' = [j \in JobIds |-> IF j \in L THEN "launched" ELSE worker[j]]
            /\ packaging' = (packaging \ L) \cup {j \in L : jb[j].state = "finalizing"}
            /\ ctxDone' = ctxDone \ L
  /\ UNCHANGED <<now, pending, requests, leftover, far>>

-----------------------------------------------------------------------------
(* runJob, one goroutine per launched job                                   *)

\* First locked section: claim the job unless it is already finalizing.
Begin(j) ==
  /\ Unlocked /\ worker[j] = "launched"
  /\ IF job[j].state = "finalizing"
     THEN /\ worker' = [worker EXCEPT ![j] = "captured"]
          /\ UNCHANGED <<job, faults>>
     ELSE \/ /\ job' = [job EXCEPT ![j].state = "recording", ![j].started = TRUE]
             /\ worker' = [worker EXCEPT ![j] = "capturing"]
             /\ UNCHANGED faults
          \/ /\ Fault
             /\ worker' = [worker EXCEPT ![j] = "exiting"]
             /\ UNCHANGED <<job>>
  /\ UNCHANGED <<now, sched, ctxDone, packaging, pending, requests, leftover, far>>

\* captureStation retries until the window closes or Stop cancels the context.
CaptureEnd(j) ==
  /\ worker[j] = "capturing"
  /\ j \in ctxDone \/ End(j) <= now
  /\ worker' = [worker EXCEPT ![j] = "captured"]
  /\ UNCHANGED <<now, sched, job, ctxDone, packaging, pending, faults, requests, leftover, far>>

\* Second locked section: the capture workers have exited.
EnterFinalizing(j) ==
  /\ Unlocked /\ worker[j] = "captured"
  /\ \/ /\ job' = [job EXCEPT ![j].state = "finalizing"]
        /\ packaging' = packaging \cup {j}
        /\ worker' = [worker EXCEPT ![j] = "packaging"]
        /\ UNCHANGED faults
     \/ /\ Fault
        /\ worker' = [worker EXCEPT ![j] = "exiting"]
        /\ UNCHANGED <<job, packaging>>
  /\ UNCHANGED <<now, sched, ctxDone, pending, requests, leftover, far>>

\* Mutants of Outcomes: the stop reason is lost; a state no reader knows.
OutcomesUnstopped(j) == {"complete", "partial", "failed"}
\* The outcome finalize computes: gaps or a stop reason make it partial, no bytes failed.
Outcomes(j) == IF job[j].stopped THEN {"partial", "failed"}
               ELSE {"complete", "partial", "failed"}

\* Third locked section: publish, unless the record moved on or the commit fails.
Finalize(j) ==
  /\ Unlocked /\ worker[j] = "packaging"
  /\ worker' = [worker EXCEPT ![j] = "exiting"]
  /\ \/ /\ job[j].tomb \/ job[j].state # "finalizing"
        /\ UNCHANGED <<job, faults>>
     \/ /\ ~job[j].tomb /\ job[j].state = "finalizing"
        /\ \/ /\ \E o \in Outcomes(j) : job' = [job EXCEPT ![j].state = o]
              /\ UNCHANGED faults
           \/ Fault /\ UNCHANGED job
  /\ UNCHANGED <<now, sched, ctxDone, packaging, pending, requests, leftover, far>>

\* The deferred section that drops the job from a.active and a.packaging.
Exit(j) ==
  /\ Unlocked /\ worker[j] = "exiting"
  /\ worker' = [worker EXCEPT ![j] = "none"]
  /\ packaging' = packaging \ {j}
  /\ UNCHANGED <<now, sched, job, ctxDone, pending, faults, requests, leftover, far>>

-----------------------------------------------------------------------------
Advance ==
  /\ now < MaxTime /\ now' = now + 1
  /\ UNCHANGED <<sched, job, worker, ctxDone, packaging, pending, faults, requests, leftover, far>>

\* Crash or shutdown and restart: records stay, goroutines and handlers are gone.
Restart ==
  /\ Fault
  /\ worker' = [j \in JobIds |-> "none"]
  /\ ctxDone' = {} /\ packaging' = {} /\ pending' = {}
  /\ leftover' = leftover \cup UNION {Upcoming(p) : p \in pending}
  /\ UNCHANGED <<now, sched, job, requests, far>>

Handler ==
  \/ \E i \in Sessions, r \in Rules, c \in Counts : CreateSession(i, r.len, c)
  \/ \E s \in Schedules, r \in Rules, c \in Counts : SaveSchedule(s, r, c)
  \/ \E s \in Schedules : DeleteSchedule(s)
  \/ CancelUpcoming
  \/ \E j \in JobIds : Stop(j) \/ DeleteSession(j)
Worker(j) == Begin(j) \/ CaptureEnd(j) \/ EnterFinalizing(j) \/ Finalize(j) \/ Exit(j)
Next == Handler \/ Tick \/ (\E j \in JobIds : Worker(j)) \/ Advance \/ Restart

Spec == Init /\ [][Next]_vars

\* The clock runs, the ticker fires every second, goroutines are scheduled, and a
\* handler that holds the mutex finishes.  A sync.Mutex hands itself to a waiter it
\* has starved, so the sections that wait for it are strongly fair.
Fairness ==
  /\ WF_vars(Advance) /\ SF_vars(Tick) /\ WF_vars(CancelUpcoming)
  /\ \A j \in JobIds : SF_vars(Worker(j))
FairSpec == Spec /\ Fairness

-----------------------------------------------------------------------------
(* Properties                                                               *)

\* The runtime enforcement of recorder_scheduler.go:68-89: whatever was admitted,
\* the capture workers never relay more stations at once than the limit, although
\* packaging jobs give their slots back and restarts relaunch interrupted jobs.  A job
\* that an edit should have cancelled and left scheduled (a crash, or a read or write
\* that failed in cancelOtherUpcoming) is excepted: its record may be replaced by one
\* with other stations while it is captured.
StreamsWithinLimit ==
  Streams(job, {j \in JobIds : worker[j] = "capturing" /\ j \notin leftover})
    <= MaxStreams

\* "Record occurrence identity so restart cannot fire it twice": the record of a
\* session that has started is never replaced by a fresh one, by an edit, a later
\* occurrence or a restart, and one that ended or was missed keeps its outcome.  A job
\* that an edit should have cancelled and left scheduled is excepted: it is recorded
\* after all, and the same occurrence of the edited schedule overwrites its record.
NeverFiredTwice ==
  [][\A j \in JobIds \ leftover :
       /\ job[j].started => job'[j].started
       /\ job[j].state \in Final /\ (job[j].started \/ job[j].state = "missed")
            => job'[j].state = job[j].state]_vars

\* Early stop is never published as a complete session, and a session reported
\* missed never captured anything.
HonestOutcome ==
  \A j \in JobIds : /\ job[j].stopped => job[j].state # "complete"
                    /\ job[j].state = "missed" => ~job[j].started

\* An active schedule always has the job record of its next occurrence: without it
\* advanceSchedules would skip the schedule forever.
ActiveHasOccurrence ==
  \A s \in Schedules : sched[s].state = "active" => Exists(<<s, sched[s].next>>)

DemandFits(js, times) ==
  LET ws == {Window(j, Start(j), job[j].len, job[j].count) : j \in js}
  IN \A t \in times : DemandAt(ws, t) <= MaxStreams

\* Occurrences still to start fit the limit together, however schedules were posted,
\* edited, deleted and advanced in between: capacity reserves the later occurrences
\* of a recurrence that no job record stands for yet, as far as its horizon reaches, and
\* what lies beyond fits because a recurrence repeats.  Two things are excepted: a job
\* that an edit should have cancelled and left scheduled, and a one-off window that lay
\* past the horizon when it was saved, which capacity compares with no recurrence there.
UpcomingDemandFits ==
  Unlocked => DemandFits({j \in JobIds \ leftover : /\ job[j].state = "scheduled"
                                                    /\ Start(j) > now
                                                    /\ Owner(j) \notin far}, now + 1 .. MaxTime)

\* "Overlapping demand returns 409 capacity_conflict" (API_REFERENCE.md:537-538): all
\* sessions the API accepted fit the limit.
AdmittedDemandFits ==
  Unlocked => DemandFits({j \in JobIds : Nonfinal(j)}, now .. MaxTime)

\* A cancelled occurrence records nothing (SOL_WORKBOOK.md:169).
CancelledRecordsNothing ==
  [][\A j \in JobIds : job[j].state = "cancelled" => job'[j].state # "recording"]_vars

\* Every accepted session reaches a final state (recorded, failed, missed or
\* cancelled) unless its record is deleted, across restarts and failed writes.
EveryJobEnds == \A j \in JobIds : Nonfinal(j) ~> (job[j].state \in Final \/ job[j].tomb)
=============================================================================

--------------------------- MODULE WeazlPodCache ---------------------------
(* The cache of MP3 representations for pocket devices: preparations with  *)
(* their workers and shared encodes, the disk budget with its reservations *)
(* and eviction, leases, readers and restarts (weazlpod_store.go,          *)
(* weazlpod_prepare.go, weazlpod_delivery.go).  An action is a section that *)
(* holds p.mu (weazlpod_store.go:19); fetching and encoding run outside it. *)
EXTENDS Integers, FiniteSets

CONSTANTS
  Keys,         \* account and resource of a preparation: the key of p.inflight
  Reps,         \* representation ids: library, source hash and encoder
  Content,      \* [Keys -> SUBSET Reps]: what the source of a key may hash to
  Jobs,         \* preparation ids, 1 .. n, used once each
  Workers,      \* podWorkers
  Retained,     \* the 1000 preparations a server keeps
  Budget,       \* podBudget
  Reservation,  \* podReservation
  Output,       \* podOutputLimit: the largest representation
  Timeout,      \* 15 minutes: the deadline of a worker
  Hour,         \* the life of a preparation, and of the pin of a fresh representation
  Long,         \* 12 hours: the longest lease
  MaxTime,      \* bound of the clock
  MaxFaults     \* bound on failed writes and unlinks, and on restarts

ASSUME CacheAssumption ==
  /\ Content \in [Keys -> SUBSET Reps] /\ IsFiniteSet(Reps)
  /\ Jobs \subseteq Nat /\ 0 \notin Jobs
  /\ {Workers, Retained, Budget, MaxTime, MaxFaults} \subseteq Nat
  /\ Output \in 1 .. Reservation /\ Reservation \in Nat
  /\ 0 < Timeout /\ Timeout < Hour /\ Hour <= Long /\ {Timeout, Hour, Long} \subseteq Nat

VARIABLES
  now,       \* the clock
  reps,      \* p.reps and its database rows (each put precedes the assignment)
  files,     \* the representations on disk
  job,       \* p.jobs
  inflight,  \* p.inflight: the job of a key, or 0
  encoding,  \* p.encoding: the representations somebody encodes
  worker,    \* the program counter of podWork for a job
  target,    \* the representation a worker is about
  running,   \* p.running; p.reserved is running * Reservation
  readers,   \* p.readers
  polling,   \* representations of ready preparations whose poll is being answered
  lease,     \* the end of the longest lease of a representation
  replaced,  \* for properties: representations encoded again although they were pinned
  faults
cache == <<reps, files, readers, lease, replaced>>
works == <<job, inflight, encoding, worker, target, running>>
vars  == <<now, cache, works, polling, faults>>

NoRep == [pin |-> 0, bytes |-> 0]
NoJob == [state |-> "none", key |-> "none", expires |-> 0, rep |-> "none"]
Gone  == [NoJob EXCEPT !.state = "gone"]
WorkerStates == {"none", "building", "waiting", "woken", "encoding",
                 "published", "broken", "ready", "failed"}
Active(j) == worker[j] # "none"
Held      == {j \in Jobs : job[j].state \notin {"none", "gone"}}
Present(r) == reps[r] # NoRep

\* initPod keeps the representations of an earlier life of the server; what pinned them
\* has ended.
Init ==
  /\ now = 0 /\ polling = {} /\ faults = 0
  /\ \E old \in SUBSET Reps :
       /\ Output * Cardinality(old) <= Budget
       /\ reps = [r \in Reps |-> IF r \in old THEN [pin |-> 0, bytes |-> Output] ELSE NoRep]
       /\ files = old
  /\ readers = [r \in Reps |-> 0]
  /\ lease = [r \in Reps |-> 0] /\ replaced = {}
  /\ job = [j \in Jobs |-> NoJob] /\ inflight = [k \in Keys |-> 0] /\ encoding = {}
  /\ worker = [j \in Jobs |-> "none"] /\ target = [j \in Jobs |-> "none"] /\ running = 0

Fault == faults < MaxFaults /\ faults' = faults + 1
\* The sum of n over S, counted as n[x] units of each x.
Total(n, S) == Cardinality(UNION {{x} \X (1 .. n[x]) : x \in S})
Bytes(rs) == Total([r \in rs |-> reps[r].bytes], rs)

-----------------------------------------------------------------------------
(* Admission                                                                *)

\* The jobs left after the expired ones were dropped, which each POST does first.
Unexpired == [j \in Jobs |-> IF j \in Held /\ job[j].expires <= now THEN Gone ELSE job[j]]
Full == Retained <= Cardinality({j \in Held : now < job[j].expires})

Candidates == {r \in Reps : Present(r) /\ reps[r].pin <= now /\ readers[r] = 0}
\* Mutant of Room: the reservations of workers under way are forgotten.
RoomUnreserved(rs) == Bytes(rs) + Reservation <= Budget
\* Whether one more reservation fits beside the representations rs.
Room(rs) == Bytes(rs) + running * Reservation + Reservation <= Budget

\* podReserve evicts the candidates, least recently used first (here: in any order),
\* until there is room in the budget and on the disk; an unlink may fail.
Evict(gone) ==
  /\ reps' = [r \in Reps |-> IF r \in gone THEN NoRep ELSE reps[r]]
  /\ files' = files \ gone
Reserved(gone) == gone \subseteq Candidates /\ Room({r \in Reps : Present(r)} \ gone)

\* podPrepare of a key that no preparation is in flight for.
Prepare(k) ==
  /\ inflight[k] = 0 /\ running < Workers
  /\ ~Full
  /\ \E gone \in SUBSET Candidates :
       /\ Reserved(gone) /\ Evict(gone)
       /\ \E j \in Jobs :
            /\ job[j] = NoJob /\ \A i \in Jobs : i < j => job[i] # NoJob
            /\ job' = [Unexpired EXCEPT ![j] = [state |-> "preparing", key |-> k,
                                                expires |-> now + Hour, rep |-> "none"]]
            /\ inflight' = [inflight EXCEPT ![k] = j]
            /\ worker' = [worker EXCEPT ![j] = "building"]
  /\ running' = running + 1
  /\ UNCHANGED <<now, readers, lease, replaced, encoding, target, polling, faults>>
\* 429: the workers are busy; 507: no room although everything expendable went.
Refuse(k) ==
  /\ inflight[k] = 0 /\ job' = Unexpired
  /\ \/ /\ Workers <= running \/ Full
        /\ UNCHANGED <<reps, files, faults>>
     \/ /\ running < Workers /\ ~Full
        /\ \/ Evict(Candidates) /\ UNCHANGED faults
           \/ Fault /\ \E gone \in SUBSET Candidates : Evict(gone)
  /\ UNCHANGED <<now, readers, lease, replaced, inflight, encoding, worker, target,
                 running, polling>>

-----------------------------------------------------------------------------
(* The worker                                                               *)

Later(a, b) == IF a < b THEN b ELSE a
\* Mutants of Pinned: a shorter lease replaces a longer pin; a hit pins nothing.
PinnedLast(r, until) == [reps EXCEPT ![r].pin = until]
PinnedNot(r, until)  == reps
\* podPinLocked of a representation the cache has: the pin only ever grows.
Pinned(r, until) == [reps EXCEPT ![r].pin = Later(@, until)]

Moves(j, from, to) == worker[j] = from /\ worker' = [worker EXCEPT ![j] = to]

\* podBuild fails: the source is gone, too large, refused, late or cancelled.
BuildFails(j) ==
  /\ Moves(j, "building", "failed")
  /\ UNCHANGED <<now, cache, job, inflight, encoding, target, running, polling, faults>>

\* Mutant of EncodingBy: nobody looks whether the representation is being encoded.
EncodingByNobody(r) == FALSE
EncodingBy(r) == r \in encoding

\* The first section of podPublish, after the source was fetched and hashed: a hit is
\* pinned; else wait for whoever encodes it; else encode.  A pin that cannot be saved
\* is no hit.
Publish(j) ==
  /\ worker[j] = "building"
  /\ \E r \in Content[job[j].key] :
       /\ target' = [target EXCEPT ![j] = r]
       /\ \/ /\ Present(r) /\ Moves(j, "building", "ready")
             /\ reps' = Pinned(r, now + Hour) /\ UNCHANGED <<encoding, replaced, faults>>
          \/ /\ IF Present(r) THEN Fault ELSE UNCHANGED faults
             /\ UNCHANGED reps
             /\ IF EncodingBy(r)
                THEN Moves(j, "building", "waiting") /\ UNCHANGED <<encoding, replaced>>
                ELSE /\ Moves(j, "building", "encoding")
                     /\ encoding' = encoding \cup {r}
                     /\ replaced' = replaced \cup {s \in {r} : Present(s)}
  /\ UNCHANGED <<now, files, readers, lease, job, inflight, running, polling>>

\* A waiter whose context ends; or whose leader finished, and who pins what is there.
GiveUp(j) ==
  /\ job[j].state = "cancelled" \/ job[j].expires - Hour + Timeout <= now
  /\ Moves(j, "waiting", "failed") \/ Moves(j, "woken", "failed")
  /\ UNCHANGED <<now, cache, job, inflight, encoding, target, running, polling, faults>>
Share(j) ==
  LET r == target[j] IN
  /\ worker[j] = "woken"
  /\ \/ Present(r) /\ Moves(j, "woken", "ready") /\ reps' = Pinned(r, now + Hour)
                   /\ UNCHANGED faults
     \/ /\ IF Present(r) THEN Fault ELSE UNCHANGED faults
        /\ Moves(j, "woken", "failed") /\ UNCHANGED reps
  /\ UNCHANGED <<now, files, readers, lease, replaced, job, inflight, encoding, target,
                 running, polling>>

\* The encoder, the validation or the context fails.
EncodeFails(j) ==
  /\ Moves(j, "encoding", "broken")
  /\ UNCHANGED <<now, cache, job, inflight, encoding, target, running, polling, faults>>
\* The last section of podPublish: rename, sync and put; on an error the file is removed,
\* whatever record names it.
Store(j) ==
  LET r == target[j] IN
  /\ worker[j] = "encoding"
  /\ \/ /\ Moves(j, "encoding", "published") /\ UNCHANGED faults
        /\ \E b \in 1 .. Output : reps' = [reps EXCEPT ![r] = [pin |-> now + Hour, bytes |-> b]]
        /\ files' = files \cup {r}
     \/ /\ Moves(j, "encoding", "broken") /\ Fault
        /\ files' = files \ {r} /\ UNCHANGED reps
  /\ UNCHANGED <<now, readers, lease, replaced, job, inflight, encoding, target, running,
                 polling>>
\* The deferred section that drops the encode and closes its channel.
Close(j) ==
  /\ worker[j] \in {"published", "broken"}
  /\ encoding' = encoding \ {target[j]}
  /\ worker' = [i \in Jobs |->
       IF i = j THEN IF worker[j] = "published" THEN "ready" ELSE "failed"
       ELSE IF worker[i] = "waiting" /\ target[i] = target[j] THEN "woken" ELSE worker[i]]
  /\ UNCHANGED <<now, cache, job, inflight, target, running, polling, faults>>

\* Mutants of Ended: an outcome no client knows; a cancelled job keeps its key.
EndedUnknown(j) ==
  /\ job' = [job EXCEPT ![j].state = IF worker[j] = "ready" THEN "done" ELSE "failed"]
  /\ inflight' = [inflight EXCEPT ![job[j].key] = 0] /\ running' = running - 1
EndedUncancelled(j) ==
  IF job[j].state = "cancelled" THEN UNCHANGED <<job, inflight, running>>
  ELSE /\ job' = [job EXCEPT ![j].state = worker[j], ![j].rep = target[j]]
       /\ inflight' = [inflight EXCEPT ![job[j].key] = 0] /\ running' = running - 1
\* What the last section of podWork writes.
Ended(j) ==
  /\ job' = [job EXCEPT ![j] = IF @.state = "cancelled" THEN @
                               ELSE [@ EXCEPT !.state = worker[j],
                                       !.rep = IF worker[j] = "ready" THEN target[j] ELSE "none"]]
  /\ inflight' = [inflight EXCEPT ![job[j].key] = 0] /\ running' = running - 1
Finish(j) ==
  /\ worker[j] \in {"ready", "failed"} /\ worker' = [worker EXCEPT ![j] = "none"]
  /\ target' = [target EXCEPT ![j] = "none"]
  /\ Ended(j)
  /\ UNCHANGED <<now, cache, encoding, polling, faults>>

-----------------------------------------------------------------------------
(* The client                                                               *)

Cancelled(j) == [job EXCEPT ![j].state = "cancelled"]
\* DELETE of a preparation that is still under way.
Cancel(j) ==
  /\ job[j].state = "preparing" /\ now < job[j].expires
  /\ job' = Cancelled(j)
  /\ UNCHANGED <<now, cache, inflight, encoding, worker, target, running, polling, faults>>

\* GET of a ready preparation: its copy is answered after the source was authorised.
Poll(j) ==
  /\ job[j].state = "ready" /\ now < job[j].expires
  /\ polling' = polling \cup {job[j].rep}
  /\ UNCHANGED <<now, cache, works, faults>>
\* podLease: pin for as long as the lease, then save the lease; 410 or 503 otherwise.
\* The session of a browser may end before the 12 hours.
Lease(r) ==
  /\ r \in polling /\ polling' = polling \ {r}
  /\ \E until \in now + 1 .. now + Long :
       \/ /\ Present(r) /\ reps' = Pinned(r, until)
          /\ \/ lease' = [lease EXCEPT ![r] = Later(@, until)] /\ UNCHANGED faults
             \/ Fault /\ UNCHANGED lease
       \/ /\ IF Present(r) THEN Fault ELSE UNCHANGED faults
          /\ UNCHANGED <<reps, lease>>
  /\ UNCHANGED <<now, files, readers, replaced, works>>

\* podAsset under a lease that is still valid: open the file and count the reader.
Open(r) ==
  /\ now < lease[r] /\ Present(r) /\ r \in files /\ readers[r] = 0
  /\ readers' = [readers EXCEPT ![r] = @ + 1]
  /\ UNCHANGED <<now, reps, files, lease, replaced, works, polling, faults>>
CloseReader(r) ==
  /\ readers[r] > 0 /\ readers' = [readers EXCEPT ![r] = @ - 1]
  /\ UNCHANGED <<now, reps, files, lease, replaced, works, polling, faults>>

-----------------------------------------------------------------------------
\* A worker ends by its deadline: the context stops the fetch, the wait and ffmpeg.
Advance ==
  /\ now < MaxTime /\ now' = now + 1
  /\ \A j \in Jobs : Active(j) => now < job[j].expires - Hour + Timeout
  /\ UNCHANGED <<cache, works, polling, faults>>

\* initPod: representations whose file and record agree, and leases, survive; other
\* files, preparations and workers do not.
Restart ==
  /\ Fault
  /\ reps' = [r \in Reps |-> IF r \in files THEN reps[r] ELSE NoRep]
  /\ files' = {r \in files : Present(r)}
  /\ readers' = [r \in Reps |-> 0] /\ polling' = {}
  /\ job' = [j \in Jobs |-> IF job[j] = NoJob THEN NoJob ELSE Gone]
  /\ inflight' = [k \in Keys |-> 0] /\ encoding' = {}
  /\ worker' = [j \in Jobs |-> "none"] /\ target' = [j \in Jobs |-> "none"] /\ running' = 0
  /\ UNCHANGED <<now, lease, replaced>>

Work(j) ==
  \/ BuildFails(j) \/ Publish(j) \/ GiveUp(j) \/ Share(j)
  \/ EncodeFails(j) \/ Store(j) \/ Close(j) \/ Finish(j)
Next ==
  \/ \E k \in Keys : Prepare(k) \/ Refuse(k)
  \/ \E j \in Jobs : Work(j) \/ Cancel(j) \/ Poll(j)
  \/ \E r \in Reps : Lease(r) \/ Open(r) \/ CloseReader(r)
  \/ Advance \/ Restart
Spec == Init /\ [][Next]_vars
\* A fetch or an encode ends, by its context if by nothing else, and goroutines run.
FairSpec == Spec /\ \A j \in Jobs : WF_vars(Work(j))

-----------------------------------------------------------------------------
(* Properties                                                               *)

TypeOK ==
  /\ now \in 0 .. MaxTime /\ faults \in 0 .. MaxFaults
  /\ reps \in [Reps -> [pin : 0 .. MaxTime + Long, bytes : 0 .. Output]]
  /\ files \subseteq Reps /\ encoding \subseteq Reps /\ polling \subseteq Reps
  /\ readers \in [Reps -> Nat] /\ lease \in [Reps -> 0 .. MaxTime + Long]
  /\ replaced \subseteq Reps
  /\ job \in [Jobs -> [state : {"none", "gone", "preparing", "ready", "failed", "cancelled"},
                       key : Keys \cup {"none"}, expires : 0 .. MaxTime + Hour,
                       rep : Reps \cup {"none"}]]
  /\ inflight \in [Keys -> Jobs \cup {0}] /\ running \in 0 .. Workers
  /\ worker \in [Jobs -> WorkerStates] /\ target \in [Jobs -> Reps \cup {"none"}]

\* "Durable leases survive" (WEAZLPOD_FIRMWARE.md:84): until a lease ends, the cache has
\* its representation and the file, across eviction, restarts and failed writes; but
\* for a representation that was encoded again because its pin could not be saved.
LeasePlayable ==
  \A r \in Reps \ replaced : now < lease[r] => Present(r) /\ r \in files

\* The configured disk budget holds: representations and the reservations of workers that
\* have not stored theirs never exceed podBudget together, whatever was admitted side by side.
BudgetKept ==
  Bytes(Reps) + Reservation * Cardinality({j \in Jobs : worker[j] \in
    {"building", "waiting", "woken", "encoding"}}) <= Budget

\* "Every subsequent ready poll renews the lease" (WEAZLPOD_FIRMWARE.md:41): a ready
\* preparation that has not expired has a representation that stays until it does,
\* whether it was encoded for it, shared with another or found in the cache.
ReadyLeasable ==
  \A j \in Jobs : job[j].state = "ready" /\ now < job[j].expires =>
    Present(job[j].rep) /\ reps[job[j].rep].pin >= job[j].expires

\* "Deduplicate concurrent preparation for the same key" (WEAZLPOD_WORKBOOK.md:90): one
\* encode per representation and one worker per key, which keeps its job, read by id when
\* it starts and when it ends, and its key, though the job expires or is cancelled.
EncodeOnce ==
  /\ \A i, j \in Jobs :
       {worker[i], worker[j]} \subseteq {"encoding", "published", "broken"}
         => i = j \/ target[i] # target[j]
  /\ \A j \in Jobs : Active(j) => j \in Held /\ inflight[job[j].key] = j

\* Every preparation ends and frees its key, also when it is cancelled or shares the
\* failed encode of another.
EveryPreparationEnds == \A k \in Keys : inflight[k] # 0 ~> inflight[k] = 0
=============================================================================

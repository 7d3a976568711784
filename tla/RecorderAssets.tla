--------------------------- MODULE RecorderAssets ---------------------------
(***************************************************************************)
(* The audio of one Flight Recorder session, from the encoder's checkpoint   *)
(* files to the published manifest: recovery of checkpoints into assets,    *)
(* packaging into chunks, the finalizing transaction, the unlink journal,   *)
(* and deletion (recorder_publish.go, recorder_compact.go,                  *)
(* recorder_compact_store.go, recorder_finalize.go, and the order in which  *)
(* recorder_scheduler.go and recorder_capture.go call them).                *)
(*                                                                         *)
(* Files (staged, files) and SQLite records (assets, job, manifest,         *)
(* garbage) survive a crash; the worker and the handlers do not.  A piece   *)
(* is one checkpoint: a station, the slot of the timeline it covers and the *)
(* capture attempt that wrote it.  An asset is the set of pieces it holds:  *)
(* its id digests them, and its file is named after the id.                 *)
(***************************************************************************)
EXTENDS Integers, FiniteSets, FiniteSetsExt

CONSTANTS
  Stations,   \* stations of the session
  Slots,      \* positions of the timeline, one checkpoint long
  Attempts,   \* capture attempts: one per connection, reconnection and restart
  ChunkSlots, \* checkpoints in a full chunk (recordingChunkMs)
  Reserved,   \* the session's reservation, in checkpoints
  Limit,      \* unlinks per tick (128 in the code)
  MaxFaults   \* bound: crashes and failed writes of records or directories

ASSUME AssetConstantsOK ==
  /\ Slots \subseteq Nat /\ Attempts \subseteq Nat
  /\ IsFiniteSet(Stations) /\ Stations # {}
  /\ ChunkSlots \in Nat \ {0} /\ Reserved \in Nat /\ Limit \in Nat \ {0}
  /\ MaxFaults \in Nat

Pieces == Stations \X Slots \X Attempts
StationOf(p) == p[1]
SlotOf(p)    == p[2]
AttemptOf(p) == p[3]
Assets == SUBSET Pieces

VARIABLES
  staged,   \* checkpoints listed in the staging directories' segments.csv
  files,    \* asset files in the recordings directory
  assets,   \* "asset" records
  job,      \* the "job" record: state, segments and tombstone
  manifest, \* the "manifest" record: {} or one set of segments
  garbage,  \* paths in the "recording-garbage" record ({}: no record)
  worker,   \* where runJob is
  step,     \* each station's recoverAttempt: {} idle, else the checkpoint in hand
  renamed,  \* checkpoints renamed by a section that has not committed yet
  todo,     \* groups compactRecording has still to merge
  merged,   \* groups it has merged
  unlinking,\* files deleteRecording has still to remove, under a.mu
  faults    \* crashes and failures so far

vars == <<staged, files, assets, job, manifest, garbage, worker, step, renamed, todo, merged,
          unlinking, faults>>
disk == <<staged, files>>
records == <<assets, job, manifest, garbage>>
packing == <<todo, merged>>

WorkerStates == {"none", "resuming", "capturing", "packing", "committed"}
TypeOK ==
  /\ staged \subseteq Pieces
  /\ files \subseteq Assets /\ assets \subseteq Assets /\ garbage \subseteq Assets
  /\ job \in [state : {"recording", "finalizing", "final"}, segs : SUBSET Assets, tomb : BOOLEAN]
  /\ manifest \subseteq SUBSET Assets
  /\ worker \in WorkerStates
  /\ step \in [Stations -> SUBSET Pieces]
  /\ renamed \subseteq Pieces
  /\ todo \subseteq SUBSET Assets /\ merged \subseteq SUBSET Assets
  /\ unlinking \subseteq Assets
  /\ faults \in 0 .. MaxFaults

\* The session has just been claimed by its first worker.
Init ==
  /\ staged = {} /\ files = {} /\ assets = {} /\ manifest = {} /\ garbage = {}
  /\ job = [state |-> "recording", segs |-> {}, tomb |-> FALSE]
  /\ worker = "resuming" /\ step = [s \in Stations |-> {}] /\ renamed = {}
  /\ todo = {} /\ merged = {} /\ unlinking = {} /\ faults = 0

Fault == faults < MaxFaults /\ faults' = faults + 1
\* a.mu is free: a section that spans several steps here holds it.
Unlocked == renamed = {} /\ unlinking = {} /\ worker # "committed"

-----------------------------------------------------------------------------
(* Capture and recovery                                                     *)

\* The encoder completes a checkpoint.  A later attempt may overlap the slot at
\* which the previous one broke off.
Produce(p) ==
  /\ worker = "capturing" /\ p \notin staged
  /\ \A q \in staged : StationOf(q) = StationOf(p) =>
       \/ AttemptOf(q) = AttemptOf(p) /\ SlotOf(q) < SlotOf(p)
       \/ AttemptOf(q) < AttemptOf(p) /\ SlotOf(q) <= SlotOf(p)
  /\ staged' = staged \cup {p}
  /\ UNCHANGED <<files, records, worker, step, renamed, packing, unlinking, faults>>

\* recoverAttempt takes up a listed checkpoint without an asset record and validates
\* it outside the lock: in staging, or in place if a crash came after the rename.
Probe(p) ==
  /\ Unlocked /\ worker \in {"resuming", "capturing"}
  /\ step[StationOf(p)] = {} /\ p \in staged /\ {p} \notin assets
  /\ step' = [step EXCEPT ![StationOf(p)] = {p}]
  /\ UNCHANGED <<disk, records, worker, renamed, packing, unlinking, faults>>

Captured == UNION job.segs
OfStation(s, ps) == {p \in ps : StationOf(p) = s}
\* Mutant of Overlaps: every checkpoint is taken, whatever it covers.
NeverOverlaps(p) == FALSE
Overlaps(p) == \E q \in OfStation(StationOf(p), Captured) : SlotOf(q) = SlotOf(p)
OverQuota(p) ==
  \/ Cardinality(Captured) + 1 > Reserved
  \/ Cardinality(OfStation(StationOf(p), Captured)) + 1 > Reserved \div Cardinality(Stations)

\* Second section of recoverAttempt: refuse the checkpoint (overlap, quota, disk
\* reserve, failed sync), or rename it.  A failed directory sync leaves it renamed.
Admit(p) ==
  /\ Unlocked /\ step[StationOf(p)] = {p}
  /\ \/ /\ step' = [step EXCEPT ![StationOf(p)] = {}]
        /\ UNCHANGED <<files, renamed, faults>>
     \/ /\ ~job.tomb /\ ~Overlaps(p) /\ ~OverQuota(p)
        /\ files' = files \cup {{p}}
        /\ \/ /\ renamed' = {p} /\ UNCHANGED <<step, faults>>
           \/ /\ Fault /\ step' = [step EXCEPT ![StationOf(p)] = {}] /\ UNCHANGED renamed
  /\ UNCHANGED <<staged, records, worker, packing, unlinking>>

\* The transaction that inserts the asset and updates the job, or its failure.
Record(p) ==
  /\ renamed = {p} /\ renamed' = {}
  /\ step' = [step EXCEPT ![StationOf(p)] = {}]
  /\ \/ /\ assets' = assets \cup {{p}}
        /\ job' = [job EXCEPT !.segs = @ \cup {{p}}]
        /\ UNCHANGED faults
     \/ Fault /\ UNCHANGED <<assets, job>>
  /\ UNCHANGED <<disk, manifest, garbage, worker, packing, unlinking>>

\* Before capturing, runJob recovers what an earlier process left; a job already
\* finalizing, or past its window, does not capture.
StartCapture ==
  /\ worker = "resuming" /\ Unlocked /\ \A s \in Stations : step[s] = {}
  /\ job.state = "recording"
  /\ worker' = "capturing"
  /\ UNCHANGED <<disk, records, step, renamed, packing, unlinking, faults>>

\* POST .../stop
Stop ==
  /\ Unlocked /\ job.state = "recording"
  /\ job' = [job EXCEPT !.state = "finalizing"]
  /\ UNCHANGED <<disk, assets, manifest, garbage, worker, step, renamed, packing, unlinking,
                 faults>>

-----------------------------------------------------------------------------
(* Packaging                                                                *)

SlotsOf(segs, s) == {SlotOf(p) : p \in OfStation(s, UNION segs)}
RunStart(ts, t) == Max({u \in ts : u <= t /\ u - 1 \notin ts})
\* recordingGroups: contiguous checkpoints, at most a chunk long, from the left.
Chunk(ts, t) ==
  LET r == RunStart(ts, t)
  IN {u \in ts : RunStart(ts, u) = r /\ (u - r) \div ChunkSlots = (t - r) \div ChunkSlots}
Group(segs, s, t) ==
  {a \in segs : \E p \in a : StationOf(p) = s /\ SlotOf(p) \in Chunk(SlotsOf(segs, s), t)}
Groups(segs) ==
  {g \in {Group(segs, StationOf(p), SlotOf(p)) : p \in UNION segs} : Cardinality(g) > 1}

\* All captures have returned: the job becomes finalizing and compactRecording starts.
StartPacking ==
  /\ Unlocked /\ worker \in {"resuming", "capturing"} /\ \A s \in Stations : step[s] = {}
  /\ \/ /\ job' = [job EXCEPT !.state = "finalizing"]
        /\ worker' = "packing" /\ todo' = Groups(job.segs) /\ merged' = {}
        /\ UNCHANGED faults
     \/ Fault /\ worker' = "none" /\ UNCHANGED <<job, packing>>
  /\ UNCHANGED <<disk, assets, manifest, garbage, step, renamed, unlinking>>

\* Mutant of Compact: the sources are unlinked as soon as the merged file is in place.
CompactUnlinking(g) ==
  /\ worker = "packing" /\ g \in todo
  /\ todo' = todo \ {g}
  /\ \/ files' = (files \ g) \cup {UNION g} /\ merged' = merged \cup {g}
     \/ files' = files \ {UNION g} /\ UNCHANGED merged
  /\ UNCHANGED <<staged, records, worker, step, renamed, unlinking, faults>>
\* compactGroup, outside the lock: the merged file is renamed into place under its
\* deterministic id, or removed and the group kept as it is.
Compact(g) ==
  /\ worker = "packing" /\ g \in todo
  /\ todo' = todo \ {g}
  /\ \/ files' = files \cup {UNION g} /\ merged' = merged \cup {g}
     \/ files' = files \ {UNION g} /\ UNCHANGED merged
  /\ UNCHANGED <<staged, records, worker, step, renamed, unlinking, faults>>

MergedAssets == {UNION g : g \in merged}
PackedSegs   == (job.segs \ UNION merged) \cup MergedAssets

\* finalize: one transaction replaces the assets, writes the unlink journal and the
\* manifest and ends the job.  A failed commit leaves the job for the next tick.
Finalize ==
  /\ worker = "packing" /\ todo = {} /\ Unlocked
  /\ \/ /\ job.state = "finalizing" /\ ~job.tomb
        /\ assets' = (assets \ UNION merged) \cup MergedAssets
        /\ garbage' = UNION merged
        /\ manifest' = {PackedSegs}
        /\ job' = [job EXCEPT !.state = "final", !.segs = PackedSegs]
        /\ worker' = "committed" /\ UNCHANGED faults
     \/ Fault /\ worker' = "none" /\ UNCHANGED records
  /\ UNCHANGED <<disk, step, renamed, packing, unlinking>>

\* RemoveAll of the staging directory, still under the lock.
RemoveStaging ==
  /\ worker = "committed" /\ worker' = "none" /\ staged' = {}
  /\ UNCHANGED <<files, records, step, renamed, packing, unlinking, faults>>

-----------------------------------------------------------------------------
(* The tick, deletion and restarts                                          *)

\* tick: a session left unfinished by a crash or a failed write is resumed.
Launch ==
  /\ Unlocked /\ worker = "none" /\ ~job.tomb /\ job.state # "final"
  /\ worker' = "resuming"
  /\ UNCHANGED <<disk, records, step, renamed, packing, unlinking, faults>>

Batch == IF Cardinality(garbage) < Limit THEN Cardinality(garbage) ELSE Limit
\* Mutant of Cleanup: a path that is already gone counts as a failure.
CleanupStrict ==
  /\ Unlocked /\ garbage # {}
  /\ \E k \in SUBSET (garbage \cap files) :
       /\ files' = files \ k
       /\ \/ Cardinality(k) = Batch /\ garbage' = garbage \ k /\ UNCHANGED faults
          \/ Cardinality(k) < Batch /\ garbage' = garbage \ k /\ Fault
          \/ Cardinality(k) <= Batch /\ UNCHANGED garbage /\ Fault
  /\ UNCHANGED <<staged, assets, job, manifest, worker, step, renamed, packing, unlinking>>
\* cleanupRecordingGarbage: unlink at most Limit journalled paths, tolerating those
\* already gone, then save or delete the journal.  A failed unlink ends the batch; a
\* failed save, or a crash before it, leaves the journal as it was.
Cleanup ==
  /\ Unlocked /\ garbage # {}
  /\ \E k \in SUBSET garbage :
       /\ files' = files \ k
       /\ \/ Cardinality(k) = Batch /\ garbage' = garbage \ k /\ UNCHANGED faults
          \/ Cardinality(k) < Batch /\ garbage' = garbage \ k /\ Fault
          \/ Cardinality(k) <= Batch /\ UNCHANGED garbage /\ Fault
  /\ UNCHANGED <<staged, assets, job, manifest, worker, step, renamed, packing, unlinking>>

\* deleteRecording (DELETE of a final session, or retention): the tombstone first,
\* then the files of its segments one by one; a failed unlink ends the call.
Delete ==
  /\ Unlocked /\ job.state = "final" /\ ~job.tomb
  /\ job' = [job EXCEPT !.tomb = TRUE]
  /\ unlinking' = job.segs \cap assets
  /\ UNCHANGED <<disk, assets, manifest, garbage, worker, step, renamed, packing, faults>>
Unlink(a) ==
  /\ a \in unlinking
  /\ \/ files' = files \ {a} /\ unlinking' = unlinking \ {a} /\ UNCHANGED faults
     \/ Fault /\ unlinking' = {} /\ UNCHANGED files
  /\ UNCHANGED <<staged, records, worker, step, renamed, packing>>

\* Crash or shutdown: the worker and the handlers are gone.
Restart ==
  /\ Fault
  /\ worker' = "none" /\ step' = [s \in Stations |-> {}] /\ renamed' = {}
  /\ todo' = {} /\ merged' = {} /\ unlinking' = {}
  /\ UNCHANGED <<disk, records>>

Next ==
  \/ \E p \in Pieces : Produce(p) \/ Probe(p) \/ Admit(p) \/ Record(p)
  \/ StartCapture \/ Stop \/ StartPacking
  \/ \E g \in todo : Compact(g)
  \/ Finalize \/ RemoveStaging
  \/ Launch \/ Cleanup \/ Delete
  \/ \E a \in unlinking : Unlink(a)
  \/ Restart
Spec == Init /\ [][Next]_vars

\* The ticker fires every second, and a section or a handler under way finishes.
Fairness ==
  /\ SF_vars(Cleanup) /\ WF_vars(RemoveStaging)
  /\ WF_vars(\E a \in unlinking : Unlink(a))
FairSpec == Spec /\ Fairness

-----------------------------------------------------------------------------
(* Properties                                                               *)

\* "Capture data is never deleted before the replacement manifest commits"
\* (RECORDER_CHUNKS.md:34): every segment a client can see, in the session or in its
\* manifest, has its asset record and its file, at every point of recovery,
\* packaging, publication and cleanup, whatever crashes or fails in between.
SegmentsPlayable ==
  ~job.tomb => \A a \in job.segs \cup UNION manifest : a \in assets /\ a \in files

\* Audio that was captured into the session stays in it until it is deleted: "a
\* packaging failure must not destroy an otherwise usable capture"
\* (recorder_compact.go:60), nor may a retried or resumed publication.
NothingLost == [][Captured \subseteq UNION job'.segs]_vars

\* No moment of a station's timeline is recorded twice, although captures are resumed
\* over what an earlier attempt left and checkpoints are recovered again.
TimelineOnce ==
  \A a, b \in job.segs : \A p \in a, q \in b :
    StationOf(p) = StationOf(q) /\ SlotOf(p) = SlotOf(q) => a = b /\ p = q

\* Stations recovered side by side never take more than the session's reservation, nor
\* one of them more than its share, although both check it against the same record.
ReservationKept ==
  /\ Cardinality(Captured) <= Reserved
  /\ \A s \in Stations : Cardinality(OfStation(s, Captured)) <= Reserved \div Cardinality(Stations)

\* "Manifest revision and assets are immutable after finalization"
\* (SUBWEAZL_API_V1.md:294).
ManifestImmutable == [][manifest # {} => manifest' = manifest /\ job'.segs = job.segs]_vars

\* A retried publication can always insert what it merged and its journal: neither
\* has been left behind by a publication that failed or crashed.
RetryInsertable == worker = "packing" => MergedAssets \cap assets = {} /\ garbage = {}

\* "Interrupted cleanup retries safely" (RECORDER_CHUNKS.md:22): every file a
\* publication replaced leaves the disk and the journal in the end.
GarbageDrains ==
  \A p \in Pieces : {p} \in garbage ~> ({p} \notin garbage /\ {p} \notin files)

\* "204 tombstone and master asset removal" (API_REFERENCE.md:515): when nothing runs,
\* a deleted session has no audio left on disk.
DeletedFilesGone ==
  job.tomb /\ Unlocked /\ worker = "none" => job.segs \cap files = {}
=============================================================================

--------------------------- MODULE Recordings_proofs ---------------------------
(***************************************************************************)
(* Proofs about a recording from its capture to its listener, for any       *)
(* number of stations, segments and faults.  RecorderAssets: what a client   *)
(* can see is always there to play, and what was captured is never lost      *)
(* before the session is deleted.  FlightPlayback: the player is silent      *)
(* when it is paused, implements FlightListening, and keeps no more of a     *)
(* recording than its windows allow.                                         *)
(***************************************************************************)
EXTENDS RecorderAssets, FlightPlayback, FiniteSetTheorems, WellFoundedInduction, TLAPS

-----------------------------------------------------------------------------
(* The inductive invariant                                                  *)

Singles == {{p} : p \in Pieces}
\* A group worth merging has at least two members.
Plural(g) == \E a, b \in g : a # b

\* Until it is published, a session has nothing but unmerged checkpoints, and neither
\* manifest nor journal.
UnpublishedPlain ==
  job.state # "final" => /\ manifest = {} /\ garbage = {} /\ ~job.tomb
                         /\ assets \subseteq Singles /\ job.segs \subseteq Singles

\* Once published, the manifest is what the session lists, the journal names none of
\* it, and no worker touches it.
PublishedAlone ==
  job.state = "final" => /\ manifest = {job.segs} /\ garbage \cap job.segs = {}
                         /\ worker \in {"none", "committed"}
                         /\ renamed = {} /\ \A s \in Stations : step[s] = {}

\* What the session lists has its record and its file; only a deletion unlinks them.
Present ==
  ~job.tomb => job.segs \subseteq assets /\ job.segs \subseteq files /\ unlinking = {}

\* Packaging works on groups of the session's checkpoints, alone, and has the files of
\* those it merged.
PackingOwns ==
  worker = "packing" =>
    /\ job.state = "finalizing" /\ renamed = {} /\ \A s \in Stations : step[s] = {}
    /\ todo \cap merged = {} /\ \A g \in todo \cup merged : g \subseteq job.segs /\ Plural(g)
    /\ MergedAssets \subseteq files

\* A renamed checkpoint is in the recordings directory; only a worker renames.
RenamedPresent ==
  /\ \A p \in renamed : {p} \in files
  /\ worker = "none" => renamed = {} /\ \A s \in Stations : step[s] = {}
  /\ worker = "committed" => job.state = "final"

IInv == /\ TypeOK /\ UnpublishedPlain /\ PublishedAlone /\ Present /\ PackingOwns
        /\ RenamedPresent

-----------------------------------------------------------------------------
(* Helpers                                                                  *)

LEMMA PluralByCardinality ==
  ASSUME NEW g, Cardinality(g) > 1
  PROVE  Plural(g)
<1> SUFFICES ASSUME ~Plural(g) PROVE FALSE
  OBVIOUS
<1>1. g = {} \/ \E x : g = {x}
  <2> SUFFICES ASSUME g # {} PROVE \E x : g = {x}
    OBVIOUS
  <2>1. PICK x : x \in g
    OBVIOUS
  <2>2. \A y : y \in g <=> y = x
    BY <2>1 DEF Plural
  <2>3. g = {x}
    BY <2>2
  <2> QED BY <2>3
<1>2. CASE g = {}
  BY <1>2, FS_EmptySet
<1>3. CASE \E x : g = {x}
  BY <1>3, FS_Singleton
<1> QED BY <1>1, <1>2, <1>3

LEMMA GroupsPlural ==
  ASSUME NEW segs, NEW g \in Groups(segs)
  PROVE  g \subseteq segs /\ Plural(g)
BY PluralByCardinality DEF Groups, Group

\* Merging two checkpoints gives an asset that is no checkpoint.
LEMMA MergedNotSingle ==
  ASSUME NEW g, g \subseteq Singles, Plural(g)
  PROVE  UNION g \notin Singles
BY DEF Singles, Plural

\* Different groups of checkpoints merge into different assets.
LEMMA MergedInjective ==
  ASSUME NEW g, NEW h, g \subseteq Singles, h \subseteq Singles, UNION g = UNION h
  PROVE  g = h
<1>1. \A x \in Pieces : {x} \in g <=> x \in UNION g
  BY DEF Singles
<1>2. \A x \in Pieces : {x} \in h <=> x \in UNION h
  BY DEF Singles
<1> QED BY <1>1, <1>2 DEF Singles

Jobs == [state : {"recording", "finalizing", "final"}, segs : SUBSET Assets, tomb : BOOLEAN]
LEMMA JobTyped ==
  ASSUME NEW j \in Jobs, NEW segs \in SUBSET Assets
  PROVE  /\ [j EXCEPT !.segs = segs] \in Jobs
         /\ [j EXCEPT !.state = "final", !.segs = segs] \in Jobs
BY DEF Jobs

\* Packed segments of groups of checkpoints.
LEMMA PackedSegments ==
  ASSUME TypeOK, UnpublishedPlain, PackingOwns, worker = "packing"
  PROVE  /\ MergedAssets \subseteq Assets /\ MergedAssets \cap Singles = {}
         /\ job.segs \subseteq Singles /\ UNION merged \subseteq job.segs
         /\ UNION PackedSegs = Captured
<1>1. job.segs \subseteq Singles
  BY DEF PackingOwns, UnpublishedPlain
<1>2. \A g \in merged : g \subseteq job.segs /\ Plural(g)
  BY DEF PackingOwns
<1>3. \A g \in merged : g \subseteq Singles /\ Plural(g)
  BY <1>1, <1>2
<1>4. \A g \in merged : UNION g \notin Singles
  BY <1>3, MergedNotSingle
<1>5. MergedAssets \cap Singles = {}
  BY <1>4 DEF MergedAssets
<1>6. \A g \in merged : UNION g \in Assets
  BY <1>3 DEF Singles, Assets
<1>7. MergedAssets \subseteq Assets
  BY <1>6 DEF MergedAssets
<1>8. UNION merged \subseteq job.segs
  BY <1>2
<1>9. UNION PackedSegs = Captured
  <2>1. ASSUME NEW x \in UNION PackedSegs PROVE x \in Captured
    <3>1. PICK a \in PackedSegs : x \in a
      OBVIOUS
    <3>2. CASE a \in job.segs
      BY <3>1, <3>2 DEF Captured
    <3>3. CASE a \in MergedAssets
      <4>1. PICK g \in merged : a = UNION g
        BY <3>3 DEF MergedAssets
      <4>2. PICK b \in g : x \in b
        BY <3>1, <4>1
      <4> QED BY <4>2, <1>2 DEF Captured
    <3> QED BY <3>2, <3>3 DEF PackedSegs
  <2>2. ASSUME NEW x \in Captured PROVE x \in UNION PackedSegs
    <3>1. PICK a \in job.segs : x \in a
      BY DEF Captured
    <3>2. CASE a \in UNION merged
      <4>1. PICK g \in merged : a \in g
        BY <3>2
      <4>2. UNION g \in PackedSegs
        BY DEF PackedSegs, MergedAssets
      <4> QED BY <4>1, <4>2, <3>1
    <3>3. CASE a \notin UNION merged
      BY <3>1, <3>3 DEF PackedSegs
    <3> QED BY <3>2, <3>3
  <2> QED BY <2>1, <2>2
<1> QED BY <1>1, <1>5, <1>7, <1>8, <1>9

-----------------------------------------------------------------------------
(* Each action preserves the invariant                                      *)

LEMMA InitInv == Init => IInv
BY AssetConstantsOK DEF Init, IInv, TypeOK, WorkerStates, UnpublishedPlain, PublishedAlone,
   Present, PackingOwns, RenamedPresent, MergedAssets, Assets

LEMMA FaultTyped == ASSUME TypeOK, Fault PROVE faults' \in 0 .. MaxFaults
BY AssetConstantsOK DEF TypeOK, Fault

\* Capture: Produce, Probe, Admit and StartCapture leave the session's record alone.
LEMMA CaptureInv ==
  ASSUME IInv, NEW p \in Pieces, Produce(p) \/ Probe(p) \/ Admit(p)
  PROVE  IInv'
<1> USE DEF IInv, disk, records, packing
<1> StationOf(p) \in Stations
  BY DEF Pieces, StationOf
<1>1. CASE Produce(p)
  BY <1>1 DEF Produce, TypeOK, UnpublishedPlain, PublishedAlone, Present, PackingOwns,
              RenamedPresent, MergedAssets
<1>2. CASE Probe(p)
  <2>1. TypeOK'
    BY <1>2 DEF Probe, TypeOK
  <2>2. job.state # "final"
    BY <1>2 DEF Probe, PublishedAlone
  <2> QED
    BY <1>2, <2>1, <2>2 DEF Probe, UnpublishedPlain, PublishedAlone, Present, PackingOwns,
                            RenamedPresent, MergedAssets
<1>3. CASE Admit(p)
  <2>0. {p} \in Assets /\ {p} \subseteq Pieces
    BY DEF Assets
  <2>1. faults' \in 0 .. MaxFaults
    BY <1>3, FaultTyped DEF Admit, TypeOK
  <2>2. TypeOK'
    BY <1>3, <2>0, <2>1 DEF Admit, TypeOK
  <2>3. job.state # "final" /\ worker # "packing" /\ worker # "none" /\ worker # "committed"
    BY <1>3 DEF Admit, PublishedAlone, PackingOwns, RenamedPresent, Unlocked
  <2> QED
    BY <1>3, <2>2, <2>3 DEF Admit, Unlocked, UnpublishedPlain, PublishedAlone, Present,
                            PackingOwns, RenamedPresent, MergedAssets
<1> QED BY <1>1, <1>2, <1>3

LEMMA RecordInv ==
  ASSUME IInv, NEW p \in Pieces, Record(p)
  PROVE  IInv'
<1> USE DEF IInv, disk, records, packing
<1>0. StationOf(p) \in Stations /\ {p} \in Assets /\ {p} \in Singles
  BY DEF Pieces, StationOf, Assets, Singles
<1>1. faults' \in 0 .. MaxFaults
  BY FaultTyped DEF Record, TypeOK
<1>2. TypeOK'
  <2>1. job \in Jobs /\ job.segs \cup {{p}} \in SUBSET Assets
    BY <1>0 DEF TypeOK, Jobs
  <2>2. job' \in Jobs
    BY <2>1, JobTyped DEF Record
  <2>3. assets' \subseteq Assets
    BY <1>0 DEF Record, TypeOK
  <2>4. step' \in [Stations -> SUBSET Pieces]
    BY <1>0 DEF Record, TypeOK
  <2> QED BY <1>1, <2>2, <2>3, <2>4 DEF Record, TypeOK, Jobs
<1>3. /\ job.state # "final" /\ worker \notin {"packing", "none", "committed"}
      /\ {p} \in files
  BY DEF Record, PublishedAlone, PackingOwns, RenamedPresent
<1>4. /\ job'.state = job.state /\ job'.tomb = job.tomb
      /\ job'.segs \subseteq job.segs \cup {{p}}
      /\ assets' \subseteq assets \cup {{p}} /\ assets \subseteq assets'
      /\ {p} \in job'.segs => job' = job \/ {p} \in assets'
  BY DEF Record, TypeOK
<1> QED
  BY <1>0, <1>2, <1>3, <1>4 DEF Record, UnpublishedPlain, PublishedAlone, Present, PackingOwns,
                          RenamedPresent, MergedAssets

LEMMA StartsInv ==
  ASSUME IInv, StartCapture \/ Stop \/ StartPacking
  PROVE  IInv'
<1> USE DEF IInv, disk, records, packing
<1>1. CASE StartCapture
  BY <1>1 DEF StartCapture, TypeOK, WorkerStates, UnpublishedPlain, PublishedAlone, Present,
              PackingOwns, RenamedPresent, MergedAssets
<1>2. CASE Stop
  BY <1>2 DEF Stop, TypeOK, UnpublishedPlain, PublishedAlone, Present,
              PackingOwns, RenamedPresent, MergedAssets
<1>3. CASE StartPacking
  <2>1. job.state # "final"
    BY <1>3 DEF StartPacking, PublishedAlone
  <2>2. \A g \in Groups(job.segs) : g \subseteq job.segs /\ Plural(g)
    BY GroupsPlural
  <2>3. faults' \in 0 .. MaxFaults
    BY <1>3, FaultTyped DEF StartPacking, TypeOK
  <2>4. TypeOK'
    BY <1>3, <2>2, <2>3 DEF StartPacking, TypeOK, WorkerStates
  <2>5. /\ job'.segs = job.segs /\ job'.tomb = job.tomb /\ job'.state # "final"
        /\ worker' = "packing" => job'.state = "finalizing"
    BY <1>3, <2>1 DEF StartPacking, TypeOK
  <2>6. PackingOwns'
    BY <1>3, <2>2, <2>5 DEF StartPacking, PackingOwns, MergedAssets, Unlocked
  <2> QED
    BY <1>3, <2>1, <2>4, <2>5, <2>6 DEF StartPacking, Unlocked, UnpublishedPlain,
                                      PublishedAlone, Present, RenamedPresent
<1> QED BY <1>1, <1>2, <1>3

\* A merge creates or removes one file, of no checkpoint and of no other group.
LEMMA CompactInv ==
  ASSUME IInv, NEW g \in todo, Compact(g)
  PROVE  IInv'
<1> USE DEF IInv, disk, records, packing
<1>1. /\ worker = "packing" /\ job.state = "finalizing" /\ job.segs \subseteq Singles
      /\ \A h \in todo \cup merged : h \subseteq job.segs /\ Plural(h)
  BY DEF Compact, PackingOwns, UnpublishedPlain
<1>2. \A h \in todo \cup merged : h \subseteq Singles /\ Plural(h)
  BY <1>1
<1>3. UNION g \notin job.segs
  BY <1>1, <1>2, MergedNotSingle
<1>4. \A h \in merged : UNION h # UNION g
  BY <1>1, <1>2, MergedInjective DEF PackingOwns
<1>5. UNION g \in Assets
  BY <1>2 DEF Singles, Assets
<1>6. TypeOK'
  BY <1>1, <1>5 DEF Compact, TypeOK
<1>7. MergedAssets' \subseteq files'
  <2>1. CASE files' = files \cup {UNION g} /\ merged' = merged \cup {g}
    BY <1>1, <2>1 DEF PackingOwns, MergedAssets
  <2>2. CASE files' = files \ {UNION g} /\ merged' = merged
    BY <1>1, <1>4, <2>2 DEF PackingOwns, MergedAssets
  <2> QED BY <2>1, <2>2 DEF Compact
<1>8. PackingOwns'
  BY <1>1, <1>7 DEF Compact, PackingOwns
<1> QED
  BY <1>1, <1>3, <1>6, <1>8 DEF Compact, UnpublishedPlain, PublishedAlone, Present,
                                RenamedPresent, PackingOwns

\* Publication: the replaced checkpoints are exactly what the journal names.
LEMMA FinalizeInv ==
  ASSUME IInv, Finalize
  PROVE  IInv'
<1> USE DEF IInv, disk, records, packing
<1>1. /\ MergedAssets \subseteq Assets /\ MergedAssets \cap Singles = {}
      /\ job.segs \subseteq Singles /\ UNION merged \subseteq job.segs
  BY PackedSegments DEF Finalize
<1>2. MergedAssets \subseteq files
  BY DEF Finalize, PackingOwns
<1>3. faults' \in 0 .. MaxFaults
  BY FaultTyped DEF Finalize, TypeOK
<1>4. CASE /\ job.state = "finalizing" /\ ~job.tomb
           /\ assets' = (assets \ UNION merged) \cup MergedAssets
           /\ garbage' = UNION merged
           /\ manifest' = {PackedSegs}
           /\ job' = [job EXCEPT !.state = "final", !.segs = PackedSegs]
           /\ worker' = "committed"
  <2>1. PackedSegs \subseteq Assets
    BY <1>1 DEF PackedSegs, TypeOK
  <2>2. UNION merged \subseteq Assets
    BY <1>1 DEF TypeOK
  <2>3. job'.state = "final" /\ job'.tomb = FALSE /\ job'.segs = PackedSegs
    BY <1>4 DEF TypeOK
  <2>4. TypeOK'
    <3>1. job \in Jobs
      BY DEF TypeOK, Jobs
    <3>2. job' \in Jobs
      BY <1>4, <2>1, <3>1, JobTyped
    <3>3. manifest' \subseteq SUBSET Assets
      BY <1>4, <2>1
    <3>4. assets' \subseteq Assets /\ garbage' \subseteq Assets
      BY <1>1, <1>4, <2>2 DEF TypeOK
    <3> QED BY <1>3, <1>4, <3>2, <3>3, <3>4 DEF Finalize, TypeOK, WorkerStates, Jobs
  <2>5. ASSUME NEW x \in UNION merged PROVE x \notin PackedSegs
    <3>1. x \in Singles
      BY <1>1
    <3> QED BY <1>1, <3>1 DEF PackedSegs
  <2>6. PackedSegs \subseteq assets' /\ PackedSegs \subseteq files
    BY <1>2, <1>4 DEF Present, PackedSegs
  <2>7. garbage' \cap job'.segs = {}
    BY <1>4, <2>3, <2>5
  <2>8. /\ renamed' = {} /\ unlinking' = {} /\ files' = files
        /\ \A s \in Stations : step'[s] = {}
    BY DEF Finalize, Unlocked, PackingOwns
  <2>9. PublishedAlone'
    BY <1>4, <2>3, <2>7, <2>8 DEF PublishedAlone
  <2> QED
    BY <1>4, <2>3, <2>4, <2>6, <2>8, <2>9 DEF UnpublishedPlain, Present, PackingOwns,
       RenamedPresent
<1>5. CASE worker' = "none" /\ UNCHANGED records
  <2>1. TypeOK'
    BY <1>3, <1>5 DEF Finalize, TypeOK, WorkerStates
  <2> QED
    BY <1>5, <2>1 DEF Finalize, UnpublishedPlain, PublishedAlone, Present, PackingOwns,
                      RenamedPresent, MergedAssets
<1> QED BY <1>4, <1>5 DEF Finalize

\* Cleanup, deletion and restarts remove no file that the session lists.
LEMMA AfterwardsInv ==
  ASSUME IInv, \/ RemoveStaging \/ Launch \/ Cleanup \/ Delete \/ Restart
               \/ \E a \in unlinking : Unlink(a)
  PROVE  IInv'
<1> USE DEF IInv, disk, records, packing
<1>1. CASE RemoveStaging
  BY <1>1 DEF RemoveStaging, TypeOK, WorkerStates, UnpublishedPlain, PublishedAlone, Present,
              PackingOwns, RenamedPresent, MergedAssets
<1>2. CASE Launch
  BY <1>2 DEF Launch, TypeOK, WorkerStates, UnpublishedPlain, PublishedAlone, Present,
              PackingOwns, RenamedPresent, MergedAssets
<1>3. CASE Cleanup
  <2>1. job.state = "final" /\ renamed = {}
    BY <1>3 DEF Cleanup, UnpublishedPlain, PublishedAlone
  <2>2. faults' \in 0 .. MaxFaults
    BY <1>3, FaultTyped DEF Cleanup, TypeOK
  <2>3. files' \subseteq files /\ files \ garbage \subseteq files' /\ garbage' \subseteq garbage
    BY <1>3 DEF Cleanup
  <2>4. TypeOK'
    BY <1>3, <2>2, <2>3 DEF Cleanup, TypeOK
  <2>5. PublishedAlone' /\ Present'
    BY <1>3, <2>1, <2>3 DEF Cleanup, PublishedAlone, Present
  <2> QED
    BY <1>3, <2>1, <2>3, <2>4, <2>5 DEF Cleanup, UnpublishedPlain, PublishedAlone, PackingOwns,
                                      RenamedPresent
<1>4. CASE Delete
  <2>1. job'.state = "final" /\ job'.segs = job.segs /\ job'.tomb = TRUE /\ job' \in Jobs
    BY <1>4 DEF Delete, TypeOK, Jobs
  <2>2. TypeOK'
    BY <1>4, <2>1 DEF Delete, TypeOK, Jobs
  <2> QED
    BY <1>4, <2>1, <2>2 DEF Delete, UnpublishedPlain, PublishedAlone, Present, PackingOwns,
                            RenamedPresent
<1>5. CASE Restart
  <2>1. faults' \in 0 .. MaxFaults
    BY <1>5, FaultTyped DEF Restart, TypeOK
  <2>2. TypeOK'
    BY <1>5, <2>1 DEF Restart, TypeOK, WorkerStates
  <2> QED
    BY <1>5, <2>2 DEF Restart, UnpublishedPlain, PublishedAlone, Present, PackingOwns,
                      RenamedPresent
<1>6. CASE \E a \in unlinking : Unlink(a)
  <2>1. job.tomb /\ job.state = "final" /\ renamed = {} /\ worker # "packing"
    BY <1>6 DEF Present, UnpublishedPlain, PublishedAlone
  <2>2. faults' \in 0 .. MaxFaults
    BY <1>6, FaultTyped DEF Unlink, TypeOK
  <2>3. TypeOK'
    BY <1>6, <2>2 DEF Unlink, TypeOK
  <2> QED
    BY <1>6, <2>1, <2>3 DEF Unlink, UnpublishedPlain, PublishedAlone, Present, PackingOwns,
                            RenamedPresent
<1> QED BY <1>1, <1>2, <1>3, <1>4, <1>5, <1>6

LEMMA NextInv == IInv /\ [Next]_vars => IInv'
<1> SUFFICES ASSUME IInv, [Next]_vars PROVE IInv'
  OBVIOUS
<1>1. CASE UNCHANGED vars
  BY <1>1 DEF vars, IInv, TypeOK, UnpublishedPlain, PublishedAlone, Present, PackingOwns,
              RenamedPresent, MergedAssets
<1>2. CASE Next
  BY <1>2, CaptureInv, RecordInv, StartsInv, CompactInv, FinalizeInv, AfterwardsInv DEF Next
<1> QED BY <1>1, <1>2

-----------------------------------------------------------------------------
(* Theorems                                                                 *)

THEOREM Invariance == Spec => []IInv
BY InitInv, NextInv, PTL DEF Spec

\* The records, files and worker of a session keep their types: in particular its
\* state is one of the three finalState and the scheduler know.
THEOREM TypeCorrect == Spec => []TypeOK
<1>1. IInv => TypeOK
  BY DEF IInv
<1> QED BY Invariance, <1>1, PTL

\* What a client can see has its record and its file, whatever crashes in between.
THEOREM Playable == Spec => []SegmentsPlayable
<1>1. IInv => SegmentsPlayable
  BY DEF IInv, SegmentsPlayable, Present, UnpublishedPlain, PublishedAlone
<1> QED BY Invariance, <1>1, PTL

\* A publication that is retried after a failure or a crash can always insert the
\* merged assets and the journal.
THEOREM RetriesInsert == Spec => []RetryInsertable
<1>1. IInv => RetryInsertable
  <2> SUFFICES ASSUME IInv, worker = "packing" PROVE MergedAssets \cap assets = {} /\ garbage = {}
    BY DEF RetryInsertable
  <2>1. MergedAssets \cap Singles = {}
    BY PackedSegments DEF IInv
  <2>2. assets \subseteq Singles /\ garbage = {}
    BY DEF IInv, PackingOwns, UnpublishedPlain
  <2> QED BY <2>1, <2>2
<1> QED BY Invariance, <1>1, PTL

\* No step drops audio from the session: only the finalizing transaction replaces
\* segments, and what it writes holds the same checkpoints.
THEOREM CaptureKept == Spec => NothingLost
<1>1. IInv /\ [Next]_vars => [Captured \subseteq UNION job'.segs]_vars
  <2> SUFFICES ASSUME IInv, Next PROVE Captured \subseteq UNION job'.segs
    BY DEF vars
  <2>1. CASE Finalize
    <3>1. UNION PackedSegs = Captured
      BY <2>1, PackedSegments DEF IInv, Finalize
    <3>2. job'.segs = PackedSegs \/ job' = job
      BY <2>1 DEF Finalize, IInv, TypeOK, records
    <3> QED BY <3>1, <3>2 DEF Captured
  <2>2. CASE job.segs \subseteq job'.segs
    BY <2>2 DEF Captured
  <2>3. ~Finalize => job.segs \subseteq job'.segs
    <3> job \in Jobs
      BY DEF IInv, TypeOK, Jobs
    <3>1. CASE \E p \in Pieces : Record(p)
      BY <3>1 DEF Record, Jobs
    <3>2. CASE Stop \/ StartPacking \/ Delete
      BY <3>2 DEF Stop, StartPacking, Delete, Jobs
    <3>3. CASE UNCHANGED job
      BY <3>3
    <3>4. Next => \/ Finalize \/ Stop \/ StartPacking \/ Delete
                  \/ \E p \in Pieces : Record(p)
                  \/ UNCHANGED job
      BY DEF Next, Produce, Probe, Admit, StartCapture, Compact, RemoveStaging, Launch, Cleanup,
             Unlink, Restart, records
    <3> QED BY <3>1, <3>2, <3>3, <3>4
  <2> QED BY <2>1, <2>2, <2>3
<1> QED BY Invariance, <1>1, PTL DEF Spec, NothingLost

\* Once published, neither the manifest nor the session's list of segments changes.
THEOREM Immutable == Spec => ManifestImmutable
<1>1. IInv /\ [Next]_vars => [manifest # {} => manifest' = manifest /\ job'.segs = job.segs]_vars
  <2> SUFFICES ASSUME IInv, Next, manifest # {}
               PROVE  manifest' = manifest /\ job'.segs = job.segs
    BY DEF vars
  <2>1. worker \in {"none", "committed"} /\ renamed = {} /\ job.state = "final"
    BY DEF IInv, UnpublishedPlain, PublishedAlone
  <2> QED
    BY <2>1 DEF Next, IInv, TypeOK, Produce, Probe, Admit, Record, StartCapture, Stop,
           StartPacking, Compact, Finalize, RemoveStaging, Launch, Cleanup, Delete, Unlink,
           Restart, records
<1> QED BY Invariance, <1>1, PTL DEF Spec, ManifestImmutable

-----------------------------------------------------------------------------
(* The timeline is never recorded twice                                     *)

\* The lock is held between the overlap check and the transaction.
RenamedFits == \A p \in renamed : ~Overlaps(p)
\* Groups being packed have no checkpoint in common.
GroupsApart ==
  worker = "packing" => \A g, h \in todo \cup merged : g \cap h # {} => g = h
OnceInv == TimelineOnce /\ RenamedFits /\ GroupsApart

\* A chunk is the same seen from each of its slots.
LEMMA ChunksPartition ==
  ASSUME NEW ts, NEW t, NEW u \in Chunk(ts, t)
  PROVE  Chunk(ts, u) = Chunk(ts, t)
<1>1. RunStart(ts, u) = RunStart(ts, t)
  BY DEF Chunk
<1>2. (u - RunStart(ts, t)) \div ChunkSlots = (t - RunStart(ts, t)) \div ChunkSlots
  BY DEF Chunk
<1>3. \A v : v \in Chunk(ts, u) <=> v \in Chunk(ts, t)
  BY <1>1, <1>2 DEF Chunk
<1> QED BY <1>3

LEMMA GroupsDisjoint ==
  ASSUME NEW segs, segs \subseteq Singles, NEW g \in Groups(segs), NEW h \in Groups(segs),
         NEW a \in g, a \in h
  PROVE  g = h
<1>1. PICK s, t : g = Group(segs, s, t)
  BY DEF Groups
<1>2. PICK r, u : h = Group(segs, r, u)
  BY DEF Groups
<1>3. PICK p \in Pieces : a = {p}
  BY <1>1 DEF Group, Singles
<1>4. StationOf(p) = s /\ SlotOf(p) \in Chunk(SlotsOf(segs, s), t)
  BY <1>1, <1>3 DEF Group
<1>5. StationOf(p) = r /\ SlotOf(p) \in Chunk(SlotsOf(segs, r), u)
  BY <1>2, <1>3 DEF Group
<1>6. Chunk(SlotsOf(segs, s), t) = Chunk(SlotsOf(segs, r), u)
  BY <1>4, <1>5, ChunksPartition
<1>7. s = r
  BY <1>4, <1>5
<1> QED BY <1>1, <1>2, <1>6, <1>7 DEF Group

\* Merging regroups the checkpoints without repeating any.
LEMMA PackedOnce ==
  ASSUME IInv, OnceInv, worker = "packing",
         NEW a \in PackedSegs, NEW b \in PackedSegs, NEW p \in a, NEW q \in b,
         StationOf(p) = StationOf(q), SlotOf(p) = SlotOf(q)
  PROVE  a = b /\ p = q
<1>1. /\ job.segs \subseteq Singles /\ UNION merged \subseteq job.segs
      /\ UNION PackedSegs = Captured
  BY PackedSegments DEF IInv
<1>2. \A g \in merged : g \subseteq Singles
  BY <1>1
<1>3. p \in Captured /\ q \in Captured
  BY <1>1
<1>4. PICK a0 \in job.segs, b0 \in job.segs : p \in a0 /\ q \in b0
  BY <1>3 DEF Captured
<1>5. p = q
  BY <1>4 DEF OnceInv, TimelineOnce
<1>6. \A g \in merged : p \in UNION g => {p} \in g
  BY <1>2 DEF Singles
<1>7. ASSUME NEW c \in PackedSegs, p \in c
      PROVE  \/ c = {p} /\ {p} \notin UNION merged
             \/ \E g \in merged : {p} \in g /\ c = UNION g
  <2>1. CASE c \in job.segs \ UNION merged
    <3>1. c \in Singles
      BY <1>1, <2>1
    <3>2. c = {p}
      BY <1>7, <3>1 DEF Singles
    <3> QED BY <2>1, <3>2
  <2>2. CASE c \in MergedAssets
    BY <1>6, <1>7, <2>2 DEF MergedAssets
  <2> QED BY <2>1, <2>2 DEF PackedSegs
<1>8. \A g, h \in merged : {p} \in g /\ {p} \in h => g = h
  BY DEF OnceInv, GroupsApart
<1>9. p \in a /\ p \in b
  BY <1>5
<1>10. \/ a = {p} /\ {p} \notin UNION merged
       \/ \E g \in merged : {p} \in g /\ a = UNION g
  BY <1>7, <1>9
<1>11. \/ b = {p} /\ {p} \notin UNION merged
       \/ \E g \in merged : {p} \in g /\ b = UNION g
  BY <1>7, <1>9
<1>12. a = b
  BY <1>8, <1>10, <1>11
<1> QED BY <1>5, <1>12

LEMMA InitOnce == Init => OnceInv
BY DEF Init, OnceInv, TimelineOnce, RenamedFits, GroupsApart

LEMMA RecordOnce ==
  ASSUME IInv, OnceInv, NEW p \in Pieces, Record(p)
  PROVE  OnceInv'
<1>1. renamed = {p} /\ renamed' = {} /\ worker' = worker /\ worker # "packing"
  BY DEF Record, IInv, PackingOwns
<1>2. \A a \in job.segs : \A q \in a : StationOf(q) = StationOf(p) => SlotOf(q) # SlotOf(p)
  BY <1>1 DEF OnceInv, RenamedFits, Overlaps, OfStation, Captured
<1>3. job'.segs \subseteq job.segs \cup {{p}}
  BY DEF Record, IInv, TypeOK
<1>4. TimelineOnce'
  <2> SUFFICES ASSUME NEW a \in job'.segs, NEW b \in job'.segs, NEW x \in a, NEW y \in b,
                      StationOf(x) = StationOf(y), SlotOf(x) = SlotOf(y)
               PROVE  a = b /\ x = y
    BY DEF TimelineOnce
  <2>1. CASE a \in job.segs /\ b \in job.segs
    BY <2>1 DEF OnceInv, TimelineOnce
  <2>2. CASE a = {p} /\ b = {p}
    BY <2>2
  <2>3. CASE a \in job.segs /\ b = {p}
    BY <1>2, <2>3
  <2>4. CASE a = {p} /\ b \in job.segs
    BY <1>2, <2>4
  <2> QED BY <1>3, <2>1, <2>2, <2>3, <2>4
<1> QED BY <1>1, <1>4 DEF OnceInv, RenamedFits, GroupsApart

LEMMA NextOnce == IInv /\ OnceInv /\ [Next]_vars => OnceInv'
<1> SUFFICES ASSUME IInv, OnceInv, [Next]_vars PROVE OnceInv'
  OBVIOUS
<1> USE DEF disk, records, packing
<1> job \in Jobs
  BY DEF IInv, TypeOK, Jobs
<1>1. ASSUME NEW p \in Pieces, Produce(p) \/ Probe(p) \/ Admit(p) PROVE OnceInv'
  <2>1. UNCHANGED <<job, worker, todo, merged>>
    BY <1>1 DEF Produce, Probe, Admit
  <2>2. RenamedFits'
    BY <1>1, <2>1 DEF Produce, Probe, Admit, OnceInv, RenamedFits, Overlaps, Captured
  <2> QED BY <2>1, <2>2 DEF OnceInv, TimelineOnce, GroupsApart
<1>2. ASSUME NEW p \in Pieces, Record(p) PROVE OnceInv'
  BY <1>2, RecordOnce
<1>3. CASE Finalize
  <2>1. job'.segs = PackedSegs \/ job' = job
    BY <1>3 DEF Finalize, Jobs
  <2>2. TimelineOnce'
    <3>1. CASE job' = job
      BY <3>1 DEF TimelineOnce, OnceInv
    <3>2. CASE job'.segs = PackedSegs
      BY <1>3, <3>2, PackedOnce DEF TimelineOnce, Finalize
    <3> QED BY <2>1, <3>1, <3>2
  <2>3. renamed' = {} /\ worker' # "packing"
    BY <1>3 DEF Finalize, Unlocked
  <2> QED BY <2>2, <2>3 DEF OnceInv, RenamedFits, GroupsApart
<1>4. CASE StartPacking
  <2>1. job.segs \subseteq Singles
    BY <1>4 DEF IInv, StartPacking, PublishedAlone, UnpublishedPlain
  <2>2. job'.segs = job.segs /\ renamed' = {}
    BY <1>4 DEF StartPacking, Unlocked, Jobs
  <2>3. GroupsApart'
    <3> SUFFICES ASSUME worker' = "packing", NEW g \in todo' \cup merged',
                        NEW h \in todo' \cup merged', g \cap h # {}
                 PROVE  g = h
      BY DEF GroupsApart
    <3>1. g \in Groups(job.segs) /\ h \in Groups(job.segs)
      BY <1>4 DEF StartPacking
    <3> QED BY <2>1, <3>1, GroupsDisjoint
  <2>4. TimelineOnce'
    BY <2>2 DEF OnceInv, TimelineOnce
  <2> QED BY <2>2, <2>3, <2>4 DEF OnceInv, RenamedFits
<1>5. ASSUME NEW g \in todo, Compact(g) PROVE OnceInv'
  <2>1. UNCHANGED <<job, worker, renamed>> /\ todo' \cup merged' \subseteq todo \cup merged
    BY <1>5 DEF Compact
  <2> QED BY <2>1 DEF OnceInv, TimelineOnce, RenamedFits, Overlaps, Captured, GroupsApart
<1>6. CASE Stop \/ Delete
  <2>1. job'.segs = job.segs /\ renamed' = renamed /\ renamed = {}
    BY <1>6 DEF Stop, Delete, Unlocked, Jobs
  <2>2. UNCHANGED <<worker, todo, merged>>
    BY <1>6 DEF Stop, Delete
  <2> QED BY <2>1, <2>2 DEF OnceInv, TimelineOnce, RenamedFits, GroupsApart
<1>7. CASE \/ StartCapture \/ RemoveStaging \/ Launch \/ Cleanup \/ Restart \/ UNCHANGED vars
           \/ \E a \in unlinking : Unlink(a)
  <2>1. /\ job' = job /\ renamed' \subseteq renamed
        /\ worker' = "packing" => UNCHANGED <<worker, todo, merged>>
    BY <1>7 DEF StartCapture, RemoveStaging, Launch, Cleanup, Restart, Unlink, vars
  <2> QED BY <2>1 DEF OnceInv, TimelineOnce, RenamedFits, Overlaps, Captured, GroupsApart
<1> QED BY <1>1, <1>2, <1>3, <1>4, <1>5, <1>6, <1>7 DEF Next

\* No station's audio is published twice for one moment, over any number of capture
\* attempts, crashes and merges.
THEOREM RecordedOnce == Spec => []TimelineOnce
<1>1. OnceInv => TimelineOnce
  BY DEF OnceInv
<1> QED BY Invariance, InitOnce, NextOnce, <1>1, PTL DEF Spec

-----------------------------------------------------------------------------
(* The reservation is kept                                                  *)

\* The lock is held between the quota check and the transaction.
RenamedWithin == \A p \in renamed : ~OverQuota(p)
QuotaInv == IsFiniteSet(Captured) /\ ReservationKept /\ RenamedWithin

LEMMA ShareNat == Reserved \div Cardinality(Stations) \in Nat
<1>1. Cardinality(Stations) \in Nat \ {0}
  BY AssetConstantsOK, FS_CardinalityType, FS_EmptySet
<1>2. Reserved \in Nat
  BY AssetConstantsOK
<1> QED BY <1>1, <1>2

\* What counts against the reservation is the audio, however it is cut into assets.
LEMMA SameAudio ==
  ASSUME QuotaInv, Captured' = Captured, renamed' \subseteq renamed
  PROVE  QuotaInv'
BY DEF QuotaInv, ReservationKept, RenamedWithin, OverQuota, OfStation

LEMMA InitQuota == Init => QuotaInv
<1> SUFFICES ASSUME Init PROVE QuotaInv
  OBVIOUS
<1>1. Captured = {} /\ renamed = {}
  BY DEF Init, Captured
<1>2. \A s \in Stations : OfStation(s, Captured) = {}
  BY <1>1 DEF OfStation
<1> QED
  BY <1>1, <1>2, FS_EmptySet, ShareNat, AssetConstantsOK DEF QuotaInv, ReservationKept,
     RenamedWithin

LEMMA RecordQuota ==
  ASSUME IInv, QuotaInv, NEW p \in Pieces, Record(p)
  PROVE  QuotaInv'
<1>1. renamed = {p} /\ renamed' = {} /\ ~OverQuota(p)
  BY DEF Record, QuotaInv, RenamedWithin
<1>2. Captured' = Captured \/ Captured' = Captured \cup {p}
  <2> job \in Jobs
    BY DEF IInv, TypeOK, Jobs
  <2>1. job'.segs = job.segs \/ job'.segs = job.segs \cup {{p}}
    BY DEF Record, Jobs
  <2> QED BY <2>1 DEF Captured
<1>3. CASE Captured' = Captured
  BY <1>1, <1>3, SameAudio
<1>4. CASE Captured' = Captured \cup {p}
  <2>1. /\ IsFiniteSet(Captured') /\ Cardinality(Captured) \in Nat
        /\ Cardinality(Captured') <= Cardinality(Captured) + 1
    <3>1. IsFiniteSet(Captured)
      BY DEF QuotaInv
    <3>2. Cardinality(Captured) \in Nat
      BY <3>1, FS_CardinalityType
    <3>3. /\ IsFiniteSet(Captured \cup {p})
          /\ Cardinality(Captured \cup {p}) = Cardinality(Captured)
             \/ Cardinality(Captured \cup {p}) = Cardinality(Captured) + 1
      BY <3>1, FS_AddElement
    <3> QED BY <1>4, <3>2, <3>3
  <2>2. Cardinality(Captured) + 1 <= Reserved
    BY <1>1, <2>1, AssetConstantsOK DEF OverQuota
  <2>3. ASSUME NEW s \in Stations
        PROVE  Cardinality(OfStation(s, Captured')) <= Reserved \div Cardinality(Stations)
    <3>1. IsFiniteSet(OfStation(s, Captured)) /\ Cardinality(OfStation(s, Captured)) \in Nat
      BY FS_Subset, FS_CardinalityType DEF QuotaInv, OfStation
    <3>2. CASE s # StationOf(p)
      <4>1. OfStation(s, Captured') = OfStation(s, Captured)
        BY <1>4, <3>2 DEF OfStation
      <4> QED BY <4>1 DEF QuotaInv, ReservationKept
    <3>3. CASE s = StationOf(p)
      <4>1. OfStation(s, Captured') = OfStation(s, Captured) \cup {p}
        BY <1>4, <3>3 DEF OfStation
      <4>2. Cardinality(OfStation(s, Captured')) <= Cardinality(OfStation(s, Captured)) + 1
            /\ Cardinality(OfStation(s, Captured')) \in Nat
        <5>1. Cardinality(OfStation(s, Captured) \cup {p}) = Cardinality(OfStation(s, Captured))
              \/ Cardinality(OfStation(s, Captured) \cup {p})
                   = Cardinality(OfStation(s, Captured)) + 1
          BY <3>1, FS_AddElement
        <5> QED BY <3>1, <4>1, <5>1
      <4>3. Cardinality(OfStation(s, Captured)) + 1 <= Reserved \div Cardinality(Stations)
        BY <1>1, <3>1, <3>3, ShareNat DEF OverQuota
      <4> QED BY <3>1, <4>2, <4>3, ShareNat
    <3> QED BY <3>2, <3>3
  <2>4. Cardinality(Captured') <= Reserved
    BY <1>4, <2>1, <2>2, FS_CardinalityType, AssetConstantsOK
  <2> QED BY <1>1, <2>1, <2>3, <2>4 DEF QuotaInv, ReservationKept, RenamedWithin
<1> QED BY <1>2, <1>3, <1>4

LEMMA NextQuota == IInv /\ QuotaInv /\ [Next]_vars => QuotaInv'
<1> SUFFICES ASSUME IInv, QuotaInv, [Next]_vars PROVE QuotaInv'
  OBVIOUS
<1> USE DEF disk, records, packing
<1> job \in Jobs
  BY DEF IInv, TypeOK, Jobs
<1>1. ASSUME NEW p \in Pieces, Record(p) PROVE QuotaInv'
  BY <1>1, RecordQuota
<1>2. ASSUME NEW p \in Pieces, Produce(p) \/ Probe(p) PROVE QuotaInv'
  BY <1>2, SameAudio DEF Produce, Probe, Captured
<1>3. ASSUME NEW p \in Pieces, Admit(p) PROVE QuotaInv'
  <2>1. job' = job
    BY <1>3 DEF Admit
  <2>3. renamed' = renamed \/ (renamed' = {p} /\ ~OverQuota(p))
    BY <1>3, Zenon DEF Admit
  <2>2. Captured' = Captured
    BY <2>1 DEF Captured
  <2> QED
    BY <2>2, <2>3 DEF QuotaInv, ReservationKept, RenamedWithin, OverQuota, OfStation
<1>4. CASE Finalize
  <2>1. UNION PackedSegs = Captured
    BY <1>4, PackedSegments DEF IInv, Finalize
  <2>2. job'.segs = PackedSegs \/ job' = job
    BY <1>4 DEF Finalize, Jobs
  <2>3. renamed' = renamed
    BY <1>4 DEF Finalize
  <2> QED BY <2>1, <2>2, <2>3, SameAudio DEF Captured
<1>5. CASE Stop \/ StartPacking \/ Delete
  <2>1. job'.segs = job.segs /\ renamed' = renamed
    BY <1>5 DEF Stop, StartPacking, Delete, Jobs
  <2> QED BY <2>1, SameAudio DEF Captured
<1>6. CASE \/ StartCapture \/ RemoveStaging \/ Launch \/ Cleanup \/ Restart \/ UNCHANGED vars
           \/ \E g \in todo : Compact(g)
           \/ \E a \in unlinking : Unlink(a)
  <2>1. job' = job /\ renamed' \subseteq renamed
    BY <1>6 DEF StartCapture, RemoveStaging, Launch, Cleanup, Restart, Compact, Unlink, vars
  <2> QED BY <2>1, SameAudio DEF Captured
<1> QED BY <1>1, <1>2, <1>3, <1>4, <1>5, <1>6 DEF Next

\* However many stations are recovered at once, crash and are resumed, the session stays
\* within its reservation and each station within its share of it.
THEOREM ReservationHolds == Spec => []ReservationKept
<1>1. QuotaInv => ReservationKept
  BY DEF QuotaInv
<1> QED BY Invariance, InitQuota, NextQuota, <1>1, PTL DEF Spec

-----------------------------------------------------------------------------
(* Playback: the timeline and the greatest and least of finite sets         *)

LEMMA LargerOf ==
  ASSUME NEW t \in Int, NEW u \in Int
  PROVE  Later(t, u) = IF t >= u THEN t ELSE u
<1> DEFINE m == IF t >= u THEN t ELSE u
<1>1. m \in {t, u} /\ \A y \in {t, u} : m >= y
  OBVIOUS
<1>2. Later(t, u) \in {t, u} /\ \A y \in {t, u} : Later(t, u) >= y
  BY <1>1 DEF Later, Max
<1> QED BY <1>1, <1>2

LEMMA SmallerOf ==
  ASSUME NEW t \in Int, NEW u \in Int
  PROVE  Min({t, u}) = IF t <= u THEN t ELSE u
<1> DEFINE m == IF t <= u THEN t ELSE u
           k == Min({t, u})
<1>1. m \in {t, u} /\ \A y \in {t, u} : m <= y
  OBVIOUS
<1>2. k \in {t, u} /\ \A y \in {t, u} : k <= y
  BY <1>1 DEF Min
<1> HIDE DEF k
<1>3. k = IF t <= u THEN t ELSE u
  BY <1>1, <1>2
<1> QED BY <1>3 DEF k

LEMMA LeastIndex ==
  ASSUME NEW S \in SUBSET (Nat \ {0})
  PROVE  \/ S = {} /\ FirstOf(S) = 0
         \/ FirstOf(S) \in S /\ \A i \in S : FirstOf(S) <= i
<1> SUFFICES ASSUME S # {}
             PROVE  FirstOf(S) \in S /\ \A i \in S : FirstOf(S) <= i
  BY DEF FirstOf
<1>1. IsWellFoundedOn(OpToRel(<, Nat), Nat)
  BY NatLessThanWellFounded
<1>2. PICK m \in S : \A i \in S : <<i, m>> \notin OpToRel(<, Nat)
  BY <1>1, WFMin
<1>3. \A i \in S : m <= i
  <2> SUFFICES ASSUME NEW i \in S PROVE ~(i < m)
    OBVIOUS
  <2> QED BY <1>2 DEF OpToRel
<1> QED BY <1>3 DEF FirstOf, Min

\* The segments of a track follow one another.
Ordered(s) ==
  /\ DOMAIN Timeline[s] \subseteq Nat \ {0}
  /\ \A i \in DOMAIN Timeline[s] :
       /\ Timeline[s][i].from \in Times /\ Timeline[s][i].to \in Times
       /\ Timeline[s][i].from < Timeline[s][i].to
  /\ \A i, j \in DOMAIN Timeline[s] : i < j => Timeline[s][i].to <= Timeline[s][j].from

LEMMA SequenceMembers ==
  ASSUME NEW R, NEW q \in Seq(R)
  PROVE  Len(q) \in Nat /\ DOMAIN q = 1 .. Len(q) /\ \A i \in 1 .. Len(q) : q[i] \in R
OBVIOUS

LEMMA TracksOrdered ==
  ASSUME NEW s \in Tracks
  PROVE  Ordered(s)
<1> DEFINE T == Timeline[s]
           n == Len(T)
<1>1. /\ T \in Seq([from : Times, to : Times])
      /\ \A i \in DOMAIN T : T[i].from < T[i].to /\ (i > 1 => T[i - 1].to <= T[i].from)
  BY FlightConstantsOK
<1> HIDE DEF T
<1>2. n \in Nat /\ DOMAIN T = 1 .. n /\ \A i \in 1 .. n : T[i] \in [from : Times, to : Times]
  BY <1>1, SequenceMembers
<1> HIDE DEF n
<1>3. Times \subseteq Nat
  BY FlightConstantsOK DEF Times
<1>4. \A i \in 1 .. n : /\ T[i].from \in Nat /\ T[i].to \in Nat /\ T[i].from < T[i].to
                        /\ T[i].from \in Times /\ T[i].to \in Times
                        /\ i > 1 => T[i - 1].to <= T[i].from
  BY <1>1, <1>2, <1>3
<1>5. \A i, j \in 1 .. n : i < j => T[i].to <= T[j].from
  <2> DEFINE Wrong == {j \in 1 .. n : \E i \in 1 .. n : i < j /\ ~(T[i].to <= T[j].from)}
  <2> SUFFICES ASSUME Wrong # {} PROVE FALSE
    OBVIOUS
  <2>1. Wrong \subseteq 1 .. n /\ 1 .. n \subseteq Nat
    BY <1>2
  <2>2. PICK j \in Wrong : \A k \in Wrong : <<k, j>> \notin OpToRel(<, Nat)
    <3>1. IsWellFoundedOn(OpToRel(<, Nat), Nat)
      BY NatLessThanWellFounded
    <3> QED BY <2>1, <3>1, WFMin
  <2>3. PICK i \in 1 .. n : i < j /\ ~(T[i].to <= T[j].from)
    OBVIOUS
  <2>4. \A k \in Wrong : ~(k < j)
    <3> HIDE DEF Wrong
    <3> QED BY <2>1, <2>2 DEF OpToRel
  <2>5. j \in 1 .. n /\ j - 1 \in 1 .. n /\ T[j - 1].to <= T[j].from
    <3>1. j \in 1 .. n
      BY <2>1
    <3> HIDE DEF Wrong
    <3>2. j \in Nat /\ i \in Nat /\ 1 <= i /\ i < j /\ j <= n
      BY <1>2, <2>3, <3>1
    <3>3. j - 1 \in 1 .. n
      BY <1>2, <3>2
    <3>4. T[j - 1].to <= T[j].from
      BY <1>4, <3>1, <3>2
    <3> QED BY <3>1, <3>3, <3>4
  <2>6. i < j - 1
    BY <2>1, <2>3, <2>5
  <2>7. T[i].to <= T[j - 1].from
    BY <2>1, <2>3, <2>4, <2>5, <2>6
  <2>8. T[j - 1].from < T[j - 1].to /\ {T[i].to, T[j - 1].from, T[j - 1].to, T[j].from} \subseteq Nat
    BY <1>4, <2>5
  <2> QED BY <2>3, <2>5, <2>7, <2>8
<1> QED BY <1>2, <1>4, <1>5 DEF Ordered, T

-----------------------------------------------------------------------------
(* Playback: the inductive invariant                                        *)

Segs(s) == DOMAIN Timeline[s] \cup {0}
Playbacks(s) == [on : BOOLEAN, station : Tracks, offset : Times, paused : BOOLEAN,
                 loading : BOOLEAN, gap : BOOLEAN, waiting : Segs(s)]
Buffers(s) == [opened : BOOLEAN, fetching : Segs(s), target : Times, until : Nat,
               have : SUBSET DOMAIN Timeline[s], cut : Times, active : Segs(s),
               retry : BOOLEAN]
Awaited(s) == [kind : {"none", "open", "leave", "seek"}, seg : Segs(s), pos : Times,
               at : {"none", "source", "fetch", "fill", "attach"}]
Audios == [src : {"none", "recording", "other"}, playing : BOOLEAN, time : Times]

\* What the listener's commands and failures leave behind.
Kept ==
  /\ window \in Windows /\ saved \in [pos : Times, station : Tracks]
  /\ commands \in [toggle : 0 .. MaxCommands, other : 0 .. MaxCommands]
  /\ failures \in 0 .. MaxFailures

\* Every segment the player speaks of is one of the chosen station's.
Typed ==
  /\ continuous \in BOOLEAN /\ asked \in BOOLEAN
  /\ playback \in Playbacks(playback.station) /\ buffer \in Buffers(playback.station)
  /\ task \in Awaited(playback.station) /\ audio \in Audios /\ clock \in Times

Closed == ~playback.on => playback = Off /\ buffer = NoBuffer /\ task = NoTask
AskedOnce == asked => ~playback.on

\* The first segment that ends after t.
NextAfter(s, t) == FirstOf({i \in DOMAIN Timeline[s] : Timeline[s][i].to > t})

\* Whatever it waits for, an await still belongs to the place the playback has.
Opening ==
  /\ task.at \in {"source", "fetch", "attach"}
  /\ task.at # "source" =>
       task.seg # 0 /\ task.seg = NextAfter(playback.station, playback.offset)
  /\ task.pos = IF task.at = "attach" THEN Later(playback.offset, From(task.seg))
                ELSE playback.offset
Leaving ==
  /\ task.at \in {"fill", "attach"} /\ task.seg # 0
  /\ task.pos = playback.offset /\ playback.offset = From(task.seg)
Seeking ==
  /\ task.at = "attach" /\ task.seg # 0 /\ task.pos = playback.offset
  /\ From(task.seg) <= task.pos /\ task.pos < To(task.seg)
Awaits ==
  /\ task.kind = "none" => task.at = "none"
  /\ task.kind # "none" => playback.loading /\ ~playback.gap /\ playback.waiting = 0
  /\ task.kind = "open" => Opening
  /\ task.kind = "leave" => Leaving
  /\ task.kind = "seek" => Seeking
  /\ task.at = "attach" => ~continuous /\ (audio.playing => audio.src # "recording")

\* A missing segment is waited for at its start.
Missing == playback.waiting # 0 => playback.offset = From(playback.waiting) /\ ~playback.gap
\* The audio of a paused playback stands at the playback's place.
AtRest ==
  /\ playback.on /\ playback.paused /\ ~playback.loading /\ ~playback.gap
  /\ playback.waiting = 0
  => audio.time = playback.offset
\* The element plays recorded audio only for a playback that goes on.
Quiet ==
  audio.src = "recording" /\ audio.playing
  => playback.on /\ ~playback.paused /\ (playback.loading => task.kind = "leave")
\* A gap began where no segment is going on, and its clock stops at the next one, when no
\* tick is late.
Gaps ==
  Late = 0 /\ playback.gap /\ ~playback.loading =>
    /\ \A i \in Segments : From(i) < playback.offset => To(i) <= playback.offset
    /\ ~playback.paused =>
         /\ playback.offset + clock <= Duration
         /\ \A i \in Segments : From(i) >= playback.offset => playback.offset + clock <= From(i)

Player == /\ Typed /\ Closed /\ AskedOnce /\ Awaits /\ Missing /\ AtRest /\ Quiet /\ Gaps
FlightInv == Player /\ Kept

-----------------------------------------------------------------------------
(* Playback: places and buffers                                             *)

LEMMA TimesNat == Times \subseteq Nat /\ Duration \in Nat /\ 0 \in Times /\ Duration \in Times
                  /\ \A t \in Times : t <= Duration
BY FlightConstantsOK DEF Times

LEMMA TrackFacts ==
  ASSUME NEW s \in Tracks
  PROVE  /\ \A i \in DOMAIN Timeline[s] :
              /\ i \in Nat /\ i # 0 /\ Timeline[s][i].from \in Nat /\ Timeline[s][i].to \in Nat
              /\ Timeline[s][i].from \in Times /\ Timeline[s][i].to \in Times
              /\ Timeline[s][i].from < Timeline[s][i].to /\ Timeline[s][i].to <= Duration
         /\ \A i, j \in DOMAIN Timeline[s] : i < j => Timeline[s][i].to <= Timeline[s][j].from
BY TracksOrdered, TimesNat DEF Ordered

LEMMA NextAfterIs ==
  ASSUME NEW s \in Tracks, NEW t \in Times
  PROVE  /\ NextAfter(s, t) \in Segs(s)
         /\ NextAfter(s, t) # 0 => Timeline[s][NextAfter(s, t)].to > t
         /\ \A i \in DOMAIN Timeline[s] :
              Timeline[s][i].to > t => NextAfter(s, t) # 0 /\ NextAfter(s, t) <= i
<1> DEFINE S == {i \in DOMAIN Timeline[s] : Timeline[s][i].to > t}
<1>1. S \in SUBSET (Nat \ {0}) /\ S \subseteq DOMAIN Timeline[s]
  BY TracksOrdered DEF Ordered
<1>2. NextAfter(s, t) = FirstOf(S)
  BY DEF NextAfter
<1>3. \A i : i \in S <=> i \in DOMAIN Timeline[s] /\ Timeline[s][i].to > t
  OBVIOUS
<1> HIDE DEF S
<1>4. \/ S = {} /\ FirstOf(S) = 0
      \/ FirstOf(S) \in S /\ \A i \in S : FirstOf(S) <= i
  BY <1>1, LeastIndex
<1> QED BY <1>1, <1>2, <1>3, <1>4 DEF Segs

\* Where the playback is.
Located ==
  /\ Position \in Times
  /\ Position = IF playback.loading \/ playback.waiting # 0 THEN playback.offset
                ELSE IF ~playback.gap THEN audio.time
                ELSE IF playback.paused THEN playback.offset
                ELSE IF playback.offset + clock <= Duration THEN playback.offset + clock
                ELSE Duration

LEMMA PlaceKnown == Typed => Located
<1> SUFFICES ASSUME Typed PROVE Located
  OBVIOUS
<1> DEFINE q == IF playback.loading \/ playback.waiting # 0 THEN playback.offset
                ELSE IF playback.gap THEN playback.offset + (IF playback.paused THEN 0 ELSE clock)
                ELSE audio.time
<1>1. /\ playback.offset \in Times /\ audio.time \in Times /\ clock \in Times
      /\ playback.loading \in BOOLEAN /\ playback.gap \in BOOLEAN /\ playback.paused \in BOOLEAN
  BY DEF Typed, Playbacks, Audios
<1> DEFINE o == playback.offset
           c == clock
           a == audio.time
<1> HIDE DEF o, c, a
<1>2. o \in Nat /\ c \in Nat /\ a \in Nat /\ o <= Duration /\ a <= Duration
  BY <1>1, TimesNat DEF o, c, a
<1>3. q \in Nat
  <2>1. q = IF playback.loading \/ playback.waiting # 0 THEN o
            ELSE IF playback.gap THEN (IF playback.paused THEN o ELSE o + c) ELSE a
    BY <1>2, <1>1 DEF o, c, a
  <2> QED BY <1>2, <2>1
<1>4. Position = IF Duration <= q THEN Duration ELSE q
  BY <1>3, SmallerOf, TimesNat DEF Position
<1>5. q = IF playback.loading \/ playback.waiting # 0 THEN o
          ELSE IF ~playback.gap THEN a ELSE IF playback.paused THEN o ELSE o + c
  BY <1>2, <1>1 DEF o, c, a
<1> HIDE DEF q
<1>6. Position = IF playback.loading \/ playback.waiting # 0 THEN o
                 ELSE IF ~playback.gap THEN a ELSE IF playback.paused THEN o
                 ELSE IF o + c <= Duration THEN o + c ELSE Duration
  BY <1>2, <1>4, <1>5, TimesNat
<1>7. Position \in Times
  BY <1>2, <1>6, TimesNat DEF Times
<1> QED BY <1>6, <1>7 DEF Located, o, c, a

\* A paused playback is at its offset.
LEMMA PausedPlace ==
  ASSUME Player, playback.on, playback.paused
  PROVE  Position = playback.offset
BY PlaceKnown DEF Player, Located, AtRest

LEMMA EvictTyped ==
  ASSUME NEW s \in Tracks, playback.station = s, continuous \in BOOLEAN, NEW b \in Buffers(s)
  PROVE  /\ Evict(b) \in Buffers(s) /\ Evict(b).active = b.active
         /\ Evict(b).opened = b.opened /\ Evict(b).have \subseteq b.have
<1> DEFINE floor == Later(0, b.target - Behind)
<1>1. b.target \in Times /\ Behind \in Nat
  BY FlightConstantsOK DEF Buffers
<1>2. floor \in Times
  BY <1>1, LargerOf, TimesNat DEF Times
<1> HIDE DEF floor
<1>3. Evict(b) \in {b, [b EXCEPT !.cut = floor, !.have = {i \in @ : To(i) > floor}],
                    [b EXCEPT !.have = {i \in @ : To(i) >= floor /\ From(i) <= b.until}]}
  BY DEF Evict, floor
<1> DEFINE h1 == {i \in b.have : To(i) > floor}
           h2 == {i \in b.have : To(i) >= floor /\ From(i) <= b.until}
<1>4. h1 \subseteq b.have /\ h2 \subseteq b.have /\ b.have \subseteq DOMAIN Timeline[s]
  BY DEF Buffers
<1>5. Evict(b) \in {b, [b EXCEPT !.cut = floor, !.have = h1], [b EXCEPT !.have = h2]}
  BY <1>3
<1> HIDE DEF h1, h2
<1> QED BY <1>2, <1>4, <1>5 DEF Buffers

LEMMA WantedTyped ==
  ASSUME NEW s \in Tracks, playback.station = s, NEW b
  PROVE  Wanted(b) \in Segs(s)
<1> DEFINE S == {i \in Segments : To(i) > b.target /\ From(i) < b.until /\ ~Has(b, i)}
<1>1. S \in SUBSET (Nat \ {0}) /\ S \subseteq DOMAIN Timeline[s]
  BY TracksOrdered DEF Ordered, Segments
<1>2. Wanted(b) = FirstOf(S)
  BY DEF Wanted
<1> HIDE DEF S
<1> QED BY <1>1, <1>2, LeastIndex DEF Segs

LEMMA PumpTyped ==
  ASSUME NEW s \in Tracks, playback.station = s, continuous \in BOOLEAN, NEW b \in Buffers(s)
  PROVE  Pump(b) \in Buffers(s) /\ Pump(b).active = b.active /\ Pump(b).opened = b.opened
<1> DEFINE e == Evict(b)
<1>1. e \in Buffers(s) /\ e.active = b.active /\ e.opened = b.opened
  BY EvictTyped
<1>2. Pump(b) = [e EXCEPT !.fetching = Wanted(e)]
  BY DEF Pump
<1> HIDE DEF e
<1>3. Wanted(e) \in Segs(s)
  BY WantedTyped
<1> QED BY <1>1, <1>2, <1>3 DEF Buffers

LEMMA FillTyped ==
  ASSUME NEW s \in Tracks, playback.station = s, continuous \in BOOLEAN, NEW b \in Buffers(s),
         NEW pos \in Times, NEW w \in Windows
  PROVE  /\ FillAhead(b, pos, w) \in Buffers(s)
         /\ FillAhead(b, pos, w).active = b.active /\ FillAhead(b, pos, w).opened = b.opened
<1> DEFINE t == [b EXCEPT !.target = pos]
           u == [t EXCEPT !.until = pos + w]
<1>1. t \in Buffers(s) /\ t.active = b.active /\ t.opened = b.opened
  BY DEF Buffers
<1>2. pos + w \in Nat
  BY TimesNat, FlightConstantsOK
<1>3. FillAhead(b, pos, w) \in {t, Pump(u)}
  BY DEF FillAhead
<1> HIDE DEF t
<1>4. u \in Buffers(s) /\ u.active = b.active /\ u.opened = b.opened
  BY <1>1, <1>2 DEF Buffers
<1> HIDE DEF u
<1> QED BY <1>1, <1>3, <1>4, PumpTyped

-----------------------------------------------------------------------------
(* Playback: what the parts of a step do to the player.  The listener hears  *)
(* of a step by the place, the station and the pause.                        *)

Chosen == IF playback.on THEN playback.station ELSE saved.station
\* The listener notices nothing, but perhaps that the playback has given up.
Still ==
  /\ playback'.on = playback.on /\ Chosen' = Chosen /\ Place' = Place
  /\ playback'.paused = playback.paused \/ (playback.on /\ playback'.paused)
\* A playback that is on stays on, at a place.
Stays(s, pos) == /\ playback'.on /\ playback'.station = s /\ Position' = pos

LEMMA PlaceKnownNext == Typed' => Located'
BY PlaceKnown, PTL

LEMMA CloseStep ==
  ASSUME Close, audio' \in Audios, audio'.src # "recording", asked' \in BOOLEAN,
         continuous' \in BOOLEAN
  PROVE  Player' /\ ~playback'.on /\ playback'.paused
<1>1. /\ playback' = Off /\ buffer' = NoBuffer /\ task' = NoTask /\ clock' = 0
  BY DEF Close
<1>2. 0 \in Times /\ First \in Tracks
  BY FlightConstantsOK, TimesNat
<1>3. playback' \in Playbacks(First) /\ playback'.station = First /\ ~playback'.on
      /\ playback'.paused /\ ~playback'.loading /\ ~playback'.gap /\ playback'.waiting = 0
  BY <1>1, <1>2 DEF Off, Playbacks, Segs
<1>4. buffer' \in Buffers(First)
  BY <1>1, <1>2 DEF NoBuffer, Buffers, Segs
<1>5. task' \in Awaited(First) /\ task'.kind = "none" /\ task'.at = "none"
  BY <1>1, <1>2 DEF NoTask, Awaited, Segs
<1>6. Typed'
  BY <1>1, <1>2, <1>3, <1>4, <1>5 DEF Typed
<1>7. Closed' /\ AskedOnce'
  BY <1>1, <1>3 DEF Closed, AskedOnce, Off, NoBuffer, NoTask
<1>8. Awaits' /\ Missing' /\ AtRest' /\ Quiet' /\ Gaps'
  BY <1>3, <1>5 DEF Awaits, Missing, AtRest, Quiet, Gaps
<1> QED BY <1>3, <1>6, <1>7, <1>8 DEF Player

LEMMA SelectStep ==
  ASSUME NEW s \in Tracks, NEW t, NEW p \in Playbacks(t), p.station = s, p.on,
         audio \in Audios, Select(p), continuous \in BOOLEAN, continuous' = continuous
  PROVE  Player' /\ Stays(s, p.offset) /\ playback'.paused = p.paused
<1>1. /\ playback' = [p EXCEPT !.loading = TRUE, !.gap = FALSE, !.waiting = 0]
      /\ buffer' = [NoBuffer EXCEPT !.target = p.offset]
      /\ task' = [kind |-> "open", at |-> "source", seg |-> 0, pos |-> p.offset]
      /\ audio' = [src |-> IF continuous THEN "recording" ELSE audio.src,
                   playing |-> FALSE, time |-> 0]
      /\ clock' = 0 /\ asked' = FALSE
  BY DEF Select
<1>2. 0 \in Times /\ p.offset \in Times
  BY TimesNat DEF Playbacks
<1>3. /\ playback' \in Playbacks(s) /\ playback'.station = s /\ playback'.on
      /\ playback'.offset = p.offset /\ playback'.paused = p.paused
      /\ playback'.loading /\ ~playback'.gap /\ playback'.waiting = 0
  BY <1>1, <1>2 DEF Playbacks, Segs
<1>4. buffer' \in Buffers(s)
  BY <1>1, <1>2 DEF NoBuffer, Buffers, Segs
<1>5. task' \in Awaited(s) /\ task'.kind = "open" /\ task'.at = "source" /\ task'.pos = p.offset
  BY <1>1, <1>2 DEF Awaited, Segs
<1>6. audio' \in Audios /\ ~audio'.playing
  BY <1>1, <1>2 DEF Audios
<1>7. Typed'
  BY <1>1, <1>2, <1>3, <1>4, <1>5, <1>6 DEF Typed
<1>8. Closed' /\ AskedOnce' /\ Missing' /\ AtRest' /\ Quiet' /\ Gaps'
  BY <1>1, <1>3, <1>6 DEF Closed, AskedOnce, Missing, AtRest, Quiet, Gaps
<1>9. Awaits'
  BY <1>3, <1>5 DEF Awaits, Opening
<1>10. Position' = p.offset
  BY <1>3, <1>7, PlaceKnownNext DEF Located
<1> QED BY <1>3, <1>7, <1>8, <1>9, <1>10 DEF Player, Stays

\* play() either succeeds, perhaps from the start of a file that was over, or pauses.
LEMMA ResumeIs ==
  ASSUME NEW s \in Tracks, NEW p \in Playbacks(s), NEW a \in Audios, Resume(p, a),
         playback.station = s, buffer' \in Buffers(s), failures \in 0 .. MaxFailures
  PROVE  /\ playback' \in Playbacks(s) /\ playback'.on = p.on /\ playback'.station = p.station
         /\ playback'.offset = p.offset /\ playback'.loading = p.loading
         /\ playback'.gap = p.gap /\ playback'.waiting = p.waiting
         /\ playback'.paused = p.paused \/ (playback'.paused /\ ~audio'.playing)
         /\ audio' \in Audios /\ audio'.src = a.src
         /\ audio'.playing => a.playing \/ (~playback'.paused /\ ~p.paused /\ ~p.gap)
         /\ \/ audio'.time = a.time
            \/ /\ ~p.gap /\ ~playback'.paused /\ ~continuous /\ buffer'.active # 0
               /\ a.time = To(buffer'.active) /\ audio'.time = From(buffer'.active)
         /\ failures' \in 0 .. MaxFailures
<1> DEFINE over == ~continuous /\ buffer'.active # 0 /\ a.time = To(buffer'.active)
           start == IF over THEN From(buffer'.active) ELSE a.time
<1>1. CASE p.paused \/ p.gap
  BY <1>1 DEF Resume
<1>2. CASE ~(p.paused \/ p.gap)
  <2>1. \/ /\ playback' = p /\ audio' = [a EXCEPT !.playing = TRUE, !.time = start]
           /\ failures' = failures
        \/ ~a.playing /\ playback' = [p EXCEPT !.paused = TRUE] /\ audio' = a /\ Fails
    BY <1>2 DEF Resume, Play
  <2>2. start \in Times
    <3>1. buffer'.active # 0 => buffer'.active \in DOMAIN Timeline[s]
      BY DEF Buffers, Segs
    <3> QED BY <3>1, TracksOrdered DEF Ordered, From, Audios
  <2>3. CASE /\ playback' = p /\ audio' = [a EXCEPT !.playing = TRUE, !.time = start]
             /\ failures' = failures
    <3> HIDE DEF start
    <3>1. audio' \in Audios /\ audio'.src = a.src /\ audio'.time = start /\ audio'.playing
      BY <2>2, <2>3 DEF Audios
    <3>2. start = a.time \/ (over /\ start = From(buffer'.active))
      BY DEF start
    <3> QED BY <1>2, <2>3, <3>1, <3>2
  <2>4. CASE ~a.playing /\ playback' = [p EXCEPT !.paused = TRUE] /\ audio' = a /\ Fails
    <3>1. failures' \in 0 .. MaxFailures
      BY <2>4, FlightConstantsOK DEF Fails
    <3> QED BY <2>4, <3>1 DEF Playbacks
  <2> QED BY <2>1, <2>3, <2>4
<1> QED BY <1>1, <1>2

\* An await or a seek ends at the place p says, in a gap or with the audio there.
LEMMA ResumeStep ==
  ASSUME NEW s \in Tracks, playback.station = s, NEW p \in Playbacks(s), p.station = s, p.on,
         ~p.loading, p.waiting = 0, NEW a \in Audios, Resume(p, a),
         a.src = "recording" /\ a.playing => ~p.paused,
         ~p.gap => /\ a.time = p.offset
                   /\ ~continuous /\ buffer'.active # 0 => a.time # To(buffer'.active),
         p.gap => clock' = 0,
         p.gap => \A i \in DOMAIN Timeline[s] :
                    Timeline[s][i].from < p.offset => Timeline[s][i].to <= p.offset,
         buffer' \in Buffers(s), task' \in Awaited(s), task'.kind = "none", task'.at = "none",
         clock' \in Times, asked' \in BOOLEAN, ~asked', continuous \in BOOLEAN, continuous' = continuous,
         failures \in 0 .. MaxFailures
  PROVE  /\ Player' /\ Stays(s, p.offset)
         /\ playback'.paused = p.paused \/ playback'.paused
<1>1. /\ playback' \in Playbacks(s) /\ playback'.on /\ playback'.station = s
      /\ playback'.offset = p.offset /\ ~playback'.loading
      /\ playback'.gap = p.gap /\ playback'.waiting = 0
      /\ playback'.paused = p.paused \/ (playback'.paused /\ ~audio'.playing)
      /\ audio' \in Audios /\ audio'.src = a.src
      /\ audio'.playing => a.playing \/ (~playback'.paused /\ ~p.paused /\ ~p.gap)
      /\ ~p.gap => audio'.time = p.offset
  BY ResumeIs
<1>2. Typed'
  BY <1>1 DEF Typed
<1>3. Closed' /\ AskedOnce' /\ Missing' /\ AtRest' /\ Awaits'
  BY <1>1 DEF Closed, AskedOnce, Missing, AtRest, Awaits
<1>4. Quiet'
  BY <1>1 DEF Quiet
<1>5. Gaps'
  <2>1. p.offset \in Nat /\ p.offset <= Duration
    BY TimesNat DEF Playbacks
  <2>2. playback'.offset + clock' = p.offset \/ ~p.gap
    BY <1>1, <2>1
  <2>3. \A i \in DOMAIN Timeline[s] : Timeline[s][i].from \in Nat
    BY TracksOrdered, TimesNat DEF Ordered
  <2> QED BY <1>1, <2>1, <2>2, <2>3 DEF Gaps, Segments, From, To
<1>6. Position' = p.offset
  <2>1. p.offset \in Nat /\ p.offset <= Duration
    BY TimesNat DEF Playbacks
  <2> QED BY <1>1, <1>2, <2>1, PlaceKnownNext DEF Located
<1> QED BY <1>1, <1>2, <1>3, <1>4, <1>5, <1>6 DEF Player, Stays

\* Only the buffer changes.
LEMMA BufferStep ==
  ASSUME Player, playback.on, buffer' \in Buffers(playback.station),
         UNCHANGED <<continuous, asked, playback, task, audio, clock>>
  PROVE  Player' /\ Position' = Position
<1>1. Typed'
  BY DEF Player, Typed
<1>2. Closed' /\ AskedOnce' /\ Missing' /\ AtRest' /\ Quiet'
  BY DEF Player, Closed, AskedOnce, Missing, AtRest, Quiet, From
<1>3. Awaits'
  BY DEF Player, Awaits, Opening, Leaving, Seeking, From, To
<1>4. Gaps'
  BY DEF Player, Gaps, Segments, From, To
<1>5. Position' = Position
  BY DEF Position
<1> QED BY <1>1, <1>2, <1>3, <1>4, <1>5 DEF Player

-----------------------------------------------------------------------------
(* Playback: the awaits of open() and of the buffer                         *)

LEMMA AwaitHeld ==
  ASSUME Player, task.kind # "none"
  PROVE  /\ playback.on /\ playback.loading /\ ~playback.gap /\ playback.waiting = 0 /\ ~asked
         /\ Position = playback.offset /\ Located
         /\ audio.src = "recording" /\ audio.playing => ~playback.paused /\ task.kind = "leave"
<1>1. playback.on
  BY DEF Player, Closed, NoTask
<1>2. Located
  BY PlaceKnown DEF Player
<1> QED BY <1>1, <1>2 DEF Player, Awaits, AskedOnce, Quiet, Located

LEMMA Unnoticed ==
  ASSUME playback.on, Stays(playback.station, Position),
         playback'.paused = playback.paused \/ playback'.paused
  PROVE  Still
BY DEF Still, Stays, Chosen, Place

\* A first segment that does not start by the offset begins a gap.
LEMMA GapBefore ==
  ASSUME NEW s \in Tracks, NEW t \in Times, NEW seg, seg = NextAfter(s, t),
         seg = 0 \/ Timeline[s][seg].from > t
  PROVE  \A i \in DOMAIN Timeline[s] : Timeline[s][i].from < t => Timeline[s][i].to <= t
<1> SUFFICES ASSUME NEW i \in DOMAIN Timeline[s], Timeline[s][i].from < t, Timeline[s][i].to > t
             PROVE  FALSE
  BY TrackFacts, TimesNat
<1>1. seg # 0 /\ seg <= i /\ seg \in DOMAIN Timeline[s] /\ Timeline[s][seg].from > t
  BY NextAfterIs DEF Segs
<1>2. t \in Nat /\ seg \in Nat /\ i \in Nat /\ Timeline[s][seg].from \in Nat
      /\ Timeline[s][seg].to \in Nat /\ Timeline[s][i].from \in Nat
      /\ Timeline[s][seg].from < Timeline[s][seg].to
  BY <1>1, TrackFacts, TimesNat
<1>3. seg # i /\ seg < i
  BY <1>1, <1>2
<1>4. Timeline[s][seg].to <= Timeline[s][i].from
  BY <1>1, <1>3, TrackFacts
<1> QED BY <1>1, <1>2, <1>4

LEMMA OpenedStep ==
  ASSUME Player, Kept, task.kind = "open", NEW b \in Buffers(playback.station),
         NEW seg, seg = NextAfter(playback.station, playback.offset),
         NEW a \in Audios, a.src = audio.src, a.playing = audio.playing, Opened(b, seg, a),
         seg # 0 /\ From(seg) <= playback.offset =>
            /\ a.time = playback.offset
            /\ ~continuous /\ b.active # 0 => a.time # To(b.active),
         continuous' = continuous, asked' = asked
  PROVE  Player' /\ Still
<1> DEFINE s == playback.station
           gap == (seg = 0) \/ From(seg) > playback.offset
           p == [playback EXCEPT !.loading = FALSE, !.gap = gap]
           c == [b EXCEPT !.opened = TRUE]
<1>1. /\ s \in Tracks /\ playback \in Playbacks(s) /\ continuous \in BOOLEAN /\ asked \in BOOLEAN
      /\ playback.offset \in Times /\ window \in Windows /\ failures \in 0 .. MaxFailures
  BY DEF Player, Typed, Playbacks, Kept
<1>2. /\ playback.on /\ ~asked /\ playback.waiting = 0 /\ Position = playback.offset
      /\ ~(audio.src = "recording" /\ audio.playing)
  BY AwaitHeld
<1>3. c \in Buffers(s) /\ c.active = b.active
  BY DEF Buffers
<1>4. buffer' = FillAhead(c, playback.offset, window) /\ task' = NoTask /\ clock' = 0 /\ Resume(p, a)
  BY DEF Opened, Fill
<1> HIDE DEF c
<1>5. buffer' \in Buffers(s) /\ buffer'.active = b.active
  BY <1>1, <1>3, <1>4, FillTyped
<1>6. task' \in Awaited(s) /\ task'.kind = "none" /\ task'.at = "none" /\ clock' \in Times
  BY <1>4, TimesNat DEF NoTask, Awaited, Segs
<1>7. p \in Playbacks(s) /\ p.station = s /\ p.on /\ ~p.loading /\ p.waiting = 0
      /\ p.offset = playback.offset /\ p.paused = playback.paused /\ p.gap = gap
  BY <1>1, <1>2 DEF Playbacks
<1>8. ~gap => seg # 0 /\ From(seg) <= playback.offset
  <2>1. seg # 0 => seg \in DOMAIN Timeline[s]
    BY <1>1, NextAfterIs DEF Segs
  <2>2. seg # 0 => From(seg) \in Nat /\ playback.offset \in Nat
    BY <1>1, <2>1, TrackFacts, TimesNat DEF From
  <2> QED BY <2>2
<1>9. gap => \A i \in DOMAIN Timeline[s] :
               Timeline[s][i].from < playback.offset => Timeline[s][i].to <= playback.offset
  BY <1>1, GapBefore DEF From
<1> HIDE DEF p, gap
<1>10. Player' /\ Stays(s, p.offset) /\ (playback'.paused = p.paused \/ playback'.paused)
  <2>1. ~p.gap => /\ a.time = p.offset
                  /\ ~continuous /\ buffer'.active # 0 => a.time # To(buffer'.active)
    BY <1>5, <1>7, <1>8
  <2>2. p.gap => \A i \in DOMAIN Timeline[s] :
                    Timeline[s][i].from < p.offset => Timeline[s][i].to <= p.offset
    BY <1>7, <1>9
  <2>3. asked' \in BOOLEAN /\ ~asked' /\ ~(a.src = "recording" /\ a.playing)
    BY <1>1, <1>2
  <2> HIDE DEF s
  <2>4. playback.station = s
    BY DEF s
  <2> QED BY <1>1, <1>4, <1>5, <1>6, <1>7, <2>1, <2>2, <2>3, <2>4, ResumeStep
<1> QED BY <1>2, <1>7, <1>10, Unnoticed

LEMMA SegAfterIs ==
  SegAfter(playback.offset) = NextAfter(playback.station, playback.offset)
BY DEF SegAfter, NextAfter, Segments, To

LEMMA SourceOpensStep ==
  ASSUME Player, Kept, SourceOpens
  PROVE  Player' /\ Still
<1> DEFINE s == playback.station
           seg == NextAfter(s, playback.offset)
<1>1. /\ s \in Tracks /\ playback \in Playbacks(s) /\ buffer \in Buffers(s) /\ audio \in Audios
      /\ task \in Awaited(s) /\ playback.offset \in Times
  BY DEF Player, Typed, Playbacks
<1>2. task.kind = "open" /\ task.at = "source" /\ task.pos = playback.offset
  BY DEF SourceOpens, Player, Awaits, Opening
<1>3. /\ playback.on /\ playback.loading /\ ~playback.gap /\ playback.waiting = 0 /\ ~asked
      /\ Position = playback.offset /\ ~(audio.src = "recording" /\ audio.playing)
  BY <1>2, AwaitHeld
<1>4. SegAfter(task.pos) = seg
  BY <1>2, SegAfterIs
<1>5. UserIdle
  BY DEF SourceOpens
<1>6. CASE seg = 0
  <2>1. Opened(buffer, 0, audio)
    BY <1>4, <1>6 DEF SourceOpens
  <2> QED BY <1>1, <1>2, <1>5, <1>6, <2>1, OpenedStep DEF UserIdle
<1>7. CASE seg # 0
  <2>1. /\ task' = [task EXCEPT !.at = "fetch", !.seg = seg]
        /\ UNCHANGED <<playback, buffer, audio, clock>>
    BY <1>4, <1>7 DEF SourceOpens
  <2>2. seg \in Segs(s)
    BY <1>1, NextAfterIs
  <2> HIDE DEF seg
  <2>3. task' \in Awaited(s) /\ task'.kind = "open" /\ task'.at = "fetch" /\ task'.seg = seg
        /\ task'.pos = playback.offset
    BY <1>1, <1>2, <2>1, <2>2 DEF Awaited
  <2>4. Typed'
    BY <1>5, <2>1, <2>3 DEF Player, Typed, UserIdle
  <2>5. Closed' /\ AskedOnce' /\ Missing' /\ AtRest' /\ Quiet' /\ Gaps'
    BY <1>3, <1>5, <2>1 DEF Player, UserIdle, Closed, AskedOnce, Missing, AtRest, Quiet, Gaps
  <2>6. Awaits'
    BY <1>3, <1>7, <2>1, <2>3 DEF Awaits, Opening, seg
  <2>7. Still
    BY <1>5, <2>1 DEF UserIdle, Still, Chosen, Place, Position
  <2> QED BY <2>4, <2>5, <2>6, <2>7 DEF Player
<1> QED BY <1>6, <1>7

\* The end of an await of open(): the segment it fetched is the one after the offset.
LEMMA OpeningSegment ==
  ASSUME Player, task.kind = "open", task.at # "source"
  PROVE  /\ playback.station \in Tracks /\ playback.offset \in Times
         /\ task.seg \in DOMAIN Timeline[playback.station]
         /\ task.seg = NextAfter(playback.station, playback.offset)
         /\ To(task.seg) > playback.offset /\ From(task.seg) \in Times /\ To(task.seg) \in Times
         /\ From(task.seg) < To(task.seg)
<1> DEFINE s == playback.station
<1>1. s \in Tracks /\ playback.offset \in Times /\ task.seg \in Segs(s)
  BY DEF Player, Typed, Playbacks, Awaited
<1>2. task.seg # 0 /\ task.seg = NextAfter(s, playback.offset)
  BY DEF Player, Awaits, Opening
<1>3. task.seg \in DOMAIN Timeline[s]
  BY <1>1, <1>2 DEF Segs
<1> QED BY <1>1, <1>2, <1>3, NextAfterIs, TracksOrdered DEF Ordered, From, To

LEMMA FirstFetchedStep ==
  ASSUME Player, Kept, FirstFetched
  PROVE  Player' /\ Still
<1> DEFINE s == playback.station
           b == [buffer EXCEPT !.have = {task.seg}]
           place == Later(task.pos, From(task.seg))
<1>1. /\ playback \in Playbacks(s) /\ buffer \in Buffers(s) /\ audio \in Audios
      /\ task \in Awaited(s) /\ task.kind = "open" /\ task.at = "fetch" /\ UserIdle
  BY DEF Player, Typed, FirstFetched
<1>2. /\ s \in Tracks /\ playback.offset \in Times /\ task.seg \in DOMAIN Timeline[s]
      /\ task.seg = NextAfter(s, playback.offset) /\ To(task.seg) > playback.offset
      /\ From(task.seg) \in Times /\ To(task.seg) \in Times /\ From(task.seg) < To(task.seg)
  BY <1>1, OpeningSegment
<1>3. task.pos = playback.offset
  BY <1>1 DEF Player, Awaits, Opening
<1>4. place = IF playback.offset >= From(task.seg) THEN playback.offset ELSE From(task.seg)
  <2>1. \A t \in Times : t \in Int
    BY TimesNat
  <2>2. playback.offset \in Int /\ From(task.seg) \in Int
    BY <1>2, <2>1
  <2> QED BY <1>3, <2>2, LargerOf
<1>5. b \in Buffers(s)
  BY <1>1, <1>2 DEF Buffers
<1>6. /\ playback.on /\ playback.loading /\ ~playback.gap /\ playback.waiting = 0 /\ ~asked
      /\ Position = playback.offset /\ ~(audio.src = "recording" /\ audio.playing)
  BY <1>1, AwaitHeld
<1>7. CASE continuous
  <2> DEFINE a == [audio EXCEPT !.time = place]
  <2>1. Opened(b, task.seg, a)
    BY <1>1, <1>7 DEF FirstFetched
  <2>2. place \in Times
    BY <1>2, <1>4
  <2> HIDE DEF place, b
  <2>3. a \in Audios /\ a.src = audio.src /\ a.playing = audio.playing /\ a.time = place
    BY <1>1, <2>2 DEF Audios
  <2>4. From(task.seg) <= playback.offset => place = playback.offset
    BY <1>2, <1>4, TimesNat
  <2> HIDE DEF a
  <2> QED BY <1>1, <1>2, <1>5, <1>7, <2>1, <2>3, <2>4, OpenedStep DEF UserIdle
<1>8. CASE ~continuous
  <2>1. /\ buffer' = b /\ audio' = Loading
        /\ task' = [task EXCEPT !.at = "attach", !.pos = Later(@, From(task.seg))]
        /\ UNCHANGED <<playback, clock>>
    BY <1>1, <1>8 DEF FirstFetched
  <2>2. audio' \in Audios /\ ~audio'.playing
    BY <1>1, <2>1 DEF Loading, Audios
  <2>3. place \in Times
    BY <1>2, <1>4
  <2>4. /\ task' \in Awaited(s) /\ task'.kind = "open" /\ task'.at = "attach"
        /\ task'.seg = task.seg /\ task'.pos = Later(playback.offset, From(task.seg))
    BY <1>1, <1>3, <2>1, <2>3 DEF Awaited
  <2> HIDE DEF b, place
  <2>5. Typed'
    BY <1>1, <1>5, <2>1, <2>2, <2>4 DEF Player, Typed, UserIdle
  <2>6. Closed' /\ AskedOnce' /\ Missing' /\ AtRest' /\ Quiet' /\ Gaps'
    BY <1>1, <1>6, <2>1, <2>2 DEF Player, UserIdle, Closed, AskedOnce, Missing, AtRest, Quiet, Gaps
  <2>7. Awaits'
    <3>1. task.seg # 0
      BY <1>2, TracksOrdered DEF Ordered
    <3> QED BY <1>1, <1>2, <1>6, <1>8, <2>1, <2>2, <2>4, <3>1 DEF Awaits, Opening, From, UserIdle
  <2>8. Still
    BY <1>1, <1>6, <2>1 DEF UserIdle, Still, Chosen, Place, Position
  <2> QED BY <2>5, <2>6, <2>7, <2>8 DEF Player
<1> QED BY <1>7, <1>8

LEMMA OpenFailsStep ==
  ASSUME Player, OpenFails
  PROVE  Player' /\ Still
<1> DEFINE s == playback.station
<1>1. /\ playback' = [playback EXCEPT !.paused = TRUE] /\ task' = NoTask /\ task.kind = "open"
      /\ UNCHANGED <<continuous, saved, asked, buffer, audio, clock>>
  BY DEF OpenFails, UserIdle
<1>2. /\ playback.on /\ playback.loading /\ ~playback.gap /\ playback.waiting = 0 /\ ~asked
      /\ Position = playback.offset /\ ~(audio.src = "recording" /\ audio.playing)
  BY <1>1, AwaitHeld
<1>3. playback \in Playbacks(s)
  BY DEF Player, Typed
<1>4. /\ playback' \in Playbacks(s) /\ playback'.on /\ playback'.station = s /\ playback'.loading
      /\ ~playback'.gap /\ playback'.waiting = 0 /\ playback'.paused
      /\ playback'.offset = playback.offset
  BY <1>1, <1>2, <1>3 DEF Playbacks
<1>5. task' \in Awaited(s) /\ task'.kind = "none" /\ task'.at = "none"
  BY <1>1, TimesNat DEF NoTask, Awaited, Segs
<1>6. Typed'
  BY <1>1, <1>4, <1>5 DEF Player, Typed
<1>7. Closed' /\ AskedOnce' /\ Missing' /\ AtRest' /\ Quiet' /\ Gaps' /\ Awaits'
  BY <1>1, <1>2, <1>4, <1>5 DEF Closed, AskedOnce, Missing, AtRest, Quiet, Gaps, Awaits
<1>8. Still
  BY <1>2, <1>4, <1>6, PlaceKnownNext, Unnoticed DEF Located, Stays
<1> QED BY <1>6, <1>7, <1>8 DEF Player

LEMMA BufferAnswersStep ==
  ASSUME Player, Fetched \/ FetchFails \/ RetryDue
  PROVE  Player' /\ Still
<1> DEFINE s == playback.station
<1>1. /\ s \in Tracks /\ buffer \in Buffers(s) /\ continuous \in BOOLEAN
      /\ UNCHANGED <<continuous, saved, asked, playback, task, audio, clock>>
  BY DEF Player, Typed, Playbacks, Fetched, FetchFails, RetryDue, UserIdle
<1>2. playback.on
  BY DEF Player, Closed, NoBuffer, Fetched, FetchFails, RetryDue
<1>3. CASE Fetched
  <2> DEFINE b == [buffer EXCEPT !.have = @ \cup {buffer.fetching}]
  <2>1. buffer.fetching \in DOMAIN Timeline[s]
    BY <1>1, <1>3 DEF Fetched, Buffers, Segs
  <2>2. b \in Buffers(s)
    BY <1>1, <2>1 DEF Buffers
  <2>3. buffer' = Pump(b)
    BY <1>3 DEF Fetched
  <2> HIDE DEF b
  <2>4. buffer' \in Buffers(s)
    BY <1>1, <2>2, <2>3, PumpTyped
  <2> QED BY <1>1, <1>2, <2>4, BufferStep DEF Still, Chosen, Place
<1>4. CASE FetchFails \/ RetryDue
  <2>1. buffer' \in {[buffer EXCEPT !.fetching = 0, !.retry = TRUE], [buffer EXCEPT !.retry = FALSE]}
    BY <1>4 DEF FetchFails, RetryDue
  <2>2. buffer' \in Buffers(s)
    BY <1>1, <2>1 DEF Buffers, Segs
  <2> QED BY <1>1, <1>2, <2>2, BufferStep DEF Still, Chosen, Place
<1> QED BY <1>3, <1>4

-----------------------------------------------------------------------------
(* Playback: entering another segment                                       *)

LEMMA EnterStep ==
  ASSUME Player, Kept, NEW s \in Tracks, playback.station = s, ~asked,
         NEW p \in Playbacks(s), p.station = s, p.on, p.loading, ~p.gap, p.waiting = 0,
         NEW seg \in DOMAIN Timeline[s], p.offset = From(seg),
         audio.src = "recording" /\ audio.playing => ~p.paused,
         Enter(p, seg), clock' \in Times, continuous' = continuous, asked' = asked
  PROVE  /\ Player' /\ Stays(s, p.offset)
         /\ playback'.paused = p.paused \/ playback'.paused
<1>1. /\ buffer \in Buffers(s) /\ audio \in Audios /\ continuous \in BOOLEAN
      /\ asked \in BOOLEAN /\ window \in Windows /\ failures \in 0 .. MaxFailures
  BY DEF Player, Typed, Kept
<1>2. From(seg) \in Times /\ seg # 0
  BY TrackFacts DEF From
<1>3. CASE continuous
  <2> DEFINE q == [p EXCEPT !.loading = FALSE]
             a == [audio EXCEPT !.time = From(seg)]
  <2>1. buffer' = FillAhead(buffer, From(seg), window) /\ task' = NoTask /\ Resume(q, a)
    BY <1>3 DEF Enter, Fill
  <2>2. buffer' \in Buffers(s)
    BY <1>1, <1>2, <2>1, FillTyped
  <2>3. q \in Playbacks(s) /\ q.station = s /\ q.on /\ ~q.loading /\ q.waiting = 0 /\ ~q.gap
        /\ q.offset = p.offset /\ q.paused = p.paused
    BY DEF Playbacks
  <2>4. a \in Audios /\ a.time = p.offset /\ a.src = audio.src /\ a.playing = audio.playing
    BY <1>1, <1>2 DEF Audios
  <2>5. task' \in Awaited(s) /\ task'.kind = "none" /\ task'.at = "none"
    BY <2>1, TimesNat DEF NoTask, Awaited, Segs
  <2> HIDE DEF q, a
  <2>6. /\ Player' /\ Stays(s, q.offset) /\ (playback'.paused = q.paused \/ playback'.paused)
    BY <1>1, <1>3, <2>1, <2>2, <2>3, <2>4, <2>5, ResumeStep
  <2> QED BY <2>3, <2>6
<1>4. CASE ~continuous
  <2>1. /\ playback' = p /\ audio' = Loading /\ buffer' = buffer
        /\ task' = [kind |-> "leave", at |-> "attach", seg |-> seg, pos |-> From(seg)]
    BY <1>4 DEF Enter
  <2>2. audio' \in Audios /\ ~audio'.playing
    BY <1>1, <2>1 DEF Loading, Audios
  <2>3. task' \in Awaited(s)
    BY <1>2, <2>1 DEF Awaited, Segs
  <2>4. Typed'
    BY <1>1, <2>1, <2>2, <2>3 DEF Typed
  <2>5. Closed' /\ AskedOnce' /\ Missing' /\ AtRest' /\ Quiet' /\ Gaps'
    BY <2>1, <2>2 DEF Closed, AskedOnce, Missing, AtRest, Quiet, Gaps
  <2>6. Awaits'
    BY <1>2, <1>4, <2>1, <2>2 DEF Awaits, Leaving, From
  <2>7. Position' = p.offset
    BY <2>1, <2>4, PlaceKnownNext DEF Located
  <2> QED BY <2>1, <2>4, <2>5, <2>6, <2>7 DEF Player, Stays
<1> QED BY <1>1, <1>3, <1>4

LEMMA LeaveForStep ==
  ASSUME Player, Kept, Running, NEW seg \in DOMAIN Timeline[playback.station],
         LeaveFor(seg), UserIdle
  PROVE  Player' /\ (From(seg) = Position => Still)
<1> DEFINE s == playback.station
           p == [playback EXCEPT !.offset = From(seg), !.loading = TRUE, !.gap = FALSE,
                                 !.waiting = 0]
<1>1. /\ s \in Tracks /\ playback \in Playbacks(s) /\ buffer \in Buffers(s)
      /\ audio \in Audios /\ continuous \in BOOLEAN /\ window \in Windows
  BY DEF Player, Typed, Playbacks, Kept
<1>2. playback.on /\ ~playback.paused /\ ~playback.loading /\ ~asked
  BY DEF Running, Player, AskedOnce
<1>3. From(seg) \in Times /\ seg # 0
  BY <1>1, TrackFacts DEF From
<1>4. /\ p \in Playbacks(s) /\ p.station = s /\ p.on /\ p.loading /\ ~p.gap /\ p.waiting = 0
      /\ p.offset = From(seg) /\ ~p.paused /\ p.paused = playback.paused
  BY <1>1, <1>2, <1>3 DEF Playbacks, Segs
<1>5. /\ clock' = 0 /\ clock' \in Times /\ continuous' = continuous /\ asked' = asked
  BY TimesNat DEF LeaveFor, UserIdle
<1>6. CASE Has(buffer, seg)
  <2>1. Enter(p, seg)
    BY <1>6 DEF LeaveFor
  <2> HIDE DEF p
  <2>2. /\ Player' /\ Stays(s, p.offset) /\ (playback'.paused = p.paused \/ playback'.paused)
    BY <1>1, <1>2, <1>4, <1>5, <2>1, EnterStep
  <2> QED BY <1>2, <1>4, <2>2, Unnoticed
<1>7. CASE ~Has(buffer, seg)
  <2>1. /\ playback' = p /\ buffer' = FillAhead(buffer, From(seg), window) /\ audio' = audio
        /\ task' = [kind |-> "leave", at |-> "fill", seg |-> seg, pos |-> From(seg)]
    BY <1>7 DEF LeaveFor, Fill
  <2> HIDE DEF p
  <2>2. buffer' \in Buffers(s)
    BY <1>1, <1>3, <2>1, FillTyped
  <2>3. task' \in Awaited(s)
    BY <1>3, <2>1 DEF Awaited, Segs
  <2>4. Typed'
    BY <1>1, <1>4, <1>5, <2>1, <2>2, <2>3 DEF Player, Typed
  <2>5. Closed' /\ AskedOnce' /\ Missing' /\ AtRest' /\ Quiet' /\ Gaps'
    BY <1>2, <1>4, <1>5, <2>1 DEF Closed, AskedOnce, Missing, AtRest, Quiet, Gaps
  <2>6. Awaits'
    BY <1>3, <1>4, <2>1 DEF Awaits, Leaving, From
  <2>7. Position' = From(seg)
    BY <1>4, <2>1, <2>4, PlaceKnownNext DEF Located
  <2> QED BY <1>2, <1>4, <2>1, <2>4, <2>5, <2>6, <2>7, Unnoticed DEF Player, Stays
<1> QED BY <1>6, <1>7

LEMMA LeaveFilledStep ==
  ASSUME Player, Kept, LeaveFilled
  PROVE  Player' /\ Still
<1> DEFINE s == playback.station
<1>1. /\ s \in Tracks /\ playback \in Playbacks(s) /\ buffer \in Buffers(s)
      /\ audio \in Audios /\ task \in Awaited(s) /\ continuous \in BOOLEAN /\ window \in Windows
  BY DEF Player, Typed, Playbacks, Kept
<1>2. task.kind = "leave" /\ UserIdle /\ clock' = clock /\ clock \in Times
  BY DEF LeaveFilled, Player, Typed
<1>3. /\ playback.on /\ playback.loading /\ ~playback.gap /\ playback.waiting = 0 /\ ~asked
      /\ Position = playback.offset /\ (audio.src = "recording" /\ audio.playing => ~playback.paused)
  BY <1>2, AwaitHeld
<1>4. task.seg \in DOMAIN Timeline[s] /\ task.pos = playback.offset
      /\ playback.offset = From(task.seg) /\ playback.offset \in Times
  BY <1>1, <1>2 DEF Player, Awaits, Leaving, Awaited, Segs, Playbacks
<1>5. CASE Has(buffer, task.seg)
  <2>1. Enter(playback, task.seg)
    BY <1>5 DEF LeaveFilled
  <2>2. /\ Player' /\ Stays(s, playback.offset) /\ (playback'.paused = playback.paused \/ playback'.paused)
    BY <1>1, <1>2, <1>3, <1>4, <2>1, EnterStep DEF UserIdle
  <2> QED BY <1>3, <2>2, Unnoticed
<1>6. CASE ~Has(buffer, task.seg)
  <2>1. /\ playback' = [playback EXCEPT !.loading = FALSE, !.waiting = task.seg]
        /\ buffer' = FillAhead(buffer, task.pos, window) /\ task' = NoTask /\ audio' = audio
    BY <1>6 DEF LeaveFilled, Fill
  <2>2. buffer' \in Buffers(s)
    BY <1>1, <1>4, <2>1, FillTyped
  <2>3. /\ playback' \in Playbacks(s) /\ playback'.on /\ playback'.station = s /\ ~playback'.loading
        /\ ~playback'.gap /\ playback'.waiting = task.seg /\ playback'.paused = playback.paused
        /\ playback'.offset = playback.offset
    BY <1>1, <1>3, <1>4, <2>1 DEF Playbacks, Segs
  <2>4. task' \in Awaited(s) /\ task'.kind = "none" /\ task'.at = "none"
    BY <2>1, TimesNat DEF NoTask, Awaited, Segs
  <2>5. Typed'
    BY <1>1, <1>2, <2>1, <2>2, <2>3, <2>4 DEF Player, Typed, UserIdle
  <2>6. task.seg # 0
    BY <1>1, <1>4, TrackFacts
  <2>7. Closed' /\ AskedOnce' /\ Missing' /\ AtRest' /\ Quiet' /\ Gaps' /\ Awaits'
    BY <1>2, <1>3, <1>4, <2>1, <2>3, <2>4, <2>6
       DEF Closed, AskedOnce, Missing, AtRest, Quiet, Gaps, Awaits, From, UserIdle
  <2>8. Still
    BY <1>3, <2>3, <2>5, <2>6, PlaceKnownNext, Unnoticed DEF Located, Stays
  <2> QED BY <2>5, <2>7, <2>8 DEF Player
<1> QED BY <1>5, <1>6

LEMMA AttachedStep ==
  ASSUME Player, Kept, Attached
  PROVE  Player' /\ Still
<1> DEFINE s == playback.station
           b == [buffer EXCEPT !.active = task.seg]
           a == [audio EXCEPT !.time = task.pos]
<1>1. /\ s \in Tracks /\ playback \in Playbacks(s) /\ buffer \in Buffers(s) /\ asked \in BOOLEAN
      /\ audio \in Audios /\ task \in Awaited(s) /\ continuous \in BOOLEAN /\ window \in Windows
      /\ clock \in Times /\ failures \in 0 .. MaxFailures /\ task.pos \in Times
  BY DEF Player, Typed, Playbacks, Awaited, Kept
<1>2. task.at = "attach" /\ task.kind # "none" /\ UserIdle /\ task.kind \in {"open", "leave", "seek"}
  BY <1>1 DEF Attached, Player, Awaits, Awaited
<1>3. /\ playback.on /\ playback.loading /\ ~playback.gap /\ playback.waiting = 0 /\ ~asked
      /\ Position = playback.offset /\ (audio.src = "recording" /\ audio.playing => ~playback.paused)
  BY <1>2, AwaitHeld
<1>4. /\ b \in Buffers(s) /\ b.active = task.seg
      /\ a \in Audios /\ a.time = task.pos /\ a.src = audio.src /\ a.playing = audio.playing
  BY <1>1 DEF Buffers, Audios, Awaited
<1>5. CASE task.kind = "open"
  <2>1. Opened(b, task.seg, a)
    BY <1>5 DEF Attached
  <2>2. /\ playback.offset \in Times /\ task.seg = NextAfter(s, playback.offset)
        /\ To(task.seg) > playback.offset /\ From(task.seg) \in Times
    BY <1>2, <1>5, OpeningSegment
  <2>3. task.pos = Later(playback.offset, From(task.seg))
    BY <1>2, <1>5 DEF Player, Awaits, Opening
  <2>4. From(task.seg) <= playback.offset => task.pos = playback.offset
    <3>1. \A t \in Times : t \in Int
      BY TimesNat
    <3> QED BY <2>2, <2>3, <3>1, LargerOf
  <2>5. playback.offset # To(task.seg)
    <3>1. \A t \in Times : t \in Int
      BY TimesNat
    <3> QED BY <2>2, <3>1
  <2> HIDE DEF a, b
  <2> QED BY <1>2, <1>4, <1>5, <2>1, <2>2, <2>4, <2>5, OpenedStep DEF UserIdle
<1>6. CASE task.kind # "open"
  <2> DEFINE p == [playback EXCEPT !.loading = FALSE]
  <2>1. /\ buffer' = FillAhead(b, task.pos, window) /\ task' = NoTask /\ clock' = clock
        /\ Resume(p, a)
    BY <1>6 DEF Attached, Fill
  <2>2. /\ task.seg \in DOMAIN Timeline[s] /\ task.pos = playback.offset
        /\ task.pos < To(task.seg)
    <3>1. task.seg \in DOMAIN Timeline[s]
      BY <1>1, <1>2, <1>6 DEF Player, Awaits, Leaving, Seeking, Awaited, Segs
    <3> QED BY <1>1, <1>2, <1>6, <3>1, TrackFacts DEF Player, Awaits, Leaving, Seeking, From, To
  <2>3. task.pos # To(task.seg)
    BY <1>1, <2>2, TrackFacts, TimesNat DEF To
  <2>4. p \in Playbacks(s) /\ p.station = s /\ p.on /\ ~p.loading /\ p.waiting = 0 /\ ~p.gap
        /\ p.offset = playback.offset /\ p.paused = playback.paused
    BY <1>1, <1>3 DEF Playbacks
  <2>5. task' \in Awaited(s) /\ task'.kind = "none" /\ task'.at = "none"
    BY <2>1, TimesNat DEF NoTask, Awaited, Segs
  <2> HIDE DEF a, b, p
  <2>6. buffer' \in Buffers(s) /\ buffer'.active = task.seg
    BY <1>1, <1>4, <2>1, FillTyped
  <2>7. asked' \in BOOLEAN /\ ~asked' /\ continuous' = continuous /\ clock' \in Times
    BY <1>1, <1>2, <1>3, <2>1 DEF UserIdle
  <2>8. a.time = p.offset /\ a.time # To(buffer'.active)
    BY <1>4, <2>2, <2>3, <2>4, <2>6
  <2>9. /\ Player' /\ Stays(s, p.offset) /\ (playback'.paused = p.paused \/ playback'.paused)
    BY <1>1, <1>3, <1>4, <2>1, <2>4, <2>5, <2>6, <2>7, <2>8, ResumeStep
  <2> QED BY <1>3, <2>4, <2>9, Unnoticed
<1> QED BY <1>5, <1>6

LEMMA AttachFailsStep ==
  ASSUME Player, Kept, AttachFails
  PROVE  Player' /\ Still
<1> DEFINE s == playback.station
<1>1. /\ s \in Tracks /\ playback \in Playbacks(s) /\ buffer \in Buffers(s) /\ asked \in BOOLEAN
      /\ audio \in Audios /\ task \in Awaited(s) /\ continuous \in BOOLEAN /\ window \in Windows
      /\ clock \in Times /\ task.pos \in Times
  BY DEF Player, Typed, Playbacks, Awaited, Kept
<1>2. /\ task.at = "attach" /\ task.kind # "none" /\ task.kind \in {"leave", "seek"}
      /\ UNCHANGED <<continuous, saved>>
  BY <1>1 DEF AttachFails, Player, Awaits, Awaited
<1>3. /\ playback.on /\ playback.loading /\ ~playback.gap /\ playback.waiting = 0 /\ ~asked
      /\ Position = playback.offset
  BY <1>2, AwaitHeld
<1>4. task.pos = playback.offset /\ ~(audio.src = "recording" /\ audio.playing)
  BY <1>2 DEF Player, Awaits, Leaving, Seeking
<1>5. CASE task.kind = "seek"
  <2> DEFINE p == [playback EXCEPT !.offset = task.pos]
  <2>1. Select(p)
    BY <1>5 DEF AttachFails
  <2>2. p \in Playbacks(s) /\ p.station = s /\ p.on /\ p.offset = task.pos /\ p.paused = playback.paused
    BY <1>1, <1>3 DEF Playbacks
  <2> HIDE DEF p
  <2>3. Player' /\ Stays(s, p.offset) /\ playback'.paused = p.paused
    BY <1>1, <1>2, <2>1, <2>2, SelectStep
  <2> QED BY <1>3, <1>4, <2>2, <2>3, Unnoticed
<1>6. CASE task.kind # "seek"
  <2>1. /\ playback' = [playback EXCEPT !.paused = TRUE] /\ task' = NoTask
        /\ buffer' = FillAhead(buffer, task.pos, window) /\ UNCHANGED <<asked, audio, clock>>
    BY <1>6 DEF AttachFails, Fill
  <2>2. buffer' \in Buffers(s)
    BY <1>1, <2>1, FillTyped
  <2>3. /\ playback' \in Playbacks(s) /\ playback'.on /\ playback'.station = s /\ playback'.loading
        /\ ~playback'.gap /\ playback'.waiting = 0 /\ playback'.paused
        /\ playback'.offset = playback.offset
    BY <1>1, <1>3, <2>1 DEF Playbacks
  <2>4. task' \in Awaited(s) /\ task'.kind = "none" /\ task'.at = "none"
    BY <2>1, TimesNat DEF NoTask, Awaited, Segs
  <2>5. Typed'
    BY <1>1, <1>2, <2>1, <2>2, <2>3, <2>4 DEF Typed
  <2>6. Closed' /\ AskedOnce' /\ Missing' /\ AtRest' /\ Quiet' /\ Gaps' /\ Awaits'
    BY <1>3, <1>4, <2>1, <2>3, <2>4 DEF Closed, AskedOnce, Missing, AtRest, Quiet, Gaps, Awaits
  <2>7. Still
    BY <1>3, <2>3, <2>5, PlaceKnownNext, Unnoticed DEF Located, Stays
  <2> QED BY <2>5, <2>6, <2>7 DEF Player
<1> QED BY <1>5, <1>6

-----------------------------------------------------------------------------
(* Playback: the tick and time                                              *)

\* The segment a gap or a missing segment leads to.
LEMMA NextSegmentIs ==
  ASSUME Player, ~playback.loading
  PROVE  /\ NextSegment \in Segs(playback.station)
         /\ playback.waiting # 0 => NextSegment = playback.waiting
         /\ playback.waiting = 0 =>
              /\ NextSegment # 0 => From(NextSegment) >= playback.offset
              /\ \A i \in Segments : From(i) >= playback.offset =>
                   NextSegment # 0 /\ From(NextSegment) <= From(i)
<1> DEFINE s == playback.station
           S == {i \in DOMAIN Timeline[s] : From(i) >= playback.offset}
<1>1. s \in Tracks /\ playback.waiting \in Segs(s)
  BY DEF Player, Typed, Playbacks
<1>2. CASE playback.waiting # 0
  BY <1>1, <1>2 DEF NextSegment
<1>3. CASE playback.waiting = 0
  <2>1. NextSegment = FirstOf(S)
    BY <1>3 DEF NextSegment, Segments
  <2>2. S \in SUBSET (Nat \ {0}) /\ S \subseteq DOMAIN Timeline[s]
    BY <1>1, TrackFacts
  <2>3. \A i : i \in S <=> i \in DOMAIN Timeline[s] /\ From(i) >= playback.offset
    OBVIOUS
  <2> HIDE DEF S
  <2>4. \/ S = {} /\ FirstOf(S) = 0
        \/ FirstOf(S) \in S /\ \A i \in S : FirstOf(S) <= i
    BY <2>2, LeastIndex
  <2>5. ASSUME NEW i \in S PROVE FirstOf(S) # 0 /\ From(FirstOf(S)) <= From(i)
    <3>1. FirstOf(S) \in S /\ FirstOf(S) <= i
      BY <2>4, <2>5
    <3>2. /\ FirstOf(S) \in Nat /\ FirstOf(S) # 0 /\ i \in Nat
          /\ From(FirstOf(S)) \in Nat /\ To(FirstOf(S)) \in Nat /\ From(i) \in Nat
          /\ From(FirstOf(S)) < To(FirstOf(S))
      BY <1>1, <2>2, <2>5, <3>1, TrackFacts DEF From, To
    <3>3. FirstOf(S) = i \/ FirstOf(S) < i
      BY <3>1, <3>2
    <3>4. FirstOf(S) < i => To(FirstOf(S)) <= From(i)
      BY <1>1, <2>2, <2>5, <3>1, TrackFacts DEF From, To
    <3> QED BY <3>2, <3>3, <3>4
  <2> QED BY <1>3, <2>1, <2>2, <2>3, <2>4, <2>5 DEF Segs, Segments
<1> QED BY <1>2, <1>3

LEMMA GapOverStep ==
  ASSUME Player, Kept, GapOver, LeaveFor(NextSegment), UserIdle
  PROVE  Player' /\ (Late = 0 => From(NextSegment) = Position /\ Still)
<1> DEFINE s == playback.station
           n == NextSegment
<1>1. /\ Running /\ ~playback.loading /\ ~playback.paused /\ n # 0 /\ Position >= From(n)
      /\ playback.gap \/ playback.waiting # 0
  BY DEF GapOver, Running
<1>2. n \in DOMAIN Timeline[s]
  BY <1>1, NextSegmentIs DEF Segs
<1>3. Player' /\ (From(n) = Position => Still)
  <2> HIDE DEF n
  <2>1. LeaveFor(n)
    BY DEF n
  <2> QED BY <1>1, <1>2, <2>1, LeaveForStep
<1>4. ASSUME Late = 0 PROVE From(n) = Position
  <2>1. Located
    BY PlaceKnown DEF Player
  <2>2. CASE playback.waiting # 0
    <3>1. n = playback.waiting
      BY <1>1, <2>2, NextSegmentIs
    <3> QED BY <2>1, <2>2, <3>1 DEF Located, Player, Missing
  <2>3. CASE playback.waiting = 0
    <3>1. playback.gap /\ From(n) >= playback.offset
      BY <1>1, <2>3, NextSegmentIs
    <3>2. playback.offset + clock <= From(n) /\ playback.offset + clock <= Duration
      BY <1>1, <1>2, <1>4, <3>1 DEF Player, Gaps, Segments
    <3>3. Position = playback.offset + clock
      BY <1>1, <2>1, <2>3, <3>1, <3>2 DEF Located
    <3>4. From(n) \in Nat /\ Position \in Nat
      BY <1>2, <2>1, TrackFacts, TimesNat DEF From, Located, Player, Typed, Playbacks
    <3> HIDE DEF n
    <3> QED BY <1>1, <3>2, <3>3, <3>4
  <2> QED BY <2>2, <2>3
<1> QED BY <1>3, <1>4

LEMMA FollowerIs ==
  ASSUME NEW s \in Tracks, playback.station = s
  PROVE  \/ Follower = 0 /\ \A i \in DOMAIN Timeline[s] : From(i) # audio.time
         \/ Follower \in DOMAIN Timeline[s] /\ From(Follower) = audio.time
<1> DEFINE S == {i \in DOMAIN Timeline[s] : From(i) = audio.time}
<1>1. Follower = FirstOf(S)
  BY DEF Follower, Segments
<1>2. S \in SUBSET (Nat \ {0})
  BY TrackFacts
<1>3. \A i : i \in S <=> i \in DOMAIN Timeline[s] /\ From(i) = audio.time
  OBVIOUS
<1> HIDE DEF S
<1> QED BY <1>1, <1>2, <1>3, LeastIndex

LEMMA HandOffStep ==
  ASSUME Player, Kept, HandOff, LeaveFor(Follower), UserIdle
  PROVE  Player' /\ From(Follower) = Position /\ Still
<1> DEFINE s == playback.station
           n == Follower
<1>1. Running /\ ~playback.gap /\ ~playback.loading /\ playback.waiting = 0 /\ n # 0
  BY DEF HandOff, Drained, Running
<1>2. s \in Tracks /\ Located
  BY PlaceKnown DEF Player, Typed, Playbacks
<1>3. n \in DOMAIN Timeline[s] /\ From(n) = audio.time
  BY <1>1, <1>2, FollowerIs
<1>4. Position = audio.time
  BY <1>1, <1>2 DEF Located
<1> HIDE DEF n
<1>5. LeaveFor(n)
  BY DEF n
<1>6. Player' /\ Still
  BY <1>1, <1>3, <1>4, <1>5, LeaveForStep
<1> QED BY <1>3, <1>4, <1>6 DEF n

\* Where audio ends and no other begins, no segment is going on.
LEMMA GapAfter ==
  ASSUME NEW s \in Tracks, NEW t, NEW k \in DOMAIN Timeline[s], Timeline[s][k].to = t,
         \A i \in DOMAIN Timeline[s] : Timeline[s][i].from # t
  PROVE  \A i \in DOMAIN Timeline[s] : Timeline[s][i].from < t => Timeline[s][i].to <= t
<1> SUFFICES ASSUME NEW i \in DOMAIN Timeline[s], Timeline[s][i].from < t
             PROVE  Timeline[s][i].to <= t
  OBVIOUS
<1>1. /\ i \in Nat /\ k \in Nat /\ t \in Nat /\ Timeline[s][i].from \in Nat
      /\ Timeline[s][i].to \in Nat /\ Timeline[s][k].from \in Nat
      /\ Timeline[s][k].from < Timeline[s][k].to
  BY TrackFacts
<1>2. CASE i < k
  BY <1>1, <1>2, TrackFacts
<1>3. CASE k < i
  BY <1>1, <1>3, TrackFacts
<1> QED BY <1>1, <1>2, <1>3

LEMMA TickTailStep ==
  ASSUME Player, Kept, playback.on, TickTail, UserIdle
  PROVE  Player' /\ Still
<1> DEFINE s == playback.station
           over == ~playback.paused /\ Position >= Duration
           p == IF GapBegins THEN [playback EXCEPT !.offset = Position, !.gap = TRUE] ELSE playback
<1>1. /\ playback' = IF over THEN [p EXCEPT !.offset = Duration, !.loading = TRUE,
                                            !.paused = TRUE] ELSE p
      /\ audio' = IF over THEN [audio EXCEPT !.playing = FALSE] ELSE audio
      /\ clock' = IF GapBegins THEN 0 ELSE clock
      /\ buffer' = FillAhead(buffer, Position, window) /\ task' = task
      /\ continuous' = continuous /\ asked' = asked
  BY DEF TickTail, Fill, UserIdle
<1>2. /\ s \in Tracks /\ playback \in Playbacks(s) /\ buffer \in Buffers(s) /\ asked \in BOOLEAN
      /\ audio \in Audios /\ task \in Awaited(s) /\ continuous \in BOOLEAN /\ window \in Windows
      /\ clock \in Times /\ Located /\ Position \in Times /\ ~asked
  BY PlaceKnown DEF Player, Typed, Playbacks, Kept, Located, AskedOnce
<1>3. buffer' \in Buffers(s)
  BY <1>1, <1>2, FillTyped
<1>4. GapBegins => /\ ~playback.loading /\ ~playback.paused /\ ~playback.gap /\ playback.waiting = 0
                   /\ task.kind = "none" /\ Position = audio.time
                   /\ \A i \in DOMAIN Timeline[s] :
                        Timeline[s][i].from < Position => Timeline[s][i].to <= Position
  <2> SUFFICES ASSUME GapBegins
               PROVE  /\ ~playback.loading /\ ~playback.paused /\ ~playback.gap
                      /\ playback.waiting = 0 /\ task.kind = "none" /\ Position = audio.time
                      /\ \A i \in DOMAIN Timeline[s] :
                           Timeline[s][i].from < Position => Timeline[s][i].to <= Position
    OBVIOUS
  <2>1. ~playback.loading /\ ~playback.paused /\ ~playback.gap /\ playback.waiting = 0
        /\ Follower = 0 /\ \E i \in DOMAIN Timeline[s] : Timeline[s][i].to = audio.time
    BY DEF GapBegins, Drained, Running, Segments, To
  <2>2. task.kind = "none" /\ Position = audio.time
    BY <1>2, <2>1 DEF Player, Awaits, Located
  <2>3. \A i \in DOMAIN Timeline[s] : Timeline[s][i].from # audio.time
    <3>1. ~(Follower \in DOMAIN Timeline[s])
      BY <1>2, <2>1, TrackFacts
    <3> QED BY <1>2, <3>1, FollowerIs DEF From
  <2> QED BY <1>2, <2>1, <2>2, <2>3, GapAfter
<1>5. CASE over
  <2>1. Position = Duration /\ ~playback.paused
    BY <1>2, <1>5, TimesNat
  <2>2. playback.waiting = 0
    <3> SUFFICES ASSUME playback.waiting # 0 PROVE FALSE
      OBVIOUS
    <3>1. Position = From(playback.waiting) /\ playback.waiting \in DOMAIN Timeline[s]
      BY <1>2 DEF Located, Player, Missing, Playbacks, Segs
    <3>2. /\ From(playback.waiting) \in Nat /\ To(playback.waiting) \in Nat
          /\ From(playback.waiting) < To(playback.waiting) /\ To(playback.waiting) <= Duration
      BY <1>2, <3>1, TrackFacts DEF From, To
    <3> QED BY <2>1, <3>1, <3>2, TimesNat
  <2>3. /\ playback' \in Playbacks(s) /\ playback'.on /\ playback'.station = s
        /\ playback'.loading /\ playback'.paused /\ playback'.waiting = 0
        /\ playback'.offset = Duration /\ (playback.gap \in BOOLEAN)
        /\ task.kind # "none" => playback'.gap = playback.gap
    BY <1>1, <1>2, <1>4, <1>5, <2>2, TimesNat DEF Playbacks
  <2>4. audio' \in Audios /\ ~audio'.playing /\ clock' \in Times
    BY <1>1, <1>2, <1>5, TimesNat DEF Audios
  <2> HIDE DEF over, p
  <2>5. Typed'
    BY <1>1, <1>2, <1>3, <2>3, <2>4 DEF Typed
  <2>6. Closed' /\ AskedOnce' /\ Missing' /\ AtRest' /\ Quiet' /\ Gaps'
    BY <1>1, <1>2, <2>3, <2>4 DEF Closed, AskedOnce, Missing, AtRest, Quiet, Gaps
  <2>7. Awaits'
    <3>1. task.kind = "none" => task.at = "none"
      BY DEF Player, Awaits
    <3>2. CASE task.kind = "none"
      BY <1>1, <3>1, <3>2 DEF Awaits
    <3>3. CASE task.kind # "none"
      <4>1. playback.loading /\ playback.offset = Duration /\ ~playback.gap
        BY <2>1, <3>3, AwaitHeld
      <4> QED BY <1>1, <2>3, <2>4, <3>3, <4>1
              DEF Player, Awaits, Opening, Leaving, Seeking, From, To
    <3> QED BY <3>2, <3>3
  <2>8. Still
    BY <2>1, <2>3, <2>5, PlaceKnownNext, Unnoticed DEF Located, Stays
  <2> QED BY <2>5, <2>6, <2>7, <2>8 DEF Player
<1>6. CASE ~over /\ GapBegins
  <2>1. playback' = [playback EXCEPT !.offset = Position, !.gap = TRUE] /\ audio' = audio /\ clock' = 0
    BY <1>1, <1>6
  <2>2. /\ playback' \in Playbacks(s) /\ playback'.on /\ playback'.station = s /\ playback'.gap
        /\ ~playback'.loading /\ ~playback'.paused /\ playback'.waiting = 0
        /\ playback'.offset = Position /\ playback'.paused = playback.paused
    BY <1>2, <1>4, <1>6, <2>1 DEF Playbacks
  <2>3. Position \in Nat /\ Position <= Duration /\ clock' \in Times /\ Position + clock' = Position
    BY <1>2, <2>1, TimesNat
  <2> HIDE DEF over, p
  <2>4. Typed'
    BY <1>1, <1>2, <1>3, <2>1, <2>2, <2>3 DEF Typed
  <2>5. Closed' /\ AskedOnce' /\ Missing' /\ AtRest'
    BY <1>1, <1>2, <2>2 DEF Closed, AskedOnce, Missing, AtRest
  <2>6. Quiet'
    BY <1>4, <1>6, <2>1, <2>2 DEF Quiet
  <2>7. Awaits'
    BY <1>1, <1>4, <1>6, <2>1, <2>2 DEF Player, Awaits
  <2>8. Gaps'
    <3>1. \A i \in DOMAIN Timeline[s] : Timeline[s][i].from \in Nat
      BY <1>2, TrackFacts
    <3> QED BY <1>4, <1>6, <2>2, <2>3, <3>1 DEF Gaps, Segments, From, To
  <2>9. Position' = Position
    BY <2>2, <2>3, <2>4, PlaceKnownNext DEF Located
  <2> QED BY <2>2, <2>4, <2>5, <2>6, <2>7, <2>8, <2>9, Unnoticed DEF Player, Stays
<1>7. CASE ~over /\ ~GapBegins
  BY <1>1, <1>3, <1>7, BufferStep, Unnoticed DEF Stays
<1> QED BY <1>5, <1>6, <1>7

LEMMA TickStep ==
  ASSUME Player, Kept, Tick
  PROVE  Player' /\ (Late = 0 => Still)
<1>1. playback.on /\ UserIdle
  BY DEF Tick
<1>2. \/ GapOver /\ LeaveFor(NextSegment)
      \/ HandOff /\ LeaveFor(Follower)
      \/ TickTail
  BY DEF Tick
<1> QED BY <1>1, <1>2, GapOverStep, HandOffStep, TickTailStep

\* Time that moves the playback's place on, heard or in a gap.
Onward == /\ playback' = playback /\ playback.on /\ ~playback.paused /\ Position' = Position + 1
          /\ Late = 0 => Sounding \/ Position \notin Recorded(playback.station)

LEMMA HeardStep ==
  ASSUME Player, Heard, UserIdle, UNCHANGED <<playback, buffer, task>>
  PROVE  Player' /\ (Still \/ Onward)
<1> DEFINE s == playback.station
<1>1. /\ Sounding /\ audio.time < Duration /\ audio' = [audio EXCEPT !.time = @ + 1]
      /\ clock' = clock /\ UNCHANGED <<continuous, asked, saved, playback, buffer, task>>
  BY DEF Heard, UserIdle
<1>2. audio.src = "recording" /\ audio.playing /\ audio \in Audios
  BY <1>1 DEF Sounding, Player, Typed
<1>3. playback.on /\ ~playback.paused
  BY <1>2 DEF Player, Quiet
<1>4. audio.time \in Nat /\ audio.time + 1 \in Times
  BY <1>1, <1>2, TimesNat DEF Audios, Times
<1>5. /\ audio' \in Audios /\ audio'.src = audio.src /\ audio'.playing = audio.playing
      /\ audio'.time = audio.time + 1
  BY <1>1, <1>2, <1>4 DEF Audios
<1>6. Typed'
  BY <1>1, <1>5 DEF Player, Typed
<1>7. Closed' /\ AskedOnce' /\ Missing' /\ AtRest' /\ Quiet'
  BY <1>1, <1>3, <1>5 DEF Player, Closed, AskedOnce, Missing, AtRest, Quiet, From
<1>8. Awaits'
  BY <1>1, <1>5 DEF Player, Awaits, Opening, Leaving, Seeking, From, To
<1>9. Gaps'
  BY <1>1 DEF Player, Gaps, Segments, From, To
<1>10. Located /\ Located'
  BY <1>6, PlaceKnown, PlaceKnownNext DEF Player
<1>11. CASE playback.loading \/ playback.waiting # 0 \/ playback.gap
  BY <1>1, <1>3, <1>6, <1>7, <1>8, <1>9, <1>10, <1>11, Unnoticed DEF Located, Stays, Player
<1>12. CASE ~(playback.loading \/ playback.waiting # 0 \/ playback.gap)
  <2>1. Position = audio.time /\ Position' = audio'.time
    BY <1>1, <1>10, <1>12 DEF Located
  <2>2. Onward
    BY <1>1, <1>3, <1>5, <2>1 DEF Onward
  <2> QED BY <1>6, <1>7, <1>8, <1>9, <2>2 DEF Player
<1> QED BY <1>11, <1>12

LEMMA GapPassesStep ==
  ASSUME Player, GapPasses, UserIdle, UNCHANGED <<playback, buffer, task>>
  PROVE  Player' /\ Onward
<1> DEFINE s == playback.station
           o == playback.offset
           n == NextSegment
<1>1. /\ playback.on /\ ~playback.loading /\ ~playback.paused /\ playback.gap
      /\ playback.waiting = 0 /\ Position < Duration /\ clock' = clock + 1
      /\ n # 0 => Position < From(n) + Late
      /\ UNCHANGED <<continuous, asked, saved, playback, buffer, task, audio>>
  BY DEF GapPasses, Running, UserIdle
<1>2. Located /\ s \in Tracks /\ o \in Nat /\ clock \in Nat /\ clock \in Times
  BY PlaceKnown, TimesNat DEF Player, Typed, Playbacks
<1>3. Position = o + clock /\ o + clock < Duration
  BY <1>1, <1>2, TimesNat DEF Located
<1>4. clock' \in Times /\ o + clock' = o + clock + 1 /\ o + clock' <= Duration
  BY <1>1, <1>2, <1>3, TimesNat DEF Times
<1>5. /\ n \in Segs(s)
      /\ \A i \in DOMAIN Timeline[s] : From(i) >= o => n # 0 /\ From(n) <= From(i)
  BY <1>1, NextSegmentIs DEF Segments
<1>6. \A i \in DOMAIN Timeline[s] : From(i) \in Nat /\ To(i) \in Nat /\ From(i) < To(i)
  BY <1>2, TrackFacts DEF From, To
<1> HIDE DEF n
<1>7. Typed'
  BY <1>1, <1>4 DEF Player, Typed
<1>8. Closed' /\ AskedOnce' /\ Missing' /\ AtRest' /\ Quiet'
  BY <1>1 DEF Player, Closed, AskedOnce, Missing, AtRest, Quiet, From
<1>9. Awaits'
  BY <1>1 DEF Player, Awaits, Opening, Leaving, Seeking, From, To
<1>10. ASSUME Late = 0, NEW i \in DOMAIN Timeline[s], From(i) >= o
       PROVE  o + clock < From(i)
  <2>1. n # 0 /\ n \in DOMAIN Timeline[s] /\ From(n) <= From(i)
    BY <1>5, <1>10 DEF Segs
  <2>2. o + clock < From(n)
    BY <1>1, <1>3, <1>6, <1>10, <2>1
  <2> QED BY <1>2, <1>6, <1>10, <2>1, <2>2
<1>11. Gaps'
  <2> SUFFICES ASSUME Late = 0
               PROVE  /\ \A i \in DOMAIN Timeline[s] : From(i) < o => To(i) <= o
                      /\ o + clock' <= Duration
                      /\ \A i \in DOMAIN Timeline[s] : From(i) >= o => o + clock' <= From(i)
    BY <1>1 DEF Gaps, Segments, From, To
  <2>1. \A i \in DOMAIN Timeline[s] : From(i) < o => To(i) <= o
    BY <1>1 DEF Player, Gaps, Segments
  <2>2. ASSUME NEW i \in DOMAIN Timeline[s], From(i) >= o PROVE o + clock' <= From(i)
    BY <1>2, <1>4, <1>6, <1>10, <2>2
  <2> QED BY <1>4, <2>1, <2>2
<1>12. Position' = Position + 1
  BY <1>1, <1>2, <1>3, <1>4, <1>7, PlaceKnownNext DEF Located
<1>13. ASSUME Late = 0, Position \in Recorded(s) PROVE FALSE
  <2>1. PICK i \in DOMAIN Timeline[s] : Position \in From(i) .. (To(i) - 1)
    BY <1>13 DEF Recorded, From, To
  <2>2. From(i) <= o + clock /\ o + clock < To(i)
    BY <1>2, <1>3, <1>6, <2>1
  <2>3. From(i) < o
    BY <1>2, <1>6, <1>10, <1>13, <2>2
  <2>4. To(i) <= o
    BY <1>1, <1>13, <2>3 DEF Player, Gaps, Segments
  <2> QED BY <1>2, <1>6, <2>2, <2>4
<1> QED BY <1>1, <1>7, <1>8, <1>9, <1>11, <1>12, <1>13 DEF Player, Onward

-----------------------------------------------------------------------------
(* Playback: the listener                                                   *)

LEMMA ManifestArrivesStep ==
  ASSUME Player, Kept, ManifestArrives
  PROVE  /\ Player' /\ ~playback.on /\ playback.paused /\ playback'.paused
         /\ Stays(saved.station, saved.pos) \/ Stays(saved.station, 0)
<1>1. /\ asked /\ continuous' = continuous /\ continuous \in BOOLEAN /\ audio \in Audios
      /\ saved.station \in Tracks /\ saved.pos \in Times
  BY DEF ManifestArrives, Player, Typed, Kept
<1>2. ~playback.on /\ playback = Off
  BY <1>1 DEF Player, AskedOnce, Closed
<1>3. PICK pos \in {saved.pos, 0} :
        Select([Off EXCEPT !.on = TRUE, !.station = saved.station, !.offset = pos])
  BY DEF ManifestArrives
<1> DEFINE p == [Off EXCEPT !.on = TRUE, !.station = saved.station, !.offset = pos]
<1>4. pos \in Times
  BY <1>1, TimesNat
<1>5. p \in Playbacks(First) /\ p.station = saved.station /\ p.on /\ p.offset = pos /\ p.paused
  BY <1>1, <1>4 DEF Off, Playbacks, Segs
<1>6. Select(p)
  BY <1>3
<1> HIDE DEF p
<1>7. Player' /\ Stays(saved.station, p.offset) /\ playback'.paused = p.paused
  BY <1>1, <1>5, <1>6, SelectStep
<1> QED BY <1>2, <1>3, <1>5, <1>7 DEF Off

LEMMA ManifestFailsStep ==
  ASSUME Player, ManifestFails
  PROVE  Player' /\ Still
<1>1. asked' = FALSE /\ UNCHANGED <<continuous, saved, playback, buffer, task, audio, clock>>
  BY DEF ManifestFails
<1>2. Typed'
  BY <1>1 DEF Player, Typed
<1>3. Closed' /\ AskedOnce' /\ Missing' /\ AtRest' /\ Quiet'
  BY <1>1 DEF Player, Closed, AskedOnce, Missing, AtRest, Quiet, From
<1>4. Awaits'
  BY <1>1 DEF Player, Awaits, Opening, Leaving, Seeking, From, To
<1>5. Gaps'
  BY <1>1 DEF Player, Gaps, Segments, From, To
<1>6. Still
  BY <1>1 DEF Still, Chosen, Place, Position
<1> QED BY <1>2, <1>3, <1>4, <1>5, <1>6 DEF Player

LEMMA CloseStill ==
  ASSUME Player, Kept, OpenFlight \/ StopAll \/ PlayOther
  PROVE  /\ Player' /\ ~playback'.on /\ playback'.paused
         /\ Chosen' = Chosen /\ Place' = Place /\ saved' \in [pos : Times, station : Tracks]
<1>1. /\ Close /\ audio' \in Audios /\ audio'.src # "recording" /\ asked' \in BOOLEAN
      /\ continuous' \in BOOLEAN
  <2>1. Close /\ continuous' = continuous /\ asked' \in {asked, TRUE}
        /\ audio' \in {Silent, [src |-> "other", playing |-> TRUE, time |-> 0]}
    BY DEF OpenFlight, StopAll, PlayOther
  <2>2. audio' \in Audios /\ audio'.src # "recording"
    <3> DEFINE other == [src |-> "other", playing |-> TRUE, time |-> 0]
    <3>1. Silent \in Audios /\ Silent.src = "none"
      BY TimesNat DEF Silent, Audios
    <3>2. other \in Audios /\ other.src = "other"
      BY TimesNat DEF Audios
    <3> HIDE DEF other
    <3>3. audio' = Silent \/ audio' = other
      BY <2>1 DEF other
    <3> QED BY <3>1, <3>2, <3>3
  <2> QED BY <2>1, <2>2 DEF Player, Typed
<1>2. Player' /\ ~playback'.on /\ playback'.paused
  BY <1>1, CloseStep
<1>3. saved' = IF playback.on THEN [pos |-> Position, station |-> playback.station] ELSE saved
  BY <1>1 DEF Close
<1>4. Position \in Times /\ playback.station \in Tracks
  BY PlaceKnown DEF Player, Typed, Playbacks, Located
<1> QED BY <1>2, <1>3, <1>4 DEF Chosen, Place, Kept

LEMMA SelectStationStep ==
  ASSUME Player, NEW s \in Tracks, SelectStation(s)
  PROVE  Player' /\ playback.on /\ Stays(s, Position) /\ playback'.paused = playback.paused
<1> DEFINE p == [playback EXCEPT !.offset = Position, !.station = s]
<1>1. /\ playback.on /\ Select(p) /\ continuous' = continuous /\ continuous \in BOOLEAN
      /\ audio \in Audios /\ playback \in Playbacks(playback.station) /\ Position \in Times
  BY PlaceKnown DEF SelectStation, Player, Typed, Located
<1>2. /\ p \in Playbacks(playback.station) /\ p.station = s /\ p.on /\ p.offset = Position
      /\ p.paused = playback.paused
  BY <1>1 DEF Playbacks
<1> HIDE DEF p
<1>3. Player' /\ Stays(s, p.offset) /\ playback'.paused = p.paused
  BY <1>1, <1>2, SelectStep
<1> QED BY <1>1, <1>2, <1>3

LEMMA SeekToStep ==
  ASSUME Player, Kept, NEW s \in Tracks, playback.station = s, playback.on,
         NEW p \in Playbacks(s), p.station = s, p.on, p.loading = playback.loading,
         audio.src = "recording" /\ audio.playing => ~p.paused,
         NEW to \in Times, SeekTo(p, to), continuous' = continuous
  PROVE  /\ Player' /\ Stays(s, to)
         /\ playback'.paused = p.paused \/ playback'.paused
<1>1. /\ buffer \in Buffers(s) /\ audio \in Audios /\ continuous \in BOOLEAN /\ task \in Awaited(s)
      /\ asked \in BOOLEAN /\ window \in Windows /\ failures \in 0 .. MaxFailures /\ ~asked
  BY DEF Player, Typed, Kept, AskedOnce
<1>2. CASE p.loading \/ ~Buffered(buffer, to)
  <2> DEFINE q == [p EXCEPT !.offset = to]
  <2>1. Select(q)
    BY <1>2 DEF SeekTo
  <2>2. q \in Playbacks(s) /\ q.station = s /\ q.on /\ q.offset = to /\ q.paused = p.paused
    BY DEF Playbacks
  <2> HIDE DEF q
  <2>3. Player' /\ Stays(s, q.offset) /\ playback'.paused = q.paused
    BY <1>1, <2>1, <2>2, SelectStep
  <2> QED BY <2>2, <2>3
<1>3. CASE ~(p.loading \/ ~Buffered(buffer, to))
  <2> DEFINE q == [p EXCEPT !.offset = to, !.gap = FALSE, !.waiting = 0]
  <2>1. q \in Playbacks(s) /\ q.station = s /\ q.on /\ q.offset = to /\ q.paused = p.paused
        /\ ~q.gap /\ q.waiting = 0 /\ ~q.loading
    BY <1>3 DEF Playbacks, Segs
  <2>2. clock' = 0 /\ clock' \in Times /\ asked' = asked
    BY <1>3, TimesNat DEF SeekTo
  <2>3. task.kind = "none" /\ task.at = "none"
    BY <1>3 DEF Player, Awaits
  <2>4. CASE continuous
    <3> DEFINE a == [audio EXCEPT !.time = to]
    <3>1. buffer' = FillAhead(buffer, to, window) /\ task' = task /\ Resume(q, a)
      BY <1>3, <2>4 DEF SeekTo, Fill
    <3>2. buffer' \in Buffers(s)
      BY <1>1, <3>1, FillTyped
    <3>3. a \in Audios /\ a.time = to /\ a.src = audio.src /\ a.playing = audio.playing
      BY <1>1 DEF Audios
    <3> HIDE DEF a, q
    <3>4. Player' /\ Stays(s, q.offset) /\ (playback'.paused = q.paused \/ playback'.paused)
      BY <1>1, <2>1, <2>2, <2>3, <2>4, <3>1, <3>2, <3>3, ResumeStep
    <3> QED BY <2>1, <3>4
  <2>5. CASE ~continuous
    <3> DEFINE S == {i \in DOMAIN Timeline[s] : From(i) <= to /\ to < To(i)}
    <3>1. /\ playback' = [q EXCEPT !.loading = TRUE] /\ audio' = Loading /\ buffer' = buffer
          /\ task' = [kind |-> "seek", at |-> "attach", pos |-> to, seg |-> FirstOf(S)]
      BY <1>3, <2>5 DEF SeekTo, Segments
    <3>2. S \in SUBSET (Nat \ {0}) /\ S # {}
      <4>1. \E i \in DOMAIN Timeline[s] : From(i) <= to /\ to < To(i)
        BY <1>1, <1>3 DEF Buffered, Buffers
      <4> QED BY <4>1, TrackFacts
    <3>3. FirstOf(S) \in S
      <4> HIDE DEF S
      <4> QED BY <3>2, LeastIndex
    <3>4. /\ FirstOf(S) \in DOMAIN Timeline[s] /\ FirstOf(S) # 0
          /\ From(FirstOf(S)) <= to /\ to < To(FirstOf(S))
      BY <3>3, TrackFacts
    <3> DEFINE seg == FirstOf(S)
    <3> HIDE DEF seg
    <3>5. task' \in Awaited(s) /\ task'.kind = "seek" /\ task'.at = "attach" /\ task'.pos = to
          /\ task'.seg = seg /\ seg # 0 /\ From(seg) <= to /\ to < To(seg)
      BY <3>1, <3>4 DEF Awaited, Segs, seg
    <3>6. /\ playback' \in Playbacks(s) /\ playback'.on /\ playback'.station = s
          /\ playback'.loading /\ ~playback'.gap /\ playback'.waiting = 0
          /\ playback'.offset = to /\ playback'.paused = p.paused
      BY <2>1, <3>1 DEF Playbacks
    <3>7. audio' \in Audios /\ ~audio'.playing
      BY <1>1, <3>1 DEF Loading, Audios
    <3> HIDE DEF q
    <3>8. Typed'
      BY <1>1, <2>2, <3>1, <3>5, <3>6, <3>7 DEF Typed
    <3>9. Closed' /\ AskedOnce' /\ Missing' /\ AtRest' /\ Quiet' /\ Gaps'
      BY <1>1, <2>2, <3>6, <3>7 DEF Closed, AskedOnce, Missing, AtRest, Quiet, Gaps
    <3>10. Awaits'
      BY <2>5, <3>5, <3>6, <3>7 DEF Awaits, Seeking, From, To
    <3>11. Position' = to
      BY <3>6, <3>8, PlaceKnownNext DEF Located
    <3> QED BY <3>6, <3>8, <3>9, <3>10, <3>11 DEF Player, Stays
  <2> QED BY <1>1, <2>4, <2>5
<1> QED BY <1>2, <1>3

LEMMA SeekStep ==
  ASSUME Player, Kept, NEW to \in Times, Seek(to)
  PROVE  /\ Player' /\ playback.on /\ Stays(playback.station, to)
         /\ playback'.paused = playback.paused \/ playback'.paused
<1>1. /\ playback.on /\ SeekTo(playback, to) /\ continuous' = continuous
      /\ playback.station \in Tracks /\ playback \in Playbacks(playback.station)
      /\ audio.src = "recording" /\ audio.playing => ~playback.paused
  BY DEF Seek, Player, Typed, Playbacks, Quiet
<1> QED BY <1>1, SeekToStep

LEMMA PauseStep ==
  ASSUME Player, playback.on, Pause, continuous' = continuous
  PROVE  /\ Player' /\ Stays(playback.station, Position) /\ ~playback.paused /\ playback'.paused
<1> DEFINE s == playback.station
<1>1. /\ ~playback.paused /\ playback' = [playback EXCEPT !.offset = Position, !.paused = TRUE]
      /\ audio' = [audio EXCEPT !.playing = FALSE] /\ clock' = 0
      /\ UNCHANGED <<asked, buffer, task>>
  BY DEF Pause
<1>2. /\ playback \in Playbacks(s) /\ s \in Tracks /\ audio \in Audios /\ Located
      /\ Position \in Times /\ playback.offset \in Times /\ clock \in Times
  BY PlaceKnown DEF Player, Typed, Playbacks, Located
<1>3. /\ playback' \in Playbacks(s) /\ playback'.on /\ playback'.station = s
      /\ playback'.paused /\ playback'.offset = Position /\ playback'.loading = playback.loading
      /\ playback'.gap = playback.gap /\ playback'.waiting = playback.waiting
  BY <1>1, <1>2 DEF Playbacks
<1>4. audio' \in Audios /\ ~audio'.playing /\ audio'.time = audio.time /\ clock' \in Times
  BY <1>1, <1>2, TimesNat DEF Audios
<1>5. Typed'
  BY <1>1, <1>3, <1>4 DEF Player, Typed
<1>6. Closed' /\ AskedOnce' /\ Quiet'
  BY <1>1, <1>3, <1>4 DEF Player, Closed, AskedOnce, Quiet
<1>7. Missing' /\ AtRest'
  BY <1>2, <1>3, <1>4 DEF Player, Missing, AtRest, Located, From
<1>8. Awaits'
  <2>1. task.kind # "none" => Position = playback.offset
    BY AwaitHeld
  <2> QED BY <1>1, <1>3, <1>4, <2>1 DEF Player, Awaits, Opening, Leaving, Seeking, From, To
<1>9. Gaps'
  <2> SUFFICES ASSUME Late = 0, playback.gap, ~playback.loading, NEW i \in DOMAIN Timeline[s],
                      Timeline[s][i].from < Position
               PROVE  Timeline[s][i].to <= Position
    BY <1>3 DEF Gaps, Segments, From, To
  <2>1. /\ Timeline[s][i].from < playback.offset => Timeline[s][i].to <= playback.offset
        /\ playback.offset + clock <= Duration
        /\ Timeline[s][i].from >= playback.offset => playback.offset + clock <= Timeline[s][i].from
    BY <1>1 DEF Player, Gaps, Segments, From, To
  <2>2. playback.waiting = 0
    BY DEF Player, Missing
  <2>3. Position = playback.offset + clock
    BY <1>1, <1>2, <2>1, <2>2 DEF Located
  <2>4. /\ playback.offset \in Nat /\ clock \in Nat /\ Timeline[s][i].from \in Nat
        /\ Timeline[s][i].to \in Nat
    BY <1>2, TrackFacts, TimesNat
  <2> QED BY <2>1, <2>3, <2>4
<1>10. Position' = Position
  BY <1>2, <1>3, <1>4, <1>5, PlaceKnownNext DEF Located
<1> QED BY <1>1, <1>3, <1>5, <1>6, <1>7, <1>8, <1>9, <1>10 DEF Player, Stays

LEMMA UnpauseStep ==
  ASSUME Player, Kept, playback.on, Unpause, continuous' = continuous
  PROVE  /\ Player' /\ playback.paused
         /\ \/ Stays(playback.station, Position)
            \/ Stays(playback.station, 0) /\ Position = Duration
            \/ \E i \in Segments : To(i) = Position /\ Stays(playback.station, From(i))
<1> DEFINE s == playback.station
           p == [playback EXCEPT !.paused = FALSE]
<1>1. /\ playback \in Playbacks(s) /\ s \in Tracks /\ audio \in Audios /\ buffer \in Buffers(s)
      /\ playback.offset \in Times /\ asked \in BOOLEAN /\ ~asked /\ continuous \in BOOLEAN
      /\ clock \in Times /\ task \in Awaited(s) /\ failures \in 0 .. MaxFailures
  BY DEF Player, Typed, Playbacks, AskedOnce, Kept
<1>2. playback.paused /\ Position = playback.offset
  BY PausedPlace DEF Unpause
<1>3. ~(audio.src = "recording" /\ audio.playing)
  BY <1>2 DEF Player, Quiet
<1>4. /\ p \in Playbacks(s) /\ p.station = s /\ p.on /\ p.loading = playback.loading /\ ~p.paused
      /\ p.offset = playback.offset /\ p.gap = playback.gap /\ p.waiting = playback.waiting
  BY <1>1 DEF Playbacks
<1> HIDE DEF p
<1>5. CASE p.offset >= Duration
  <2>1. SeekTo(p, 0)
    BY <1>5 DEF Unpause, p
  <2>2. Position = Duration
    <3>1. playback.offset \in Nat /\ playback.offset <= Duration /\ Duration \in Nat
      BY <1>1, TimesNat
    <3> QED BY <1>2, <1>4, <1>5, <3>1
  <2>3. Player' /\ Stays(s, 0)
    BY <1>1, <1>3, <1>4, <2>1, TimesNat, SeekToStep
  <2> QED BY <1>2, <2>2, <2>3
<1>6. CASE ~(p.offset >= Duration) /\ p.loading
  <2>1. Select(p)
    BY <1>6 DEF Unpause, p
  <2>2. Player' /\ Stays(s, p.offset)
    BY <1>1, <1>4, <2>1, SelectStep
  <2> QED BY <1>2, <1>4, <2>2
<1>7. CASE ~(p.offset >= Duration) /\ ~p.loading
  <2>1. UNCHANGED <<asked, buffer, task>> /\ clock' = 0 /\ clock' \in Times /\ Resume(p, audio)
    BY <1>7, TimesNat DEF Unpause, p
  <2>2. /\ playback' \in Playbacks(s) /\ playback'.on /\ playback'.station = s
        /\ playback'.offset = p.offset /\ ~playback'.loading
        /\ playback'.gap = p.gap /\ playback'.waiting = p.waiting
        /\ ~playback'.paused \/ (playback'.paused /\ ~audio'.playing)
        /\ audio' \in Audios /\ audio'.src = audio.src
        /\ audio'.playing => audio.playing \/ ~playback'.paused
        /\ \/ audio'.time = audio.time
           \/ /\ ~playback'.paused /\ buffer.active # 0
              /\ audio.time = To(buffer.active) /\ audio'.time = From(buffer.active)
    BY <1>1, <1>4, <1>7, <2>1, ResumeIs
  <2>3. Typed'
    BY <1>1, <2>1, <2>2 DEF Typed
  <2>4. Closed' /\ AskedOnce'
    BY <1>1, <2>1, <2>2 DEF Closed, AskedOnce
  <2>5. task.kind = "none" /\ task.at = "none"
    BY <1>4, <1>7 DEF Player, Awaits
  <2>6. Awaits'
    BY <2>1, <2>5 DEF Awaits
  <2>7. Missing'
    BY <1>4, <2>2 DEF Player, Missing, From
  <2>8. AtRest'
    BY <1>2, <1>4, <1>7, <2>2 DEF Player, AtRest
  <2>9. Quiet'
    BY <1>3, <2>2 DEF Quiet
  <2>10. p.offset \in Nat /\ p.offset <= Duration /\ p.offset + clock' = p.offset
    <3>1. playback.offset \in Nat /\ playback.offset <= Duration
      BY <1>1, TimesNat
    <3> QED BY <1>4, <2>1, <3>1
  <2>11. Gaps'
    <3>1. \A i \in DOMAIN Timeline[s] : Timeline[s][i].from \in Nat
      BY <1>1, TrackFacts
    <3> QED BY <1>4, <1>7, <2>2, <2>10, <3>1 DEF Player, Gaps, Segments, From, To
  <2>12. Player'
    BY <2>3, <2>4, <2>6, <2>7, <2>8, <2>9, <2>11 DEF Player
  <2>13. CASE p.waiting # 0 \/ p.gap
    <3>1. Position' = p.offset
      BY <2>2, <2>3, <2>10, <2>13, PlaceKnownNext DEF Located
    <3> QED BY <1>2, <1>4, <2>2, <2>12, <3>1 DEF Stays
  <2>14. CASE ~(p.waiting # 0 \/ p.gap)
    <3>1. audio.time = Position
      BY <1>2, <1>4, <1>7, <2>14 DEF Player, AtRest
    <3>2. Position' = audio'.time
      BY <2>2, <2>3, <2>14, PlaceKnownNext DEF Located
    <3>3. buffer.active # 0 => buffer.active \in Segments
      BY <1>1 DEF Buffers, Segs, Segments
    <3> QED BY <1>2, <2>2, <2>12, <3>1, <3>2, <3>3 DEF Stays
  <2> QED BY <2>13, <2>14
<1> QED BY <1>5, <1>6, <1>7

LEMMA SetWindowStep ==
  ASSUME Player, Kept, NEW w \in Windows, SetWindow(w)
  PROVE  Player' /\ Still
<1>1. /\ playback.on /\ buffer' = FillAhead(buffer, Position, w)
      /\ UNCHANGED <<continuous, saved, asked, playback, task, audio, clock>>
  BY DEF SetWindow
<1>2. /\ playback.station \in Tracks /\ buffer \in Buffers(playback.station)
      /\ continuous \in BOOLEAN /\ Position \in Times
  BY PlaceKnown DEF Player, Typed, Playbacks, Located
<1>3. buffer' \in Buffers(playback.station)
  BY <1>1, <1>2, FillTyped
<1> QED BY <1>1, <1>3, BufferStep DEF Still, Chosen, Place

-----------------------------------------------------------------------------
(* Playback: the invariant, and the implementation of FlightListening        *)

LEMMA FlightStarts == FlightInit => FlightInv
<1> SUFFICES ASSUME FlightInit PROVE FlightInv
  OBVIOUS
<1>1. 0 \in Times /\ First \in Tracks /\ 0 \in 0 .. MaxCommands /\ 0 \in 0 .. MaxFailures
  BY FlightConstantsOK, TimesNat
<1>2. /\ playback = Off /\ buffer = NoBuffer /\ task = NoTask /\ audio = Silent /\ clock = 0
      /\ asked = FALSE /\ continuous \in BOOLEAN
  BY DEF FlightInit
<1>3. playback \in Playbacks(First) /\ playback.station = First /\ ~playback.on
      /\ playback.paused /\ ~playback.loading /\ ~playback.gap /\ playback.waiting = 0
  BY <1>1, <1>2 DEF Off, Playbacks, Segs
<1>4. buffer \in Buffers(First) /\ task \in Awaited(First) /\ task.kind = "none" /\ task.at = "none"
  BY <1>1, <1>2 DEF NoBuffer, Buffers, NoTask, Awaited, Segs
<1>5. audio \in Audios /\ ~audio.playing
  BY <1>1, <1>2 DEF Silent, Audios
<1>6. Typed
  BY <1>1, <1>2, <1>3, <1>4, <1>5 DEF Typed
<1>7. Closed /\ AskedOnce /\ Missing /\ AtRest /\ Quiet /\ Gaps /\ Awaits
  BY <1>2, <1>3, <1>4, <1>5 DEF Closed, AskedOnce, Missing, AtRest, Quiet, Gaps, Awaits
<1>8. Kept
  BY <1>1 DEF FlightInit, Kept
<1> QED BY <1>6, <1>7, <1>8 DEF FlightInv, Player

LEMMA AnswersStep ==
  ASSUME Player, Kept, Answers
  PROVE  Player' /\ (Still \/ ManifestArrives)
BY ManifestArrivesStep, ManifestFailsStep, SourceOpensStep, FirstFetchedStep, OpenFailsStep,
   BufferAnswersStep, LeaveFilledStep, AttachedStep, AttachFailsStep DEF Answers

LEMMA TimePassesStep ==
  ASSUME Player, TimePasses
  PROVE  Player' /\ (Still \/ Onward) /\ UNCHANGED <<saved, commands>>
<1>1. (Heard \/ GapPasses) /\ UserIdle /\ UNCHANGED <<playback, buffer, task>>
  BY DEF TimePasses
<1> QED BY <1>1, HeardStep, GapPassesStep DEF UserIdle

LEMMA ToggleStep ==
  ASSUME Player, Kept, Toggle
  PROVE  /\ Player' /\ playback.on /\ saved' = saved
         /\ \/ Stays(playback.station, Position) /\ ~playback.paused /\ playback'.paused
            \/ /\ playback.paused
               /\ \/ Stays(playback.station, Position)
                  \/ Stays(playback.station, 0) /\ Position = Duration
                  \/ \E i \in Segments : To(i) = Position /\ Stays(playback.station, From(i))
<1>1. playback.on /\ (Pause \/ Unpause) /\ UNCHANGED <<continuous, saved>>
  BY DEF Toggle
<1>2. CASE Pause
  BY <1>1, <1>2, PauseStep
<1>3. CASE Unpause
  BY <1>1, <1>3, UnpauseStep
<1> QED BY <1>1, <1>2, <1>3

\* Failures and commands are counted up to their bounds.
LEMMA GivenTyped ==
  ASSUME Kept, NEW kind \in {"toggle", "other"}, Given(kind)
  PROVE  commands' \in [toggle : 0 .. MaxCommands, other : 0 .. MaxCommands]
<1>1. /\ commands \in [toggle : 0 .. MaxCommands, other : 0 .. MaxCommands]
      /\ commands.toggle + commands.other < MaxCommands
      /\ commands' = [commands EXCEPT ![kind] = @ + 1] /\ MaxCommands \in Nat
  BY FlightConstantsOK DEF Kept, Given
<1>2. commands.toggle + 1 \in 0 .. MaxCommands /\ commands.other + 1 \in 0 .. MaxCommands
  BY <1>1
<1>3. CASE kind = "toggle"
  BY <1>1, <1>2, <1>3
<1>4. CASE kind = "other"
  BY <1>1, <1>2, <1>4
<1> QED BY <1>3, <1>4

LEMMA FailuresKept ==
  ASSUME FlightNext
  PROVE  failures' = failures \/ Fails
<1> USE DEF UserIdle
<1>1. ASSUME NEW p, NEW a, Resume(p, a) PROVE failures' = failures \/ Fails
  BY <1>1 DEF Resume, Play
<1>2. ASSUME NEW b, NEW seg, NEW a, Opened(b, seg, a) PROVE failures' = failures \/ Fails
  BY <1>1, <1>2 DEF Opened
<1>3. ASSUME NEW p, NEW seg, Enter(p, seg) PROVE failures' = failures \/ Fails
  BY <1>1, <1>3 DEF Enter
<1>4. ASSUME NEW seg, LeaveFor(seg) PROVE failures' = failures \/ Fails
  BY <1>3, <1>4 DEF LeaveFor
<1>5. ASSUME NEW p, NEW to, SeekTo(p, to) PROVE failures' = failures \/ Fails
  BY <1>1, <1>5 DEF SeekTo
<1>6. CASE Listener
  <2>1. CASE OpenFlight \/ StopAll \/ PlayOther
    BY <2>1 DEF OpenFlight, StopAll, PlayOther
  <2>2. CASE Toggle
    BY <1>1, <1>5, <2>2 DEF Toggle, Pause, Unpause
  <2>3. CASE \E s \in Tracks : SelectStation(s)
    BY <2>3 DEF SelectStation
  <2>4. CASE \E to \in Times : Seek(to)
    BY <1>5, <2>4 DEF Seek
  <2>5. CASE \E w \in Windows \ {window} : SetWindow(w)
    BY <2>5 DEF SetWindow
  <2> QED BY <1>6, <2>1, <2>2, <2>3, <2>4, <2>5 DEF Listener
<1>7. CASE Answers
  <2>1. CASE ManifestArrives \/ ManifestFails \/ OpenFails \/ Fetched \/ FetchFails \/ RetryDue
    BY <2>1 DEF ManifestArrives, ManifestFails, OpenFails, Fetched, FetchFails, RetryDue
  <2>2. CASE SourceOpens
    BY <1>2, <2>2 DEF SourceOpens
  <2>3. CASE FirstFetched
    BY <1>2, <2>3 DEF FirstFetched
  <2>4. CASE LeaveFilled
    BY <1>3, <2>4 DEF LeaveFilled
  <2>5. CASE Attached
    BY <1>1, <1>2, <2>5 DEF Attached
  <2>6. CASE AttachFails
    BY <2>6 DEF AttachFails
  <2> QED BY <1>7, <2>1, <2>2, <2>3, <2>4, <2>5, <2>6 DEF Answers
<1>8. CASE Tick
  BY <1>4, <1>8 DEF Tick, TickTail
<1>9. CASE TimePasses
  BY <1>9 DEF TimePasses
<1> QED BY <1>6, <1>7, <1>8, <1>9 DEF FlightNext

LEMMA FlightStep ==
  ASSUME FlightInv, [FlightNext]_flightVars
  PROVE  FlightInv'
<1> USE DEF FlightInv
<1>1. CASE UNCHANGED flightVars
  <2>1. /\ UNCHANGED <<continuous, window, saved, asked, playback, buffer, task, audio, clock>>
        /\ UNCHANGED <<commands, failures>>
    BY <1>1 DEF flightVars
  <2>2. Typed' /\ Kept'
    BY <2>1 DEF Player, Typed, Kept
  <2>3. Closed' /\ AskedOnce' /\ Missing' /\ AtRest' /\ Quiet'
    BY <2>1 DEF Player, Closed, AskedOnce, Missing, AtRest, Quiet, From
  <2>4. Awaits' /\ Gaps'
    BY <2>1 DEF Player, Awaits, Opening, Leaving, Seeking, Gaps, Segments, From, To
  <2> QED BY <2>2, <2>3, <2>4 DEF Player
<1>2. CASE FlightNext
  <2>1. failures' \in 0 .. MaxFailures
    BY <1>2, FailuresKept, FlightConstantsOK DEF Fails, Kept
  <2>2. CASE Listener
    <3>1. CASE OpenFlight \/ StopAll \/ PlayOther
      <4>1. Command /\ window' = window
        BY <3>1 DEF OpenFlight, StopAll, PlayOther
      <4> QED BY <2>1, <3>1, <4>1, CloseStill, GivenTyped DEF Command, Kept
    <3>2. CASE Toggle
      <4>1. Given("toggle") /\ window' = window
        BY <3>2 DEF Toggle
      <4> QED BY <2>1, <3>2, <4>1, ToggleStep, GivenTyped DEF Kept
    <3>3. CASE \E s \in Tracks : SelectStation(s)
      <4>1. PICK s \in Tracks : SelectStation(s)
        BY <3>3
      <4>2. Command /\ window' = window /\ saved' = saved
        BY <4>1 DEF SelectStation
      <4> QED BY <2>1, <4>1, <4>2, SelectStationStep, GivenTyped DEF Command, Kept
    <3>4. CASE \E to \in Times : Seek(to)
      <4>1. PICK to \in Times : Seek(to)
        BY <3>4
      <4>2. Command /\ window' = window /\ saved' = saved
        BY <4>1 DEF Seek
      <4> QED BY <2>1, <4>1, <4>2, SeekStep, GivenTyped DEF Command, Kept
    <3>5. CASE \E w \in Windows \ {window} : SetWindow(w)
      <4>1. PICK w \in Windows : SetWindow(w)
        BY <3>5
      <4>2. Command /\ window' = w /\ saved' = saved
        BY <4>1 DEF SetWindow
      <4> QED BY <2>1, <4>1, <4>2, SetWindowStep, GivenTyped DEF Command, Kept
    <3> QED BY <2>2, <3>1, <3>2, <3>3, <3>4, <3>5 DEF Listener
  <2>3. CASE Answers
    <3>1. UNCHANGED <<window, saved, commands>>
      BY <2>3 DEF Answers, ManifestArrives, ManifestFails, SourceOpens, FirstFetched, OpenFails,
                  Fetched, FetchFails, RetryDue, LeaveFilled, Attached, AttachFails, UserIdle
    <3> QED BY <2>1, <2>3, <3>1, AnswersStep DEF Kept
  <2>4. CASE Tick
    <3>1. UNCHANGED <<window, saved, commands>>
      BY <2>4 DEF Tick, UserIdle
    <3> QED BY <2>1, <2>4, <3>1, TickStep DEF Kept
  <2>5. CASE TimePasses
    <3>1. UNCHANGED <<window, saved, commands>>
      BY <2>5 DEF TimePasses, UserIdle
    <3> QED BY <2>1, <2>5, <3>1, TimePassesStep DEF Kept
  <2> QED BY <1>2, <2>2, <2>3, <2>4, <2>5 DEF FlightNext
<1> QED BY <1>1, <1>2

\* The player is consistent with itself: every await, gap and missing segment belongs to
\* the place where the playback is.
THEOREM FlightInvariance == FlightSpec => []FlightInv
<1>1. FlightInit => FlightInv
  BY FlightStarts
<1>2. FlightInv /\ [FlightNext]_flightVars => FlightInv'
  BY FlightStep
<1> QED BY <1>1, <1>2, PTL DEF FlightSpec

\* Every reachable state of the player is well typed, and speaks only of segments that the
\* chosen station has.
THEOREM FlightTypes == FlightSpec => []FlightTypeOK
<1>1. FlightInv => FlightTypeOK
  BY DEF FlightInv, Player, Typed, Kept, FlightTypeOK, Playbacks, Buffers, Awaited, Audios, Segs
<1> QED BY <1>1, FlightInvariance, PTL

\* Recorded audio is silent while its playback is paused, opening or closed.
THEOREM SilentHolds == FlightSpec => []SilentWhenPaused
<1>1. FlightInv => SilentWhenPaused
  BY DEF FlightInv, Player, Quiet, SilentWhenPaused, Sounding
<1> QED BY <1>1, FlightInvariance, PTL

-----------------------------------------------------------------------------
(* Playback: the implementation of FlightListening                          *)

PlaceTyped == Place \in Times /\ Chosen \in Tracks

LEMMA ChosenPlace == FlightInv => PlaceTyped
<1> SUFFICES ASSUME FlightInv PROVE PlaceTyped
  OBVIOUS
<1> QED BY PlaceKnown
           DEF FlightInv, Player, Typed, Playbacks, Kept, Located, Place, Chosen, PlaceTyped

LEMMA ChosenPlaceNext == FlightInv' => PlaceTyped'
BY ChosenPlace, PTL

LEMMA ListeningStarts == FlightInit => Promise!Init
BY FlightConstantsOK
   DEF FlightInit, Promise!Init, Off, Silent, Sounding, Place

\* One lemma for each kind of step the listener can tell.
LEMMA StillListening ==
  ASSUME Still, commands' = commands
  PROVE  Promise!Next
BY DEF Still, Chosen, Promise!Next, Promise!GiveUp, Promise!Sound

LEMMA OtherListening ==
  ASSUME playback'.on = playback.on, Chosen' = Chosen, Place' = Place,
         playback'.paused = playback.paused, Command
  PROVE  Promise!Next
BY DEF Chosen, Command, Given, Promise!Next, Promise!Other, Promise!Command, Promise!Given

LEMMA LeaveListening ==
  ASSUME playback.on, ~playback'.on, Chosen' = Chosen, Place' = Place, Command
  PROVE  Promise!Next
BY DEF Chosen, Command, Given, Promise!Next, Promise!Leave, Promise!Command, Promise!Given

LEMMA ArriveListening ==
  ASSUME ~playback.on, playback'.on, playback'.paused, Chosen' = Chosen,
         Place' \in {Place, 0}, commands' = commands
  PROVE  Promise!Next
BY DEF Chosen, Promise!Next, Promise!Arrive

LEMMA SwitchListening ==
  ASSUME playback.on, NEW s \in Tracks, Stays(s, Position), playback'.paused = playback.paused,
         Command
  PROVE  Promise!Next
BY DEF Stays, Place, Command, Given, Promise!Next, Promise!Switch, Promise!Command, Promise!Given

LEMMA SeekListening ==
  ASSUME playback.on, NEW to \in Times, Stays(playback.station, to),
         playback'.paused = playback.paused \/ playback'.paused, playback'.paused \in BOOLEAN,
         Command
  PROVE  Promise!Next
BY DEF Stays, Place, Times, Command, Given, Promise!Next, Promise!Seek, Promise!Command,
       Promise!Given

LEMMA ToggleListening ==
  ASSUME playback.on, playback.station \in Tracks, Position \in Times, Given("toggle"),
         \/ Stays(playback.station, Position) /\ ~playback.paused /\ playback'.paused
         \/ /\ playback.paused
            /\ \/ Stays(playback.station, Position)
               \/ Stays(playback.station, 0) /\ Position = Duration
               \/ \E i \in Segments : To(i) = Position /\ Stays(playback.station, From(i))
  PROVE  Promise!Next
<1> DEFINE s == playback.station
           over == (IF Position = Duration THEN {0} ELSE {}) \cup FileStarts(s, Position)
<1>1. Place = Position /\ (\A q : Stays(s, q) => Place' = q /\ playback'.on /\ playback'.station = s)
  BY DEF Place, Stays
<1>2. ASSUME NEW i \in Segments, To(i) = Position PROVE From(i) \in FileStarts(s, Position)
  BY <1>2 DEF Segments, To, From, FileStarts
<1>3. \/ ~playback.paused /\ playback'.paused /\ Place' = Place
      \/ playback.paused /\ Place' \in {Place} \cup over
  BY <1>1, <1>2
<1>4. playback'.on /\ playback'.station = s
  BY DEF Stays
<1> QED BY <1>1, <1>3, <1>4 DEF Given, Promise!Next, Promise!Toggle, Promise!Given

LEMMA OnwardListening ==
  ASSUME Onward, Late = 0, playback.station \in Tracks, Position \in Nat, Position' \in Times,
         commands' = commands
  PROVE  Promise!Next
<1>1. Position + 1 <= Duration /\ Place = Position /\ Place' = Position + 1
  BY TimesNat DEF Onward, Place
<1> QED BY <1>1 DEF Onward, Promise!Next, Promise!Advance

\* What the listener can tell of the player changes as FlightListening lets it.
LEMMA ListeningStep ==
  ASSUME FlightInv, [FlightNext]_flightVars, Late = 0
  PROVE  [Promise!Next]_(Promise!vars)
<1>1. /\ FlightInv' /\ Place' \in Times /\ Chosen' \in Tracks
      /\ Place \in Times /\ Chosen \in Tracks /\ Player /\ Kept /\ Player'
  BY FlightStep, ChosenPlace, ChosenPlaceNext DEF FlightInv, PlaceTyped
<1>2. playback.on => Place = Position /\ Chosen = playback.station
  BY DEF Place, Chosen
<1>3. playback'.on => Place' = Position' /\ Chosen' = playback'.station
  BY DEF Place, Chosen
<1>4. playback'.paused \in BOOLEAN
  BY <1>1 DEF Player, Typed, Playbacks
<1>5. CASE UNCHANGED flightVars
  BY <1>5 DEF flightVars, Promise!vars, Place, Position, Sounding, HasData, Buffered, From, To
<1>6. CASE OpenFlight \/ StopAll \/ PlayOther
  <2>1. /\ ~playback'.on /\ playback'.paused /\ Chosen' = Chosen /\ Place' = Place
    BY <1>1, <1>6, CloseStill
  <2>2. Command
    BY <1>6 DEF OpenFlight, StopAll, PlayOther
  <2>3. ~playback.on => playback.paused = TRUE
    BY <1>1 DEF Player, Closed, Off
  <2>4. playback'.paused = TRUE /\ playback.on \in BOOLEAN /\ playback'.on \in BOOLEAN
    BY <1>1, <2>1 DEF Player, Typed, Playbacks
  <2> QED BY <2>1, <2>2, <2>3, <2>4, LeaveListening, OtherListening
<1>7. CASE Toggle
  <2>1. Given("toggle")
    BY <1>7 DEF Toggle
  <2> QED BY <1>1, <1>2, <1>7, <2>1, ToggleStep, ToggleListening
<1>8. CASE \E s \in Tracks : SelectStation(s)
  <2>1. PICK s \in Tracks : SelectStation(s)
    BY <1>8
  <2>2. Command
    BY <2>1 DEF SelectStation
  <2> QED BY <1>1, <2>1, <2>2, SelectStationStep, SwitchListening
<1>9. CASE \E to \in Times : Seek(to)
  <2>1. PICK to \in Times : Seek(to)
    BY <1>9
  <2>2. Command
    BY <2>1 DEF Seek
  <2> QED BY <1>1, <1>4, <2>1, <2>2, SeekStep, SeekListening
<1>10. CASE \E w \in Windows \ {window} : SetWindow(w)
  <2>1. PICK w \in Windows : SetWindow(w)
    BY <1>10
  <2>2. Command /\ playback' = playback
    BY <2>1 DEF SetWindow
  <2>3. Still
    BY <1>1, <2>1, SetWindowStep
  <2> QED BY <2>2, <2>3, OtherListening DEF Still
<1>11. CASE Answers
  <2>1. commands' = commands /\ saved' = saved
    BY <1>11 DEF Answers, ManifestArrives, ManifestFails, SourceOpens, FirstFetched, OpenFails,
                 Fetched, FetchFails, RetryDue, LeaveFilled, Attached, AttachFails, UserIdle
  <2>2. CASE ManifestArrives
    <3>1. /\ ~playback.on /\ playback'.paused
          /\ Stays(saved.station, saved.pos) \/ Stays(saved.station, 0)
      BY <1>1, <2>2, ManifestArrivesStep
    <3>2. Place = saved.pos /\ Chosen = saved.station
      BY <3>1 DEF Place, Chosen
    <3> QED BY <1>3, <2>1, <3>1, <3>2, ArriveListening DEF Stays
  <2>3. CASE Still
    BY <2>1, <2>3, StillListening
  <2> QED BY <1>1, <1>11, <2>2, <2>3, AnswersStep
<1>12. CASE Tick
  <2>1. commands' = commands
    BY <1>12 DEF Tick, UserIdle
  <2> QED BY <1>1, <1>12, <2>1, TickStep, StillListening
<1>13. CASE TimePasses
  <2>1. commands' = commands /\ (Still \/ Onward)
    BY <1>1, <1>13, TimePassesStep
  <2>2. CASE Onward
    <3>1. playback.on /\ playback'.on
      BY <2>2 DEF Onward
    <3>2. Position \in Times /\ Position' \in Times /\ playback.station \in Tracks
      BY <1>1, <1>2, <1>3, <3>1
    <3> QED BY <2>1, <2>2, <3>2, OnwardListening, TimesNat
  <2> QED BY <2>1, <2>2, StillListening
<1> QED BY <1>5, <1>6, <1>7, <1>8, <1>9, <1>10, <1>11, <1>12, <1>13 DEF FlightNext, Listener

\* While no tick is late by a whole unit of time, the playback implements FlightListening:
\* the place moves only by a command or by time, by time only where it is heard or where
\* nothing is recorded, and a pause, a failure or a handoff leaves it where it is.
THEOREM ListeningImplemented == ASSUME Late = 0 PROVE FlightSpec => Listening
<1>1. FlightInit => Promise!Init
  BY ListeningStarts
<1>2. FlightInv /\ [FlightNext]_flightVars => [Promise!Next]_(Promise!vars)
  BY ListeningStep
<1> QED BY <1>1, <1>2, FlightInvariance, PTL DEF FlightSpec, Listening, Promise!Spec

-----------------------------------------------------------------------------
(* Playback: what is cached.  The invariant names the greatest place p from  *)
(* which the buffer has read ahead: nothing it has or asks for lies further  *)
(* than a window beyond p, and nothing it keeps lies further behind p than   *)
(* the bound, nor would anything be asked for there again.                   *)

Wide == Max(Windows)
Back(c) == Behind + (IF c THEN Slack ELSE Longest)
\* Buffered, of any station.
Held(s, b, t) ==
  t >= b.cut /\ \E i \in b.have : Timeline[s][i].from <= t /\ t < Timeline[s][i].to

ReadAhead(s, b, p) ==
  /\ b.until <= p + Wide
  /\ \A i \in b.have : Timeline[s][i].from <= p + Wide
  /\ b.fetching # 0 => Timeline[s][b.fetching].from <= p + Wide

\* With a media source, what is asked for ahead of t is cached or not far behind p.
Known(s, b, t, p) ==
  \A i \in DOMAIN Timeline[s] :
    Timeline[s][i].to > t => i \in b.have \/ Timeline[s][i].from >= p - Back(TRUE)
StoredFrom(s, b, p) ==
  /\ \A t \in Times : Held(s, b, t) => t >= p - Back(TRUE)
  /\ b.fetching # 0 => \/ b.fetching \in b.have
                       \/ Timeline[s][b.fetching].from >= p - Back(TRUE)
                       \/ Timeline[s][b.fetching].to > p
  /\ b.target >= p \/ Known(s, b, b.target, p)
Stored(s, b) == \E p \in Times : ReadAhead(s, b, p) /\ StoredFrom(s, b, p)

\* One file at a time: whole files, of which none is asked for again from the place t.
After(s, t, p) ==
  \A i \in DOMAIN Timeline[s] : Timeline[s][i].to > t => Timeline[s][i].from >= p - Back(FALSE)
FiledFrom(s, b, p) ==
  /\ b.cut = 0 /\ \A i \in b.have : Timeline[s][i].from >= p - Back(FALSE)
  /\ b.fetching # 0 => Timeline[s][b.fetching].from >= p - Back(FALSE)
  /\ After(s, b.target, p)
Filed(s, b, t, active) ==
  \E p \in Times : /\ ReadAhead(s, b, p) /\ FiledFrom(s, b, p) /\ After(s, t, p)
                   /\ active # 0 => Timeline[s][active].from >= p - Back(FALSE)

\* The file that is heard.
Current == IF ~playback.loading /\ ~playback.gap /\ playback.waiting = 0
           THEN buffer.active ELSE 0

Unopened == ~buffer.opened => buffer.until = 0 /\ buffer.fetching = 0
OpensHere == task.kind = "open" => ~buffer.opened /\ buffer.target = playback.offset
CachedAt(s, b, pos, active) ==
  IF continuous THEN Stored(s, b) /\ pos >= b.target
  ELSE Filed(s, b, pos, active) /\ (active # 0 => pos <= Timeline[s][active].to)
Cached == playback.on => /\ Unopened /\ OpensHere
                         /\ CachedAt(playback.station, buffer, Position, Current)

-----------------------------------------------------------------------------
(* Playback: the bounds of windows and segments                              *)

\* A finite set has a member with nothing above it in a strict order.
LEMMA FiniteTop ==
  ASSUME NEW L, IsFiniteSet(L), L # {}, NEW R,
         \A x \in L : <<x, x>> \notin R,
         \A x, y, z \in L : <<x, y>> \in R /\ <<y, z>> \in R => <<x, z>> \in R
  PROVE  \E m \in L : \A x \in L : <<m, x>> \notin R
<1> DEFINE above == [m \in L |-> {x \in L : <<m, x>> \in R}]
           T == {above[m] : m \in L}
<1>1. T # {} /\ T \subseteq FiniteSubsetsOf(L)
  <2>1. FiniteSubsetsOf(L) = SUBSET L
    BY FS_FiniteSubsetsOfFinite
  <2>2. \A m \in L : above[m] \in SUBSET L
    OBVIOUS
  <2> HIDE DEF above
  <2> QED BY <2>1, <2>2
<1>2. PICK U \in T : \A V \in T : <<V, U>> \notin StrictSubsetOrdering(L)
  BY <1>1, FS_StrictSubsetOrderingWellFounded, WFMin
<1>3. PICK m \in L : U = above[m]
  OBVIOUS
<1>4. ASSUME NEW x \in L, <<m, x>> \in R PROVE FALSE
  <2>1. x \in U /\ x \notin above[x] /\ above[x] \subseteq U
    BY <1>3, <1>4
  <2>2. <<above[x], U>> \in StrictSubsetOrdering(L)
    BY <1>3, <2>1 DEF StrictSubsetOrdering
  <2> QED BY <1>2, <2>2
<1> QED BY <1>4

LEMMA GreatestIs ==
  ASSUME NEW S \in SUBSET Nat, NEW m \in S, \A t \in S : t <= m
  PROVE  Max(S) \in S /\ \A t \in S : t <= Max(S)
<1>1. \A t \in S : m >= t
  OBVIOUS
<1>2. Max(S) \in S /\ \A t \in S : Max(S) >= t
  BY <1>1 DEF Max
<1> QED BY <1>2

LEMMA WindowsBounded == Wide \in Nat /\ \A w \in Windows : w \in Nat /\ w <= Wide
<1> DEFINE R == {p \in Nat \X Nat : p[1] < p[2]}
<1>1. Windows \in SUBSET Nat /\ IsFiniteSet(Windows) /\ Windows # {}
  BY FlightConstantsOK
<1>2. \A x, y \in Windows : <<x, y>> \in R <=> x < y
  BY <1>1
<1>3. /\ \A x \in Windows : <<x, x>> \notin R
      /\ \A x, y, z \in Windows : <<x, y>> \in R /\ <<y, z>> \in R => <<x, z>> \in R
  BY <1>1, <1>2
<1> HIDE DEF R
<1>4. PICK m \in Windows : \A x \in Windows : <<m, x>> \notin R
  BY <1>1, <1>3, FiniteTop
<1>5. \A x \in Windows : x <= m
  <2>1. \A x \in Windows : ~(m < x) /\ x \in Nat /\ m \in Nat
    BY <1>1, <1>2, <1>4
  <2> QED BY <2>1
<1>6. Max(Windows) \in Windows /\ \A w \in Windows : w <= Max(Windows)
  BY <1>1, <1>5, GreatestIs
<1> QED BY <1>1, <1>6 DEF Wide

\* A nonempty set of numbers below a bound has a greatest one.
LEMMA BoundedGreatest ==
  ASSUME NEW S \in SUBSET Nat, S # {}, NEW n \in Nat, \A t \in S : t <= n
  PROVE  Max(S) \in S /\ \A t \in S : t <= Max(S)
<1> DEFINE U == {u \in Nat : \A t \in S : t <= u}
<1>1. IsWellFoundedOn(OpToRel(<, Nat), Nat)
  BY NatLessThanWellFounded
<1>2. U \subseteq Nat /\ U # {}
  OBVIOUS
<1>3. PICK m \in U : \A u \in U : <<u, m>> \notin OpToRel(<, Nat)
  <2> HIDE DEF U
  <2> QED BY <1>1, <1>2, WFMin
<1>4. \A u \in U : ~(u < m)
  BY <1>2, <1>3 DEF OpToRel
<1>5. m \in S
  <2> SUFFICES ASSUME m \notin S PROVE FALSE
    OBVIOUS
  <2>1. m \in Nat /\ \A t \in S : t \in Nat /\ t <= m /\ t # m
    OBVIOUS
  <2> PICK x \in S : TRUE
    OBVIOUS
  <2>2. m - 1 \in Nat /\ \A t \in S : t <= m - 1
    <3>1. x \in Nat /\ x < m
      BY <2>1
    <3> QED BY <2>1, <3>1
  <2>3. m - 1 \in U /\ m - 1 < m
    BY <2>1, <2>2
  <2> QED BY <1>4, <2>3
<1> QED BY <1>5, GreatestIs

LEMMA SegmentsBounded ==
  /\ Longest \in Nat
  /\ \A s \in Tracks : \A i \in DOMAIN Timeline[s] :
       Timeline[s][i].to - Timeline[s][i].from <= Longest
<1> DEFINE S == {0} \cup UNION {Lengths(s) : s \in Tracks}
<1>1. \A s \in Tracks : \A t \in Lengths(s) : t \in Nat /\ t <= Duration
  <2> SUFFICES ASSUME NEW s \in Tracks, NEW i \in DOMAIN Timeline[s]
               PROVE  /\ Timeline[s][i].to - Timeline[s][i].from \in Nat
                      /\ Timeline[s][i].to - Timeline[s][i].from <= Duration
    BY DEF Lengths
  <2> DEFINE f == Timeline[s][i].from
             e == Timeline[s][i].to
  <2>1. f \in Nat /\ e \in Nat /\ f < e /\ e <= Duration /\ Duration \in Nat
    BY TrackFacts, TimesNat
  <2>2. e - f \in Nat /\ e - f <= Duration
    <3> HIDE DEF f, e
    <3> QED BY <2>1
  <2> QED BY <2>2
<1>2. \A t \in S : t \in Nat /\ t <= Duration
  BY <1>1, TimesNat
<1>3. \A s \in Tracks : Lengths(s) \subseteq S
  OBVIOUS
<1>4. Max(S) \in S /\ \A t \in S : t <= Max(S)
  <2>1. S \in SUBSET Nat /\ S # {}
    BY <1>2
  <2> HIDE DEF S
  <2> QED BY <1>2, <2>1, TimesNat, BoundedGreatest
<1>5. \A s \in Tracks : \A i \in DOMAIN Timeline[s] :
        Timeline[s][i].to - Timeline[s][i].from \in Lengths(s)
  BY DEF Lengths
<1>6. Longest = Max(S)
  BY DEF Longest
<1> HIDE DEF S
<1> QED BY <1>2, <1>3, <1>4, <1>5, <1>6

-----------------------------------------------------------------------------
(* Playback: what pump() and fill() do to the cache of a media source        *)

LEMMA BackTyped ==
  /\ Back(TRUE) \in Nat /\ Back(FALSE) \in Nat
  /\ Back(TRUE) = Behind + Slack /\ Back(FALSE) = Behind + Longest
  /\ {Behind, Slack, Longest, Wide} \subseteq Nat
BY SegmentsBounded, WindowsBounded, FlightConstantsOK DEF Back

LEMMA BufferedIs ==
  ASSUME NEW s, playback.station = s, NEW b, NEW t
  PROVE  Buffered(b, t) <=> Held(s, b, t)
BY DEF Buffered, Held, From, To

LEMMA NotBefore ==
  ASSUME NEW t \in Nat, NEW floor \in Nat, NEW target \in Nat, NEW behind \in Nat, NEW slack \in Nat,
         floor >= target - behind, t >= floor \/ t >= floor - slack
  PROVE  t >= target - (behind + slack)
OBVIOUS

LEMMA LaterStill ==
  ASSUME NEW a \in Nat, NEW t \in Nat, NEW p \in Nat, NEW back \in Nat,
         a >= p - back \/ a >= p, a <= t
  PROVE  t >= p - back
OBVIOUS

LEMMA NotEarlier ==
  ASSUME NEW t \in Nat, NEW target \in Nat, NEW p \in Nat, NEW back \in Nat,
         t >= target - back, target >= p
  PROVE  t >= p - back
OBVIOUS

LEMMA BufferFields ==
  ASSUME NEW s \in Tracks, NEW b \in Buffers(s)
  PROVE  /\ b.target \in Nat /\ b.target \in Times /\ b.cut \in Nat /\ b.until \in Nat
         /\ b.have \subseteq DOMAIN Timeline[s]
         /\ b.fetching \in DOMAIN Timeline[s] \/ b.fetching = 0
         /\ b.active \in DOMAIN Timeline[s] \/ b.active = 0
BY TimesNat DEF Buffers, Segs

LEMMA EvictStored ==
  ASSUME NEW s \in Tracks, playback.station = s, continuous, NEW b \in Buffers(s)
  PROVE  /\ \A t \in Times : Held(s, Evict(b), t) => Held(s, b, t) /\ t >= b.target - Back(TRUE)
         /\ \A i \in b.have : i \in Evict(b).have \/ Timeline[s][i].to <= b.target
         /\ Evict(b).have \subseteq b.have
         /\ Evict(b).target = b.target /\ Evict(b).until = b.until
<1> DEFINE floor == Later(0, b.target - Behind)
           far == \E t \in 0 .. (floor - Slack - 1) : Buffered(b, t)
           h == {i \in b.have : To(i) > floor}
<1>1. b.target \in Nat /\ b.cut \in Nat /\ b.have \subseteq DOMAIN Timeline[s]
  BY BufferFields
<1>2. Behind \in Nat /\ Slack \in Nat /\ Back(TRUE) = Behind + Slack
  BY BackTyped
<1>3. floor \in Nat /\ floor >= b.target - Behind /\ floor <= b.target
  BY <1>1, <1>2, LargerOf
<1>4. Evict(b) = IF far THEN [b EXCEPT !.cut = floor, !.have = h] ELSE b
  BY DEF Evict
<1>5. \A i \in b.have : To(i) = Timeline[s][i].to /\ Timeline[s][i].to \in Nat
  BY <1>1, TrackFacts DEF To
<1>6. CASE far
  <2>1. PICK u \in 0 .. (floor - Slack - 1) : Held(s, b, u)
    BY <1>6, BufferedIs
  <2>2. u >= b.cut
    BY <2>1 DEF Held
  <2>3. u \in Int /\ u < floor
    BY <1>2, <1>3
  <2>4. b.cut <= floor
    BY <1>1, <1>3, <2>2, <2>3
  <2>5. Evict(b).cut = floor /\ Evict(b).have = h /\ Evict(b).target = b.target
        /\ Evict(b).until = b.until
    BY <1>4, <1>6 DEF Buffers
  <2>6. \A i \in b.have : i \in h \/ Timeline[s][i].to <= b.target
    <3> SUFFICES ASSUME NEW i \in b.have, ~(To(i) > floor) PROVE Timeline[s][i].to <= b.target
      OBVIOUS
    <3>1. To(i) \in Nat
      BY <1>5
    <3> HIDE DEF floor
    <3> QED BY <1>1, <1>3, <1>5, <3>1
  <2>7. ASSUME NEW t \in Times, Held(s, Evict(b), t)
        PROVE  Held(s, b, t) /\ t >= b.target - Back(TRUE)
    <3>1. t \in Nat /\ t >= floor /\ \E i \in b.have : Timeline[s][i].from <= t /\ t < Timeline[s][i].to
      BY <2>5, <2>7, TimesNat DEF Held
    <3>2. t >= b.cut
      <4> HIDE DEF floor
      <4> QED BY <1>1, <1>3, <2>4, <3>1
    <3>3. t >= b.target - Back(TRUE)
      BY <1>1, <1>2, <1>3, <3>1, NotBefore
    <3> QED BY <3>1, <3>2, <3>3 DEF Held
  <2> HIDE DEF far, floor
  <2> QED BY <2>5, <2>6, <2>7
<1>7. CASE ~far
  <2>1. Evict(b) = b
    BY <1>4, <1>7
  <2>2. ASSUME NEW t \in Times, Held(s, b, t) PROVE t >= b.target - Back(TRUE)
    <3>1. t \in Nat /\ ~(t \in 0 .. (floor - Slack - 1))
      BY <1>7, <2>2, BufferedIs, TimesNat
    <3>2. t >= floor - Slack
      <4> HIDE DEF floor, far
      <4> QED BY <1>2, <1>3, <3>1
    <3> QED BY <1>1, <1>2, <1>3, <3>1, <3>2, NotBefore
  <2> HIDE DEF far, floor
  <2> QED BY <2>1, <2>2
<1> QED BY <1>6, <1>7

LEMMA WantedIs ==
  ASSUME NEW s \in Tracks, playback.station = s, NEW b, Wanted(b) # 0
  PROVE  /\ Wanted(b) \in DOMAIN Timeline[s] /\ ~Has(b, Wanted(b))
         /\ Timeline[s][Wanted(b)].to > b.target /\ Timeline[s][Wanted(b)].from < b.until
<1> DEFINE S == {i \in Segments : To(i) > b.target /\ From(i) < b.until /\ ~Has(b, i)}
<1>1. S \in SUBSET (Nat \ {0})
  BY TracksOrdered DEF Ordered, Segments
<1>2. Wanted(b) = FirstOf(S)
  BY DEF Wanted
<1>3. FirstOf(S) \in S
  <2> HIDE DEF S
  <2> QED BY <1>1, <1>2, LeastIndex
<1> QED BY <1>2, <1>3 DEF Segments, To, From

\* pump() asks for nothing beyond the window, and for nothing it has given up.
LEMMA PumpStored ==
  ASSUME NEW s \in Tracks, playback.station = s, continuous, NEW b \in Buffers(s),
         NEW p \in Times, ReadAhead(s, b, p),
         \/ b.target >= p
         \/ /\ \A t \in Times : Held(s, b, t) => t >= p - Back(TRUE)
            /\ Known(s, b, b.target, p)
  PROVE  ReadAhead(s, Pump(b), p) /\ StoredFrom(s, Pump(b), p)
<1> DEFINE e == Evict(b)
           g == Wanted(e)
           r == [e EXCEPT !.fetching = g]
<1>1. /\ \A t \in Times : Held(s, e, t) => Held(s, b, t) /\ t >= b.target - Back(TRUE)
      /\ \A i \in b.have : i \in e.have \/ Timeline[s][i].to <= b.target
      /\ e.have \subseteq b.have /\ e.target = b.target /\ e.until = b.until
  BY EvictStored
<1>2. e \in Buffers(s)
  BY EvictTyped
<1>3. Pump(b) = r
  BY DEF Pump
<1>4. g # 0 => /\ g \in DOMAIN Timeline[s] /\ Timeline[s][g].to > b.target
               /\ Timeline[s][g].from < b.until
  BY <1>1, WantedIs
<1> HIDE DEF e, g
<1>5. /\ r.have = e.have /\ r.target = b.target /\ r.until = b.until /\ r.cut = e.cut
      /\ r.fetching = g
  BY <1>1, <1>2 DEF Buffers
<1>6. /\ b.target \in Nat /\ b.until \in Nat /\ p \in Nat /\ Wide \in Nat /\ Back(TRUE) \in Nat
      /\ b.have \subseteq DOMAIN Timeline[s]
  BY BufferFields, BackTyped, TimesNat
<1>7. \A i \in DOMAIN Timeline[s] : Timeline[s][i].from \in Nat /\ Timeline[s][i].to \in Nat
  BY TrackFacts
<1> HIDE DEF r
<1>8. ReadAhead(s, r, p)
  <2>1. r.until <= p + Wide /\ \A i \in r.have : Timeline[s][i].from <= p + Wide
    BY <1>1, <1>5 DEF ReadAhead
  <2>2. g # 0 => Timeline[s][g].from <= p + Wide
    <3>1. b.until <= p + Wide
      BY DEF ReadAhead
    <3> QED BY <1>4, <1>6, <1>7, <3>1
  <2> QED BY <1>5, <2>1, <2>2 DEF ReadAhead
<1>9. \A t \in Times : Held(s, r, t) <=> Held(s, e, t)
  BY <1>5 DEF Held
<1>10. CASE b.target >= p
  <2>1. \A t \in Times : Held(s, r, t) => t >= p - Back(TRUE)
    <3> SUFFICES ASSUME NEW t \in Times, Held(s, e, t) PROVE t >= p - Back(TRUE)
      BY <1>9
    <3>1. t \in Nat /\ t >= b.target - Back(TRUE)
      BY <1>1, TimesNat
    <3> QED BY <1>6, <1>10, <3>1, NotEarlier
  <2>2. g # 0 => Timeline[s][g].to > p
    BY <1>4, <1>6, <1>7, <1>10
  <2>3. r.target >= p
    BY <1>5, <1>10
  <2>4. r.fetching # 0 => Timeline[s][r.fetching].to > p
    BY <1>5, <2>2
  <2> QED BY <1>3, <1>8, <2>1, <2>3, <2>4 DEF StoredFrom
<1>11. CASE /\ \A t \in Times : Held(s, b, t) => t >= p - Back(TRUE)
            /\ Known(s, b, b.target, p)
  <2>1. \A t \in Times : Held(s, r, t) => t >= p - Back(TRUE)
    BY <1>1, <1>9, <1>11
  <2>2. ASSUME NEW i \in DOMAIN Timeline[s], Timeline[s][i].to > b.target
        PROVE  i \in e.have \/ Timeline[s][i].from >= p - Back(TRUE)
    <3>1. i \in b.have \/ Timeline[s][i].from >= p - Back(TRUE)
      BY <1>11, <2>2 DEF Known
    <3>2. ~(Timeline[s][i].to <= b.target)
      BY <1>6, <1>7, <2>2
    <3> QED BY <1>1, <3>1, <3>2
  <2>3. g # 0 => g \in e.have \/ Timeline[s][g].from >= p - Back(TRUE)
    BY <1>4, <2>2
  <2>4. Known(s, r, r.target, p)
    BY <1>5, <2>2 DEF Known
  <2>5. r.fetching # 0 => r.fetching \in r.have \/ Timeline[s][r.fetching].from >= p - Back(TRUE)
    BY <1>5, <2>3
  <2> QED BY <1>3, <1>8, <2>1, <2>4, <2>5 DEF StoredFrom
<1> QED BY <1>10, <1>11

\* fill() forwards, or to a place that is cached, gives up nothing it would ask for again.
LEMMA RetargetStored ==
  ASSUME NEW s \in Tracks, NEW b \in Buffers(s), NEW p \in Times, StoredFrom(s, b, p),
         NEW pos \in Times, pos >= b.target \/ Held(s, b, pos)
  PROVE  pos >= p \/ Known(s, b, pos, p)
<1>1. /\ b.target \in Nat /\ pos \in Nat /\ p \in Nat /\ Back(TRUE) \in Nat
      /\ b.have \subseteq DOMAIN Timeline[s]
  BY BufferFields, BackTyped, TimesNat
<1>2. \A i \in DOMAIN Timeline[s] :
        Timeline[s][i].from \in Nat /\ Timeline[s][i].to \in Nat /\ i \in Nat
  BY TrackFacts
<1>3. CASE pos >= b.target
  <2>1. CASE b.target >= p
    BY <1>1, <1>3, <2>1
  <2>2. CASE Known(s, b, b.target, p)
    <3> SUFFICES ASSUME NEW i \in DOMAIN Timeline[s], Timeline[s][i].to > pos
                 PROVE  i \in b.have \/ Timeline[s][i].from >= p - Back(TRUE)
      BY DEF Known
    <3>1. Timeline[s][i].to > b.target
      BY <1>1, <1>2, <1>3
    <3> QED BY <2>2, <3>1 DEF Known
  <2> QED BY <2>1, <2>2 DEF StoredFrom
<1>4. CASE Held(s, b, pos)
  <2>1. PICK k \in b.have : Timeline[s][k].from <= pos /\ pos < Timeline[s][k].to
    BY <1>4 DEF Held
  <2>2. pos >= p - Back(TRUE)
    BY <1>4 DEF StoredFrom
  <2> SUFFICES ASSUME NEW i \in DOMAIN Timeline[s], Timeline[s][i].to > pos, i # k
               PROVE  Timeline[s][i].from >= p - Back(TRUE)
    BY DEF Known
  <2> DEFINE f == Timeline[s][i].from
             x == Timeline[s][k].to
  <2>3. k \in DOMAIN Timeline[s] /\ f \in Nat /\ x \in Nat
    BY <1>1, <1>2
  <2>4. ~(i < k)
    <3> SUFFICES ASSUME i < k PROVE FALSE
      OBVIOUS
    <3>1. Timeline[s][i].to <= Timeline[s][k].from
      BY <2>3, TrackFacts
    <3> QED BY <1>1, <1>2, <2>1, <2>3, <3>1
  <2>5. k < i
    BY <1>2, <2>3, <2>4
  <2>6. x <= f
    BY <2>3, <2>5, TrackFacts
  <2>7. f >= p - Back(TRUE)
    <3>1. pos < x
      BY <2>1
    <3>2. pos <= f
      <4> HIDE DEF f, x
      <4> QED BY <1>1, <2>3, <2>6, <3>1
    <3> QED BY <1>1, <2>2, <2>3, <3>2, LaterStill
  <2> QED BY <2>7
<1> QED BY <1>3, <1>4

LEMMA FillStored ==
  ASSUME NEW s \in Tracks, playback.station = s, continuous, NEW b \in Buffers(s), Stored(s, b),
         NEW pos \in Times, NEW w \in Windows, pos >= b.target \/ Held(s, b, pos)
  PROVE  Stored(s, FillAhead(b, pos, w)) /\ FillAhead(b, pos, w).target = pos
<1> DEFINE t == [b EXCEPT !.target = pos]
           u == [t EXCEPT !.until = pos + w]
<1>1. PICK p \in Times : ReadAhead(s, b, p) /\ StoredFrom(s, b, p)
  BY DEF Stored
<1>2. /\ pos \in Nat /\ p \in Nat /\ Wide \in Nat /\ Back(TRUE) \in Nat /\ w \in Nat /\ w <= Wide
      /\ b.have \subseteq DOMAIN Timeline[s] /\ b.until \in Nat
  BY BufferFields, BackTyped, TimesNat, WindowsBounded
<1>3. t \in Buffers(s) /\ u \in Buffers(s)
  <2>1. pos + w \in Nat
    BY <1>2
  <2> QED BY <2>1 DEF Buffers
<1>4. /\ t.have = b.have /\ t.cut = b.cut /\ t.until = b.until /\ t.fetching = b.fetching
      /\ t.target = pos /\ u.have = b.have /\ u.cut = b.cut /\ u.target = pos
      /\ u.until = pos + w /\ u.fetching = b.fetching
  BY DEF Buffers
<1>5. FillAhead(b, pos, w) = t \/ (b.fetching = 0 /\ FillAhead(b, pos, w) = Pump(u))
  BY <1>4 DEF FillAhead
<1> HIDE DEF t, u
<1>6. pos >= p \/ Known(s, b, pos, p)
  BY <1>1, RetargetStored
<1>7. Stored(s, t)
  <2>1. ReadAhead(s, t, p)
    BY <1>1, <1>4 DEF ReadAhead
  <2>2. \A x \in Times : Held(s, t, x) <=> Held(s, b, x)
    BY <1>4 DEF Held
  <2>3. t.target >= p \/ Known(s, t, t.target, p)
    BY <1>4, <1>6 DEF Known
  <2>4. \A x \in Times : Held(s, t, x) => x >= p - Back(TRUE)
    BY <1>1, <2>2 DEF StoredFrom
  <2>5. t.fetching # 0 => \/ t.fetching \in t.have
                          \/ Timeline[s][t.fetching].from >= p - Back(TRUE)
                          \/ Timeline[s][t.fetching].to > p
    BY <1>1, <1>4 DEF StoredFrom
  <2> QED BY <2>1, <2>3, <2>4, <2>5 DEF StoredFrom, Stored
<1>8. ASSUME b.fetching = 0 PROVE Stored(s, Pump(u))
  <2>1. \A i \in b.have : Timeline[s][i].from \in Nat /\ Timeline[s][i].from <= p + Wide
    BY <1>1, <1>2, TrackFacts DEF ReadAhead
  <2>2. CASE pos >= p
    <3>1. ReadAhead(s, u, pos)
      <4>1. pos + w <= pos + Wide
        BY <1>2
      <4>2. \A i \in b.have : Timeline[s][i].from <= pos + Wide
        BY <1>2, <2>1, <2>2
      <4> QED BY <1>4, <1>8, <4>1, <4>2 DEF ReadAhead
    <3>2. u.target >= pos
      BY <1>2, <1>4
    <3> QED BY <1>3, <3>1, <3>2, PumpStored DEF Stored
  <2>3. CASE ~(pos >= p)
    <3>1. ReadAhead(s, u, p)
      <4>1. pos + w <= p + Wide
        BY <1>2, <2>3
      <4> QED BY <1>4, <1>8, <2>1, <4>1 DEF ReadAhead
    <3>2. \A x \in Times : Held(s, u, x) => x >= p - Back(TRUE)
      BY <1>1, <1>4 DEF Held, StoredFrom
    <3>3. Known(s, u, u.target, p)
      BY <1>4, <1>6, <2>3 DEF Known
    <3> QED BY <1>3, <3>1, <3>2, <3>3, PumpStored DEF Stored
  <2> QED BY <2>2, <2>3
<1>9. Pump(u).target = pos
  <2> DEFINE e == Evict(u)
  <2>1. e \in Buffers(s) /\ e.target = u.target
    BY <1>3, EvictTyped, EvictStored
  <2>2. Pump(u) = [e EXCEPT !.fetching = Wanted(e)]
    BY DEF Pump
  <2> HIDE DEF e
  <2> QED BY <1>4, <2>1, <2>2 DEF Buffers
<1> QED BY <1>4, <1>5, <1>7, <1>8, <1>9

\* A segment that was asked for arrives.
LEMMA FetchedStored ==
  ASSUME NEW s \in Tracks, playback.station = s, continuous, NEW b \in Buffers(s), Stored(s, b),
         b.fetching # 0
  PROVE  LET c == [b EXCEPT !.have = @ \cup {b.fetching}] IN
         Stored(s, Pump(c)) /\ Pump(c).target = b.target
<1> DEFINE f == b.fetching
           c == [b EXCEPT !.have = @ \cup {f}]
<1>1. PICK p \in Times : ReadAhead(s, b, p) /\ StoredFrom(s, b, p)
  BY DEF Stored
<1>2. /\ p \in Nat /\ b.target \in Nat /\ Back(TRUE) \in Nat
      /\ b.have \subseteq DOMAIN Timeline[s] /\ f \in DOMAIN Timeline[s]
  BY BufferFields, BackTyped, TimesNat
<1>3. c \in Buffers(s)
  BY <1>2 DEF Buffers
<1>4. /\ c.have = b.have \cup {f} /\ c.cut = b.cut /\ c.until = b.until /\ c.fetching = f
      /\ c.target = b.target
  BY DEF Buffers
<1>5. /\ f # 0 /\ Timeline[s][f].from <= p + Wide
      /\ f \in b.have \/ Timeline[s][f].from >= p - Back(TRUE) \/ Timeline[s][f].to > p
  BY <1>1 DEF ReadAhead, StoredFrom
<1> HIDE DEF c, f
<1>6. ReadAhead(s, c, p)
  BY <1>1, <1>4, <1>5 DEF ReadAhead
<1>7. \/ c.target >= p
      \/ /\ \A t \in Times : Held(s, c, t) => t >= p - Back(TRUE)
         /\ Known(s, c, c.target, p)
  <2> SUFFICES ASSUME ~(b.target >= p), Known(s, b, b.target, p)
               PROVE  /\ \A t \in Times : Held(s, c, t) => t >= p - Back(TRUE)
                      /\ Known(s, c, c.target, p)
    BY <1>1, <1>4 DEF StoredFrom
  <2>1. Timeline[s][f].from \in Nat /\ Timeline[s][f].to \in Nat
    BY <1>2, TrackFacts
  <2>2. f \in b.have \/ Timeline[s][f].from >= p - Back(TRUE)
    <3>1. Timeline[s][f].to > p => Timeline[s][f].to > b.target
      BY <1>2, <2>1
    <3> QED BY <1>2, <1>5, <3>1 DEF Known
  <2>3. ASSUME NEW t \in Times, Held(s, c, t) PROVE t >= p - Back(TRUE)
    <3>1. CASE Held(s, b, t)
      BY <1>1, <3>1 DEF StoredFrom
    <3>2. CASE ~Held(s, b, t)
      <4>1. f \notin b.have /\ Timeline[s][f].from <= t
        BY <1>4, <2>3, <3>2 DEF Held
      <4>2. t \in Nat /\ Timeline[s][f].from >= p - Back(TRUE)
        BY <2>2, <4>1, TimesNat
      <4> QED BY <1>2, <2>1, <4>1, <4>2, LaterStill
    <3> QED BY <3>1, <3>2
  <2>4. Known(s, c, c.target, p)
    BY <1>4 DEF Known
  <2> QED BY <2>3, <2>4
<1>8. Pump(c).target = b.target
  <2> DEFINE e == Evict(c)
  <2>1. e \in Buffers(s) /\ e.target = c.target
    BY <1>3, EvictTyped, EvictStored
  <2>2. Pump(c) = [e EXCEPT !.fetching = Wanted(e)]
    BY DEF Pump
  <2> HIDE DEF e
  <2> QED BY <1>4, <2>1, <2>2 DEF Buffers
<1>9. Stored(s, Pump(c))
  BY <1>3, <1>6, <1>7, PumpStored DEF Stored
<1> QED BY <1>8, <1>9 DEF c, f

\* The first segment of a buffer that has just opened, and a buffer that has nothing.
LEMMA FirstStored ==
  ASSUME NEW s \in Tracks, NEW b \in Buffers(s), b.until = 0, b.fetching = 0,
         NEW seg \in DOMAIN Timeline[s], seg = NextAfter(s, b.target), b.have = {seg}
  PROVE  Stored(s, b)
<1> DEFINE p == Timeline[s][seg].from
<1>1. p \in Nat /\ p \in Times /\ Wide \in Nat /\ Back(TRUE) \in Nat /\ b.target \in Times
  BY TrackFacts, BackTyped, BufferFields
<1>2. \A i \in DOMAIN Timeline[s] : Timeline[s][i].to > b.target => i = seg \/ Timeline[s][i].from >= p
  <2> SUFFICES ASSUME NEW i \in DOMAIN Timeline[s], Timeline[s][i].to > b.target, i # seg
               PROVE  Timeline[s][i].from >= p
    OBVIOUS
  <2>1. seg <= i /\ seg \in Nat /\ i \in Nat
    BY <1>1, NextAfterIs, TrackFacts
  <2>2. Timeline[s][seg].to <= Timeline[s][i].from /\ p < Timeline[s][seg].to
    BY <2>1, TrackFacts
  <2>3. Timeline[s][seg].to \in Nat /\ Timeline[s][i].from \in Nat
    BY TrackFacts
  <2> QED BY <1>1, <2>2, <2>3
<1>3. \A t \in Times : Held(s, b, t) => t >= p
  BY <1>1, TimesNat DEF Held
<1>4. \A t \in Nat : t >= p => t >= p - Back(TRUE)
  <2> SUFFICES ASSUME NEW t \in Nat, t >= p PROVE t >= p - Back(TRUE)
    OBVIOUS
  <2> HIDE DEF p
  <2>1. p <= t
    BY <1>1
  <2>2. p >= p
    BY <1>1
  <2> QED BY <1>1, <2>1, <2>2, LaterStill
<1>5. \A i \in DOMAIN Timeline[s] : Timeline[s][i].from \in Nat
  BY TrackFacts
<1>6. Known(s, b, b.target, p)
  BY <1>2, <1>4, <1>5 DEF Known
<1>7. \A t \in Times : Held(s, b, t) => t >= p - Back(TRUE)
  BY <1>3, <1>4, TimesNat
<1>8. 0 <= p + Wide /\ p <= p + Wide
  BY <1>1
<1>9. ReadAhead(s, b, p)
  BY <1>8 DEF ReadAhead
<1> HIDE DEF p
<1> QED BY <1>1, <1>6, <1>7, <1>9 DEF Stored, StoredFrom

-----------------------------------------------------------------------------
(* Playback: what they do to the files of a browser without a media source   *)

\* A segment that ends not long before t began not long before t.
LEMMA WholeSegment ==
  ASSUME NEW s \in Tracks, NEW i \in DOMAIN Timeline[s], NEW t \in Nat,
         Timeline[s][i].to >= t - Behind
  PROVE  Timeline[s][i].from >= t - Back(FALSE)
<1> DEFINE f == Timeline[s][i].from
           e == Timeline[s][i].to
<1>1. f \in Nat /\ e \in Nat /\ e - f <= Longest /\ e >= t - Behind
  BY TrackFacts, SegmentsBounded
<1>2. Longest \in Nat /\ Behind \in Nat /\ Back(FALSE) = Behind + Longest
  BY BackTyped
<1>3. f >= t - (Behind + Longest)
  <2> HIDE DEF f, e
  <2> QED BY <1>1, <1>2
<1> QED BY <1>2, <1>3

LEMMA AfterHere ==
  ASSUME NEW s \in Tracks, NEW t \in Times
  PROVE  After(s, t, t) /\ \A i \in DOMAIN Timeline[s] :
           Timeline[s][i].to >= t => Timeline[s][i].from >= t - Back(FALSE)
<1>1. t \in Nat /\ Behind \in Nat /\ \A i \in DOMAIN Timeline[s] : Timeline[s][i].to \in Nat
  BY TrackFacts, TimesNat, BackTyped
<1>2. ASSUME NEW i \in DOMAIN Timeline[s], Timeline[s][i].to >= t
      PROVE  Timeline[s][i].from >= t - Back(FALSE)
  <2>1. Timeline[s][i].to >= t - Behind
    BY <1>1, <1>2
  <2> QED BY <1>1, <2>1, WholeSegment
<1>3. \A i \in DOMAIN Timeline[s] : Timeline[s][i].to > t => Timeline[s][i].to >= t
  BY <1>1
<1> QED BY <1>2, <1>3 DEF After

LEMMA EvictFiled ==
  ASSUME NEW s \in Tracks, playback.station = s, ~continuous, NEW b \in Buffers(s)
  PROVE  /\ \A i \in Evict(b).have : Timeline[s][i].from >= b.target - Back(FALSE)
         /\ Evict(b).have \subseteq b.have /\ Evict(b).cut = b.cut
         /\ Evict(b).target = b.target /\ Evict(b).until = b.until
<1> DEFINE floor == Later(0, b.target - Behind)
           h == {i \in b.have : To(i) >= floor /\ From(i) <= b.until}
<1>1. b.target \in Nat /\ b.have \subseteq DOMAIN Timeline[s] /\ Behind \in Nat
  BY BufferFields, BackTyped
<1>2. floor \in Int /\ floor >= b.target - Behind
  BY <1>1, LargerOf
<1>3. Evict(b) = [b EXCEPT !.have = h]
  BY DEF Evict
<1>4. ASSUME NEW i \in h PROVE Timeline[s][i].from >= b.target - Back(FALSE)
  <2>1. i \in DOMAIN Timeline[s] /\ Timeline[s][i].to >= floor /\ Timeline[s][i].to \in Nat
    BY <1>1, TrackFacts DEF To
  <2>2. Timeline[s][i].to >= b.target - Behind
    <3> HIDE DEF floor
    <3> QED BY <1>1, <1>2, <2>1
  <2> QED BY <1>1, <2>1, <2>2, WholeSegment
<1>5. h \subseteq b.have
  OBVIOUS
<1> HIDE DEF h
<1>6. Evict(b).have = h /\ Evict(b).cut = b.cut /\ Evict(b).target = b.target
      /\ Evict(b).until = b.until
  BY <1>3 DEF Buffers
<1> QED BY <1>4, <1>5, <1>6

LEMMA PumpFiled ==
  ASSUME NEW s \in Tracks, playback.station = s, continuous \in BOOLEAN, ~continuous,
         NEW b \in Buffers(s), b.cut = 0, NEW p \in Times, ReadAhead(s, b, p), After(s, b.target, p),
         b.target >= p \/ \A i \in b.have : Timeline[s][i].from >= p - Back(FALSE)
  PROVE  ReadAhead(s, Pump(b), p) /\ FiledFrom(s, Pump(b), p)
<1> DEFINE e == Evict(b)
           g == Wanted(e)
           r == [e EXCEPT !.fetching = g]
<1>1. /\ \A i \in e.have : Timeline[s][i].from >= b.target - Back(FALSE)
      /\ e.have \subseteq b.have /\ e.cut = 0 /\ e.target = b.target /\ e.until = b.until
  BY EvictFiled
<1>2. e \in Buffers(s)
  BY EvictTyped
<1>3. Pump(b) = r
  BY DEF Pump
<1>4. g # 0 => /\ g \in DOMAIN Timeline[s] /\ Timeline[s][g].to > b.target
               /\ Timeline[s][g].from < b.until
  BY <1>1, WantedIs
<1> HIDE DEF e, g
<1>5. /\ r.have = e.have /\ r.target = b.target /\ r.until = b.until /\ r.cut = 0
      /\ r.fetching = g
  BY <1>1, <1>2 DEF Buffers
<1>6. /\ b.target \in Nat /\ b.until \in Nat /\ p \in Nat /\ Wide \in Nat /\ Back(FALSE) \in Nat
      /\ b.have \subseteq DOMAIN Timeline[s]
  BY BufferFields, BackTyped, TimesNat
<1>7. \A i \in DOMAIN Timeline[s] : Timeline[s][i].from \in Nat /\ Timeline[s][i].to \in Nat
  BY TrackFacts
<1> HIDE DEF r
<1>8. ReadAhead(s, r, p)
  <2>1. r.until <= p + Wide /\ \A i \in r.have : Timeline[s][i].from <= p + Wide
    BY <1>1, <1>5 DEF ReadAhead
  <2>2. g # 0 => Timeline[s][g].from <= p + Wide
    <3>1. b.until <= p + Wide
      BY DEF ReadAhead
    <3> QED BY <1>4, <1>6, <1>7, <3>1
  <2> QED BY <1>5, <2>1, <2>2 DEF ReadAhead
<1>9. ASSUME NEW i \in e.have PROVE Timeline[s][i].from >= p - Back(FALSE)
  <2>1. CASE b.target >= p
    <3>1. Timeline[s][i].from \in Nat /\ Timeline[s][i].from >= b.target - Back(FALSE)
      BY <1>1, <1>6, <1>7
    <3> QED BY <1>6, <2>1, <3>1, NotEarlier
  <2> QED BY <1>1, <2>1
<1>10. g # 0 => Timeline[s][g].from >= p - Back(FALSE)
  BY <1>4 DEF After
<1>11. FiledFrom(s, r, p)
  BY <1>5, <1>9, <1>10 DEF FiledFrom
<1> QED BY <1>3, <1>8, <1>11

LEMMA FillFiled ==
  ASSUME NEW s \in Tracks, playback.station = s, continuous \in BOOLEAN, ~continuous,
         NEW b \in Buffers(s), NEW pos \in Times, NEW w \in Windows, NEW a \in Segs(s), Filed(s, b, pos, a),
         a # 0 => pos <= Timeline[s][a].to
  PROVE  Filed(s, FillAhead(b, pos, w), pos, a)
<1> DEFINE t == [b EXCEPT !.target = pos]
           u == [t EXCEPT !.until = pos + w]
<1>1. PICK p \in Times : /\ ReadAhead(s, b, p) /\ FiledFrom(s, b, p) /\ After(s, pos, p)
                         /\ a # 0 => Timeline[s][a].from >= p - Back(FALSE)
  BY DEF Filed
<1>2. /\ pos \in Nat /\ p \in Nat /\ Wide \in Nat /\ w \in Nat /\ w <= Wide
      /\ b.have \subseteq DOMAIN Timeline[s] /\ b.until \in Nat
  BY BufferFields, BackTyped, TimesNat, WindowsBounded
<1>3. t \in Buffers(s) /\ u \in Buffers(s)
  <2>1. pos + w \in Nat
    BY <1>2
  <2> QED BY <2>1 DEF Buffers
<1>4. /\ t.have = b.have /\ t.cut = b.cut /\ t.until = b.until /\ t.fetching = b.fetching
      /\ t.target = pos /\ u.have = b.have /\ u.cut = b.cut /\ u.target = pos
      /\ u.until = pos + w /\ u.fetching = b.fetching
  BY DEF Buffers
<1>5. FillAhead(b, pos, w) = t \/ (b.fetching = 0 /\ FillAhead(b, pos, w) = Pump(u))
  BY <1>4 DEF FillAhead
<1> HIDE DEF t, u
<1>6. Filed(s, t, pos, a)
  <2>1. ReadAhead(s, t, p) /\ FiledFrom(s, t, p)
    BY <1>1, <1>4 DEF ReadAhead, FiledFrom
  <2> QED BY <1>1, <2>1 DEF Filed
<1>7. ASSUME b.fetching = 0 PROVE Filed(s, Pump(u), pos, a)
  <2>1. \A i \in b.have : Timeline[s][i].from \in Nat /\ Timeline[s][i].from <= p + Wide
    BY <1>1, <1>2, TrackFacts DEF ReadAhead
  <2>2. u.cut = 0
    BY <1>1, <1>4 DEF FiledFrom
  <2>3. CASE pos >= p
    <3>1. ReadAhead(s, u, pos)
      <4>1. pos + w <= pos + Wide
        BY <1>2
      <4>2. \A i \in b.have : Timeline[s][i].from <= pos + Wide
        BY <1>2, <2>1, <2>3
      <4> QED BY <1>4, <1>7, <4>1, <4>2 DEF ReadAhead
    <3>2. u.target >= pos /\ After(s, u.target, pos)
      <4>1. After(s, pos, pos)
        BY AfterHere
      <4>2. pos >= pos
        BY <1>2
      <4> QED BY <1>4, <4>1, <4>2
    <3>3. ReadAhead(s, Pump(u), pos) /\ FiledFrom(s, Pump(u), pos)
      BY <1>3, <2>2, <3>1, <3>2, PumpFiled
    <3>4. a # 0 => Timeline[s][a].from >= pos - Back(FALSE)
      BY <1>2, AfterHere, TrackFacts DEF Segs
    <3> QED BY <3>3, <3>4, AfterHere DEF Filed
  <2>4. CASE ~(pos >= p)
    <3>1. ReadAhead(s, u, p)
      <4>1. pos + w <= p + Wide
        BY <1>2, <2>4
      <4> QED BY <1>4, <1>7, <2>1, <4>1 DEF ReadAhead
    <3>2. After(s, u.target, p) /\ \A i \in u.have : Timeline[s][i].from >= p - Back(FALSE)
      BY <1>1, <1>4 DEF FiledFrom
    <3>3. ReadAhead(s, Pump(u), p) /\ FiledFrom(s, Pump(u), p)
      BY <1>3, <2>2, <3>1, <3>2, PumpFiled
    <3> QED BY <1>1, <3>3 DEF Filed
  <2> QED BY <2>3, <2>4
<1> QED BY <1>5, <1>6, <1>7

LEMMA FetchedFiled ==
  ASSUME NEW s \in Tracks, playback.station = s, continuous \in BOOLEAN, ~continuous,
         NEW b \in Buffers(s), NEW t, NEW a, Filed(s, b, t, a), b.fetching # 0
  PROVE  Filed(s, Pump([b EXCEPT !.have = @ \cup {b.fetching}]), t, a)
<1> DEFINE c == [b EXCEPT !.have = @ \cup {b.fetching}]
<1>1. PICK p \in Times : /\ ReadAhead(s, b, p) /\ FiledFrom(s, b, p) /\ After(s, t, p)
                         /\ a # 0 => Timeline[s][a].from >= p - Back(FALSE)
  BY DEF Filed
<1>2. c \in Buffers(s)
  <2>1. b.fetching \in DOMAIN Timeline[s] /\ b.have \subseteq DOMAIN Timeline[s]
    BY BufferFields
  <2> QED BY <2>1 DEF Buffers
<1>3. /\ c.have = b.have \cup {b.fetching} /\ c.cut = b.cut /\ c.until = b.until
      /\ c.fetching = b.fetching /\ c.target = b.target
  BY DEF Buffers
<1> HIDE DEF c
<1>4. ReadAhead(s, c, p)
  BY <1>1, <1>3 DEF ReadAhead
<1>5. /\ c.cut = 0 /\ After(s, c.target, p)
      /\ \A i \in c.have : Timeline[s][i].from >= p - Back(FALSE)
  BY <1>1, <1>3 DEF FiledFrom
<1>6. ReadAhead(s, Pump(c), p) /\ FiledFrom(s, Pump(c), p)
  BY <1>2, <1>4, <1>5, PumpFiled
<1>7. Filed(s, Pump(c), t, a)
  BY <1>1, <1>6 DEF Filed
<1> QED BY <1>7 DEF c

\* The segments after a place of a segment began after it or with it.
LEMMA AfterStart ==
  ASSUME NEW s \in Tracks, NEW k \in DOMAIN Timeline[s], NEW t \in Nat,
         Timeline[s][k].from <= t, NEW p \in Times, Timeline[s][k].from >= p - Back(FALSE)
  PROVE  After(s, t, p)
<1> SUFFICES ASSUME NEW i \in DOMAIN Timeline[s], Timeline[s][i].to > t, i # k
             PROVE  Timeline[s][i].from >= p - Back(FALSE)
  BY DEF After
<1>1. /\ i \in Nat /\ k \in Nat /\ Timeline[s][i].to \in Nat /\ Timeline[s][k].from \in Nat
      /\ Timeline[s][i].from \in Nat /\ Timeline[s][k].to \in Nat
      /\ Timeline[s][k].from < Timeline[s][k].to
  BY TrackFacts
<1>2. ~(i < k)
  <2> SUFFICES ASSUME i < k PROVE FALSE
    OBVIOUS
  <2>1. Timeline[s][i].to <= Timeline[s][k].from
    BY TrackFacts
  <2> QED BY <1>1, <2>1
<1>3. k < i
  BY <1>1, <1>2
<1>4. Timeline[s][k].to <= Timeline[s][i].from
  BY <1>3, TrackFacts
<1>5. Timeline[s][k].from <= Timeline[s][i].from
  BY <1>1, <1>4
<1> QED BY <1>1, <1>5, LaterStill, BackTyped, TimesNat

\* The first file of a buffer that opens.
LEMMA FirstFiled ==
  ASSUME NEW s \in Tracks, NEW b \in Buffers(s), b.until = 0, b.fetching = 0, b.cut = 0,
         NEW seg \in DOMAIN Timeline[s], seg = NextAfter(s, b.target), b.have = {seg}
  PROVE  Filed(s, b, b.target, 0)
<1> DEFINE p == Timeline[s][seg].from
<1>1. p \in Nat /\ p \in Times /\ Wide \in Nat /\ Back(FALSE) \in Nat /\ b.target \in Times
  BY TrackFacts, BackTyped, BufferFields
<1>2. p >= p - Back(FALSE) /\ 0 <= p + Wide /\ p <= p + Wide
  <2>1. p <= p /\ 0 <= p + Wide /\ p <= p + Wide
    <3> HIDE DEF p
    <3> QED BY <1>1
  <2> QED BY <1>1, <2>1, LaterStill
<1>3. After(s, b.target, p)
  <2> SUFFICES ASSUME NEW i \in DOMAIN Timeline[s], Timeline[s][i].to > b.target, i # seg
               PROVE  Timeline[s][i].from >= p - Back(FALSE)
    BY <1>2 DEF After
  <2>1. seg <= i /\ seg \in Nat /\ i \in Nat
    BY <1>1, NextAfterIs, TrackFacts
  <2>2. Timeline[s][seg].to <= Timeline[s][i].from /\ p < Timeline[s][seg].to
    BY <2>1, TrackFacts
  <2>3. Timeline[s][seg].to \in Nat /\ Timeline[s][i].from \in Nat
    BY TrackFacts
  <2>4. p <= Timeline[s][i].from
    BY <1>1, <2>2, <2>3
  <2> QED BY <1>1, <1>2, <2>3, <2>4, LaterStill
<1>4. ReadAhead(s, b, p)
  BY <1>2 DEF ReadAhead
<1>5. FiledFrom(s, b, p)
  BY <1>2, <1>3 DEF FiledFrom
<1> HIDE DEF p
<1> QED BY <1>1, <1>3, <1>4, <1>5 DEF Filed

\* What moves the place, or what the cache is read by, but not the cache.
LEMMA PlaceFiled ==
  ASSUME NEW s \in Tracks, NEW b \in Buffers(s), NEW t \in Times, NEW a \in Segs(s),
         Filed(s, b, t, a)
  PROVE  /\ Filed(s, b, t, 0)
         /\ \A u \in Times : u >= t => Filed(s, b, u, a)
         /\ \A u \in Times : Held(s, b, u) => Filed(s, b, u, 0)
         /\ \A i \in DOMAIN Timeline[s] : Timeline[s][i].to > t => Filed(s, b, t, i)
         /\ a # 0 => Filed(s, b, Timeline[s][a].from, a)
<1>1. PICK p \in Times : /\ ReadAhead(s, b, p) /\ FiledFrom(s, b, p) /\ After(s, t, p)
                         /\ a # 0 => Timeline[s][a].from >= p - Back(FALSE)
  BY DEF Filed
<1>2. t \in Nat /\ \A u \in Times : u \in Nat
  BY TimesNat
<1>3. \A i \in DOMAIN Timeline[s] :
        /\ Timeline[s][i].from \in Nat /\ Timeline[s][i].to \in Nat
        /\ Timeline[s][i].from <= Timeline[s][i].from
  BY TrackFacts
<1>4. b.have \subseteq DOMAIN Timeline[s]
  BY BufferFields
<1>5. Filed(s, b, t, 0)
  BY <1>1 DEF Filed
<1>6. ASSUME NEW u \in Times, u >= t PROVE Filed(s, b, u, a)
  <2>1. After(s, u, p)
    <3> SUFFICES ASSUME NEW i \in DOMAIN Timeline[s], Timeline[s][i].to > u
                 PROVE  Timeline[s][i].to > t
      BY <1>1 DEF After
    <3> QED BY <1>2, <1>3, <1>6
  <2> QED BY <1>1, <2>1 DEF Filed
<1>7. ASSUME NEW u \in Times, Held(s, b, u) PROVE Filed(s, b, u, 0)
  <2>1. PICK k \in b.have : Timeline[s][k].from <= u
    BY <1>7 DEF Held
  <2>2. Timeline[s][k].from >= p - Back(FALSE)
    BY <1>1 DEF FiledFrom
  <2>3. After(s, u, p)
    BY <1>2, <1>4, <2>1, <2>2, AfterStart
  <2> QED BY <1>1, <2>3 DEF Filed
<1>8. ASSUME NEW i \in DOMAIN Timeline[s], Timeline[s][i].to > t PROVE Filed(s, b, t, i)
  BY <1>1, <1>8 DEF Filed, After
<1>9. ASSUME a # 0 PROVE Filed(s, b, Timeline[s][a].from, a)
  <2>1. a \in DOMAIN Timeline[s]
    BY <1>9 DEF Segs
  <2>2. After(s, Timeline[s][a].from, p)
    BY <1>1, <1>3, <1>9, <2>1, AfterStart
  <2> QED BY <1>1, <2>2 DEF Filed
<1> QED BY <1>5, <1>6, <1>7, <1>8, <1>9

\* The same cache in another buffer, which waits for nothing else.
Same(b, c) == /\ c.have = b.have /\ c.cut = b.cut /\ c.target = b.target /\ c.until = b.until
              /\ c.fetching \in {b.fetching, 0}

LEMMA SameCache ==
  ASSUME NEW s, NEW b, NEW c, Same(b, c)
  PROVE  /\ Stored(s, b) => Stored(s, c)
         /\ \A t, a : Filed(s, b, t, a) => Filed(s, c, t, a)
<1>1. \A p \in Times : ReadAhead(s, b, p) => ReadAhead(s, c, p)
  BY DEF Same, ReadAhead
<1>2. \A t : Held(s, b, t) <=> Held(s, c, t)
  BY DEF Same, Held
<1>3. \A p, t : Known(s, b, t, p) <=> Known(s, c, t, p)
  BY DEF Same, Known
<1>4. ASSUME NEW p \in Times, StoredFrom(s, b, p) PROVE StoredFrom(s, c, p)
  <2>1. \A t \in Times : Held(s, c, t) => t >= p - Back(TRUE)
    BY <1>2, <1>4 DEF StoredFrom
  <2>2. c.target >= p \/ Known(s, c, c.target, p)
    BY <1>3, <1>4 DEF StoredFrom, Same
  <2>3. c.fetching # 0 => \/ c.fetching \in c.have
                          \/ Timeline[s][c.fetching].from >= p - Back(TRUE)
                          \/ Timeline[s][c.fetching].to > p
    BY <1>4 DEF StoredFrom, Same
  <2> QED BY <2>1, <2>2, <2>3 DEF StoredFrom
<1>5. \A p \in Times : FiledFrom(s, b, p) => FiledFrom(s, c, p)
  BY DEF Same, FiledFrom
<1> QED BY <1>1, <1>4, <1>5 DEF Stored, Filed

\* A buffer that has nothing and has asked for nothing.
LEMMA EmptyCache ==
  ASSUME NEW s \in Tracks, NEW b, b.have = {}, b.fetching = 0, b.until = 0, b.cut = 0,
         b.target \in Times, NEW t \in Times
  PROVE  Stored(s, b) /\ Filed(s, b, t, 0)
<1>1. Wide \in Nat /\ Back(FALSE) \in Nat /\ b.target \in Nat /\ 0 \in Times
  BY BackTyped, TimesNat
<1>2. ReadAhead(s, b, 0)
  <2>1. 0 <= 0 + Wide
    BY <1>1
  <2> QED BY <2>1 DEF ReadAhead
<1>3. \A u : ~Held(s, b, u)
  BY DEF Held
<1>4. StoredFrom(s, b, 0)
  <2>1. b.target >= 0
    BY <1>1
  <2> QED BY <1>3, <2>1 DEF StoredFrom
<1>5. \A u : After(s, u, 0)
  <2> SUFFICES ASSUME NEW i \in DOMAIN Timeline[s]
               PROVE  Timeline[s][i].from >= 0 - Back(FALSE)
    BY DEF After
  <2>1. Timeline[s][i].from \in Nat /\ 0 <= Timeline[s][i].from /\ 0 >= 0
    BY TrackFacts
  <2> QED BY <1>1, <2>1, LaterStill
<1>6. FiledFrom(s, b, 0)
  BY <1>5 DEF FiledFrom
<1> QED BY <1>1, <1>2, <1>4, <1>5, <1>6 DEF Stored, Filed

-----------------------------------------------------------------------------
(* Playback: what the steps do to the cache                                  *)

LEMMA FillCached ==
  ASSUME NEW s \in Tracks, playback.station = s, continuous \in BOOLEAN, NEW b \in Buffers(s),
         NEW pos \in Times, NEW w \in Windows, NEW a \in Segs(s),
         CachedAt(s, b, pos, a) \/ (continuous /\ Stored(s, b) /\ Held(s, b, pos))
  PROVE  CachedAt(s, FillAhead(b, pos, w), pos, a)
<1>1. pos \in Nat /\ pos >= pos
  BY TimesNat
<1>2. CASE continuous
  <2>1. Stored(s, b) /\ (pos >= b.target \/ Held(s, b, pos))
    BY <1>2 DEF CachedAt
  <2>2. Stored(s, FillAhead(b, pos, w)) /\ FillAhead(b, pos, w).target = pos
    BY <1>2, <2>1, FillStored
  <2> QED BY <1>1, <1>2, <2>2 DEF CachedAt
<1>3. CASE ~continuous
  <2>1. Filed(s, b, pos, a) /\ (a # 0 => pos <= Timeline[s][a].to)
    BY <1>3 DEF CachedAt
  <2>2. Filed(s, FillAhead(b, pos, w), pos, a)
    BY <1>3, <2>1, FillFiled
  <2> QED BY <1>3, <2>1, <2>2 DEF CachedAt
<1> QED BY <1>2, <1>3

\* A buffer that is not open only moves its target.
LEMMA FillIs ==
  ASSUME NEW s \in Tracks, playback.station = s, continuous \in BOOLEAN, NEW b \in Buffers(s),
         NEW pos \in Times, NEW w \in Windows
  PROVE  /\ ~b.opened => FillAhead(b, pos, w) = [b EXCEPT !.target = pos]
         /\ ~b.opened /\ b.until = 0 /\ b.fetching = 0 =>
              /\ FillAhead(b, pos, w).until = 0 /\ FillAhead(b, pos, w).fetching = 0
              /\ FillAhead(b, pos, w).target = pos
<1>1. ~b.opened => FillAhead(b, pos, w) = [b EXCEPT !.target = pos]
  BY DEF FillAhead, Buffers
<1> QED BY <1>1 DEF Buffers

LEMMA CachedNext ==
  ASSUME NEW s \in Tracks, continuous' = continuous, playback'.station = s,
         NEW pos \in Times, Position' = pos, buffer' \in Buffers(s), NEW a \in Segs(s),
         CachedAt(s, buffer', pos, a), continuous \/ Current' = a \/ Current' = 0,
         Unopened', OpensHere'
  PROVE  Cached'
<1>1. ~continuous => Filed(s, buffer', pos, 0)
  BY PlaceFiled DEF CachedAt
<1>2. CachedAt(s, buffer', pos, Current')
  BY <1>1 DEF CachedAt
<1> QED BY <1>2 DEF Cached, CachedAt

LEMMA SelectCached ==
  ASSUME NEW s \in Tracks, NEW t, NEW p \in Playbacks(t), p.station = s, p.on, Select(p),
         continuous' = continuous, Stays(s, p.offset)
  PROVE  Cached'
<1>1. /\ buffer' = [NoBuffer EXCEPT !.target = p.offset] /\ task'.kind = "open"
      /\ playback'.offset = p.offset /\ playback'.loading
  BY DEF Select, Playbacks
<1>2. /\ buffer'.have = {} /\ buffer'.fetching = 0 /\ buffer'.until = 0 /\ buffer'.cut = 0
      /\ buffer'.target = p.offset /\ ~buffer'.opened /\ p.offset \in Times
  BY <1>1 DEF NoBuffer, Playbacks
<1>3. Stored(s, buffer') /\ Filed(s, buffer', p.offset, 0)
  BY <1>2, EmptyCache
<1>4. CachedAt(s, buffer', p.offset, 0)
  <2>1. p.offset \in Nat
    BY <1>2, TimesNat
  <2>2. p.offset >= p.offset
    BY <2>1
  <2> QED BY <1>2, <1>3, <2>2 DEF CachedAt
<1>5. Unopened' /\ OpensHere' /\ Current' = 0
  BY <1>1, <1>2 DEF Unopened, OpensHere, Current
<1> QED BY <1>4, <1>5 DEF Cached, CachedAt, Stays

LEMMA StillStays ==
  ASSUME playback.on, Still
  PROVE  Stays(playback.station, Position)
BY DEF Still, Chosen, Place, Stays

LEMMA CachedKnown ==
  ASSUME Player, Kept, Cached, playback.on
  PROVE  /\ CachedAt(playback.station, buffer, Position, Current) /\ Unopened /\ OpensHere
         /\ playback.station \in Tracks /\ continuous \in BOOLEAN /\ window \in Windows
         /\ buffer \in Buffers(playback.station) /\ playback \in Playbacks(playback.station)
         /\ Position \in Times /\ Current \in Segs(playback.station)
         /\ playback.offset \in Times /\ audio \in Audios /\ Located
<1>1. Typed /\ Located
  BY PlaceKnown DEF Player
<1>2. playback \in Playbacks(playback.station) /\ buffer \in Buffers(playback.station)
  BY <1>1 DEF Typed
<1>3. Current \in Segs(playback.station)
  BY <1>2 DEF Current, Buffers, Segs
<1> QED BY <1>1, <1>2, <1>3 DEF Cached, Typed, Playbacks, Located, Kept

LEMMA BufferNext ==
  ASSUME Player', NEW s, playback'.station = s
  PROVE  buffer' \in Buffers(s)
BY DEF Player, Typed

LEMMA SameCached ==
  ASSUME NEW s, NEW b, NEW c, Same(b, c), NEW pos, NEW a, CachedAt(s, b, pos, a)
  PROVE  CachedAt(s, c, pos, a)
BY SameCache DEF CachedAt, Same

\* The cache is as it was, or has lost nothing but what it was waiting for.
LEMMA SameStep ==
  ASSUME Player, Kept, Cached, playback.on, Player', Stays(playback.station, Position),
         continuous' = continuous, Same(buffer, buffer'), buffer'.opened = buffer.opened,
         continuous \/ Current' = Current \/ Current' = 0,
         task'.kind = "open" => task.kind = "open" /\ playback'.offset = playback.offset
  PROVE  Cached'
<1> DEFINE s == playback.station
<1>1. /\ CachedAt(s, buffer, Position, Current) /\ Unopened /\ OpensHere /\ s \in Tracks
      /\ Position \in Times /\ Current \in Segs(s)
  BY CachedKnown
<1>2. playback'.station = s /\ Position' = Position /\ buffer' \in Buffers(s)
  BY BufferNext DEF Stays
<1>3. CachedAt(s, buffer', Position, Current)
  BY <1>1, SameCached
<1>4. Unopened' /\ OpensHere'
  BY <1>1 DEF Unopened, OpensHere, Same
<1> HIDE DEF s
<1> QED BY <1>1, <1>2, <1>3, <1>4, CachedNext

LEMMA BufferAnswersCached ==
  ASSUME Player, Kept, Cached, Fetched \/ FetchFails \/ RetryDue
  PROVE  Cached'
<1> DEFINE s == playback.station
<1>1. Player' /\ Still /\ UNCHANGED <<playback, task, audio, clock, continuous>>
  BY BufferAnswersStep DEF Fetched, FetchFails, RetryDue, UserIdle
<1> SUFFICES ASSUME playback.on PROVE Cached'
  BY <1>1 DEF Cached
<1>2. /\ CachedAt(s, buffer, Position, Current) /\ Unopened /\ OpensHere /\ s \in Tracks
      /\ Position \in Times /\ Current \in Segs(s) /\ continuous \in BOOLEAN
      /\ buffer \in Buffers(s) /\ buffer' \in Buffers(s)
  BY <1>1, CachedKnown, BufferNext
<1>3. Stays(s, Position)
  BY <1>1, StillStays
<1>4. CASE FetchFails \/ RetryDue
  <2>1. Same(buffer, buffer') /\ buffer'.opened = buffer.opened /\ buffer'.active = buffer.active
    BY <1>2, <1>4 DEF FetchFails, RetryDue, Same, Buffers
  <2>2. Current' = Current
    BY <1>1, <2>1 DEF Current
  <2> QED BY <1>1, <1>3, <2>1, <2>2, SameStep
<1>5. CASE Fetched
  <2> DEFINE f == buffer.fetching
             c == [buffer EXCEPT !.have = @ \cup {f}]
  <2>1. f # 0 /\ f \in DOMAIN Timeline[s] /\ buffer' = Pump(c)
    BY <1>2, <1>5, BufferFields DEF Fetched
  <2>2. c \in Buffers(s) /\ c.active = buffer.active /\ c.opened = buffer.opened
    BY <1>2, <2>1 DEF Buffers
  <2>3. buffer'.active = buffer.active /\ buffer'.opened = buffer.opened
    BY <1>2, <2>1, <2>2, PumpTyped
  <2>4. CachedAt(s, buffer', Position, Current)
    <3>1. CASE continuous
      <4>1. Stored(s, buffer) /\ Position >= buffer.target
        BY <1>2, <3>1 DEF CachedAt
      <4>2. Stored(s, buffer') /\ buffer'.target = buffer.target
        BY <1>2, <2>1, <3>1, <4>1, FetchedStored
      <4> QED BY <3>1, <4>1, <4>2 DEF CachedAt
    <3>2. CASE ~continuous
      <4>1. Filed(s, buffer, Position, Current)
        BY <1>2, <3>2 DEF CachedAt
      <4>2. Filed(s, buffer', Position, Current)
        BY <1>2, <2>1, <3>2, <4>1, FetchedFiled
      <4> QED BY <1>2, <3>2, <4>2 DEF CachedAt
    <3> QED BY <3>1, <3>2
  <2>5. Unopened' /\ OpensHere' /\ Current' = Current
    BY <1>1, <1>2, <2>1, <2>3 DEF Unopened, OpensHere, Current
  <2> HIDE DEF s
  <2> QED BY <1>1, <1>2, <1>3, <2>4, <2>5, CachedNext DEF Stays
<1> QED BY <1>4, <1>5

\* fill() at the place where the playback is.
LEMMA FillStep ==
  ASSUME Player, Kept, Cached, playback.on, Player', Stays(playback.station, Position),
         continuous' = continuous, NEW w \in Windows, buffer' = FillAhead(buffer, Position, w),
         continuous \/ Current' = Current \/ Current' = 0,
         task'.kind = "open" => task.kind = "open" /\ playback'.offset = Position
  PROVE  Cached'
<1> DEFINE s == playback.station
<1>1. /\ CachedAt(s, buffer, Position, Current) /\ Unopened /\ OpensHere /\ s \in Tracks
      /\ Position \in Times /\ Current \in Segs(s) /\ continuous \in BOOLEAN
      /\ buffer \in Buffers(s)
  BY CachedKnown
<1>2. playback'.station = s /\ Position' = Position /\ buffer' \in Buffers(s)
  BY BufferNext DEF Stays
<1>3. CachedAt(s, buffer', Position, Current)
  BY <1>1, FillCached
<1>4. buffer'.opened = buffer.opened
  BY <1>1, FillTyped
<1>5. ~buffer.opened =>
        buffer'.until = 0 /\ buffer'.fetching = 0 /\ buffer'.target = Position
  BY <1>1, FillIs DEF Unopened
<1>6. Unopened' /\ OpensHere'
  BY <1>1, <1>4, <1>5 DEF Unopened, OpensHere
<1> HIDE DEF s
<1> QED BY <1>1, <1>2, <1>3, <1>6, CachedNext

LEMMA SetWindowCached ==
  ASSUME Player, Kept, Cached, NEW w \in Windows, SetWindow(w)
  PROVE  Cached'
<1>1. Player' /\ Still /\ playback.on /\ continuous' = continuous
      /\ UNCHANGED <<playback, task>> /\ buffer' = FillAhead(buffer, Position, w)
  BY SetWindowStep DEF SetWindow
<1>2. buffer'.active = buffer.active
  BY <1>1, CachedKnown, FillTyped
<1>3. Current' = Current
  BY <1>1, <1>2 DEF Current
<1>4. task.kind = "open" => playback.offset = Position
  BY AwaitHeld
<1> QED BY <1>1, <1>3, <1>4, StillStays, FillStep

LEMMA ResumeKeeps ==
  ASSUME NEW s, NEW p \in Playbacks(s), NEW a, Resume(p, a)
  PROVE  /\ playback'.loading = p.loading /\ playback'.gap = p.gap
         /\ playback'.waiting = p.waiting /\ playback'.offset = p.offset
BY DEF Resume, Play, Playbacks

LEMMA AwaitCached ==
  ASSUME Player, Kept, Cached, task.kind # "none"
  PROVE  /\ playback.on /\ Position = playback.offset /\ Current = 0
         /\ CachedAt(playback.station, buffer, playback.offset, 0)
<1>1. playback.on /\ playback.loading /\ Position = playback.offset
  BY AwaitHeld
<1>2. Current = 0
  BY <1>1 DEF Current
<1> QED BY <1>1, <1>2, CachedKnown

LEMMA OpenedCached ==
  ASSUME Player, Kept, Cached, task.kind = "open", Player', Still, continuous' = continuous,
         NEW b \in Buffers(playback.station), NEW seg \in Segs(playback.station), NEW a,
         Opened(b, seg, a),
         CachedAt(playback.station, b, playback.offset,
                  IF seg # 0 /\ From(seg) <= playback.offset THEN b.active ELSE 0)
  PROVE  Cached'
<1> DEFINE s == playback.station
           c == [b EXCEPT !.opened = TRUE]
           d == IF seg # 0 /\ From(seg) <= playback.offset THEN b.active ELSE 0
           p == [playback EXCEPT !.loading = FALSE,
                                 !.gap = (seg = 0) \/ From(seg) > playback.offset]
<1>1. /\ playback.on /\ ~playback.gap /\ playback.waiting = 0 /\ Position = playback.offset
      /\ s \in Tracks /\ continuous \in BOOLEAN /\ window \in Windows
      /\ playback \in Playbacks(s) /\ playback.offset \in Times
  BY AwaitHeld, CachedKnown
<1>2. c \in Buffers(s) /\ c.opened /\ c.active = b.active /\ Same(b, c) /\ d \in Segs(s)
  BY DEF Buffers, Same, Segs
<1>3. buffer' = FillAhead(c, playback.offset, window) /\ task' = NoTask /\ Resume(p, a)
  BY DEF Opened, Fill
<1>4. p \in Playbacks(s) /\ p.waiting = 0 /\ ~p.loading
      /\ p.gap = ((seg = 0) \/ From(seg) > playback.offset)
  BY <1>1 DEF Playbacks
<1>5. ~playback'.loading /\ playback'.gap = p.gap /\ playback'.waiting = 0
  BY <1>3, <1>4, ResumeKeeps
<1>6. buffer'.opened /\ buffer'.active = b.active
  BY <1>1, <1>2, <1>3, FillTyped
<1>7. CachedAt(s, buffer', playback.offset, d)
  <2>1. CachedAt(s, c, playback.offset, d)
    BY <1>2, SameCached
  <2> HIDE DEF c, d, s
  <2> QED BY <1>1, <1>2, <1>3, <2>1, FillCached DEF s
<1>8. seg # 0 => (From(seg) > playback.offset <=> ~(From(seg) <= playback.offset))
  <2> SUFFICES ASSUME seg # 0
               PROVE  From(seg) > playback.offset <=> ~(From(seg) <= playback.offset)
    OBVIOUS
  <2>1. From(seg) \in Nat /\ playback.offset \in Nat
    BY <1>1, TrackFacts, TimesNat DEF From, Segs
  <2> QED BY <2>1
<1>9. Current' = d
  BY <1>4, <1>5, <1>6, <1>8 DEF Current
<1>10. Unopened' /\ OpensHere'
  BY <1>3, <1>6 DEF Unopened, OpensHere, NoTask
<1>11. playback'.station = s /\ Position' = playback.offset /\ buffer' \in Buffers(s)
  BY <1>1, StillStays, BufferNext DEF Stays
<1> HIDE DEF c, d, p, s
<1> QED BY <1>1, <1>2, <1>7, <1>9, <1>10, <1>11, CachedNext

LEMMA SourceOpensCached ==
  ASSUME Player, Kept, Cached, SourceOpens
  PROVE  Cached'
<1>1. Player' /\ Still /\ continuous' = continuous /\ task.kind = "open" /\ task.at = "source"
  BY SourceOpensStep DEF SourceOpens, UserIdle
<1>2. /\ playback.on /\ Position = playback.offset /\ Current = 0
      /\ CachedAt(playback.station, buffer, playback.offset, 0)
  BY <1>1, AwaitCached
<1>3. buffer \in Buffers(playback.station) /\ task \in Awaited(playback.station)
  BY DEF Player, Typed
<1>4. CASE SegAfter(task.pos) = 0
  <2>1. Opened(buffer, 0, audio)
    BY <1>4 DEF SourceOpens
  <2> QED BY <1>1, <1>2, <1>3, <2>1, OpenedCached DEF Segs
<1>5. CASE SegAfter(task.pos) # 0
  <2>1. playback' = playback /\ buffer' = buffer
    BY <1>5 DEF SourceOpens
  <2>2. Same(buffer, buffer') /\ Current' = Current
    BY <2>1 DEF Same, Current
  <2> QED BY <1>1, <1>2, <2>1, <2>2, StillStays, SameStep
<1> QED BY <1>4, <1>5

LEMMA OpenFailsCached ==
  ASSUME Player, Kept, Cached, OpenFails
  PROVE  Cached'
<1>1. Player' /\ Still /\ continuous' = continuous /\ task.kind = "open" /\ task' = NoTask
      /\ buffer' = buffer /\ playback' = [playback EXCEPT !.paused = TRUE]
  BY OpenFailsStep DEF OpenFails, UserIdle
<1>2. playback.on /\ playback.loading /\ playback \in Playbacks(playback.station)
  BY <1>1, AwaitHeld DEF Player, Typed
<1>3. playback'.loading
  BY <1>1, <1>2 DEF Playbacks
<1>4. Same(buffer, buffer') /\ Current' = 0 /\ task'.kind # "open"
  BY <1>1, <1>3 DEF Same, Current, NoTask
<1> QED BY <1>1, <1>2, <1>4, StillStays, SameStep

LEMMA FirstFetchedCached ==
  ASSUME Player, Kept, Cached, FirstFetched
  PROVE  Cached'
<1> DEFINE s == playback.station
           b == [buffer EXCEPT !.have = {task.seg}]
<1>1. Player' /\ Still /\ continuous' = continuous /\ task.kind = "open" /\ task.at = "fetch"
  BY FirstFetchedStep DEF FirstFetched, UserIdle
<1>2. /\ playback.on /\ Position = playback.offset /\ Current = 0
      /\ CachedAt(s, buffer, playback.offset, 0) /\ playback.loading
  BY <1>1, AwaitCached, AwaitHeld
<1>3. /\ s \in Tracks /\ playback.offset \in Times /\ task.seg \in DOMAIN Timeline[s]
      /\ task.seg = NextAfter(s, playback.offset)
  BY <1>1, OpeningSegment
<1>4. /\ buffer \in Buffers(s) /\ ~buffer.opened /\ buffer.until = 0 /\ buffer.fetching = 0
      /\ buffer.target = playback.offset
  BY <1>1, <1>2, CachedKnown DEF Unopened, OpensHere
<1>5. /\ b \in Buffers(s) /\ ~b.opened /\ b.until = 0 /\ b.fetching = 0 /\ b.cut = buffer.cut
      /\ b.target = playback.offset /\ b.have = {task.seg}
  BY <1>3, <1>4 DEF Buffers
<1>6. playback.offset >= playback.offset
  <2>1. playback.offset \in Nat
    BY <1>3, TimesNat
  <2> QED BY <2>1
<1>7. CASE continuous
  <2>1. Stored(s, b)
    BY <1>3, <1>5, FirstStored
  <2>2. \A a : CachedAt(s, b, playback.offset, a)
    BY <1>5, <1>6, <1>7, <2>1 DEF CachedAt
  <2>3. PICK a : Opened(b, task.seg, a)
    BY <1>7 DEF FirstFetched
  <2> HIDE DEF b
  <2> QED BY <1>1, <1>3, <1>5, <2>2, <2>3, OpenedCached DEF Segs
<1>8. CASE ~continuous
  <2>1. buffer' = b /\ playback' = playback /\ task'.kind = task.kind
    <3>1. task \in Awaited(s)
      BY DEF Player, Typed
    <3> QED BY <1>8, <3>1 DEF FirstFetched, Awaited
  <2>2. b.cut = 0
    BY <1>2, <1>5, <1>8 DEF CachedAt, Filed, FiledFrom
  <2>3. Filed(s, b, playback.offset, 0)
    BY <1>3, <1>5, <2>2, FirstFiled
  <2>4. CachedAt(s, buffer', playback.offset, 0)
    BY <1>8, <2>1, <2>3 DEF CachedAt
  <2>5. Current' = 0 /\ Unopened' /\ OpensHere'
    BY <1>2, <1>5, <2>1 DEF Current, Unopened, OpensHere
  <2>6. playback'.station = s /\ Position' = playback.offset
    BY <1>1, <1>2, StillStays DEF Stays
  <2>7. 0 \in Segs(s)
    BY DEF Segs
  <2> HIDE DEF b, s
  <2> QED BY <1>1, <1>3, <1>5, <2>1, <2>4, <2>5, <2>6, <2>7, CachedNext
<1> QED BY <1>7, <1>8

\* A file has loaded, for a gap that is left or a place that is sought.
LEMMA EnteredCached ==
  ASSUME Player, Kept, Cached, task.kind # "none", Player', Still, continuous' = continuous,
         ~continuous, NEW seg \in DOMAIN Timeline[playback.station], To(seg) > playback.offset,
         NEW b \in Buffers(playback.station), Same(buffer, b), b.opened = buffer.opened,
         b.active = seg,
         buffer' = FillAhead(b, playback.offset, window), task' = NoTask,
         ~playback'.loading, ~playback'.gap, playback'.waiting = 0
  PROVE  Cached'
<1> DEFINE s == playback.station
<1>1. /\ playback.on /\ Position = playback.offset /\ CachedAt(s, buffer, playback.offset, 0)
      /\ s \in Tracks /\ continuous \in BOOLEAN /\ window \in Windows /\ buffer \in Buffers(s)
      /\ playback.offset \in Times /\ Unopened
  BY AwaitCached, CachedKnown
<1>2. Same(buffer, b) /\ b.opened = buffer.opened /\ b.active = seg
  OBVIOUS
<1>3. Filed(s, b, playback.offset, seg)
  <2>1. Filed(s, b, playback.offset, 0)
    BY <1>1, <1>2, SameCache DEF CachedAt
  <2>2. 0 \in Segs(s) /\ Timeline[s][seg].to > playback.offset
    BY DEF Segs, To
  <2> QED BY <1>1, <2>1, <2>2, PlaceFiled
<1>4. playback.offset <= Timeline[s][seg].to
  <2>1. Timeline[s][seg].to > playback.offset /\ Timeline[s][seg].to \in Nat
        /\ playback.offset \in Nat
    BY <1>1, TrackFacts, TimesNat DEF To
  <2> QED BY <2>1
<1>5. CachedAt(s, b, playback.offset, seg) /\ seg \in Segs(s)
  BY <1>3, <1>4 DEF CachedAt, Segs
<1>6. CachedAt(s, buffer', playback.offset, seg)
  BY <1>1, <1>5, FillCached
<1>7. /\ buffer'.opened = b.opened /\ buffer'.active = b.active
      /\ ~b.opened /\ b.until = 0 /\ b.fetching = 0 => buffer'.until = 0 /\ buffer'.fetching = 0
  BY <1>1, FillTyped, FillIs
<1>8. /\ buffer'.opened = buffer.opened /\ buffer'.active = seg
      /\ ~buffer.opened => buffer'.until = 0 /\ buffer'.fetching = 0
  <2>1. ~buffer.opened => b.until = 0 /\ b.fetching = 0
    BY <1>1, <1>2 DEF Unopened, Same
  <2> QED BY <1>2, <1>7, <2>1
<1>9. Current' = seg /\ Unopened' /\ OpensHere'
  BY <1>8 DEF Current, Unopened, OpensHere, NoTask
<1>10. playback'.station = s /\ Position' = playback.offset /\ buffer' \in Buffers(s)
  BY <1>1, StillStays, BufferNext DEF Stays
<1> HIDE DEF s
<1> QED BY <1>1, <1>5, <1>6, <1>9, <1>10, CachedNext

LEMMA AttachedCached ==
  ASSUME Player, Kept, Cached, Attached
  PROVE  Cached'
<1> DEFINE s == playback.station
           b == [buffer EXCEPT !.active = task.seg]
           a == [audio EXCEPT !.time = task.pos]
<1>1. Player' /\ Still /\ continuous' = continuous /\ task.at = "attach"
  BY AttachedStep DEF Attached, UserIdle
<1>2. Awaits /\ Typed
  BY DEF Player
<1>3. task.kind # "none" /\ ~continuous
  BY <1>1, <1>2 DEF Awaits
<1>4. /\ playback.on /\ Position = playback.offset /\ CachedAt(s, buffer, playback.offset, 0)
      /\ s \in Tracks /\ buffer \in Buffers(s) /\ playback.offset \in Times
      /\ playback \in Playbacks(s) /\ ~playback.gap /\ playback.waiting = 0
  BY <1>3, AwaitCached, CachedKnown, AwaitHeld
<1>5. task.seg \in DOMAIN Timeline[s] /\ To(task.seg) > playback.offset
  <2>1. CASE task.kind = "open"
    BY <1>1, <2>1, OpeningSegment
  <2>2. CASE task.kind = "leave"
    <3>1. task.seg # 0 /\ playback.offset = From(task.seg) /\ task.seg \in Segs(s)
      BY <1>2, <2>2 DEF Awaits, Leaving, Typed, Awaited
    <3>2. task.seg \in DOMAIN Timeline[s]
      BY <3>1 DEF Segs
    <3> QED BY <1>4, <3>1, <3>2, TrackFacts DEF From, To
  <2>3. CASE task.kind = "seek"
    <3>1. task.seg # 0 /\ playback.offset < To(task.seg) /\ task.seg \in Segs(s)
      BY <1>2, <2>3 DEF Awaits, Seeking, Typed, Awaited
    <3>2. task.seg \in DOMAIN Timeline[s]
      BY <3>1 DEF Segs
    <3>3. To(task.seg) \in Nat /\ playback.offset \in Nat
      BY <1>4, <3>2, TrackFacts, TimesNat DEF To
    <3> QED BY <3>1, <3>2, <3>3
  <2> QED BY <1>2, <1>3, <2>1, <2>2, <2>3 DEF Typed, Awaited
<1>6. b \in Buffers(s) /\ b.active = task.seg /\ Same(buffer, b) /\ b.opened = buffer.opened
  BY <1>4, <1>5 DEF Buffers, Segs, Same
<1>7. CASE task.kind = "open"
  <2>1. Opened(b, task.seg, a)
    BY <1>7 DEF Attached
  <2>2. Filed(s, b, playback.offset, 0)
    BY <1>3, <1>4, <1>6, SameCache DEF CachedAt
  <2>3. Timeline[s][task.seg].to > playback.offset
    BY <1>5 DEF To
  <2>4. Filed(s, b, playback.offset, task.seg)
    <3>1. 0 \in Segs(s)
      BY DEF Segs
    <3> HIDE DEF b
    <3> QED BY <1>4, <1>5, <1>6, <2>2, <2>3, <3>1, PlaceFiled
  <2>5. playback.offset <= Timeline[s][task.seg].to
    <3>1. Timeline[s][task.seg].to \in Nat /\ playback.offset \in Nat
      BY <1>4, <1>5, TrackFacts, TimesNat
    <3> QED BY <2>3, <3>1
  <2>6. CachedAt(s, b, playback.offset, 0) /\ CachedAt(s, b, playback.offset, b.active)
    BY <1>3, <1>6, <2>2, <2>4, <2>5 DEF CachedAt
  <2>7. CachedAt(s, b, playback.offset,
                 IF task.seg # 0 /\ From(task.seg) <= playback.offset THEN b.active ELSE 0)
    BY <2>6
  <2> HIDE DEF b, a
  <2> QED BY <1>1, <1>5, <1>6, <1>7, <2>1, <2>7, OpenedCached DEF Segs
<1>8. CASE task.kind # "open"
  <2>1. task.pos = playback.offset
    BY <1>2, <1>3, <1>8 DEF Awaits, Leaving, Seeking, Typed, Awaited
  <2>2. /\ buffer' = FillAhead(b, playback.offset, window) /\ task' = NoTask
        /\ Resume([playback EXCEPT !.loading = FALSE], a)
    BY <1>8, <2>1 DEF Attached, Fill
  <2>3. /\ [playback EXCEPT !.loading = FALSE] \in Playbacks(s)
        /\ ~[playback EXCEPT !.loading = FALSE].loading
        /\ ~[playback EXCEPT !.loading = FALSE].gap
        /\ [playback EXCEPT !.loading = FALSE].waiting = 0
    BY <1>4 DEF Playbacks
  <2>4. ~playback'.loading /\ ~playback'.gap /\ playback'.waiting = 0
    <3> HIDE DEF a
    <3> QED BY <2>2, <2>3, ResumeKeeps
  <2> HIDE DEF a, b
  <2> QED BY <1>1, <1>3, <1>5, <1>6, <2>2, <2>4, EnteredCached
<1> QED BY <1>7, <1>8

LEMMA AttachFailsCached ==
  ASSUME Player, Kept, Cached, AttachFails
  PROVE  Cached'
<1> DEFINE s == playback.station
<1>1. Player' /\ Still /\ continuous' = continuous /\ task.at = "attach" /\ task.kind # "open"
  BY AttachFailsStep DEF AttachFails
<1>2. Awaits /\ Typed
  BY DEF Player
<1>3. task.kind # "none" /\ task.pos = playback.offset
  BY <1>1, <1>2 DEF Awaits, Leaving, Seeking, Typed, Awaited
<1>4. /\ playback.on /\ Position = playback.offset /\ s \in Tracks
      /\ playback \in Playbacks(s) /\ playback.loading /\ window \in Windows
  BY <1>3, AwaitCached, CachedKnown, AwaitHeld
<1>5. Stays(s, playback.offset)
  BY <1>1, <1>4, StillStays
<1>6. CASE task.kind = "seek"
  <2> DEFINE p == [playback EXCEPT !.offset = task.pos]
  <2>1. Select(p)
    BY <1>6 DEF AttachFails
  <2>2. p \in Playbacks(s) /\ p.station = s /\ p.on /\ p.offset = playback.offset
    BY <1>3, <1>4 DEF Playbacks
  <2> HIDE DEF p
  <2> QED BY <1>1, <1>4, <1>5, <2>1, <2>2, SelectCached
<1>7. CASE task.kind # "seek"
  <2>1. /\ playback' = [playback EXCEPT !.paused = TRUE] /\ task' = NoTask
        /\ buffer' = FillAhead(buffer, Position, window)
    BY <1>3, <1>4, <1>7 DEF AttachFails, Fill
  <2>2. Current' = 0 /\ task'.kind # "open"
    BY <1>4, <2>1 DEF Playbacks, Current, NoTask
  <2> QED BY <1>1, <1>4, <1>5, <2>1, <2>2, FillStep
<1> QED BY <1>6, <1>7

\* activate() of a cached segment, where the playback is.
LEMMA EnterCached ==
  ASSUME Player, Kept, Cached, playback.on, Player', Stays(playback.station, Position),
         continuous' = continuous, NEW p, p.loading, NEW seg, From(seg) = Position, Enter(p, seg)
  PROVE  Cached'
<1>1. task'.kind # "open"
  BY DEF Enter, NoTask
<1>2. CASE continuous
  <2>1. buffer' = FillAhead(buffer, Position, window) /\ window \in Windows
    BY <1>2 DEF Enter, Fill, Kept
  <2> QED BY <1>1, <1>2, <2>1, FillStep
<1>3. CASE ~continuous
  <2>1. buffer' = buffer /\ playback' = p
    BY <1>3 DEF Enter
  <2>2. Current' = 0 /\ Same(buffer, buffer')
    BY <2>1 DEF Current, Same
  <2> QED BY <1>1, <2>1, <2>2, SameStep
<1> QED BY <1>2, <1>3

LEMMA LeaveForCached ==
  ASSUME Player, Kept, Cached, playback.on, Player', Still, UserIdle, NEW seg, LeaveFor(seg),
         From(seg) = Position
  PROVE  Cached'
<1> DEFINE s == playback.station
           p == [playback EXCEPT !.offset = From(seg), !.loading = TRUE, !.gap = FALSE,
                                 !.waiting = 0]
<1>1. /\ continuous' = continuous /\ Stays(s, Position) /\ playback \in Playbacks(s)
      /\ window \in Windows
  BY StillStays, CachedKnown DEF UserIdle
<1>2. p.loading
  BY <1>1 DEF Playbacks
<1>3. CASE Has(buffer, seg)
  <2>1. Enter(p, seg)
    BY <1>3 DEF LeaveFor
  <2> HIDE DEF p
  <2> QED BY <1>1, <1>2, <2>1, EnterCached
<1>4. CASE ~Has(buffer, seg)
  <2>1. playback' = p /\ buffer' = FillAhead(buffer, Position, window) /\ task'.kind = "leave"
    BY <1>4 DEF LeaveFor, Fill
  <2> HIDE DEF p
  <2>2. Current' = 0
    BY <1>2, <2>1 DEF Current
  <2> QED BY <1>1, <2>1, <2>2, FillStep
<1> QED BY <1>3, <1>4

LEMMA LeaveFilledCached ==
  ASSUME Player, Kept, Cached, LeaveFilled
  PROVE  Cached'
<1> DEFINE s == playback.station
<1>1. /\ Player' /\ Still /\ continuous' = continuous /\ task.kind = "leave"
      /\ task.at = "fill"
  BY LeaveFilledStep DEF LeaveFilled, UserIdle
<1>2. /\ playback.on /\ playback.loading /\ Position = playback.offset
      /\ playback \in Playbacks(s) /\ window \in Windows
  BY <1>1, AwaitHeld, CachedKnown
<1>3. task.seg # 0 /\ task.pos = Position /\ From(task.seg) = Position /\ task.seg \in Segs(s)
  BY <1>1, <1>2 DEF Player, Awaits, Leaving, Typed, Awaited
<1>4. Stays(s, Position)
  BY <1>1, <1>2, StillStays
<1>5. CASE Has(buffer, task.seg)
  <2>1. Enter(playback, task.seg)
    BY <1>5 DEF LeaveFilled
  <2> QED BY <1>1, <1>2, <1>3, <1>4, <2>1, EnterCached
<1>6. CASE ~Has(buffer, task.seg)
  <2>1. /\ playback' = [playback EXCEPT !.loading = FALSE, !.waiting = task.seg]
        /\ buffer' = FillAhead(buffer, Position, window) /\ task'.kind # "open"
    BY <1>3, <1>6 DEF LeaveFilled, Fill, NoTask
  <2>2. playback'.waiting # 0
    BY <1>2, <1>3, <2>1 DEF Playbacks
  <2>3. Current' = 0
    BY <2>2 DEF Current
  <2> QED BY <1>1, <1>2, <1>4, <2>1, <2>3, FillStep
<1> QED BY <1>5, <1>6

LEMMA TickTailCached ==
  ASSUME Player, Kept, Cached, playback.on, TickTail, UserIdle
  PROVE  Cached'
<1> DEFINE s == playback.station
           over == ~playback.paused /\ Position >= Duration
           p == IF GapBegins THEN [playback EXCEPT !.offset = Position, !.gap = TRUE] ELSE playback
<1>1. Player' /\ Still /\ continuous' = continuous /\ task' = task
  BY TickTailStep DEF TickTail, UserIdle
<1>2. /\ playback' = IF over THEN [p EXCEPT !.offset = Duration, !.loading = TRUE,
                                            !.paused = TRUE] ELSE p
      /\ buffer' = FillAhead(buffer, Position, window)
  BY DEF TickTail, Fill
<1>3. /\ playback \in Playbacks(s) /\ window \in Windows /\ Position \in Times /\ s \in Tracks
      /\ continuous \in BOOLEAN /\ buffer \in Buffers(s)
  BY CachedKnown
<1>4. buffer'.active = buffer.active
  BY <1>2, <1>3, FillTyped
<1>5. Stays(s, Position)
  BY <1>1, StillStays
<1>6. p \in Playbacks(s) /\ (p = playback \/ p.gap)
  BY <1>3 DEF Playbacks
<1>7. CASE over
  <2>1. playback'.loading /\ playback'.offset = Duration
    BY <1>2, <1>6, <1>7 DEF Playbacks
  <2>2. Position = Duration
    BY <1>3, <1>7, TimesNat
  <2>3. Current' = 0
    BY <2>1 DEF Current
  <2> QED BY <1>1, <1>2, <1>3, <1>5, <2>1, <2>2, <2>3, FillStep
<1>8. CASE ~over /\ GapBegins
  <2>1. playback'.gap
    BY <1>2, <1>3, <1>8 DEF Playbacks
  <2>2. Current' = 0
    BY <2>1 DEF Current
  <2>3. ~playback.loading
    BY <1>8 DEF GapBegins, Drained, Running
  <2>4. task'.kind # "open"
    BY <1>1, <2>3 DEF Player, Awaits
  <2> QED BY <1>1, <1>2, <1>3, <1>5, <2>2, <2>4, FillStep
<1>9. CASE ~over /\ ~GapBegins
  <2>1. playback' = playback
    BY <1>2, <1>9
  <2>2. Current' = Current
    BY <1>4, <2>1 DEF Current
  <2>3. task'.kind = "open" => task.kind = "open" /\ playback'.offset = Position
    BY <1>1, <2>1, AwaitHeld
  <2> HIDE DEF s, over, p
  <2> QED BY <1>1, <1>2, <1>3, <1>5, <2>2, <2>3, FillStep DEF s
<1> QED BY <1>7, <1>8, <1>9

LEMMA TickCached ==
  ASSUME Late = 0, Player, Kept, Cached, Tick
  PROVE  Cached'
<1>1. playback.on /\ UserIdle
  BY DEF Tick
<1>2. CASE GapOver /\ LeaveFor(NextSegment)
  BY <1>1, <1>2, GapOverStep, LeaveForCached
<1>3. CASE HandOff /\ LeaveFor(Follower)
  BY <1>1, <1>3, HandOffStep, LeaveForCached
<1>4. CASE TickTail
  BY <1>1, <1>4, TickTailCached
<1> QED BY <1>2, <1>3, <1>4 DEF Tick

\* The place moves on by one.
LEMMA OnwardCached ==
  ASSUME Player, Kept, Cached, Player', Onward, continuous' = continuous,
         UNCHANGED <<playback, buffer, task>>,
         ~continuous /\ Current # 0 => Position + 1 <= To(Current)
  PROVE  Cached'
<1> DEFINE s == playback.station
           u == Position + 1
<1>1. /\ playback.on /\ CachedAt(s, buffer, Position, Current) /\ Unopened /\ OpensHere
      /\ s \in Tracks /\ Position \in Times /\ Current \in Segs(s) /\ continuous \in BOOLEAN
      /\ buffer \in Buffers(s) /\ buffer' \in Buffers(s)
  BY CachedKnown, BufferNext DEF Onward
<1>2. playback'.station = s /\ Position' = u /\ Position' \in Times
  BY PlaceKnownNext DEF Onward, Player, Located
<1>3. u \in Times /\ u >= Position
  BY <1>1, <1>2, TimesNat
<1>4. Current' = Current /\ Unopened' /\ OpensHere'
  BY <1>1 DEF Current, Unopened, OpensHere
<1>5. CachedAt(s, buffer', u, Current)
  <2>1. CASE continuous
    <3>1. Stored(s, buffer) /\ Position >= buffer.target
      BY <1>1, <2>1 DEF CachedAt
    <3>2. buffer.target \in Nat /\ Position \in Nat
      BY <1>1, TimesNat DEF Buffers
    <3>3. u >= buffer.target
      BY <3>1, <3>2
    <3> QED BY <2>1, <3>1, <3>3 DEF CachedAt
  <2>2. CASE ~continuous
    <3>1. Filed(s, buffer, Position, Current)
      BY <1>1, <2>2 DEF CachedAt
    <3>2. Filed(s, buffer, u, Current)
      <4> HIDE DEF u
      <4> QED BY <1>1, <1>3, <3>1, PlaceFiled
    <3> QED BY <2>2, <3>2 DEF CachedAt, To
  <2> QED BY <1>1, <2>1, <2>2
<1> HIDE DEF s, u
<1> QED BY <1>1, <1>2, <1>3, <1>4, <1>5, CachedNext

LEMMA TimePassesCached ==
  ASSUME Player, Kept, Cached, TimePasses
  PROVE  Cached'
<1> DEFINE s == playback.station
<1>1. /\ Heard \/ GapPasses
      /\ UserIdle /\ UNCHANGED <<playback, buffer, task>> /\ continuous' = continuous
  BY DEF TimePasses, UserIdle
<1>2. Player' /\ (Still \/ Onward)
  BY TimePassesStep
<1> SUFFICES ASSUME playback.on PROVE Cached'
  BY <1>1 DEF Cached
<1>3. CASE Still
  <2>1. Stays(s, Position) /\ Same(buffer, buffer') /\ Current' = Current
    BY <1>1, <1>3, StillStays DEF Same, Current
  <2> QED BY <1>1, <1>2, <2>1, SameStep
<1>4. CASE Onward
  <2>1. ~continuous /\ Current # 0 => Position + 1 <= To(Current)
    <3> SUFFICES ASSUME ~continuous, Current # 0 PROVE Position + 1 <= To(Current)
      OBVIOUS
    <3>1. ~playback.loading /\ ~playback.gap /\ playback.waiting = 0 /\ Current = buffer.active
      BY DEF Current
    <3>2. Heard
      BY <1>1, <3>1 DEF GapPasses
    <3>3. audio.time < To(buffer.active) /\ buffer.active # 0
      BY <3>2 DEF Heard, Sounding, HasData
    <3>4. Position = audio.time /\ s \in Tracks /\ Current \in Segs(s) /\ Position \in Nat
      BY <3>1, CachedKnown, TimesNat DEF Located
    <3>5. To(Current) \in Nat
      BY <3>1, <3>3, <3>4, TrackFacts DEF To, Segs
    <3> QED BY <3>1, <3>3, <3>4, <3>5
  <2> QED BY <1>1, <1>2, <1>4, <2>1, OnwardCached
<1> QED BY <1>2, <1>3, <1>4

LEMMA ManifestArrivesCached ==
  ASSUME Player, Kept, ManifestArrives
  PROVE  Cached'
<1>1. continuous' = continuous /\ saved.station \in Tracks /\ saved.pos \in Times
      /\ continuous \in BOOLEAN /\ audio \in Audios
  BY DEF ManifestArrives, Kept, Player, Typed
<1>2. PICK pos \in {saved.pos, 0} :
        Select([Off EXCEPT !.on = TRUE, !.station = saved.station, !.offset = pos])
  BY DEF ManifestArrives
<1> DEFINE p == [Off EXCEPT !.on = TRUE, !.station = saved.station, !.offset = pos]
<1>3. pos \in Times
  BY <1>1, TimesNat
<1>4. p \in Playbacks(First) /\ p.station = saved.station /\ p.on
  BY <1>1, <1>3 DEF Off, Playbacks, Segs
<1>5. Select(p)
  BY <1>2
<1> HIDE DEF p
<1>6. Stays(saved.station, p.offset)
  BY <1>1, <1>4, <1>5, SelectStep
<1> QED BY <1>1, <1>4, <1>5, <1>6, SelectCached

LEMMA SelectStationCached ==
  ASSUME Player, NEW s \in Tracks, SelectStation(s)
  PROVE  Cached'
<1> DEFINE p == [playback EXCEPT !.offset = Position, !.station = s]
<1>1. /\ playback.on /\ Select(p) /\ continuous' = continuous
      /\ playback \in Playbacks(playback.station) /\ Position \in Times /\ Stays(s, Position)
  BY PlaceKnown, SelectStationStep DEF SelectStation, Player, Typed, Located
<1>2. p \in Playbacks(playback.station) /\ p.station = s /\ p.on /\ p.offset = Position
  BY <1>1 DEF Playbacks
<1> HIDE DEF p
<1> QED BY <1>1, <1>2, SelectCached

LEMMA SeekToCached ==
  ASSUME Player, Kept, Cached, NEW s \in Tracks, playback.station = s, playback.on,
         NEW p \in Playbacks(s), p.station = s, p.on, p.loading = playback.loading,
         audio.src = "recording" /\ audio.playing => ~p.paused,
         NEW to \in Times, SeekTo(p, to), continuous' = continuous
  PROVE  Cached'
<1>1. Player' /\ Stays(s, to)
  BY SeekToStep
<1>2. /\ CachedAt(s, buffer, Position, Current) /\ Unopened /\ window \in Windows
      /\ Position \in Times /\ Current \in Segs(s) /\ continuous \in BOOLEAN
      /\ buffer \in Buffers(s) /\ buffer' \in Buffers(s)
  BY <1>1, CachedKnown, BufferNext DEF Stays
<1>3. CASE p.loading \/ ~Buffered(buffer, to)
  <2> DEFINE q == [p EXCEPT !.offset = to]
  <2>1. Select(q)
    BY <1>3 DEF SeekTo
  <2>2. q \in Playbacks(s) /\ q.station = s /\ q.on /\ q.offset = to
    BY DEF Playbacks
  <2> HIDE DEF q
  <2> QED BY <1>1, <2>1, <2>2, SelectCached
<1>4. CASE ~(p.loading \/ ~Buffered(buffer, to))
  <2>1. Held(s, buffer, to)
    BY <1>4 DEF Held, Buffered, From, To
  <2>2. task.kind = "none" /\ 0 \in Segs(s)
    BY <1>4 DEF Player, Awaits, Segs
  <2>3. CASE continuous
    <3>1. buffer' = FillAhead(buffer, to, window) /\ task' = task
      BY <1>4, <2>3 DEF SeekTo, Fill
    <3>2. Stored(s, buffer)
      BY <1>2, <2>3 DEF CachedAt
    <3>3. CachedAt(s, buffer', to, 0)
      BY <1>2, <2>1, <2>2, <2>3, <3>1, <3>2, FillCached
    <3>4. /\ buffer'.opened = buffer.opened
          /\ ~buffer.opened => buffer'.until = 0 /\ buffer'.fetching = 0
      BY <1>2, <3>1, FillTyped, FillIs DEF Unopened
    <3>5. Unopened' /\ OpensHere'
      BY <2>2, <3>1, <3>4 DEF Unopened, OpensHere
    <3> QED BY <1>1, <1>2, <2>2, <2>3, <3>3, <3>5, CachedNext DEF Stays
  <2>4. CASE ~continuous
    <3> DEFINE q == [p EXCEPT !.offset = to, !.gap = FALSE, !.waiting = 0]
    <3>1. playback' = [q EXCEPT !.loading = TRUE] /\ buffer' = buffer /\ task'.kind = "seek"
      BY <1>4, <2>4 DEF SeekTo
    <3>2. playback'.loading
      BY <3>1 DEF Playbacks
    <3>3. Filed(s, buffer, Position, Current)
      BY <1>2, <2>4 DEF CachedAt
    <3>4. Filed(s, buffer, to, 0)
      BY <1>2, <2>1, <3>3, PlaceFiled
    <3>5. CachedAt(s, buffer', to, 0)
      BY <2>4, <3>1, <3>4 DEF CachedAt
    <3>6. Current' = 0 /\ Unopened' /\ OpensHere'
      BY <1>2, <3>1, <3>2 DEF Current, Unopened, OpensHere
    <3> HIDE DEF q
    <3> QED BY <1>1, <1>2, <2>2, <3>5, <3>6, CachedNext DEF Stays
  <2> QED BY <1>2, <2>3, <2>4
<1> QED BY <1>3, <1>4

LEMMA PauseCached ==
  ASSUME Player, Kept, Cached, playback.on, Pause, continuous' = continuous
  PROVE  Cached'
<1>1. Player' /\ Stays(playback.station, Position)
  BY PauseStep
<1>2. /\ playback' = [playback EXCEPT !.offset = Position, !.paused = TRUE]
      /\ UNCHANGED <<buffer, task>> /\ playback \in Playbacks(playback.station)
  BY DEF Pause, Player, Typed
<1>3. /\ playback'.offset = Position /\ playback'.loading = playback.loading
      /\ playback'.gap = playback.gap /\ playback'.waiting = playback.waiting
  BY <1>2 DEF Playbacks
<1>4. Same(buffer, buffer') /\ Current' = Current
  BY <1>2, <1>3 DEF Same, Current
<1>5. task.kind = "open" => playback'.offset = playback.offset
  BY <1>3, AwaitHeld
<1> QED BY <1>1, <1>2, <1>4, <1>5, SameStep

\* resume(), which starts an ended file over.
LEMMA ResumeCached ==
  ASSUME Player, Kept, Cached, playback.on, playback.paused, ~playback.loading, Player',
         continuous' = continuous, UNCHANGED <<buffer, task>>, clock' = 0,
         NEW p \in Playbacks(playback.station), p.on, p.station = playback.station,
         p.offset = playback.offset, p.gap = playback.gap, p.waiting = playback.waiting,
         p.loading = playback.loading, Resume(p, audio)
  PROVE  Cached'
<1> DEFINE s == playback.station
<1>1. /\ CachedAt(s, buffer, Position, Current) /\ Unopened /\ OpensHere /\ s \in Tracks
      /\ Position \in Times /\ Current \in Segs(s) /\ continuous \in BOOLEAN
      /\ buffer \in Buffers(s) /\ buffer' \in Buffers(s) /\ playback \in Playbacks(s)
      /\ audio \in Audios /\ playback.offset \in Times /\ Located
  BY CachedKnown
<1>2. /\ playback'.on /\ playback'.station = s /\ playback'.offset = playback.offset
      /\ playback'.loading = playback.loading /\ playback'.gap = playback.gap
      /\ playback'.waiting = playback.waiting
      /\ \/ audio'.time = audio.time
         \/ /\ ~playback.gap /\ ~continuous /\ buffer.active # 0
            /\ audio'.time = From(buffer.active)
  <2>1. failures \in 0 .. MaxFailures
    BY DEF Kept
  <2>2. buffer' = buffer
    OBVIOUS
  <2> QED BY <1>1, <2>1, <2>2, ResumeIs
<1>3. Current' = Current /\ Same(buffer, buffer')
  BY <1>2 DEF Current, Same
<1>4. Located'
  BY PlaceKnownNext DEF Player
<1>5. playback.offset + clock' = playback.offset /\ playback.offset <= Duration
  <2>1. playback.offset \in Nat /\ playback.offset <= Duration
    BY <1>1, TimesNat
  <2> QED BY <2>1
<1>6. CASE playback.waiting # 0 \/ playback.gap \/ audio'.time = audio.time
  <2>1. Position' = Position
    BY <1>1, <1>2, <1>4, <1>5, <1>6 DEF Located
  <2>2. Stays(s, Position)
    BY <1>2, <2>1 DEF Stays
  <2> QED BY <1>2, <1>3, <2>2, SameStep
<1>7. CASE ~(playback.waiting # 0 \/ playback.gap \/ audio'.time = audio.time)
  <2> DEFINE a == buffer.active
  <2>1. ~continuous /\ a # 0 /\ Current = a /\ Position' = From(a)
    BY <1>2, <1>4, <1>7 DEF Located, Current
  <2>2. Filed(s, buffer, Timeline[s][a].from, a)
    <3>1. Filed(s, buffer, Position, a)
      BY <1>1, <2>1 DEF CachedAt
    <3> QED BY <1>1, <2>1, <3>1, PlaceFiled
  <2>3. a \in DOMAIN Timeline[s]
    BY <1>1, <2>1 DEF Segs
  <2>4. Timeline[s][a].from \in Times /\ Timeline[s][a].from <= Timeline[s][a].to
    BY <1>1, <2>3, TrackFacts
  <2>5. CachedAt(s, buffer', Timeline[s][a].from, a)
    BY <2>1, <2>2, <2>4 DEF CachedAt
  <2>6. Current' = a /\ Unopened' /\ OpensHere' /\ a \in Segs(s)
    BY <1>1, <1>2, <1>3, <2>1 DEF Unopened, OpensHere
  <2>7. Position' = Timeline[s][a].from
    BY <2>1 DEF From
  <2> HIDE DEF s, a
  <2> QED BY <1>1, <1>2, <2>4, <2>5, <2>6, <2>7, CachedNext
<1> QED BY <1>6, <1>7

LEMMA UnpauseCached ==
  ASSUME Player, Kept, Cached, playback.on, Unpause, continuous' = continuous
  PROVE  Cached'
<1> DEFINE s == playback.station
           p == [playback EXCEPT !.paused = FALSE]
<1>1. Player' /\ playback.paused /\ playback \in Playbacks(s) /\ s \in Tracks /\ 0 \in Times
  BY UnpauseStep, TimesNat DEF Player, Typed, Playbacks
<1>2. ~(audio.src = "recording" /\ audio.playing)
  BY <1>1 DEF Player, Quiet
<1>3. p \in Playbacks(s) /\ p.station = s /\ p.on /\ p.loading = playback.loading
      /\ p.offset = playback.offset /\ p.gap = playback.gap /\ p.waiting = playback.waiting
  BY <1>1 DEF Playbacks
<1>4. CASE p.offset >= Duration
  <2>1. SeekTo(p, 0)
    BY <1>4 DEF Unpause
  <2> HIDE DEF p
  <2> QED BY <1>1, <1>2, <1>3, <2>1, SeekToCached
<1>5. CASE ~(p.offset >= Duration) /\ p.loading
  <2>1. Select(p)
    BY <1>5 DEF Unpause
  <2>2. continuous \in BOOLEAN /\ audio \in Audios
    BY DEF Player, Typed
  <2> HIDE DEF p
  <2>3. Stays(s, p.offset)
    BY <1>1, <1>3, <2>1, <2>2, SelectStep
  <2> QED BY <1>1, <1>3, <2>1, <2>3, SelectCached
<1>6. CASE ~(p.offset >= Duration) /\ ~p.loading
  <2>1. UNCHANGED <<buffer, task>> /\ clock' = 0 /\ Resume(p, audio)
    BY <1>6 DEF Unpause
  <2> HIDE DEF p
  <2> QED BY <1>1, <1>3, <1>6, <2>1, ResumeCached
<1> QED BY <1>4, <1>5, <1>6

LEMMA CachedStarts == FlightInit => Cached
BY DEF FlightInit, Off, Cached

\* With the clock of a gap on time, every step keeps the cache within reach of the place.
LEMMA CachedStep ==
  ASSUME Late = 0, FlightInv, Cached, [FlightNext]_flightVars
  PROVE  Cached'
<1> USE DEF FlightInv
<1>1. CASE UNCHANGED flightVars
  <2>1. Player'
    BY FlightStep
  <2>2. UNCHANGED <<continuous, playback, buffer, task, audio, clock>>
    BY <1>1 DEF flightVars
  <2> SUFFICES ASSUME playback.on PROVE Cached'
    BY <2>2 DEF Cached
  <2>3. Stays(playback.station, Position) /\ Same(buffer, buffer') /\ Current' = Current
    BY <2>2 DEF Stays, Position, Same, Current
  <2> QED BY <2>1, <2>2, <2>3, SameStep
<1>2. CASE Listener
  <2>1. CASE OpenFlight \/ StopAll \/ PlayOther
    BY <2>1, CloseStill DEF Cached
  <2>2. CASE Toggle
    <3>1. playback.on /\ continuous' = continuous /\ (Pause \/ Unpause)
      BY <2>2 DEF Toggle
    <3> QED BY <3>1, PauseCached, UnpauseCached
  <2>3. CASE \E s \in Tracks : SelectStation(s)
    BY <2>3, SelectStationCached
  <2>4. CASE \E to \in Times : Seek(to)
    <3>1. PICK to \in Times : Seek(to)
      BY <2>4
    <3>2. /\ playback.on /\ SeekTo(playback, to) /\ continuous' = continuous
          /\ playback.station \in Tracks /\ playback \in Playbacks(playback.station)
          /\ audio.src = "recording" /\ audio.playing => ~playback.paused
      BY <3>1 DEF Seek, Player, Typed, Playbacks, Quiet
    <3> QED BY <3>2, SeekToCached
  <2>5. CASE \E w \in Windows \ {window} : SetWindow(w)
    BY <2>5, SetWindowCached
  <2> QED BY <1>2, <2>1, <2>2, <2>3, <2>4, <2>5 DEF Listener
<1>3. CASE Answers
  <2>1. CASE ManifestFails
    <3>1. playback' = playback /\ ~playback.on
      BY <2>1 DEF ManifestFails, Player, AskedOnce
    <3> QED BY <3>1 DEF Cached
  <2> QED BY <1>3, <2>1, ManifestArrivesCached, SourceOpensCached, FirstFetchedCached,
             OpenFailsCached, BufferAnswersCached, LeaveFilledCached, AttachedCached,
             AttachFailsCached DEF Answers
<1> QED BY <1>1, <1>2, <1>3, TickCached, TimePassesCached DEF FlightNext

\* So many places lie between the two ends of what is cached.
LEMMA SpanBounded ==
  ASSUME NEW H \in SUBSET Times, NEW p \in Nat, NEW behind \in Nat, NEW ahead \in Nat,
         \A t \in H : p - behind <= t /\ t < p + ahead
  PROVE  Cardinality(H) <= behind + ahead
<1> DEFINE I == (p - behind) .. (p + ahead - 1)
<1>1. H \subseteq I
  <2> SUFFICES ASSUME NEW t \in H PROVE t \in I
    OBVIOUS
  <2>1. t \in Nat
    BY TimesNat
  <2> QED BY <2>1
<1>2. IsFiniteSet(I) /\ Cardinality(I) = behind + ahead
  <2>1. p - behind \in Int /\ p + ahead - 1 \in Int
    OBVIOUS
  <2>2. IsFiniteSet(I) /\ Cardinality(I) = IF p - behind > p + ahead - 1 THEN 0
                                           ELSE (p + ahead - 1) - (p - behind) + 1
    BY <2>1, FS_Interval
  <2> HIDE DEF I
  <2> QED BY <2>2
<1> HIDE DEF I
<1>3. Cardinality(H) <= Cardinality(I)
  BY <1>1, <1>2, FS_Subset
<1> QED BY <1>2, <1>3

\* A cached place is in a segment that starts within the window, and not far behind.
LEMMA HeldSpan ==
  ASSUME NEW s \in Tracks, NEW b \in Buffers(s), NEW c \in BOOLEAN,
         IF c THEN Stored(s, b) ELSE \E t, a : Filed(s, b, t, a)
  PROVE  Cardinality({t \in Times : Held(s, b, t)}) <= Back(c) + (Wide + Longest)
<1> DEFINE H == {t \in Times : Held(s, b, t)}
<1>1. PICK p \in Times : /\ ReadAhead(s, b, p)
                         /\ IF c THEN StoredFrom(s, b, p) ELSE FiledFrom(s, b, p)
  BY DEF Stored, Filed
<1>2. /\ Wide \in Nat /\ Back(c) \in Nat /\ Longest \in Nat /\ p \in Nat /\ Wide + Longest \in Nat
  <2>1. Wide \in Nat /\ Back(c) \in Nat /\ Longest \in Nat
    BY BackTyped
  <2> QED BY <2>1, TimesNat
<1>3. ASSUME NEW t \in H PROVE p - Back(c) <= t /\ t < p + (Wide + Longest)
  <2>1. t \in Times /\ Held(s, b, t)
    BY <1>3
  <2>2. PICK k \in b.have : Timeline[s][k].from <= t /\ t < Timeline[s][k].to
    BY <2>1 DEF Held
  <2>3. k \in DOMAIN Timeline[s]
    BY BufferFields
  <2>4. /\ t \in Nat /\ Timeline[s][k].from \in Nat /\ Timeline[s][k].to \in Nat
        /\ Timeline[s][k].to <= Timeline[s][k].from + Longest
    BY <2>1, <2>3, TrackFacts, TimesNat, SegmentsBounded
  <2>5. Timeline[s][k].from <= p + Wide
    BY <1>1 DEF ReadAhead
  <2>6. t < p + (Wide + Longest)
    BY <1>2, <2>2, <2>4, <2>5
  <2>7. CASE c
    <3>1. t >= p - Back(c)
      BY <1>1, <2>1, <2>7 DEF StoredFrom, Back
    <3> QED BY <1>2, <2>4, <2>6, <3>1
  <2>8. CASE ~c
    <3>1. Timeline[s][k].from >= p - Back(c)
      BY <1>1, <2>8 DEF FiledFrom, Back
    <3> QED BY <1>2, <2>2, <2>4, <2>6, <3>1
  <2> QED BY <2>7, <2>8
<1> HIDE DEF H
<1>4. H \in SUBSET Times
  BY DEF H
<1>5. Cardinality(H) <= Back(c) + (Wide + Longest)
  BY <1>2, <1>3, <1>4, SpanBounded
<1> QED BY <1>5 DEF H

LEMMA CachedBounds == FlightInv /\ Cached => BoundedBuffer
<1> SUFFICES ASSUME FlightInv, Cached PROVE BoundedBuffer
  OBVIOUS
<1> DEFINE s == playback.station
           H == {t \in Times : Held(s, buffer, t)}
<1>1. Player /\ Kept /\ s \in Tracks /\ buffer \in Buffers(s) /\ continuous \in BOOLEAN
  BY DEF FlightInv, Player, Typed, Playbacks
<1>2. {t \in Times : Buffered(buffer, t)} = H
  BY BufferedIs
<1>3. /\ Wide \in Nat /\ Longest \in Nat /\ Behind \in Nat /\ Slack \in Nat
      /\ Back(continuous) = Behind + (IF continuous THEN Slack ELSE Longest)
  BY BackTyped, FlightConstantsOK DEF Back
<1>4. Cardinality(H) <= Back(continuous) + (Wide + Longest)
  <2>1. CASE playback.on
    <3>1. CachedAt(s, buffer, Position, Current)
      BY <1>1, <2>1, CachedKnown
    <3>2. IF continuous THEN Stored(s, buffer) ELSE \E t, a : Filed(s, buffer, t, a)
      BY <3>1 DEF CachedAt
    <3> QED BY <1>1, <3>2, HeldSpan
  <2>2. CASE ~playback.on
    <3>1. buffer.have = {}
      BY <1>1, <2>2 DEF Player, Closed, NoBuffer
    <3>2. H = {}
      BY <3>1 DEF Held
    <3>3. Cardinality(H) = 0
      BY <3>2, FS_EmptySet
    <3> HIDE DEF H
    <3> QED BY <1>1, <1>3, <3>3
  <2> QED BY <2>1, <2>2
<1> HIDE DEF H
<1>5. Cardinality(H) <= Behind + Wide + Longest + (IF continuous THEN Slack ELSE Longest)
  BY <1>1, <1>3, <1>4
<1> QED BY <1>2, <1>5 DEF BoundedBuffer, Wide

\* What the player keeps of a recording is bounded by its window, whatever the listener
\* does and whichever of its requests fail, when no tick comes late to the end of a gap.
THEOREM BufferBounded == ASSUME Late = 0 PROVE FlightSpec => []BoundedBuffer
<1>1. FlightInit => Cached
  BY CachedStarts
<1>2. FlightInv /\ Cached /\ [FlightNext]_flightVars => Cached'
  BY CachedStep
<1>3. FlightInv /\ Cached => BoundedBuffer
  BY CachedBounds
<1> QED BY <1>1, <1>2, <1>3, FlightInvariance, PTL DEF FlightSpec
=============================================================================

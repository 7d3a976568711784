------------------------ MODULE WeazlPodCache_proofs ------------------------
(***************************************************************************)
(* Proofs about WeazlPodCache for any number of keys, representations,     *)
(* preparations, workers and faults: an encode has one worker, a worker    *)
(* keeps its job, what is leased stays, and the disk budget holds.         *)
(***************************************************************************)
EXTENDS WeazlPodCache, FiniteSetTheorems, TLAPS

-----------------------------------------------------------------------------
(* Workers and their jobs                                                   *)

Encodes == {"encoding", "published", "broken"}
JobRecords == [state : {"none", "gone", "preparing", "ready", "failed", "cancelled"},
               key : Keys \cup {"none"}, expires : Nat, rep : Reps \cup {"none"}]
WorkTypes ==
  /\ now \in Nat /\ job \in [Jobs -> JobRecords] /\ inflight \in [Keys -> Jobs \cup {0}]
  /\ worker \in [Jobs -> WorkerStates] /\ target \in [Jobs -> Reps \cup {"none"}]
  /\ encoding \subseteq Reps

\* A worker's job is there, names its key, and lives until after the worker's deadline.
Serves(j) ==
  Active(j) => /\ j \in Held /\ job[j].key \in Keys /\ inflight[job[j].key] = j
               /\ now + Hour <= job[j].expires + Timeout
\* An encode under way is in the set that others look at, with one worker.
Encoder(j) ==
  /\ worker[j] \in Encodes => target[j] \in encoding
  /\ worker[j] \notin {"none", "building", "failed", "ready"} => target[j] \in Reps
  /\ worker[j] = "ready" => target[j] \in Reps
Single == \A i, j \in Jobs : worker[i] \in Encodes /\ worker[j] \in Encodes /\ i # j
                               => target[i] # target[j]
WorkInv == WorkTypes /\ (\A j \in Jobs : Serves(j) /\ Encoder(j)) /\ Single

\* What no step but those of workers and preparations touches.
LEMMA WorkSame ==
  ASSUME WorkInv, UNCHANGED <<now, works>>
  PROVE  WorkInv'
BY DEF WorkInv, WorkTypes, Serves, Encoder, Single, works, Active, Held

\* A worker goes on, without a change of its job, its target or the set of encodes.
LEMMA WorkMoves ==
  ASSUME WorkInv, NEW j \in Jobs, NEW to \in WorkerStates \ {"none"},
         worker' = [worker EXCEPT ![j] = to], Active(j),
         UNCHANGED <<now, job, inflight, encoding, target>>,
         to \in Encodes => worker[j] \in Encodes,
         to \in {"waiting", "woken", "ready"} => target[j] \in Reps
  PROVE  WorkInv'
<1>1. WorkTypes'
  BY DEF WorkInv, WorkTypes
<1>2. \A i \in Jobs : worker'[i] = IF i = j THEN to ELSE worker[i]
  BY DEF WorkInv, WorkTypes
<1>3. \A i \in Jobs : Serves(i)'
  BY <1>2 DEF WorkInv, Serves, Active, Held
<1>4. ASSUME NEW i \in Jobs PROVE Encoder(i)'
  <2>1. CASE i = j
    <3>1. to \in Encodes \cup {"waiting", "woken", "ready"} => target[j] \in Reps
      BY DEF WorkInv, Encoder, Encodes
    <3>2. QED
      BY <1>2, <2>1, <3>1 DEF WorkInv, Encoder, Encodes, WorkerStates
  <2>2. CASE i # j
    BY <1>2, <2>2 DEF WorkInv, Encoder
  <2>3. QED
    BY <2>1, <2>2
<1>5. Single'
  BY <1>2 DEF WorkInv, Single, Encodes
<1>6. QED
  BY <1>1, <1>3, <1>4, <1>5 DEF WorkInv

LEMMA ExpiredIdle ==
  ASSUME WorkInv, NEW j \in Jobs, Active(j)
  PROVE  Unexpired[j] = job[j]
<1>1. now < job[j].expires
  BY CacheAssumption DEF WorkInv, WorkTypes, Serves, JobRecords
<1>2. QED
  BY <1>1, CacheAssumption DEF Unexpired, WorkInv, WorkTypes, JobRecords

LEMMA UnexpiredJobs ==
  ASSUME WorkInv
  PROVE  Unexpired \in [Jobs -> JobRecords]
BY DEF Unexpired, WorkInv, WorkTypes, JobRecords, Gone, NoJob

\* The expired jobs are dropped; no worker's job is one of them.
LEMMA DropKeeps ==
  ASSUME WorkInv, job' = Unexpired, UNCHANGED <<now, inflight, encoding, worker, target>>
  PROVE  WorkInv'
<1>1. WorkTypes'
  BY UnexpiredJobs DEF WorkInv, WorkTypes
<1>2. \A j \in Jobs : Serves(j)'
  BY ExpiredIdle DEF WorkInv, Serves, Active, Held
<1>3. QED
  BY <1>1, <1>2 DEF WorkInv, Encoder, Single

LEMMA WorkStep ==
  ASSUME WorkInv, [Next]_vars
  PROVE  WorkInv'
<1>1. CASE UNCHANGED <<now, works>>
  BY <1>1, WorkSame
<1>2. ASSUME NEW k \in Keys, Prepare(k) PROVE WorkInv'
  <2>1. PICK j \in Jobs :
          /\ job[j] = NoJob
          /\ job' = [Unexpired EXCEPT ![j] = [state |-> "preparing", key |-> k,
                                              expires |-> now + Hour, rep |-> "none"]]
          /\ inflight' = [inflight EXCEPT ![k] = j]
          /\ worker' = [worker EXCEPT ![j] = "building"]
    BY <1>2 DEF Prepare
  <2>2. inflight[k] = 0 /\ UNCHANGED <<now, encoding, target>>
    BY <1>2 DEF Prepare
  <2>3. ~Active(j) /\ j # 0
    BY <2>1, CacheAssumption DEF WorkInv, Serves, Held, NoJob
  <2>4. WorkTypes'
    <3>1. [state |-> "preparing", key |-> k, expires |-> now + Hour, rep |-> "none"] \in JobRecords
      BY CacheAssumption DEF JobRecords, WorkInv, WorkTypes
    <3>2. job' \in [Jobs -> JobRecords]
      BY <2>1, <3>1, UnexpiredJobs
    <3>3. QED
      BY <2>1, <2>2, <3>2 DEF WorkInv, WorkTypes, WorkerStates
  <2>5. \A i \in Jobs : worker'[i] = IF i = j THEN "building" ELSE worker[i]
    BY <2>1 DEF WorkInv, WorkTypes
  <2>6. ASSUME NEW i \in Jobs PROVE Serves(i)'
    <3>1. CASE i = j
      <4>1. job'[i] = [state |-> "preparing", key |-> k, expires |-> now + Hour, rep |-> "none"]
        BY <2>1, <3>1, UnexpiredJobs
      <4>2. inflight'[k] = i
        BY <2>1, <3>1 DEF WorkInv, WorkTypes
      <4>3. QED
        BY <2>2, <4>1, <4>2, CacheAssumption DEF Serves, Held, WorkInv, WorkTypes
    <3>2. CASE i # j /\ Active(i)
      <4>1. job'[i] = job[i]
        BY <2>1, <3>2, ExpiredIdle, UnexpiredJobs
      <4>2. job[i].key # k
        BY <2>2, <3>2, CacheAssumption DEF WorkInv, Serves
      <4>3. QED
        BY <2>1, <2>2, <3>2, <4>1, <4>2 DEF WorkInv, WorkTypes, Serves, Held
    <3>3. CASE i # j /\ ~Active(i)
      BY <2>5, <3>3 DEF Serves, Active
    <3>4. QED
      BY <3>1, <3>2, <3>3
  <2>7. \A i \in Jobs : Encoder(i)'
    BY <2>2, <2>5 DEF WorkInv, Encoder, Encodes
  <2>8. Single'
    BY <2>2, <2>5 DEF WorkInv, Single, Encodes
  <2>9. QED
    BY <2>4, <2>6, <2>7, <2>8 DEF WorkInv
<1>3. ASSUME NEW k \in Keys, Refuse(k) PROVE WorkInv'
  BY <1>3, DropKeeps DEF Refuse
<1>4. ASSUME NEW j \in Jobs, BuildFails(j) \/ GiveUp(j) PROVE WorkInv'
  <2>1. /\ worker' = [worker EXCEPT ![j] = "failed"] /\ Active(j)
        /\ UNCHANGED <<now, job, inflight, encoding, target>>
    BY <1>4 DEF BuildFails, GiveUp, Moves, Active
  <2>2. QED
    BY <2>1, WorkMoves DEF WorkerStates, Encodes
<1>5. ASSUME NEW j \in Jobs, Share(j) PROVE WorkInv'
  <2>1. PICK to \in {"ready", "failed"} :
          /\ worker' = [worker EXCEPT ![j] = to] /\ worker[j] = "woken"
          /\ UNCHANGED <<now, job, inflight, encoding, target>>
    BY <1>5 DEF Share, Moves
  <2>2. target[j] \in Reps
    BY <2>1 DEF WorkInv, Encoder
  <2>3. QED
    BY <2>1, <2>2, WorkMoves DEF WorkerStates, Encodes, Active
<1>6. ASSUME NEW j \in Jobs, EncodeFails(j) \/ Store(j) PROVE WorkInv'
  <2>1. PICK to \in {"published", "broken"} :
          /\ worker' = [worker EXCEPT ![j] = to] /\ worker[j] = "encoding"
          /\ UNCHANGED <<now, job, inflight, encoding, target>>
    BY <1>6 DEF EncodeFails, Store, Moves
  <2>2. QED
    BY <2>1, WorkMoves DEF WorkerStates, Encodes, Active
<1>7. ASSUME NEW j \in Jobs, Publish(j) PROVE WorkInv'
  <2>1. PICK r \in Content[job[j].key] :
          /\ target' = [target EXCEPT ![j] = r]
          /\ \/ worker' = [worker EXCEPT ![j] = "ready"] /\ UNCHANGED encoding
             \/ worker' = [worker EXCEPT ![j] = "waiting"] /\ UNCHANGED encoding
             \/ /\ worker' = [worker EXCEPT ![j] = "encoding"]
                /\ r \notin encoding /\ encoding' = encoding \cup {r}
    BY <1>7 DEF Publish, Moves, EncodingBy
  <2>2. worker[j] = "building" /\ UNCHANGED <<now, job, inflight>>
    BY <1>7 DEF Publish
  <2>3. r \in Reps
    <3>1. job[j].key \in Keys
      BY <2>2 DEF WorkInv, Serves, Active
    <3>2. QED
      BY <2>1, <3>1, CacheAssumption
  <2>4. WorkTypes'
    BY <2>1, <2>2, <2>3 DEF WorkInv, WorkTypes, WorkerStates
  <2>5. /\ worker'[j] \in {"ready", "waiting", "encoding"} /\ target'[j] = r
        /\ worker'[j] = "encoding" => r \notin encoding /\ r \in encoding'
        /\ \A i \in Jobs \ {j} : worker'[i] = worker[i] /\ target'[i] = target[i]
        /\ encoding \subseteq encoding'
    BY <2>1 DEF WorkInv, WorkTypes
  <2>6. \A i \in Jobs : Serves(i)'
    BY <2>2, <2>5 DEF WorkInv, Serves, Active, Held
  <2>7. \A i \in Jobs : Encoder(i)'
    BY <2>3, <2>5 DEF WorkInv, Encoder, Encodes
  <2>8. Single'
    BY <2>5 DEF WorkInv, Encoder, Single, Encodes
  <2>9. QED
    BY <2>4, <2>6, <2>7, <2>8 DEF WorkInv
<1>8. ASSUME NEW j \in Jobs, Close(j) PROVE WorkInv'
  <2>1. /\ worker[j] \in {"published", "broken"} /\ UNCHANGED <<now, job, inflight, target>>
        /\ encoding' = encoding \ {target[j]}
        /\ worker' = [i \in Jobs |->
             IF i = j THEN IF worker[j] = "published" THEN "ready" ELSE "failed"
             ELSE IF worker[i] = "waiting" /\ target[i] = target[j] THEN "woken" ELSE worker[i]]
    BY <1>8 DEF Close
  <2>2. /\ worker'[j] \in {"ready", "failed"} /\ target[j] \in Reps
        /\ \A i \in Jobs \ {j} :
             worker'[i] = worker[i] \/ (worker[i] = "waiting" /\ worker'[i] = "woken")
    <3>1. worker'[j] \in {"ready", "failed"}
      BY <2>1
    <3>2. target[j] \in Reps
      BY <2>1 DEF WorkInv, Encoder
    <3>3. ASSUME NEW i \in Jobs \ {j}
          PROVE  worker'[i] = worker[i] \/ (worker[i] = "waiting" /\ worker'[i] = "woken")
      BY <2>1
    <3>4. QED
      BY <3>1, <3>2, <3>3
  <2>3. WorkTypes'
    BY <2>1 DEF WorkInv, WorkTypes, WorkerStates
  <2>4. \A i \in Jobs : Serves(i)'
    BY <2>1, <2>2 DEF WorkInv, Serves, Active, Held
  <2>5. \A i \in Jobs : Encoder(i)'
    BY <2>1, <2>2 DEF WorkInv, Encoder, Single, Encodes
  <2>6. Single'
    BY <2>1, <2>2 DEF WorkInv, Single, Encodes
  <2>7. QED
    BY <2>3, <2>4, <2>5, <2>6 DEF WorkInv
<1>9. ASSUME NEW j \in Jobs, Finish(j) PROVE WorkInv'
  <2>1. /\ worker[j] \in {"ready", "failed"} /\ worker' = [worker EXCEPT ![j] = "none"]
        /\ target' = [target EXCEPT ![j] = "none"] /\ UNCHANGED <<now, encoding>>
        /\ job' = [job EXCEPT ![j] = IF @.state = "cancelled" THEN @
                               ELSE [@ EXCEPT !.state = worker[j],
                                       !.rep = IF worker[j] = "ready" THEN target[j] ELSE "none"]]
        /\ inflight' = [inflight EXCEPT ![job[j].key] = 0]
    BY <1>9 DEF Finish, Ended
  <2>2. job'[j] \in JobRecords
    BY <2>1 DEF WorkInv, WorkTypes, Encoder, JobRecords
  <2>3. WorkTypes'
    BY <2>1, <2>2 DEF WorkInv, WorkTypes, WorkerStates
  <2>4. ASSUME NEW i \in Jobs \ {j}, Active(i) PROVE Serves(i)'
    <3>1. job'[i] = job[i] /\ job[j].key # job[i].key
      BY <2>1, <2>4 DEF WorkInv, WorkTypes, Serves, Active
    <3>2. QED
      BY <2>1, <2>4, <3>1 DEF WorkInv, WorkTypes, Serves, Active, Held
  <2>5. \A i \in Jobs : Serves(i)'
    BY <2>1, <2>4 DEF WorkInv, WorkTypes, Serves, Active
  <2>6. \A i \in Jobs : Encoder(i)'
    BY <2>1 DEF WorkInv, WorkTypes, Encoder, Encodes
  <2>7. Single'
    BY <2>1 DEF WorkInv, WorkTypes, Single, Encodes
  <2>8. QED
    BY <2>3, <2>5, <2>6, <2>7 DEF WorkInv
<1>10. ASSUME NEW j \in Jobs, Cancel(j) PROVE WorkInv'
  <2>1. job' = [job EXCEPT ![j].state = "cancelled"] /\ UNCHANGED <<now, inflight, encoding, worker, target>>
    BY <1>10 DEF Cancel, Cancelled
  <2>2. \A i \in Jobs : /\ job'[i] \in JobRecords /\ job'[i].key = job[i].key
                        /\ job'[i].expires = job[i].expires
                        /\ job'[i].state \in {job[i].state, "cancelled"}
    BY <2>1 DEF WorkInv, WorkTypes, JobRecords
  <2>3. WorkTypes'
    BY <2>1, <2>2 DEF WorkInv, WorkTypes
  <2>4. \A i \in Jobs : Serves(i)'
    BY <2>1, <2>2 DEF WorkInv, Serves, Active, Held
  <2>5. QED
    BY <2>1, <2>3, <2>4 DEF WorkInv, Encoder, Single
<1>11. CASE Advance
  <2>1. /\ now' = now + 1 /\ UNCHANGED works
        /\ \A j \in Jobs : Active(j) => now < job[j].expires - Hour + Timeout
    BY <1>11 DEF Advance
  <2>2. WorkTypes'
    BY <2>1 DEF WorkInv, WorkTypes, works
  <2>3. \A j \in Jobs : Serves(j)'
    BY <2>1, CacheAssumption DEF WorkInv, WorkTypes, Serves, Active, Held, works, JobRecords
  <2>4. QED
    BY <2>1, <2>2, <2>3 DEF WorkInv, Encoder, Single, works
<1>12. CASE Restart
  <2>1. /\ job' = [j \in Jobs |-> IF job[j] = NoJob THEN NoJob ELSE Gone]
        /\ inflight' = [k \in Keys |-> 0] /\ encoding' = {} /\ UNCHANGED now
        /\ worker' = [j \in Jobs |-> "none"] /\ target' = [j \in Jobs |-> "none"]
    BY <1>12 DEF Restart
  <2>2. WorkTypes'
    BY <2>1 DEF WorkInv, WorkTypes, WorkerStates, JobRecords, NoJob, Gone
  <2>3. QED
    BY <2>1, <2>2 DEF WorkInv, Serves, Encoder, Single, Active, Encodes
<1>13. ASSUME NEW j \in Jobs, Poll(j) PROVE WorkInv'
  BY <1>13, WorkSame DEF Poll
<1>14. ASSUME NEW r \in Reps, Lease(r) \/ Open(r) \/ CloseReader(r) PROVE WorkInv'
  BY <1>14, WorkSame DEF Lease, Open, CloseReader
<1>15. QED
  BY <1>1, <1>2, <1>3, <1>4, <1>5, <1>6, <1>7, <1>8, <1>9, <1>10, <1>11, <1>12, <1>13, <1>14
     DEF Next, Work, vars

LEMMA WorkHolds == Spec => []WorkInv
<1>1. Init => WorkInv
  BY CacheAssumption DEF Init, WorkInv, WorkTypes, Serves, Encoder, Single, Active, Encodes,
                         WorkerStates, JobRecords, NoJob
<1>2. QED
  BY <1>1, WorkStep, PTL DEF Spec

\* One encode per representation and one worker per key, which keeps its job and its key
\* (p.encoding and p.inflight, weazlpod_store.go, weazlpod_prepare.go).
THEOREM EncodedOnce == Spec => []EncodeOnce
<1>1. WorkInv => EncodeOnce
  BY DEF WorkInv, Serves, Single, Encodes, EncodeOnce
<1>2. QED
  BY <1>1, WorkHolds, PTL
-----------------------------------------------------------------------------
(* Leases                                                                   *)

LeaseTypes ==
  /\ now \in Nat /\ reps \in [Reps -> [pin : Nat, bytes : Nat]] /\ lease \in [Reps -> Nat]
  /\ files \subseteq Reps /\ replaced \subseteq Reps
\* A representation with its record has its file, and its pin covers every lease.
Kept(r) == /\ Present(r) => r \in files
           /\ now < lease[r] => Present(r) /\ lease[r] <= reps[r].pin
\* What is being encoded is not in the cache.
Fresh(j) == worker[j] = "encoding" => target[j] \in replaced \/ ~Present(target[j])
LeaseInv == LeaseTypes /\ (\A r \in Reps \ replaced : Kept(r)) /\ \A j \in Jobs : Fresh(j)

LEMMA EvictKeeps ==
  ASSUME LeaseInv, NEW gone \in SUBSET Candidates, Evict(gone), UNCHANGED <<now, lease, replaced>>
  PROVE  /\ LeaseTypes' /\ \A r \in Reps \ replaced : Kept(r)'
         /\ \A r \in Reps : Present(r)' => Present(r)
<1>1. /\ reps' = [r \in Reps |-> IF r \in gone THEN NoRep ELSE reps[r]] /\ files' = files \ gone
      /\ \A r \in gone : reps[r].pin <= now
  BY DEF Evict, Candidates
<1>2. NoRep \in [pin : Nat, bytes : Nat]
  BY DEF NoRep
<1>3. LeaseTypes'
  BY <1>1, <1>2 DEF LeaseInv, LeaseTypes
<1>4. \A r \in Reps : reps'[r] = IF r \in gone THEN NoRep ELSE reps[r]
  BY <1>1
<1>5. ASSUME NEW r \in Reps \ replaced PROVE Kept(r)'
  <2>1. CASE r \in gone
    <3>1. ~(now < lease[r])
      BY <1>1, <2>1 DEF LeaseInv, LeaseTypes, Kept
    <3>2. ~Present(r)'
      BY <1>4, <2>1 DEF Present
    <3>3. QED
      BY <3>1, <3>2 DEF Kept
  <2>2. CASE r \notin gone
    BY <1>1, <1>4, <2>2 DEF LeaseInv, Kept, Present
  <2>3. QED
    BY <2>1, <2>2
<1>6. \A r \in Reps : Present(r)' => Present(r)
  BY <1>4 DEF Present
<1>7. QED
  BY <1>3, <1>5, <1>6

LEMMA PinKeeps ==
  ASSUME LeaseInv, NEW r \in Reps, NEW until \in Nat, Present(r), reps' = Pinned(r, until)
  PROVE  /\ reps' \in [Reps -> [pin : Nat, bytes : Nat]]
         /\ reps'[r].pin = Later(reps[r].pin, until)
         /\ \A s \in Reps : /\ Present(s)' <=> Present(s)
                            /\ reps[s].pin <= reps'[s].pin
<1>1. /\ Later(reps[r].pin, until) \in Nat /\ reps[r].pin <= Later(reps[r].pin, until)
  BY DEF Later, LeaseInv, LeaseTypes
<1>2. reps' = [reps EXCEPT ![r].pin = Later(reps[r].pin, until)]
  BY DEF Pinned
<1>3. /\ reps' \in [Reps -> [pin : Nat, bytes : Nat]]
      /\ \A s \in Reps \ {r} : reps'[s] = reps[s]
      /\ reps'[r].pin = Later(reps[r].pin, until) /\ reps'[r].bytes = reps[r].bytes
  BY <1>1, <1>2 DEF LeaseInv, LeaseTypes
<1>4. \A s \in Reps : reps[s].pin \in Nat /\ reps'[s].pin \in Nat /\ reps[s].pin <= reps'[s].pin
  BY <1>1, <1>3 DEF LeaseInv, LeaseTypes
<1>5. Present(r)'
  <2>1. reps[r].pin # 0 \/ reps[r].bytes # 0
    BY DEF Present, NoRep, LeaseInv, LeaseTypes
  <2>2. reps'[r].pin # 0 \/ reps'[r].bytes # 0
    BY <2>1, <1>3, <1>4
  <2>3. QED
    BY <2>2 DEF Present, NoRep
<1>6. \A s \in Reps : Present(s)' <=> Present(s)
  BY <1>3, <1>5 DEF Present
<1>7. QED
  BY <1>3, <1>4, <1>6

LEMMA LeaseStep ==
  ASSUME LeaseInv, WorkInv, [Next]_vars
  PROVE  LeaseInv'
<1>1. ASSUME UNCHANGED <<now, reps, files, lease, replaced>>, \A j \in Jobs : Fresh(j)'
      PROVE  LeaseInv'
  BY <1>1 DEF LeaseInv, LeaseTypes, Kept, Present
<1>2. ASSUME NEW r \in Reps, NEW until \in Nat, Present(r), reps' = Pinned(r, until),
             UNCHANGED <<now, files, lease, replaced>>, \A j \in Jobs : Fresh(j)'
      PROVE  LeaseInv'
  <2>1. \A s \in Reps \ replaced : Kept(s)'
    BY <1>2, PinKeeps DEF LeaseInv, LeaseTypes, Kept
  <2>2. QED
    BY <1>2, <2>1, PinKeeps DEF LeaseInv, LeaseTypes
<1>3. ASSUME NEW k \in Keys, Prepare(k) PROVE LeaseInv'
  <2>1. PICK gone \in SUBSET Candidates : Evict(gone)
    BY <1>3 DEF Prepare
  <2>2. /\ UNCHANGED <<now, lease, replaced, target>>
        /\ \E j \in Jobs : worker' = [worker EXCEPT ![j] = "building"]
    BY <1>3 DEF Prepare
  <2>3. \A i \in Jobs : worker'[i] = "encoding" => worker[i] = "encoding" /\ target[i] \in Reps
    BY <2>2 DEF WorkInv, WorkTypes, Encoder, Encodes
  <2>4. QED
    BY <2>1, <2>2, <2>3, EvictKeeps DEF LeaseInv, Fresh
<1>4. ASSUME NEW k \in Keys, Refuse(k) PROVE LeaseInv'
  <2>1. UNCHANGED <<now, lease, replaced, target, worker>>
    BY <1>4 DEF Refuse
  <2>2. CASE UNCHANGED <<reps, files>>
    BY <1>1, <2>1, <2>2 DEF LeaseInv, Fresh, Present
  <2>3. CASE \E gone \in SUBSET Candidates : Evict(gone)
    <3>1. PICK gone \in SUBSET Candidates : Evict(gone)
      BY <2>3
    <3>2. \A i \in Jobs : worker[i] = "encoding" => target[i] \in Reps
      BY DEF WorkInv, Encoder, Encodes
    <3>3. QED
      BY <2>1, <3>1, <3>2, EvictKeeps DEF LeaseInv, Fresh
  <2>4. QED
    BY <1>4, <2>2, <2>3 DEF Refuse
<1>5. ASSUME NEW j \in Jobs, BuildFails(j) \/ GiveUp(j) \/ EncodeFails(j) PROVE LeaseInv'
  <2>1. PICK to \in {"failed", "broken"} : worker' = [worker EXCEPT ![j] = to]
    BY <1>5 DEF BuildFails, GiveUp, EncodeFails, Moves
  <2>2. UNCHANGED <<now, reps, files, lease, replaced, target>>
    BY <1>5 DEF BuildFails, GiveUp, EncodeFails, cache
  <2>3. \A i \in Jobs : Fresh(i)'
    BY <2>1, <2>2 DEF LeaseInv, Fresh, Present, WorkInv, WorkTypes
  <2>4. QED
    BY <1>1, <2>2, <2>3
<1>6. ASSUME NEW j \in Jobs, Publish(j) PROVE LeaseInv'
  <2>1. PICK r \in Content[job[j].key] :
          /\ target' = [target EXCEPT ![j] = r]
          /\ \/ /\ Present(r) /\ worker' = [worker EXCEPT ![j] = "ready"]
                /\ reps' = Pinned(r, now + Hour) /\ UNCHANGED replaced
             \/ /\ UNCHANGED <<reps, replaced>> /\ worker' = [worker EXCEPT ![j] = "waiting"]
             \/ /\ UNCHANGED reps /\ worker' = [worker EXCEPT ![j] = "encoding"]
                /\ replaced' = replaced \cup {s \in {r} : Present(s)}
    BY <1>6 DEF Publish, Moves
  <2>2. worker[j] = "building" /\ UNCHANGED <<now, files, lease>>
    BY <1>6 DEF Publish
  <2>3. r \in Reps
    <3>1. job[j].key \in Keys
      BY <2>2 DEF WorkInv, Serves, Active
    <3>2. QED
      BY <2>1, <3>1, CacheAssumption
  <2>4. /\ worker'[j] \in {"ready", "waiting", "encoding"} /\ target'[j] = r
        /\ \A i \in Jobs \ {j} : worker'[i] = worker[i] /\ target'[i] = target[i]
    BY <2>1 DEF WorkInv, WorkTypes
  <2>5. now + Hour \in Nat
    BY CacheAssumption DEF LeaseInv, LeaseTypes
  <2>6. CASE /\ Present(r) /\ worker' = [worker EXCEPT ![j] = "ready"]
             /\ reps' = Pinned(r, now + Hour) /\ UNCHANGED replaced
    <3>1. \A i \in Jobs : worker'[i] = "encoding" =>
            /\ i # j /\ worker[i] = "encoding" /\ target'[i] = target[i] /\ target[i] \in Reps
      BY <2>4, <2>6 DEF WorkInv, WorkTypes, Encoder, Encodes
    <3>2. \A i \in Jobs : Fresh(i)'
      BY <2>3, <2>5, <2>6, <3>1, PinKeeps DEF LeaseInv, Fresh
    <3>3. QED
      BY <1>2, <2>2, <2>3, <2>5, <2>6, <3>2
  <2>7. CASE UNCHANGED <<reps, replaced>> /\ worker' = [worker EXCEPT ![j] = "waiting"]
    <3>1. worker'[j] = "waiting"
      BY <2>7 DEF WorkInv, WorkTypes
    <3>2. \A i \in Jobs : Fresh(i)'
      BY <2>4, <2>7, <3>1 DEF LeaseInv, Fresh, Present
    <3>3. QED
      BY <1>1, <2>2, <2>7, <3>2
  <2>8. CASE /\ UNCHANGED reps /\ worker' = [worker EXCEPT ![j] = "encoding"]
             /\ replaced' = replaced \cup {s \in {r} : Present(s)}
    <3>1. \A i \in Jobs : Fresh(i)'
      BY <2>4, <2>8 DEF LeaseInv, Fresh, Present
    <3>2. \A s \in Reps \ replaced' : Kept(s)'
      BY <2>2, <2>8 DEF LeaseInv, Kept, Present
    <3>3. LeaseTypes'
      BY <2>2, <2>3, <2>8 DEF LeaseInv, LeaseTypes
    <3>4. QED
      BY <3>1, <3>2, <3>3 DEF LeaseInv
  <2>9. QED
    BY <2>1, <2>6, <2>7, <2>8
<1>7. ASSUME NEW j \in Jobs, Share(j) PROVE LeaseInv'
  <2>1. /\ UNCHANGED <<now, files, lease, replaced, target>> /\ worker[j] = "woken"
        /\ \E to \in {"ready", "failed"} : worker' = [worker EXCEPT ![j] = to]
        /\ UNCHANGED reps \/ (Present(target[j]) /\ reps' = Pinned(target[j], now + Hour))
    BY <1>7 DEF Share, Moves
  <2>2. \A i \in Jobs : worker'[i] = "encoding" => worker[i] = "encoding" /\ target[i] \in Reps
    BY <2>1 DEF WorkInv, WorkTypes, Encoder, Encodes
  <2>3. CASE UNCHANGED reps
    BY <1>1, <2>1, <2>2, <2>3 DEF LeaseInv, Fresh, Present
  <2>4. CASE Present(target[j]) /\ reps' = Pinned(target[j], now + Hour)
    <3>1. target[j] \in Reps /\ now + Hour \in Nat
      BY <2>1, CacheAssumption DEF WorkInv, Encoder, LeaseInv, LeaseTypes
    <3>2. \A i \in Jobs : Fresh(i)'
      BY <2>1, <2>2, <2>4, <3>1, PinKeeps DEF LeaseInv, Fresh
    <3>3. QED
      BY <1>2, <2>1, <2>4, <3>1, <3>2
  <2>5. QED
    BY <2>1, <2>3, <2>4
<1>8. ASSUME NEW j \in Jobs, Store(j) PROVE LeaseInv'
  <2> DEFINE r == target[j]
  <2>1. /\ worker[j] = "encoding" /\ UNCHANGED <<now, lease, replaced, target>>
        /\ \E to \in {"published", "broken"} : worker' = [worker EXCEPT ![j] = to]
        /\ \/ \E b \in 1 .. Output : /\ reps' = [reps EXCEPT ![r] = [pin |-> now + Hour, bytes |-> b]]
                                      /\ files' = files \cup {r}
           \/ files' = files \ {r} /\ UNCHANGED reps
    BY <1>8 DEF Store, Moves
  <2>2. r \in Reps /\ (r \in replaced \/ ~Present(r))
    BY <2>1 DEF WorkInv, Encoder, Encodes, LeaseInv, Fresh
  <2>3. \A i \in Jobs : worker'[i] = "encoding" =>
          /\ i # j /\ worker[i] = "encoding" /\ target[i] \in Reps /\ target[i] # r
    BY <2>1 DEF WorkInv, WorkTypes, Encoder, Encodes, Single
  <2>4. \A s \in Reps \ {r} : reps'[s] = reps[s]
    BY <2>1 DEF LeaseInv, LeaseTypes
  <2>5. \A i \in Jobs : Fresh(i)'
    BY <2>1, <2>3, <2>4 DEF LeaseInv, Fresh, Present
  <2>6. LeaseTypes'
    <3>1. \A b \in 1 .. Output : [pin |-> now + Hour, bytes |-> b] \in [pin : Nat, bytes : Nat]
      BY CacheAssumption DEF LeaseInv, LeaseTypes
    <3>2. QED
      BY <2>1, <2>2, <3>1 DEF LeaseInv, LeaseTypes
  <2>7. \A s \in Reps \ (replaced \cup {r}) : Kept(s)'
    BY <2>1, <2>4 DEF LeaseInv, Kept, Present
  <2>8. ASSUME r \notin replaced PROVE Kept(r)'
    <3>1. ~Present(r) /\ ~(now < lease[r])
      BY <2>2, <2>8 DEF LeaseInv, Kept
    <3>2. Present(r)' => r \in files'
      BY <2>1, <3>1 DEF Present
    <3>3. QED
      BY <2>1, <3>1, <3>2 DEF Kept
  <2>9. QED
    BY <2>1, <2>5, <2>6, <2>7, <2>8 DEF LeaseInv
<1>9. ASSUME NEW j \in Jobs, Close(j) \/ Finish(j) \/ Cancel(j) PROVE LeaseInv'
  <2>1. UNCHANGED <<now, reps, files, lease, replaced>>
    BY <1>9 DEF Close, Finish, Cancel, cache
  <2>2. \A i \in Jobs : worker'[i] = "encoding" => worker[i] = "encoding" /\ target'[i] = target[i]
    BY <1>9 DEF Close, Finish, Cancel, WorkInv, WorkTypes
  <2>3. QED
    BY <1>1, <2>1, <2>2 DEF LeaseInv, Fresh, Present
<1>10. CASE Advance
  <2>1. now' = now + 1 /\ UNCHANGED <<reps, files, lease, replaced, worker, target>>
    BY <1>10 DEF Advance, cache, works
  <2>2. QED
    BY <2>1 DEF LeaseInv, LeaseTypes, Kept, Fresh, Present
<1>11. CASE Restart
  <2>1. /\ reps' = [r \in Reps |-> IF r \in files THEN reps[r] ELSE NoRep]
        /\ files' = {r \in files : Present(r)} /\ UNCHANGED <<now, lease, replaced>>
        /\ worker' = [j \in Jobs |-> "none"]
    BY <1>11 DEF Restart
  <2>2. LeaseTypes'
    BY <2>1 DEF LeaseInv, LeaseTypes, NoRep
  <2>3. \A r \in Reps \ replaced : Kept(r)'
    BY <2>1 DEF LeaseInv, LeaseTypes, Kept, Present
  <2>4. QED
    BY <2>1, <2>2, <2>3 DEF LeaseInv, Fresh
<1>12. ASSUME NEW j \in Jobs, Poll(j) PROVE LeaseInv'
  BY <1>1, <1>12 DEF Poll, cache, works, LeaseInv, Fresh, Present
<1>13. ASSUME NEW r \in Reps, Lease(r) PROVE LeaseInv'
  <2>1. PICK until \in now + 1 .. now + Long :
          \/ /\ Present(r) /\ reps' = Pinned(r, until)
             /\ lease' = [lease EXCEPT ![r] = Later(@, until)] \/ UNCHANGED lease
          \/ UNCHANGED <<reps, lease>>
    BY <1>13 DEF Lease
  <2>2. UNCHANGED <<now, files, replaced, worker, target>> /\ until \in Nat /\ now < until
    BY <1>13, <2>1, CacheAssumption DEF Lease, works, LeaseInv, LeaseTypes
  <2>3. \A i \in Jobs : worker[i] = "encoding" => target[i] \in Reps
    BY DEF WorkInv, Encoder, Encodes
  <2>4. CASE UNCHANGED <<reps, lease>>
    BY <1>1, <2>2, <2>4 DEF LeaseInv, Fresh, Present
  <2>5. CASE Present(r) /\ reps' = Pinned(r, until)
    <3>1. \A i \in Jobs : Fresh(i)'
      BY <2>2, <2>3, <2>5, PinKeeps DEF LeaseInv, Fresh
    <3>2. CASE UNCHANGED lease
      BY <1>2, <2>2, <2>5, <3>1, <3>2
    <3>3. CASE lease' = [lease EXCEPT ![r] = Later(@, until)]
      <4>1. Later(lease[r], until) \in Nat
        BY <2>2 DEF Later, LeaseInv, LeaseTypes
      <4>2. /\ lease' \in [Reps -> Nat] /\ lease'[r] = Later(lease[r], until)
            /\ \A s \in Reps \ {r} : lease'[s] = lease[s]
        BY <3>3, <4>1 DEF LeaseInv, LeaseTypes
      <4>3. LeaseTypes'
        BY <2>2, <2>5, <4>2, PinKeeps DEF LeaseInv, LeaseTypes
      <4>4. \A s \in Reps \ (replaced \cup {r}) : Kept(s)'
        BY <2>2, <2>5, <4>2, <4>3, PinKeeps DEF LeaseInv, LeaseTypes, Kept
      <4>5. ASSUME r \notin replaced PROVE Kept(r)'
        <5>1. Present(r)' /\ r \in files' /\ reps'[r].pin = Later(reps[r].pin, until)
          BY <2>2, <2>5, <4>5, PinKeeps DEF LeaseInv, Kept
        <5>2. now < lease[r] => lease[r] <= reps[r].pin
          BY <4>5 DEF LeaseInv, Kept
        <5>3. now \in Nat /\ lease[r] \in Nat /\ reps[r].pin \in Nat
          BY DEF LeaseInv, LeaseTypes
        <5>4. lease'[r] <= reps'[r].pin
          BY <2>2, <4>2, <5>1, <5>2, <5>3 DEF Later
        <5>5. QED
          BY <5>1, <5>4 DEF Kept
      <4>6. QED
        BY <2>2, <3>1, <4>3, <4>4, <4>5 DEF LeaseInv
    <3>4. QED
      BY <2>1, <2>5, <3>2, <3>3
  <2>6. QED
    BY <2>1, <2>4, <2>5
<1>14. ASSUME NEW r \in Reps, Open(r) \/ CloseReader(r) PROVE LeaseInv'
  BY <1>1, <1>14 DEF Open, CloseReader, works, LeaseInv, Fresh, Present
<1>15. CASE UNCHANGED vars
  BY <1>1, <1>15 DEF vars, cache, works, LeaseInv, Fresh, Present
<1>16. QED
  BY <1>3, <1>4, <1>5, <1>6, <1>7, <1>8, <1>9, <1>10, <1>11, <1>12, <1>13, <1>14, <1>15
     DEF Next, Work

LEMMA LeaseInit == Init => LeaseInv
<1>1. ASSUME Init PROVE LeaseInv
  <2>1. PICK old \in SUBSET Reps :
          /\ reps = [r \in Reps |-> IF r \in old THEN [pin |-> 0, bytes |-> Output] ELSE NoRep]
          /\ files = old
    BY <1>1 DEF Init
  <2>2. /\ now = 0 /\ lease = [r \in Reps |-> 0] /\ replaced = {} /\ worker = [j \in Jobs |-> "none"]
    BY <1>1 DEF Init
  <2>3. LeaseTypes
    BY <2>1, <2>2, CacheAssumption DEF LeaseTypes, NoRep
  <2>4. \A r \in Reps : Kept(r)
    BY <2>1, <2>2 DEF Kept, Present
  <2> QED BY <2>2, <2>3, <2>4 DEF LeaseInv, Fresh
<1> QED BY <1>1

LEMMA LeaseHolds == Spec => []LeaseInv
<1> QED BY LeaseInit, LeaseStep, WorkHolds, PTL DEF Spec

\* Until a lease ends, its representation and the file are there, across eviction,
\* restarts, failed writes and the encodes of others (podReserve, podPublish, podLease and
\* initPod), unless a pin that could not be saved had it encoded again.
THEOREM LeasesPlay == Spec => []LeasePlayable
<1>1. LeaseInv => LeasePlayable
  BY DEF LeaseInv, Kept, LeasePlayable
<1> QED BY <1>1, LeaseHolds, PTL
-----------------------------------------------------------------------------
(* Sums.  Total(n, S) counts the units of S, n[x] of them for each x.       *)

Units(n, S) == UNION {{x} \X (1 .. n[x]) : x \in S}
Weights(n, S) == IsFiniteSet(S) /\ \A x \in S : n[x] \in Nat

LEMMA UnitMember ==
  ASSUME NEW S, NEW n, NEW u
  PROVE  u \in Units(n, S) <=> \E x \in S : \E i \in 1 .. n[x] : u = <<x, i>>
BY DEF Units

\* The units of one element.
LEMMA OneUnits ==
  ASSUME NEW x, NEW k \in Nat
  PROVE  IsFiniteSet({x} \X (1 .. k)) /\ Cardinality({x} \X (1 .. k)) = k
<1>1. IsFiniteSet({x}) /\ Cardinality({x}) = 1
  BY FS_Singleton
<1>2. IsFiniteSet(1 .. k) /\ Cardinality(1 .. k) = k
  <2>1. IsFiniteSet(1 .. k) /\ Cardinality(1 .. k) = IF 1 > k THEN 0 ELSE k - 1 + 1
    BY FS_Interval
  <2> QED BY <2>1
<1>3. /\ IsFiniteSet({x} \X (1 .. k))
      /\ Cardinality({x} \X (1 .. k)) = Cardinality({x}) * Cardinality(1 .. k)
  BY <1>1, <1>2, FS_Product, Zenon
<1> QED BY <1>1, <1>2, <1>3

LEMMA UnitsFinite ==
  ASSUME NEW S, NEW n, Weights(n, S)
  PROVE  IsFiniteSet(Units(n, S)) /\ Total(n, S) \in Nat
<1> DEFINE f == [x \in S |-> {x} \X (1 .. n[x])]
           T == {f[x] : x \in S}
<1>1. f \in Surjection(S, T)
  BY DEF Surjection
<1>2. IsFiniteSet(T)
  BY <1>1, FS_Surjection DEF Weights
<1>3. \A p \in T : IsFiniteSet(p)
  <2>1. ASSUME NEW x \in S PROVE IsFiniteSet({x} \X (1 .. n[x]))
    BY OneUnits DEF Weights
  <2> QED BY <2>1
<1>4. IsFiniteSet(UNION T)
  BY <1>2, <1>3, FS_UNION
<1>5. UNION T = Units(n, S)
  BY DEF Units
<1> QED BY <1>4, <1>5, FS_CardinalityType DEF Units, Total

\* A part of a sum is no greater than the sum.
LEMMA TotalOfPart ==
  ASSUME NEW S, NEW n, Weights(n, S), NEW R \in SUBSET S
  PROVE  Weights(n, R) /\ Total(n, R) <= Total(n, S)
<1>1. Weights(n, R)
  BY FS_Subset DEF Weights
<1>2. Units(n, R) \subseteq Units(n, S)
  BY DEF Units
<1> QED BY <1>1, <1>2, UnitsFinite, FS_Subset DEF Units, Total

\* Sums over S of weights that agree there are the same.
LEMMA TotalAgrees ==
  ASSUME NEW S, NEW n, NEW m, \A x \in S : n[x] = m[x]
  PROVE  Total(n, S) = Total(m, S)
<1>1. \A u : u \in Units(n, S) <=> u \in Units(m, S)
  BY UnitMember
<1>2. Units(n, S) = Units(m, S)
  BY <1>1
<1> QED BY <1>2 DEF Units, Total

\* One more summand.
LEMMA TotalAdds ==
  ASSUME NEW S, NEW x, x \notin S, NEW n, Weights(n, S \cup {x})
  PROVE  Total(n, S \cup {x}) = Total(n, S) + n[x]
<1> DEFINE part == {x} \X (1 .. n[x])
<1>1. n[x] \in Nat /\ Weights(n, S)
  BY TotalOfPart DEF Weights
<1>2. IsFiniteSet(part) /\ Cardinality(part) = n[x]
  BY <1>1, OneUnits
<1>3. Units(n, S \cup {x}) = Units(n, S) \cup part /\ Units(n, S) \cap part = {}
  <2>1. ASSUME NEW u PROVE u \in Units(n, S \cup {x}) <=> u \in Units(n, S) \cup part
    BY UnitMember
  <2>2. ASSUME NEW u PROVE u \notin Units(n, S) \cap part
    BY UnitMember
  <2> QED BY <2>1, <2>2
<1>4. Cardinality(Units(n, S) \cup part) = Cardinality(Units(n, S)) + n[x] - 0
  BY <1>1, <1>2, <1>3, UnitsFinite, FS_Union, FS_EmptySet
<1> QED BY <1>1, <1>3, <1>4, UnitsFinite DEF Total, Units

\* No more of each makes no more in all.
LEMMA TotalGrows ==
  ASSUME NEW S, NEW n, NEW m, Weights(m, S), \A x \in S : n[x] \in Nat /\ n[x] <= m[x]
  PROVE  Weights(n, S) /\ Total(n, S) <= Total(m, S)
<1>1. Weights(n, S)
  BY DEF Weights
<1>2. Units(n, S) \subseteq Units(m, S)
  <2>1. ASSUME NEW u \in Units(n, S) PROVE u \in Units(m, S)
    <3>1. PICK x \in S : \E i \in 1 .. n[x] : u = <<x, i>>
      BY UnitMember
    <3>2. \A i \in 1 .. n[x] : i \in 1 .. m[x]
      BY DEF Weights
    <3> QED BY <3>1, <3>2, UnitMember
  <2> QED BY <2>1
<1> QED BY <1>1, <1>2, UnitsFinite, FS_Subset DEF Units, Total

\* What weighs nothing may be left out.
LEMMA TotalNeglects ==
  ASSUME NEW S, NEW R \in SUBSET S, NEW n, \A x \in S \ R : n[x] = 0
  PROVE  Total(n, S) = Total(n, R)
<1>1. ASSUME NEW u PROVE u \in Units(n, S) <=> u \in Units(n, R)
  <2>1. ASSUME NEW x \in S, NEW i \in 1 .. n[x] PROVE x \in R
    BY <2>1
  <2> QED BY <2>1, UnitMember
<1>2. Units(n, S) = Units(n, R)
  BY <1>1
<1> QED BY <1>2 DEF Units, Total

-----------------------------------------------------------------------------
(* The budget                                                               *)

Workings == {j \in Jobs : Active(j)}
Unstored == {j \in Jobs : worker[j] \in {"building", "waiting", "woken", "encoding"}}
\* p.running counts the workers.
Counted == /\ IsFiniteSet(Workings) /\ running = Cardinality(Workings)
           /\ running <= Workers

\* A worker started, and one that ended, in any order of the others.
LEMMA CountedAgain ==
  ASSUME Counted, UNCHANGED running, \A j \in Jobs : Active(j)' <=> Active(j)
  PROVE  Counted'
<1>1. Workings' = Workings
  BY DEF Workings
<1> QED BY <1>1 DEF Counted

LEMMA CountedStep ==
  ASSUME Counted, WorkInv, [Next]_vars
  PROVE  Counted'
<1>1. ASSUME NEW j \in Jobs, NEW from \in WorkerStates \ {"none"}, NEW to \in WorkerStates \ {"none"},
             Moves(j, from, to), UNCHANGED running
      PROVE  Counted'
  BY <1>1, CountedAgain DEF Moves, WorkInv, WorkTypes, Active
<1>2. ASSUME NEW k \in Keys, Prepare(k) PROVE Counted'
  <2>1. PICK j \in Jobs : job[j] = NoJob /\ worker' = [worker EXCEPT ![j] = "building"]
    BY <1>2 DEF Prepare
  <2>2. running < Workers /\ running' = running + 1
    BY <1>2 DEF Prepare
  <2>3. j \notin Workings
    BY <2>1 DEF WorkInv, Serves, Held, NoJob, Workings
  <2>4. Workings' = Workings \cup {j}
    BY <2>1 DEF Workings, Active, WorkInv, WorkTypes
  <2>5. IsFiniteSet(Workings') /\ Cardinality(Workings') = Cardinality(Workings) + 1
    BY <2>3, <2>4, FS_AddElement DEF Counted
  <2>6. Cardinality(Workings) \in Nat
    BY FS_CardinalityType DEF Counted
  <2> QED BY <2>2, <2>5, <2>6, CacheAssumption DEF Counted
<1>3. ASSUME NEW j \in Jobs, Close(j) PROVE Counted'
  <2>1. /\ worker[j] \in {"published", "broken"} /\ UNCHANGED running
        /\ worker' = [i \in Jobs |->
             IF i = j THEN IF worker[j] = "published" THEN "ready" ELSE "failed"
             ELSE IF worker[i] = "waiting" /\ target[i] = target[j] THEN "woken" ELSE worker[i]]
    BY <1>3 DEF Close
  <2>2. ASSUME NEW i \in Jobs PROVE Active(i)' <=> Active(i)
    BY <2>1 DEF Active
  <2> QED BY <2>1, <2>2, CountedAgain
<1>4. ASSUME NEW j \in Jobs, Finish(j) PROVE Counted'
  <2>1. /\ worker[j] \in {"ready", "failed"} /\ worker' = [worker EXCEPT ![j] = "none"]
        /\ running' = running - 1
    BY <1>4 DEF Finish, Ended
  <2>2. j \in Workings /\ Workings' = Workings \ {j}
    BY <2>1 DEF Workings, Active, WorkInv, WorkTypes
  <2>3. IsFiniteSet(Workings') /\ Cardinality(Workings') = Cardinality(Workings) - 1
    BY <2>2, FS_RemoveElement DEF Counted
  <2>4. Cardinality(Workings) \in Nat
    BY FS_CardinalityType DEF Counted
  <2> QED BY <2>1, <2>3, <2>4, CacheAssumption DEF Counted
<1>5. ASSUME NEW j \in Jobs, BuildFails(j) \/ GiveUp(j) \/ Publish(j) \/ Share(j)
                               \/ EncodeFails(j) \/ Store(j)
      PROVE  Counted'
  <2>1. UNCHANGED running
    BY <1>5 DEF BuildFails, GiveUp, Publish, Share, EncodeFails, Store
  <2>2. \E from, to \in WorkerStates \ {"none"} : Moves(j, from, to)
    <3>1. CASE BuildFails(j) \/ GiveUp(j)
      BY <3>1 DEF BuildFails, GiveUp, WorkerStates
    <3>2. CASE Publish(j)
      BY <3>2 DEF Publish, WorkerStates
    <3>3. CASE Share(j)
      BY <3>3 DEF Share, WorkerStates
    <3>4. CASE EncodeFails(j) \/ Store(j)
      BY <3>4 DEF EncodeFails, Store, WorkerStates
    <3> QED BY <1>5, <3>1, <3>2, <3>3, <3>4
  <2> QED BY <1>1, <2>1, <2>2
<1>6. CASE Restart
  <2>1. worker' = [j \in Jobs |-> "none"] /\ running' = 0
    BY <1>6 DEF Restart
  <2>2. Workings' = {}
    BY <2>1 DEF Workings, Active
  <2> QED BY <2>1, <2>2, FS_EmptySet, CacheAssumption DEF Counted
<1>7. ASSUME NEW k \in Keys, Refuse(k) PROVE Counted'
  BY <1>7, CountedAgain DEF Refuse, Active
<1>8. ASSUME NEW j \in Jobs, Cancel(j) \/ Poll(j) PROVE Counted'
  BY <1>8, CountedAgain DEF Cancel, Poll, works, Active
<1>9. ASSUME NEW r \in Reps, Lease(r) \/ Open(r) \/ CloseReader(r) PROVE Counted'
  BY <1>9, CountedAgain DEF Lease, Open, CloseReader, works, Active
<1>10. CASE Advance \/ UNCHANGED vars
  BY <1>10, CountedAgain DEF Advance, vars, works, Active
<1> QED BY <1>2, <1>3, <1>4, <1>5, <1>6, <1>7, <1>8, <1>9, <1>10 DEF Next, Work

Sizes == [r \in Reps |-> reps[r].bytes]

LEMMA SizesSum ==
  ASSUME LeaseTypes
  PROVE  Weights(Sizes, Reps) /\ Bytes(Reps) = Total(Sizes, Reps) /\ Bytes(Reps) \in Nat
<1>1. Weights(Sizes, Reps)
  BY CacheAssumption DEF Weights, Sizes, LeaseTypes
<1> QED BY <1>1, UnitsFinite DEF Bytes, Sizes

LEMMA TimesGrows ==
  ASSUME NEW a \in Nat, NEW b \in Nat, NEW c \in Nat, a <= b
  PROVE  c * a \in Nat /\ c * b \in Nat /\ c * a <= c * b
OBVIOUS

\* Those that have a reservation to spend are some of the workers.
LEMMA UnstoredFinite ==
  ASSUME Counted
  PROVE  /\ IsFiniteSet(Unstored) /\ Cardinality(Unstored) \in Nat
         /\ Cardinality(Unstored) <= running /\ running \in Nat
<1>1. Unstored \subseteq Workings
  BY DEF Unstored, Workings, Active
<1> QED BY <1>1, FS_Subset, FS_CardinalityType DEF Counted

\* Nothing grows and no reservation is taken.
LEMMA BudgetShrinks ==
  ASSUME BudgetKept, LeaseTypes, LeaseTypes', Counted, Counted',
         \A r \in Reps : reps'[r].bytes <= reps[r].bytes, Unstored' \subseteq Unstored
  PROVE  BudgetKept'
<1>1. Bytes(Reps)' <= Bytes(Reps) /\ Bytes(Reps)' \in Nat /\ Bytes(Reps) \in Nat
  <2>1. Weights(Sizes, Reps) /\ Bytes(Reps) = Total(Sizes, Reps) /\ Bytes(Reps) \in Nat
    BY SizesSum
  <2>2. /\ Bytes(Reps)' = Total(Sizes', Reps)
        /\ \A r \in Reps : Sizes'[r] \in Nat /\ Sizes'[r] <= Sizes[r]
    BY DEF Bytes, Sizes, LeaseTypes
  <2>3. Weights(Sizes', Reps) /\ Total(Sizes', Reps) <= Total(Sizes, Reps)
    BY <2>1, <2>2, TotalGrows
  <2> QED BY <2>1, <2>2, <2>3, UnitsFinite
<1>2. Cardinality(Unstored') <= Cardinality(Unstored) /\ Cardinality(Unstored') \in Nat
  BY UnstoredFinite, FS_Subset, FS_CardinalityType
<1>3. /\ Reservation * Cardinality(Unstored') <= Reservation * Cardinality(Unstored)
      /\ Reservation * Cardinality(Unstored') \in Nat /\ Reservation * Cardinality(Unstored) \in Nat
  BY <1>2, UnstoredFinite, TimesGrows, CacheAssumption
<1> QED BY <1>1, <1>3, CacheAssumption DEF BudgetKept, Unstored

\* What is not in the cache has no bytes, and what was evicted none any more.
LEMMA EvictedBytes ==
  ASSUME LeaseTypes, LeaseTypes', NEW gone \in SUBSET Candidates, Evict(gone)
  PROVE  /\ Bytes(Reps)' = Bytes({r \in Reps : Present(r)} \ gone)
         /\ \A r \in Reps : reps'[r].bytes <= reps[r].bytes
<1> DEFINE left == {r \in Reps : Present(r)} \ gone
           sizes == [r \in left |-> reps[r].bytes]
<1>1. \A r \in Reps : reps'[r] = IF r \in gone THEN NoRep ELSE reps[r]
  BY DEF Evict
<1>2. \A r \in left : Sizes'[r] = sizes[r]
  BY <1>1 DEF Sizes
<1>3. \A r \in Reps \ left : Sizes'[r] = 0
  BY <1>1 DEF Sizes, Present, NoRep
<1>4. \A r \in Reps : reps'[r].bytes <= reps[r].bytes
  BY <1>1 DEF NoRep, LeaseTypes
<1>5. Bytes(Reps)' = Total(Sizes', Reps)
  BY DEF Bytes, Sizes
<1>6. Bytes(left) = Total(sizes, left)
  BY DEF Bytes
<1>7. left \subseteq Reps
  OBVIOUS
<1> HIDE DEF left, sizes
<1>8. Total(Sizes', Reps) = Total(Sizes', left)
  BY <1>3, <1>7, TotalNeglects
<1>9. Total(Sizes', left) = Total(sizes, left)
  BY <1>2, TotalAgrees
<1>10. Bytes(Reps)' = Bytes(left)
  BY <1>5, <1>6, <1>8, <1>9
<1> QED BY <1>4, <1>10 DEF left

LEMMA BudgetStep ==
  ASSUME BudgetKept, LeaseInv, LeaseInv', WorkInv, Counted, Counted', [Next]_vars
  PROVE  BudgetKept'
<1> LeaseTypes /\ LeaseTypes'
  BY DEF LeaseInv
<1> Reservation \in Nat /\ Output \in Nat /\ Output <= Reservation /\ Budget \in Nat
  BY CacheAssumption
<1>1. ASSUME UNCHANGED reps, Unstored' \subseteq Unstored PROVE BudgetKept'
  BY <1>1, BudgetShrinks DEF LeaseTypes
<1>2. ASSUME NEW r \in Reps, NEW until, reps' = Pinned(r, until), Unstored' \subseteq Unstored
      PROVE  BudgetKept'
  <2>1. \A s \in Reps : reps'[s].bytes = reps[s].bytes
    BY <1>2 DEF Pinned, LeaseTypes
  <2> QED BY <1>2, <2>1, BudgetShrinks DEF LeaseTypes
<1>3. ASSUME NEW j \in Jobs, NEW from, NEW to, Moves(j, from, to),
             to \in {"building", "waiting", "woken", "encoding"}
               => from \in {"building", "waiting", "woken", "encoding"}
      PROVE  Unstored' \subseteq Unstored
  BY <1>3 DEF Moves, Unstored, WorkInv, WorkTypes
<1>4. ASSUME NEW k \in Keys, Prepare(k) PROVE BudgetKept'
  <2>1. PICK gone \in SUBSET Candidates : Reserved(gone) /\ Evict(gone)
    BY <1>4 DEF Prepare
  <2>2. PICK j \in Jobs : worker' = [worker EXCEPT ![j] = "building"] /\ job[j] = NoJob
    BY <1>4 DEF Prepare
  <2>3. Bytes(Reps)' + running * Reservation + Reservation <= Budget
    BY <2>1, EvictedBytes DEF Reserved, Room
  <2>4. j \notin Unstored /\ Unstored' = Unstored \cup {j}
    BY <2>2 DEF Unstored, WorkInv, WorkTypes, Serves, Active, Held, NoJob
  <2>5. Cardinality(Unstored') = Cardinality(Unstored) + 1
    BY <2>4, UnstoredFinite, FS_AddElement
  <2>6. /\ Reservation * Cardinality(Unstored) <= Reservation * running
        /\ Reservation * running \in Nat /\ Reservation * Cardinality(Unstored) \in Nat
    BY UnstoredFinite, TimesGrows
  <2>7. Reservation * Cardinality(Unstored') = Reservation * Cardinality(Unstored) + Reservation
    BY <2>5, UnstoredFinite
  <2>8. running * Reservation = Reservation * running
    BY UnstoredFinite
  <2>9. Bytes(Reps)' \in Nat
    <3>1. Weights(Sizes', Reps)
      BY CacheAssumption DEF Weights, Sizes, LeaseTypes
    <3> QED BY <3>1, UnitsFinite DEF Bytes, Sizes
  <2> QED BY <2>3, <2>6, <2>7, <2>8, <2>9 DEF BudgetKept, Unstored
<1>5. ASSUME NEW k \in Keys, Refuse(k) PROVE BudgetKept'
  <2>1. Unstored' = Unstored
    BY <1>5 DEF Refuse, Unstored
  <2>2. CASE UNCHANGED reps
    BY <1>1, <2>1, <2>2
  <2>3. ASSUME NEW gone \in SUBSET Candidates, Evict(gone) PROVE BudgetKept'
    BY <2>1, <2>3, EvictedBytes, BudgetShrinks
  <2> QED BY <1>5, <2>2, <2>3 DEF Refuse
<1>6. ASSUME NEW j \in Jobs, BuildFails(j) \/ GiveUp(j) \/ EncodeFails(j) PROVE BudgetKept'
  <2>1. UNCHANGED reps /\ \E from \in {"building", "waiting", "woken", "encoding"},
                             to \in {"failed", "broken"} : Moves(j, from, to)
    BY <1>6 DEF BuildFails, GiveUp, EncodeFails, cache
  <2> QED BY <1>1, <1>3, <2>1
<1>7. ASSUME NEW j \in Jobs, Publish(j) PROVE BudgetKept'
  <2>1. PICK r \in Content[job[j].key] :
          UNCHANGED reps \/ reps' = Pinned(r, now + Hour)
    BY <1>7 DEF Publish
  <2>2. \E to \in {"ready", "waiting", "encoding"} : Moves(j, "building", to)
    BY <1>7 DEF Publish
  <2>3. Unstored' \subseteq Unstored
    BY <1>3, <2>2
  <2>4. r \in Reps
    <3>1. worker[j] = "building"
      BY <1>7 DEF Publish
    <3>2. job[j].key \in Keys
      BY <3>1 DEF WorkInv, Serves, Active
    <3> QED BY <2>1, <3>2, CacheAssumption
  <2> QED BY <1>1, <1>2, <2>1, <2>3, <2>4
<1>8. ASSUME NEW j \in Jobs, Share(j) PROVE BudgetKept'
  <2>1. UNCHANGED reps \/ reps' = Pinned(target[j], now + Hour)
    BY <1>8 DEF Share
  <2>2. \E to \in {"ready", "failed"} : Moves(j, "woken", to)
    BY <1>8 DEF Share
  <2>3. Unstored' \subseteq Unstored
    BY <1>3, <2>2
  <2>4. target[j] \in Reps
    BY <1>8 DEF Share, WorkInv, Encoder
  <2> QED BY <1>1, <1>2, <2>1, <2>3, <2>4
<1>9. ASSUME NEW j \in Jobs, Store(j) PROVE BudgetKept'
  <2> DEFINE r == target[j]
  <2>1. r \in Reps /\ worker[j] = "encoding"
    BY <1>9 DEF Store, WorkInv, Encoder, Encodes
  <2>2. PICK to \in {"published", "broken"} : Moves(j, "encoding", to)
    BY <1>9 DEF Store
  <2>3. j \in Unstored /\ Unstored' = Unstored \ {j}
    BY <2>1, <2>2 DEF Moves, Unstored, WorkInv, WorkTypes
  <2>4. CASE UNCHANGED reps
    BY <1>1, <2>3, <2>4
  <2>5. CASE \E b \in 1 .. Output : reps' = [reps EXCEPT ![r] = [pin |-> now + Hour, bytes |-> b]]
    <3> DEFINE rest == Reps \ {r}
    <3>1. PICK b \in 1 .. Output : reps' = [reps EXCEPT ![r] = [pin |-> now + Hour, bytes |-> b]]
      BY <2>5
    <3>2. Sizes'[r] = b /\ \A s \in rest : Sizes'[s] = Sizes[s]
      BY <2>1, <3>1 DEF Sizes, LeaseTypes
    <3>3. /\ Weights(Sizes, Reps) /\ Bytes(Reps) = Total(Sizes, Reps)
          /\ Weights(Sizes', Reps) /\ Bytes(Reps)' = Total(Sizes', Reps)
      <4>1. Weights(Sizes', Reps)
        BY CacheAssumption DEF Weights, Sizes, LeaseTypes
      <4>2. Bytes(Reps)' = Total(Sizes', Reps)
        BY DEF Bytes, Sizes
      <4> QED BY <4>1, <4>2, SizesSum
    <3>4. Total(Sizes', rest) = Total(Sizes, rest) /\ Reps = rest \cup {r} /\ r \notin rest
      <4>1. Total(Sizes', rest) = Total(Sizes, rest)
        BY <3>2, TotalAgrees
      <4> QED BY <2>1, <4>1
    <3> HIDE DEF rest
    <3>5. Total(Sizes', Reps) = Total(Sizes', rest) + b
      <4> DEFINE new == Sizes'
      <4>1. Weights(new, rest \cup {r}) /\ r \notin rest /\ new[r] = b
        BY <3>2, <3>3, <3>4
      <4> HIDE DEF new
      <4>2. Total(new, rest \cup {r}) = Total(new, rest) + new[r]
        BY <4>1, TotalAdds
      <4> QED BY <3>4, <4>1, <4>2 DEF new
    <3>6. Total(Sizes, rest) <= Total(Sizes, Reps) /\ Weights(Sizes, rest)
      BY <3>3, <3>4, TotalOfPart
    <3>7. Total(Sizes, rest) \in Nat /\ Total(Sizes, Reps) \in Nat
      BY <3>3, <3>6, UnitsFinite
    <3>8. Cardinality(Unstored') = Cardinality(Unstored) - 1
      BY <2>3, UnstoredFinite, FS_RemoveElement
    <3>9. Reservation * Cardinality(Unstored') = Reservation * Cardinality(Unstored) - Reservation
      BY <3>8, UnstoredFinite
    <3>10. Reservation * Cardinality(Unstored) \in Nat
      BY UnstoredFinite, TimesGrows
    <3>11. Total(Sizes, Reps) + Reservation * Cardinality(Unstored) <= Budget
      BY <3>3 DEF BudgetKept, Unstored
    <3>12. Total(Sizes', Reps) + Reservation * Cardinality(Unstored') <= Budget
      BY <3>4, <3>5, <3>6, <3>7, <3>9, <3>10, <3>11
    <3> QED BY <3>3, <3>12 DEF BudgetKept, Unstored
  <2> QED BY <1>9, <2>4, <2>5 DEF Store
<1>10. ASSUME NEW j \in Jobs, Close(j) \/ Finish(j) PROVE BudgetKept'
  <2>1. Unstored' \subseteq Unstored
    BY <1>10 DEF Close, Finish, Unstored, WorkInv, WorkTypes
  <2> QED BY <1>1, <1>10, <2>1 DEF Close, Finish, cache
<1>11. CASE Restart
  <2>1. Unstored' = {} /\ \A r \in Reps : reps'[r].bytes <= reps[r].bytes
    BY <1>11 DEF Restart, Unstored, NoRep, LeaseTypes
  <2> QED BY <2>1, BudgetShrinks
<1>12. ASSUME NEW r \in Reps, Lease(r) PROVE BudgetKept'
  <2>1. UNCHANGED reps \/ \E until \in now + 1 .. now + Long : reps' = Pinned(r, until)
    BY <1>12 DEF Lease
  <2>2. Unstored' = Unstored
    BY <1>12 DEF Lease, works, Unstored
  <2> QED BY <1>1, <1>2, <2>1, <2>2
<1>13. CASE Advance \/ UNCHANGED vars \/ (\E j \in Jobs : Cancel(j) \/ Poll(j))
            \/ \E r \in Reps : Open(r) \/ CloseReader(r)
  BY <1>1, <1>13 DEF Advance, vars, cache, works, Cancel, Poll, Open, CloseReader, Unstored
<1> QED BY <1>4, <1>5, <1>6, <1>7, <1>8, <1>9, <1>10, <1>11, <1>12, <1>13 DEF Next, Work

\* At the start: what an earlier life of the server left.
LEMMA BudgetInit ==
  ASSUME Init
  PROVE  BudgetKept
<1>1. PICK old \in SUBSET Reps :
        /\ Output * Cardinality(old) <= Budget
        /\ reps = [r \in Reps |-> IF r \in old THEN [pin |-> 0, bytes |-> Output] ELSE NoRep]
  BY DEF Init
<1>2. Output \in Nat /\ Reservation \in Nat /\ Budget \in Nat
  BY CacheAssumption
<1>3. \A r \in Reps : Sizes[r] = IF r \in old THEN Output ELSE 0
  BY <1>1 DEF Sizes, NoRep
<1>4. ASSUME NEW u PROVE u \in Units(Sizes, Reps) <=> u \in old \X (1 .. Output)
  <2>1. ASSUME NEW r \in Reps, NEW i \in 1 .. Sizes[r] PROVE r \in old /\ i \in 1 .. Output
    BY <1>2, <1>3, <2>1
  <2> QED BY <1>3, <2>1, UnitMember
<1>5. Units(Sizes, Reps) = old \X (1 .. Output)
  BY <1>4
<1>6. IsFiniteSet(old) /\ Cardinality(old) \in Nat
  BY <1>1, CacheAssumption, FS_Subset, FS_CardinalityType
<1>7. IsFiniteSet(1 .. Output) /\ Cardinality(1 .. Output) = Output
  <2>1. IsFiniteSet(1 .. Output) /\ Cardinality(1 .. Output) = IF 1 > Output THEN 0 ELSE Output - 1 + 1
    BY <1>2, FS_Interval
  <2> QED BY <1>2, <2>1
<1>8. Cardinality(old \X (1 .. Output)) = Cardinality(old) * Cardinality(1 .. Output)
  BY <1>6, <1>7, FS_Product, Zenon
<1>9. Bytes(Reps) = Cardinality(old) * Output
  BY <1>5, <1>7, <1>8 DEF Bytes, Total, Units, Sizes
<1>10. Cardinality(old) * Output = Output * Cardinality(old)
  BY <1>2, <1>6
<1>11. Unstored = {}
  BY DEF Init, Unstored
<1>12. Reservation * 0 = 0
  BY <1>2
<1>13. Output * Cardinality(old) \in Nat
  BY <1>2, <1>6, TimesGrows
<1>14. Cardinality({}) = 0
  BY FS_EmptySet
<1>15. Bytes(Reps) + Reservation * Cardinality(Unstored) <= Budget
  BY <1>1, <1>2, <1>9, <1>10, <1>11, <1>12, <1>13, <1>14
<1> QED BY <1>15 DEF BudgetKept, Unstored

LEMMA CountedHolds == Spec => []Counted
<1>1. Init => Counted
  <2>1. ASSUME Init PROVE Counted
    <3>1. Workings = {} /\ running = 0
      BY <2>1 DEF Init, Workings, Active
    <3> QED BY <3>1, FS_EmptySet, CacheAssumption DEF Counted
  <2> QED BY <2>1
<1> QED BY <1>1, CountedStep, WorkHolds, PTL DEF Spec

\* The disk budget holds for any number of workers, representations and restarts: a worker
\* is admitted only beside the reservations of all others, and what it stores is no larger
\* than the reservation it gives up (podReserve, podPublish and initPod).
THEOREM BudgetHolds == Spec => []BudgetKept
<1>1. Init => BudgetKept
  BY BudgetInit
<1>2. BudgetKept /\ LeaseInv /\ LeaseInv' /\ WorkInv /\ Counted /\ Counted' /\ [Next]_vars
        => BudgetKept'
  BY BudgetStep
<1> QED BY <1>1, <1>2, LeaseHolds, WorkHolds, CountedHolds, PTL DEF Spec

-----------------------------------------------------------------------------
(* Types and bounds                                                         *)

RepBounds == \A r \in Reps : reps[r].pin <= MaxTime + Long /\ reps[r].bytes <= Output
                             /\ lease[r] <= MaxTime + Long
\* A preparation ends an hour after it began, and a ready one names its representation.
JobBounds == \A j \in Jobs : /\ job[j].expires <= MaxTime + Hour
                             /\ job[j].state = "ready" => job[j].rep \in Reps
Bounds ==
  /\ now <= MaxTime /\ faults \in 0 .. MaxFaults /\ polling \subseteq Reps
  /\ readers \in [Reps -> Nat] /\ RepBounds /\ JobBounds

LEMMA PinBounds ==
  ASSUME LeaseInv, RepBounds, NEW r \in Reps, NEW until \in Nat, until <= MaxTime + Long,
         reps' = Pinned(r, until)
  PROVE  \A s \in Reps : reps'[s].pin <= MaxTime + Long /\ reps'[s].bytes <= Output
BY DEF Pinned, Later, RepBounds, LeaseInv, LeaseTypes

LEMMA BoundsStep ==
  ASSUME Bounds, LeaseInv, WorkInv, [Next]_vars
  PROVE  Bounds'
<1> /\ MaxTime \in Nat /\ MaxFaults \in Nat /\ Long \in Nat /\ Hour \in Nat /\ Hour <= Long
    /\ Output \in Nat
  BY CacheAssumption
<1>1. (UNCHANGED faults \/ Fault) => faults' \in 0 .. MaxFaults
  BY DEF Bounds, Fault
<1>2. (UNCHANGED <<reps, lease>>) => RepBounds'
  BY DEF Bounds, RepBounds
<1>3. (UNCHANGED job) => JobBounds'
  BY DEF Bounds, JobBounds
<1>4. ASSUME NEW gone \in SUBSET Candidates, Evict(gone), UNCHANGED lease PROVE RepBounds'
  BY <1>4 DEF Evict, NoRep, Bounds, RepBounds
<1>5. ASSUME NEW r \in Reps, reps' = Pinned(r, now + Hour), UNCHANGED lease PROVE RepBounds'
  <2>1. now + Hour \in Nat /\ now + Hour <= MaxTime + Long
    BY DEF Bounds, LeaseInv, LeaseTypes
  <2> QED BY <1>5, <2>1, PinBounds DEF Bounds, RepBounds
<1>6. \A j \in Jobs : /\ Unexpired[j].expires <= MaxTime + Hour
                      /\ Unexpired[j].state = "ready" => Unexpired[j].rep \in Reps
  BY DEF Unexpired, Gone, NoJob, Bounds, JobBounds
<1>7. ASSUME NEW k \in Keys, Prepare(k) PROVE Bounds'
  <2>1. /\ RepBounds'
        /\ UNCHANGED <<now, readers, polling, faults>>
    BY <1>4, <1>7 DEF Prepare
  <2>2. PICK j \in Jobs :
          job' = [Unexpired EXCEPT ![j] = [state |-> "preparing", key |-> k,
                                           expires |-> now + Hour, rep |-> "none"]]
    BY <1>7 DEF Prepare
  <2>3. JobBounds'
    BY <1>6, <2>2, UnexpiredJobs DEF JobBounds, Bounds, WorkInv, WorkTypes
  <2> QED BY <2>1, <2>3 DEF Bounds
<1>8. ASSUME NEW k \in Keys, Refuse(k) PROVE Bounds'
  <2>1. job' = Unexpired /\ UNCHANGED <<now, lease, readers, polling>>
        /\ (UNCHANGED faults \/ Fault)
        /\ (UNCHANGED reps \/ \E gone \in SUBSET Candidates : Evict(gone))
    BY <1>8 DEF Refuse
  <2>2. JobBounds'
    BY <1>6, <2>1 DEF JobBounds
  <2>3. RepBounds'
    BY <1>2, <1>4, <2>1
  <2> QED BY <1>1, <2>1, <2>2, <2>3 DEF Bounds
<1>9. ASSUME NEW j \in Jobs, BuildFails(j) \/ GiveUp(j) \/ EncodeFails(j) \/ Close(j) PROVE Bounds'
  <2>1. UNCHANGED <<now, reps, lease, readers, job, polling, faults>>
    BY <1>9 DEF BuildFails, GiveUp, EncodeFails, Close, cache
  <2> QED BY <1>1, <1>2, <1>3, <2>1 DEF Bounds
<1>10. ASSUME NEW j \in Jobs, Publish(j) PROVE Bounds'
  <2>1. PICK r \in Content[job[j].key] : UNCHANGED reps \/ reps' = Pinned(r, now + Hour)
    BY <1>10 DEF Publish
  <2>2. r \in Reps
    <3>1. job[j].key \in Keys
      BY <1>10 DEF Publish, WorkInv, Serves, Active
    <3> QED BY <2>1, <3>1, CacheAssumption
  <2>3. UNCHANGED <<now, lease, readers, job, polling>> /\ (UNCHANGED faults \/ Fault)
    BY <1>10 DEF Publish
  <2> QED BY <1>1, <1>2, <1>3, <1>5, <2>1, <2>2, <2>3 DEF Bounds
<1>11. ASSUME NEW j \in Jobs, Share(j) PROVE Bounds'
  <2>1. /\ UNCHANGED reps \/ reps' = Pinned(target[j], now + Hour)
        /\ UNCHANGED <<now, lease, readers, job, polling>> /\ (UNCHANGED faults \/ Fault)
    BY <1>11 DEF Share
  <2>2. target[j] \in Reps
    BY <1>11 DEF Share, WorkInv, Encoder
  <2> QED BY <1>1, <1>2, <1>3, <1>5, <2>1, <2>2 DEF Bounds
<1>12. ASSUME NEW j \in Jobs, Store(j) PROVE Bounds'
  <2>1. /\ UNCHANGED <<now, lease, readers, job, polling>> /\ (UNCHANGED faults \/ Fault)
        /\ UNCHANGED reps \/ \E b \in 1 .. Output :
             reps' = [reps EXCEPT ![target[j]] = [pin |-> now + Hour, bytes |-> b]]
    BY <1>12 DEF Store
  <2>2. RepBounds'
    <3>1. ASSUME NEW b \in 1 .. Output,
                 reps' = [reps EXCEPT ![target[j]] = [pin |-> now + Hour, bytes |-> b]]
          PROVE  RepBounds'
      BY <2>1, <3>1 DEF Bounds, RepBounds, LeaseInv, LeaseTypes
    <3> QED BY <1>2, <2>1, <3>1
  <2> QED BY <1>1, <1>3, <2>1, <2>2 DEF Bounds
<1>13. ASSUME NEW j \in Jobs, Finish(j) PROVE Bounds'
  <2>1. /\ worker[j] \in {"ready", "failed"}
        /\ job' = [job EXCEPT ![j] = IF @.state = "cancelled" THEN @
                               ELSE [@ EXCEPT !.state = worker[j],
                                       !.rep = IF worker[j] = "ready" THEN target[j] ELSE "none"]]
        /\ UNCHANGED <<now, reps, lease, readers, polling, faults>>
    BY <1>13 DEF Finish, Ended, cache
  <2>2. worker[j] = "ready" => target[j] \in Reps
    BY DEF WorkInv, Encoder
  <2>3. JobBounds'
    BY <2>1, <2>2 DEF JobBounds, Bounds, WorkInv, WorkTypes, JobRecords
  <2> QED BY <1>1, <1>2, <2>1, <2>3 DEF Bounds
<1>14. ASSUME NEW j \in Jobs, Cancel(j) PROVE Bounds'
  <2>1. /\ job' = [job EXCEPT ![j].state = "cancelled"]
        /\ UNCHANGED <<now, reps, lease, readers, polling, faults>>
    BY <1>14 DEF Cancel, Cancelled, cache
  <2>2. JobBounds'
    BY <2>1 DEF JobBounds, Bounds, WorkInv, WorkTypes, JobRecords
  <2> QED BY <1>1, <1>2, <2>1, <2>2 DEF Bounds
<1>15. ASSUME NEW j \in Jobs, Poll(j) PROVE Bounds'
  <2>1. /\ polling' = polling \cup {job[j].rep} /\ job[j].state = "ready"
        /\ UNCHANGED <<now, reps, lease, readers, job, faults>>
    BY <1>15 DEF Poll, cache, works
  <2> QED BY <1>1, <1>2, <1>3, <2>1 DEF Bounds, JobBounds
<1>16. ASSUME NEW r \in Reps, Lease(r) PROVE Bounds'
  <2>1. PICK until \in now + 1 .. now + Long :
          \/ reps' = Pinned(r, until) /\ (lease' = [lease EXCEPT ![r] = Later(@, until)] \/ UNCHANGED lease)
          \/ UNCHANGED <<reps, lease>>
    BY <1>16 DEF Lease
  <2>2. /\ UNCHANGED <<now, readers, job>> /\ (UNCHANGED faults \/ Fault) /\ polling' \subseteq polling
    BY <1>16 DEF Lease, works
  <2>3. until \in Nat /\ until <= MaxTime + Long
    BY DEF Bounds, LeaseInv, LeaseTypes
  <2>4. RepBounds'
    <3>1. CASE reps' = Pinned(r, until)
               /\ (lease' = [lease EXCEPT ![r] = Later(@, until)] \/ UNCHANGED lease)
      <4>1. \A s \in Reps : reps'[s].pin <= MaxTime + Long /\ reps'[s].bytes <= Output
        BY <2>3, <3>1, PinBounds DEF Bounds
      <4>2. \A s \in Reps : lease'[s] <= MaxTime + Long
        BY <2>3, <3>1 DEF Later, Bounds, RepBounds, LeaseInv, LeaseTypes
      <4> QED BY <4>1, <4>2 DEF RepBounds
    <3> QED BY <1>2, <2>1, <3>1
  <2> QED BY <1>1, <1>3, <2>2, <2>4 DEF Bounds
<1>17. ASSUME NEW r \in Reps, Open(r) \/ CloseReader(r) PROVE Bounds'
  <2>1. UNCHANGED <<now, reps, lease, job, polling, faults>>
    BY <1>17 DEF Open, CloseReader, works
  <2>2. readers' \in [Reps -> Nat]
    BY <1>17 DEF Open, CloseReader, Bounds
  <2> QED BY <1>1, <1>2, <1>3, <2>1, <2>2 DEF Bounds
<1>18. CASE Advance
  <2>1. now' = now + 1 /\ now < MaxTime /\ UNCHANGED <<reps, lease, readers, job, polling, faults>>
    BY <1>18 DEF Advance, cache, works
  <2>2. now' <= MaxTime
    BY <2>1 DEF LeaseInv, LeaseTypes
  <2> QED BY <1>1, <1>2, <1>3, <2>1, <2>2 DEF Bounds
<1>19. CASE Restart
  <2>1. /\ Fault /\ reps' = [r \in Reps |-> IF r \in files THEN reps[r] ELSE NoRep]
        /\ readers' = [r \in Reps |-> 0] /\ polling' = {} /\ UNCHANGED <<now, lease>>
        /\ job' = [j \in Jobs |-> IF job[j] = NoJob THEN NoJob ELSE Gone]
    BY <1>19 DEF Restart
  <2>2. RepBounds'
    BY <2>1 DEF NoRep, Bounds, RepBounds
  <2>3. JobBounds'
    BY <2>1 DEF Gone, NoJob, Bounds, JobBounds
  <2> QED BY <1>1, <2>1, <2>2, <2>3 DEF Bounds
<1>20. CASE UNCHANGED vars
  BY <1>2, <1>3, <1>20 DEF Bounds, vars, cache, works
<1> QED BY <1>7, <1>8, <1>9, <1>10, <1>11, <1>12, <1>13, <1>14, <1>15, <1>16, <1>17, <1>18,
           <1>19, <1>20 DEF Next, Work

\* Every value the cache keeps has its type and its bound: among them that no more than
\* podWorkers workers run (podPrepare), that no representation is larger than the output
\* limit (podPublish), and that nothing stays pinned beyond the longest lease (podLease).
THEOREM CacheTypes == Spec => []TypeOK
<1>1. Init => Bounds
  <2>1. ASSUME Init PROVE Bounds
    <3>1. PICK old \in SUBSET Reps :
            reps = [r \in Reps |-> IF r \in old THEN [pin |-> 0, bytes |-> Output] ELSE NoRep]
      BY <2>1 DEF Init
    <3>2. RepBounds
      BY <2>1, <3>1, CacheAssumption DEF Init, NoRep, RepBounds
    <3>3. JobBounds
      BY <2>1, CacheAssumption DEF Init, NoJob, JobBounds
    <3> QED BY <2>1, <3>2, <3>3, CacheAssumption DEF Init, Bounds
  <2> QED BY <2>1
<1>2. ASSUME Bounds, LeaseInv, WorkInv, Counted PROVE TypeOK
  <2> MaxTime \in Nat /\ Long \in Nat /\ Hour \in Nat /\ Output \in Nat
    BY CacheAssumption
  <2>1. reps \in [Reps -> [pin : 0 .. MaxTime + Long, bytes : 0 .. Output]]
    BY <1>2 DEF Bounds, RepBounds, LeaseInv, LeaseTypes
  <2>2. lease \in [Reps -> 0 .. MaxTime + Long]
    BY <1>2 DEF Bounds, RepBounds, LeaseInv, LeaseTypes
  <2>3. job \in [Jobs -> [state : {"none", "gone", "preparing", "ready", "failed", "cancelled"},
                          key : Keys \cup {"none"}, expires : 0 .. MaxTime + Hour,
                          rep : Reps \cup {"none"}]]
    BY <1>2 DEF Bounds, JobBounds, WorkInv, WorkTypes, JobRecords
  <2>4. running \in 0 .. Workers
    BY <1>2, FS_CardinalityType, CacheAssumption DEF Counted
  <2> QED BY <1>2, <2>1, <2>2, <2>3, <2>4
             DEF TypeOK, Bounds, LeaseInv, LeaseTypes, WorkInv, WorkTypes
<1> QED BY <1>1, <1>2, BoundsStep, LeaseHolds, WorkHolds, CountedHolds, PTL DEF Spec
=============================================================================

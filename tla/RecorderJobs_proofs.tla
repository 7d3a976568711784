------------------------- MODULE RecorderJobs_proofs -------------------------
(***************************************************************************)
(* Proofs about RecorderJobs for every number of schedules, sessions,       *)
(* requests and faults: type correctness, honest outcomes, no active        *)
(* schedule without its occurrence, no occurrence fired twice, and the      *)
(* streams in use and those still to come within the limit.                 *)
(***************************************************************************)
EXTENDS RecorderJobs, FiniteSetTheorems, WellFoundedInduction, TLAPS

-----------------------------------------------------------------------------
(* Helpers                                                                  *)

\* A nonempty set of instants has a least member: Min is well defined.
LEMMA MinInSet ==
  ASSUME NEW S \in SUBSET Nat, S # {}
  PROVE  Min(S) \in S /\ \A t \in S : Min(S) <= t
<1>1. IsWellFoundedOn(OpToRel(<, Nat), Nat)
  BY NatLessThanWellFounded
<1>2. PICK m \in S : \A t \in S : <<t, m>> \notin OpToRel(<, Nat)
  BY <1>1, WFMin
<1>3. \A t \in S : ~(t < m)
  BY <1>2 DEF OpToRel
<1>4. \A t \in S : m <= t
  BY <1>3
<1> QED BY <1>4 DEF Min

\* A finite set has a member with nothing above it in a strict order.
LEMMA FiniteTop ==
  ASSUME NEW L, IsFiniteSet(L), L # {}, NEW R,
         \A x \in L : <<x, x>> \notin R,
         \A x, y, z \in L : <<x, y>> \in R /\ <<y, z>> \in R => <<x, z>> \in R
  PROVE  \E m \in L : \A x \in L : <<m, x>> \notin R
<1> DEFINE above == [m \in L |-> {x \in L : <<m, x>> \in R}]
           T == {above[m] : m \in L}
<1>1. T # {} /\ T \subseteq FiniteSubsetsOf(L)
  <2>1. FiniteSubsetsOf(L) = SUBSET L
    BY FS_FiniteSubsetsOfFinite
  <2>2. \A m \in L : above[m] \in SUBSET L
    OBVIOUS
  <2> HIDE DEF above
  <2> QED BY <2>1, <2>2
<1>2. PICK U \in T : \A V \in T : <<V, U>> \notin StrictSubsetOrdering(L)
  BY <1>1, FS_StrictSubsetOrderingWellFounded, WFMin
<1>3. PICK m \in L : U = above[m]
  OBVIOUS
<1>4. ASSUME NEW x \in L, <<m, x>> \in R PROVE FALSE
  <2>1. x \in U /\ x \notin above[x] /\ above[x] \subseteq U
    BY <1>3, <1>4
  <2>2. <<above[x], U>> \in StrictSubsetOrdering(L)
    BY <1>3, <2>1 DEF StrictSubsetOrdering
  <2> QED BY <1>2, <2>2
<1> QED BY <1>4

\* A finite nonempty set of instants has a greatest one.
LEMMA LastInstant ==
  ASSUME NEW S \in SUBSET Nat, IsFiniteSet(S), S # {}
  PROVE  \E m \in S : \A t \in S : t <= m
<1> DEFINE R == {p \in Nat \X Nat : p[1] < p[2]}
<1>1. \A x, y \in S : <<x, y>> \in R <=> x < y
  OBVIOUS
<1>2. /\ \A x \in S : <<x, x>> \notin R
      /\ \A x, y, z \in S : <<x, y>> \in R /\ <<y, z>> \in R => <<x, z>> \in R
  BY <1>1
<1> HIDE DEF R
<1>3. PICK m \in S : \A x \in S : <<m, x>> \notin R
  BY <1>2, FiniteTop
<1>4. \A x \in S : ~(m < x)
  BY <1>1, <1>3
<1> QED BY <1>4

\* A recurrence's later starts come strictly after the current one.
LEMMA LaterStarts ==
  ASSUME NEW s \in Schedules, TypeOK, Later(s) # {}
  PROVE  Min(Later(s)) \in Time /\ Min(Later(s)) > sched[s].next
<1>1. Later(s) \subseteq {t \in Time : t > sched[s].next}
  BY ConstantsOK DEF Later, WindowStarts, TypeOK, Sched, Rule
<1>2. Later(s) \in SUBSET Nat
  BY <1>1, ConstantsOK DEF Time
<1>3. Min(Later(s)) \in Later(s)
  BY <1>2, MinInSet
<1> QED BY <1>1, <1>3

\* The start of a saved schedule is one of its rule's, hence an instant.
LEMMA WindowStartTyped ==
  ASSUME NEW r \in Rules, NEW after \in Time, WindowStarts(r, after) # {}
  PROVE  Min(WindowStarts(r, after)) \in Time
<1>1. WindowStarts(r, after) \subseteq Time
  BY ConstantsOK DEF WindowStarts, Rule
<1> QED BY <1>1, MinInSet, ConstantsOK DEF Time

LEMMA SchedTyped ==
  ASSUME TypeOK, NEW s \in Schedules
  PROVE  /\ sched[s] \in Sched /\ sched[s].rule \in Rule /\ sched[s].rule.len \in Nat
         /\ sched[s].count \in 0 .. MaxStreams
<1>1. sched[s] \in Sched
  BY DEF TypeOK
<1>2. sched[s].rule \in Rules /\ sched[s].count \in Counts
  BY <1>1 DEF Sched
<1>3. sched[s].rule \in Rule /\ sched[s].count \in 1 .. MaxStreams
  BY <1>2, ConstantsOK
<1> QED BY <1>1, <1>3, ConstantsOK DEF Rule

LEMMA StartTyped ==
  ASSUME TypeOK, NEW j \in JobIds
  PROVE  Start(j) \in Nat /\ now \in Nat
BY ConstantsOK DEF Start, JobIds, Time, TypeOK

LEMMA NewJobTyped ==
  ASSUME NEW len \in Nat, NEW count \in 0 .. MaxStreams
  PROVE  NewJob(len, count) \in Job
BY DEF NewJob, Job, JobStates

-----------------------------------------------------------------------------
(* What one tick may do to a job record: nothing but a tombstone, mark it    *)
(* missed, or put a fresh occurrence of an advancing schedule in its place.  *)

SameWindow(j) ==
  /\ job'[j].started = job[j].started /\ job'[j].stopped = job[j].stopped
  /\ job'[j].len = job[j].len /\ job'[j].count = job[j].count
SameRecord(j) == job'[j].state = job[j].state /\ SameWindow(j)
NowMissed(j) ==
  /\ job[j].state = "scheduled" /\ job'[j].state = "missed" /\ SameWindow(j)
  /\ Start(j) <= now /\ worker[j] = "none"
NewOccurrence(j) ==
  /\ Owner(j) \in Ready /\ Later(Owner(j)) # {} /\ Start(j) = Min(Later(Owner(j)))
  /\ sched'[Owner(j)] = [sched[Owner(j)] EXCEPT !.next = Start(j)]
  /\ job'[j].len = sched[Owner(j)].rule.len /\ job'[j].count = sched[Owner(j)].count
  /\ job'[j].state \in {"scheduled", "failed", "missed"}
  /\ job'[j].state = "missed" => Start(j) <= now
  /\ ~job'[j].started /\ ~job'[j].stopped

LEMMA TickJobs ==
  ASSUME TypeOK, Tick, NEW j \in JobIds
  PROVE  job'[j] \in Job /\ (SameRecord(j) \/ NowMissed(j) \/ NewOccurrence(j))
<1>1. PICK out \in [Ready -> {"ok", "invalid", "unsaved"}] :
        /\ sched' = [s \in Schedules |-> Advanced(s, out)]
        /\ job'[j] = IF Expired(JobsMissed(JobsAdvanced(out)), j)
                     THEN [JobsMissed(JobsAdvanced(out))[j] EXCEPT !.tomb = TRUE]
                     ELSE JobsMissed(JobsAdvanced(out))[j]
  BY DEF Tick
<1> DEFINE ja == JobsAdvanced(out)[j]
           jm == JobsMissed(JobsAdvanced(out))[j]
<1>2. CASE \E s \in Ready : Later(s) # {} /\ out[s] # "unsaved" /\ j = <<s, Min(Later(s))>>
  <2>1. PICK s \in Ready : Later(s) # {} /\ out[s] # "unsaved" /\ j = <<s, Min(Later(s))>>
    BY <1>2
  <2>2. ja = Occurrence(s, out)
    BY <1>2, <2>1 DEF JobsAdvanced, Owner
  <2>3. s \in Schedules /\ sched[s].rule.len \in Nat /\ sched[s].count \in 0 .. MaxStreams
    BY SchedTyped DEF Ready
  <2>4. /\ ja \in Job /\ ~ja.started /\ ~ja.stopped
        /\ ja.state \in {"scheduled", "failed", "missed"}
        /\ ja.state = "missed" => Start(j) + ja.len < now
        /\ ja.len = sched[s].rule.len /\ ja.count = sched[s].count
    BY <2>1, <2>2, <2>3 DEF Occurrence, NewJob, Job, JobStates, Final, Start, Rule
  <2>5. \/ jm = ja
        \/ Start(j) + ja.len <= now /\ jm = [ja EXCEPT !.state = "missed"]
    BY DEF JobsMissed
  <2>6. Start(j) \in Nat /\ now \in Nat /\ ja.len \in Nat
    BY <2>4, StartTyped DEF Job
  <2>7. /\ jm \in Job /\ ~jm.started /\ ~jm.stopped
        /\ jm.state \in {"scheduled", "failed", "missed"}
        /\ jm.state = "missed" => Start(j) <= now
        /\ jm.len = ja.len /\ jm.count = ja.count
    BY <2>4, <2>5, <2>6 DEF Job, JobStates, Final
  <2>8. /\ job'[j] \in Job /\ job'[j].state = jm.state
        /\ job'[j].started = jm.started /\ job'[j].stopped = jm.stopped
        /\ job'[j].len = jm.len /\ job'[j].count = jm.count
    BY <1>1, <2>7 DEF Job
  <2>9. sched'[s] = [sched[s] EXCEPT !.next = Min(Later(s))]
    BY <1>1, <2>1, <2>3, SchedTyped DEF Advanced, Sched
  <2> QED BY <2>1, <2>4, <2>7, <2>8, <2>9 DEF NewOccurrence, Start, Owner
<1>3. CASE ~(\E s \in Ready : Later(s) # {} /\ out[s] # "unsaved" /\ j = <<s, Min(Later(s))>>)
  <2>1. ja = job[j] /\ job[j] \in Job
    BY <1>3 DEF JobsAdvanced, TypeOK
  <2>2. \/ jm = job[j]
        \/ /\ job[j].state = "scheduled" /\ jm = [job[j] EXCEPT !.state = "missed"]
           /\ Start(j) + job[j].len <= now /\ worker[j] = "none"
    BY <2>1 DEF JobsMissed
  <2>3. Start(j) \in Nat /\ now \in Nat /\ job[j].len \in Nat
    BY <2>1, StartTyped DEF Job
  <2>4. /\ jm \in Job /\ jm.started = job[j].started /\ jm.stopped = job[j].stopped
        /\ jm.len = job[j].len /\ jm.count = job[j].count
        /\ \/ jm.state = job[j].state
           \/ /\ job[j].state = "scheduled" /\ jm.state = "missed"
              /\ Start(j) <= now /\ worker[j] = "none"
    BY <2>1, <2>2, <2>3 DEF Job, JobStates, Final
  <2>5. /\ job'[j] \in Job /\ job'[j].state = jm.state
        /\ job'[j].started = jm.started /\ job'[j].stopped = jm.stopped
        /\ job'[j].len = jm.len /\ job'[j].count = jm.count
    BY <1>1, <2>4 DEF Job
  <2> QED BY <2>4, <2>5 DEF SameRecord, NowMissed, SameWindow
<1> QED BY <1>2, <1>3

\* A tick leaves a worker alone or launches one for a job that is due.
LEMMA TickWorkers ==
  ASSUME TypeOK, Tick, NEW j \in JobIds
  PROVE  \/ worker'[j] = worker[j]
         \/ /\ worker[j] = "none" /\ worker'[j] = "launched"
            /\ \/ job'[j].state \in {"recording", "finalizing"}
               \/ job'[j].state = "scheduled" /\ Start(j) <= now
<1>1. PICK out \in [Ready -> {"ok", "invalid", "unsaved"}] :
        LET jb == JobsMissed(JobsAdvanced(out)) IN
        /\ job' = [k \in JobIds |-> IF Expired(jb, k) THEN [jb[k] EXCEPT !.tomb = TRUE]
                                                       ELSE jb[k]]
        /\ \E L \in SUBSET Startable(jb) :
             worker' = [k \in JobIds |-> IF k \in L THEN "launched" ELSE worker[k]]
  BY DEF Tick
<1> DEFINE jb == JobsMissed(JobsAdvanced(out))
<1>2. PICK L \in SUBSET Startable(jb) :
        worker' = [k \in JobIds |-> IF k \in L THEN "launched" ELSE worker[k]]
  BY <1>1
<1>3. CASE j \notin L
  BY <1>2, <1>3
<1>4. CASE j \in L
  <2>1. j \in Startable(jb)
    BY <1>4
  <2>2. jb[j].state \notin Final
    BY <2>1 DEF Startable, Final
  <2>3. job'[j] = jb[j]
    BY <1>1, <2>2 DEF Expired
  <2> QED BY <1>2, <1>4, <2>1, <2>3 DEF Startable
<1> QED BY <1>3, <1>4

\* A schedule is left alone, finished, or moved on to its next occurrence.
LEMMA TickSchedules ==
  ASSUME TypeOK, Tick, NEW s \in Schedules
  PROVE  /\ sched'[s] \in Sched
         /\ \/ sched'[s] = sched[s]
            \/ sched'[s].state = "finished"
            \/ /\ s \in Ready /\ Later(s) # {}
               /\ sched'[s].state = sched[s].state /\ sched'[s].next = Min(Later(s))
               /\ <<s, Min(Later(s))>> \in JobIds
               /\ job'[<<s, Min(Later(s))>>].state # "none"
<1>1. PICK out \in [Ready -> {"ok", "invalid", "unsaved"}] :
        /\ sched' = [z \in Schedules |-> Advanced(z, out)]
        /\ job' = [k \in JobIds |->
             IF Expired(JobsMissed(JobsAdvanced(out)), k)
             THEN [JobsMissed(JobsAdvanced(out))[k] EXCEPT !.tomb = TRUE]
             ELSE JobsMissed(JobsAdvanced(out))[k]]
  BY DEF Tick
<1>2. sched'[s] = Advanced(s, out) /\ sched[s] \in Sched
  BY <1>1 DEF TypeOK
<1>3. CASE s \notin Ready \/ out[s] = "unsaved"
  BY <1>2, <1>3 DEF Advanced
<1>4. CASE s \in Ready /\ out[s] # "unsaved" /\ Later(s) = {}
  BY <1>2, <1>4 DEF Advanced, Sched
<1>5. CASE s \in Ready /\ out[s] # "unsaved" /\ Later(s) # {}
  <2> DEFINE j == <<s, Min(Later(s))>>
  <2>1. Min(Later(s)) \in Time
    BY <1>5, LaterStarts
  <2>2. j \in JobIds
    BY <2>1 DEF JobIds
  <2>3. JobsAdvanced(out)[j] = Occurrence(s, out)
    BY <1>5, <2>2 DEF JobsAdvanced, Owner
  <2>4. Occurrence(s, out).state \in {"scheduled", "failed", "missed"}
    BY DEF Occurrence, NewJob
  <2>5. JobsMissed(JobsAdvanced(out))[j].state \in {"scheduled", "failed", "missed"}
    BY <2>2, <2>3, <2>4 DEF JobsMissed, Occurrence, NewJob
  <2>6. job'[j].state # "none"
    BY <1>1, <2>2, <2>3, <2>4, <2>5 DEF JobsMissed, Occurrence, NewJob
  <2> QED BY <1>2, <1>5, <2>1, <2>2, <2>6 DEF Advanced, Sched
<1> QED BY <1>3, <1>4, <1>5

-----------------------------------------------------------------------------
(* Sums.  Total(n, S) counts the units of S, n[x] of them for each x.       *)

Units(n, S) == UNION {{x} \X (1 .. n[x]) : x \in S}
Weights(n, S) == IsFiniteSet(S) /\ \A x \in S : n[x] \in Nat

LEMMA UnitMember ==
  ASSUME NEW S, NEW n, NEW u
  PROVE  u \in Units(n, S) <=> \E x \in S : \E i \in 1 .. n[x] : u = <<x, i>>
BY DEF Units

\* The units of one element.
LEMMA OneUnits ==
  ASSUME NEW x, NEW k \in Nat
  PROVE  IsFiniteSet({x} \X (1 .. k)) /\ Cardinality({x} \X (1 .. k)) = k
<1>1. IsFiniteSet({x}) /\ Cardinality({x}) = 1
  BY FS_Singleton
<1>2. IsFiniteSet(1 .. k) /\ Cardinality(1 .. k) = k
  <2>1. IsFiniteSet(1 .. k) /\ Cardinality(1 .. k) = IF 1 > k THEN 0 ELSE k - 1 + 1
    BY FS_Interval
  <2> QED BY <2>1
<1>3. /\ IsFiniteSet({x} \X (1 .. k))
      /\ Cardinality({x} \X (1 .. k)) = Cardinality({x}) * Cardinality(1 .. k)
  BY <1>1, <1>2, FS_Product, Zenon
<1> QED BY <1>1, <1>2, <1>3

LEMMA UnitsFinite ==
  ASSUME NEW S, NEW n, Weights(n, S)
  PROVE  IsFiniteSet(Units(n, S)) /\ Total(n, S) \in Nat
<1> DEFINE f == [x \in S |-> {x} \X (1 .. n[x])]
           T == {f[x] : x \in S}
<1>1. f \in Surjection(S, T)
  BY DEF Surjection
<1>2. IsFiniteSet(T)
  BY <1>1, FS_Surjection DEF Weights
<1>3. \A p \in T : IsFiniteSet(p)
  <2>1. ASSUME NEW x \in S PROVE IsFiniteSet({x} \X (1 .. n[x]))
    BY OneUnits DEF Weights
  <2> QED BY <2>1
<1>4. IsFiniteSet(UNION T)
  BY <1>2, <1>3, FS_UNION
<1>5. UNION T = Units(n, S)
  BY DEF Units
<1> QED BY <1>4, <1>5, FS_CardinalityType DEF Units, Total

\* A part of a sum is no greater than the sum.
LEMMA TotalOfPart ==
  ASSUME NEW S, NEW n, Weights(n, S), NEW R \in SUBSET S
  PROVE  Weights(n, R) /\ Total(n, R) <= Total(n, S)
<1>1. Weights(n, R)
  BY FS_Subset DEF Weights
<1>2. Units(n, R) \subseteq Units(n, S)
  BY DEF Units
<1> QED BY <1>1, <1>2, UnitsFinite, FS_Subset DEF Units, Total

\* Sums over S of weights that agree there are the same.
LEMMA TotalAgrees ==
  ASSUME NEW S, NEW n, NEW m, \A x \in S : n[x] = m[x]
  PROVE  Total(n, S) = Total(m, S)
<1>1. \A u : u \in Units(n, S) <=> u \in Units(m, S)
  BY UnitMember
<1>2. Units(n, S) = Units(m, S)
  BY <1>1
<1> QED BY <1>2 DEF Units, Total

\* One more summand.
LEMMA TotalAdds ==
  ASSUME NEW S, NEW x, x \notin S, NEW n, Weights(n, S \cup {x})
  PROVE  Total(n, S \cup {x}) = Total(n, S) + n[x]
<1> DEFINE part == {x} \X (1 .. n[x])
<1>1. n[x] \in Nat /\ Weights(n, S)
  BY TotalOfPart DEF Weights
<1>2. IsFiniteSet(part) /\ Cardinality(part) = n[x]
  BY <1>1, OneUnits
<1>3. Units(n, S \cup {x}) = Units(n, S) \cup part /\ Units(n, S) \cap part = {}
  <2>1. ASSUME NEW u PROVE u \in Units(n, S \cup {x}) <=> u \in Units(n, S) \cup part
    BY UnitMember
  <2>2. ASSUME NEW u PROVE u \notin Units(n, S) \cap part
    BY UnitMember
  <2> QED BY <2>1, <2>2
<1>4. Cardinality(Units(n, S) \cup part) = Cardinality(Units(n, S)) + n[x] - 0
  BY <1>1, <1>2, <1>3, UnitsFinite, FS_Union, FS_EmptySet
<1> QED BY <1>1, <1>3, <1>4, UnitsFinite DEF Total, Units

\* What can be put injectively, with its weights, into T sums to no more than T.
LEMMA TotalInjects ==
  ASSUME NEW S, NEW T, NEW n, NEW m, Weights(m, T), NEW g \in Injection(S, T),
         \A x \in S : n[x] = m[g[x]]
  PROVE  Total(n, S) <= Total(m, T)
<1> DEFINE f == [u \in Units(n, S) |-> <<g[u[1]], u[2]>>]
<1>1. ASSUME NEW u \in Units(n, S)
      PROVE  /\ u = <<u[1], u[2]>> /\ u[1] \in S /\ u[2] \in 1 .. n[u[1]]
             /\ f[u] \in Units(m, T)
  <2>1. PICK x \in S : \E i \in 1 .. n[x] : u = <<x, i>>
    BY UnitMember
  <2>2. g[x] \in T /\ n[x] = m[g[x]]
    BY DEF Injection, IsInjective
  <2> QED BY <2>1, <2>2, UnitMember
<1>2. f \in Injection(Units(n, S), Units(m, T))
  <2>1. f \in [Units(n, S) -> Units(m, T)]
    BY <1>1
  <2>2. ASSUME NEW u \in Units(n, S), NEW v \in Units(n, S), f[u] = f[v] PROVE u = v
    <3>1. PICK x \in S : \E i \in 1 .. n[x] : u = <<x, i>>
      BY UnitMember
    <3>2. PICK y \in S : \E i \in 1 .. n[y] : v = <<y, i>>
      BY UnitMember
    <3>3. f[u] = <<g[x], u[2]>> /\ f[v] = <<g[y], v[2]>> /\ u = <<x, u[2]>> /\ v = <<y, v[2]>>
      BY <3>1, <3>2
    <3>4. g[x] = g[y] /\ u[2] = v[2]
      BY <2>2, <3>3
    <3>5. x = y
      BY <3>4 DEF Injection, IsInjective
    <3> HIDE DEF f
    <3> QED BY <3>3, <3>4, <3>5
  <2> QED BY <2>1, <2>2 DEF Injection, IsInjective
<1>3. IsFiniteSet(Units(m, T))
  BY UnitsFinite
<1> QED BY <1>2, <1>3, FS_Injection DEF Total, Units

-----------------------------------------------------------------------------
(* Type correctness                                                         *)

LEMMA InitTyped == Init => TypeOK
<1> SUFFICES ASSUME Init PROVE TypeOK
  OBVIOUS
<1>1. NoJob \in Job
  BY ConstantsOK DEF NoJob, Job, JobStates
<1>2. NoSched \in Sched
  BY ConstantsOK DEF NoSched, Sched, Time
<1> QED BY <1>1, <1>2, ConstantsOK DEF Init, TypeOK, Time, WorkerStates

LEMMA CountersTyped ==
  ASSUME TypeOK
  PROVE  /\ Request => requests' \in 0 .. MaxRequests
         /\ Fault => faults' \in 0 .. MaxFaults
BY ConstantsOK DEF TypeOK, Request, Fault

LEMMA NextTyped == TypeOK /\ [Next]_vars => TypeOK'
<1> SUFFICES ASSUME TypeOK, [Next]_vars PROVE TypeOK'
  OBVIOUS
<1>0. ConstantsOK
  BY ConstantsOK
<1> USE DEF TypeOK
<1>1. ASSUME NEW i \in Sessions, NEW r \in Rules, NEW c \in Counts, CreateSession(i, r.len, c)
      PROVE  TypeOK'
  <2>1. r.len \in Nat /\ c \in 0 .. MaxStreams
    BY <1>0 DEF Rule
  <2>2. NewJob(r.len, c) \in Job
    BY <2>1, NewJobTyped
  <2>3. requests' \in 0 .. MaxRequests
    BY <1>1, CountersTyped DEF CreateSession
  <2>4. job' \in [JobIds -> Job]
    BY <1>1, <2>2 DEF CreateSession
  <2> QED BY <1>1, <2>3, <2>4 DEF CreateSession
<1>2. ASSUME NEW s \in Schedules, NEW r \in Rules, NEW c \in Counts, SaveSchedule(s, r, c)
      PROVE  TypeOK'
  <2> DEFINE start == Min(WindowStarts(r, now))
  <2>1. r.len \in Nat /\ c \in 0 .. MaxStreams
    BY <1>0 DEF Rule
  <2>2. NewJob(r.len, c) \in Job
    BY <2>1, NewJobTyped
  <2>3. /\ sched' = [sched EXCEPT ![s] = [state |-> "active", rule |-> r,
                                          next |-> start, count |-> c]]
        /\ job' = [job EXCEPT ![<<s, start>>] = NewJob(r.len, c)]
        /\ pending' = {[sched |-> s, keep |-> {<<s, start>>}]}
        /\ WindowStarts(r, now) # {} /\ requests' \in 0 .. MaxRequests
    BY <1>2, <1>0 DEF SaveSchedule, Request
  <2>4. start \in Time /\ <<s, start>> \in JobIds
    BY <2>3, WindowStartTyped DEF JobIds
  <2>5. [state |-> "active", rule |-> r, next |-> start, count |-> c] \in Sched
    BY <2>4 DEF Sched
  <2>6. [sched |-> s, keep |-> {<<s, start>>}] \in [sched : Schedules, keep : SUBSET JobIds]
    BY <2>4
  <2> HIDE DEF start
  <2> QED BY <1>2, <2>2, <2>3, <2>5, <2>6 DEF SaveSchedule
<1>3. ASSUME NEW s \in Schedules, DeleteSchedule(s)
      PROVE  TypeOK'
  <2>1. [sched[s] EXCEPT !.state = "cancelled"] \in Sched
    BY DEF Sched
  <2> QED BY <1>3, <2>1, <1>0 DEF DeleteSchedule, Request
<1>4. ASSUME CancelUpcoming
      PROVE  TypeOK'
  <2>1. /\ \A p \in pending : Upcoming(p) \subseteq JobIds
        /\ \A p \in pending, j \in JobIds :
             [p EXCEPT !.keep = @ \cup {j}] \in [sched : Schedules, keep : SUBSET JobIds]
    BY DEF Upcoming
  <2>2. faults' \in 0 .. MaxFaults
    BY <1>4, CountersTyped DEF CancelUpcoming
  <2>3. job' \in [JobIds -> Job]
    BY <1>4, <2>1 DEF CancelUpcoming, Job, JobStates, Final
  <2>4. pending' \subseteq [sched : Schedules, keep : SUBSET JobIds] /\ leftover' \subseteq JobIds
    <3>1. PICK p \in pending :
            /\ \/ UNCHANGED pending
               \/ \E j \in Upcoming(p) : pending' = {[p EXCEPT !.keep = @ \cup {j}]}
               \/ pending' = {}
            /\ leftover' \subseteq leftover \cup Upcoming(p)
      BY <1>4 DEF CancelUpcoming
    <3> QED BY <2>1, <3>1
  <2> QED BY <1>4, <2>2, <2>3, <2>4 DEF CancelUpcoming
<1>5. ASSUME NEW j \in JobIds, Stop(j)
      PROVE  TypeOK'
  <2>1. job[j] \in Job
    OBVIOUS
  <2>2. job' \in [JobIds -> Job]
    BY <1>5, <2>1 DEF Stop, Job, JobStates, Final
  <2>3. requests' \in 0 .. MaxRequests
    BY <1>5, CountersTyped DEF Stop
  <2> QED BY <1>5, <2>2, <2>3 DEF Stop
<1>6. ASSUME NEW j \in JobIds, DeleteSession(j)
      PROVE  TypeOK'
  <2>1. job' \in [JobIds -> Job]
    BY <1>6 DEF DeleteSession, Job
  <2>2. requests' \in 0 .. MaxRequests
    BY <1>6, CountersTyped DEF DeleteSession
  <2> QED BY <1>6, <2>1, <2>2 DEF DeleteSession
<1>7. ASSUME Tick
      PROVE  TypeOK'
  <2>1. job' \in [JobIds -> Job]
    <3>1. \A j \in JobIds : job'[j] \in Job
      BY <1>7, TickJobs
    <3> QED BY <1>7, <3>1 DEF Tick
  <2>2. sched' \in [Schedules -> Sched]
    <3>1. \A s \in Schedules : sched'[s] \in Sched
      BY <1>7, TickSchedules
    <3> QED BY <1>7, <3>1 DEF Tick
  <2>3. PICK out, L : /\ L \subseteq Startable(JobsMissed(JobsAdvanced(out)))
                     /\ worker' = [j \in JobIds |-> IF j \in L THEN "launched" ELSE worker[j]]
                     /\ packaging' \subseteq packaging \cup L
                     /\ ctxDone' \subseteq ctxDone
    BY <1>7 DEF Tick
  <2>4. L \subseteq JobIds
    BY <2>3 DEF Startable
  <2>5. worker' \in [JobIds -> WorkerStates]
    BY <2>3 DEF WorkerStates
  <2>6. faults' \in 0 .. MaxFaults
    BY <1>7, <1>0 DEF Tick, Fault
  <2> QED BY <1>7, <2>1, <2>2, <2>3, <2>4, <2>5, <2>6 DEF Tick
<1>8. ASSUME NEW j \in JobIds, Worker(j)
      PROVE  TypeOK'
  <2>1. CASE Begin(j)
    BY <2>1, <1>0 DEF Begin, Fault, Job, JobStates, WorkerStates
  <2>2. CASE CaptureEnd(j)
    BY <2>2 DEF CaptureEnd, WorkerStates
  <2>3. CASE EnterFinalizing(j)
    BY <2>3, <1>0 DEF EnterFinalizing, Fault, Job, JobStates, WorkerStates
  <2>4. CASE Finalize(j)
    BY <2>4, <1>0 DEF Finalize, Fault, Outcomes, Job, JobStates, Final, WorkerStates
  <2>5. CASE Exit(j)
    BY <2>5 DEF Exit, WorkerStates
  <2> QED BY <1>8, <2>1, <2>2, <2>3, <2>4, <2>5 DEF Worker
<1>9. ASSUME Advance
      PROVE  TypeOK'
  BY <1>9, <1>0 DEF Advance, Time
<1>10. ASSUME Restart
       PROVE  TypeOK'
  <2>1. faults' \in 0 .. MaxFaults
    BY <1>10, CountersTyped DEF Restart
  <2>2. UNION {Upcoming(p) : p \in pending} \subseteq JobIds
    BY DEF Upcoming
  <2>3. leftover' \subseteq JobIds
    BY <1>10, <2>2 DEF Restart
  <2> QED BY <1>10, <2>1, <2>3 DEF Restart, WorkerStates
<1>11. ASSUME UNCHANGED vars
       PROVE  TypeOK'
  BY <1>11 DEF vars
<1> QED BY <1>1, <1>2, <1>3, <1>4, <1>5, <1>6, <1>7, <1>8, <1>9, <1>10, <1>11 DEF Next, Handler

\* Every record, worker and handler stays within its type, for any number of
\* schedules, sessions, requests and faults.
THEOREM TypeCorrect == Spec => []TypeOK
<1> QED BY InitTyped, NextTyped, PTL DEF Spec

-----------------------------------------------------------------------------
(* The inductive invariant behind NeverFiredTwice                           *)

\* A record that does not exist or waits for its window has captured nothing.
FreshUnstarted ==
  \A j \in JobIds : job[j].state \in {"none", "scheduled"} => ~job[j].started

\* Nothing is launched, recorded or missed before its start.
NotBeforeStart ==
  \A j \in JobIds :
    \/ worker[j] # "none" \/ job[j].started
    \/ job[j].state \in {"recording", "finalizing", "missed"}
    => Start(j) <= now

\* What a worker may find in its job's record.
WorkerSees(j) ==
  /\ worker[j] = "launched" =>
       \/ job[j].state \in {"scheduled", "recording", "finalizing"}
       \/ job[j].state = "cancelled" /\ ~job[j].started
  /\ worker[j] \in {"capturing", "captured"} => job[j].state \in {"recording", "finalizing"}
  /\ worker[j] = "packaging" => job[j].state = "finalizing"
WorkersSeeTheirJob == \A j \in JobIds \ leftover : WorkerSees(j)

\* Past the next occurrence of an active schedule nothing waits, runs or has run;
\* a scheduled record there is being cancelled by the handler that holds the mutex.
Untouched(s, j) ==
  /\ worker[j] = "none" /\ ~job[j].started
  /\ job[j].state \notin {"recording", "finalizing", "missed"}
  /\ job[j].state = "scheduled" => \E p \in pending : p.sched = s
NothingPastNext ==
  \A s \in Schedules, t \in Time :
    /\ <<s, t>> \notin leftover /\ sched[s].state = "active" /\ t > sched[s].next
    => Untouched(s, <<s, t>>)

\* One handler at a time, and an edit keeps only the job of the next occurrence and
\* those it has failed to cancel.
HandlerKeepsNext ==
  /\ \A p, q \in pending : p = q
  /\ \A p \in pending : sched[p.sched].state = "active" =>
       p.keep \subseteq {<<p.sched, sched[p.sched].next>>} \cup leftover

IInv == /\ TypeOK /\ FreshUnstarted /\ NotBeforeStart /\ WorkersSeeTheirJob
        /\ NothingPastNext /\ HandlerKeepsNext

LEMMA InitInv == Init => IInv
<1> SUFFICES ASSUME Init PROVE IInv
  OBVIOUS
<1>1. TypeOK
  BY InitTyped
<1>2. \A j \in JobIds : job[j] = NoJob /\ worker[j] = "none"
  BY DEF Init
<1>3. \A s \in Schedules : sched[s] = NoSched
  BY DEF Init
<1>4. FreshUnstarted /\ NotBeforeStart /\ WorkersSeeTheirJob
  BY <1>2 DEF FreshUnstarted, NotBeforeStart, WorkersSeeTheirJob, WorkerSees, NoJob
<1>5. NothingPastNext /\ HandlerKeepsNext
  BY <1>3 DEF NothingPastNext, HandlerKeepsNext, NoSched, Init
<1> QED BY <1>1, <1>4, <1>5 DEF IInv

\* What an edit of schedule s writes.
LEMMA SaveScheduleWrites ==
  ASSUME IInv, NEW s \in Schedules, NEW r \in Rules, NEW c \in Counts, SaveSchedule(s, r, c)
  PROVE  \E start \in Time :
           LET j == <<s, start>> IN
           /\ start > now /\ j \in JobIds
           /\ sched' = [sched EXCEPT ![s] = [state |-> "active", rule |-> r,
                                             next |-> start, count |-> c]]
           /\ job' = [job EXCEPT ![j] = NewJob(r.len, c)]
           /\ pending' = {[sched |-> s, keep |-> {j}]} /\ pending = {}
           /\ UNCHANGED <<now, worker, leftover>>
<1> DEFINE start == Min(WindowStarts(r, now))
<1>1. start \in Time
  BY WindowStartTyped DEF SaveSchedule, IInv, TypeOK
<1>2. <<s, start>> \in JobIds
  BY <1>1 DEF JobIds
<1> QED BY <1>1, <1>2 DEF SaveSchedule, Request, Unlocked

LEMMA SaveScheduleInv ==
  ASSUME IInv, TypeOK', NEW s \in Schedules, NEW r \in Rules, NEW c \in Counts,
         SaveSchedule(s, r, c)
  PROVE  IInv'
<1>1. PICK start \in Time :
        /\ start > now /\ <<s, start>> \in JobIds
        /\ sched' = [sched EXCEPT ![s] = [state |-> "active", rule |-> r,
                                          next |-> start, count |-> c]]
        /\ job' = [job EXCEPT ![<<s, start>>] = NewJob(r.len, c)]
        /\ pending' = {[sched |-> s, keep |-> {<<s, start>>}]} /\ pending = {}
        /\ UNCHANGED <<now, worker, leftover>>
  BY SaveScheduleWrites
<1> DEFINE j == <<s, start>>
<1>2. /\ job'[j].state = "scheduled" /\ ~job'[j].started
      /\ \A k \in JobIds \ {j} : job'[k] = job[k]
  BY <1>1 DEF IInv, TypeOK, NewJob
<1>3. sched'[s].next = start /\ \A z \in Schedules \ {s} : sched'[z] = sched[z]
  BY <1>1 DEF IInv, TypeOK
<1>4. worker[j] = "none" /\ ~job[j].started
  BY <1>1, StartTyped DEF IInv, NotBeforeStart, Start
<1>5. FreshUnstarted'
  BY <1>2 DEF IInv, FreshUnstarted
<1>6. NotBeforeStart'
  BY <1>1, <1>2, <1>4 DEF IInv, NotBeforeStart, Start
<1>7. WorkersSeeTheirJob'
  BY <1>1, <1>2, <1>4 DEF IInv, WorkersSeeTheirJob, WorkerSees
<1>8. NothingPastNext'
  <2> SUFFICES ASSUME NEW z \in Schedules, NEW t \in Time, <<z, t>> \notin leftover,
                      sched'[z].state = "active", t > sched'[z].next
               PROVE  Untouched(z, <<z, t>>)'
    BY <1>1 DEF NothingPastNext
  <2>1. <<z, t>> \in JobIds
    BY DEF JobIds
  <2>2. CASE z = s
    <3>1. t > now /\ <<z, t>> # j
      BY <1>1, <1>3, <2>2, ConstantsOK DEF Time, IInv, TypeOK
    <3>2. /\ worker[<<z, t>>] = "none" /\ ~job[<<z, t>>].started
          /\ job[<<z, t>>].state \notin {"recording", "finalizing", "missed"}
      BY <2>1, <3>1, ConstantsOK DEF IInv, TypeOK, NotBeforeStart, Start, Time
    <3> QED BY <1>1, <1>2, <2>1, <2>2, <3>1, <3>2 DEF Untouched
  <2>3. CASE z # s
    BY <1>1, <1>2, <1>3, <2>1, <2>3 DEF IInv, NothingPastNext, Untouched
  <2> QED BY <2>2, <2>3
<1>9. HandlerKeepsNext'
  BY <1>1, <1>3 DEF HandlerKeepsNext
<1> QED BY <1>5, <1>6, <1>7, <1>8, <1>9 DEF IInv

LEMMA CreateSessionInv ==
  ASSUME IInv, TypeOK', NEW i \in Sessions, NEW r \in Rules, NEW c \in Counts,
         CreateSession(i, r.len, c)
  PROVE  IInv'
<1> DEFINE j == <<i, now>>
<1>1. j \in JobIds /\ i \notin Schedules
  BY ConstantsOK DEF JobIds, IInv, TypeOK
<1>2. /\ job' = [job EXCEPT ![j] = NewJob(r.len, c)] /\ job[j].state = "none"
      /\ UNCHANGED <<now, sched, worker, pending, leftover>>
  BY <1>1 DEF CreateSession, Exists, IInv, TypeOK
<1>3. /\ job'[j].state = "scheduled" /\ ~job'[j].started
      /\ \A k \in JobIds \ {j} : job'[k] = job[k]
  BY <1>1, <1>2 DEF IInv, TypeOK, NewJob
<1>4. FreshUnstarted'
  BY <1>3 DEF IInv, FreshUnstarted
<1>5. NotBeforeStart'
  BY <1>2, <1>3 DEF IInv, NotBeforeStart, Start
<1>6. WorkersSeeTheirJob'
  BY <1>2, <1>3 DEF IInv, WorkersSeeTheirJob, WorkerSees
<1>7. NothingPastNext'
  <2>1. \A s \in Schedules, t \in Time : <<s, t>> \in JobIds \ {j}
    BY <1>1 DEF JobIds
  <2> QED BY <1>2, <1>3, <2>1 DEF IInv, NothingPastNext, Untouched
<1>8. HandlerKeepsNext'
  BY <1>2 DEF IInv, HandlerKeepsNext
<1> QED BY <1>4, <1>5, <1>6, <1>7, <1>8 DEF IInv

LEMMA DeleteScheduleInv ==
  ASSUME IInv, TypeOK', NEW s \in Schedules, DeleteSchedule(s)
  PROVE  IInv'
<1>1. /\ sched' = [sched EXCEPT ![s].state = "cancelled"] /\ pending = {}
      /\ pending' = {[sched |-> s, keep |-> {}]}
      /\ UNCHANGED <<now, job, worker, leftover>>
  BY DEF DeleteSchedule, Request, Unlocked
<1>2. /\ sched'[s].state = "cancelled"
      /\ \A z \in Schedules \ {s} : sched'[z] = sched[z]
  BY <1>1 DEF IInv, TypeOK, Sched
<1>3. FreshUnstarted' /\ NotBeforeStart' /\ WorkersSeeTheirJob'
  BY <1>1 DEF IInv, FreshUnstarted, NotBeforeStart, WorkersSeeTheirJob, WorkerSees
<1>4. NothingPastNext'
  BY <1>1, <1>2 DEF IInv, NothingPastNext, Untouched
<1>5. HandlerKeepsNext'
  BY <1>1 DEF HandlerKeepsNext
<1> QED BY <1>3, <1>4, <1>5 DEF IInv

\* The four ways a step of cancelOtherUpcoming goes.
LEMMA CancelCases ==
  ASSUME IInv, CancelUpcoming
  PROVE  \E p \in pending :
           /\ \A q \in pending : q = p
           /\ leftover \subseteq leftover'
           /\ UNCHANGED <<now, sched, worker, packaging>>
           /\ \/ /\ \E j \in Upcoming(p) : job' = [job EXCEPT ![j].state = "cancelled"]
                 /\ UNCHANGED <<pending, leftover>>
              \/ /\ \E j \in Upcoming(p) : /\ pending' = {[p EXCEPT !.keep = @ \cup {j}]}
                                           /\ leftover' = leftover \cup {j}
                 /\ UNCHANGED job
              \/ /\ pending' = {} /\ Upcoming(p) \subseteq leftover'
                 /\ UNCHANGED job
BY Zenon DEF CancelUpcoming, IInv, HandlerKeepsNext

LEMMA CancelUpcomingInv ==
  ASSUME IInv, TypeOK', CancelUpcoming
  PROVE  IInv'
<1>1. PICK p \in pending :
        /\ \A q \in pending : q = p
        /\ leftover \subseteq leftover'
        /\ UNCHANGED <<now, sched, worker, packaging>>
        /\ \/ /\ \E j \in Upcoming(p) : job' = [job EXCEPT ![j].state = "cancelled"]
              /\ UNCHANGED <<pending, leftover>>
           \/ /\ \E j \in Upcoming(p) : /\ pending' = {[p EXCEPT !.keep = @ \cup {j}]}
                                        /\ leftover' = leftover \cup {j}
              /\ UNCHANGED job
           \/ /\ pending' = {} /\ Upcoming(p) \subseteq leftover'
              /\ UNCHANGED job
  BY CancelCases
<1>0. \A s \in Schedules, t \in Time : <<s, t>> \in JobIds
  BY DEF JobIds
<1>2. CASE /\ \E j \in Upcoming(p) : job' = [job EXCEPT ![j].state = "cancelled"]
           /\ UNCHANGED <<pending, leftover>>
  <2>1. PICK j \in Upcoming(p) : job' = [job EXCEPT ![j].state = "cancelled"]
    BY <1>2
  <2>2. j \in JobIds /\ job[j].state = "scheduled" /\ ~job[j].started
    BY DEF Upcoming, IInv, FreshUnstarted
  <2>3. /\ job'[j].state = "cancelled" /\ job'[j].started = job[j].started
        /\ \A k \in JobIds \ {j} : job'[k] = job[k]
    BY <2>1, <2>2 DEF IInv, TypeOK, Job
  <2>4. FreshUnstarted'
    BY <2>3 DEF IInv, FreshUnstarted
  <2>5. NotBeforeStart'
    BY <1>1, <2>2, <2>3 DEF IInv, NotBeforeStart
  <2>6. WorkersSeeTheirJob'
    BY <1>1, <1>2, <2>2, <2>3 DEF IInv, WorkersSeeTheirJob, WorkerSees
  <2>7. NothingPastNext'
    BY <1>0, <1>1, <1>2, <2>2, <2>3 DEF IInv, NothingPastNext, Untouched
  <2>8. HandlerKeepsNext'
    BY <1>1, <1>2 DEF IInv, HandlerKeepsNext
  <2> QED BY <2>4, <2>5, <2>6, <2>7, <2>8 DEF IInv
<1>3. CASE UNCHANGED job
  <2>1. FreshUnstarted' /\ NotBeforeStart' /\ WorkersSeeTheirJob'
    BY <1>1, <1>3 DEF IInv, FreshUnstarted, NotBeforeStart, WorkersSeeTheirJob, WorkerSees
  <2>2. CASE \E j \in Upcoming(p) : /\ pending' = {[p EXCEPT !.keep = @ \cup {j}]}
                                    /\ leftover' = leftover \cup {j}
    <3>1. PICK j \in Upcoming(p) : /\ pending' = {[p EXCEPT !.keep = @ \cup {j}]}
                                   /\ leftover' = leftover \cup {j}
      BY <2>2
    <3>2. p \in [sched : Schedules, keep : SUBSET JobIds]
      BY DEF IInv, TypeOK
    <3>3. \A q \in pending' : q.sched = p.sched /\ q.keep = p.keep \cup {j}
      BY <3>1, <3>2
    <3>4. HandlerKeepsNext'
      BY <1>1, <3>1, <3>3 DEF IInv, HandlerKeepsNext
    <3>5. NothingPastNext'
      BY <1>0, <1>1, <1>3, <3>1, <3>3 DEF IInv, NothingPastNext, Untouched
    <3> QED BY <2>1, <3>4, <3>5 DEF IInv
  <2>3. CASE pending' = {} /\ Upcoming(p) \subseteq leftover'
    <3>1. HandlerKeepsNext'
      BY <2>3 DEF HandlerKeepsNext
    <3>2. NothingPastNext'
      <4> SUFFICES ASSUME NEW s \in Schedules, NEW t \in Time, <<s, t>> \notin leftover',
                          sched[s].state = "active", t > sched[s].next
                   PROVE  Untouched(s, <<s, t>>)'
        BY <1>1 DEF NothingPastNext
      <4>1. Untouched(s, <<s, t>>)
        BY <1>1 DEF IInv, NothingPastNext
      <4>2. job[<<s, t>>].state # "scheduled"
        <5> SUFFICES ASSUME job[<<s, t>>].state = "scheduled" PROVE FALSE
          OBVIOUS
        <5>1. p.sched = s
          BY <1>1, <4>1 DEF Untouched
        <5>2. p.keep \subseteq {<<s, sched[s].next>>} \cup leftover
          BY <5>1 DEF IInv, HandlerKeepsNext
        <5>3. <<s, t>> \in JobIds \ p.keep
          BY <1>0, <1>1, <5>2, ConstantsOK DEF IInv, TypeOK, Sched, Time
        <5> QED BY <2>3, <5>1, <5>3 DEF Upcoming, Owner
      <4> QED BY <1>1, <1>3, <4>1, <4>2 DEF Untouched
    <3> QED BY <2>1, <3>1, <3>2 DEF IInv
  <2>4. CASE UNCHANGED <<pending, leftover>>
    BY <1>1, <1>3, <2>1, <2>4 DEF IInv, NothingPastNext, Untouched, HandlerKeepsNext
  <2> QED BY <1>1, <2>2, <2>3, <2>4
<1> QED BY <1>1, <1>2, <1>3

\* A handler that rewrites one existing record outside the scheduler's reach.
LEMMA StopInv ==
  ASSUME IInv, TypeOK', NEW j \in JobIds, Stop(j) \/ DeleteSession(j)
  PROVE  IInv'
<1>1. /\ pending = {} /\ UNCHANGED <<now, sched, worker, pending, leftover>>
      /\ \A k \in JobIds \ {j} : job'[k] = job[k]
      /\ job'[j].started = job[j].started
      /\ \/ job'[j].state = job[j].state
         \/ /\ job[j].state \in {"scheduled", "recording", "finalizing"}
            /\ \/ job'[j].state = "finalizing" /\ (job[j].state = "scheduled" => Start(j) <= now)
               \/ job'[j].state = "cancelled" /\ job[j].state = "scheduled"
  <2>1. CASE Stop(j)
    BY <2>1, StartTyped DEF IInv, TypeOK, Stop, Request, Unlocked, Nonfinal, Job
  <2>2. CASE DeleteSession(j)
    BY <2>2 DEF IInv, TypeOK, DeleteSession, Request, Unlocked, Job
  <2> QED BY <2>1, <2>2
<1>2. FreshUnstarted'
  BY <1>1 DEF IInv, FreshUnstarted
<1>3. NotBeforeStart'
  BY <1>1 DEF IInv, NotBeforeStart
<1>4. WorkersSeeTheirJob'
  BY <1>1 DEF IInv, WorkersSeeTheirJob, WorkerSees, FreshUnstarted
<1>5. NothingPastNext'
  <2>1. \A s \in Schedules, t \in Time : <<s, t>> \in JobIds
    BY DEF JobIds
  <2> QED BY <1>1, <2>1 DEF IInv, NothingPastNext, Untouched
<1>6. HandlerKeepsNext'
  BY <1>1 DEF IInv, HandlerKeepsNext
<1> QED BY <1>2, <1>3, <1>4, <1>5, <1>6 DEF IInv

LEMMA TickInv ==
  ASSUME IInv, TypeOK', Tick
  PROVE  IInv'
<1>0. TypeOK /\ pending = {} /\ UNCHANGED <<now, pending, leftover>>
  BY DEF IInv, Tick, Unlocked
<1>1. \A j \in JobIds : SameRecord(j) \/ NowMissed(j) \/ NewOccurrence(j)
  BY <1>0, TickJobs
<1>2. \A j \in JobIds :
        \/ worker'[j] = worker[j]
        \/ /\ worker[j] = "none" /\ worker'[j] = "launched"
           /\ \/ job'[j].state \in {"recording", "finalizing"}
              \/ job'[j].state = "scheduled" /\ Start(j) <= now
  BY <1>0, TickWorkers
\* A fresh occurrence takes the place of a record nobody has touched.
<1>3. \A j \in JobIds \ leftover : NewOccurrence(j) => Untouched(Owner(j), j)
  <2> SUFFICES ASSUME NEW j \in JobIds \ leftover, NewOccurrence(j)
               PROVE  Untouched(Owner(j), j)
    OBVIOUS
  <2>1. /\ Owner(j) \in Schedules /\ sched[Owner(j)].state = "active"
        /\ Later(Owner(j)) # {} /\ Start(j) = Min(Later(Owner(j)))
    BY DEF NewOccurrence, Ready
  <2>2. Start(j) \in Time /\ Start(j) > sched[Owner(j)].next
    BY <1>0, <2>1, LaterStarts
  <2>3. j = <<Owner(j), Start(j)>>
    BY DEF JobIds, Owner, Start
  <2> QED BY <2>1, <2>2, <2>3 DEF IInv, NothingPastNext
<1>4. FreshUnstarted'
  BY <1>1 DEF IInv, FreshUnstarted, SameRecord, NowMissed, NewOccurrence, SameWindow
<1>5. NotBeforeStart'
  <2> SUFFICES ASSUME NEW j \in JobIds,
                      \/ worker'[j] # "none" \/ job'[j].started
                      \/ job'[j].state \in {"recording", "finalizing", "missed"}
               PROVE  Start(j) <= now
    BY <1>0 DEF NotBeforeStart
  <2>1. (worker[j] # "none" \/ job[j].started
          \/ job[j].state \in {"recording", "finalizing", "missed"}) => Start(j) <= now
    BY DEF IInv, NotBeforeStart
  <2>2. CASE job'[j].started \/ job'[j].state \in {"recording", "finalizing", "missed"}
    BY <1>1, <2>1, <2>2 DEF SameRecord, NowMissed, NewOccurrence, SameWindow
  <2>3. CASE worker'[j] # "none"
    BY <1>2, <2>1, <2>2, <2>3
  <2> QED BY <2>2, <2>3
<1>6. WorkersSeeTheirJob'
  <2> SUFFICES ASSUME NEW j \in JobIds \ leftover
               PROVE  WorkerSees(j)'
    BY <1>0 DEF WorkersSeeTheirJob
  <2>1. WorkerSees(j)
    BY DEF IInv, WorkersSeeTheirJob
  <2>2. CASE worker'[j] = worker[j] /\ SameRecord(j)
    BY <2>1, <2>2 DEF WorkerSees, SameRecord, SameWindow
  <2>3. CASE worker'[j] = worker[j] /\ NowMissed(j)
    BY <2>3 DEF WorkerSees, NowMissed
  <2>4. CASE worker'[j] = worker[j] /\ NewOccurrence(j)
    BY <1>3, <2>4 DEF WorkerSees, Untouched
  <2>5. CASE worker'[j] # worker[j]
    BY <1>2, <2>5 DEF WorkerSees
  <2> QED BY <1>1, <2>2, <2>3, <2>4, <2>5
<1>7. NothingPastNext'
  <2> SUFFICES ASSUME NEW s \in Schedules, NEW t \in Time, <<s, t>> \notin leftover,
                      sched'[s].state = "active", t > sched'[s].next
               PROVE  Untouched(s, <<s, t>>)'
    BY <1>0 DEF NothingPastNext
  <2> DEFINE j == <<s, t>>
  <2>1. j \in JobIds /\ Owner(j) = s /\ Start(j) = t
    BY DEF JobIds, Owner, Start
  <2>2. sched[s].state = "active" /\ t > sched[s].next
    <3>1. CASE sched'[s] = sched[s]
      BY <3>1
    <3>2. CASE /\ s \in Ready /\ Later(s) # {}
               /\ sched'[s].state = sched[s].state /\ sched'[s].next = Min(Later(s))
      <4>1. Min(Later(s)) \in Nat /\ Min(Later(s)) > sched[s].next /\ sched[s].next \in Nat
        BY <1>0, <3>2, LaterStarts, SchedTyped, ConstantsOK DEF Time, Sched
      <4> QED BY <3>2, <4>1, ConstantsOK DEF Time
    <3> QED BY <1>0, <3>1, <3>2, TickSchedules
  <2>3. Untouched(s, j) /\ job[j].state # "scheduled"
    BY <1>0, <2>2 DEF IInv, NothingPastNext, Untouched
  <2>4. SameRecord(j) \/ NewOccurrence(j)
    BY <1>1, <2>1, <2>3 DEF NowMissed
  <2>5. SameRecord(j)
    BY <1>0, <2>1, <2>2, <2>4, ConstantsOK DEF NewOccurrence, Time, TypeOK, Sched
  <2> QED BY <1>0, <1>2, <2>1, <2>3, <2>5 DEF Untouched, SameRecord, SameWindow
<1>8. HandlerKeepsNext'
  BY <1>0 DEF HandlerKeepsNext
<1> QED BY <1>4, <1>5, <1>6, <1>7, <1>8 DEF IInv

\* A section of a worker touches only its own job, which it may take.
LEMMA WorkerInv ==
  ASSUME IInv, TypeOK', NEW j \in JobIds, Worker(j)
  PROVE  IInv'
<1>1. /\ worker[j] # "none" /\ UNCHANGED <<now, sched, pending, leftover, far>>
      /\ \A k \in JobIds \ {j} : job'[k] = job[k] /\ worker'[k] = worker[k]
      /\ job'[j].state = job[j].state
           \/ (job'[j].state \notin {"none", "scheduled", "missed"} /\ worker'[j] # "launched")
      /\ job[j].started => job'[j].started
      /\ job[j].state \in {"none", "scheduled"} /\ job'[j].state = job[j].state
           => job'[j].started = job[j].started
  BY DEF IInv, TypeOK, Job, Worker, Begin, CaptureEnd, EnterFinalizing, Finalize, Exit, Outcomes
<1>2. Start(j) <= now
  BY <1>1 DEF IInv, NotBeforeStart
<1>3. FreshUnstarted'
  BY <1>1 DEF IInv, FreshUnstarted
<1>4. NotBeforeStart'
  BY <1>1, <1>2 DEF IInv, NotBeforeStart
<1>5. WorkersSeeTheirJob'
  <2> SUFFICES ASSUME j \notin leftover PROVE WorkerSees(j)'
    BY <1>1 DEF IInv, WorkersSeeTheirJob, WorkerSees
  <2>1. WorkerSees(j)
    BY DEF IInv, WorkersSeeTheirJob
  <2>2. CASE Begin(j)
    BY <2>1, <2>2 DEF IInv, TypeOK, Job, WorkerSees, Begin
  <2>3. CASE CaptureEnd(j)
    BY <2>1, <2>3 DEF IInv, TypeOK, WorkerSees, CaptureEnd
  <2>4. CASE EnterFinalizing(j)
    BY <2>1, <2>4 DEF IInv, TypeOK, Job, WorkerSees, EnterFinalizing
  <2>5. CASE Finalize(j)
    BY <2>5 DEF IInv, TypeOK, WorkerSees, Finalize
  <2>6. CASE Exit(j)
    BY <2>6 DEF IInv, TypeOK, WorkerSees, Exit
  <2> QED BY <2>2, <2>3, <2>4, <2>5, <2>6 DEF Worker
<1>6. NothingPastNext'
  <2>1. \A s \in Schedules, t \in Time : <<s, t>> \in JobIds
    BY DEF JobIds
  <2> QED BY <1>1, <2>1 DEF IInv, NothingPastNext, Untouched
<1>7. HandlerKeepsNext'
  BY <1>1 DEF IInv, HandlerKeepsNext
<1> QED BY <1>3, <1>4, <1>5, <1>6, <1>7 DEF IInv

LEMMA AdvanceInv ==
  ASSUME IInv, TypeOK', Advance
  PROVE  IInv'
<1>1. /\ now' = now + 1
      /\ UNCHANGED <<sched, job, worker, pending, leftover>>
  BY DEF Advance
<1>2. NotBeforeStart'
  <2>1. \A j \in JobIds : Start(j) \in Nat /\ now \in Nat
    BY StartTyped DEF IInv
  <2> QED BY <1>1, <2>1 DEF IInv, NotBeforeStart
<1>3. FreshUnstarted' /\ WorkersSeeTheirJob' /\ NothingPastNext' /\ HandlerKeepsNext'
  BY <1>1 DEF IInv, FreshUnstarted, WorkersSeeTheirJob, WorkerSees, NothingPastNext, Untouched,
              HandlerKeepsNext
<1> QED BY <1>2, <1>3 DEF IInv

LEMMA RestartInv ==
  ASSUME IInv, TypeOK', Restart
  PROVE  IInv'
<1>1. /\ \A j \in JobIds : worker'[j] = "none"
      /\ pending' = {} /\ UNCHANGED <<now, sched, job>>
      /\ leftover' = leftover \cup UNION {Upcoming(p) : p \in pending}
  BY DEF Restart
<1>2. FreshUnstarted' /\ NotBeforeStart' /\ WorkersSeeTheirJob' /\ HandlerKeepsNext'
  BY <1>1 DEF IInv, FreshUnstarted, NotBeforeStart, WorkersSeeTheirJob, WorkerSees,
              HandlerKeepsNext
<1>3. NothingPastNext'
  <2> SUFFICES ASSUME NEW s \in Schedules, NEW t \in Time, <<s, t>> \notin leftover',
                      sched[s].state = "active", t > sched[s].next
               PROVE  Untouched(s, <<s, t>>)'
    BY <1>1 DEF NothingPastNext
  <2>1. <<s, t>> \in JobIds /\ <<s, t>> \notin leftover
    BY <1>1 DEF JobIds
  <2>2. Untouched(s, <<s, t>>)
    BY <2>1 DEF IInv, NothingPastNext
  <2>3. job[<<s, t>>].state # "scheduled"
    <3> SUFFICES ASSUME job[<<s, t>>].state = "scheduled" PROVE FALSE
      OBVIOUS
    <3>1. PICK p \in pending : p.sched = s
      BY <2>2 DEF Untouched
    <3>2. p.keep \subseteq {<<s, sched[s].next>>} \cup leftover
      BY <3>1 DEF IInv, HandlerKeepsNext
    <3>3. <<s, t>> \in Upcoming(p)
      BY <2>1, <3>1, <3>2, ConstantsOK DEF Upcoming, Owner, IInv, TypeOK, Sched, Time
    <3> QED BY <1>1, <3>3
  <2> QED BY <1>1, <2>1, <2>2, <2>3 DEF Untouched
<1> QED BY <1>2, <1>3 DEF IInv

LEMMA NextInv == IInv /\ [Next]_vars => IInv'
<1> SUFFICES ASSUME IInv, [Next]_vars PROVE IInv'
  OBVIOUS
<1>1. TypeOK'
  BY NextTyped DEF IInv
<1>2. CASE Handler
  BY <1>1, <1>2, CreateSessionInv, SaveScheduleInv, DeleteScheduleInv, CancelUpcomingInv, StopInv
     DEF Handler
<1>3. CASE Tick
  BY <1>1, <1>3, TickInv
<1>4. CASE \E j \in JobIds : Worker(j)
  BY <1>1, <1>4, WorkerInv
<1>5. CASE Advance
  BY <1>1, <1>5, AdvanceInv
<1>6. CASE Restart
  BY <1>1, <1>6, RestartInv
<1>7. CASE UNCHANGED vars
  BY <1>7, <1>1 DEF vars, IInv, FreshUnstarted, NotBeforeStart, WorkersSeeTheirJob, WorkerSees,
                    NothingPastNext, Untouched, HandlerKeepsNext
<1> QED BY <1>2, <1>3, <1>4, <1>5, <1>6, <1>7 DEF Next

LEMMA Invariance == Spec => []IInv
<1> QED BY InitInv, NextInv, PTL DEF Spec

-----------------------------------------------------------------------------
(* The streams of the capture workers                                       *)

LEMMA JobsFinite == IsFiniteSet(JobIds)
<1>1. IsFiniteSet(Schedules \cup Sessions)
  BY ConstantsOK, FS_Union
<1>2. IsFiniteSet(Time)
  BY ConstantsOK, FS_Interval DEF Time
<1> QED BY <1>1, <1>2, FS_Product DEF JobIds

LEMMA JobIdParts ==
  ASSUME NEW j \in JobIds
  PROVE  /\ j = <<Owner(j), Start(j)>> /\ Owner(j) \in Schedules \cup Sessions
         /\ Owner(j) \in Nat /\ Start(j) \in Time /\ Start(j) \in Nat
<1>1. j = <<Owner(j), Start(j)>> /\ Owner(j) \in Schedules \cup Sessions /\ Start(j) \in Time
  BY DEF JobIds, Owner, Start
<1>2. Schedules \cup Sessions \subseteq Nat /\ Time \subseteq Nat
  BY ConstantsOK DEF Time
<1> QED BY <1>1, <1>2

\* A finite set of jobs has a last one in the order in which a tick visits the rows.
LEMMA LastJob ==
  ASSUME NEW L \in SUBSET JobIds, L # {}
  PROVE  \E j \in L : \A k \in L \ {j} : Precedes(k, j)
<1> DEFINE R == {p \in L \X L : Precedes(p[1], p[2])}
<1>1. \A k \in L : k = <<Owner(k), Start(k)>> /\ Owner(k) \in Nat /\ Start(k) \in Nat
  BY JobIdParts
<1>2. \A j, k \in L : <<j, k>> \in R <=> Precedes(j, k)
  OBVIOUS
<1>3. /\ \A j \in L : <<j, j>> \notin R
      /\ \A i, j, k \in L : <<i, j>> \in R /\ <<j, k>> \in R => <<i, k>> \in R
  BY <1>1, <1>2 DEF Precedes
<1> HIDE DEF R
<1>4. IsFiniteSet(L)
  BY JobsFinite, FS_Subset
<1>5. PICK j \in L : \A k \in L : <<j, k>> \notin R
  BY <1>3, <1>4, FiniteTop
<1>6. \A k \in L : ~Precedes(j, k)
  BY <1>2, <1>5
<1>7. \A k \in L \ {j} : Precedes(k, j)
  BY <1>1, <1>6 DEF Precedes
<1> QED BY <1>7

\* Fewer jobs with the same counts take no more streams.
LEMMA StreamsOfPart ==
  ASSUME NEW R, NEW S \in SUBSET JobIds, R \subseteq S, NEW jb, NEW kb,
         \A j \in S : jb[j].count \in Nat, \A j \in R : kb[j].count = jb[j].count
  PROVE  Streams(kb, R) \in Nat /\ Streams(jb, S) \in Nat /\ Streams(kb, R) <= Streams(jb, S)
<1> DEFINE n == [j \in S |-> jb[j].count]
           m == [j \in R |-> kb[j].count]
<1>1. IsFiniteSet(S) /\ Weights(n, S)
  BY JobsFinite, FS_Subset DEF Weights
<1>2. Total(n, R) <= Total(n, S) /\ Weights(n, R)
  BY <1>1, TotalOfPart
<1>3. Total(m, R) = Total(n, R)
  BY TotalAgrees
<1>4. Total(n, R) \in Nat /\ Total(n, S) \in Nat
  BY <1>1, <1>2, UnitsFinite
<1> QED BY <1>2, <1>3, <1>4 DEF Streams

\* One more job takes its own count.
LEMMA StreamsAdd ==
  ASSUME NEW S \in SUBSET JobIds, NEW j \in JobIds \ S, NEW jb,
         \A k \in S \cup {j} : jb[k].count \in Nat
  PROVE  Streams(jb, S \cup {j}) = Streams(jb, S) + jb[j].count
<1> DEFINE n == [k \in S \cup {j} |-> jb[k].count]
           m == [k \in S |-> jb[k].count]
<1>1. Weights(n, S \cup {j})
  BY JobsFinite, FS_Subset DEF Weights
<1>2. Total(n, S \cup {j}) = Total(n, S) + n[j]
  BY <1>1, TotalAdds
<1>3. Total(m, S) = Total(n, S)
  BY TotalAgrees
<1> QED BY <1>2, <1>3 DEF Streams

\* The jobs whose stations a pass of the tick counts against the limit.
Relaying == {j \in JobIds : /\ worker[j] # "none" /\ j \notin packaging
                            /\ j \notin leftover}

RelayFits == Streams(job, Relaying) <= MaxStreams
WorkersHaveJobs == \A j \in JobIds : worker[j] # "none" => Exists(j)
\* A worker whose job gave its slots back at the launch captures nothing.
PackagingCapturesNothing ==
  \A j \in packaging \ leftover :
    /\ worker[j] = "launched" => job[j].state = "finalizing"
    /\ worker[j] # "capturing"
StreamInv == IInv /\ RelayFits /\ WorkersHaveJobs /\ PackagingCapturesNothing

LEMMA CountTyped ==
  ASSUME TypeOK, NEW j \in JobIds
  PROVE  job[j] \in Job /\ job[j].count \in Nat
BY ConstantsOK DEF TypeOK, Job

\* The records a tick works with.
LEMMA TickRecords ==
  ASSUME TypeOK, NEW out, NEW j \in JobIds
  PROVE  JobsMissed(JobsAdvanced(out))[j] \in Job
<1>1. JobsAdvanced(out)[j] \in Job
  <2>1. CASE \E s \in Ready : Later(s) # {} /\ out[s] # "unsaved" /\ j = <<s, Min(Later(s))>>
    <3>1. Owner(j) \in Schedules /\ JobsAdvanced(out)[j] = Occurrence(Owner(j), out)
      BY <2>1 DEF JobsAdvanced, Ready, Owner
    <3>2. NewJob(sched[Owner(j)].rule.len, sched[Owner(j)].count) \in Job
      BY <3>1, SchedTyped, NewJobTyped
    <3> QED BY <3>1, <3>2 DEF Occurrence, Job, JobStates, Final
  <2>2. CASE ~ \E s \in Ready : Later(s) # {} /\ out[s] # "unsaved" /\ j = <<s, Min(Later(s))>>
    BY <2>2 DEF JobsAdvanced, TypeOK
  <2> QED BY <2>1, <2>2
<1> QED BY <1>1 DEF JobsMissed, Job, JobStates, Final

\* A tick never replaces the record of a job that has a worker.
LEMMA TickKeepsCounts ==
  ASSUME IInv, Tick, NEW j \in JobIds \ leftover, worker[j] # "none"
  PROVE  SameRecord(j)
<1>1. SameRecord(j) \/ NewOccurrence(j)
  BY TickJobs DEF IInv, NowMissed
<1>2. ~NewOccurrence(j)
  <2> SUFFICES ASSUME NewOccurrence(j) PROVE FALSE
    OBVIOUS
  <2>1. /\ Owner(j) \in Schedules /\ sched[Owner(j)].state = "active"
        /\ Later(Owner(j)) # {} /\ Start(j) = Min(Later(Owner(j)))
    BY DEF NewOccurrence, Ready
  <2>2. Start(j) \in Time /\ Start(j) > sched[Owner(j)].next
    BY <2>1, LaterStarts DEF IInv
  <2>3. j = <<Owner(j), Start(j)>>
    BY DEF JobIds, Owner, Start
  <2>4. Untouched(Owner(j), j)
    BY <2>1, <2>2, <2>3 DEF IInv, NothingPastNext
  <2> QED BY <2>4 DEF Untouched
<1> QED BY <1>1, <1>2

\* The jobs a pass launches fit beside those it finds running: the last of them was
\* admitted beside all the others.
LEMMA TickRelayFits ==
  ASSUME StreamInv, TypeOK', Tick
  PROVE  RelayFits'
<1>0. PICK out \in [Ready -> {"ok", "invalid", "unsaved"}] :
        LET jb == JobsMissed(JobsAdvanced(out)) IN
        /\ job' = [j \in JobIds |-> IF Expired(jb, j) THEN [jb[j] EXCEPT !.tomb = TRUE]
                                                      ELSE jb[j]]
        /\ \E L \in SUBSET Startable(jb) :
             /\ IsLaunch(jb, L)
             /\ worker' = [j \in JobIds |-> IF j \in L THEN "launched" ELSE worker[j]]
             /\ packaging' = (packaging \ L) \cup {j \in L : jb[j].state = "finalizing"}
  BY DEF Tick
<1> DEFINE jb == JobsMissed(JobsAdvanced(out))
<1>1. PICK L \in SUBSET Startable(jb) :
        /\ job' = [j \in JobIds |-> IF Expired(jb, j) THEN [jb[j] EXCEPT !.tomb = TRUE]
                                                      ELSE jb[j]]
        /\ IsLaunch(jb, L)
        /\ worker' = [j \in JobIds |-> IF j \in L THEN "launched" ELSE worker[j]]
        /\ packaging' = (packaging \ L) \cup {j \in L : jb[j].state = "finalizing"}
        /\ UNCHANGED leftover
  BY <1>0 DEF Tick
<1> DEFINE fresh == {j \in L : jb[j].state # "finalizing"}
           counted == Active \ packaging
<1>2. TypeOK /\ \A j \in JobIds : jb[j] \in Job /\ jb[j].count \in Nat
  BY TickRecords, ConstantsOK DEF StreamInv, IInv, Job
<1>3. \A j \in JobIds : job'[j].count = jb[j].count
  BY <1>1, <1>2 DEF Job
<1>4. L \subseteq JobIds /\ \A j \in L : worker[j] = "none"
  BY <1>1 DEF Startable
<1>5. Relaying' \subseteq counted \cup fresh
  BY <1>1, <1>4 DEF Relaying, Active
<1>6. counted \subseteq JobIds
  BY DEF Active
<1> HIDE DEF jb
<1>7. CASE fresh = {}
  <2>1. Relaying' \subseteq Relaying
    BY <1>1, <1>4, <1>7 DEF Relaying
  <2>2. \A j \in Relaying' : job'[j].count = job[j].count
    BY <2>1, TickKeepsCounts DEF Relaying, StreamInv, SameRecord, SameWindow
  <2>3. \A j \in Relaying : job[j].count \in Nat
    BY <1>2, CountTyped DEF Relaying
  <2>4. /\ Streams(job', Relaying') \in Nat /\ Streams(job, Relaying) \in Nat
        /\ Streams(job', Relaying') <= Streams(job, Relaying)
    BY <2>1, <2>2, <2>3, StreamsOfPart DEF Relaying
  <2> QED BY <2>4, ConstantsOK DEF StreamInv, RelayFits
<1>8. CASE fresh # {}
  <2>1. PICK j \in fresh : \A k \in fresh \ {j} : Precedes(k, j)
    BY <1>4, <1>8, LastJob
  <2> DEFINE S == counted \cup {k \in L : Precedes(k, j) /\ jb[k].state # "finalizing"}
  <2>2. Streams(jb, S) + jb[j].count <= MaxStreams
    BY <1>1, <2>1 DEF IsLaunch
  <2>3. j \in JobIds /\ ~Precedes(j, j)
    BY <1>4, <2>1, JobIdParts DEF Precedes
  <2>4. S \subseteq JobIds /\ j \notin S
    BY <1>4, <1>6, <2>1, <2>3 DEF Active
  <2>5. Streams(jb, S \cup {j}) = Streams(jb, S) + jb[j].count
    BY <1>2, <2>3, <2>4, StreamsAdd
  <2>6. Relaying' \subseteq S \cup {j}
    BY <1>5, <2>1
  <2>7. /\ Streams(job', Relaying') \in Nat /\ Streams(jb, S \cup {j}) \in Nat
        /\ Streams(job', Relaying') <= Streams(jb, S \cup {j})
    <3>1. S \cup {j} \in SUBSET JobIds
      BY <2>3, <2>4
    <3>2. \A k \in S \cup {j} : jb[k].count \in Nat
      BY <1>2, <3>1
    <3>3. \A k \in Relaying' : job'[k].count = jb[k].count
      BY <1>3 DEF Relaying
    <3> QED BY <2>6, <3>1, <3>2, <3>3, StreamsOfPart
  <2> QED BY <2>2, <2>5, <2>7, ConstantsOK DEF RelayFits
<1> QED BY <1>7, <1>8

\* Everything but a tick and a crash leaves the running jobs' records their counts and
\* adds no job to those that relay; a crash leaves none.
LEMMA OthersRelayFits ==
  ASSUME StreamInv, TypeOK', Relaying' \subseteq Relaying,
         \A j \in Relaying' : job'[j].count = job[j].count
  PROVE  RelayFits'
<1>1. \A j \in Relaying : job[j].count \in Nat
  BY CountTyped DEF Relaying, StreamInv, IInv
<1>2. /\ Streams(job', Relaying') \in Nat /\ Streams(job, Relaying) \in Nat
      /\ Streams(job', Relaying') <= Streams(job, Relaying)
  BY <1>1, StreamsOfPart DEF Relaying
<1> QED BY <1>2, ConstantsOK DEF StreamInv, RelayFits

\* No record disappears: a deletion leaves a tombstone.
LEMMA HandlerKeepsJobs ==
  ASSUME IInv, Handler, NEW j \in JobIds, Exists(j)
  PROVE  Exists(j)'
<1>1. job[j] \in Job /\ TypeOK
  BY DEF IInv, TypeOK
<1>2. CASE \E i \in Sessions, r \in Rules, c \in Counts : CreateSession(i, r.len, c)
  BY <1>1, <1>2 DEF CreateSession, TypeOK, NewJob, Exists
<1>3. CASE \E s \in Schedules, r \in Rules, c \in Counts : SaveSchedule(s, r, c)
  <2>1. PICK s \in Schedules, r \in Rules, c \in Counts : SaveSchedule(s, r, c)
    BY <1>3
  <2>2. job' = [job EXCEPT ![<<s, Min(WindowStarts(r, now))>>] = NewJob(r.len, c)]
    BY <2>1 DEF SaveSchedule
  <2> QED BY <1>1, <2>2 DEF TypeOK, NewJob, Exists
<1>4. CASE \E s \in Schedules : DeleteSchedule(s)
  BY <1>4 DEF DeleteSchedule, Exists
<1>5. CASE CancelUpcoming
  BY <1>1, <1>5 DEF CancelUpcoming, Upcoming, TypeOK, Job, Exists
<1>6. CASE \E k \in JobIds : Stop(k) \/ DeleteSession(k)
  BY <1>1, <1>6 DEF Stop, DeleteSession, TypeOK, Job, Exists
<1> QED BY <1>2, <1>3, <1>4, <1>5, <1>6 DEF Handler

LEMMA HandlerStreams ==
  ASSUME StreamInv, TypeOK', Handler
  PROVE  RelayFits' /\ WorkersHaveJobs' /\ PackagingCapturesNothing'
<1>0. TypeOK /\ UNCHANGED <<worker, packaging>> /\ leftover \subseteq leftover'
  BY DEF StreamInv, IInv, Handler, CreateSession, SaveSchedule, DeleteSchedule, CancelUpcoming,
         Stop, DeleteSession
<1>1. ASSUME NEW j \in JobIds \ leftover, worker[j] # "none"
      PROVE  /\ job'[j].count = job[j].count
             /\ job[j].state = "finalizing" => job'[j].state = "finalizing"
  <2>1. job[j] \in Job /\ Exists(j) /\ Start(j) <= now
    BY <1>0, <1>1 DEF TypeOK, StreamInv, WorkersHaveJobs, IInv, NotBeforeStart
  <2>2. CASE \E i \in Sessions, r \in Rules, c \in Counts : CreateSession(i, r.len, c)
    <3>1. PICK i \in Sessions, r \in Rules, c \in Counts : CreateSession(i, r.len, c)
      BY <2>2
    <3>2. j # <<i, now>>
      BY <1>0, <2>1, <3>1 DEF CreateSession, TypeOK
    <3> QED BY <1>0, <3>1, <3>2 DEF CreateSession, TypeOK
  <2>3. CASE \E s \in Schedules, r \in Rules, c \in Counts : SaveSchedule(s, r, c)
    <3>1. PICK s \in Schedules, r \in Rules, c \in Counts : SaveSchedule(s, r, c)
      BY <2>3
    <3>0. IInv
      BY DEF StreamInv
    <3>2. PICK start \in Time :
            /\ start > now /\ <<s, start>> \in JobIds
            /\ sched' = [sched EXCEPT ![s] = [state |-> "active", rule |-> r,
                                              next |-> start, count |-> c]]
            /\ job' = [job EXCEPT ![<<s, start>>] = NewJob(r.len, c)]
            /\ pending' = {[sched |-> s, keep |-> {<<s, start>>}]} /\ pending = {}
            /\ UNCHANGED <<now, worker, leftover>>
      BY <3>0, <3>1, SaveScheduleWrites
    <3>3. j # <<s, start>>
      BY <1>0, <2>1, <3>2, StartTyped DEF Start
    <3> QED BY <1>0, <3>2, <3>3 DEF TypeOK
  <2>4. CASE \E s \in Schedules : DeleteSchedule(s)
    BY <2>4 DEF DeleteSchedule
  <2>5. CASE CancelUpcoming
    BY <1>0, <2>1, <2>5 DEF CancelUpcoming, Upcoming, TypeOK, Job
  <2>6. CASE \E k \in JobIds : Stop(k) \/ DeleteSession(k)
    BY <1>0, <2>1, <2>6 DEF Stop, DeleteSession, TypeOK, Job, Final
  <2> QED BY <2>2, <2>3, <2>4, <2>5, <2>6 DEF Handler
<1>2. Relaying' \subseteq Relaying
  BY <1>0 DEF Relaying
<1>3. RelayFits'
  BY <1>1, <1>2, OthersRelayFits DEF Relaying
<1>4. WorkersHaveJobs'
  BY <1>0, HandlerKeepsJobs DEF StreamInv, WorkersHaveJobs
<1>5. PackagingCapturesNothing'
  BY <1>0, <1>1 DEF StreamInv, PackagingCapturesNothing, TypeOK
<1> QED BY <1>3, <1>4, <1>5

LEMMA TickStreams ==
  ASSUME StreamInv, TypeOK', Tick
  PROVE  WorkersHaveJobs' /\ PackagingCapturesNothing'
<1>1. TypeOK /\ UNCHANGED leftover
  BY DEF StreamInv, IInv, Tick
<1>2. WorkersHaveJobs'
  <2> SUFFICES ASSUME NEW j \in JobIds, worker'[j] # "none" PROVE Exists(j)'
    BY DEF WorkersHaveJobs
  <2>1. CASE worker'[j] = worker[j]
    BY <1>1, <2>1, TickJobs DEF StreamInv, WorkersHaveJobs, Exists, SameRecord, NowMissed,
                                NewOccurrence
  <2>2. CASE worker'[j] # worker[j]
    BY <1>1, <2>2, TickWorkers DEF Exists
  <2> QED BY <2>1, <2>2
<1>3. PackagingCapturesNothing'
  <2>0. PICK out \in [Ready -> {"ok", "invalid", "unsaved"}] : LET jb == JobsMissed(JobsAdvanced(out)) IN
          /\ job' = [j \in JobIds |-> IF Expired(jb, j) THEN [jb[j] EXCEPT !.tomb = TRUE]
                                                        ELSE jb[j]]
          /\ \E L \in SUBSET Startable(jb) :
               /\ worker' = [j \in JobIds |-> IF j \in L THEN "launched" ELSE worker[j]]
               /\ packaging' = (packaging \ L) \cup {j \in L : jb[j].state = "finalizing"}
    BY DEF Tick
  <2> DEFINE jb == JobsMissed(JobsAdvanced(out))
  <2>1. PICK L \in SUBSET Startable(jb) :
          /\ worker' = [j \in JobIds |-> IF j \in L THEN "launched" ELSE worker[j]]
          /\ packaging' = (packaging \ L) \cup {j \in L : jb[j].state = "finalizing"}
    BY <2>0
  <2> SUFFICES ASSUME NEW j \in packaging' \ leftover
               PROVE  /\ worker'[j] = "launched" => job'[j].state = "finalizing"
                      /\ worker'[j] # "capturing"
    BY <1>1 DEF PackagingCapturesNothing
  <2>2. j \in JobIds
    BY DEF TypeOK
  <2>3. CASE j \in L
    BY <2>0, <2>1, <2>2, <2>3 DEF Expired, Final
  <2>4. CASE j \notin L
    <3>1. j \in packaging /\ worker'[j] = worker[j]
      BY <2>1, <2>2, <2>4
    <3>2. worker[j] = "launched" => SameRecord(j)
      BY <2>2, TickKeepsCounts DEF StreamInv
    <3> QED BY <3>1, <3>2 DEF StreamInv, PackagingCapturesNothing, SameRecord
  <2> QED BY <2>3, <2>4
<1> QED BY <1>2, <1>3

LEMMA WorkerStreams ==
  ASSUME StreamInv, TypeOK', NEW j \in JobIds, Worker(j)
  PROVE  RelayFits' /\ WorkersHaveJobs' /\ PackagingCapturesNothing'
<1>1. /\ TypeOK /\ UNCHANGED leftover /\ worker[j] # "none" /\ job[j] \in Job
      /\ \A k \in JobIds \ {j} : job'[k] = job[k] /\ worker'[k] = worker[k]
      /\ packaging' \ {j} = packaging \ {j}
      /\ j \in packaging => j \in packaging' \/ worker'[j] = "none"
      /\ Exists(j) => Exists(j)'
      /\ job'[j].count = job[j].count
  BY DEF StreamInv, IInv, TypeOK, Job, Exists, Worker, Begin, CaptureEnd, EnterFinalizing,
         Finalize, Exit, Outcomes
<1>2. RelayFits'
  <2>1. Relaying' \subseteq Relaying
    BY <1>1 DEF Relaying
  <2>2. \A k \in Relaying' : job'[k].count = job[k].count
    BY <1>1 DEF Relaying
  <2> QED BY <2>1, <2>2, OthersRelayFits
<1>3. WorkersHaveJobs'
  BY <1>1 DEF StreamInv, WorkersHaveJobs, Exists
<1>4. PackagingCapturesNothing'
  <2>1. j \in packaging' => worker'[j] \notin {"launched", "capturing"}
                            \/ j \in leftover
    <3>1. CASE Begin(j)
      BY <1>1, <3>1 DEF Begin, StreamInv, PackagingCapturesNothing, TypeOK
    <3>2. CASE CaptureEnd(j) \/ EnterFinalizing(j) \/ Finalize(j) \/ Exit(j)
      BY <1>1, <3>2 DEF CaptureEnd, EnterFinalizing, Finalize, Exit, TypeOK
    <3> QED BY <3>1, <3>2 DEF Worker
  <2> QED BY <1>1, <2>1 DEF StreamInv, PackagingCapturesNothing, TypeOK
<1> QED BY <1>2, <1>3, <1>4

LEMMA StreamInvariance == Spec => []StreamInv
<1>1. Init => StreamInv
  <2> SUFFICES ASSUME Init PROVE StreamInv
    OBVIOUS
  <2>1. IInv /\ Relaying = {} /\ WorkersHaveJobs /\ PackagingCapturesNothing
    BY InitInv DEF Init, Relaying, WorkersHaveJobs, PackagingCapturesNothing
  <2>2. Streams(job, Relaying) = 0
    BY <2>1, FS_EmptySet DEF Streams, Total
  <2> QED BY <2>1, <2>2, ConstantsOK DEF StreamInv, RelayFits
<1>2. StreamInv /\ [Next]_vars => StreamInv'
  <2> SUFFICES ASSUME StreamInv, [Next]_vars PROVE StreamInv'
    OBVIOUS
  <2>0. IInv' /\ TypeOK'
    BY NextInv DEF StreamInv, IInv
  <2>1. CASE Handler
    BY <2>0, <2>1, HandlerStreams DEF StreamInv
  <2>2. CASE Tick
    BY <2>0, <2>2, TickRelayFits, TickStreams DEF StreamInv
  <2>3. CASE \E j \in JobIds : Worker(j)
    BY <2>0, <2>3, WorkerStreams DEF StreamInv
  <2>4. CASE Advance \/ UNCHANGED vars
    BY <2>0, <2>4 DEF Advance, vars, StreamInv, RelayFits, Relaying, WorkersHaveJobs, Exists,
                      PackagingCapturesNothing
  <2>5. CASE Restart
    <3>1. Relaying' = {} /\ \A j \in JobIds : worker'[j] = "none"
      BY <2>5 DEF Restart, Relaying
    <3>2. RelayFits'
      BY <2>0, <3>1, OthersRelayFits
    <3> QED BY <2>0, <2>5, <3>1, <3>2 DEF Restart, StreamInv, WorkersHaveJobs,
                                          PackagingCapturesNothing
  <2> QED BY <2>1, <2>2, <2>3, <2>4, <2>5 DEF Next
<1> QED BY <1>1, <1>2, PTL DEF Spec

\* The capture workers never take more stations than the limit: each tick counts the jobs
\* it finds running outside packaging and those it has just launched, and until they end
\* no other step gives a running job another count or takes it out of packaging.
THEOREM StreamLimit == Spec => []StreamsWithinLimit
<1>1. StreamInv => StreamsWithinLimit
  <2> SUFFICES ASSUME StreamInv PROVE StreamsWithinLimit
    OBVIOUS
  <2> DEFINE capturing == {j \in JobIds : worker[j] = "capturing" /\ j \notin leftover}
  <2>1. capturing \subseteq Relaying /\ Relaying \subseteq JobIds
    BY DEF Relaying, StreamInv, PackagingCapturesNothing
  <2>2. \A j \in Relaying : job[j].count \in Nat
    BY <2>1, CountTyped DEF StreamInv, IInv
  <2>3. /\ Streams(job, capturing) \in Nat /\ Streams(job, Relaying) \in Nat
        /\ Streams(job, capturing) <= Streams(job, Relaying)
    BY <2>1, <2>2, StreamsOfPart
  <2> QED BY <2>3, ConstantsOK DEF StreamInv, RelayFits, StreamsWithinLimit
<1> QED BY <1>1, StreamInvariance, PTL

-----------------------------------------------------------------------------
(* Windows and their demand                                                 *)

Windows(W) ==
  IsFiniteSet(W) /\ \A w \in W : w.start \in Nat /\ w.end \in Nat /\ w.count \in Nat
Cover(W, t) == {w \in W : w.start <= t /\ t < w.end}

LEMMA StationsTyped ==
  ASSUME NEW W, Windows(W)
  PROVE  StationSum(W) \in Nat
<1> DEFINE n == [w \in W |-> w.count]
<1>1. Weights(n, W)
  BY DEF Weights, Windows
<1> QED BY <1>1, UnitsFinite DEF StationSum

LEMMA CoverWindows ==
  ASSUME NEW W, Windows(W), NEW t
  PROVE  Windows(Cover(W, t)) /\ DemandAt(W, t) = StationSum(Cover(W, t))
         /\ DemandAt(W, t) \in Nat
<1>1. Windows(Cover(W, t))
  BY FS_Subset DEF Windows, Cover
<1>2. DemandAt(W, t) = StationSum(Cover(W, t))
  BY DEF DemandAt, Cover
<1> QED BY <1>1, <1>2, StationsTyped

\* Windows that can be put one to one among others, with their counts, demand no more.
LEMMA StationsInject ==
  ASSUME NEW S, NEW T, Windows(T), NEW g \in Injection(S, T),
         \A w \in S : w.count = g[w].count
  PROVE  StationSum(S) <= StationSum(T)
<1> DEFINE n == [w \in S |-> w.count]
           m == [w \in T |-> w.count]
<1>1. Weights(m, T)
  BY DEF Weights, Windows
<1>2. \A w \in S : g[w] \in T
  BY DEF Injection
<1>3. \A w \in S : n[w] = m[g[w]]
  BY <1>2
<1> HIDE DEF n, m
<1>4. Total(n, S) <= Total(m, T)
  BY <1>1, <1>3, TotalInjects
<1> QED BY <1>4 DEF StationSum, n, m

LEMMA StationsOfPart ==
  ASSUME NEW T, Windows(T), NEW S \in SUBSET T
  PROVE  StationSum(S) <= StationSum(T)
<1> DEFINE g == [w \in S |-> w]
<1>1. g \in Injection(S, T) /\ \A w \in S : w.count = g[w].count
  BY DEF Injection, IsInjective
<1> QED BY <1>1, StationsInject

\* The edge sweep of overlapValid looks at the starts only.  It is enough: what covers
\* an instant covers the latest start among what covers it.
LEMMA Sweep ==
  ASSUME NEW W, Windows(W), OverlapValid(W), NEW t \in Nat
  PROVE  DemandAt(W, t) <= MaxStreams
<1>1. CASE Cover(W, t) = {}
  <2>1. StationSum({}) = 0
    BY FS_EmptySet DEF StationSum, Total
  <2> QED BY <1>1, <2>1, CoverWindows, ConstantsOK
<1>2. CASE Cover(W, t) # {}
  <2> DEFINE f == [w \in Cover(W, t) |-> w.start]
             starts == {f[w] : w \in Cover(W, t)}
  <2>1. IsFiniteSet(starts)
    <3>1. f \in Surjection(Cover(W, t), starts)
      BY DEF Surjection
    <3> QED BY <3>1, CoverWindows, FS_Surjection DEF Windows
  <2>2. starts \in SUBSET Nat /\ starts # {}
    BY <1>2 DEF Cover, Windows
  <2>3. PICK m \in starts : \A x \in starts : x <= m
    BY <2>1, <2>2, LastInstant
  <2>4. m \in Nat /\ m <= t /\ m \in {w.start : w \in W}
    BY <2>2, <2>3 DEF Cover
  <2>5. Cover(W, t) \subseteq Cover(W, m)
    <3> SUFFICES ASSUME NEW w \in Cover(W, t) PROVE w \in Cover(W, m)
      OBVIOUS
    <3>1. w \in W /\ w.start \in Nat /\ w.end \in Nat /\ w.start <= t /\ t < w.end
      BY DEF Cover, Windows
    <3>2. w.start <= m
      BY <2>3
    <3> QED BY <2>4, <3>1, <3>2 DEF Cover
  <2>6. StationSum(Cover(W, t)) <= StationSum(Cover(W, m))
    BY <2>5, CoverWindows, StationsOfPart
  <2>7. DemandAt(W, m) <= MaxStreams
    BY <2>4 DEF OverlapValid
  <2>8. /\ DemandAt(W, t) = StationSum(Cover(W, t)) /\ DemandAt(W, t) \in Nat
        /\ DemandAt(W, m) = StationSum(Cover(W, m)) /\ DemandAt(W, m) \in Nat
    BY CoverWindows
  <2> QED BY <2>6, <2>7, <2>8, ConstantsOK
<1> QED BY <1>1, <1>2

\* The images of a finite set under a function are finitely many.
LEMMA ImageFinite ==
  ASSUME NEW S, IsFiniteSet(S), NEW f
  PROVE  IsFiniteSet({f[x] : x \in S})
<1> DEFINE h == [x \in S |-> f[x]]
           T == {f[x] : x \in S}
<1>1. h \in Surjection(S, T)
  BY DEF Surjection
<1> QED BY <1>1, FS_Surjection

LEMMA StartsInTime ==
  ASSUME NEW r \in Rules, NEW after
  PROVE  WindowStarts(r, after) \subseteq Time /\ Time \subseteq Nat /\ r.len \in Nat
<1>1. r \in Rule /\ Time \subseteq Nat
  BY ConstantsOK DEF Time
<1> QED BY <1>1 DEF WindowStarts, Rule

\* Every window of a rule, the horizon left aside.
AllWindows(src, r, after, count) ==
  {Window(src, t, r.len, count) : t \in WindowStarts(r, after)}

LEMMA AllWindowsTyped ==
  ASSUME NEW src, NEW r \in Rules, NEW after, NEW count \in Nat
  PROVE  Windows(AllWindows(src, r, after, count))
<1> DEFINE S == WindowStarts(r, after)
           f == [t \in S |-> Window(src, t, r.len, count)]
<1>1. S \subseteq Time /\ Time \subseteq Nat /\ r.len \in Nat
  BY StartsInTime
<1>2. IsFiniteSet(Time)
  BY ConstantsOK, FS_Interval DEF Time
<1>3. IsFiniteSet(S)
  BY <1>1, <1>2, FS_Subset
<1>4. AllWindows(src, r, after, count) = {f[t] : t \in S}
  BY DEF AllWindows
<1>5. IsFiniteSet({f[t] : t \in S})
  BY <1>3, ImageFinite
<1>6. ASSUME NEW t \in S
      PROVE  f[t].start \in Nat /\ f[t].end \in Nat /\ f[t].count \in Nat
  <2>1. t \in Nat /\ r.len \in Nat
    BY <1>1
  <2>2. f[t] = Window(src, t, r.len, count)
    OBVIOUS
  <2> QED BY <2>1, <2>2 DEF Window
<1> HIDE DEF f
<1> QED BY <1>4, <1>5, <1>6 DEF Windows

LEMMA RuleWindowsTyped ==
  ASSUME NEW src, NEW r \in Rules, NEW after, NEW count \in Nat
  PROVE  /\ Windows(RuleWindows(src, r, after, count))
         /\ RuleWindows(src, r, after, count) \subseteq AllWindows(src, r, after, count)
<1>1. RuleWindows(src, r, after, count) \subseteq AllWindows(src, r, after, count)
  BY DEF RuleWindows, AllWindows
<1> QED BY <1>1, AllWindowsTyped, FS_Subset DEF Windows

\* The windows of the schedules of S, each with its rule in sc, seen at the instant n:
\* all of them, and those within the horizon.
SchedWindows(sc, n, S) == UNION {AllWindows(<<z>>, sc[z].rule, n, sc[z].count) : z \in S}
NearWindows(sc, n, S)  == UNION {RuleWindows(<<z>>, sc[z].rule, n, sc[z].count) : z \in S}

LEMMA SchedWindowsTyped ==
  ASSUME NEW S \in SUBSET Schedules, NEW sc, NEW n,
         \A z \in S : sc[z].rule \in Rules /\ sc[z].count \in Nat
  PROVE  Windows(SchedWindows(sc, n, S)) /\ Windows(NearWindows(sc, n, S))
<1> DEFINE f == [z \in S |-> AllWindows(<<z>>, sc[z].rule, n, sc[z].count)]
           T == {f[z] : z \in S}
<1>1. IsFiniteSet(S)
  BY ConstantsOK, FS_Subset
<1>2. IsFiniteSet(T)
  BY <1>1, ImageFinite
<1>3. \A z \in S : Windows(f[z])
  BY AllWindowsTyped
<1>4. \A p \in T : IsFiniteSet(p)
  BY <1>3 DEF Windows
<1>5. SchedWindows(sc, n, S) = UNION T
  BY DEF SchedWindows
<1>6. NearWindows(sc, n, S) \subseteq SchedWindows(sc, n, S)
  BY RuleWindowsTyped DEF NearWindows, SchedWindows
<1> HIDE DEF f
<1>7. \A w \in UNION T : w.start \in Nat /\ w.end \in Nat /\ w.count \in Nat
  BY <1>3 DEF Windows
<1>8. Windows(SchedWindows(sc, n, S))
  BY <1>2, <1>4, <1>5, <1>7, FS_UNION DEF Windows
<1> QED BY <1>6, <1>8, FS_Subset DEF Windows

LEMMA SchedWindowsMember ==
  ASSUME NEW S, NEW sc, NEW n, NEW w
  PROVE  w \in SchedWindows(sc, n, S) <=>
           \E z \in S : \E t \in WindowStarts(sc[z].rule, n) :
             w = Window(<<z>>, t, sc[z].rule.len, sc[z].count)
<1>1. w \in SchedWindows(sc, n, S) <=>
        \E z \in S : w \in AllWindows(<<z>>, sc[z].rule, n, sc[z].count)
  BY DEF SchedWindows
<1>2. \A z \in S : w \in AllWindows(<<z>>, sc[z].rule, n, sc[z].count) <=>
        \E t \in WindowStarts(sc[z].rule, n) :
          w = Window(<<z>>, t, sc[z].rule.len, sc[z].count)
  BY DEF AllWindows
<1> QED BY <1>1, <1>2

LEMMA JobWindowsTyped ==
  ASSUME TypeOK, NEW J \in SUBSET JobIds
  PROVE  Windows({Window(j, Start(j), job[j].len, job[j].count) : j \in J})
<1> DEFINE f == [j \in J |-> Window(j, Start(j), job[j].len, job[j].count)]
<1>1. IsFiniteSet(J)
  BY JobsFinite, FS_Subset
<1>2. IsFiniteSet({f[j] : j \in J})
  BY <1>1, ImageFinite
<1>3. \A j \in J : Start(j) \in Nat /\ job[j].len \in Nat /\ job[j].count \in Nat
  BY JobIdParts, CountTyped DEF Job
<1>4. \A j \in J : f[j].start \in Nat /\ f[j].end \in Nat /\ f[j].count \in Nat
  BY <1>3 DEF Window
<1> QED BY <1>2, <1>4 DEF Windows

LEMMA WindowsUnion ==
  ASSUME NEW V, NEW W, Windows(V), Windows(W)
  PROVE  Windows(V \cup W)
BY FS_Union DEF Windows

-----------------------------------------------------------------------------
(* The demand of the occurrences still to start                             *)

\* A start of a rule is one whichever earlier instant the search begins at.
LEMMA StartAgain ==
  ASSUME NEW r \in Rules, NEW after \in Int, NEW t \in WindowStarts(r, after),
         NEW earlier \in Int, earlier < t
  PROVE  t \in WindowStarts(r, earlier)
BY StartsInTime DEF WindowStarts

LEMMA FewerStarts ==
  ASSUME NEW r \in Rules, NEW m \in Nat, NEW n \in Nat, m <= n
  PROVE  WindowStarts(r, n) \subseteq WindowStarts(r, m)
<1>1. Time \subseteq Nat
  BY ConstantsOK DEF Time
<1>2. CASE r.kind = "once"
  BY <1>2 DEF WindowStarts
<1>3. CASE r.kind # "once"
  <2>1. /\ WindowStarts(r, n) = {t \in Time : t > n /\ t <= r.until /\ t % Day = r.first % Day}
        /\ WindowStarts(r, m) = {t \in Time : t > m /\ t <= r.until /\ t % Day = r.first % Day}
    BY <1>3 DEF WindowStarts
  <2>2. \A t \in Time : t > n => t > m
    BY <1>1
  <2> QED BY <2>1, <2>2
<1> QED BY <1>2, <1>3

-----------------------------------------------------------------------------
(* The horizon                                                              *)

LEMMA DivMod ==
  ASSUME NEW d \in Nat \ {0}, NEW t \in Nat
  PROVE  t = d * (t \div d) + (t % d) /\ t % d \in 0 .. d - 1 /\ t \div d \in Nat
BY SMTT(30)

LEMMA SmallMultiple ==
  ASSUME NEW d \in Nat \ {0}, NEW x \in Int, d * x < d, d * x > -d
  PROVE  x = 0
<1>1. CASE x >= 1
  <2>1. d * x >= d * 1
    BY <1>1, SMTT(30)
  <2> QED BY <2>1
<1>2. CASE x <= -1
  <2>1. d * x <= d * (-1)
    BY <1>2, SMTT(30)
  <2> QED BY <2>1
<1> QED BY <1>1, <1>2

\* A day earlier is the same time of day.
LEMMA SameTimeOfDay ==
  ASSUME NEW d \in Nat \ {0}, NEW t \in Nat, t >= d
  PROVE  (t - d) % d = t % d
<1> DEFINE q == t \div d
           r == t % d
           p == (t - d) \div d
           s == (t - d) % d
<1>1. t - d \in Nat
  OBVIOUS
<1>2. t = d * q + r /\ r \in 0 .. d - 1 /\ q \in Nat
  BY DivMod
<1>3. t - d = d * p + s /\ s \in 0 .. d - 1 /\ p \in Nat
  BY <1>1, DivMod
<1> HIDE DEF q, r, p, s
<1>4. d * (q - 1 - p) = s - r
  BY <1>2, <1>3, SMTT(30)
<1>5. q - 1 - p = 0
  BY <1>2, <1>3, <1>4, SmallMultiple
<1>6. s = r
  BY <1>2, <1>3, <1>4, <1>5
<1> QED BY <1>6 DEF r, s

LEMMA StartADayEarlier ==
  ASSUME NEW r \in Rules, r.kind # "once", NEW after \in Nat, NEW t \in WindowStarts(r, after),
         t - Day > after
  PROVE  t - Day \in WindowStarts(r, after)
<1>1. /\ t \in Time /\ t > after /\ t <= r.until /\ t % Day = r.first % Day
      /\ Day \in Nat \ {0} /\ r.until \in Time /\ MaxTime \in Nat
  BY ConstantsOK DEF WindowStarts, Rule
<1>2. /\ t \in Nat /\ t >= Day /\ t - Day \in Time /\ t - Day <= r.until
  BY <1>1 DEF Time
<1>3. (t - Day) % Day = r.first % Day
  BY <1>1, <1>2, SameTimeOfDay
<1> QED BY <1>2, <1>3 DEF WindowStarts

\* Windows that fit as far as the horizon reaches fit beyond it too: only recurrences are
\* in force there, and what they demand at an instant they demand a day earlier as well.
LEMMA HorizonEnough ==
  ASSUME NEW S \in SUBSET Schedules, NEW sc, NEW n \in Nat,
         \A z \in S : sc[z].rule \in Rules /\ sc[z].count \in Nat,
         \A z \in S : sc[z].rule.kind = "once" =>
                        sc[z].rule.first + sc[z].rule.len <= n + Horizon + 1,
         \A t \in n + 1 .. MaxTime : DemandAt(NearWindows(sc, n, S), t) <= MaxStreams,
         NEW t \in n + 1 .. MaxTime
  PROVE  DemandAt(SchedWindows(sc, n, S), t) <= MaxStreams
<1> DEFINE W == SchedWindows(sc, n, S)
           V == NearWindows(sc, n, S)
           B == {u \in n + 1 .. MaxTime : ~(DemandAt(W, u) <= MaxStreams)}
<1>0. MaxTime \in Nat /\ Horizon \in Nat /\ Day \in Nat \ {0} /\ MaxStreams \in Nat
  BY ConstantsOK
<1>1. Windows(W) /\ Windows(V)
  BY SchedWindowsTyped
<1> SUFFICES ASSUME B # {} PROVE FALSE
  OBVIOUS
<1>2. B \in SUBSET Nat
  BY <1>0
<1> DEFINE m == Min(B)
<1>3. m \in B /\ \A u \in B : m <= u
  BY <1>2, MinInSet
<1> HIDE DEF m
<1>4. m \in n + 1 .. MaxTime /\ m \in Nat /\ ~(DemandAt(W, m) <= MaxStreams)
  BY <1>2, <1>3
<1> HIDE DEF B
<1>5. /\ DemandAt(W, m) = StationSum(Cover(W, m)) /\ DemandAt(W, m) \in Nat
      /\ DemandAt(V, m) = StationSum(Cover(V, m)) /\ DemandAt(V, m) \in Nat
      /\ Windows(Cover(V, m))
  BY <1>1, CoverWindows
\* What covers an instant, and whence it comes.
<1>6. ASSUME NEW w \in Cover(W, m)
      PROVE  \E z \in S : \E x \in WindowStarts(sc[z].rule, n) :
               /\ w = Window(<<z>>, x, sc[z].rule.len, sc[z].count)
               /\ x \in Nat /\ sc[z].rule.len \in Nat /\ x <= m /\ m < x + sc[z].rule.len
  <2>1. PICK z \in S : \E x \in WindowStarts(sc[z].rule, n) :
               w = Window(<<z>>, x, sc[z].rule.len, sc[z].count)
    BY SchedWindowsMember DEF Cover
  <2>2. PICK x \in WindowStarts(sc[z].rule, n) :
               w = Window(<<z>>, x, sc[z].rule.len, sc[z].count)
    BY <2>1
  <2>3. x \in Nat /\ sc[z].rule.len \in Nat
    BY StartsInTime
  <2>4. w.start = x /\ w.end = x + sc[z].rule.len /\ w.start <= m /\ m < w.end
    BY <2>2 DEF Window, Cover
  <2> QED BY <2>2, <2>3, <2>4
<1>7. CASE m <= n + Horizon
  <2>1. Cover(W, m) \subseteq Cover(V, m)
    <3> SUFFICES ASSUME NEW w \in Cover(W, m) PROVE w \in Cover(V, m)
      OBVIOUS
    <3>1. PICK z \in S : \E x \in WindowStarts(sc[z].rule, n) :
               /\ w = Window(<<z>>, x, sc[z].rule.len, sc[z].count)
               /\ x \in Nat /\ sc[z].rule.len \in Nat /\ x <= m /\ m < x + sc[z].rule.len
      BY <1>6
    <3>2. PICK x \in WindowStarts(sc[z].rule, n) :
               /\ w = Window(<<z>>, x, sc[z].rule.len, sc[z].count)
               /\ x \in Nat /\ sc[z].rule.len \in Nat /\ x <= m /\ m < x + sc[z].rule.len
      BY <3>1
    <3>3. x <= n + Horizon
      BY <1>0, <1>4, <1>7, <3>2
    <3>4. w \in RuleWindows(<<z>>, sc[z].rule, n, sc[z].count)
      BY <3>2, <3>3 DEF RuleWindows
    <3> QED BY <3>4 DEF Cover, NearWindows
  <2> HIDE DEF W, V
  <2>2. StationSum(Cover(W, m)) <= StationSum(Cover(V, m))
    BY <1>5, <2>1, StationsOfPart
  <2>3. DemandAt(V, m) <= MaxStreams
    BY <1>4 DEF V
  <2> QED BY <1>0, <1>4, <1>5, <2>2, <2>3
<1>8. CASE m > n + Horizon
  <2> DEFINE g == [w \in Cover(W, m) |-> [w EXCEPT !.start = @ - Day, !.end = @ - Day]]
  <2>1. ASSUME NEW w \in Cover(W, m)
        PROVE  /\ m - Day \in n + 1 .. MaxTime
               /\ g[w] \in Cover(W, m - Day) /\ w.count = g[w].count
               /\ w = [src |-> g[w].src, start |-> g[w].start + Day, end |-> g[w].end + Day,
                       count |-> g[w].count]
    <3>1. PICK z \in S : \E x \in WindowStarts(sc[z].rule, n) :
               /\ w = Window(<<z>>, x, sc[z].rule.len, sc[z].count)
               /\ x \in Nat /\ sc[z].rule.len \in Nat /\ x <= m /\ m < x + sc[z].rule.len
      BY <1>6
    <3> DEFINE r == sc[z].rule
    <3>2. PICK x \in WindowStarts(r, n) :
               /\ w = Window(<<z>>, x, r.len, sc[z].count)
               /\ x \in Nat /\ r.len \in Nat /\ x <= m /\ m < x + r.len
      BY <3>1
    <3>3. r \in Rules /\ r.kind \in {"once", "daily"}
      BY ConstantsOK DEF Rule
    <3>4. r.kind # "once"
      <4> SUFFICES ASSUME r.kind = "once" PROVE FALSE
        OBVIOUS
      <4>1. x = r.first /\ r.first + r.len <= n + Horizon + 1
        BY <3>2 DEF WindowStarts
      <4> HIDE DEF r
      <4> QED BY <1>0, <1>4, <1>8, <3>2, <4>1
    <3>5. r.len + Day <= Horizon + 1
      BY <3>3, <3>4, ConstantsOK
    <3> HIDE DEF r
    <3>6. x - Day > n /\ m - Day \in n + 1 .. MaxTime
      BY <1>0, <1>4, <1>8, <3>2, <3>5
    <3>7. x - Day \in WindowStarts(r, n)
      BY <3>3, <3>4, <3>6, StartADayEarlier
    <3>8. g[w] = Window(<<z>>, x - Day, r.len, sc[z].count)
      <4>1. g[w] = [w EXCEPT !.start = @ - Day, !.end = @ - Day]
        OBVIOUS
      <4>2. (x + r.len) - Day = (x - Day) + r.len
        BY <1>0, <3>2
      <4> HIDE DEF g
      <4> QED BY <3>2, <4>1, <4>2 DEF Window
    <3>9. g[w] \in W
      BY <3>7, <3>8 DEF SchedWindows, AllWindows, r
    <3>10. g[w].start <= m - Day /\ m - Day < g[w].end /\ w.count = g[w].count
      BY <1>0, <1>4, <3>2, <3>8 DEF Window
    <3>11. w = [src |-> g[w].src, start |-> g[w].start + Day, end |-> g[w].end + Day,
                count |-> g[w].count]
      <4> DEFINE early == g[w]
      <4>1. /\ early.src = <<z>> /\ early.start = x - Day /\ early.end = (x - Day) + r.len
            /\ early.count = sc[z].count
        BY <3>8 DEF Window
      <4>2. early.start + Day = x /\ early.end + Day = x + r.len
        BY <1>0, <3>2, <4>1
      <4> HIDE DEF early
      <4>3. w = [src |-> early.src, start |-> early.start + Day, end |-> early.end + Day,
                 count |-> early.count]
        BY <3>2, <4>1, <4>2 DEF Window
      <4> QED BY <4>3 DEF early
    <3> QED BY <3>6, <3>9, <3>10, <3>11 DEF Cover
  <2>2. CASE Cover(W, m) = {}
    <3>1. StationSum({}) = 0
      BY FS_EmptySet DEF StationSum, Total
    <3> QED BY <1>0, <1>4, <1>5, <2>2, <3>1
  <2>3. CASE Cover(W, m) # {}
    <3>1. m - Day \in n + 1 .. MaxTime
      BY <2>1, <2>3
    <3>2. m - Day \in Nat /\ m - Day < m
      BY <1>0, <1>4, <3>1
    <3>3. DemandAt(W, m - Day) <= MaxStreams
      BY <1>3, <1>4, <3>1, <3>2 DEF B
    <3>4. g \in Injection(Cover(W, m), Cover(W, m - Day))
      <4>1. \A w \in Cover(W, m) : g[w] \in Cover(W, m - Day)
        BY <2>1
      <4>2. g \in [Cover(W, m) -> Cover(W, m - Day)]
        BY <4>1
      <4>3. \A w \in Cover(W, m) :
              w = [src |-> g[w].src, start |-> g[w].start + Day, end |-> g[w].end + Day,
                   count |-> g[w].count]
        BY <2>1
      <4> HIDE DEF g, W
      <4>4. \A v, w \in Cover(W, m) : g[v] = g[w] => v = w
        BY <4>3
      <4> QED BY <4>2, <4>4 DEF Injection, IsInjective
    <3>5. \A w \in Cover(W, m) : w.count = g[w].count
      BY <2>1
    <3> HIDE DEF g, W
    <3>6. /\ Windows(Cover(W, m - Day)) /\ DemandAt(W, m - Day) \in Nat
          /\ DemandAt(W, m - Day) = StationSum(Cover(W, m - Day))
      BY <1>1, CoverWindows
    <3>7. StationSum(Cover(W, m)) <= StationSum(Cover(W, m - Day))
      BY <3>4, <3>5, <3>6, StationsInject
    <3> QED BY <1>0, <1>4, <1>5, <3>3, <3>6, <3>7
  <2> QED BY <2>2, <2>3
<1> QED BY <1>0, <1>4, <1>7, <1>8

-----------------------------------------------------------------------------
(* What the schedules reserve                                               *)

\* Schedules whose windows are reserved, and the windows.
Reserving == {z \in Schedules \ far : sched[z].state = "active"}
Reserved == SchedWindows(sched, now, Reserving)
\* What is reserved ends within the horizon, but for recurrences.
Reaches(z) == ~PastHorizon(sched[z].rule)
InReach == \A z \in Reserving : Reaches(z)
ReservedFits == \A t \in now + 1 .. MaxTime : DemandAt(Reserved, t) <= MaxStreams

\* The next occurrence of a schedule is one of its rule's.
NextIsStart ==
  \A z \in Schedules : sched[z].state = "active" =>
    sched[z].next \in WindowStarts(sched[z].rule, sched[z].next - 1)

\* An immediate recording starts at once.
SessionsStarted ==
  \A j \in JobIds : Owner(j) \in Sessions /\ Exists(j) => Start(j) <= now

\* A job that still waits is the next occurrence of its schedule, with the schedule's
\* length and stations, unless the handler that holds the mutex is about to cancel it.
Settled(j) == \A p \in pending : p.sched = Owner(j) => j \in p.keep
Waiting(j) == job[j].state = "scheduled" /\ Start(j) > now
IsNext(j) == LET c == sched[Owner(j)] IN
  /\ c.state = "active" /\ c.next = Start(j)
  /\ job[j].len = c.rule.len /\ job[j].count = c.count
UpcomingIsNext ==
  \A j \in JobIds \ leftover : Owner(j) \in Schedules /\ Waiting(j) /\ Settled(j) => IsNext(j)

DemandInv == /\ IInv /\ ReservedFits /\ InReach /\ NextIsStart /\ SessionsStarted
             /\ UpcomingIsNext

LEMMA RulesTyped ==
  ASSUME TypeOK
  PROVE  \A z \in Schedules : sched[z].rule \in Rules /\ sched[z].count \in Nat
<1> SUFFICES ASSUME NEW z \in Schedules PROVE sched[z].rule \in Rules /\ sched[z].count \in Nat
  OBVIOUS
<1>1. sched[z] \in Sched /\ sched[z].count \in 0 .. MaxStreams /\ MaxStreams \in Nat
  BY SchedTyped, ConstantsOK
<1> QED BY <1>1 DEF Sched

LEMMA ReservedTyped ==
  ASSUME TypeOK, NEW S \in SUBSET Schedules
  PROVE  Windows(SchedWindows(sched, now, S)) /\ Windows(NearWindows(sched, now, S))
<1> QED BY RulesTyped, SchedWindowsTyped

LEMMA LaterInstants ==
  ASSUME NEW a \in Nat, NEW b \in Nat, NEW m \in Nat, a <= b
  PROVE  b + 1 .. m \subseteq a + 1 .. m /\ b + 1 .. m \subseteq Nat
OBVIOUS

\* Windows are only released when no schedule is saved.
LEMMA ReservedShrinks ==
  ASSUME TypeOK, TypeOK', ReservedFits, now <= now',
         \A z \in Reserving' : /\ z \in Reserving /\ sched'[z].rule = sched[z].rule
                               /\ sched'[z].count = sched[z].count
  PROVE  ReservedFits'
<1>0. now \in Nat /\ now' \in Nat /\ MaxTime \in Nat
  BY ConstantsOK DEF TypeOK, Time
<1>1. Windows(Reserved)
  BY ReservedTyped DEF Reserved, Reserving
<1>2. Reserved' \subseteq Reserved
  <2> SUFFICES ASSUME NEW w \in Reserved' PROVE w \in Reserved
    OBVIOUS
  <2>1. PICK z \in Reserving' :
          w \in AllWindows(<<z>>, sched'[z].rule, now', sched'[z].count)
    BY DEF Reserved, SchedWindows
  <2>2. z \in Reserving /\ sched[z].rule \in Rules
    BY <2>1, SchedTyped DEF Sched, Reserving
  <2>3. WindowStarts(sched[z].rule, now') \subseteq WindowStarts(sched[z].rule, now)
    BY <1>0, <2>2, FewerStarts
  <2>4. w \in AllWindows(<<z>>, sched[z].rule, now, sched[z].count)
    BY <2>1, <2>3 DEF AllWindows
  <2> QED BY <2>2, <2>4 DEF Reserved, SchedWindows
<1>3. ASSUME NEW t \in now' + 1 .. MaxTime PROVE DemandAt(Reserved', t) <= MaxStreams
  <2>1. Windows(Reserved')
    BY <1>1, <1>2, FS_Subset DEF Windows
  <2>2. Cover(Reserved', t) \subseteq Cover(Reserved, t)
    BY <1>2 DEF Cover
  <2>3. StationSum(Cover(Reserved', t)) <= StationSum(Cover(Reserved, t))
    BY <1>1, <2>2, CoverWindows, StationsOfPart
  <2>4. /\ DemandAt(Reserved', t) = StationSum(Cover(Reserved', t))
        /\ DemandAt(Reserved', t) \in Nat /\ DemandAt(Reserved, t) \in Nat
        /\ DemandAt(Reserved, t) = StationSum(Cover(Reserved, t))
    BY <1>1, <2>1, CoverWindows
  <2>5. DemandAt(Reserved, t) <= MaxStreams
    <3>1. t \in now + 1 .. MaxTime
      BY <1>0, LaterInstants
    <3> QED BY <3>1 DEF ReservedFits
  <2> QED BY <2>3, <2>4, <2>5, ConstantsOK
<1> QED BY <1>3 DEF ReservedFits, DemandAt

\* A schedule is saved only when its windows fit beside those of all others, as far as the
\* horizon reaches.
NearReserved == NearWindows(sched, now, Reserving)

LEMMA SaveNearFits ==
  ASSUME TypeOK, TypeOK', NEW s \in Schedules, NEW r \in Rules, NEW c \in Counts,
         SaveSchedule(s, r, c), NEW t \in now + 1 .. MaxTime
  PROVE  DemandAt(NearReserved', t) <= MaxStreams
<1> DEFINE exclude == IF sched[s].state = "none" THEN {} ELSE {s}
           others == {z \in Schedules \ exclude : sched[z].state = "active"}
           jobs == {j \in JobIds :
                      /\ Nonfinal(j)
                      /\ ~(ScheduleIDOf(j) = exclude /\ job[j].state = "scheduled")
                      /\ Owner(j) \notin others}
           own == RuleWindows(<<>>, r, now, c)
           taken == NearWindows(sched, now, others)
           held == {Window(j, Start(j), job[j].len, job[j].count) : j \in jobs}
           W == own \cup taken \cup held
<1>1. /\ sched'[s].rule = r /\ sched'[s].count = c /\ now' = now
      /\ \A z \in Schedules \ {s} : sched'[z] = sched[z]
      /\ OverlapValid(W)
  <2>1. Capacity(own, exclude)
    BY DEF SaveSchedule
  <2>2. OverlapValid(W)
    <3>1. OverlapValid(own
            \cup (UNION {RuleWindows(<<z>>, sched[z].rule, now, sched[z].count) : z \in others})
            \cup held)
      BY <2>1, Zenon DEF Capacity
    <3>2. taken = UNION {RuleWindows(<<z>>, sched[z].rule, now, sched[z].count) : z \in others}
      BY DEF NearWindows
    <3> HIDE DEF own, taken, held, others
    <3> QED BY <3>1, <3>2
  <2> HIDE DEF W
  <2> QED BY <2>2 DEF SaveSchedule, TypeOK
<1>2. /\ now \in Nat /\ t \in Nat /\ c \in Nat
      /\ \A z \in Schedules : sched[z].rule \in Rules /\ sched[z].count \in Nat
  <2>1. now \in Nat /\ MaxTime \in Nat /\ c \in Nat
    BY ConstantsOK DEF TypeOK, Time
  <2>2. \A z \in Schedules : sched[z].rule \in Rules /\ sched[z].count \in Nat
    BY RulesTyped
  <2>3. t \in Nat
    BY <2>1, LaterInstants
  <2> QED BY <2>1, <2>2, <2>3
<1>3. Windows(W)
  <2>1. Windows(own)
    BY <1>2, RuleWindowsTyped
  <2>2. Windows(taken)
    BY ReservedTyped
  <2>3. jobs \in SUBSET JobIds
    OBVIOUS
  <2> HIDE DEF own, taken, jobs
  <2>4. Windows(held)
    BY <2>3, JobWindowsTyped
  <2> HIDE DEF held
  <2> QED BY <2>1, <2>2, <2>4, WindowsUnion
<1>4. DemandAt(W, t) <= MaxStreams
  BY <1>1, <1>2, <1>3, Sweep
<1> DEFINE g == [w \in Cover(NearReserved', t) |->
                   IF w.src = <<s>> THEN [w EXCEPT !.src = <<>>] ELSE w]
\* A reserved window of the schedule itself is one of those the sweep has looked at.
<1>5. ASSUME NEW w \in Cover(NearReserved', t)
      PROVE  /\ g[w] \in Cover(W, t) /\ w.count = g[w].count
             /\ w = [g[w] EXCEPT !.src = IF @ = <<>> THEN <<s>> ELSE @]
  <2>1. PICK z \in Reserving' :
          w \in RuleWindows(<<z>>, sched'[z].rule, now', sched'[z].count)
    BY DEF Cover, NearReserved, NearWindows
  <2>2. PICK x \in WindowStarts(sched'[z].rule, now) :
          /\ sched'[z].rule.kind = "once" \/ x <= now + Horizon
          /\ w = Window(<<z>>, x, sched'[z].rule.len, sched'[z].count)
    BY <1>1, <2>1 DEF RuleWindows
  <2>3. w.src = <<z>> /\ w.start <= t /\ t < w.end
    BY <2>2 DEF Window, Cover
  <2>4. CASE z = s
    <3>1. /\ g[w] = Window(<<>>, x, r.len, c) /\ x \in WindowStarts(r, now)
          /\ r.kind = "once" \/ x <= now + Horizon
      BY <1>1, <2>2, <2>3, <2>4 DEF Window
    <3>2. g[w] \in W
      BY <3>1 DEF RuleWindows
    <3>3. w = [g[w] EXCEPT !.src = <<s>>] /\ g[w].src = <<>>
      BY <1>1, <2>2, <2>4, <3>1 DEF Window
    <3>4. g[w].start = w.start /\ g[w].end = w.end /\ g[w].count = w.count
      BY <1>1, <2>2, <2>4, <3>1 DEF Window
    <3> QED BY <2>3, <3>2, <3>3, <3>4 DEF Cover
  <2>5. CASE z # s
    <3>1. g[w] = w
      BY <2>3, <2>5
    <3>2. z \in others
      BY <1>1, <2>1, <2>5 DEF Reserving
    <3>3. w \in taken
      BY <1>1, <2>1, <2>5, <3>2 DEF NearWindows, Reserving
    <3>4. w = [w EXCEPT !.src = <<z>>] /\ w.src # <<>>
      BY <2>2, <2>3 DEF Window
    <3> QED BY <2>3, <3>1, <3>3, <3>4 DEF Cover
  <2> QED BY <2>4, <2>5
<1>6. g \in Injection(Cover(NearReserved', t), Cover(W, t))
  <2>1. \A w \in Cover(NearReserved', t) : g[w] \in Cover(W, t)
    BY <1>5
  <2>2. g \in [Cover(NearReserved', t) -> Cover(W, t)]
    BY <2>1
  <2> HIDE DEF g
  <2>3. \A v, w \in Cover(NearReserved', t) : g[v] = g[w] => v = w
    <3>1. \A w \in Cover(NearReserved', t) : w = [g[w] EXCEPT !.src = IF @ = <<>> THEN <<s>> ELSE @]
      BY <1>5
    <3> QED BY <3>1
  <2> QED BY <2>2, <2>3 DEF Injection, IsInjective
<1>7. Windows(NearReserved')
  <2>1. \A z \in Reserving' : sched'[z].rule \in Rules /\ sched'[z].count \in Nat
    BY <1>1, <1>2 DEF Reserving
  <2>2. Reserving' \subseteq Schedules
    BY DEF Reserving
  <2> QED BY <2>1, <2>2, SchedWindowsTyped DEF NearReserved
<1> HIDE DEF W, g
<1>8. StationSum(Cover(NearReserved', t)) <= StationSum(Cover(W, t))
  <2>1. Windows(Cover(W, t)) /\ \A w \in Cover(NearReserved', t) : w.count = g[w].count
    BY <1>3, <1>5, CoverWindows
  <2> QED BY <1>6, <2>1, StationsInject
<1>9. /\ DemandAt(NearReserved', t) = StationSum(Cover(NearReserved', t)) /\ DemandAt(NearReserved', t) \in Nat
      /\ DemandAt(W, t) = StationSum(Cover(W, t)) /\ DemandAt(W, t) \in Nat
  BY <1>3, <1>7, CoverWindows
<1> QED BY <1>4, <1>8, <1>9, ConstantsOK

LEMMA SaveDemand ==
  ASSUME DemandInv, TypeOK', NEW s \in Schedules, NEW r \in Rules, NEW c \in Counts,
         SaveSchedule(s, r, c)
  PROVE  ReservedFits' /\ InReach' /\ NextIsStart' /\ SessionsStarted' /\ UpcomingIsNext'
<1>0. IInv /\ TypeOK
  BY DEF DemandInv, IInv
<1>1. PICK start \in Time :
        /\ start > now /\ <<s, start>> \in JobIds
        /\ sched' = [sched EXCEPT ![s] = [state |-> "active", rule |-> r,
                                          next |-> start, count |-> c]]
        /\ job' = [job EXCEPT ![<<s, start>>] = NewJob(r.len, c)]
        /\ pending' = {[sched |-> s, keep |-> {<<s, start>>}]} /\ pending = {}
        /\ UNCHANGED <<now, worker, leftover>>
  BY <1>0, SaveScheduleWrites
<1>2. /\ sched'[s] = [state |-> "active", rule |-> r, next |-> start, count |-> c]
      /\ \A z \in Schedules \ {s} : sched'[z] = sched[z]
      /\ job'[<<s, start>>] = NewJob(r.len, c)
      /\ \A k \in JobIds \ {<<s, start>>} : job'[k] = job[k]
  BY <1>0, <1>1 DEF TypeOK
<1>7. InReach'
  <2> SUFFICES ASSUME NEW z \in Reserving' PROVE Reaches(z)'
    BY DEF InReach
  <2>1. CASE z = s
    <3>1. far' = (far \ {s}) \cup {y \in {s} : PastHorizon(r)}
      BY DEF SaveSchedule
    <3>2. ~PastHorizon(r)
      BY <2>1, <3>1 DEF Reserving
    <3>3. sched'[z].rule = r /\ now' = now
      BY <1>1, <1>2, <2>1
    <3> QED BY <3>2, <3>3 DEF PastHorizon, Reaches
  <2>2. CASE z # s
    <3>1. z \in Reserving /\ sched'[z] = sched[z] /\ now' = now
      BY <1>1, <1>2, <2>2 DEF SaveSchedule, Reserving
    <3>2. Reaches(z)
      BY <3>1 DEF DemandInv, InReach
    <3> QED BY <3>1, <3>2 DEF PastHorizon, Reaches
  <2> QED BY <2>1, <2>2
<1>3. ReservedFits'
  <2>1. now \in Nat /\ now' = now /\ Reserving' \in SUBSET Schedules
    BY <1>0, <1>1, ConstantsOK DEF TypeOK, Time, Reserving
  <2>2. \A z \in Reserving' : sched'[z].rule \in Rules /\ sched'[z].count \in Nat
    <3> SUFFICES ASSUME NEW z \in Reserving'
                 PROVE  sched'[z].rule \in Rules /\ sched'[z].count \in Nat
      OBVIOUS
    <3>1. sched'[z] \in Sched
      BY <2>1 DEF TypeOK
    <3>2. sched'[z].rule \in Rules /\ sched'[z].count \in 1 .. MaxStreams
      BY <3>1, ConstantsOK DEF Sched
    <3> QED BY <3>2, ConstantsOK
  <2>3. \A z \in Reserving' : sched'[z].rule.kind = "once" =>
          sched'[z].rule.first + sched'[z].rule.len <= now + Horizon + 1
    <3> SUFFICES ASSUME NEW z \in Reserving', sched'[z].rule.kind = "once"
                 PROVE  sched'[z].rule.first + sched'[z].rule.len <= now + Horizon + 1
      OBVIOUS
    <3>1. ~(sched'[z].rule.first + sched'[z].rule.len > now + Horizon + 1)
      BY <1>1, <1>7 DEF InReach, Reaches, PastHorizon
    <3>2. /\ sched'[z].rule.first \in Nat /\ sched'[z].rule.len \in Nat
          /\ Horizon \in Nat
      <4>1. sched'[z].rule \in Rule
        BY <2>2, ConstantsOK
      <4> QED BY <4>1, ConstantsOK DEF Rule, Time
    <3> QED BY <2>1, <3>1, <3>2
  <2>4. \A t \in now + 1 .. MaxTime :
          DemandAt(NearWindows(sched', now, Reserving'), t) <= MaxStreams
    <3> SUFFICES ASSUME NEW t \in now + 1 .. MaxTime
                 PROVE  DemandAt(NearWindows(sched', now, Reserving'), t) <= MaxStreams
      OBVIOUS
    <3>1. DemandAt(NearReserved', t) <= MaxStreams
      BY <1>0, SaveNearFits
    <3>2. NearReserved' = NearWindows(sched', now, Reserving')
      BY <2>1 DEF NearReserved
    <3> QED BY <3>1, <3>2
  <2>5. \A t \in now + 1 .. MaxTime :
          DemandAt(SchedWindows(sched', now, Reserving'), t) <= MaxStreams
    BY <2>1, <2>2, <2>3, <2>4, HorizonEnough
  <2> QED BY <2>1, <2>5 DEF ReservedFits, Reserved, DemandAt
<1>4. NextIsStart'
  <2>1. start \in WindowStarts(r, now)
    <3>1. WindowStarts(r, now) # {} /\ WindowStarts(r, now) \in SUBSET Nat
      BY StartsInTime DEF SaveSchedule
    <3>2. start = Min(WindowStarts(r, now))
      BY <1>2, <3>1 DEF SaveSchedule, TypeOK
    <3> QED BY <3>1, <3>2, MinInSet
  <2>2. start \in WindowStarts(r, start - 1)
    BY <1>0, <2>1, StartAgain, StartTyped, ConstantsOK DEF Time, TypeOK
  <2> QED BY <1>2, <2>2 DEF DemandInv, NextIsStart
<1>5. SessionsStarted'
  <2> SUFFICES ASSUME NEW j \in JobIds, Owner(j) \in Sessions, Exists(j)'
               PROVE  Start(j) <= now
    BY <1>1 DEF SessionsStarted
  <2>1. j # <<s, start>>
    BY ConstantsOK DEF Owner
  <2> QED BY <1>2, <2>1 DEF DemandInv, SessionsStarted, Exists
<1>6. UpcomingIsNext'
  <2> SUFFICES ASSUME NEW j \in JobIds \ leftover, Owner(j) \in Schedules, Waiting(j)',
                      Settled(j)'
               PROVE  IsNext(j)'
    BY <1>1 DEF UpcomingIsNext
  <2>1. CASE j = <<s, start>>
    BY <1>2, <2>1 DEF IsNext, NewJob, Owner, Start
  <2>2. CASE j # <<s, start>>
    <3>1. Owner(j) # s
      BY <1>1, <2>2 DEF Settled
    <3>2. Waiting(j) /\ Settled(j)
      BY <1>1, <1>2, <2>2 DEF Waiting, Settled
    <3>3. IsNext(j)
      BY <3>2 DEF DemandInv, UpcomingIsNext
    <3> QED BY <1>2, <2>2, <3>1, <3>3 DEF IsNext
  <2> QED BY <2>1, <2>2
<1> QED BY <1>3, <1>4, <1>5, <1>6, <1>7

\* What no other handler, worker or restart does: activate a schedule, move its next
\* occurrence, or put a job in wait.
Settling ==
  /\ now <= now' /\ leftover \subseteq leftover' /\ UNCHANGED far
  /\ \A z \in Schedules : sched'[z].state = "active" => sched'[z] = sched[z]
  /\ \A j \in JobIds :
       /\ Owner(j) \in Sessions /\ Exists(j)' => Exists(j) \/ Start(j) <= now
       /\ j \notin leftover' /\ Owner(j) \in Schedules /\ Waiting(j)' /\ Settled(j)' =>
            /\ Waiting(j) /\ Settled(j) /\ sched'[Owner(j)] = sched[Owner(j)]
            /\ job'[j].len = job[j].len /\ job'[j].count = job[j].count

\* What lies within the horizon stays there.
LEMMA ReachStays ==
  ASSUME TypeOK, now' \in Nat, now <= now', NEW z \in Schedules, Reaches(z),
         sched'[z].rule = sched[z].rule
  PROVE  Reaches(z)'
<1> DEFINE r == sched[z].rule
<1>1. r.first \in Nat /\ r.len \in Nat /\ now \in Nat /\ Horizon \in Nat
  <2>1. r \in Rule
    BY SchedTyped, ConstantsOK DEF Sched
  <2> QED BY <2>1, ConstantsOK DEF Rule, Time, TypeOK
<1>2. ~(r.kind = "once" /\ r.first + r.len > now + Horizon + 1)
  BY DEF Reaches, PastHorizon
<1>3. Reaches(z)' <=> ~(r.kind = "once" /\ r.first + r.len > now' + Horizon + 1)
  BY DEF Reaches, PastHorizon
<1> HIDE DEF r
<1> QED BY <1>1, <1>2, <1>3

LEMMA SettlingDemand ==
  ASSUME DemandInv, TypeOK', Settling
  PROVE  ReservedFits' /\ InReach' /\ NextIsStart' /\ SessionsStarted' /\ UpcomingIsNext'
<1>0. TypeOK /\ now \in Nat /\ now' \in Nat
  BY ConstantsOK DEF DemandInv, IInv, TypeOK, Time
<1>1. ReservedFits'
  <2>1. \A z \in Reserving' : /\ z \in Reserving /\ sched'[z].rule = sched[z].rule
                              /\ sched'[z].count = sched[z].count
    BY DEF Settling, Reserving
  <2> QED BY <1>0, <2>1, ReservedShrinks DEF DemandInv, Settling
<1>5. InReach'
  <2>1. \A z \in Reserving' : z \in Reserving /\ sched'[z] = sched[z]
    BY DEF Settling, Reserving
  <2> SUFFICES ASSUME NEW z \in Reserving' PROVE Reaches(z)'
    BY DEF InReach
  <2>2. Reaches(z) /\ z \in Schedules /\ sched'[z].rule = sched[z].rule
    BY <2>1 DEF DemandInv, InReach, Reserving
  <2> QED BY <1>0, <2>2, ReachStays DEF Settling
<1>2. NextIsStart'
  BY DEF DemandInv, NextIsStart, Settling
<1>3. SessionsStarted'
  <2> SUFFICES ASSUME NEW j \in JobIds, Owner(j) \in Sessions, Exists(j)'
               PROVE  Start(j) <= now'
    BY DEF SessionsStarted
  <2>1. Start(j) <= now
    BY DEF Settling, DemandInv, SessionsStarted
  <2>2. Start(j) \in Nat
    BY JobIdParts
  <2> QED BY <1>0, <2>1, <2>2 DEF Settling
<1>4. UpcomingIsNext'
  <2> SUFFICES ASSUME NEW j \in JobIds \ leftover', Owner(j) \in Schedules, Waiting(j)',
                      Settled(j)'
               PROVE  IsNext(j)'
    BY DEF UpcomingIsNext
  <2>1. /\ Waiting(j) /\ Settled(j) /\ sched'[Owner(j)] = sched[Owner(j)]
        /\ job'[j].len = job[j].len /\ job'[j].count = job[j].count
    BY DEF Settling
  <2>2. j \notin leftover
    BY DEF Settling
  <2>3. IsNext(j)
    BY <2>1, <2>2 DEF DemandInv, UpcomingIsNext
  <2> QED BY <2>1, <2>3 DEF IsNext
<1> QED BY <1>1, <1>2, <1>3, <1>4, <1>5

LEMMA CreateSettles ==
  ASSUME IInv, NEW i \in Sessions, NEW r \in Rules, NEW c \in Counts, CreateSession(i, r.len, c)
  PROVE  Settling
<1>1. /\ UNCHANGED <<now, sched, pending, leftover, far>> /\ now \in Nat
      /\ job' = [job EXCEPT ![<<i, now>>] = NewJob(r.len, c)]
  BY ConstantsOK DEF CreateSession, IInv, TypeOK, Time
<1>2. \A j \in JobIds : j # <<i, now>> => job'[j] = job[j]
  BY <1>1 DEF IInv, TypeOK
<1>3. \A j \in JobIds : Owner(j) \in Schedules => j # <<i, now>>
  BY ConstantsOK DEF Owner
<1>4. \A j \in JobIds : j = <<i, now>> => Start(j) <= now
  BY <1>1 DEF Start
<1> QED BY <1>1, <1>2, <1>3, <1>4 DEF Settling, Exists, Waiting, Settled

LEMMA DeleteSettles ==
  ASSUME IInv, NEW s \in Schedules, DeleteSchedule(s)
  PROVE  Settling
<1>1. /\ UNCHANGED <<now, job, leftover, far>> /\ now \in Nat /\ pending = {}
      /\ sched' = [sched EXCEPT ![s].state = "cancelled"]
      /\ pending' = {[sched |-> s, keep |-> {}]}
  BY ConstantsOK DEF DeleteSchedule, Request, Unlocked, IInv, TypeOK, Time
<1>2. /\ sched'[s].state = "cancelled" /\ \A z \in Schedules \ {s} : sched'[z] = sched[z]
  BY <1>1 DEF IInv, TypeOK, Sched
<1>3. \A j \in JobIds : Settled(j)' => Owner(j) # s /\ Settled(j)
  BY <1>1 DEF Settled
<1> QED BY <1>1, <1>2, <1>3 DEF Settling, Exists, Waiting

LEMMA CancelSettles ==
  ASSUME IInv, CancelUpcoming
  PROVE  Settling
<1>0. UNCHANGED far /\ now \in Nat
  BY ConstantsOK DEF CancelUpcoming, IInv, TypeOK, Time
<1>1. PICK p \in pending :
        /\ \A q \in pending : q = p
        /\ leftover \subseteq leftover'
        /\ UNCHANGED <<now, sched, worker, packaging>>
        /\ \/ /\ \E j \in Upcoming(p) : job' = [job EXCEPT ![j].state = "cancelled"]
              /\ UNCHANGED <<pending, leftover>>
           \/ /\ \E j \in Upcoming(p) : /\ pending' = {[p EXCEPT !.keep = @ \cup {j}]}
                                        /\ leftover' = leftover \cup {j}
              /\ UNCHANGED job
           \/ /\ pending' = {} /\ Upcoming(p) \subseteq leftover'
              /\ UNCHANGED job
  BY CancelCases
<1>2. CASE /\ \E j \in Upcoming(p) : job' = [job EXCEPT ![j].state = "cancelled"]
           /\ UNCHANGED <<pending, leftover>>
  <2>1. PICK j \in Upcoming(p) : job' = [job EXCEPT ![j].state = "cancelled"]
    BY <1>2
  <2>2. /\ j \in JobIds /\ job'[j].state = "cancelled" /\ Exists(j)
        /\ \A k \in JobIds \ {j} : job'[k] = job[k]
    BY <2>1 DEF Upcoming, IInv, TypeOK, Job, Exists
  <2>3. \A k \in JobIds : Settled(k)' => Settled(k)
    BY <1>2 DEF Settled
  <2>4. \A k \in JobIds : Waiting(k)' => k # j
    BY <2>2 DEF Waiting
  <2>5. \A k \in JobIds : k # j => (Waiting(k)' => Waiting(k)) /\ (Exists(k)' => Exists(k))
    BY <1>1, <2>2 DEF Waiting, Exists
  <2> QED BY <1>0, <1>1, <2>2, <2>3, <2>4, <2>5 DEF Settling
<1>3. CASE UNCHANGED job
  <2>1. \A k \in JobIds : (Waiting(k)' => Waiting(k)) /\ (Exists(k)' => Exists(k))
    BY <1>1, <1>3 DEF Waiting, Exists
  <2>2. \A k \in JobIds : k \notin leftover' /\ Waiting(k) /\ Settled(k)' => Settled(k)
    <3> SUFFICES ASSUME NEW k \in JobIds, k \notin leftover', Waiting(k), Settled(k)',
                        Owner(k) = p.sched
                 PROVE  k \in p.keep
      BY <1>1 DEF Settled
    <3>1. CASE UNCHANGED <<pending, leftover>>
      BY <3>1 DEF Settled
    <3>2. CASE \E j \in Upcoming(p) : /\ pending' = {[p EXCEPT !.keep = @ \cup {j}]}
                                      /\ leftover' = leftover \cup {j}
      <4>1. PICK j \in Upcoming(p) : /\ pending' = {[p EXCEPT !.keep = @ \cup {j}]}
                                     /\ leftover' = leftover \cup {j}
        BY <3>2
      <4>2. p \in [sched : Schedules, keep : SUBSET JobIds]
        BY DEF IInv, TypeOK
      <4>3. \A q \in pending' : q.sched = p.sched /\ q.keep = p.keep \cup {j}
        BY <4>1, <4>2
      <4>4. pending' # {} /\ k # j
        BY <4>1
      <4> QED BY <4>3, <4>4 DEF Settled
    <3>3. CASE pending' = {} /\ Upcoming(p) \subseteq leftover'
      BY <3>3 DEF Upcoming, Waiting
    <3> QED BY <1>1, <3>1, <3>2, <3>3
  <2> QED BY <1>0, <1>1, <1>3, <2>1, <2>2 DEF Settling
<1> QED BY <1>1, <1>2, <1>3

LEMMA StopSettles ==
  ASSUME IInv, NEW j \in JobIds, Stop(j) \/ DeleteSession(j)
  PROVE  Settling
<1>1. /\ UNCHANGED <<now, sched, pending, leftover, far>> /\ now \in Nat
      /\ \A k \in JobIds \ {j} : job'[k] = job[k]
      /\ Exists(j)
      /\ job'[j].state = "scheduled" => job[j].state = "scheduled"
      /\ job'[j].len = job[j].len /\ job'[j].count = job[j].count
  BY ConstantsOK DEF Stop, DeleteSession, IInv, TypeOK, Time, Job, Exists, Nonfinal, Final
<1> QED BY <1>1 DEF Settling, Exists, Waiting, Settled

LEMMA WorkerSettles ==
  ASSUME StreamInv, NEW j \in JobIds, Worker(j)
  PROVE  Settling
<1>1. /\ UNCHANGED <<now, sched, pending, leftover, far>> /\ now \in Nat /\ worker[j] # "none"
      /\ \A k \in JobIds \ {j} : job'[k] = job[k]
      /\ job'[j].state = "scheduled" => job[j].state = "scheduled"
      /\ job'[j].len = job[j].len /\ job'[j].count = job[j].count
  BY ConstantsOK DEF Worker, Begin, CaptureEnd, EnterFinalizing, Finalize, Exit, Outcomes,
                     StreamInv, IInv, TypeOK, Time, Job
<1>2. Exists(j)
  BY <1>1 DEF StreamInv, WorkersHaveJobs
<1> QED BY <1>1, <1>2 DEF Settling, Exists, Waiting, Settled

LEMMA RestartSettles ==
  ASSUME IInv, Restart
  PROVE  Settling
<1>1. /\ UNCHANGED <<now, sched, job, far>> /\ now \in Nat
      /\ leftover' = leftover \cup UNION {Upcoming(p) : p \in pending}
  BY ConstantsOK DEF Restart, IInv, TypeOK, Time
<1>2. \A j \in JobIds : j \notin leftover' /\ Waiting(j) => Settled(j)
  <2> SUFFICES ASSUME NEW j \in JobIds, j \notin leftover', Waiting(j),
                      NEW p \in pending, p.sched = Owner(j)
               PROVE  j \in p.keep
    BY DEF Settled
  <2>1. j \notin Upcoming(p)
    BY <1>1
  <2> QED BY <2>1 DEF Upcoming, Waiting
<1> QED BY <1>1, <1>2 DEF Settling, Waiting, Exists

\* A tick puts in wait only the next occurrence of the schedule it advances, and a
\* schedule whose next occurrence still waits is not advanced.
LEMMA TickDemand ==
  ASSUME DemandInv, TypeOK', Tick
  PROVE  ReservedFits' /\ InReach' /\ NextIsStart' /\ SessionsStarted' /\ UpcomingIsNext'
<1>0. /\ TypeOK /\ now \in Nat /\ pending = {} /\ UNCHANGED <<now, pending, leftover, far>>
  BY ConstantsOK DEF DemandInv, IInv, TypeOK, Time, Tick, Unlocked
<1>1. ASSUME NEW z \in Schedules, sched'[z].state = "active"
      PROVE  \/ sched'[z] = sched[z]
             \/ z \in Ready /\ Later(z) # {} /\ sched'[z] = [sched[z] EXCEPT !.next = Min(Later(z))]
  <2>1. PICK out \in [Ready -> {"ok", "invalid", "unsaved"}] :
          sched' = [s \in Schedules |-> Advanced(s, out)]
    BY DEF Tick
  <2>2. sched'[z] = Advanced(z, out) /\ sched[z] \in Sched
    BY <1>0, <2>1 DEF TypeOK
  <2> QED BY <1>1, <2>2 DEF Advanced, Sched
<1>2. ASSUME NEW z \in Schedules, sched'[z].state = "active"
      PROVE  /\ sched[z].state = "active" /\ sched'[z].rule = sched[z].rule
             /\ sched'[z].count = sched[z].count
  <2>1. sched[z] \in Sched
    BY <1>0 DEF TypeOK
  <2> QED BY <1>1, <1>2, <2>1 DEF Sched, Ready
<1>3. ReservedFits'
  <2>1. \A z \in Reserving' : /\ z \in Reserving /\ sched'[z].rule = sched[z].rule
                              /\ sched'[z].count = sched[z].count
    BY <1>0, <1>2 DEF Reserving
  <2> QED BY <1>0, <2>1, ReservedShrinks DEF DemandInv
<1>7. InReach'
  <2>1. \A z \in Reserving' : z \in Reserving /\ sched'[z].rule = sched[z].rule
    BY <1>0, <1>2 DEF Reserving
  <2> SUFFICES ASSUME NEW z \in Reserving' PROVE Reaches(z)'
    BY DEF InReach
  <2>2. Reaches(z) /\ z \in Schedules /\ sched'[z].rule = sched[z].rule
    BY <2>1 DEF DemandInv, InReach, Reserving
  <2>3. now' \in Nat /\ now <= now'
    BY <1>0
  <2> QED BY <1>0, <2>2, <2>3, ReachStays
<1>4. NextIsStart'
  <2> SUFFICES ASSUME NEW z \in Schedules, sched'[z].state = "active", sched'[z] # sched[z]
               PROVE  sched'[z].next \in WindowStarts(sched'[z].rule, sched'[z].next - 1)
    BY <1>2 DEF DemandInv, NextIsStart
  <2>1. Later(z) # {} /\ sched'[z].next = Min(Later(z)) /\ sched'[z].rule = sched[z].rule
    <3>1. sched[z] \in Sched
      BY <1>0 DEF TypeOK
    <3> QED BY <1>1, <1>2, <3>1 DEF Sched
  <2>2. /\ sched[z].rule \in Rules /\ sched[z].next \in Int
        /\ Min(Later(z)) \in Time /\ Min(Later(z)) \in Nat
    BY <1>0, <2>1, LaterStarts, ConstantsOK DEF TypeOK, Sched, Time
  <2>3. Min(Later(z)) \in WindowStarts(sched[z].rule, sched[z].next)
    <3>1. Later(z) = WindowStarts(sched[z].rule, sched[z].next)
      BY <2>1 DEF Later
    <3>2. Later(z) \in SUBSET Nat
      BY <2>2, <3>1, StartsInTime
    <3> QED BY <2>1, <3>1, <3>2, MinInSet
  <2> QED BY <2>1, <2>2, <2>3, StartAgain
<1>5. SessionsStarted'
  <2> SUFFICES ASSUME NEW j \in JobIds, Owner(j) \in Sessions, Exists(j)'
               PROVE  Start(j) <= now
    BY <1>0 DEF SessionsStarted
  <2>1. SameRecord(j) \/ NowMissed(j)
    BY <1>0, TickJobs, ConstantsOK DEF NewOccurrence, Ready
  <2> QED BY <2>1 DEF SameRecord, NowMissed, Exists, DemandInv, SessionsStarted
<1>6. UpcomingIsNext'
  <2> SUFFICES ASSUME NEW j \in JobIds \ leftover, Owner(j) \in Schedules, Waiting(j)'
               PROVE  IsNext(j)'
    BY <1>0 DEF UpcomingIsNext
  <2>0. sched[Owner(j)] \in Sched
    BY <1>0 DEF TypeOK
  <2>1. SameRecord(j) \/ NewOccurrence(j)
    BY <1>0, TickJobs DEF NowMissed, Waiting
  <2>2. CASE NewOccurrence(j)
    BY <2>0, <2>2 DEF NewOccurrence, IsNext, Ready, Sched
  <2>3. CASE SameRecord(j)
    <3>1. Waiting(j) /\ Settled(j)
      BY <1>0, <2>3 DEF SameRecord, Waiting, Settled
    <3>2. IsNext(j)
      BY <3>1 DEF DemandInv, UpcomingIsNext
    <3>3. Owner(j) \notin Ready
      <4> SUFFICES ASSUME Owner(j) \in Ready PROVE FALSE
        OBVIOUS
      <4>1. j = <<Owner(j), sched[Owner(j)].next>> /\ Start(j) \in Nat
        BY <3>2, JobIdParts DEF IsNext
      <4>2. ~Nonfinal(j) \/ End(j) < now
        BY <4>1 DEF Ready
      <4>3. Nonfinal(j) /\ Start(j) > now /\ job[j].len \in Nat
        BY <1>0, <3>1, CountTyped DEF Waiting, Nonfinal, Job
      <4>4. End(j) >= Start(j)
        BY <4>1, <4>3 DEF End
      <4>5. End(j) \in Nat
        BY <4>1, <4>3 DEF End
      <4> QED BY <1>0, <4>1, <4>2, <4>3, <4>4, <4>5
    <3>4. sched'[Owner(j)] = sched[Owner(j)]
      <4>1. PICK out \in [Ready -> {"ok", "invalid", "unsaved"}] :
              sched' = [s \in Schedules |-> Advanced(s, out)]
        BY DEF Tick
      <4> QED BY <3>3, <4>1 DEF Advanced
    <3> QED BY <2>3, <3>2, <3>4 DEF IsNext, SameRecord, SameWindow
  <2> QED BY <2>1, <2>2, <2>3
<1> QED BY <1>3, <1>4, <1>5, <1>6, <1>7

LEMMA DemandInvariance == Spec => []DemandInv
<1>1. Init => DemandInv
  <2> SUFFICES ASSUME Init PROVE DemandInv
    OBVIOUS
  <2>1. IInv
    BY InitInv
  <2>2. /\ \A z \in Schedules : sched[z].state = "none"
        /\ \A j \in JobIds : job[j].state = "none"
    BY DEF Init, NoSched, NoJob
  <2>3. Reserved = {}
    BY <2>2 DEF Reserved, Reserving, SchedWindows
  <2>4. ReservedFits
    <3>1. \A t : DemandAt({}, t) = 0
      <4>1. StationSum({}) = 0
        BY FS_EmptySet DEF StationSum, Total
      <4> QED BY <4>1 DEF DemandAt
    <3> QED BY <2>3, <3>1, ConstantsOK DEF ReservedFits
  <2>5. InReach
    BY <2>2 DEF InReach, Reserving
  <2> QED BY <2>1, <2>2, <2>4, <2>5 DEF DemandInv, NextIsStart, SessionsStarted, UpcomingIsNext,
                                  Exists, Waiting
<1>2. DemandInv /\ StreamInv /\ [Next]_vars => DemandInv'
  <2> SUFFICES ASSUME DemandInv, StreamInv, [Next]_vars PROVE DemandInv'
    OBVIOUS
  <2>0. IInv /\ IInv' /\ TypeOK'
    BY NextInv DEF DemandInv, IInv
  <2>1. CASE Tick
    BY <2>0, <2>1, TickDemand DEF DemandInv
  <2>2. CASE \E s \in Schedules, r \in Rules, c \in Counts : SaveSchedule(s, r, c)
    BY <2>0, <2>2, SaveDemand DEF DemandInv
  <2>3. CASE Settling
    BY <2>0, <2>3, SettlingDemand DEF DemandInv
  <2>4. CASE \E i \in Sessions, r \in Rules, c \in Counts : CreateSession(i, r.len, c)
    BY <2>0, <2>3, <2>4, CreateSettles
  <2>5. CASE \E s \in Schedules : DeleteSchedule(s)
    BY <2>0, <2>3, <2>5, DeleteSettles
  <2>6. CASE CancelUpcoming
    BY <2>0, <2>3, <2>6, CancelSettles
  <2>7. CASE \E j \in JobIds : Stop(j) \/ DeleteSession(j)
    BY <2>0, <2>3, <2>7, StopSettles
  <2>8. CASE \E j \in JobIds : Worker(j)
    BY <2>3, <2>8, WorkerSettles
  <2>9. CASE Restart
    BY <2>0, <2>3, <2>9, RestartSettles
  <2>10. CASE Advance \/ UNCHANGED vars
    <3>1. /\ now \in Nat /\ now' \in Nat /\ now <= now'
          /\ UNCHANGED <<sched, job, pending, leftover, far>>
      BY <2>0, <2>10, ConstantsOK DEF Advance, vars, IInv, TypeOK, Time
    <3>2. \A j \in JobIds : Waiting(j)' => Waiting(j)
      BY <3>1, JobIdParts DEF Waiting
    <3>3. Settling
      BY <3>1, <3>2 DEF Settling, Settled, Exists
    <3> QED BY <2>3, <3>3
  <2> QED BY <2>1, <2>2, <2>4, <2>5, <2>6, <2>7, <2>8, <2>9, <2>10 DEF Next, Handler
<1> QED BY <1>1, <1>2, StreamInvariance, PTL DEF Spec

\* The occurrences still to start fit the limit together, at every later instant, but for
\* the jobs an edit failed to cancel and the one-off windows saved from past the horizon:
\* each is the next occurrence of an active schedule, whose windows were all reserved when
\* it was saved (HorizonEnough), and the reserved windows only shrink until another
\* schedule is checked against them.
THEOREM UpcomingFits == Spec => []UpcomingDemandFits
<1>1. DemandInv => UpcomingDemandFits
  <2> SUFFICES ASSUME DemandInv, Unlocked, NEW t \in now + 1 .. MaxTime
               PROVE  DemandAt({Window(j, Start(j), job[j].len, job[j].count) :
                                  j \in {k \in JobIds \ leftover :
                                           /\ job[k].state = "scheduled"
                                           /\ Start(k) > now
                                           /\ Owner(k) \notin far}}, t)
                        <= MaxStreams
    BY DEF UpcomingDemandFits, DemandFits
  <2> DEFINE J == {k \in JobIds \ leftover : /\ job[k].state = "scheduled" /\ Start(k) > now
                                             /\ Owner(k) \notin far}
             W == {Window(j, Start(j), job[j].len, job[j].count) : j \in J}
             g == [w \in Cover(W, t) |-> [w EXCEPT !.src = <<w.src[1]>>]]
  <2>0. TypeOK /\ now \in Nat
    BY ConstantsOK DEF DemandInv, IInv, TypeOK, Time
  <2>1. ASSUME NEW w \in Cover(W, t)
        PROVE  /\ g[w] \in Cover(Reserved, t) /\ w.count = g[w].count
               /\ w = [g[w] EXCEPT !.src = <<g[w].src[1], g[w].start>>]
    <3>1. PICK j \in J : w = Window(j, Start(j), job[j].len, job[j].count)
      BY DEF Cover
    <3>2. j = <<Owner(j), Start(j)>> /\ Start(j) \in Nat
      BY JobIdParts
    <3>3. Owner(j) \in Schedules \ far
      BY <2>0, <3>2, JobIdParts DEF DemandInv, SessionsStarted, Exists
    <3>4. IsNext(j)
      BY <3>3 DEF DemandInv, UpcomingIsNext, Waiting, Settled, Unlocked
    <3> DEFINE z == Owner(j)
    <3>5. z \in Reserving /\ sched[z].rule \in Rules
      BY <2>0, <3>3, <3>4, SchedTyped DEF Reserving, IsNext, Sched
    <3>6. Start(j) \in WindowStarts(sched[z].rule, now)
      <4>1. Start(j) \in WindowStarts(sched[z].rule, Start(j) - 1)
        BY <3>3, <3>4 DEF IsNext, DemandInv, NextIsStart
      <4> QED BY <2>0, <3>2, <3>5, <4>1, StartAgain
    <3>7. g[w] = Window(<<z>>, Start(j), sched[z].rule.len, sched[z].count)
      BY <3>1, <3>2, <3>4 DEF Window, IsNext
    <3>8. g[w] \in Reserved
      BY <3>5, <3>6, <3>7 DEF Reserved, SchedWindows, AllWindows
    <3>9. /\ g[w].start = w.start /\ g[w].end = w.end /\ g[w].count = w.count
          /\ w = [g[w] EXCEPT !.src = <<g[w].src[1], g[w].start>>]
      <4>1. w = Window(j, Start(j), sched[z].rule.len, sched[z].count)
        BY <3>1, <3>4 DEF IsNext
      <4>2. g[w].src = <<z>> /\ g[w].start = Start(j)
        BY <3>7 DEF Window
      <4>3. <<g[w].src[1], g[w].start>> = j
        BY <3>2, <4>2
      <4> HIDE DEF g, z
      <4> QED BY <3>7, <4>1, <4>3 DEF Window
    <3> QED BY <3>8, <3>9 DEF Cover
  <2>2. g \in Injection(Cover(W, t), Cover(Reserved, t))
    <3>1. \A w \in Cover(W, t) : g[w] \in Cover(Reserved, t)
      BY <2>1
    <3>2. g \in [Cover(W, t) -> Cover(Reserved, t)]
      BY <3>1
    <3> HIDE DEF g
    <3>3. \A v, w \in Cover(W, t) : g[v] = g[w] => v = w
      <4>1. \A w \in Cover(W, t) : w = [g[w] EXCEPT !.src = <<g[w].src[1], g[w].start>>]
        BY <2>1
      <4> QED BY <4>1
    <3> QED BY <3>2, <3>3 DEF Injection, IsInjective
  <2>3. Windows(Reserved) /\ Windows(W)
    <3>1. J \in SUBSET JobIds
      OBVIOUS
    <3> HIDE DEF J
    <3> QED BY <2>0, <3>1, ReservedTyped, JobWindowsTyped DEF Reserved, Reserving
  <2> HIDE DEF W, g
  <2>4. StationSum(Cover(W, t)) <= StationSum(Cover(Reserved, t))
    <3>1. Windows(Cover(Reserved, t)) /\ \A w \in Cover(W, t) : w.count = g[w].count
      BY <2>1, <2>3, CoverWindows
    <3> QED BY <2>2, <3>1, StationsInject
  <2>5. DemandAt(Reserved, t) <= MaxStreams
    BY DEF DemandInv, ReservedFits
  <2>6. /\ DemandAt(W, t) = StationSum(Cover(W, t)) /\ DemandAt(W, t) \in Nat
        /\ DemandAt(Reserved, t) = StationSum(Cover(Reserved, t))
        /\ DemandAt(Reserved, t) \in Nat
    BY <2>3, CoverWindows
  <2>7. DemandAt(W, t) <= MaxStreams
    BY <2>4, <2>5, <2>6, ConstantsOK
  <2> QED BY <2>7 DEF W
<1> QED BY <1>1, DemandInvariance, PTL

-----------------------------------------------------------------------------
(* The properties                                                           *)

\* A session that started is never replaced by a fresh record, and one that ended or
\* was missed keeps its outcome: an edit starts after now, where nothing has been
\* touched (NotBeforeStart); an advance goes past the next occurrence, where nothing
\* has been touched either (NothingPastNext); and a worker never finds its job ended
\* (WorkersSeeTheirJob).
THEOREM OccurrenceOnce == Spec => NeverFiredTwice
<1> DEFINE Once(j) == /\ job[j].started => job'[j].started
                      /\ job[j].state \in Final /\ (job[j].started \/ job[j].state = "missed")
                           => job'[j].state = job[j].state
           OnceStep == \A j \in JobIds \ leftover : Once(j)
<1>1. IInv /\ [Next]_vars => OnceStep
  <2> SUFFICES ASSUME IInv, [Next]_vars, NEW j \in JobIds \ leftover
               PROVE  Once(j)
    OBVIOUS
  <2>1. job[j] \in Job /\ (job[j].state \in {"none", "scheduled"} => ~job[j].started)
    BY DEF IInv, TypeOK, FreshUnstarted
  <2>2. ASSUME NEW i \in Sessions, NEW r \in Rules, NEW c \in Counts,
               CreateSession(i, r.len, c)
        PROVE  Once(j)
    <3>1. job[<<i, now>>].state = "none" /\ job' = [job EXCEPT ![<<i, now>>] = NewJob(r.len, c)]
      BY <2>2 DEF CreateSession, Exists, IInv, TypeOK
    <3> QED BY <2>1, <3>1 DEF Final, IInv, TypeOK
  <2>3. ASSUME NEW s \in Schedules, NEW r \in Rules, NEW c \in Counts, SaveSchedule(s, r, c)
        PROVE  Once(j)
    <3>1. PICK start \in Time :
            /\ start > now /\ <<s, start>> \in JobIds
            /\ sched' = [sched EXCEPT ![s] = [state |-> "active", rule |-> r,
                                              next |-> start, count |-> c]]
            /\ job' = [job EXCEPT ![<<s, start>>] = NewJob(r.len, c)]
            /\ pending' = {[sched |-> s, keep |-> {<<s, start>>}]} /\ pending = {}
            /\ UNCHANGED <<now, worker, leftover>>
      BY <2>3, SaveScheduleWrites
    <3>2. CASE j = <<s, start>>
      BY <3>1, <3>2, StartTyped DEF IInv, NotBeforeStart, Start
    <3>3. CASE j # <<s, start>>
      BY <3>1, <3>3 DEF IInv, TypeOK
    <3> QED BY <3>2, <3>3
  <2>4. ASSUME NEW s \in Schedules, DeleteSchedule(s)
        PROVE  Once(j)
    BY <2>4 DEF DeleteSchedule
  <2>5. CASE CancelUpcoming
    BY <2>5, <2>1 DEF CancelUpcoming, Upcoming, Final, IInv, TypeOK, Job
  <2>6. ASSUME NEW k \in JobIds, Stop(k) \/ DeleteSession(k)
        PROVE  Once(j)
    BY <2>6, <2>1 DEF Stop, DeleteSession, Nonfinal, Final, IInv, TypeOK, Job
  <2>7. CASE Tick
    <3>1. SameRecord(j) \/ NowMissed(j) \/ NewOccurrence(j)
      BY <2>7, TickJobs DEF IInv
    <3>2. CASE SameRecord(j)
      BY <3>2 DEF SameRecord, SameWindow
    <3>3. CASE NowMissed(j)
      BY <3>3 DEF NowMissed, SameWindow, Final
    <3>4. CASE NewOccurrence(j)
      <4>1. /\ Owner(j) \in Schedules /\ sched[Owner(j)].state = "active"
            /\ Later(Owner(j)) # {} /\ Start(j) = Min(Later(Owner(j)))
        BY <3>4 DEF NewOccurrence, Ready
      <4>2. Start(j) \in Time /\ Start(j) > sched[Owner(j)].next
        BY <4>1, LaterStarts DEF IInv
      <4>3. j = <<Owner(j), Start(j)>>
        BY DEF JobIds, Owner, Start
      <4>4. Untouched(Owner(j), j)
        BY <4>1, <4>2, <4>3 DEF IInv, NothingPastNext
      <4> QED BY <4>4 DEF Untouched
    <3> QED BY <3>1, <3>2, <3>3, <3>4
  <2>8. ASSUME NEW k \in JobIds, Worker(k)
        PROVE  Once(j)
    <3>1. k = j => WorkerSees(k)
      BY DEF IInv, WorkersSeeTheirJob
    <3> QED BY <2>8, <3>1 DEF WorkerSees, Worker, Begin, CaptureEnd, EnterFinalizing, Finalize,
                              Exit, Final, IInv, TypeOK, Job
  <2>9. CASE Advance \/ Restart \/ UNCHANGED vars
    BY <2>9 DEF Advance, Restart, vars
  <2> QED BY <2>2, <2>3, <2>4, <2>5, <2>6, <2>7, <2>8, <2>9 DEF Next, Handler
<1>2. IInv /\ [Next]_vars => [OnceStep]_vars
  BY <1>1
<1> QED BY <1>2, Invariance, PTL DEF NeverFiredTwice, Spec

\* A stopped session is never published complete and a missed one never captured:
\* only a scheduled record becomes missed, and it has not started (FreshUnstarted).
THEOREM Honesty == Spec => []HonestOutcome
<1>1. Init => HonestOutcome
  BY DEF Init, HonestOutcome, NoJob
<1>2. IInv /\ HonestOutcome /\ [Next]_vars => HonestOutcome'
  <2> SUFFICES ASSUME IInv, HonestOutcome, [Next]_vars, NEW j \in JobIds
               PROVE  /\ job'[j].stopped => job'[j].state # "complete"
                      /\ job'[j].state = "missed" => ~job'[j].started
    BY DEF HonestOutcome
  <2>1. /\ job[j] \in Job /\ (job[j].state \in {"none", "scheduled"} => ~job[j].started)
        /\ job[j].stopped => job[j].state # "complete"
        /\ job[j].state = "missed" => ~job[j].started
    BY DEF IInv, TypeOK, FreshUnstarted, HonestOutcome
  <2>2. ASSUME NEW i \in Sessions, NEW r \in Rules, NEW c \in Counts,
               CreateSession(i, r.len, c)
        PROVE  job'[j] = job[j] \/ job'[j] = NewJob(r.len, c)
    BY <2>2 DEF CreateSession, IInv, TypeOK
  <2>3. ASSUME NEW s \in Schedules, NEW r \in Rules, NEW c \in Counts, SaveSchedule(s, r, c)
        PROVE  job'[j] = job[j] \/ job'[j] = NewJob(r.len, c)
    BY <2>3 DEF SaveSchedule, IInv, TypeOK
  <2>4. CASE \/ \E s \in Schedules : DeleteSchedule(s)
             \/ CancelUpcoming \/ (\E k \in JobIds : Stop(k) \/ DeleteSession(k))
    <3>1. ASSUME NEW s \in Schedules, DeleteSchedule(s)
          PROVE  job'[j] = job[j]
      BY <3>1 DEF DeleteSchedule
    <3>2. ASSUME CancelUpcoming
          PROVE  job'[j] = job[j] \/ job'[j] = [job[j] EXCEPT !.state = "cancelled"]
      BY <3>2 DEF CancelUpcoming, Upcoming, IInv, TypeOK
    <3>3. ASSUME NEW k \in JobIds, Stop(k)
          PROVE  /\ job'[j].started = job[j].started
                 /\ job'[j] # job[j] => job'[j].state \in {"cancelled", "finalizing"}
      BY <3>3, <2>1 DEF Stop, IInv, TypeOK, Job
    <3>4. ASSUME NEW k \in JobIds, DeleteSession(k)
          PROVE  /\ job'[j].started = job[j].started /\ job'[j].stopped = job[j].stopped
                 /\ job'[j].state = job[j].state
      BY <3>4, <2>1 DEF DeleteSession, IInv, TypeOK, Job
    <3>5. [job[j] EXCEPT !.state = "cancelled"].state = "cancelled"
      BY <2>1 DEF Job
    <3> QED BY <2>1, <2>4, <3>1, <3>2, <3>3, <3>4, <3>5
  <2>5. CASE Tick
    BY <2>1, <2>5, TickJobs DEF IInv, SameRecord, NowMissed, NewOccurrence, SameWindow
  <2>6. CASE \E k \in JobIds : Worker(k)
    BY <2>1, <2>6 DEF Worker, Begin, CaptureEnd, EnterFinalizing, Finalize, Outcomes, Exit,
                      IInv, TypeOK, Job
  <2>7. CASE Advance \/ Restart \/ UNCHANGED vars
    BY <2>1, <2>7 DEF Advance, Restart, vars
  <2>8. ASSUME NEW len, NEW count
        PROVE  NewJob(len, count).state = "scheduled" /\ ~NewJob(len, count).stopped
    BY DEF NewJob
  <2>9. CASE \/ \E i \in Sessions, r \in Rules, c \in Counts : CreateSession(i, r.len, c)
             \/ \E s \in Schedules, r \in Rules, c \in Counts : SaveSchedule(s, r, c)
    <3>1. job'[j] = job[j] \/ \E len, count : job'[j] = NewJob(len, count)
      BY <2>2, <2>3, <2>9
    <3> QED BY <2>1, <2>8, <3>1
  <2> QED BY <2>4, <2>5, <2>6, <2>7, <2>9 DEF Next, Handler
<1> QED BY <1>1, <1>2, Invariance, PTL DEF Spec

\* advanceSchedules always finds the job record of an active schedule's next occurrence:
\* both are committed together, and no step removes a record.
THEOREM OccurrencePresent == Spec => []ActiveHasOccurrence
<1>1. Init => ActiveHasOccurrence
  BY DEF Init, ActiveHasOccurrence, NoSched
<1>2. IInv /\ ActiveHasOccurrence /\ [Next]_vars => ActiveHasOccurrence'
  <2> SUFFICES ASSUME IInv, ActiveHasOccurrence, [Next]_vars, NEW s \in Schedules,
                      sched'[s].state = "active"
               PROVE  job'[<<s, sched'[s].next>>].state # "none"
    BY DEF ActiveHasOccurrence, Exists
  <2>1. \A t \in Time : <<s, t>> \in JobIds
    BY DEF JobIds
  <2>2. sched[s].next \in Time
    BY SchedTyped DEF IInv, Sched
  <2>3. sched[s].state = "active" => job[<<s, sched[s].next>>].state # "none"
    BY DEF ActiveHasOccurrence, Exists
  <2>4. ASSUME sched'[s] = sched[s], \A j \in JobIds : job'[j].state = "none" => job[j].state = "none"
        PROVE  job'[<<s, sched'[s].next>>].state # "none"
    BY <2>1, <2>2, <2>3, <2>4
  <2>5. ASSUME NEW i \in Sessions, NEW r \in Rules, NEW c \in Counts,
               CreateSession(i, r.len, c)
        PROVE  job'[<<s, sched'[s].next>>].state # "none"
    BY <2>4, <2>5 DEF CreateSession, NewJob, IInv, TypeOK
  <2>6. ASSUME NEW z \in Schedules, NEW r \in Rules, NEW c \in Counts, SaveSchedule(z, r, c)
        PROVE  job'[<<s, sched'[s].next>>].state # "none"
    <3>1. PICK start \in Time :
            /\ start > now /\ <<z, start>> \in JobIds
            /\ sched' = [sched EXCEPT ![z] = [state |-> "active", rule |-> r,
                                              next |-> start, count |-> c]]
            /\ job' = [job EXCEPT ![<<z, start>>] = NewJob(r.len, c)]
            /\ pending' = {[sched |-> z, keep |-> {<<z, start>>}]} /\ pending = {}
            /\ UNCHANGED <<now, worker, leftover>>
      BY <2>6, SaveScheduleWrites
    <3>2. CASE z = s
      BY <3>1, <3>2 DEF IInv, TypeOK, NewJob
    <3>3. CASE z # s
      BY <2>4, <3>1, <3>3 DEF IInv, TypeOK, NewJob
    <3> QED BY <3>2, <3>3
  <2>7. CASE \E z \in Schedules : DeleteSchedule(z)
    BY <2>3, <2>7 DEF DeleteSchedule, IInv, TypeOK, Sched
  <2>8. CASE Tick
    <3>1. \A j \in JobIds : job'[j].state = "none" => job[j].state = "none"
      BY <2>8, TickJobs DEF IInv, SameRecord, NowMissed, NewOccurrence, SameWindow
    <3> QED BY <2>4, <2>8, <3>1, TickSchedules DEF IInv
  <2>9. CASE CancelUpcoming \/ (\E k \in JobIds : Stop(k) \/ DeleteSession(k) \/ Worker(k))
    <3>1. sched' = sched
      BY <2>9 DEF CancelUpcoming, Stop, DeleteSession, Worker, Begin, CaptureEnd,
                  EnterFinalizing, Finalize, Exit
    <3>2. \A j \in JobIds : job'[j].state = "none" => job[j].state = "none"
      <4> SUFFICES ASSUME NEW j \in JobIds, job'[j].state = "none" PROVE job[j].state = "none"
        OBVIOUS
      <4>1. job[j] \in Job
        BY DEF IInv, TypeOK
      <4>2. CASE CancelUpcoming
        BY <4>1, <4>2 DEF CancelUpcoming, Upcoming, IInv, TypeOK, Job
      <4>3. ASSUME NEW k \in JobIds, Stop(k) \/ DeleteSession(k)
            PROVE  job[j].state = "none"
        BY <4>1, <4>3 DEF Stop, DeleteSession, IInv, TypeOK, Job
      <4>4. ASSUME NEW k \in JobIds, Worker(k)
            PROVE  job[j].state = "none"
        BY <4>1, <4>4 DEF Worker, Begin, CaptureEnd, EnterFinalizing, Finalize, Outcomes, Exit,
                          IInv, TypeOK, Job
      <4> QED BY <2>9, <4>2, <4>3, <4>4
    <3> QED BY <2>4, <3>1, <3>2
  <2>10. CASE Advance \/ Restart \/ UNCHANGED vars
    BY <2>3, <2>10 DEF Advance, Restart, vars
  <2> QED BY <2>5, <2>6, <2>7, <2>8, <2>9, <2>10 DEF Next, Handler
<1> QED BY <1>1, <1>2, Invariance, PTL DEF Spec

=============================================================================

-------------------------- MODULE RadioFeed_proofs --------------------------
(***************************************************************************)
(* Proofs about RadioFeed, for every number of requests, playback ids,      *)
(* accounts and titles and for every limit.                                 *)
(*                                                                         *)
(* Counts are proved as cardinalities: refs of a feed counts the requests   *)
(* that hold it (RefsOK), so release forgets the feed exactly when nobody   *)
(* else holds it; an account's encoders count the relays that run one       *)
(* (SlotsOK).  A new feed always finds a free place, since a request that   *)
(* holds nothing leaves fewer holders than places (Fresh).  The newest      *)
(* event reaches a listener because whoever is still to be told is          *)
(* subscribed to the feed that is being published to (TellOK), and whoever  *)
(* is not has the latest event in its channel or has sent it (NewsOK).      *)
(***************************************************************************)
EXTENDS RadioFeed, FiniteSetTheorems, TLAPS

-----------------------------------------------------------------------------
(* The invariant                                                            *)

\* A request that is not idle names a playback id, and holds the feed that its hub has for it.
PlaceOK ==
  /\ \A p \in Relays : pc[p] \in RelayStates \cup {"idle", "acquired", "leaving"}
  /\ \A l \in Listeners : pc[l] \in {"idle", "acquired", "leaving", "listening", "unsubscribing"}
  /\ \A c \in Requests :
       /\ pc[c] = "idle" => at[c] = <<>> /\ holds[c] = None
       /\ pc[c] # "idle" => at[c] \in Playbacks /\ holds[c] \in Requests /\ hub[at[c]] = holds[c]
\* A hub keeps the feeds of the ids that somebody asked for, and no two ids share one.
HubOK ==
  /\ \A k \in Playbacks : hub[k] # None => \E c \in Requests : at[c] = k
  /\ \A k, m \in Playbacks : hub[k] = hub[m] /\ hub[k] # None => k = m
\* refs is the number of those who hold a feed.
Holders(f) == {c \in Requests : holds[c] = f}
RefsOK == \A f \in Requests : feed[f].refs = Cardinality(Holders(f))
\* A feed is active as long as a relay plays on it, which is the only one.
OwnersOK ==
  /\ \A f \in Requests : feed[f].active <=> \E p \in Relays : Playing(p) /\ holds[p] = f
  /\ \A p, q \in Relays : Playing(p) /\ Playing(q) /\ holds[p] = holds[q] => p = q
\* live is the number of relays that run an encoder for an account.
Runs(u) == {p \in Relays : slot[p] /\ Owner(p) = u}
SlotsOK ==
  /\ \A p \in Relays : slot[p] => pc[p] \in {"claimed", "playing", "stopped"}
  /\ \A u \in Users : live[u] = Cardinality(Runs(u))
\* The listeners of a feed are the requests that listen on it, or are about to let go.
ListenOK ==
  /\ \A f \in Requests, l \in Listeners :
       l \in feed[f].listeners <=> pc[l] \in {"listening", "unsubscribing"} /\ holds[l] = f
  /\ \A l \in Listeners : seen[l] # None => pc[l] = "listening"
\* A publish under way tells listeners of its own feed, and has something to tell.
TellOK ==
  \A p \in Relays :
    /\ todo[p] # {} => /\ pc[p] \in {"playing", "ended"}
                       /\ todo[p] \subseteq FeedOf(p).listeners /\ FeedOf(p).latest # None
    /\ drained[p] # None => drained[p] \in todo[p]
\* A listener that no publish has still to tell knows the latest event.
NewsOK ==
  \A l \in Listeners :
    pc[l] = "listening" /\ (\A p \in Relays : l \notin todo[p]) =>
      FeedOf(l).latest = IF chan[l] # None THEN chan[l] ELSE seen[l]

\* The inductive invariant.
IInv == TypeOK /\ PlaceOK /\ HubOK /\ RefsOK /\ OwnersOK /\ SlotsOK /\ ListenOK /\ TellOK /\ NewsOK

-----------------------------------------------------------------------------
(* Names and counts                                                         *)

\* What the assumptions say of the names, and which sets are finite.
LEMMA Names ==
  /\ Relays \subseteq Requests /\ Listeners \subseteq Requests /\ Relays \cap Listeners = {}
  /\ None \notin Requests /\ None \notin Listeners /\ <<>> \notin Playbacks
  /\ IsFiniteSet(Requests) /\ IsFiniteSet(Relays)
  /\ Ended # None /\ None \notin Titles /\ Ended \in Metas
  /\ \A k \in Playbacks : User[k[1]] \in Users
<1>1. IsFiniteSet(Relays)
  BY FeedAssumption, FS_Subset DEF Requests
<1> QED
  BY <1>1, FeedAssumption DEF Requests, Ended, None, Metas, Users, Hubs

\* The records of feed.
FeedRec == [refs : Nat, active : BOOLEAN, latest : Metas \cup {None}, listeners : SUBSET Listeners]

\* The holders of a feed can be counted.
LEMMA HoldersFinite == \A f : IsFiniteSet(Holders(f)) /\ Cardinality(Holders(f)) \in Nat
<1> SUFFICES ASSUME NEW f PROVE IsFiniteSet(Holders(f)) /\ Cardinality(Holders(f)) \in Nat
  OBVIOUS
<1>1. Holders(f) \in SUBSET Requests
  BY DEF Holders
<1>2. IsFiniteSet(Holders(f))
  BY <1>1, Names, FS_Subset
<1> QED
  BY <1>2, FS_CardinalityType

\* A request that is not idle holds a feed, which counts it.
LEMMA Held ==
  ASSUME IInv, NEW c \in Requests, pc[c] # "idle"
  PROVE  /\ holds[c] \in Requests /\ at[c] \in Playbacks /\ hub[at[c]] = holds[c]
         /\ feed[holds[c]].refs >= 1 /\ c \in Holders(holds[c])
<1>1. /\ holds[c] \in Requests /\ at[c] \in Playbacks /\ hub[at[c]] = holds[c]
  BY DEF IInv, PlaceOK
<1>2. c \in Holders(holds[c])
  BY DEF Holders
<1>3. Cardinality(Holders(holds[c])) # 0
  BY <1>2, HoldersFinite, FS_EmptySet
<1> QED
  BY <1>1, <1>2, <1>3, HoldersFinite DEF IInv, RefsOK

\* There is a place for a new feed as long as a request holds none.
LEMMA Fresh ==
  ASSUME IInv, NEW c \in Requests, pc[c] = "idle"
  PROVE  \E f \in Requests : feed[f].refs = 0
<1> SUFFICES ASSUME \A f \in Requests : feed[f].refs # 0 PROVE FALSE
  OBVIOUS
<1>1. \A f \in Requests : Holders(f) # {}
  BY FS_EmptySet DEF IInv, RefsOK
<1> DEFINE pick == [f \in Requests |-> CHOOSE d \in Requests : holds[d] = f]
<1>2. \A f \in Requests : pick[f] \in Requests /\ holds[pick[f]] = f
  BY <1>1 DEF Holders
<1>3. \A f \in Requests : pick[f] # c
  BY <1>2, Names DEF IInv, PlaceOK
<1>4. pick \in Injection(Requests, Requests \ {c})
  <2>1. pick \in [Requests -> Requests \ {c}]
    BY <1>2, <1>3
  <2>2. \A f, g \in Requests : pick[f] = pick[g] => f = g
    BY <1>2
  <2> HIDE DEF pick
  <2> QED BY <2>1, <2>2 DEF Injection, IsInjective
<1>5. /\ IsFiniteSet(Requests \ {c})
      /\ Cardinality(Requests \ {c}) = Cardinality(Requests) - 1
  BY Names, FS_RemoveElement
<1>6. Cardinality(Requests) <= Cardinality(Requests \ {c})
  BY <1>4, <1>5, FS_Injection
<1> QED
  BY <1>5, <1>6, Names, FS_CardinalityType

\* Who holds what, after a request took a feed.
LEMMA HoldersMore ==
  ASSUME IInv, NEW c \in Requests, holds[c] = None, NEW f \in Requests,
         holds' = [holds EXCEPT ![c] = f]
  PROVE  /\ Cardinality(Holders(f))' = Cardinality(Holders(f)) + 1
         /\ \A g \in Requests \ {f} : Holders(g)' = Holders(g)
<1>1. \A d \in Requests : holds'[d] = IF d = c THEN f ELSE holds[d]
  BY DEF IInv, TypeOK
<1>2. Holders(f)' = Holders(f) \cup {c} /\ c \notin Holders(f)
  BY <1>1, Names DEF Holders
<1>3. \A g \in Requests \ {f} : Holders(g)' = Holders(g)
  BY <1>1, Names DEF Holders
<1> QED
  BY <1>2, <1>3, HoldersFinite, FS_AddElement

\* Who holds what, after a request gave a feed back.
LEMMA HoldersLess ==
  ASSUME IInv, NEW c \in Requests, NEW f \in Requests, holds[c] = f,
         holds' = [holds EXCEPT ![c] = None]
  PROVE  /\ Cardinality(Holders(f))' = Cardinality(Holders(f)) - 1
         /\ Holders(f)' = Holders(f) \ {c}
         /\ \A g \in Requests \ {f} : Holders(g)' = Holders(g)
<1>1. \A d \in Requests : holds'[d] = IF d = c THEN None ELSE holds[d]
  BY DEF IInv, TypeOK
<1>2. Holders(f)' = Holders(f) \ {c} /\ c \in Holders(f)
  BY <1>1, Names DEF Holders
<1>3. \A g \in Requests \ {f} : Holders(g)' = Holders(g)
  BY <1>1, Names DEF Holders
<1> QED
  BY <1>2, <1>3, HoldersFinite, FS_RemoveElement

-----------------------------------------------------------------------------
(* Taking a feed and giving it back                                         *)

\* acquire: a feed that is there gets one more holder, a new one has this holder only.
LEMMA AcquireInductive ==
  ASSUME IInv, NEW c \in Requests, NEW k \in Playbacks, Acquire(c, k)
  PROVE  IInv'
<1>1. /\ pc[c] = "idle" /\ at[c] = <<>> /\ holds[c] = None
      /\ \A d \in Requests : /\ pc'[d] = IF d = c THEN "acquired" ELSE pc[d]
                             /\ at'[d] = IF d = c THEN k ELSE at[d]
      /\ UNCHANGED <<live, slot, todo, drained, chan, seen>>
  BY DEF Acquire, Moves, tell, IInv, TypeOK, PlaceOK
<1>2. PICK f \in Requests :
        /\ holds' = [holds EXCEPT ![c] = f]
        /\ \/ /\ hub[k] = f /\ hub' = hub
              /\ feed' = [feed EXCEPT ![f].refs = @ + 1]
           \/ /\ hub[k] = None /\ hub' = [hub EXCEPT ![k] = f]
              /\ feed[f].refs = 0
              /\ feed' = [feed EXCEPT ![f] = [NewFeed EXCEPT !.refs = 1]]
  <2>1. CASE hub[k] # None
    BY <2>1 DEF Acquire, IInv, TypeOK
  <2>2. CASE hub[k] = None
    <3> DEFINE f == CHOOSE g \in Requests : feed[g].refs = 0
    <3>1. f \in Requests /\ feed[f].refs = 0
      BY <1>1, Fresh
    <3>2. /\ holds' = [holds EXCEPT ![c] = f]
          /\ hub' = [hub EXCEPT ![k] = f]
          /\ feed' = [feed EXCEPT ![f] = [NewFeed EXCEPT !.refs = 1]]
      BY <2>2 DEF Acquire
    <3> HIDE DEF f
    <3> QED BY <2>2, <3>1, <3>2
  <2> QED BY <2>1, <2>2
<1>3. \A d \in Requests : holds'[d] = IF d = c THEN f ELSE holds[d]
  BY <1>2 DEF IInv, TypeOK
<1>4. \A g \in Requests \ {f} : feed'[g] = feed[g]
  BY <1>2 DEF IInv, TypeOK
<1>5. feed[f].refs = 0 => /\ \A d \in Requests : holds[d] # f
                          /\ \A m \in Playbacks : hub[m] # f
                          /\ feed[f].active = FALSE /\ feed[f].listeners = {}
  <2> SUFFICES ASSUME feed[f].refs = 0
               PROVE  /\ \A d \in Requests : holds[d] # f
                      /\ \A m \in Playbacks : hub[m] # f
                      /\ feed[f].active = FALSE /\ feed[f].listeners = {}
    OBVIOUS
  <2>1. \A d \in Requests : holds[d] # f
    <3>1. Holders(f) = {}
      BY HoldersFinite, FS_EmptySet DEF IInv, RefsOK
    <3> QED BY <3>1 DEF Holders
  <2>2. \A m \in Playbacks : hub[m] # f
    <3>1. ASSUME NEW m \in Playbacks, hub[m] = f PROVE FALSE
      <4>1. PICK d \in Requests : at[d] = m
        BY <3>1, Names DEF IInv, HubOK
      <4>2. pc[d] # "idle"
        BY <4>1, Names DEF IInv, PlaceOK
      <4> QED BY <2>1, <3>1, <4>1, <4>2 DEF IInv, PlaceOK
    <3> QED BY <3>1
  <2>3. feed[f].active = FALSE
    BY <2>1, Names DEF IInv, OwnersOK, TypeOK
  <2>4. feed[f].listeners = {}
    BY <2>1, Names DEF IInv, ListenOK, TypeOK
  <2> QED BY <2>1, <2>2, <2>3, <2>4
<1>6. /\ feed'[f].refs = feed[f].refs + 1
      /\ \A g \in Requests : feed'[g].active = feed[g].active /\ feed'[g].listeners = feed[g].listeners
      /\ \A d \in Requests \ {c} : holds[d] \in Requests => feed'[holds[d]].latest = feed[holds[d]].latest
      /\ feed' \in [Requests -> FeedRec]
  <2>0. feed \in [Requests -> FeedRec]
    BY DEF IInv, TypeOK, FeedRec
  <2>1. CASE feed' = [feed EXCEPT ![f].refs = @ + 1]
    <3>1. PICK n \in Nat : n = feed[f].refs + 1
      BY <2>0 DEF FeedRec
    <3>2. feed' = [feed EXCEPT ![f] = [feed[f] EXCEPT !.refs = n]]
      BY <2>1, <3>1, <2>0
    <3>3. PICK r : r = [feed[f] EXCEPT !.refs = n]
      OBVIOUS
    <3>4. /\ r \in FeedRec /\ r.refs = n /\ r.active = feed[f].active
          /\ r.listeners = feed[f].listeners /\ r.latest = feed[f].latest
      BY <2>0, <3>3 DEF FeedRec
    <3>5. feed' \in [Requests -> FeedRec]
      BY <2>0, <3>2, <3>3, <3>4
    <3>6. \A g \in Requests : feed'[g] = IF g = f THEN r ELSE feed[g]
      BY <2>0, <3>2, <3>3
    <3> QED BY <3>1, <3>4, <3>5, <3>6
  <2>2. CASE feed[f].refs = 0 /\ feed' = [feed EXCEPT ![f] = [NewFeed EXCEPT !.refs = 1]]
    <3>1. feed'[f] = [refs |-> 1, active |-> FALSE, latest |-> None, listeners |-> {}]
      BY <2>2 DEF NewFeed, IInv, TypeOK
    <3>2. feed' \in [Requests -> FeedRec]
      <4>1. [NewFeed EXCEPT !.refs = 1] \in FeedRec
        BY DEF NewFeed, FeedRec
      <4> QED BY <2>0, <2>2, <4>1
    <3>3. feed'[f].refs = feed[f].refs + 1
      BY <2>2, <3>1
    <3>4. \A g \in Requests : feed'[g].active = feed[g].active /\ feed'[g].listeners = feed[g].listeners
      <4>1. feed'[f].active = FALSE /\ feed'[f].listeners = {}
        BY ONLY <3>1
      <4>2. feed[f].active = FALSE /\ feed[f].listeners = {}
        BY <2>2, <1>5
      <4> QED BY <4>1, <4>2, <1>4
    <3>5. \A d \in Requests : holds[d] \in Requests => feed'[holds[d]].latest = feed[holds[d]].latest
      BY <2>2, <1>4, <1>5
    <3> QED BY <3>2, <3>3, <3>4, <3>5
  <2> QED BY <1>2, <2>1, <2>2
<1>7. /\ hub'[k] = f /\ \A m \in Playbacks \ {k} : hub'[m] = hub[m] /\ hub[m] # f
      /\ hub[k] # None => hub[k] = f
  <2>1. CASE hub[k] = f /\ hub' = hub
    BY <2>1, Names DEF IInv, HubOK
  <2>2. CASE hub[k] = None /\ hub' = [hub EXCEPT ![k] = f] /\ feed[f].refs = 0
    BY <2>2, <1>5 DEF IInv, TypeOK
  <2> QED BY <1>2, <2>1, <2>2
<1>8. TypeOK'
  <2>1. pc' \in [Requests -> RelayStates \cup {"idle", "acquired", "leaving", "listening", "unsubscribing"}]
    BY DEF Acquire, Moves, IInv, TypeOK
  <2>2. at' \in [Requests -> Playbacks \cup {<<>>}]
    BY DEF Acquire, IInv, TypeOK
  <2>3. holds' \in [Requests -> Requests \cup {None}]
    BY <1>2 DEF IInv, TypeOK
  <2>4. hub' \in [Playbacks -> Requests \cup {None}]
    BY <1>2 DEF IInv, TypeOK
  <2> QED BY <1>1, <1>6, <2>1, <2>2, <2>3, <2>4 DEF IInv, TypeOK, FeedRec
<1>9. PlaceOK'
  <2>1. \A d \in Requests : pc[d] # "idle" => at[d] \in Playbacks /\ holds[d] = hub[at[d]] /\ holds[d] # None
    BY Names DEF IInv, PlaceOK
  <2>2. \A d \in Requests \ {c} : pc[d] # "idle" => hub'[at[d]] = hub[at[d]]
    BY <2>1, <1>7
  <2> QED BY <2>1, <2>2, <1>1, <1>3, <1>7, Names DEF IInv, PlaceOK
<1>10. HubOK'
  BY <1>1, <1>7, Names DEF IInv, HubOK
<1>11. RefsOK'
  <2>1. feed'[f].refs = Cardinality(Holders(f))'
    BY <1>1, <1>2, <1>6, HoldersMore DEF IInv, RefsOK
  <2>2. \A g \in Requests \ {f} : feed'[g].refs = Cardinality(Holders(g))'
    BY <1>1, <1>2, <1>4, HoldersMore DEF IInv, RefsOK
  <2> QED BY <2>1, <2>2 DEF RefsOK
<1>12. \A p \in Relays : /\ Playing(p)' <=> Playing(p)
                         /\ Playing(p) => holds'[p] = holds[p]
  BY <1>1, <1>3, Names DEF Playing, RelayStates
<1>13. OwnersOK'
  BY <1>6, <1>12 DEF IInv, OwnersOK
<1>14. SlotsOK'
  <2>1. \A p \in Relays : slot[p] => p # c
    BY <1>1 DEF IInv, SlotsOK
  <2>2. \A u : Runs(u)' = Runs(u)
    BY <1>1, <2>1, Names DEF Runs, Owner
  <2> QED BY <1>1, <2>1, <2>2, Names DEF IInv, SlotsOK
<1>15. ListenOK'
  BY <1>1, <1>3, <1>6, Names DEF IInv, ListenOK
<1>16. TellOK'
  BY <1>1, <1>3, <1>6, Names DEF IInv, TellOK, FeedOf, PlaceOK
<1>17. NewsOK'
  BY <1>1, <1>3, <1>6, Names DEF IInv, NewsOK, FeedOf, PlaceOK
<1> QED
  BY <1>8, <1>9, <1>10, <1>11, <1>13, <1>14, <1>15, <1>16, <1>17 DEF IInv

\* release: the hub forgets the feed if nobody else holds it.
LEMMA ReleaseInductive ==
  ASSUME IInv, NEW c \in Requests, Release(c)
  PROVE  IInv'
<1>1. PICK f \in Requests : f = holds[c]
  BY Held DEF Release, Moves
<1>2. /\ pc[c] = "leaving" /\ holds' = [holds EXCEPT ![c] = None]
      /\ \A d \in Requests : /\ pc'[d] = IF d = c THEN "idle" ELSE pc[d]
                             /\ at'[d] = IF d = c THEN <<>> ELSE at[d]
                             /\ holds'[d] = IF d = c THEN None ELSE holds[d]
      /\ UNCHANGED <<live, slot, todo, drained, chan, seen>>
  BY DEF Release, Moves, tell, IInv, TypeOK
<1>3. feed' = [feed EXCEPT ![f].refs = @ - 1]
  BY <1>1 DEF Release
<1>4. /\ feed[f].refs \in Nat /\ feed[f].refs >= 1 /\ at[c] \in Playbacks /\ hub[at[c]] = f
  BY <1>1, <1>2, Held DEF IInv, TypeOK
<1>5. /\ feed'[f].refs = feed[f].refs - 1
      /\ \A g \in Requests \ {f} : feed'[g] = feed[g]
      /\ \A g \in Requests : /\ feed'[g].active = feed[g].active
                             /\ feed'[g].listeners = feed[g].listeners
                             /\ feed'[g].latest = feed[g].latest
      /\ feed' \in [Requests -> FeedRec]
  <2>0. feed \in [Requests -> FeedRec]
    BY DEF IInv, TypeOK, FeedRec
  <2>1. PICK n \in Nat : n = feed[f].refs - 1
    BY <1>4
  <2>2. PICK r : r = [feed[f] EXCEPT !.refs = n]
    OBVIOUS
  <2>3. feed' = [feed EXCEPT ![f] = r]
    BY <1>3, <2>0, <2>1, <2>2
  <2>4. /\ r \in FeedRec /\ r.refs = n /\ r.active = feed[f].active
        /\ r.listeners = feed[f].listeners /\ r.latest = feed[f].latest
    BY <2>0, <2>2 DEF FeedRec
  <2>5. feed' \in [Requests -> FeedRec]
    BY <2>0, <2>3, <2>4
  <2>6. \A g \in Requests : feed'[g] = IF g = f THEN r ELSE feed[g]
    BY <2>0, <2>3
  <2> QED BY <2>1, <2>4, <2>5, <2>6
<1>6. \/ /\ hub' = hub /\ \E d \in Requests \ {c} : holds[d] = f
      \/ /\ hub' = [hub EXCEPT ![at[c]] = None] /\ \A d \in Requests \ {c} : holds[d] # f
  <2>1. Cardinality(Holders(f)) = feed[f].refs /\ c \in Holders(f) /\ IsFiniteSet(Holders(f))
    BY <1>1, HoldersFinite DEF IInv, RefsOK, Holders
  <2>2. CASE feed[f].refs > 1
    <3>1. hub' = hub
      BY <1>1, <2>2 DEF Release, Kept, FeedOf
    <3>0. /\ Cardinality(Holders(f) \ {c}) = Cardinality(Holders(f)) - 1
          /\ IsFiniteSet(Holders(f) \ {c})
      BY <2>1, FS_RemoveElement
    <3>2. Cardinality(Holders(f) \ {c}) # 0 /\ IsFiniteSet(Holders(f) \ {c})
      BY <1>4, <2>1, <2>2, <3>0
    <3>3. Holders(f) \ {c} # {}
      BY <3>2, FS_EmptySet
    <3> QED BY <3>1, <3>3 DEF Holders
  <2>3. CASE ~(feed[f].refs > 1)
    <3>1. hub' = [hub EXCEPT ![at[c]] = None]
      BY <1>1, <2>3 DEF Release, Kept, FeedOf
    <3>2. Cardinality(Holders(f) \ {c}) = 0 /\ IsFiniteSet(Holders(f) \ {c})
      BY <1>4, <2>1, <2>3, FS_RemoveElement
    <3>3. Holders(f) \ {c} = {}
      BY <3>2, FS_EmptySet
    <3> QED BY <3>1, <3>3 DEF Holders
  <2> QED BY <2>2, <2>3
<1>8. TypeOK'
  <2>1. pc' \in [Requests -> RelayStates \cup {"idle", "acquired", "leaving", "listening", "unsubscribing"}]
    BY DEF Release, Moves, IInv, TypeOK
  <2>2. at' \in [Requests -> Playbacks \cup {<<>>}]
    BY DEF Release, IInv, TypeOK
  <2>3. holds' \in [Requests -> Requests \cup {None}]
    BY <1>2 DEF IInv, TypeOK
  <2>4. hub' \in [Playbacks -> Requests \cup {None}]
    BY <1>6 DEF IInv, TypeOK
  <2> QED BY <1>2, <1>5, <2>1, <2>2, <2>3, <2>4 DEF IInv, TypeOK, FeedRec
<1>9. PlaceOK'
  <2>1. \A d \in Requests \ {c} : pc[d] # "idle" => hub'[at[d]] = hub[at[d]]
    <3>1. ASSUME NEW d \in Requests \ {c}, pc[d] # "idle", hub' = [hub EXCEPT ![at[c]] = None],
                 holds[d] # f
          PROVE  hub'[at[d]] = hub[at[d]]
      <4>1. at[d] \in Playbacks /\ at[d] # at[c]
        BY <3>1, <1>4, Held
      <4> QED BY <3>1, <4>1 DEF IInv, TypeOK
    <3> QED BY <1>6, <3>1
  <2> QED BY <2>1, <1>2, Names DEF IInv, PlaceOK
<1>10. HubOK'
  <2>1. CASE hub' = hub /\ \E d \in Requests \ {c} : holds[d] = f
    <3>1. PICK d \in Requests \ {c} : holds[d] = f
      BY <2>1
    <3>2. at[d] = at[c]
      <4>1. pc[d] # "idle"
        BY <3>1, Names DEF IInv, PlaceOK
      <4> QED BY <3>1, <4>1, <1>4, Held, Names DEF IInv, HubOK
    <3>3. at'[d] = at[c]
      BY <3>1, <3>2, <1>2
    <3> QED BY <2>1, <3>3, <1>2 DEF IInv, HubOK
  <2>2. CASE hub' = [hub EXCEPT ![at[c]] = None]
    <3>1. hub'[at[c]] = None /\ \A m \in Playbacks \ {at[c]} : hub'[m] = hub[m]
      BY <2>2, <1>4 DEF IInv, TypeOK
    <3> QED BY <3>1, <1>2, <1>4 DEF IInv, HubOK
  <2> QED BY <1>6, <2>1, <2>2
<1>11. RefsOK'
  <2>1. feed'[f].refs = Cardinality(Holders(f))'
    BY <1>1, <1>2, <1>5, HoldersLess DEF IInv, RefsOK
  <2>2. \A g \in Requests \ {f} : feed'[g].refs = Cardinality(Holders(g))'
    BY <1>1, <1>2, <1>5, HoldersLess DEF IInv, RefsOK
  <2> QED BY <2>1, <2>2 DEF RefsOK
<1>12. \A p \in Relays : /\ Playing(p)' <=> Playing(p)
                         /\ Playing(p) => holds'[p] = holds[p]
  BY <1>2, Names DEF Playing, RelayStates
<1>13. OwnersOK'
  BY <1>5, <1>12 DEF IInv, OwnersOK
<1>14. SlotsOK'
  <2>1. \A p \in Relays : slot[p] => p # c
    BY <1>2 DEF IInv, SlotsOK
  <2>2. \A u : Runs(u)' = Runs(u)
    BY <1>2, <2>1, Names DEF Runs, Owner
  <2> QED BY <1>2, <2>1, <2>2, Names DEF IInv, SlotsOK
<1>15. ListenOK'
  BY <1>2, <1>5, Names DEF IInv, ListenOK
<1>16. TellOK'
  BY <1>2, <1>5, Names DEF IInv, TellOK, FeedOf, PlaceOK
<1>17. NewsOK'
  BY <1>2, <1>5, Names DEF IInv, NewsOK, FeedOf, PlaceOK
<1> QED
  BY <1>8, <1>9, <1>10, <1>11, <1>13, <1>14, <1>15, <1>16, <1>17 DEF IInv

-----------------------------------------------------------------------------
(* What a step changes                                                      *)

\* The places of a request.
PcStates == RelayStates \cup {"idle", "acquired", "leaving", "listening", "unsubscribing"}

\* begin and end change nothing of a feed but active.
LEMMA SetActive ==
  ASSUME feed \in [Requests -> FeedRec], NEW f \in Requests, NEW b \in BOOLEAN,
         feed' = [feed EXCEPT ![f].active = b]
  PROVE  /\ feed' \in [Requests -> FeedRec]
         /\ \A g \in Requests : /\ feed'[g].refs = feed[g].refs
                                /\ feed'[g].listeners = feed[g].listeners
                                /\ feed'[g].latest = feed[g].latest
                                /\ feed'[g].active = IF g = f THEN b ELSE feed[g].active
<1>1. PICK r : r = [feed[f] EXCEPT !.active = b]
  OBVIOUS
<1>2. feed' = [feed EXCEPT ![f] = r]
  BY <1>1
<1>3. /\ r \in FeedRec /\ r.refs = feed[f].refs /\ r.active = b
      /\ r.listeners = feed[f].listeners /\ r.latest = feed[f].latest
  BY <1>1 DEF FeedRec
<1>4. feed' \in [Requests -> FeedRec] /\ \A g \in Requests : feed'[g] = IF g = f THEN r ELSE feed[g]
  BY <1>2, <1>3
<1> QED
  BY <1>3, <1>4

\* publish changes nothing of a feed but latest.
LEMMA SetLatest ==
  ASSUME feed \in [Requests -> FeedRec], NEW f \in Requests, NEW m \in Metas,
         feed' = [feed EXCEPT ![f].latest = m]
  PROVE  /\ feed' \in [Requests -> FeedRec]
         /\ \A g \in Requests : /\ feed'[g].refs = feed[g].refs
                                /\ feed'[g].listeners = feed[g].listeners
                                /\ feed'[g].active = feed[g].active
                                /\ feed'[g].latest = IF g = f THEN m ELSE feed[g].latest
<1>1. PICK r : r = [feed[f] EXCEPT !.latest = m]
  OBVIOUS
<1>2. feed' = [feed EXCEPT ![f] = r]
  BY <1>1
<1>3. /\ r \in FeedRec /\ r.refs = feed[f].refs /\ r.active = feed[f].active
      /\ r.listeners = feed[f].listeners /\ r.latest = m
  BY <1>1 DEF FeedRec
<1>4. feed' \in [Requests -> FeedRec] /\ \A g \in Requests : feed'[g] = IF g = f THEN r ELSE feed[g]
  BY <1>2, <1>3
<1> QED
  BY <1>3, <1>4

\* Subscribing and its end change nothing of a feed but listeners.
LEMMA SetListeners ==
  ASSUME feed \in [Requests -> FeedRec], NEW f \in Requests, NEW L \in SUBSET Listeners,
         feed' = [feed EXCEPT ![f].listeners = L]
  PROVE  /\ feed' \in [Requests -> FeedRec]
         /\ \A g \in Requests : /\ feed'[g].refs = feed[g].refs
                                /\ feed'[g].active = feed[g].active
                                /\ feed'[g].latest = feed[g].latest
                                /\ feed'[g].listeners = IF g = f THEN L ELSE feed[g].listeners
<1>1. PICK r : r = [feed[f] EXCEPT !.listeners = L]
  OBVIOUS
<1>2. feed' = [feed EXCEPT ![f] = r]
  BY <1>1
<1>3. /\ r \in FeedRec /\ r.refs = feed[f].refs /\ r.active = feed[f].active
      /\ r.listeners = L /\ r.latest = feed[f].latest
  BY <1>1 DEF FeedRec
<1>4. feed' \in [Requests -> FeedRec] /\ \A g \in Requests : feed'[g] = IF g = f THEN r ELSE feed[g]
  BY <1>2, <1>3
<1> QED
  BY <1>3, <1>4

\* A request that moves on, with what it holds, keeps its place and all counts.
LEMMA Frame ==
  ASSUME IInv, NEW c \in Requests, pc[c] # "idle", NEW to, to # "idle",
         c \in Relays => to \in RelayStates \cup {"leaving"},
         c \in Listeners => to \in {"leaving", "listening", "unsubscribing"},
         pc' = [pc EXCEPT ![c] = to], UNCHANGED <<at, holds, hub>>,
         \A g \in Requests : feed'[g].refs = feed[g].refs
  PROVE  /\ pc' \in [Requests -> PcStates]
         /\ \A d \in Requests : pc'[d] = IF d = c THEN to ELSE pc[d]
         /\ PlaceOK' /\ HubOK' /\ RefsOK'
<1>1. to \in PcStates
  BY DEF PcStates, Requests
<1>2. /\ pc' \in [Requests -> PcStates]
      /\ \A d \in Requests : pc'[d] = IF d = c THEN to ELSE pc[d]
  BY <1>1 DEF IInv, TypeOK, PcStates
<1>3. PlaceOK'
  BY <1>2, Names DEF IInv, PlaceOK
<1>4. HubOK'
  BY DEF IInv, HubOK
<1>5. RefsOK'
  <2>1. \A f : Holders(f)' = Holders(f)
    BY DEF Holders
  <2> QED BY <2>1 DEF IInv, RefsOK
<1> QED
  BY <1>2, <1>3, <1>4, <1>5

\* The same of a relay, which is no listener.
LEMMA RelayFrame ==
  ASSUME IInv, NEW p \in Relays, pc[p] # "idle", NEW to \in RelayStates \cup {"leaving"},
         pc' = [pc EXCEPT ![p] = to], UNCHANGED <<at, holds, hub, seen>>,
         \A g \in Requests : feed'[g].refs = feed[g].refs /\ feed'[g].listeners = feed[g].listeners
  PROVE  /\ pc' \in [Requests -> PcStates]
         /\ \A d \in Requests : pc'[d] = IF d = p THEN to ELSE pc[d]
         /\ PlaceOK' /\ HubOK' /\ RefsOK' /\ ListenOK'
<1>1. to # "idle" /\ p \in Requests /\ p \notin Listeners
  BY Names DEF RelayStates
<1>2. /\ pc' \in [Requests -> PcStates]
      /\ \A d \in Requests : pc'[d] = IF d = p THEN to ELSE pc[d]
      /\ PlaceOK' /\ HubOK' /\ RefsOK'
  BY <1>1, Frame
<1>3. ListenOK'
  BY <1>1, <1>2, Names DEF IInv, ListenOK
<1> QED
  BY <1>2, <1>3

\* A relay that moves on with its encoder keeps the encoders counted.
LEMMA SlotsSame ==
  ASSUME IInv, NEW p \in Relays, UNCHANGED <<at, live, slot>>,
         \A d \in Requests : d # p => pc'[d] = pc[d],
         slot[p] => pc'[p] \in {"claimed", "playing", "stopped"}
  PROVE  SlotsOK'
<1>1. \A u : Runs(u)' = Runs(u)
  BY DEF Runs, Owner
<1> QED
  BY <1>1, Names DEF IInv, SlotsOK

\* A relay that goes on playing, or goes on not playing, keeps the owners.
LEMMA OwnersSame ==
  ASSUME IInv, NEW p \in Relays, UNCHANGED holds,
         \A d \in Requests : d # p => pc'[d] = pc[d],
         Playing(p)' <=> Playing(p),
         \A g \in Requests : feed'[g].active = feed[g].active
  PROVE  OwnersOK'
<1>1. \A q \in Relays : Playing(q)' <=> Playing(q)
  BY Names DEF Playing
<1> QED
  BY <1>1 DEF IInv, OwnersOK

\* A relay that publishes nothing leaves the listeners what they know.
LEMMA NewsSame ==
  ASSUME IInv, NEW p \in Relays, UNCHANGED <<holds, todo, chan, seen>>,
         \A d \in Requests : d # p => pc'[d] = pc[d],
         \A g \in Requests : feed'[g].latest = feed[g].latest
  PROVE  NewsOK'
BY Names DEF IInv, NewsOK, FeedOf, PlaceOK

\* A relay that publishes nothing leaves what is to be told.
LEMMA TellSame ==
  ASSUME IInv, NEW p \in Relays, UNCHANGED <<holds, todo, drained>>, todo[p] = {},
         \A d \in Requests : d # p => pc'[d] = pc[d],
         \A g \in Requests : feed'[g].latest = feed[g].latest /\ feed'[g].listeners = feed[g].listeners
  PROVE  TellOK'
BY Names DEF IInv, TellOK, FeedOf, PlaceOK

-----------------------------------------------------------------------------
(* Relays                                                                   *)

\* begin: an inactive feed has no relay that plays; a refused relay keeps the feed.
LEMMA BeginInductive ==
  ASSUME IInv, NEW p \in Relays, Begin(p)
  PROVE  IInv'
<1>1. /\ p \in Requests /\ pc[p] = "acquired" /\ holds[p] \in Requests /\ ~slot[p] /\ todo[p] = {}
      /\ ~Playing(p) /\ feed \in [Requests -> FeedRec]
      /\ UNCHANGED <<at, holds, hub, live, slot, todo, drained, chan, seen>>
  BY Names DEF Begin, Refused, tell, IInv, PlaceOK, SlotsOK, TellOK, TypeOK, FeedRec, Playing, RelayStates
<1>2. CASE /\ ~feed[holds[p]].active /\ pc' = [pc EXCEPT ![p] = "begun"]
           /\ feed' = [feed EXCEPT ![holds[p]].active = TRUE]
  <2>1. /\ feed' \in [Requests -> FeedRec]
        /\ \A g \in Requests : /\ feed'[g].refs = feed[g].refs
                               /\ feed'[g].listeners = feed[g].listeners
                               /\ feed'[g].latest = feed[g].latest
                               /\ feed'[g].active = IF g = holds[p] THEN TRUE ELSE feed[g].active
    BY <1>1, <1>2, SetActive
  <2>2. /\ pc' \in [Requests -> PcStates]
        /\ \A d \in Requests : pc'[d] = IF d = p THEN "begun" ELSE pc[d]
        /\ PlaceOK' /\ HubOK' /\ RefsOK' /\ ListenOK'
    BY <1>1, <1>2, <2>1, RelayFrame DEF RelayStates
  <2>3. \A q \in Relays : Playing(q)' <=> Playing(q) \/ q = p
    BY <2>2, Names DEF Playing, RelayStates
  <2>4. \A q \in Relays : Playing(q) => holds[q] # holds[p]
    BY <1>1, <1>2 DEF IInv, OwnersOK
  <2>5. OwnersOK'
    <3>1. \A f \in Requests : feed'[f].active <=> \E q \in Relays : Playing(q)' /\ holds'[q] = f
      BY <1>1, <2>1, <2>3 DEF IInv, OwnersOK
    <3>2. \A q, r \in Relays : Playing(q)' /\ Playing(r)' /\ holds'[q] = holds'[r] => q = r
      BY <1>1, <2>3, <2>4 DEF IInv, OwnersOK
    <3> QED BY <3>1, <3>2 DEF OwnersOK
  <2>6. SlotsOK' /\ TellOK' /\ NewsOK'
    BY <1>1, <2>1, <2>2, SlotsSame, TellSame, NewsSame
  <2> QED BY <1>1, <2>1, <2>2, <2>5, <2>6 DEF IInv, TypeOK, PcStates, FeedRec
<1>3. CASE pc' = [pc EXCEPT ![p] = "leaving"] /\ feed' = feed
  <2>2. /\ pc' \in [Requests -> PcStates]
        /\ \A d \in Requests : pc'[d] = IF d = p THEN "leaving" ELSE pc[d]
        /\ PlaceOK' /\ HubOK' /\ RefsOK' /\ ListenOK'
    BY <1>1, <1>3, RelayFrame DEF RelayStates
  <2>3. ~Playing(p)'
    BY <1>1, <2>2 DEF Playing, RelayStates
  <2>4. OwnersOK' /\ SlotsOK' /\ TellOK' /\ NewsOK'
    BY <1>1, <1>3, <2>2, <2>3, OwnersSame, SlotsSame, TellSame, NewsSame
  <2> QED BY <1>1, <1>3, <2>2, <2>4 DEF IInv, TypeOK, PcStates, FeedRec
<1> QED
  BY <1>2, <1>3 DEF Begin, Refused, Moves, FeedOf

\* podLive: a claimed slot is counted.
LEMMA ClaimInductive ==
  ASSUME IInv, NEW p \in Relays, Claim(p)
  PROVE  IInv'
<1>1. /\ p \in Requests /\ pc[p] = "begun" /\ at[p] \in Playbacks /\ ~slot[p] /\ todo[p] = {}
      /\ Playing(p) /\ Owner(p) \in Users
      /\ UNCHANGED <<at, holds, hub, feed, todo, drained, chan, seen>>
  BY Names DEF Claim, tell, IInv, PlaceOK, SlotsOK, TellOK, Playing, RelayStates, Owner
<1>2. ASSUME NEW to \in {"claimed", "stopped"}, pc' = [pc EXCEPT ![p] = to], SlotsOK',
             live' \in [Users -> Nat], slot' \in [Relays -> BOOLEAN]
      PROVE  IInv'
  <2>2. /\ pc' \in [Requests -> PcStates]
        /\ \A d \in Requests : pc'[d] = IF d = p THEN to ELSE pc[d]
        /\ PlaceOK' /\ HubOK' /\ RefsOK' /\ ListenOK'
    BY <1>1, <1>2, RelayFrame DEF RelayStates
  <2>3. Playing(p)'
    BY <1>1, <2>2 DEF Playing, RelayStates
  <2>4. OwnersOK' /\ TellOK' /\ NewsOK'
    BY <1>1, <2>2, <2>3, OwnersSame, TellSame, NewsSame
  <2> QED BY <1>1, <1>2, <2>2, <2>4 DEF IInv, TypeOK, PcStates
<1>3. CASE /\ pc' = [pc EXCEPT ![p] = "claimed"] /\ live' = Counted(Owner(p))
           /\ slot' = [slot EXCEPT ![p] = TRUE]
  <2>1. /\ \A d \in Requests : pc'[d] = IF d = p THEN "claimed" ELSE pc[d]
        /\ \A q \in Relays : slot'[q] = IF q = p THEN TRUE ELSE slot[q]
        /\ \A u \in Users : live'[u] = IF u = Owner(p) THEN live[u] + 1 ELSE live[u]
        /\ live' \in [Users -> Nat] /\ slot' \in [Relays -> BOOLEAN]
    BY <1>1, <1>3 DEF IInv, TypeOK, Counted
  <2>0. PICK o \in Users : o = Owner(p)
    BY <1>1
  <2>7. \A q \in Relays : Owner(q)' = Owner(q)
    BY <1>1 DEF Owner
  <2>2. /\ Runs(o)' = Runs(o) \cup {p} /\ p \notin Runs(o)
        /\ \A u \in Users \ {o} : Runs(u)' = Runs(u)
    BY <1>1, <2>0, <2>1, <2>7 DEF Runs
  <2>3. IsFiniteSet(Runs(o))
    BY Names, FS_Subset DEF Runs
  <2>4. Cardinality(Runs(o) \cup {p}) = Cardinality(Runs(o)) + 1
    BY <2>2, <2>3, FS_AddElement
  <2>5. \A u \in Users : live'[u] = Cardinality(Runs(u)')
    BY <2>0, <2>1, <2>2, <2>4 DEF IInv, SlotsOK
  <2>6. SlotsOK'
    <3>1. \A q \in Relays : slot'[q] => pc'[q] \in {"claimed", "playing", "stopped"}
      BY <2>1, Names DEF IInv, SlotsOK
    <3> QED BY <2>5, <3>1 DEF SlotsOK
  <2> QED BY <1>2, <1>3, <2>1, <2>6
<1>4. CASE pc' = [pc EXCEPT ![p] = "stopped"] /\ UNCHANGED <<live, slot>>
  <2>1. \A d \in Requests : d # p => pc'[d] = pc[d]
    BY <1>4 DEF IInv, TypeOK
  <2>2. SlotsOK'
    BY <1>1, <1>4, <2>1, SlotsSame
  <2> QED BY <1>2, <1>4, <2>2 DEF IInv, TypeOK
<1> QED
  BY <1>3, <1>4 DEF Claim, Moves

\* Connecting and stopping move the relay only.
LEMMA ConnectInductive ==
  ASSUME IInv, NEW p \in Relays, Connect(p) \/ Stop(p)
  PROVE  IInv'
<1>1. /\ p \in Requests /\ Playing(p) /\ pc[p] # "idle" /\ todo[p] = {} /\ feed \in [Requests -> FeedRec]
      /\ UNCHANGED <<at, holds, hub, feed, live, slot, todo, drained, chan, seen>>
  BY Names DEF Connect, Stop, Moves, tell, IInv, TellOK, TypeOK, FeedRec, Playing, RelayStates
<1>2. PICK to \in {"playing", "stopped"} : pc' = [pc EXCEPT ![p] = to]
  BY DEF Connect, Stop, Moves
<1>3. /\ pc' \in [Requests -> PcStates]
      /\ \A d \in Requests : pc'[d] = IF d = p THEN to ELSE pc[d]
      /\ PlaceOK' /\ HubOK' /\ RefsOK' /\ ListenOK'
  BY <1>1, <1>2, RelayFrame DEF RelayStates
<1>4. Playing(p)'
  BY <1>1, <1>2, <1>3 DEF Playing, RelayStates
<1>5. OwnersOK' /\ SlotsOK' /\ TellOK' /\ NewsOK'
  BY <1>1, <1>2, <1>3, <1>4, OwnersSame, SlotsSame, TellSame, NewsSame
<1> QED
  BY <1>1, <1>3, <1>5 DEF IInv, TypeOK, PcStates, FeedRec

\* The first step of a publish: the event is the latest, and every listener is to be told of
\* it unless it is not new.
LEMMA PublishInductive ==
  ASSUME IInv, NEW p \in Relays, NEW m \in Metas, Publish(p, m), todo[p] = {},
         NEW to \in {"playing", "ended"}, Playing(p), slot[p] => to = "playing",
         pc' = [pc EXCEPT ![p] = to],
         UNCHANGED <<at, holds, hub, live, slot, drained, chan, seen>>
  PROVE  IInv'
<1>1. /\ p \in Requests /\ pc[p] # "idle" /\ holds[p] \in Requests /\ feed \in [Requests -> FeedRec]
      /\ m # None
  BY Names DEF IInv, PlaceOK, TypeOK, FeedRec, Playing, RelayStates, Metas
<1>2. /\ feed' \in [Requests -> FeedRec]
      /\ \A g \in Requests : /\ feed'[g].refs = feed[g].refs
                             /\ feed'[g].listeners = feed[g].listeners
                             /\ feed'[g].active = feed[g].active
                             /\ feed'[g].latest = IF g = holds[p] THEN m ELSE feed[g].latest
  BY <1>1, SetLatest DEF Publish
<1>3. /\ pc' \in [Requests -> PcStates]
      /\ \A d \in Requests : pc'[d] = IF d = p THEN to ELSE pc[d]
      /\ PlaceOK' /\ HubOK' /\ RefsOK' /\ ListenOK'
  BY <1>1, <1>2, RelayFrame DEF RelayStates
<1>4. Playing(p)'
  BY <1>1, <1>3 DEF Playing, RelayStates
<1>5. OwnersOK' /\ SlotsOK'
  BY <1>1, <1>2, <1>3, <1>4, OwnersSame, SlotsSame
<1>6. /\ todo' \in [Relays -> SUBSET Listeners]
      /\ \A q \in Relays : q # p => todo'[q] = todo[q]
      /\ todo'[p] = IF feed[holds[p]].latest = m THEN {} ELSE feed[holds[p]].listeners
  <2>1. feed[holds[p]].listeners \in SUBSET Listeners
    BY <1>1 DEF FeedRec
  <2> QED BY <2>1 DEF Publish, FeedOf, IInv, TypeOK
<1>7. TellOK'
  <2>1. ASSUME NEW q \in Relays, todo'[q] # {}
        PROVE  /\ pc'[q] \in {"playing", "ended"} /\ todo'[q] \subseteq feed'[holds'[q]].listeners
               /\ feed'[holds'[q]].latest # None
    <3>1. CASE q = p
      BY <1>1, <1>2, <1>3, <1>6, <2>1, <3>1
    <3>2. CASE q # p
      <4>1. todo[q] # {} /\ q \in Requests /\ pc[q] \in {"playing", "ended"}
        BY <1>6, <2>1, <3>2, Names DEF IInv, TellOK
      <4>2. holds[q] \in Requests
        BY <4>1 DEF IInv, PlaceOK
      <4> QED BY <1>1, <1>2, <1>3, <1>6, <3>2, <4>1, <4>2 DEF IInv, TellOK, FeedOf
    <3> QED BY <3>1, <3>2
  <2>2. \A q \in Relays : drained[q] # None => drained[q] \in todo'[q]
    BY <1>6 DEF IInv, TellOK
  <2> QED BY <2>1, <2>2 DEF TellOK, FeedOf
<1>8. NewsOK'
  <2>1. ASSUME NEW l \in Listeners, pc'[l] = "listening", \A q \in Relays : l \notin todo'[q]
        PROVE  feed'[holds'[l]].latest = IF chan'[l] # None THEN chan'[l] ELSE seen'[l]
    <3>1. l \in Requests /\ l # p /\ pc[l] = "listening"
      BY <1>3, <2>1, Names
    <3>2. holds[l] \in Requests
      BY <3>1 DEF IInv, PlaceOK
    <3>3. \A q \in Relays : l \notin todo[q]
      BY <1>6, <2>1
    <3>4. feed[holds[l]].latest = IF chan[l] # None THEN chan[l] ELSE seen[l]
      BY <3>1, <3>3 DEF IInv, NewsOK, FeedOf
    <3>5. feed'[holds[l]].latest = feed[holds[l]].latest
      <4>1. CASE holds[l] # holds[p]
        BY <1>2, <3>2, <4>1
      <4>2. CASE holds[l] = holds[p]
        <5>1. l \in feed[holds[p]].listeners
          BY <1>1, <3>1, <4>2 DEF IInv, ListenOK
        <5>2. feed[holds[p]].latest = m
          BY <5>1, <1>6, <2>1
        <5> QED BY <1>2, <3>2, <4>2, <5>2
      <4> QED BY <4>1, <4>2
    <3> QED BY <3>4, <3>5
  <2> QED BY <2>1 DEF NewsOK, FeedOf
<1> QED
  BY <1>2, <1>3, <1>5, <1>6, <1>7, <1>8 DEF IInv, TypeOK, PcStates, FeedRec

\* A title is published.
LEMMA PlayInductive ==
  ASSUME IInv, NEW p \in Relays, Play(p)
  PROVE  IInv'
<1>1. PICK t \in Titles : Publish(p, t)
  BY DEF Play
<1>2. /\ t \in Metas /\ todo[p] = {} /\ Playing(p) /\ pc' = [pc EXCEPT ![p] = "playing"]
      /\ UNCHANGED <<at, holds, hub, live, slot, drained, chan, seen>>
  BY Names DEF Play, Metas, Playing, RelayStates, IInv, TypeOK
<1> QED
  BY <1>1, <1>2, PublishInductive

\* The end is published, once the encoder is given back.
LEMMA PublishEndedInductive ==
  ASSUME IInv, NEW p \in Relays, PublishEnded(p)
  PROVE  IInv'
<1>1. /\ Publish(p, Ended) /\ todo[p] = {} /\ Playing(p) /\ ~slot[p]
      /\ pc' = [pc EXCEPT ![p] = "ended"]
      /\ UNCHANGED <<at, holds, hub, live, slot, drained, chan, seen>>
  BY DEF PublishEnded, Moves, Playing, RelayStates, IInv, TellOK
<1> QED
  BY <1>1, PublishInductive, Names

\* end: its feed has no relay left that plays.
LEMMA EndInductive ==
  ASSUME IInv, NEW p \in Relays, End(p)
  PROVE  IInv'
<1>1. /\ p \in Requests /\ pc[p] = "ended" /\ pc' = [pc EXCEPT ![p] = "leaving"] /\ todo[p] = {}
      /\ Playing(p) /\ ~slot[p] /\ holds[p] \in Requests /\ feed \in [Requests -> FeedRec]
      /\ feed' = [feed EXCEPT ![holds[p]].active = FALSE]
      /\ UNCHANGED <<at, holds, hub, live, slot, todo, drained, chan, seen>>
  BY Names DEF End, Moves, tell, IInv, PlaceOK, SlotsOK, TypeOK, FeedRec, Playing, RelayStates
<1>2. /\ feed' \in [Requests -> FeedRec]
      /\ \A g \in Requests : /\ feed'[g].refs = feed[g].refs
                             /\ feed'[g].listeners = feed[g].listeners
                             /\ feed'[g].latest = feed[g].latest
                             /\ feed'[g].active = IF g = holds[p] THEN FALSE ELSE feed[g].active
  BY <1>1, SetActive
<1>3. /\ pc' \in [Requests -> PcStates]
      /\ \A d \in Requests : pc'[d] = IF d = p THEN "leaving" ELSE pc[d]
      /\ PlaceOK' /\ HubOK' /\ RefsOK' /\ ListenOK'
  BY <1>1, <1>2, RelayFrame DEF RelayStates
<1>4. \A q \in Relays : Playing(q)' <=> Playing(q) /\ q # p
  BY <1>3, Names DEF Playing, RelayStates
<1>5. OwnersOK'
  <2>1. \A f \in Requests : feed'[f].active <=> \E q \in Relays : Playing(q)' /\ holds'[q] = f
    BY <1>1, <1>2, <1>4 DEF IInv, OwnersOK
  <2>2. \A q, r \in Relays : Playing(q)' /\ Playing(r)' /\ holds'[q] = holds'[r] => q = r
    BY <1>1, <1>4 DEF IInv, OwnersOK
  <2> QED BY <2>1, <2>2 DEF OwnersOK
<1>6. SlotsOK' /\ TellOK' /\ NewsOK'
  BY <1>1, <1>2, <1>3, SlotsSame, TellSame, NewsSame
<1> QED
  BY <1>1, <1>2, <1>3, <1>5, <1>6 DEF IInv, TypeOK, PcStates, FeedRec

\* The slot of an encoder is given back.
LEMMA GiveBackInductive ==
  ASSUME IInv, NEW p \in Relays, GiveBack(p)
  PROVE  IInv'
<1>1. /\ p \in Requests /\ slot[p] /\ at[p] \in Playbacks /\ Owner(p) \in Users
      /\ slot' = [slot EXCEPT ![p] = FALSE] /\ live' = [live EXCEPT ![Owner(p)] = @ - 1]
      /\ UNCHANGED <<pc, at, holds, hub, feed, todo, drained, chan, seen>>
  BY Names DEF GiveBack, tell, IInv, PlaceOK, Owner
<1>2. PICK o \in Users : o = Owner(p)
  BY <1>1
<1>3. \A q \in Relays : Owner(q)' = Owner(q)
  BY <1>1 DEF Owner
<1>4. \A q \in Relays : slot'[q] = IF q = p THEN FALSE ELSE slot[q]
  BY <1>1 DEF IInv, TypeOK
<1>5. /\ Runs(o)' = Runs(o) \ {p} /\ p \in Runs(o)
      /\ \A u \in Users \ {o} : Runs(u)' = Runs(u)
  <2>1. p \in Runs(o)
    BY <1>1, <1>2 DEF Runs
  <2>2. Runs(o)' = Runs(o) \ {p}
    BY <1>3, <1>4 DEF Runs
  <2>3. \A u \in Users \ {o} : Runs(u)' = Runs(u)
    BY <1>2, <1>3, <1>4 DEF Runs
  <2> QED BY <2>1, <2>2, <2>3
<1>6. IsFiniteSet(Runs(o))
  BY Names, FS_Subset DEF Runs
<1>7. /\ Cardinality(Runs(o) \ {p}) = Cardinality(Runs(o)) - 1
      /\ Cardinality(Runs(o) \ {p}) \in Nat
  BY <1>5, <1>6, FS_RemoveElement, FS_CardinalityType
<1>8. /\ live[o] = Cardinality(Runs(o))
      /\ \A u \in Users : live'[u] = IF u = o THEN live[u] - 1 ELSE live[u]
  BY <1>1, <1>2 DEF IInv, SlotsOK, TypeOK
<1>9. SlotsOK'
  <2>1. \A q \in Relays : slot'[q] => pc'[q] \in {"claimed", "playing", "stopped"}
    BY <1>1, <1>4 DEF IInv, SlotsOK
  <2>2. \A u \in Users : live'[u] = Cardinality(Runs(u)')
    BY <1>5, <1>7, <1>8 DEF IInv, SlotsOK
  <2> QED BY <2>1, <2>2 DEF SlotsOK
<1>10. live' \in [Users -> Nat] /\ slot' \in [Relays -> BOOLEAN]
  <2>1. live[o] - 1 \in Nat
    BY <1>7, <1>8
  <2> QED BY <2>1, <1>1, <1>2 DEF IInv, TypeOK
<1>11. TypeOK' /\ PlaceOK' /\ HubOK' /\ ListenOK' /\ TellOK' /\ NewsOK'
  BY <1>1, <1>10 DEF IInv, TypeOK, PlaceOK, HubOK, ListenOK, TellOK, NewsOK, FeedOf
<1>12. RefsOK' /\ OwnersOK'
  BY <1>1 DEF IInv, RefsOK, Holders, OwnersOK, Playing
<1> QED
  BY <1>9, <1>11, <1>12 DEF IInv

\* A channel is emptied: its listener is still to be told.
LEMMA DrainInductive ==
  ASSUME IInv, NEW p \in Relays, NEW l \in Listeners, Drain(p, l)
  PROVE  IInv'
<1>1. /\ l \in todo[p] /\ UNCHANGED <<pc, at, holds, hub, feed, live, slot, todo, seen>>
      /\ chan' = [chan EXCEPT ![l] = None] /\ drained' = [drained EXCEPT ![p] = l]
  BY DEF Drain, Emptied
<1>2. TypeOK' /\ PlaceOK' /\ HubOK' /\ ListenOK'
  BY <1>1 DEF IInv, TypeOK, PlaceOK, HubOK, ListenOK
<1>3. TellOK'
  <2>1. \A q \in Relays : drained'[q] = IF q = p THEN l ELSE drained[q]
    BY <1>1 DEF IInv, TypeOK
  <2> QED BY <1>1, <2>1 DEF IInv, TellOK, FeedOf
<1>4. NewsOK'
  <2>1. \A m \in Listeners : m # l => chan'[m] = chan[m]
    BY <1>1 DEF IInv, TypeOK
  <2> QED BY <1>1, <2>1 DEF IInv, NewsOK, FeedOf
<1>5. RefsOK' /\ OwnersOK' /\ SlotsOK'
  BY <1>1 DEF IInv, RefsOK, Holders, OwnersOK, Playing, SlotsOK, Runs, Owner
<1> QED
  BY <1>2, <1>3, <1>4, <1>5 DEF IInv

\* A listener is told: the latest event is in its channel.
LEMMA SendInductive ==
  ASSUME IInv, NEW p \in Relays, NEW l \in Listeners, Send(p, l)
  PROVE  IInv'
<1>1. /\ drained[p] = l /\ UNCHANGED <<pc, at, holds, hub, feed, live, slot, seen>>
      /\ chan' = [chan EXCEPT ![l] = feed[holds[p]].latest]
      /\ todo' = [todo EXCEPT ![p] = @ \ {l}] /\ drained' = [drained EXCEPT ![p] = None]
  BY DEF Send, FeedOf
<1>2. /\ l \in todo[p] /\ p \in Requests /\ l \in Requests /\ pc[p] \in {"playing", "ended"}
      /\ l \in feed[holds[p]].listeners /\ feed[holds[p]].latest # None
  BY <1>1, Names DEF IInv, TellOK, FeedOf
<1>3. holds[p] \in Requests /\ holds[l] = holds[p] /\ feed[holds[p]].latest \in Metas \cup {None}
  BY <1>2 DEF IInv, PlaceOK, ListenOK, TypeOK
<1>4. TypeOK'
  <2>1. todo' \in [Relays -> SUBSET Listeners] /\ drained' \in [Relays -> Listeners \cup {None}]
    BY <1>1 DEF IInv, TypeOK
  <2>2. chan' \in [Listeners -> Metas \cup {None}]
    BY <1>1, <1>3 DEF IInv, TypeOK
  <2> QED BY <1>1, <2>1, <2>2 DEF IInv, TypeOK
<1>5. \A q \in Relays : todo'[q] = IF q = p THEN todo[q] \ {l} ELSE todo[q]
  BY <1>1 DEF IInv, TypeOK
<1>6. \A q \in Relays : drained'[q] = IF q = p THEN None ELSE drained[q]
  BY <1>1 DEF IInv, TypeOK
<1>7. TellOK'
  BY <1>1, <1>5, <1>6 DEF IInv, TellOK, FeedOf
<1>8. NewsOK'
  <2>1. ASSUME NEW m \in Listeners, pc[m] = "listening", \A q \in Relays : m \notin todo'[q]
        PROVE  feed[holds[m]].latest = IF chan'[m] # None THEN chan'[m] ELSE seen[m]
    <3>1. CASE m = l
      BY <1>1, <1>2, <1>3, <3>1 DEF IInv, TypeOK
    <3>2. CASE m # l
      <4>1. \A q \in Relays : m \notin todo[q]
        BY <1>5, <2>1, <3>2
      <4>2. chan'[m] = chan[m]
        BY <1>1, <3>2 DEF IInv, TypeOK
      <4> QED BY <2>1, <4>1, <4>2 DEF IInv, NewsOK, FeedOf
    <3> QED BY <3>1, <3>2
  <2> QED BY <1>1, <2>1 DEF NewsOK, FeedOf
<1>9. PlaceOK' /\ HubOK' /\ ListenOK'
  BY <1>1 DEF IInv, PlaceOK, HubOK, ListenOK
<1>10. RefsOK' /\ OwnersOK' /\ SlotsOK'
  BY <1>1 DEF IInv, RefsOK, Holders, OwnersOK, Playing, SlotsOK, Runs, Owner
<1> QED
  BY <1>4, <1>7, <1>8, <1>9, <1>10 DEF IInv

-----------------------------------------------------------------------------
(* Listeners                                                                *)

\* A listener that moves on, with what it holds, keeps its place, all counts and the owners.
LEMMA ListenFrame ==
  ASSUME IInv, NEW l \in Listeners, pc[l] # "idle",
         NEW to \in {"leaving", "listening", "unsubscribing"}, pc' = [pc EXCEPT ![l] = to],
         UNCHANGED <<at, holds, hub, live, slot>>,
         \A g \in Requests : feed'[g].refs = feed[g].refs /\ feed'[g].active = feed[g].active
  PROVE  /\ pc' \in [Requests -> PcStates]
         /\ \A d \in Requests : pc'[d] = IF d = l THEN to ELSE pc[d]
         /\ PlaceOK' /\ HubOK' /\ RefsOK' /\ OwnersOK' /\ SlotsOK'
<1>1. to # "idle" /\ l \in Requests /\ l \notin Relays
  BY Names
<1>2. /\ pc' \in [Requests -> PcStates]
      /\ \A d \in Requests : pc'[d] = IF d = l THEN to ELSE pc[d]
      /\ PlaceOK' /\ HubOK' /\ RefsOK'
  BY <1>1, Frame
<1>3. \A q \in Relays : pc'[q] = pc[q]
  BY <1>1, <1>2, Names
<1>4. OwnersOK'
  BY <1>3 DEF IInv, OwnersOK, Playing
<1>5. SlotsOK'
  BY <1>3 DEF IInv, SlotsOK, Runs, Owner
<1> QED
  BY <1>2, <1>4, <1>5

\* subscribe: a new listener finds the latest event in its channel, if there is one.
LEMMA SubscribeInductive ==
  ASSUME IInv, NEW l \in Listeners, Subscribe(l)
  PROVE  IInv'
<1> DEFINE f == holds[l]
<1>1. /\ l \in Requests /\ pc[l] = "acquired" /\ f \in Requests /\ feed \in [Requests -> FeedRec]
      /\ l \notin Relays /\ seen[l] = None /\ \A g \in Requests : l \notin feed[g].listeners
      /\ UNCHANGED <<at, holds, hub, live, slot, todo, drained, seen>>
  BY Names DEF Subscribe, tell, IInv, PlaceOK, ListenOK, TypeOK, FeedRec
<1>2. CASE /\ pc' = [pc EXCEPT ![l] = "listening"]
           /\ feed' = [feed EXCEPT ![f].listeners = @ \cup {l}]
           /\ chan' = [chan EXCEPT ![l] = feed[f].latest]
  <2>1. /\ feed' \in [Requests -> FeedRec]
        /\ \A g \in Requests : /\ feed'[g].refs = feed[g].refs
                               /\ feed'[g].active = feed[g].active
                               /\ feed'[g].latest = feed[g].latest
                               /\ feed'[g].listeners = IF g = f THEN feed[f].listeners \cup {l}
                                                       ELSE feed[g].listeners
    <3>1. PICK L \in SUBSET Listeners : L = feed[f].listeners \cup {l}
      BY <1>1 DEF FeedRec
    <3>2. feed' = [feed EXCEPT ![f].listeners = L]
      BY <1>1, <1>2, <3>1
    <3>3. /\ feed' \in [Requests -> FeedRec]
          /\ \A g \in Requests : /\ feed'[g].refs = feed[g].refs
                                 /\ feed'[g].active = feed[g].active
                                 /\ feed'[g].latest = feed[g].latest
                                 /\ feed'[g].listeners = IF g = f THEN L ELSE feed[g].listeners
      <4>1. feed \in [Requests -> FeedRec] /\ f \in Requests
        BY <1>1
      <4> HIDE DEF f
      <4> QED BY <3>2, <4>1, SetListeners
    <3> QED BY <3>1, <3>3
  <2>2. /\ pc' \in [Requests -> PcStates]
        /\ \A d \in Requests : pc'[d] = IF d = l THEN "listening" ELSE pc[d]
        /\ PlaceOK' /\ HubOK' /\ RefsOK' /\ OwnersOK' /\ SlotsOK'
    BY <1>1, <1>2, <2>1, ListenFrame
  <2>3. ListenOK'
    BY <1>1, <2>1, <2>2, Names DEF IInv, ListenOK
  <2>4. TellOK'
    BY <1>1, <2>1, <2>2, Names DEF IInv, TellOK, FeedOf, PlaceOK
  <2>5. /\ chan' \in [Listeners -> Metas \cup {None}]
        /\ \A m \in Listeners : chan'[m] = IF m = l THEN feed[f].latest ELSE chan[m]
    BY <1>1, <1>2 DEF IInv, TypeOK, FeedRec
  <2>6. NewsOK'
    BY <1>1, <2>1, <2>2, <2>5, Names DEF IInv, NewsOK, FeedOf, PlaceOK
  <2> QED BY <1>1, <2>1, <2>2, <2>3, <2>4, <2>5, <2>6 DEF IInv, TypeOK, PcStates, FeedRec
<1>3. CASE pc' = [pc EXCEPT ![l] = "leaving"] /\ UNCHANGED <<feed, chan>>
  <2>2. /\ pc' \in [Requests -> PcStates]
        /\ \A d \in Requests : pc'[d] = IF d = l THEN "leaving" ELSE pc[d]
        /\ PlaceOK' /\ HubOK' /\ RefsOK' /\ OwnersOK' /\ SlotsOK'
    BY <1>1, <1>3, ListenFrame
  <2>3. ListenOK' /\ TellOK' /\ NewsOK'
    BY <1>1, <1>3, <2>2, Names DEF IInv, ListenOK, TellOK, NewsOK, FeedOf
  <2> QED BY <1>1, <1>3, <2>2, <2>3 DEF IInv, TypeOK, PcStates, FeedRec
<1> QED
  BY <1>2, <1>3 DEF Subscribe, Moves, FirstOf

\* A listener reads its channel and sends the event on; after the last one it stops.
LEMMA ReceiveInductive ==
  ASSUME IInv, NEW l \in Listeners, Receive(l)
  PROVE  IInv'
<1> DEFINE to == IF chan[l] = Ended THEN "unsubscribing" ELSE "listening"
           news == IF chan[l] = Ended THEN None ELSE chan[l]
<1>1. /\ l \in Requests /\ pc[l] = "listening" /\ pc' = [pc EXCEPT ![l] = to] /\ l \notin Relays
      /\ chan[l] # None /\ chan[l] \in Metas \cup {None}
      /\ UNCHANGED <<at, holds, hub, feed, live, slot, todo, drained>>
  BY Names DEF Receive, Moves, tell, IInv, TypeOK
<1>2. /\ pc' \in [Requests -> PcStates]
      /\ \A d \in Requests : pc'[d] = IF d = l THEN to ELSE pc[d]
      /\ PlaceOK' /\ HubOK' /\ RefsOK' /\ OwnersOK' /\ SlotsOK'
  BY <1>1, ListenFrame
<1>3. /\ seen' = [seen EXCEPT ![l] = news] /\ chan' = [chan EXCEPT ![l] = None]
  BY DEF Receive
<1>4. /\ seen' \in [Listeners -> Metas \cup {None}] /\ chan' \in [Listeners -> Metas \cup {None}]
      /\ \A m \in Listeners : /\ seen'[m] = IF m = l THEN news ELSE seen[m]
                              /\ chan'[m] = IF m = l THEN None ELSE chan[m]
  BY <1>1, <1>3 DEF IInv, TypeOK
<1>5. ListenOK'
  BY <1>1, <1>2, <1>4, Names DEF IInv, ListenOK
<1>6. TellOK'
  BY <1>1, <1>2, Names DEF IInv, TellOK, FeedOf
<1>7. NewsOK'
  BY <1>1, <1>2, <1>4, Names DEF IInv, NewsOK, FeedOf
<1> QED
  BY <1>1, <1>2, <1>4, <1>5, <1>6, <1>7 DEF IInv, TypeOK, PcStates

\* A listener that stops has no use for what it sent.
LEMMA LeaveInductive ==
  ASSUME IInv, NEW l \in Listeners, Leave(l)
  PROVE  IInv'
<1>1. /\ l \in Requests /\ pc[l] = "listening" /\ pc' = [pc EXCEPT ![l] = "unsubscribing"]
      /\ l \notin Relays /\ seen' = [seen EXCEPT ![l] = None]
      /\ UNCHANGED <<at, holds, hub, feed, live, slot, todo, drained, chan>>
  BY Names DEF Leave, Moves, tell
<1>2. /\ pc' \in [Requests -> PcStates]
      /\ \A d \in Requests : pc'[d] = IF d = l THEN "unsubscribing" ELSE pc[d]
      /\ PlaceOK' /\ HubOK' /\ RefsOK' /\ OwnersOK' /\ SlotsOK'
  BY <1>1, ListenFrame
<1>3. /\ seen' \in [Listeners -> Metas \cup {None}]
      /\ \A m \in Listeners : seen'[m] = IF m = l THEN None ELSE seen[m]
  BY <1>1 DEF IInv, TypeOK
<1>4. ListenOK' /\ TellOK' /\ NewsOK'
  BY <1>1, <1>2, <1>3, Names DEF IInv, ListenOK, TellOK, NewsOK, FeedOf
<1> QED
  BY <1>1, <1>2, <1>3, <1>4 DEF IInv, TypeOK, PcStates

\* The end of a subscription waits for the publish under way, which may still have to tell it.
LEMMA UnsubscribeInductive ==
  ASSUME IInv, NEW l \in Listeners, Unsubscribe(l)
  PROVE  IInv'
<1> DEFINE f == holds[l]
<1>1. /\ l \in Requests /\ pc[l] = "unsubscribing" /\ pc' = [pc EXCEPT ![l] = "leaving"]
      /\ f \in Requests /\ feed \in [Requests -> FeedRec] /\ l \notin Relays /\ seen[l] = None
      /\ feed' = [feed EXCEPT ![f].listeners = @ \ {l}] /\ chan' = [chan EXCEPT ![l] = None]
      /\ \A p \in Relays : holds[p] = f => todo[p] = {}
      /\ UNCHANGED <<at, holds, hub, live, slot, todo, drained, seen>>
  BY Names DEF Unsubscribe, Locked, Moves, tell, IInv, PlaceOK, ListenOK, TypeOK, FeedRec
<1>2. /\ feed' \in [Requests -> FeedRec]
      /\ \A g \in Requests : /\ feed'[g].refs = feed[g].refs
                             /\ feed'[g].active = feed[g].active
                             /\ feed'[g].latest = feed[g].latest
                             /\ feed'[g].listeners = IF g = f THEN feed[f].listeners \ {l}
                                                     ELSE feed[g].listeners
  <2>1. PICK L \in SUBSET Listeners : L = feed[f].listeners \ {l}
    BY <1>1 DEF FeedRec
  <2>2. feed' = [feed EXCEPT ![f].listeners = L]
    BY <1>1, <2>1
  <2> QED BY <1>1, <2>1, <2>2, SetListeners
<1>3. /\ pc' \in [Requests -> PcStates]
      /\ \A d \in Requests : pc'[d] = IF d = l THEN "leaving" ELSE pc[d]
      /\ PlaceOK' /\ HubOK' /\ RefsOK' /\ OwnersOK' /\ SlotsOK'
  BY <1>1, <1>2, ListenFrame
<1>4. /\ chan' \in [Listeners -> Metas \cup {None}]
      /\ \A m \in Listeners : chan'[m] = IF m = l THEN None ELSE chan[m]
  BY <1>1 DEF IInv, TypeOK
<1>5. ListenOK'
  BY <1>1, <1>2, <1>3, Names DEF IInv, ListenOK
<1>6. TellOK'
  BY <1>1, <1>2, <1>3, Names DEF IInv, TellOK, FeedOf, PlaceOK
<1>7. NewsOK'
  BY <1>1, <1>2, <1>3, <1>4, Names DEF IInv, NewsOK, FeedOf, PlaceOK
<1> QED
  BY <1>1, <1>2, <1>3, <1>4, <1>5, <1>6, <1>7 DEF IInv, TypeOK, PcStates, FeedRec

-----------------------------------------------------------------------------
(* The theorems                                                             *)

\* The invariant holds at first.
LEMMA InitInv ==
  ASSUME Init
  PROVE  IInv
<1>1. TypeOK /\ PlaceOK /\ HubOK /\ OwnersOK /\ ListenOK /\ TellOK /\ NewsOK
  BY Names DEF Init, NewFeed, TypeOK, PlaceOK, HubOK, OwnersOK, ListenOK, TellOK, NewsOK, Playing,
               RelayStates, FeedOf
<1>2. RefsOK
  <2>1. \A f \in Requests : Holders(f) = {}
    BY Names DEF Init, Holders
  <2> QED BY <2>1, FS_EmptySet DEF Init, NewFeed, RefsOK
<1>3. SlotsOK
  <2>1. \A u : Runs(u) = {}
    BY DEF Init, Runs
  <2> QED BY <2>1, FS_EmptySet DEF Init, SlotsOK
<1> QED
  BY <1>1, <1>2, <1>3 DEF IInv

\* Every step keeps the invariant.
LEMMA StepInv ==
  ASSUME IInv, [Next]_vars
  PROVE  IInv'
<1>1. ASSUME NEW c \in Requests, NEW k \in Playbacks, Acquire(c, k) PROVE IInv'
  BY <1>1, AcquireInductive
<1>2. ASSUME NEW p \in Relays, Relay(p) PROVE IInv'
  <2>1. CASE Closing(p)
    <3>1. ASSUME NEW l \in Listeners, Drain(p, l) \/ Send(p, l) PROVE IInv'
      BY <3>1, DrainInductive, SendInductive
    <3> QED
      BY <2>1, <3>1, GiveBackInductive, PublishEndedInductive, EndInductive, ReleaseInductive, Names
         DEF Closing
  <2>2. CASE ~Closing(p)
    BY <1>2, <2>2, BeginInductive, ClaimInductive, ConnectInductive, PlayInductive DEF Relay
  <2> QED BY <2>1, <2>2
<1>3. ASSUME NEW l \in Listeners, Listen(l) PROVE IInv'
  BY <1>3, SubscribeInductive, ReceiveInductive, LeaveInductive, UnsubscribeInductive,
     ReleaseInductive, Names DEF Listen
<1>4. CASE UNCHANGED vars
  <2>1. TypeOK' /\ PlaceOK' /\ HubOK' /\ ListenOK' /\ TellOK' /\ NewsOK'
    BY <1>4 DEF vars, IInv, TypeOK, PlaceOK, HubOK, ListenOK, TellOK, NewsOK, FeedOf
  <2>2. RefsOK' /\ OwnersOK' /\ SlotsOK'
    BY <1>4 DEF vars, IInv, RefsOK, Holders, OwnersOK, Playing, SlotsOK, Runs, Owner
  <2> QED BY <2>1, <2>2 DEF IInv
<1> QED
  BY <1>1, <1>2, <1>3, <1>4 DEF Next

\* The invariant always holds.
LEMMA Invariant == Spec => []IInv
<1>1. Init => IInv
  BY InitInv
<1>2. IInv /\ [Next]_vars => IInv'
  BY StepInv
<1> QED
  BY <1>1, <1>2, PTL DEF Spec

\* The variables keep their types.
THEOREM Typed == Spec => []TypeOK
BY Invariant, PTL DEF IInv

\* One relay plays a playback id, however relays and listeners come and go, and all who hold
\* an id hold one feed (radio_events.go, acquire and begin).
THEOREM OneRelay == Spec => []OneOwner
<1>1. ASSUME IInv PROVE OneOwner
  <2>1. ASSUME NEW p \in Relays, NEW q \in Relays, p # q, Playing(p), Playing(q)
        PROVE  at[p] # at[q]
    <3>1. p \in Requests /\ q \in Requests /\ pc[p] # "idle" /\ pc[q] # "idle"
      BY <2>1, Names DEF Playing, RelayStates
    <3>2. hub[at[p]] = holds[p] /\ hub[at[q]] = holds[q]
      BY <1>1, <3>1 DEF IInv, PlaceOK
    <3> QED BY <1>1, <2>1, <3>2 DEF IInv, OwnersOK
  <2>2. ASSUME NEW c \in Requests, NEW d \in Requests, at[c] = at[d] PROVE holds[c] = holds[d]
    <3>1. pc[c] = "idle" <=> pc[d] = "idle"
      BY <1>1, <2>2, Names DEF IInv, PlaceOK
    <3> QED BY <1>1, <2>2, <3>1 DEF IInv, PlaceOK
  <2> QED BY <2>1, <2>2 DEF OneOwner
<1> QED
  BY <1>1, Invariant, PTL

\* A listener that is not in the middle of being told knows the latest event of its feed,
\* however slowly it reads (radio_events.go, publish and subscribe).
THEOREM NewsArrives == Spec => []NewestReaches
<1>1. ASSUME IInv PROVE NewestReaches
  <2> SUFFICES ASSUME NEW l \in Listeners, pc[l] = "listening", ~Locked(holds[l])
               PROVE  FeedOf(l).latest = IF chan[l] # None THEN chan[l] ELSE seen[l]
    BY DEF NewestReaches
  <2>1. ASSUME NEW p \in Relays, l \in todo[p] PROVE FALSE
    <3>1. p \in Requests /\ pc[p] \in {"playing", "ended"} /\ l \in feed[holds[p]].listeners
      BY <1>1, <2>1, Names DEF IInv, TellOK, FeedOf
    <3>2. holds[p] = holds[l]
      BY <1>1, <3>1 DEF IInv, PlaceOK, ListenOK
    <3> QED BY <2>1, <3>2 DEF Locked
  <2> QED BY <1>1, <2>1 DEF IInv, NewsOK
<1> QED
  BY <1>1, Invariant, PTL

\* Feeds, their owners and encoder slots are held exactly as long as somebody uses them
\* (the deferred calls of radio.go, radio_events.go and weazlpod_live.go).
THEOREM GivenBack == Spec => []AllGivenBack
<1>1. ASSUME IInv PROVE AllGivenBack
  <2>1. \A k \in Playbacks : hub[k] # None <=> \E c \in Requests : at[c] = k
    BY <1>1, Names DEF IInv, HubOK, PlaceOK
  <2>2. \A f \in Requests : feed[f].refs = Cardinality({c \in Requests : holds[c] = f})
    BY <1>1 DEF IInv, RefsOK, Holders
  <2>3. \A u \in Users : live[u] = Cardinality({p \in Relays : slot[p] /\ Owner(p) = u})
    BY <1>1 DEF IInv, SlotsOK, Runs
  <2> QED BY <1>1, <2>1, <2>2, <2>3 DEF IInv, OwnersOK, AllGivenBack
<1> QED
  BY <1>1, Invariant, PTL
=============================================================================

----------------------------- MODULE RadioFeed -----------------------------
(* Live radio: the relays that play a station, the metadata feeds they      *)
(* share with event streams, and the slots of live MP3 encoders (radio.go,  *)
(* radio_events.go, weazlpod_live.go).  A feed belongs to one playback id   *)
(* of one hub and lives as long as a request holds it.  Channels hold one   *)
(* value and are written under the feed's mutex, but read without it.       *)
(* A probe with bytes=0-1 holds no feed and is left out.                    *)
EXTENDS Integers, FiniteSets, Functions

CONSTANTS
  Relays,        \* requests for audio
  Listeners,     \* requests for metadata events
  Playbacks,     \* playback ids of hubs, as pairs: what clients ask for
  User,          \* [Hubs -> accounts]: a hub is a browser session's or a device's
  Titles,        \* what a station says it plays
  MaxFeeds,      \* feeds of a hub (16)
  MaxListeners,  \* listeners of a feed (2)
  LiveLimit      \* live MP3 encoders of the server (2)

Requests  == Relays \cup Listeners
Hubs      == {k[1] : k \in Playbacks}
Users     == {User[h] : h \in Hubs}
None      == "none"
Ended     == "ended"
Metas     == Titles \cup {Ended}

ASSUME FeedAssumption ==
  /\ Relays \cap Listeners = {} /\ None \notin Requests /\ Titles \cap {None, Ended} = {}
  /\ IsFiniteSet(Requests) /\ <<>> \notin Playbacks
  /\ User \in [Hubs -> Users] /\ {MaxFeeds, MaxListeners, LiveLimit} \subseteq Nat

VARIABLES
  pc,        \* where a request is
  at,        \* the hub and playback id of a request, or <<>>
  holds,     \* the feed a request holds, or None
  hub,       \* h.feeds: the feed of a playback, or None
  feed,      \* the feeds: there are never more of them than requests
  live,      \* p.live: encoders of a user
  slot,      \* whether a relay has one of them
  todo,      \* the listeners that a publish under way has still to tell
  drained,   \* the one whose channel it has just emptied, or None
  chan,      \* the channel of a listener: a value, or None
  seen       \* for properties: the last event sent to a listener that stays
vars == <<pc, at, holds, hub, feed, live, slot, todo, drained, chan, seen>>
tell == <<todo, drained>>

NewFeed == [refs |-> 0, active |-> FALSE, latest |-> None, listeners |-> {}]

Init ==
  /\ pc = [c \in Requests |-> "idle"] /\ at = [c \in Requests |-> <<>>]
  /\ holds = [c \in Requests |-> None] /\ hub = [k \in Playbacks |-> None]
  /\ feed = [f \in Requests |-> NewFeed]
  /\ live = [u \in Users |-> 0] /\ slot = [p \in Relays |-> FALSE]
  /\ todo = [p \in Relays |-> {}] /\ drained = [p \in Relays |-> None]
  /\ chan = [l \in Listeners |-> None] /\ seen = [l \in Listeners |-> None]

Moves(c, from, to) == pc[c] = from /\ pc' = [pc EXCEPT ![c] = to]
FeedOf(c) == feed[holds[c]]
\* publish holds the mutex of its feed over all its sends.
Locked(f) == \E p \in Relays : todo[p] # {} /\ holds[p] = f

----------------------------------------------------------------------------
(* Both kinds of request                                                    *)

FeedsOf(h) == {k \in Playbacks : k[1] = h /\ hub[k] # None}

\* acquire: a feed that is there is shared; a new one must fit the hub.
Acquire(c, k) ==
  /\ Moves(c, "idle", "acquired") /\ at' = [at EXCEPT ![c] = k]
  /\ \/ /\ hub[k] # None
        /\ holds' = [holds EXCEPT ![c] = hub[k]]
        /\ feed' = [feed EXCEPT ![hub[k]].refs = @ + 1]
        /\ UNCHANGED hub
     \/ /\ hub[k] = None /\ Cardinality(FeedsOf(k[1])) < MaxFeeds
        /\ LET f == CHOOSE g \in Requests : feed[g].refs = 0 IN
             /\ holds' = [holds EXCEPT ![c] = f]
             /\ feed' = [feed EXCEPT ![f] = [NewFeed EXCEPT !.refs = 1]]
             /\ hub' = [hub EXCEPT ![k] = f]
  /\ UNCHANGED <<live, slot, tell, chan, seen>>

\* Mutant of Kept: the hub forgets a feed that others still hold.
KeptAlone(c) == FALSE
Kept(c) == FeedOf(c).refs > 1
\* release: the last holder takes the feed off the hub.
Release(c) ==
  /\ Moves(c, "leaving", "idle")
  /\ feed' = [feed EXCEPT ![holds[c]].refs = @ - 1]
  /\ hub' = IF Kept(c) THEN hub ELSE [hub EXCEPT ![at[c]] = None]
  /\ holds' = [holds EXCEPT ![c] = None] /\ at' = [at EXCEPT ![c] = <<>>]
  /\ UNCHANGED <<live, slot, tell, chan, seen>>

----------------------------------------------------------------------------
(* Relays                                                                   *)

\* begin: one relay plays; another is refused and lets go of the feed.
\* Mutant of Refused: the early return comes before the deferred release.
RefusedEarly(p) ==
  /\ Moves(p, "acquired", "idle")
  /\ at' = [at EXCEPT ![p] = <<>>] /\ holds' = [holds EXCEPT ![p] = None]
Refused(p) == Moves(p, "acquired", "leaving") /\ UNCHANGED <<at, holds>>
Begin(p) ==
  /\ pc[p] = "acquired" /\ ~Locked(holds[p])
  /\ \/ /\ ~FeedOf(p).active /\ Moves(p, "acquired", "begun")
        /\ feed' = [feed EXCEPT ![holds[p]].active = TRUE] /\ UNCHANGED <<at, holds>>
     \/ FeedOf(p).active /\ Refused(p) /\ UNCHANGED feed
  /\ UNCHANGED <<hub, live, slot, tell, chan, seen>>

\* The encoders in use, and the account a relay plays for.
Encoders == FoldFunction(+, 0, live)
Owner(p) == User[at[p][1]]
Counted(u) == [live EXCEPT ![u] = @ + 1]
\* podLive takes a slot: one for a user, LiveLimit in all.
Claim(p) ==
  /\ pc[p] = "begun"
  /\ \/ /\ live[Owner(p)] = 0 /\ Encoders < LiveLimit
        /\ Moves(p, "begun", "claimed")
        /\ live' = Counted(Owner(p)) /\ slot' = [slot EXCEPT ![p] = TRUE]
     \/ /\ live[Owner(p)] > 0 \/ Encoders >= LiveLimit
        /\ Moves(p, "begun", "stopped") /\ UNCHANGED <<live, slot>>
  /\ UNCHANGED <<at, holds, hub, feed, tell, chan, seen>>

\* The station answers, to a relay of its bytes or to an encoder; or it does not.
Connect(p) ==
  /\ \E from \in {"begun", "claimed"}, to \in {"playing", "stopped"} : Moves(p, from, to)
  /\ UNCHANGED <<at, holds, hub, feed, live, slot, tell, chan, seen>>

\* publish of something new, to every listener of the feed.
Publish(p, meta) ==
  /\ feed' = [feed EXCEPT ![holds[p]].latest = meta]
  /\ todo' = [todo EXCEPT ![p] = IF FeedOf(p).latest = meta THEN {} ELSE FeedOf(p).listeners]
Play(p) ==
  /\ pc[p] = "playing" /\ todo[p] = {}
  /\ \E t \in Titles : FeedOf(p).latest # t /\ Publish(p, t)
  /\ UNCHANGED <<pc, at, holds, hub, live, slot, drained, chan, seen>>

\* Mutant of Emptied: an old value is left in the channel.
EmptiedNot(l) == chan
Emptied(l) == [chan EXCEPT ![l] = None]
\* The two steps of publish for one listener: take back what it has not read, then
\* send, which would wait for a channel that is full.
Drain(p, l) ==
  /\ l \in todo[p] /\ drained[p] = None /\ drained' = [drained EXCEPT ![p] = l]
  /\ chan' = Emptied(l)
  /\ UNCHANGED <<pc, at, holds, hub, feed, live, slot, todo, seen>>
Send(p, l) ==
  /\ drained[p] = l /\ chan[l] = None
  /\ chan' = [chan EXCEPT ![l] = FeedOf(p).latest]
  /\ todo' = [todo EXCEPT ![p] = @ \ {l}] /\ drained' = [drained EXCEPT ![p] = None]
  /\ UNCHANGED <<pc, at, holds, hub, feed, live, slot, seen>>

\* The client leaves, the station ends or stalls, the session or the lease is over.
Stop(p) ==
  /\ todo[p] = {} /\ Moves(p, "playing", "stopped")
  /\ UNCHANGED <<at, holds, hub, feed, live, slot, tell, chan, seen>>

\* The deferred calls in their order: the encoder's slot, the last event, the end.
GiveBack(p) ==
  /\ pc[p] = "stopped" /\ slot[p] /\ slot' = [slot EXCEPT ![p] = FALSE]
  /\ live' = [live EXCEPT ![Owner(p)] = @ - 1]
  /\ UNCHANGED <<pc, at, holds, hub, feed, tell, chan, seen>>
PublishEnded(p) ==
  /\ ~slot[p] /\ Moves(p, "stopped", "ended")
  /\ Publish(p, Ended)
  /\ UNCHANGED <<at, holds, hub, live, slot, drained, chan, seen>>
End(p) ==
  /\ todo[p] = {} /\ Moves(p, "ended", "leaving")
  /\ feed' = [feed EXCEPT ![holds[p]].active = FALSE]
  /\ UNCHANGED <<at, holds, hub, live, slot, tell, chan, seen>>

----------------------------------------------------------------------------
(* Listeners                                                                *)

\* Mutant of FirstOf: a new listener waits for the next title.
FirstNone(f) == None
FirstOf(f) == feed[f].latest
Subscribe(l) ==
  LET f == holds[l] IN
  /\ pc[l] = "acquired" /\ ~Locked(f)
  /\ \/ /\ Cardinality(feed[f].listeners) < MaxListeners
        /\ Moves(l, "acquired", "listening")
        /\ feed' = [feed EXCEPT ![f].listeners = @ \cup {l}]
        /\ chan' = [chan EXCEPT ![l] = FirstOf(f)]
     \/ /\ Cardinality(feed[f].listeners) >= MaxListeners
        /\ Moves(l, "acquired", "leaving") /\ UNCHANGED <<feed, chan>>
  /\ UNCHANGED <<at, holds, hub, live, slot, tell, seen>>

\* An event goes out; the one that says the playback ended is the last.
Receive(l) ==
  /\ chan[l] # None
  /\ Moves(l, "listening", IF chan[l] = Ended THEN "unsubscribing" ELSE "listening")
  /\ seen' = [seen EXCEPT ![l] = IF chan[l] = Ended THEN None ELSE chan[l]]
  /\ chan' = [chan EXCEPT ![l] = None]
  /\ UNCHANGED <<at, holds, hub, feed, live, slot, tell>>

\* The client leaves, a write fails, or the session is over.
Leave(l) ==
  /\ Moves(l, "listening", "unsubscribing") /\ seen' = [seen EXCEPT ![l] = None]
  /\ UNCHANGED <<at, holds, hub, feed, live, slot, tell, chan>>
Unsubscribe(l) ==
  /\ ~Locked(holds[l]) /\ Moves(l, "unsubscribing", "leaving")
  /\ feed' = [feed EXCEPT ![holds[l]].listeners = @ \ {l}]
  /\ chan' = [chan EXCEPT ![l] = None]
  /\ UNCHANGED <<at, holds, hub, live, slot, tell, seen>>

----------------------------------------------------------------------------
Closing(p) ==
  \/ GiveBack(p) \/ PublishEnded(p) \/ End(p) \/ Release(p)
  \/ \E l \in Listeners : Drain(p, l) \/ Send(p, l)
Relay(p)  == Begin(p) \/ Claim(p) \/ Connect(p) \/ Play(p) \/ Stop(p) \/ Closing(p)
Listen(l) == Subscribe(l) \/ Receive(l) \/ Leave(l) \/ Unsubscribe(l) \/ Release(l)

Next ==
  \/ \E c \in Requests, k \in Playbacks : Acquire(c, k)
  \/ \E p \in Relays : Relay(p)
  \/ \E l \in Listeners : Listen(l)

Spec == Init /\ [][Next]_vars
\* A relay that stops runs its deferred calls.  Nothing is assumed of a listener, whose
\* client may read nothing for as long as it likes.
FairSpec == Spec /\ \A p \in Relays : WF_vars(Closing(p))

----------------------------------------------------------------------------
RelayStates == {"begun", "claimed", "playing", "stopped", "ended"}
TypeOK ==
  /\ pc \in [Requests -> RelayStates \cup {"idle", "acquired", "leaving", "listening",
                                           "unsubscribing"}]
  /\ at \in [Requests -> Playbacks \cup {<<>>}] /\ holds \in [Requests -> Requests \cup {None}]
  /\ hub \in [Playbacks -> Requests \cup {None}]
  /\ feed \in [Requests -> [refs : Nat, active : BOOLEAN, latest : Metas \cup {None},
                            listeners : SUBSET Listeners]]
  /\ live \in [Users -> Nat] /\ slot \in [Relays -> BOOLEAN]
  /\ todo \in [Relays -> SUBSET Listeners] /\ drained \in [Relays -> Listeners \cup {None}]
  /\ chan \in [Listeners -> Metas \cup {None}] /\ seen \in [Listeners -> Metas \cup {None}]

Playing(p) == pc[p] \in RelayStates

\* "two actual audio owners accepted" is a failure (radio_player_test.go:75): one relay plays
\* a playback id, and all who hold the id hold one feed, though feeds come and go with
\* their holders (radio_events.go:30-65).
OneOwner ==
  /\ \A p, q \in Relays : p # q /\ Playing(p) /\ Playing(q) => at[p] # at[q]
  /\ \A c, d \in Requests : at[c] = at[d] => holds[c] = holds[d]

\* A listener is never left with old news: what waits in its channel, or else what it was
\* sent last, is the latest of its feed, however slowly it reads (radio_events.go:66-94).
NewestReaches == \A l \in Listeners :
  pc[l] = "listening" /\ ~Locked(holds[l]) =>
    FeedOf(l).latest = IF chan[l] # None THEN chan[l] ELSE seen[l]

\* Every way out gives back what it took: a feed is on its hub as long as a request holds
\* it, it is active as long as a relay plays it, and a user has as many encoders as it has
\* relays that run one.
AllGivenBack ==
  /\ \A f \in Requests : feed[f].refs = Cardinality({c \in Requests : holds[c] = f})
  /\ \A f \in Requests : feed[f].active <=> \E p \in Relays : Playing(p) /\ holds[p] = f
  /\ \A k \in Playbacks : hub[k] # None <=> \E c \in Requests : at[c] = k
  /\ \A u \in Users : live[u] = Cardinality({p \in Relays : slot[p] /\ Owner(p) = u})

\* A relay that stops lets its playback id go, whatever its listeners do: "metadata listener
\* permanently retained an active audio owner" is a failure (radio_player_test.go:115).
OwnerFreed == \A p \in Relays : pc[p] = "stopped" ~> pc[p] = "idle"
=============================================================================

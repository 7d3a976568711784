--------------------------- MODULE RemotePlayback ---------------------------
(***************************************************************************)
(* Remote control of one receiver: the server's critical sections           *)
(* (remote_http.go, remote_commands.go, remote_events.go, remote_types.go,  *)
(* remote_helpers.go), the receiver of scripts/remote-receiver.py, and a    *)
(* controller that acts on what it last saw.                                *)
(*                                                                         *)
(* Reports and acknowledgements travel on a wire that delays, reorders,     *)
(* repeats and loses them; snapshots of pending commands travel on the      *)
(* event stream and may be read late.  The server keeps commands in memory  *)
(* and in SQLite, the player's state in memory only: the record written at  *)
(* registration is all that survives.  Generations stand for the digests    *)
(* that name connections, and what a state plays is the command or the      *)
(* local action that brought it about.  The receiver numbers its states, but *)
(* not all of them: a track or station that it turned to by itself and could *)
(* not fetch leaves the number as it was (drift).                            *)
(***************************************************************************)
EXTENDS Integers, FiniteSets

CONSTANTS
  Commands,    \* command ids: a controller's Idempotency-Key for this player
  Loose,       \* next, previous and seek: any state but an error confirms them
  MaxRev,      \* bound: the receiver's revision
  MaxGen,      \* bound: connection generations
  MaxSeq,      \* bound: reports per generation
  MaxWire,     \* bound: reports and acknowledgements under way
  MaxCrashes,  \* bound: crashes of the receiver's process
  MaxRestarts, \* bound: restarts of the server
  MaxFaults,   \* bound: failed writes of a record and failed fetches of a track
  MaxTroubles  \* bound: crashes, restarts and faults together

NoCmd == "none"
Local == "local"

ASSUME RemoteConstantsOK ==
  /\ Loose \subseteq Commands /\ {NoCmd, Local} \cap Commands = {}
  /\ \A b \in {MaxRev, MaxGen, MaxSeq, MaxWire, MaxCrashes, MaxRestarts, MaxFaults,
             MaxTroubles} : b \in Nat

\* What a receiver reports: remoteState, its discrete part named by its cause and by the
\* number of changes since then that kept the revision.
States == [rev : Nat, drift : Nat, applied : Commands \cup {NoCmd},
           now : Commands \cup {NoCmd, Local}]
Boot == [rev |-> 0, drift |-> 0, applied |-> NoCmd, now |-> NoCmd]

Results == {"applied", "rejected"}
Acks == [kind : {"ack"}, cmd : Commands, conn : Nat, status : Results, st : States]
Reports == [kind : {"report"}, conn : Nat, seq : Nat, st : States]
NoAck == [kind |-> "none"]

Open == {"queued", "delivered"}
Unresolved == Open \cup {"outcome_unknown"}
Statuses == {"none"} \cup Unresolved \cup Results

VARIABLES
  player,   \* remotePlayer in memory
  saved,    \* what its record would restore
  cmds,     \* remoteCommand in memory
  stored,   \* status and acknowledgement of the command's record
  stream,   \* generation the receiver's event stream serves, 0 without one
  sent,     \* commands in the snapshots written to that stream
  gen,      \* last generation created
  receiver, \* the receiver's process
  disk,     \* the receiver's state file
  wire,     \* reports and acknowledgements under way
  view,     \* the player as a controller last saw it: its ETag and its state
  ran,      \* how often the receiver executed each command
  crashes, restarts, faults

vars == <<player, saved, cmds, stored, stream, sent, gen, receiver, disk, wire, view, ran,
          crashes, restarts, faults>>
records == <<saved, stored>>
device == <<receiver, disk, ran>>
bounds == <<crashes, restarts, faults>>

CmdRecord == [status : Statuses, conn : Nat, rev : Nat, seq : Nat, ack : Acks \cup {NoAck},
              aim : States]
Absent == [status |-> "none", conn |-> 0, rev |-> 0, seq |-> 0, ack |-> NoAck, aim |-> Boot]

TypeOK ==
  /\ player \in [conn : 0 .. MaxGen, revision : Nat, seq : 0 .. MaxSeq, st : States,
                 seen : BOOLEAN, attached : BOOLEAN, cseq : Nat]
  /\ saved \in [revision : Nat, st : States, cseq : Nat]
  /\ cmds \in [Commands -> CmdRecord]
  /\ stored \in [Commands -> [status : Statuses, ack : Acks \cup {NoAck}]]
  /\ stream \in 0 .. MaxGen /\ gen \in 0 .. MaxGen
  /\ sent \subseteq Commands
  /\ receiver \in [conn : 0 .. MaxGen, seq : 0 .. MaxSeq, aseq : Nat, st : States,
                   results : [Commands -> Acks \cup {NoAck}]]
  /\ disk \in States
  /\ wire \subseteq Acks \cup Reports
  /\ view \in [etag : Nat, st : States]
  /\ ran \in [Commands -> Nat]
  /\ crashes \in 0 .. MaxCrashes /\ restarts \in 0 .. MaxRestarts /\ faults \in 0 .. MaxFaults

\* The receiver has registered for the first time and has no connection yet.
Init ==
  /\ player = [conn |-> 0, revision |-> 1, seq |-> 0, st |-> Boot, seen |-> FALSE,
               attached |-> FALSE, cseq |-> 0]
  /\ saved = [revision |-> 1, st |-> Boot, cseq |-> 0]
  /\ cmds = [c \in Commands |-> Absent]
  /\ stored = [c \in Commands |-> [status |-> "none", ack |-> NoAck]]
  /\ stream = 0 /\ sent = {} /\ gen = 0
  /\ receiver = [conn |-> 0, seq |-> 0, aseq |-> 0, st |-> Boot,
                 results |-> [c \in Commands |-> NoAck]]
  /\ disk = Boot /\ wire = {} /\ view = [etag |-> 0, st |-> Boot]
  /\ ran = [c \in Commands |-> 0]
  /\ crashes = 0 /\ restarts = 0 /\ faults = 0

Troubled == crashes + restarts + faults < MaxTroubles
Fault == /\ Troubled /\ faults < MaxFaults /\ faults' = faults + 1
         /\ UNCHANGED <<crashes, restarts>>
WithStatus(c, s) == [cmds EXCEPT ![c].status = s]
StoreStatus(c, s) == [stored EXCEPT ![c].status = s]

-----------------------------------------------------------------------------
(* The controller                                                           *)

\* A controller reads the player, with its ETag, from GET or the event feed, as long as
\* it has commands to submit: what it sees later has no effect.
Observe ==
  /\ \E c \in Commands : cmds[c].status = "none"
  /\ view' = [etag |-> player.revision, st |-> player.st]
  /\ UNCHANGED <<player, records, cmds, stream, sent, gen, device, wire, bounds>>

\* Mutant of Matches: the If-Match header is not compared.
MatchesAny == TRUE
Matches == view.etag = player.revision
\* Mutant of Busy: an expired command no longer blocks the next one.
BusyOpenOnly == \E c \in Commands : cmds[c].status \in Open /\ cmds[c].conn = player.conn
Busy == \E c \in Commands : cmds[c].status \in Unresolved /\ cmds[c].conn = player.conn

\* remoteSubmit: the command is stored, then it is queued.  A retry with the same key
\* finds it; a failed write refuses it.
Submit(c) ==
  /\ cmds[c].status = "none"
  /\ Matches /\ player.attached /\ player.seen /\ ~Busy
  /\ cmds' = [cmds EXCEPT ![c] = [status |-> "queued", conn |-> player.conn,
                rev |-> player.st.rev, seq |-> player.cseq + 1, ack |-> NoAck,
                aim |-> view.st]]
  /\ stored' = StoreStatus(c, "queued")
  /\ player' = [player EXCEPT !.cseq = @ + 1]
  /\ UNCHANGED <<saved, stream, sent, gen, device, wire, view, bounds>>

-----------------------------------------------------------------------------
(* Connections and the event stream                                         *)

\* PUT receiver, when the receiver's process starts.
Register ==
  /\ receiver.conn = 0
  /\ saved' = [revision |-> player.revision, st |-> player.st, cseq |-> player.cseq]
  /\ UNCHANGED <<player, cmds, stored, stream, sent, gen, device, wire, view, bounds>>

Fenced == {c \in Commands : cmds[c].status \in Unresolved}
\* Mutant of Unknown: a status no reader knows.
UnknownTypo(c) == [cmds[c] EXCEPT !.status = "unknown"]
Unknown(c) == [cmds[c] EXCEPT !.status = "outcome_unknown"]
Fence(fs) == [c \in Commands |-> IF c \in fs THEN Unknown(c) ELSE cmds[c]]
FenceStored(fs) ==
  [c \in Commands |-> IF c \in fs THEN [stored[c] EXCEPT !.status = "outcome_unknown"]
                                  ELSE stored[c]]

\* POST receiver/connections under a new key: a new generation, and the end of what
\* was pending.  The write of a fenced command may fail, with the generation changed.
NewGeneration ==
  /\ gen < MaxGen /\ gen' = gen + 1
  /\ player' = [player EXCEPT !.conn = gen + 1, !.seq = 0, !.seen = FALSE, !.attached = FALSE,
                              !.revision = @ + 1]

Larger(m, n) == IF m > n THEN m ELSE n
\* The receiver learns its generation and moves past the revision the server knows.
Connect ==
  /\ receiver.conn = 0 /\ NewGeneration
  /\ LET rev == Larger(receiver.st.rev, player.st.rev) + 1
     IN /\ rev <= MaxRev
        /\ receiver' = [receiver EXCEPT !.conn = gen + 1, !.seq = 0, !.aseq = 0,
                                        !.st.rev = rev, !.st.drift = 0]
  /\ cmds' = Fence(Fenced) /\ stored' = FenceStored(Fenced)
  /\ UNCHANGED <<saved, stream, sent, disk, wire, view, ran, bounds>>
\* The response is lost, or the request arrives after the receiver gave it up.
ConnectUnheard ==
  /\ NewGeneration
  /\ \/ cmds' = Fence(Fenced) /\ stored' = FenceStored(Fenced) /\ UNCHANGED bounds
     \/ \E fs \in SUBSET Fenced : \E c \in fs :
          cmds' = Fence(fs) /\ stored' = FenceStored(fs \ {c}) /\ Fault
  /\ UNCHANGED <<saved, stream, sent, device, wire, view>>

\* GET receiver/events: one stream at a time, for the current generation.
OpenStream ==
  /\ stream = 0 /\ receiver.conn # 0 /\ receiver.conn = player.conn
  /\ stream' = player.conn /\ sent' = {}
  /\ player' = [player EXCEPT !.attached = TRUE]
  /\ UNCHANGED <<records, cmds, gen, device, wire, view, bounds>>

Detached == [player EXCEPT !.attached = @ /\ player.conn # stream]
\* The handler ends: the client has gone, its access expired, or it found another
\* generation in place of its own.
CloseStream ==
  /\ stream # 0 /\ stream' = 0
  /\ player' = Detached
  /\ UNCHANGED <<records, cmds, sent, gen, device, wire, view, bounds>>

\* One turn of the handler's loop: pending commands become delivered and are written
\* to the stream.  A failed write of the record ends the handler.
Snapshot(c) ==
  /\ stream # 0 /\ player.conn = stream
  /\ cmds[c].status \in Open /\ cmds[c].conn = stream
  /\ cmds' = WithStatus(c, "delivered")
  /\ \/ /\ stored' = StoreStatus(c, "delivered") /\ sent' = sent \cup {c}
        /\ UNCHANGED <<player, stream, bounds>>
     \/ /\ cmds[c].status = "queued" /\ Fault /\ stream' = 0
        /\ player' = Detached
        /\ UNCHANGED <<stored, sent>>
  /\ UNCHANGED <<saved, gen, device, wire, view>>

\* Mutant of Expirable: only a delivered command expires.
ExpirableDelivered(c) == cmds[c].status = "delivered"
Expirable(c) == cmds[c].status \in Open
\* remoteCleanup, at every request and every turn of a stream: the 15 s are over.
Expire(c) ==
  /\ Expirable(c)
  /\ cmds' = WithStatus(c, "outcome_unknown")
  /\ \/ stored' = StoreStatus(c, "outcome_unknown") /\ UNCHANGED bounds
     \/ Fault /\ UNCHANGED stored
  /\ UNCHANGED <<player, saved, stream, sent, gen, device, wire, view>>

-----------------------------------------------------------------------------
(* Reports and acknowledgements                                             *)

\* The handled message leaves the wire, or a duplicate of it stays.
Taken(m) == wire' \in {wire, wire \ {m}}

\* remoteAppliedMatches
AppliedMatches(c, st) == c \in Loose \/ st.now = c
\* What a report says of an unresolved command.
Verdict(c, st) ==
  IF st.rev <= cmds[c].rev THEN cmds[c].status
  ELSE IF st.applied # c THEN "rejected"
  ELSE IF AppliedMatches(c, st) THEN "applied" ELSE cmds[c].status
\* Mutant of Judged: commands of earlier generations are judged too.
JudgedAnyGeneration == {c \in Commands : cmds[c].status \in Unresolved}
Judged == {c \in Commands : cmds[c].status \in Unresolved /\ cmds[c].conn = player.conn}

\* POST receiver/reports.  An older, repeated or conflicting report changes nothing, nor
\* does one that tells of a discrete change under the revision the server knows.
\* The results are in memory before they are written, and the write may fail.
Report(m) ==
  /\ m \in wire /\ m.kind = "report" /\ Taken(m)
  /\ player.conn # 0 /\ m.conn = player.conn /\ m.seq > player.seq
  /\ m.st.rev >= player.st.rev
  /\ m.st.rev = player.st.rev => m.st.now = player.st.now /\ m.st.drift = player.st.drift
  /\ player' = [player EXCEPT !.seq = m.seq, !.st = m.st, !.seen = TRUE,
                  !.revision = IF m.st.rev # player.st.rev THEN @ + 1 ELSE @]
  /\ cmds' = [c \in Commands |-> IF c \in Judged
                THEN [cmds[c] EXCEPT !.status = Verdict(c, m.st)] ELSE cmds[c]]
  /\ \/ /\ stored' = [c \in Commands |-> IF c \in Judged
                        THEN [stored[c] EXCEPT !.status = Verdict(c, m.st)] ELSE stored[c]]
        /\ UNCHANGED bounds
     \/ Judged # {} /\ Fault /\ UNCHANGED stored
  /\ UNCHANGED <<saved, stream, sent, gen, device, view>>

\* POST receiver/commands/{id}/ack.  The same acknowledgement again changes nothing,
\* another one after it conflicts; a failed write leaves everything as it was.
Ack(m) ==
  /\ m \in wire /\ m.kind = "ack" /\ Taken(m)
  /\ LET c == cmds[m.cmd]
     IN /\ c.status # "none" /\ c.ack = NoAck
        /\ ~(c.status = "rejected" /\ m.status = "applied")
        /\ player.conn # 0 /\ m.conn = player.conn /\ c.conn = player.conn
        /\ m.st.rev >= player.st.rev
        /\ m.status = "applied" =>
             m.st.applied = m.cmd /\ m.st.rev > c.rev /\ AppliedMatches(m.cmd, m.st)
  /\ cmds' = [cmds EXCEPT ![m.cmd].status = m.status, ![m.cmd].ack = m]
  /\ stored' = [stored EXCEPT ![m.cmd] = [status |-> m.status, ack |-> m]]
  /\ player' = [player EXCEPT !.st = m.st, !.seen = TRUE, !.revision = @ + 1]
  /\ UNCHANGED <<saved, stream, sent, gen, device, view, bounds>>

\* A request that is refused, times out or changes nothing.
Lose(m) ==
  /\ wire' = wire \ {m}
  /\ UNCHANGED <<player, records, cmds, stream, sent, gen, device, view, bounds>>

-----------------------------------------------------------------------------
(* The receiver                                                             *)

Post(m) == wire' = wire \cup {m} /\ Cardinality(wire') <= MaxWire
AckOf(c, result, st) ==
  [kind |-> "ack", cmd |-> c, conn |-> receiver.conn, status |-> result, st |-> st]
After(c) == [rev |-> receiver.st.rev + 1, drift |-> 0, applied |-> c, now |-> c]

Valid(c) == /\ cmds[c].conn = receiver.conn /\ cmds[c].rev = receiver.st.rev
            /\ cmds[c].seq > receiver.aseq

\* Applying a command: the state, its file, the result and the acknowledgement.
Apply(c) ==
  LET st == After(c) IN
  LET ack == AckOf(c, "applied", st) IN
  /\ st.rev <= MaxRev
  /\ receiver' = [receiver EXCEPT !.st = st, !.aseq = cmds[c].seq, !.results[c] = ack]
  /\ disk' = st /\ ran' = [ran EXCEPT ![c] = @ + 1] /\ Post(ack)
Refuse(c) ==
  LET ack == AckOf(c, "rejected", receiver.st) IN
  /\ receiver' = [receiver EXCEPT !.results[c] = ack]
  /\ disk' = receiver.st /\ Post(ack) /\ UNCHANGED ran
Reack(c) == Post(receiver.results[c]) /\ UNCHANGED device

\* A delivery, maybe of a snapshot written long ago: a known command is acknowledged
\* again; a valid one is applied unless it is too late or the medium fails.
Deliver(c) ==
  /\ receiver.conn # 0 /\ c \in sent
  /\ \/ receiver.results[c] # NoAck /\ Reack(c)
     \/ receiver.results[c] = NoAck /\ Valid(c) /\ Apply(c)
     \/ receiver.results[c] = NoAck /\ Refuse(c)
  /\ UNCHANGED <<player, records, cmds, stream, sent, gen, view, bounds>>

\* Telemetry: a report of the state, then the state file.
Tell ==
  /\ receiver.conn # 0 /\ receiver.seq < MaxSeq
  /\ receiver' = [receiver EXCEPT !.seq = @ + 1]
  /\ Post([kind |-> "report", conn |-> receiver.conn, seq |-> receiver.seq + 1,
           st |-> receiver.st])
  /\ disk' \in {disk, receiver.st}
  /\ UNCHANGED <<player, records, cmds, stream, sent, gen, view, ran, bounds>>
\* telemetry: the state after the receiver turned to another track by itself.  consume
\* raises when the track cannot be fetched, and then the revision is not reached.
LocalRevision(st, fetched) ==
  IF fetched THEN [st EXCEPT !.rev = @ + 1, !.drift = 0, !.now = Local]
             ELSE [st EXCEPT !.drift = @ + 1, !.now = Local]
\* A physical button, or the next track of the queue.
LocalAction ==
  /\ receiver.conn # 0
  /\ \E fetched \in BOOLEAN :
       /\ IF fetched THEN receiver.st.rev < MaxRev /\ UNCHANGED bounds ELSE Fault
       /\ receiver' = [receiver EXCEPT !.st = LocalRevision(@, fetched)]
  /\ UNCHANGED <<player, records, cmds, stream, sent, gen, disk, wire, view, ran>>

\* The server answered 403 or 409: the receiver wants a new connection.
DropConnection ==
  /\ receiver.conn # 0 /\ receiver' = [receiver EXCEPT !.conn = 0]
  /\ UNCHANGED <<player, records, cmds, stream, sent, gen, disk, wire, view, ran, bounds>>
\* The process dies, perhaps having applied a command and not yet recorded it.
Crash ==
  /\ Troubled /\ crashes < MaxCrashes /\ crashes' = crashes + 1
  /\ receiver' = [conn |-> 0, seq |-> 0, aseq |-> 0, st |-> disk,
                  results |-> [c \in Commands |-> NoAck]]
  /\ sent' = {}
  /\ \/ UNCHANGED ran
     \/ \E c \in sent : /\ receiver.conn # 0 /\ receiver.results[c] = NoAck /\ Valid(c)
                        /\ ran' = [ran EXCEPT ![c] = @ + 1]
  /\ UNCHANGED <<player, records, cmds, stream, gen, disk, wire, view, restarts, faults>>

\* initRemote: presence is gone and unconfirmed work is unknown.
Restart ==
  /\ Troubled /\ restarts < MaxRestarts /\ restarts' = restarts + 1
  /\ player' = [conn |-> 0, revision |-> saved.revision, seq |-> 0, st |-> saved.st,
                seen |-> FALSE, attached |-> FALSE, cseq |-> saved.cseq]
  /\ cmds' = [c \in Commands |-> [cmds[c] EXCEPT !.ack = stored[c].ack,
                !.status = IF stored[c].status \in Open THEN "outcome_unknown"
                                                        ELSE stored[c].status]]
  /\ stream' = 0 /\ sent' = {} /\ wire' = {}
  /\ UNCHANGED <<records, gen, device, view, crashes, faults>>

Next ==
  \/ Observe \/ Register \/ Connect \/ ConnectUnheard \/ OpenStream \/ CloseStream
  \/ \E c \in Commands : Submit(c) \/ Snapshot(c) \/ Expire(c) \/ Deliver(c)
  \/ \E m \in wire : Report(m) \/ Ack(m) \/ Lose(m)
  \/ Tell \/ LocalAction \/ DropConnection \/ Crash \/ Restart
Spec == Init /\ [][Next]_vars
\* The controller polls its command, and each of its requests runs remoteCleanup.
FairSpec == Spec /\ \A c \in Commands : WF_vars(Expire(c))

-----------------------------------------------------------------------------
(* Properties                                                               *)

Status(c) == cmds[c].status

\* "Applied means the requested source/transport actually took effect"
\* (REMOTE_PLAYBACK_V1.md:39) and a command shown as rejected never runs, neither
\* before nor after: whatever is lost, late, repeated, crashed or restarted.
HonestResult ==
  \A c \in Commands : /\ Status(c) = "applied" => ran[c] > 0
                      /\ Status(c) = "rejected" => ran[c] = 0

\* A command that the receiver would still carry out.
MayRun(c) ==
  /\ Valid(c) /\ receiver.conn # 0 /\ receiver.results[c] = NoAck
  /\ c \in sent \/ (Status(c) \in Open /\ cmds[c].conn = player.conn)
\* "one unresolved command per receiver" (REMOTE_PLAYBACK_V1.md:55), as the receiver sees
\* it, each carried out at most once, "repeated delivery re-acks known results, never
\* repeats next/load/seek" (line 62): no second command can still run, not even after the
\* first one expired at the server while its snapshot was under way.
OneByOne ==
  /\ \A c \in Commands : ran[c] <= 1
  /\ \A c, d \in Commands : MayRun(c) /\ MayRun(d) => c = d

\* A result, once shown, is final: "changed results fail" (REMOTE_PLAYBACK_V1.md:40) and
\* after a restart "results remain queryable" (line 105).
ResultsStick ==
  [][\A c \in Commands : Status(c) \in Results => cmds'[c].status = Status(c)]_vars

\* As long as the server stays up, a command runs on the very state its controller was
\* looking at when it was submitted: the ETag, the receiver's own revision and its state
\* file make the chain.  One thing the chain does not catch, and is excepted: what the
\* receiver has turned to by itself under the same revision, and never to something older.
AimedAt ==
  [][\A c \in Commands : restarts' = 0 /\ ran'[c] > ran[c] =>
       LET aim == cmds[c].aim IN
       /\ aim.rev = receiver.st.rev /\ aim.drift <= receiver.st.drift
       /\ aim.drift = receiver.st.drift => aim.now = receiver.st.now]_vars

\* "stale revision/busy/offline 409" (REMOTE_PLAYBACK_V1.md:56): no command is accepted
\* from a controller that still sees what the receiver played before.
StaleRefused ==
  [][\A c \in Commands : Status(c) = "none" /\ cmds'[c].status = "queued" =>
       view.st.now = player.st.now]_vars

\* "poll for outcome" (REMOTE_PLAYBACK_V1.md:48): every accepted command is decided, or
\* known to be unknown.
PollEnds == \A c \in Commands : Status(c) \in Open ~> Status(c) \notin Open
=============================================================================

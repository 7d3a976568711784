------------------------ MODULE RemotePlayback_proofs ------------------------
(***************************************************************************)
(* Proofs about RemotePlayback, for every set of commands, every bound and  *)
(* any number of crashes, restarts and failed writes.                       *)
(*                                                                         *)
(* A result cannot be read off the server's state: "rejected" may come from *)
(* a report that is older than the command's delivery.  The invariant       *)
(* therefore says what each message under way has a right to claim.  Dead   *)
(* is the receiver's side of it, and is stable: a command of another        *)
(* generation, for a revision that has passed, or with a result already,    *)
(* never runs.  An acknowledgement that refuses (AckTrue, NoteTrue) and a   *)
(* report that the server would take as a refusal (ReportTrue) both name a  *)
(* dead command that did not run.  For a report that is so because at most  *)
(* one command of a generation is unresolved (Single) and, if it ran, it is *)
(* what the receiver applied last (Last).                                   *)
(***************************************************************************)
EXTENDS RemotePlayback, TLAPS

-----------------------------------------------------------------------------
(* Types                                                                    *)

\* TypeOK is inductive once the reports under way respect MaxSeq too.
TInv == TypeOK /\ \A m \in wire : m.kind = "report" => m.seq \in 0 .. MaxSeq

\* The bounds are naturals.
LEMMA BoundsNat ==
  /\ MaxRev \in Nat /\ MaxGen \in Nat /\ MaxSeq \in Nat
  /\ MaxCrashes \in Nat /\ MaxRestarts \in Nat /\ MaxFaults \in Nat /\ MaxTroubles \in Nat
BY RemoteConstantsOK

\* Setting the status of a command keeps the types, in memory and in its record.
LEMMA StatusTyped ==
  ASSUME cmds \in [Commands -> CmdRecord], NEW c \in Commands, NEW s \in Statuses
  PROVE  WithStatus(c, s) \in [Commands -> CmdRecord]
BY DEF WithStatus, CmdRecord

\* The same of its record.
LEMMA StoreTyped ==
  ASSUME stored \in [Commands -> [status : Statuses, ack : Acks \cup {NoAck}]],
         NEW c \in Commands, NEW s \in Statuses
  PROVE  StoreStatus(c, s) \in [Commands -> [status : Statuses, ack : Acks \cup {NoAck}]]
BY DEF StoreStatus

\* A new generation fences commands within their types.
LEMMA FenceTyped ==
  ASSUME TypeOK, NEW fs
  PROVE  /\ Fence(fs) \in [Commands -> CmdRecord]
         /\ FenceStored(fs) \in [Commands -> [status : Statuses, ack : Acks \cup {NoAck}]]
<1>1. "outcome_unknown" \in Statuses
  BY DEF Statuses, Unresolved
<1>2. \A c \in Commands : Unknown(c) \in CmdRecord
  BY <1>1 DEF Unknown, CmdRecord, TypeOK
<1>3. \A c \in Commands : [stored[c] EXCEPT !.status = "outcome_unknown"]
                            \in [status : Statuses, ack : Acks \cup {NoAck}]
  BY <1>1 DEF TypeOK
<1> QED
  BY <1>2, <1>3 DEF Fence, FenceStored, TypeOK

\* A new generation is within MaxGen.
LEMMA GenerationTyped ==
  ASSUME TypeOK, NewGeneration
  PROVE  /\ player' \in [conn : 0 .. MaxGen, revision : Nat, seq : 0 .. MaxSeq, st : States,
                         seen : BOOLEAN, attached : BOOLEAN, cseq : Nat]
         /\ gen' \in 0 .. MaxGen
<1>1. gen + 1 \in 0 .. MaxGen /\ 0 \in 0 .. MaxSeq
  BY RemoteConstantsOK DEF TypeOK, NewGeneration
<1>2. player.revision + 1 \in Nat
  BY DEF TypeOK
<1>3. player' = [player EXCEPT !.conn = gen + 1, !.seq = 0, !.seen = FALSE, !.attached = FALSE,
                               !.revision = player.revision + 1]
  BY DEF TypeOK, NewGeneration
<1>4. gen' = gen + 1
  BY DEF NewGeneration
<1> QED
  BY <1>1, <1>2, <1>3, <1>4 DEF TypeOK

\* The end of a stream leaves a player.
LEMMA DetachedTyped ==
  ASSUME TypeOK
  PROVE  Detached \in [conn : 0 .. MaxGen, revision : Nat, seq : 0 .. MaxSeq, st : States,
                       seen : BOOLEAN, attached : BOOLEAN, cseq : Nat]
BY DEF TypeOK, Detached

\* A report leaves a command a status.
LEMMA VerdictTyped ==
  ASSUME TypeOK, NEW c \in Commands, NEW st
  PROVE  Verdict(c, st) \in Statuses
BY DEF TypeOK, Verdict, CmdRecord, Statuses, Results

\* The receiver acknowledges with an acknowledgement.
LEMMA AckOfTyped ==
  ASSUME TypeOK, NEW c \in Commands, NEW s \in Results, NEW st \in States
  PROVE  AckOf(c, s, st) \in Acks
BY DEF AckOf, Acks, TypeOK

\* Applying a command leads to a state.
LEMMA AfterTyped ==
  ASSUME TypeOK, NEW c \in Commands
  PROVE  After(c) \in States
BY DEF After, States, TypeOK

\* A change of the receiver's own leads to a state, later than the one before.
LEMMA LocalRevisionTyped ==
  ASSUME TypeOK, NEW fetched \in BOOLEAN
  PROVE  LET st == LocalRevision(receiver.st, fetched)
         IN /\ st \in States
            /\ \/ st.rev > receiver.st.rev
               \/ st.rev = receiver.st.rev /\ st.drift > receiver.st.drift
<1>1. receiver.st \in States
  BY DEF TypeOK
<1>2. CASE fetched
  <2> DEFINE next == receiver.st.rev + 1
  <2>1. next \in Nat /\ next > receiver.st.rev
    BY <1>1 DEF States
  <2> HIDE DEF next
  <2>2. LocalRevision(receiver.st, fetched)
          = [receiver.st EXCEPT !.rev = next, !.drift = 0, !.now = Local]
    BY <1>1, <1>2 DEF LocalRevision, States, next
  <2>3. [receiver.st EXCEPT !.rev = next, !.drift = 0, !.now = Local] \in States
    BY <1>1, <2>1 DEF States
  <2>4. LocalRevision(receiver.st, fetched).rev = next
    BY <1>1, <2>2 DEF States
  <2> QED BY <2>1, <2>2, <2>3, <2>4
<1>3. CASE ~fetched
  <2> DEFINE next == receiver.st.drift + 1
  <2>1. next \in Nat /\ next > receiver.st.drift
    BY <1>1 DEF States
  <2> HIDE DEF next
  <2>2. LocalRevision(receiver.st, fetched)
          = [receiver.st EXCEPT !.drift = next, !.now = Local]
    BY <1>1, <1>3 DEF LocalRevision, States, next
  <2> QED BY <1>1, <2>1, <2>2 DEF States
<1> QED BY <1>2, <1>3

\* The statuses that the actions write.
LEMMA Strings == "queued" \in Statuses /\ "delivered" \in Statuses
                 /\ "outcome_unknown" \in Statuses /\ "none" \in Statuses
BY DEF Statuses, Unresolved, Open

\* Every step keeps the types.
LEMMA TypeStep ==
  ASSUME TInv, [Next]_vars
  PROVE  TInv'
<1> USE BoundsNat
<1>1. CASE Observe
  BY <1>1 DEF Observe, TInv, TypeOK, records, device, bounds
<1>2. CASE Register
  BY <1>2 DEF Register, TInv, TypeOK, device, bounds
<1>3. CASE Connect
  <2> DEFINE rev == Larger(receiver.st.rev, player.st.rev) + 1
  <2>1. rev \in Nat
    BY DEF Larger, TInv, TypeOK, States
  <2>2. receiver' = [receiver EXCEPT !.conn = gen + 1, !.seq = 0, !.aseq = 0, !.st.rev = rev,
                                     !.st.drift = 0]
    BY <1>3 DEF Connect
  <2>3. gen + 1 \in 0 .. MaxGen /\ 0 \in 0 .. MaxSeq
    BY <1>3 DEF Connect, NewGeneration, TInv, TypeOK
  <2>4. [receiver.st EXCEPT !.rev = rev, !.drift = 0] \in States
    BY <2>1 DEF TInv, TypeOK, States
  <2>5. receiver' \in [conn : 0 .. MaxGen, seq : 0 .. MaxSeq, aseq : Nat, st : States,
                       results : [Commands -> Acks \cup {NoAck}]]
    <3> HIDE DEF rev
    <3> QED BY <2>2, <2>3, <2>4 DEF TInv, TypeOK
  <2> QED
    BY <1>3, <2>5, FenceTyped, GenerationTyped DEF Connect, TInv, TypeOK, bounds
<1>4. CASE ConnectUnheard
  <2>1. /\ cmds' \in [Commands -> CmdRecord]
        /\ stored' \in [Commands -> [status : Statuses, ack : Acks \cup {NoAck}]]
    BY <1>4, FenceTyped DEF ConnectUnheard, TInv
  <2>2. crashes' \in 0 .. MaxCrashes /\ restarts' \in 0 .. MaxRestarts /\ faults' \in 0 .. MaxFaults
    <3>1. CASE UNCHANGED bounds
      BY <3>1 DEF TInv, TypeOK, bounds
    <3>2. CASE Fault
      BY <3>2 DEF TInv, TypeOK, Fault
    <3> QED BY <1>4, <3>1, <3>2 DEF ConnectUnheard
  <2> QED
    BY <1>4, <2>1, <2>2, GenerationTyped DEF ConnectUnheard, TInv, TypeOK, device
<1>5. CASE OpenStream
  BY <1>5 DEF OpenStream, TInv, TypeOK, records, device, bounds
<1>6. CASE CloseStream
  BY <1>6, DetachedTyped DEF CloseStream, TInv, TypeOK, records, device, bounds
<1>7. ASSUME NEW c \in Commands, Submit(c) PROVE TInv'
  <2>1. stored' \in [Commands -> [status : Statuses, ack : Acks \cup {NoAck}]]
    BY <1>7, Strings, StoreTyped DEF Submit, TInv, TypeOK
  <2>2. [status |-> "queued", conn |-> player.conn, rev |-> player.st.rev,
         seq |-> player.cseq + 1, ack |-> NoAck, aim |-> view.st] \in CmdRecord
    BY Strings DEF TInv, TypeOK, CmdRecord, States
  <2>3. cmds' \in [Commands -> CmdRecord]
    BY <1>7, <2>2 DEF Submit, TInv, TypeOK
  <2>4. player' \in [conn : 0 .. MaxGen, revision : Nat, seq : 0 .. MaxSeq, st : States,
                     seen : BOOLEAN, attached : BOOLEAN, cseq : Nat]
    BY <1>7 DEF Submit, TInv, TypeOK
  <2> QED
    BY <1>7, <2>1, <2>3, <2>4 DEF Submit, TInv, TypeOK, device, bounds
<1>8. ASSUME NEW c \in Commands, Snapshot(c) PROVE TInv'
  <2>1. cmds' \in [Commands -> CmdRecord]
    BY <1>8, Strings, StatusTyped DEF Snapshot, TInv, TypeOK
  <2>2. CASE /\ stored' = StoreStatus(c, "delivered") /\ sent' = sent \cup {c}
             /\ UNCHANGED <<player, stream, bounds>>
    BY <1>8, <2>1, <2>2, Strings, StoreTyped DEF Snapshot, TInv, TypeOK, device, bounds
  <2>3. CASE /\ Fault /\ stream' = 0 /\ player' = Detached /\ UNCHANGED <<stored, sent>>
    BY <1>8, <2>1, <2>3, DetachedTyped DEF Snapshot, TInv, TypeOK, device, Fault
  <2> QED
    BY <1>8, <2>2, <2>3 DEF Snapshot
<1>9. ASSUME NEW c \in Commands, Expire(c) PROVE TInv'
  <2>1. cmds' \in [Commands -> CmdRecord]
    BY <1>9, Strings, StatusTyped DEF Expire, TInv, TypeOK
  <2>2. stored' \in [Commands -> [status : Statuses, ack : Acks \cup {NoAck}]]
    BY <1>9, Strings, StoreTyped DEF Expire, TInv, TypeOK
  <2>3. crashes' \in 0 .. MaxCrashes /\ restarts' \in 0 .. MaxRestarts /\ faults' \in 0 .. MaxFaults
    BY <1>9 DEF Expire, Fault, TInv, TypeOK, bounds
  <2> QED
    BY <1>9, <2>1, <2>2, <2>3 DEF Expire, TInv, TypeOK, device
<1>10. ASSUME NEW c \in Commands, Deliver(c) PROVE TInv'
  <2> USE DEF Results
  <2>1. CASE receiver.results[c] # NoAck /\ Reack(c)
    <3>1. receiver.results[c] \in Acks
      BY <2>1 DEF TInv, TypeOK
    <3>2. wire' = wire \cup {receiver.results[c]}
      BY <2>1 DEF Reack, Post
    <3>3. receiver.results[c].kind = "ack"
      BY <3>1 DEF Acks
    <3> QED
      BY <1>10, <2>1, <3>1, <3>2, <3>3 DEF Deliver, Reack, TInv, TypeOK, records, device, bounds
  <2>2. CASE receiver.results[c] = NoAck /\ Valid(c) /\ Apply(c)
    <3> DEFINE ack == AckOf(c, "applied", After(c))
    <3>1. After(c) \in States /\ ack \in Acks
      BY AfterTyped, AckOfTyped DEF TInv
    <3>2. ack.kind = "ack"
      BY DEF AckOf
    <3>3. /\ wire' = wire \cup {ack} /\ disk' = After(c) /\ ran' = [ran EXCEPT ![c] = @ + 1]
          /\ receiver' = [receiver EXCEPT !.st = After(c), !.aseq = cmds[c].seq, !.results[c] = ack]
      BY <2>2 DEF Apply, Post
    <3>4. cmds[c].seq \in Nat
      BY DEF TInv, TypeOK, CmdRecord
    <3>5. receiver' \in [conn : 0 .. MaxGen, seq : 0 .. MaxSeq, aseq : Nat, st : States,
                       results : [Commands -> Acks \cup {NoAck}]]
      <4> HIDE DEF ack
      <4> QED BY <3>1, <3>3, <3>4 DEF TInv, TypeOK
    <3>6. ran' \in [Commands -> Nat]
      BY <3>3 DEF TInv, TypeOK
    <3> HIDE DEF ack
    <3> QED
      BY <1>10, <3>1, <3>2, <3>3, <3>5, <3>6 DEF Deliver, TInv, TypeOK, records, bounds
  <2>3. CASE receiver.results[c] = NoAck /\ Refuse(c)
    <3> DEFINE ack == AckOf(c, "rejected", receiver.st)
    <3>1. ack \in Acks
      BY AckOfTyped DEF TInv, TypeOK
    <3>2. ack.kind = "ack"
      BY DEF AckOf
    <3>3. /\ wire' = wire \cup {ack} /\ disk' = receiver.st /\ ran' = ran
          /\ receiver' = [receiver EXCEPT !.results[c] = ack]
      BY <2>3 DEF Refuse, Post
    <3> HIDE DEF ack
    <3>5. receiver' \in [conn : 0 .. MaxGen, seq : 0 .. MaxSeq, aseq : Nat, st : States,
                       results : [Commands -> Acks \cup {NoAck}]]
      BY <3>1, <3>3 DEF TInv, TypeOK
    <3> QED
      BY <1>10, <3>1, <3>2, <3>3, <3>5 DEF Deliver, TInv, TypeOK, records, bounds
  <2> QED
    BY <1>10, <2>1, <2>2, <2>3 DEF Deliver
<1>11. ASSUME NEW m \in wire, Report(m) PROVE TInv'
  <2>1. m.seq \in 0 .. MaxSeq /\ m.st \in States
    BY <1>11 DEF Report, TInv, TypeOK, Acks, Reports
  <2>2. player' \in [conn : 0 .. MaxGen, revision : Nat, seq : 0 .. MaxSeq, st : States,
                     seen : BOOLEAN, attached : BOOLEAN, cseq : Nat]
    <3> DEFINE P(n) == [player EXCEPT !.seq = m.seq, !.st = m.st, !.seen = TRUE, !.revision = n]
    <3>1. \A n \in Nat : P(n) \in [conn : 0 .. MaxGen, revision : Nat, seq : 0 .. MaxSeq,
                        st : States, seen : BOOLEAN, attached : BOOLEAN, cseq : Nat]
      BY <2>1 DEF TInv, TypeOK
    <3>2. player' = P(IF m.st.rev # player.st.rev THEN player.revision + 1 ELSE player.revision)
      BY <1>11 DEF Report
    <3>3. player.revision \in Nat /\ player.revision + 1 \in Nat
      BY DEF TInv, TypeOK
    <3> HIDE DEF P
    <3> QED BY <3>1, <3>2, <3>3
  <2>3. \A c \in Commands : [cmds[c] EXCEPT !.status = Verdict(c, m.st)] \in CmdRecord
    <3> SUFFICES ASSUME NEW c \in Commands
                 PROVE  [cmds[c] EXCEPT !.status = Verdict(c, m.st)] \in CmdRecord
      OBVIOUS
    <3>1. Verdict(c, m.st) \in Statuses
      BY VerdictTyped DEF TInv
    <3>2. cmds[c] \in CmdRecord
      BY DEF TInv, TypeOK
    <3> QED BY <3>1, <3>2 DEF CmdRecord
  <2>4. cmds' \in [Commands -> CmdRecord]
    BY <1>11, <2>3 DEF Report, TInv, TypeOK
  <2>5. \A c \in Commands : [stored[c] EXCEPT !.status = Verdict(c, m.st)]
                              \in [status : Statuses, ack : Acks \cup {NoAck}]
    BY VerdictTyped DEF TInv, TypeOK
  <2>6. stored' \in [Commands -> [status : Statuses, ack : Acks \cup {NoAck}]]
    BY <1>11, <2>5 DEF Report, TInv, TypeOK
  <2>7. crashes' \in 0 .. MaxCrashes /\ restarts' \in 0 .. MaxRestarts /\ faults' \in 0 .. MaxFaults
    BY <1>11 DEF Report, Fault, TInv, TypeOK, bounds
  <2> QED
    BY <1>11, <2>2, <2>4, <2>6, <2>7 DEF Report, Taken, TInv, TypeOK, device
<1>12. ASSUME NEW m \in wire, Ack(m) PROVE TInv'
  <2>1. m \in Acks
    BY <1>12 DEF Ack, TInv, TypeOK, Reports
  <2>2. m.cmd \in Commands /\ m.status \in Statuses /\ m.st \in States
    BY <2>1 DEF Acks, Statuses
  <2>3. cmds' \in [Commands -> CmdRecord]
    <3>1. [cmds[m.cmd] EXCEPT !.status = m.status, !.ack = m] \in CmdRecord
      <4>1. cmds[m.cmd] \in CmdRecord
        BY <2>2 DEF TInv, TypeOK
      <4> QED BY <2>1, <2>2, <4>1 DEF CmdRecord
    <3>2. cmds' = [cmds EXCEPT ![m.cmd] = [cmds[m.cmd] EXCEPT !.status = m.status, !.ack = m]]
      BY <1>12, <2>2 DEF Ack, TInv, TypeOK
    <3> QED BY <2>2, <3>1, <3>2 DEF TInv, TypeOK
  <2>4. stored' \in [Commands -> [status : Statuses, ack : Acks \cup {NoAck}]]
    BY <1>12, <2>1, <2>2 DEF Ack, TInv, TypeOK
  <2>5. player' \in [conn : 0 .. MaxGen, revision : Nat, seq : 0 .. MaxSeq, st : States,
                     seen : BOOLEAN, attached : BOOLEAN, cseq : Nat]
    <3>1. player' = [player EXCEPT !.st = m.st, !.seen = TRUE, !.revision = player.revision + 1]
      BY <1>12 DEF Ack, TInv, TypeOK
    <3>2. player.revision + 1 \in Nat
      BY DEF TInv, TypeOK
    <3> QED BY <2>2, <3>1, <3>2 DEF TInv, TypeOK
  <2> QED
    BY <1>12, <2>3, <2>4, <2>5 DEF Ack, Taken, TInv, TypeOK, device, bounds
<1>13. ASSUME NEW m \in wire, Lose(m) PROVE TInv'
  BY <1>13 DEF Lose, TInv, TypeOK, records, device, bounds
<1>14. CASE Tell
  <2> DEFINE r == [kind |-> "report", conn |-> receiver.conn, seq |-> receiver.seq + 1,
                   st |-> receiver.st]
  <2>1. r \in Reports /\ r.seq \in 0 .. MaxSeq
    BY <1>14 DEF Tell, TInv, TypeOK, Reports
  <2>2. wire' = wire \cup {r}
    BY <1>14 DEF Tell, Post
  <2>3. receiver' \in [conn : 0 .. MaxGen, seq : 0 .. MaxSeq, aseq : Nat, st : States,
                       results : [Commands -> Acks \cup {NoAck}]]
    BY <1>14 DEF Tell, TInv, TypeOK
  <2> HIDE DEF r
  <2> QED
    BY <1>14, <2>1, <2>2, <2>3 DEF Tell, TInv, TypeOK, records, bounds
<1>15. CASE LocalAction
  <2>1. PICK fetched \in BOOLEAN : receiver' = [receiver EXCEPT !.st = LocalRevision(@, fetched)]
    BY <1>15 DEF LocalAction
  <2>2. LocalRevision(receiver.st, fetched) \in States
    BY LocalRevisionTyped DEF TInv
  <2>3. receiver' \in [conn : 0 .. MaxGen, seq : 0 .. MaxSeq, aseq : Nat, st : States,
                       results : [Commands -> Acks \cup {NoAck}]]
    BY <2>1, <2>2 DEF TInv, TypeOK
  <2>4. crashes' \in 0 .. MaxCrashes /\ restarts' \in 0 .. MaxRestarts /\ faults' \in 0 .. MaxFaults
    BY <1>15 DEF LocalAction, Fault, TInv, TypeOK, bounds
  <2> QED
    BY <1>15, <2>3, <2>4 DEF LocalAction, TInv, TypeOK, records
<1>16. CASE DropConnection
  BY <1>16 DEF DropConnection, TInv, TypeOK, records, bounds
<1>17. CASE Crash
  <2>1. receiver' \in [conn : 0 .. MaxGen, seq : 0 .. MaxSeq, aseq : Nat, st : States,
                       results : [Commands -> Acks \cup {NoAck}]]
    BY <1>17 DEF Crash, TInv, TypeOK
  <2>2. ran' \in [Commands -> Nat] /\ sent' \subseteq Commands
    BY <1>17 DEF Crash, TInv, TypeOK
  <2>3. crashes' \in 0 .. MaxCrashes
    BY <1>17 DEF Crash, TInv, TypeOK
  <2> QED
    BY <1>17, <2>1, <2>2, <2>3 DEF Crash, TInv, TypeOK, records
<1>18. CASE Restart
  <2>0. \A c \in Commands : cmds[c] \in CmdRecord /\ stored[c].status \in Statuses
                             /\ stored[c].ack \in Acks \cup {NoAck}
    BY DEF TInv, TypeOK
  <2>1. \A c \in Commands : [cmds[c] EXCEPT !.ack = stored[c].ack,
                !.status = IF stored[c].status \in Open THEN "outcome_unknown"
                                                        ELSE stored[c].status] \in CmdRecord
    BY <2>0, Strings DEF CmdRecord
  <2>2. cmds' \in [Commands -> CmdRecord]
    BY <1>18, <2>1 DEF Restart
  <2>3. player' \in [conn : 0 .. MaxGen, revision : Nat, seq : 0 .. MaxSeq, st : States,
                     seen : BOOLEAN, attached : BOOLEAN, cseq : Nat]
    <3>1. player' = [conn |-> 0, revision |-> saved.revision, seq |-> 0, st |-> saved.st,
                     seen |-> FALSE, attached |-> FALSE, cseq |-> saved.cseq]
      BY <1>18 DEF Restart
    <3>2. 0 \in 0 .. MaxGen /\ 0 \in 0 .. MaxSeq
      OBVIOUS
    <3> QED BY <3>1, <3>2 DEF TInv, TypeOK
  <2> QED
    <3>0. restarts \in 0 .. MaxRestarts /\ restarts' = restarts + 1 /\ restarts < MaxRestarts
      BY <1>18 DEF Restart, TInv, TypeOK
    <3>1. restarts' \in 0 .. MaxRestarts /\ 0 \in 0 .. MaxGen /\ {} \subseteq Commands
      BY <3>0
    <3> QED BY <1>18, <2>2, <2>3, <3>1 DEF Restart, TInv, TypeOK, records, device
<1>19. CASE UNCHANGED vars
  BY <1>19 DEF vars, TInv, TypeOK, records, device, bounds
<1>20. QED
  BY <1>1, <1>2, <1>3, <1>4, <1>5, <1>6, <1>7, <1>8, <1>9, <1>10, <1>11, <1>12, <1>13, <1>14,
     <1>15, <1>16, <1>17, <1>18, <1>19 DEF Next
-----------------------------------------------------------------------------
(* The invariant                                                            *)

\* A command that the server has taken in.
Submitted(c) == cmds[c].status # "none"

\* Nothing is told of a command that did not run: not by a state, kept or under way, and
\* not by an "applied" result, in memory or stored.
Ran(st) == st.applied \in Commands => ran[st.applied] > 0
Told ==
  /\ Ran(player.st) /\ Ran(saved.st) /\ Ran(receiver.st) /\ Ran(disk)
  /\ \A m \in wire : Ran(m.st)
  /\ \A c \in Commands : receiver.results[c] # NoAck => Ran(receiver.results[c].st)
  /\ \A c \in Commands : /\ cmds[c].status = "applied" => ran[c] > 0
                         /\ stored[c].status = "applied" => ran[c] > 0

\* The receiver will not run it, whatever reaches it.
Dead(c) ==
  \/ receiver.conn # cmds[c].conn
  \/ receiver.st.rev > cmds[c].rev
  \/ receiver.results[c] # NoAck
Never(c) == ran[c] = 0 /\ Dead(c)

\* Where commands, results and messages come from.
Known(c) ==
  /\ cmds[c].conn <= gen
  /\ Submitted(c) <=> stored[c].status # "none"
  /\ Submitted(c) => cmds[c].conn >= 1
  /\ ~Submitted(c) => ran[c] = 0 /\ c \notin sent /\ receiver.results[c] = NoAck
Kept(c) == receiver.results[c] # NoAck => /\ receiver.results[c].cmd = c
                                          /\ receiver.results[c].conn \in 1 .. gen
Addressed(m) == m.conn \in 1 .. gen /\ (m.kind = "ack" => Submitted(m.cmd))
Ends == /\ receiver.conn <= gen /\ player.conn <= gen
        /\ player.attached => player.conn # 0
Placed ==
  /\ \A c \in Commands : Known(c) /\ Kept(c)
  /\ \A m \in wire : Addressed(m)
  /\ Ends

\* A command runs once, and the receiver that ran it knows.
RanKnown ==
  \A c \in Commands : /\ ran[c] <= 1
                      /\ ran[c] > 0 /\ cmds[c].conn = receiver.conn => receiver.results[c] # NoAck

\* A refusal kept by the receiver or under way, and a "rejected" result, are of a command
\* that did not and will not run.
NoteTrue(c) ==
  /\ receiver.results[c] # NoAck
  /\ receiver.results[c].status = "rejected" /\ receiver.results[c].conn = cmds[c].conn
  => Never(c)
AckTrue(m) ==
  m.kind = "ack" /\ m.status = "rejected" /\ m.conn = cmds[m.cmd].conn => Never(m.cmd)
Refused ==
  /\ \A c \in Commands : /\ cmds[c].status = "rejected" => Never(c)
                         /\ stored[c].status = "rejected" => Never(c)
                         /\ NoteTrue(c)
  /\ \A m \in wire : AckTrue(m)

\* A command that the server would judge by a report.
Current(c) == cmds[c].status \in Unresolved /\ cmds[c].conn = player.conn
\* A report that the server would take as its refusal.
ReportTrue(m) ==
  \A c \in Commands :
    Current(c) /\ m.conn = player.conn /\ m.st.rev > cmds[c].rev /\ m.st.applied # c => Never(c)
Reported ==
  \A m \in wire : m.kind = "report" =>
     /\ ReportTrue(m)
     /\ m.conn = receiver.conn => m.st.rev <= receiver.st.rev
\* An unresolved command that ran is the last one that was applied.
Last ==
  \A c \in Commands :
    Current(c) /\ ran[c] > 0 /\ cmds[c].conn = receiver.conn => receiver.st.applied = c
\* One unresolved command per generation, and one that may run.
Single == \A c, d \in Commands : Current(c) /\ Current(d) => c = d
Lone ==
  \A c, d \in Commands :
    /\ Submitted(c) /\ Submitted(d) /\ ~Dead(c) /\ ~Dead(d) => c = d

\* The strengthening that the steps preserve.
IInv == Told /\ Placed /\ RanKnown /\ Refused /\ Reported /\ Last /\ Single /\ Lone

-----------------------------------------------------------------------------
(* What the types say                                                       *)

\* The components that the proofs compare, with their types.
LEMMA Kinds ==
  ASSUME TInv
  PROVE  /\ \A c \in Commands :
              /\ cmds[c].conn \in Nat /\ cmds[c].rev \in Nat /\ cmds[c].status \in Statuses
              /\ stored[c].status \in Statuses /\ ran[c] \in Nat
              /\ receiver.results[c] # NoAck => /\ receiver.results[c] \in Acks
                                                /\ receiver.results[c].kind = "ack"
         /\ receiver.conn \in Nat /\ receiver.st.rev \in Nat
         /\ player.conn \in Nat /\ player.st.rev \in Nat /\ gen \in Nat
         /\ \A m \in wire : /\ m.st.rev \in Nat /\ m.conn \in Nat
                            /\ m.kind = "ack" => m.cmd \in Commands
         /\ sent \subseteq Commands
<1>1. \A m \in wire : /\ m.st \in States /\ m.conn \in Nat
                      /\ m.kind = "ack" => m.cmd \in Commands
  BY DEF TInv, TypeOK, Acks, Reports
<1>2. \A c \in Commands :
              /\ cmds[c].conn \in Nat /\ cmds[c].rev \in Nat /\ cmds[c].status \in Statuses
              /\ stored[c].status \in Statuses /\ ran[c] \in Nat
  BY DEF TInv, TypeOK, CmdRecord
<1>3. \A c \in Commands : receiver.results[c] # NoAck => receiver.results[c] \in Acks
  BY DEF TInv, TypeOK
<1>4. \A a \in Acks : a.kind = "ack"
  BY DEF Acks
<1>5. receiver.conn \in Nat /\ receiver.st.rev \in Nat /\ player.conn \in Nat
        /\ player.st.rev \in Nat /\ gen \in Nat /\ sent \subseteq Commands
  BY BoundsNat DEF TInv, TypeOK, States
<1> QED
  BY <1>1, <1>2, <1>3, <1>4, <1>5 DEF States

\* A step of the server that decides no command and takes none in.
Calm ==
  /\ wire' \subseteq wire
  /\ player'.st = player.st /\ saved'.st \in {saved.st, player.st}
  /\ \/ player'.conn = player.conn /\ gen' = gen
     \/ player'.conn = gen + 1 /\ gen' = gen + 1
  /\ player'.attached => player'.conn # 0
  /\ \A c \in Commands :
       /\ cmds'[c].conn = cmds[c].conn /\ cmds'[c].rev = cmds[c].rev
       /\ \/ cmds'[c].status = cmds[c].status
          \/ cmds[c].status \in Unresolved /\ cmds'[c].status \in Unresolved
       /\ \/ stored'[c].status = stored[c].status
          \/ cmds[c].status \in Unresolved /\ stored'[c].status \in Unresolved
       /\ c \in sent' => c \in sent \/ Submitted(c)
Quiet == Calm /\ UNCHANGED <<receiver, disk, ran>>

\* Fencing decides no command.
LEMMA FencedCalm ==
  ASSUME TInv, NEW fs \in SUBSET Fenced, NEW gs \in SUBSET Fenced, NewGeneration,
         cmds' = Fence(fs), stored' = FenceStored(gs), UNCHANGED <<saved, sent, wire>>
  PROVE  Calm
<1>1. player'.conn = gen + 1 /\ player'.st = player.st /\ gen' = gen + 1 /\ player'.attached = FALSE
  BY DEF NewGeneration, TInv, TypeOK
<1>2. \A c \in Commands : /\ cmds'[c].conn = cmds[c].conn /\ cmds'[c].rev = cmds[c].rev
                          /\ \/ cmds'[c].status = cmds[c].status
                             \/ cmds[c].status \in Unresolved /\ cmds'[c].status \in Unresolved
  BY DEF Fence, Fenced, Unknown, Unresolved, TInv, TypeOK, CmdRecord
<1>3. \A c \in Commands : \/ stored'[c].status = stored[c].status
                          \/ cmds[c].status \in Unresolved /\ stored'[c].status \in Unresolved
  BY DEF FenceStored, Fenced, Unresolved, TInv, TypeOK
<1>4. gen + 1 # 0
  BY Kinds
<1> QED
  BY <1>1, <1>2, <1>3, <1>4 DEF Calm

\* The steps that only concern the server, or the wire.
LEMMA QuietStep ==
  ASSUME TInv, Ends,
         \/ Observe \/ Register \/ ConnectUnheard \/ OpenStream \/ CloseStream
         \/ \E c \in Commands : Snapshot(c) \/ Expire(c)
         \/ \E m \in wire : Lose(m)
         \/ UNCHANGED vars
  PROVE  Quiet
<1> USE DEF Quiet, device
<1>1. CASE Observe
  BY <1>1 DEF Observe, Calm, records, Ends
<1>2. CASE Register
  BY <1>2 DEF Register, Calm, Ends
<1>3. CASE ConnectUnheard
  <2>1. CASE cmds' = Fence(Fenced) /\ stored' = FenceStored(Fenced)
    BY <1>3, <2>1, FencedCalm DEF ConnectUnheard
  <2>2. ASSUME NEW fs \in SUBSET Fenced, NEW c \in fs,
               cmds' = Fence(fs), stored' = FenceStored(fs \ {c})
        PROVE  Quiet
    BY <1>3, <2>2, FencedCalm, fs \ {c} \in SUBSET Fenced DEF ConnectUnheard
  <2> QED
    BY <1>3, <2>1, <2>2 DEF ConnectUnheard
<1>4. CASE OpenStream
  BY <1>4 DEF OpenStream, Calm, records, TInv, TypeOK
<1>5. CASE CloseStream
  BY <1>5 DEF CloseStream, Calm, records, Detached, Ends, TInv, TypeOK
<1>6. ASSUME NEW c \in Commands, Snapshot(c) PROVE Quiet
  <2>1. /\ wire' = wire /\ saved' = saved /\ gen' = gen
    BY <1>6 DEF Snapshot
  <2>2. /\ player'.st = player.st /\ player'.conn = player.conn
        /\ player'.attached => player.attached
    BY <1>6 DEF Snapshot, Detached, TInv, TypeOK
  <2>3. \A d \in Commands : /\ cmds'[d].conn = cmds[d].conn /\ cmds'[d].rev = cmds[d].rev
                            /\ \/ cmds'[d].status = cmds[d].status
                               \/ cmds[d].status \in Unresolved /\ cmds'[d].status \in Unresolved
    BY <1>6 DEF Snapshot, WithStatus, Open, Unresolved, TInv, TypeOK, CmdRecord
  <2>4. \A d \in Commands : \/ stored'[d].status = stored[d].status
                            \/ cmds[d].status \in Unresolved /\ stored'[d].status \in Unresolved
    BY <1>6 DEF Snapshot, StoreStatus, Open, Unresolved, TInv, TypeOK
  <2>5. \A d \in Commands : d \in sent' => d \in sent \/ Submitted(d)
    BY <1>6 DEF Snapshot, Submitted, Open
  <2> QED
    BY <1>6, <2>1, <2>2, <2>3, <2>4, <2>5 DEF Snapshot, Calm, Ends
<1>7. ASSUME NEW c \in Commands, Expire(c) PROVE Quiet
  <2>3. \A d \in Commands : /\ cmds'[d].conn = cmds[d].conn /\ cmds'[d].rev = cmds[d].rev
                            /\ \/ cmds'[d].status = cmds[d].status
                               \/ cmds[d].status \in Unresolved /\ cmds'[d].status \in Unresolved
    BY <1>7 DEF Expire, Expirable, WithStatus, Open, Unresolved, TInv, TypeOK, CmdRecord
  <2>4. \A d \in Commands : \/ stored'[d].status = stored[d].status
                            \/ cmds[d].status \in Unresolved /\ stored'[d].status \in Unresolved
    BY <1>7 DEF Expire, Expirable, StoreStatus, Open, Unresolved, TInv, TypeOK
  <2> QED
    BY <1>7, <2>3, <2>4 DEF Expire, Calm, Ends
<1>8. ASSUME NEW m \in wire, Lose(m) PROVE Quiet
  BY <1>8 DEF Lose, Calm, records, Ends
<1>9. CASE UNCHANGED vars
  BY <1>9 DEF vars, Calm, records, Ends
<1> QED
  BY <1>1, <1>2, <1>3, <1>4, <1>5, <1>6, <1>7, <1>8, <1>9
-----------------------------------------------------------------------------
(* The invariant is inductive: one lemma per action                         *)

\* Such a step neither decides a command nor makes one current.
LEMMA CalmFacts ==
  ASSUME TInv, IInv, Calm
  PROVE  /\ \A c \in Commands :
              /\ Submitted(c)' <=> Submitted(c)
              /\ stored'[c].status = "none" <=> ~Submitted(c)
              /\ cmds'[c].status = "rejected" => cmds[c].status = "rejected"
              /\ cmds'[c].status = "applied" => cmds[c].status = "applied"
              /\ stored'[c].status = "rejected" => stored[c].status = "rejected"
              /\ stored'[c].status = "applied" => stored[c].status = "applied"
              /\ Current(c)' => Current(c) /\ player'.conn = player.conn
<1>1. \A c \in Commands : cmds[c].conn <= gen /\ cmds[c].conn \in Nat /\ gen \in Nat
  BY Kinds DEF IInv, Placed, Known
<1>2. \A c \in Commands : stored[c].status = "none" <=> ~Submitted(c)
  BY DEF IInv, Placed, Known
<1> QED
  BY <1>1, <1>2 DEF Calm, Submitted, Unresolved, Open, Current

\* It leaves everything where it came from.
LEMMA CalmPlaced ==
  ASSUME TInv, IInv, Calm, ran' = ran, receiver'.results = receiver.results,
         receiver'.conn <= gen'
  PROVE  Placed'
<1>1. gen' >= gen /\ gen' \in Nat /\ gen \in Nat /\ player'.conn <= gen'
  BY Kinds DEF Calm, IInv, Placed, Ends
<1>2. ASSUME NEW c \in Commands PROVE Known(c)' /\ Kept(c)'
  <2>1. Known(c) /\ Kept(c)
    BY DEF IInv, Placed
  <2>2. c \in sent' => c \in sent \/ Submitted(c)
    BY DEF Calm
  <2>3. cmds'[c].conn = cmds[c].conn /\ cmds[c].conn \in Nat
    BY Kinds DEF Calm
  <2>4. Known(c)'
    BY <1>1, <2>1, <2>2, <2>3, CalmFacts DEF Known
  <2>5. Kept(c)'
    BY <1>1, <2>1 DEF Kept
  <2> QED BY <2>4, <2>5
<1>3. ASSUME NEW m \in wire' PROVE Addressed(m)'
  <2>1. m \in wire /\ Addressed(m)
    BY DEF Calm, IInv, Placed
  <2> QED BY <1>1, <2>1, CalmFacts, Kinds DEF Addressed
<1>4. Ends'
  BY <1>1 DEF Ends, Calm
<1> QED
  BY <1>2, <1>3, <1>4 DEF Placed

\* What is true of a command that will never run stays true.
LEMMA RefusedStep ==
  ASSUME TInv, IInv,
         \A c \in Commands : Never(c) /\ Submitted(c) => Never(c)',
         \A c \in Commands : Submitted(c) => cmds'[c].conn = cmds[c].conn
  PROVE  /\ \A c \in Commands : receiver'.results[c] = receiver.results[c] => NoteTrue(c)'
         /\ \A m \in wire : AckTrue(m)'
<1>1. ASSUME NEW c \in Commands, receiver'.results[c] = receiver.results[c] PROVE NoteTrue(c)'
  <2>1. receiver.results[c] # NoAck => Submitted(c)
    BY DEF IInv, Placed, Known
  <2>2. NoteTrue(c)
    BY DEF IInv, Refused
  <2> QED BY <1>1, <2>1, <2>2 DEF NoteTrue
<1>2. ASSUME NEW m \in wire, m.kind = "ack" PROVE AckTrue(m)'
  <2>1. m.cmd \in Commands /\ Submitted(m.cmd) /\ AckTrue(m)
    BY <1>2, Kinds DEF IInv, Placed, Addressed, Refused
  <2> QED BY <2>1, <1>2 DEF AckTrue
<1>3. ASSUME NEW m \in wire, m.kind # "ack" PROVE AckTrue(m)'
  BY <1>3 DEF AckTrue
<1> QED
  BY <1>1, <1>2, <1>3

\* The server alone: reading, registering, streams, snapshots, expiry, lost messages.
LEMMA QuietInductive ==
  ASSUME TInv, IInv, Quiet
  PROVE  IInv'
<1>0. \A c \in Commands : cmds'[c].conn = cmds[c].conn /\ cmds'[c].rev = cmds[c].rev
  BY DEF Quiet, Calm
<1>1. \A c \in Commands : (Never(c)' <=> Never(c)) /\ (Dead(c)' <=> Dead(c))
  BY <1>0 DEF Quiet, Never, Dead
<1>3. Told'
  BY CalmFacts DEF Quiet, Calm, IInv, Told, Ran
<1>4. Placed'
  <2>1. receiver.conn <= gen'
    BY Kinds DEF Quiet, Calm, IInv, Placed, Ends
  <2> QED BY <2>1, CalmPlaced DEF Quiet
<1>5. RanKnown'
  BY <1>0 DEF Quiet, IInv, RanKnown
<1>6. Refused'
  BY <1>0, <1>1, CalmFacts, RefusedStep DEF Quiet, Calm, IInv, Refused
<1>7. Reported'
  BY <1>0, <1>1, CalmFacts DEF Quiet, Calm, IInv, Reported, ReportTrue
<1>8. Last'
  BY <1>0, CalmFacts DEF Quiet, IInv, Last
<1>9. Single'
  BY CalmFacts DEF Quiet, IInv, Single
<1>10. Lone'
  <2>1. \A c \in Commands : Submitted(c)' <=> Submitted(c)
    BY CalmFacts DEF Quiet
  <2> QED BY <1>1, <2>1 DEF IInv, Lone
<1> QED
  BY <1>3, <1>4, <1>5, <1>6, <1>7, <1>8, <1>9, <1>10 DEF IInv

\* Connect: every command so far belongs to an earlier generation, hence is dead.
LEMMA ConnectInductive ==
  ASSUME TInv, IInv, Connect
  PROVE  IInv'
<1>1. Calm
  BY FencedCalm DEF Connect
<1>2. /\ receiver'.conn = gen + 1 /\ player'.conn = gen + 1 /\ gen' = gen + 1
      /\ receiver'.st.applied = receiver.st.applied /\ receiver'.results = receiver.results
      /\ disk' = disk /\ ran' = ran /\ wire' = wire
  BY DEF Connect, NewGeneration, TInv, TypeOK, States
<1>3. \A c \in Commands : cmds'[c].conn = cmds[c].conn /\ cmds[c].conn < gen + 1
  BY <1>1, Kinds DEF Calm, IInv, Placed, Known
<1>4. \A c \in Commands : /\ Dead(c)' /\ (Never(c)' <=> ran[c] = 0)
                          /\ ~Current(c)'
  BY <1>2, <1>3, Kinds DEF Dead, Never, Current
<1>5. Told'
  BY <1>1, <1>2, CalmFacts DEF Calm, IInv, Told, Ran
<1>6. Placed'
  BY <1>1, <1>2, CalmPlaced, Kinds
<1>7. RanKnown'
  BY <1>2, <1>3, Kinds DEF IInv, RanKnown
<1>8. Refused'
  <2>1. \A c \in Commands : Never(c) => Never(c)'
    BY <1>4 DEF Never
  <2> QED BY <1>1, <1>2, <1>3, <2>1, CalmFacts, RefusedStep DEF IInv, Refused
<1>9. Reported'
  BY <1>2, <1>4, Kinds DEF IInv, Reported, ReportTrue, Placed, Addressed
<1>10. Last' /\ Single' /\ Lone'
  BY <1>4 DEF Last, Single, Lone
<1> QED
  BY <1>5, <1>6, <1>7, <1>8, <1>9, <1>10 DEF IInv

\* Submit: reports under way that are ahead of the new command show that it is dead, and
\* every other command of its generation is decided, hence dead.
LEMMA SubmitInductive ==
  ASSUME TInv, IInv, NEW c \in Commands, Submit(c)
  PROVE  IInv'
<1>1. /\ UNCHANGED <<receiver, disk, ran, gen, wire, sent, saved>>
      /\ player'.conn = player.conn /\ player'.st = player.st
      /\ player'.attached = player.attached /\ player.attached
  BY DEF Submit, TInv, TypeOK, device
<1>2. /\ cmds'[c].status = "queued" /\ cmds'[c].conn = player.conn /\ cmds'[c].rev = player.st.rev
      /\ stored'[c].status = "queued"
      /\ \A d \in Commands \ {c} : cmds'[d] = cmds[d] /\ stored'[d] = stored[d]
  BY DEF Submit, StoreStatus, TInv, TypeOK
<1>3. /\ ~Submitted(c) /\ ran[c] = 0 /\ receiver.results[c] = NoAck /\ c \notin sent
      /\ player.conn \in 1 .. gen
  BY <1>1, Kinds DEF Submit, Submitted, IInv, Placed, Known, Ends
<1>4. \A d \in Commands \ {c} : /\ Submitted(d)' <=> Submitted(d)
                                /\ Never(d)' <=> Never(d)
                                /\ Dead(d)' <=> Dead(d)
                                /\ Current(d)' <=> Current(d)
                                /\ ~Current(d)
  BY <1>1, <1>2 DEF Submitted, Never, Dead, Current, Submit, Busy
<1>5. Told'
  BY <1>1, <1>2 DEF IInv, Told, Ran
<1>6. Placed'
  <2>1. Known(c)' /\ Kept(c)'
    BY <1>1, <1>2, <1>3, Kinds DEF Known, Kept, Submitted
  <2>2. ASSUME NEW d \in Commands \ {c} PROVE Known(d)' /\ Kept(d)'
    <3>1. Known(d) /\ Kept(d)
      BY DEF IInv, Placed
    <3> QED BY <3>1, <1>1, <1>2, <1>4 DEF Known, Kept
  <2>3. ASSUME NEW m \in wire PROVE Addressed(m)'
    <3>1. Addressed(m)
      BY DEF IInv, Placed
    <3> QED BY <3>1, <1>1, <1>2, <1>4, Kinds DEF Addressed, Submitted
  <2> QED BY <1>1, <2>1, <2>2, <2>3 DEF IInv, Placed, Ends
<1>7. RanKnown'
  BY <1>1, <1>2, <1>3 DEF IInv, RanKnown
<1>8. Refused'
  <2>1. \A d \in Commands : Submitted(d) => d # c
    BY <1>3
  <2> QED BY <1>1, <1>2, <1>4, <2>1, RefusedStep DEF IInv, Refused
<1>9. Reported'
  <2> SUFFICES ASSUME NEW m \in wire, m.kind = "report" PROVE ReportTrue(m)'
    BY <1>1 DEF IInv, Reported
  <2> SUFFICES ASSUME m.conn = player.conn, m.st.rev > player.st.rev PROVE Never(c)'
    BY <1>1, <1>2, <1>4 DEF ReportTrue
  <2>1. m.conn = receiver.conn => m.st.rev <= receiver.st.rev
    BY DEF IInv, Reported
  <2>2. receiver.conn # player.conn \/ receiver.st.rev > player.st.rev
    BY <2>1, Kinds
  <2> QED
    BY <2>2, <1>1, <1>2, <1>3 DEF Never, Dead
<1>10. Last' /\ Single'
  BY <1>1, <1>2, <1>3, <1>4 DEF IInv, Last, Single
<1>11. Lone'
  <2>1. ASSUME NEW d \in Commands, d # c, Submitted(d), ~Dead(d), ~Dead(c)'
        PROVE  FALSE
    <3>1. cmds[d].conn = receiver.conn /\ receiver.results[d] = NoAck /\ receiver.conn = player.conn
      BY <2>1, <1>1, <1>2 DEF Dead
    <3>2. cmds[d].status \in Results
      BY <2>1, <1>4, <3>1, Kinds DEF Current, Submitted, Statuses
    <3>3. CASE cmds[d].status = "rejected"
      BY <2>1, <3>3 DEF IInv, Refused, Never
    <3>4. CASE cmds[d].status = "applied"
      BY <3>1, <3>4 DEF IInv, Told, RanKnown
    <3> QED BY <3>2, <3>3, <3>4 DEF Results
  <2> QED
    BY <2>1, <1>4 DEF IInv, Lone
<1> QED
  BY <1>5, <1>6, <1>7, <1>8, <1>9, <1>10, <1>11 DEF IInv

\* Report: ReportTrue is the right to reject, Told the right to show a command applied.
LEMMA ReportInductive ==
  ASSUME TInv, IInv, NEW m \in wire, Report(m)
  PROVE  IInv'
<1>1. /\ UNCHANGED <<receiver, disk, ran, gen, sent, saved>> /\ wire' \subseteq wire
      /\ player'.conn = player.conn /\ player'.st = m.st
      /\ player'.attached = player.attached
      /\ m.kind = "report" /\ m.conn = player.conn
  BY DEF Report, Taken, TInv, TypeOK, device
<1>2. \A c \in Commands :
        /\ cmds'[c].conn = cmds[c].conn /\ cmds'[c].rev = cmds[c].rev
        /\ c \notin Judged => cmds'[c].status = cmds[c].status
        /\ c \in Judged => cmds'[c].status = Verdict(c, m.st)
        /\ \/ stored'[c].status = stored[c].status
           \/ c \in Judged /\ stored'[c].status = Verdict(c, m.st)
  BY DEF Report, Judged, TInv, TypeOK, CmdRecord
<1>3. \A c \in Commands : c \in Judged <=> Current(c)
  BY DEF Judged, Current
<1>4. \A c \in Commands : /\ (Never(c)' <=> Never(c)) /\ (Dead(c)' <=> Dead(c))
  BY <1>1, <1>2 DEF Never, Dead
<1>5. ASSUME NEW c \in Judged
      PROVE  /\ Verdict(c, m.st) = "rejected" => Never(c)
             /\ Verdict(c, m.st) = "applied" => ran[c] > 0
             /\ Verdict(c, m.st) # "none"
             /\ Submitted(c)
  <2>1. c \in Commands /\ cmds[c].status \in Unresolved
    BY DEF Judged
  <2>2. /\ cmds[c].status # "rejected" /\ cmds[c].status # "applied" /\ cmds[c].status # "none"
    BY <2>1 DEF Unresolved, Open
  <2>3. Verdict(c, m.st) = "rejected" => m.st.applied # c /\ m.st.rev > cmds[c].rev
    BY <2>1, <2>2, Kinds DEF Verdict
  <2>4. Verdict(c, m.st) = "rejected" => Never(c)
    BY <2>1, <2>3, <1>1, <1>3 DEF IInv, Reported, ReportTrue
  <2>5. Verdict(c, m.st) = "applied" => m.st.applied = c
    BY <2>2 DEF Verdict
  <2>6. Verdict(c, m.st) = "applied" => ran[c] > 0
    BY <2>1, <2>5 DEF IInv, Told, Ran
  <2>7. Verdict(c, m.st) # "none"
    BY <2>2 DEF Verdict
  <2> QED BY <2>2, <2>4, <2>6, <2>7 DEF Submitted
<1>6. \A c \in Commands : /\ Submitted(c)' <=> Submitted(c)
                          /\ Current(c)' => Current(c)
                          /\ stored'[c].status = "none" <=> ~Submitted(c)
  <2>1. \A c \in Commands : stored[c].status = "none" <=> ~Submitted(c)
    BY DEF IInv, Placed, Known
  <2> QED BY <2>1, <1>1, <1>2, <1>3, <1>5 DEF Submitted, Current
<1>7. Told'
  <2>1. \A c \in Commands : /\ cmds'[c].status = "applied" => ran[c] > 0
                            /\ stored'[c].status = "applied" => ran[c] > 0
    BY <1>2, <1>5 DEF IInv, Told
  <2> QED BY <1>1, <2>1 DEF IInv, Told, Ran
<1>8. Placed'
  <2>1. \A c \in Commands : Known(c)' /\ Kept(c)'
    BY <1>1, <1>2, <1>6 DEF IInv, Placed, Known, Kept
  <2>2. \A mm \in wire' : Addressed(mm)'
    BY <1>1, <1>6, Kinds DEF IInv, Placed, Addressed
  <2> QED BY <1>1, <2>1, <2>2 DEF IInv, Placed, Ends
<1>9. RanKnown'
  BY <1>1, <1>2 DEF IInv, RanKnown
<1>10. Refused'
  <2>1. \A c \in Commands : /\ cmds'[c].status = "rejected" => Never(c)
                            /\ stored'[c].status = "rejected" => Never(c)
    BY <1>2, <1>5 DEF IInv, Refused
  <2> QED BY <2>1, <1>1, <1>2, <1>4, RefusedStep DEF Refused
<1>11. Reported'
  BY <1>1, <1>2, <1>4, <1>6 DEF IInv, Reported, ReportTrue
<1>12. Last' /\ Single' /\ Lone'
  BY <1>1, <1>2, <1>4, <1>6 DEF IInv, Last, Single, Lone
<1> QED
  BY <1>7, <1>8, <1>9, <1>10, <1>11, <1>12 DEF IInv

\* Ack: what the acknowledgement says is true.
LEMMA AckInductive ==
  ASSUME TInv, IInv, NEW m \in wire, Ack(m)
  PROVE  IInv'
<1>0. m.kind = "ack" /\ m.cmd \in Commands /\ m.status \in Results
  BY DEF Ack, TInv, TypeOK, Acks, Reports
<1>1. /\ UNCHANGED <<receiver, disk, ran, gen, sent, saved>> /\ wire' \subseteq wire
      /\ player'.conn = player.conn /\ player'.st = m.st
      /\ player'.attached = player.attached
      /\ m.conn = cmds[m.cmd].conn /\ Submitted(m.cmd)
      /\ m.status = "applied" => m.st.applied = m.cmd
  BY DEF Ack, Taken, TInv, TypeOK, device, Submitted
<1>2. /\ \A c \in Commands :
           /\ cmds'[c].conn = cmds[c].conn /\ cmds'[c].rev = cmds[c].rev
           /\ c # m.cmd => /\ cmds'[c].status = cmds[c].status
                           /\ stored'[c].status = stored[c].status
      /\ cmds'[m.cmd].status = m.status /\ stored'[m.cmd].status = m.status
  BY <1>0 DEF Ack, TInv, TypeOK, CmdRecord
<1>4. \A c \in Commands : (Never(c)' <=> Never(c)) /\ (Dead(c)' <=> Dead(c))
  BY <1>1, <1>2 DEF Never, Dead
<1>5. /\ m.status = "rejected" => Never(m.cmd)
      /\ m.status = "applied" => ran[m.cmd] > 0
  BY <1>0, <1>1 DEF IInv, Refused, AckTrue, Told, Ran
<1>6. \A c \in Commands : /\ Submitted(c)' <=> Submitted(c)
                          /\ Current(c)' => Current(c)
                          /\ stored'[c].status = "none" <=> ~Submitted(c)
  <2>1. \A c \in Commands : stored[c].status = "none" <=> ~Submitted(c)
    BY DEF IInv, Placed, Known
  <2>2. m.status \notin Unresolved /\ m.status # "none"
    BY <1>0 DEF Unresolved, Open, Results
  <2> QED BY <2>1, <2>2, <1>1, <1>2 DEF Submitted, Current
<1>7. Told'
  <2>1. \A c \in Commands : /\ cmds'[c].status = "applied" => ran[c] > 0
                            /\ stored'[c].status = "applied" => ran[c] > 0
    BY <1>2, <1>5 DEF IInv, Told
  <2> QED BY <1>1, <2>1 DEF IInv, Told, Ran
<1>8. Placed'
  <2>1. \A c \in Commands : Known(c)' /\ Kept(c)'
    BY <1>1, <1>2, <1>6 DEF IInv, Placed, Known, Kept
  <2>2. \A mm \in wire' : Addressed(mm)'
    BY <1>1, <1>6, Kinds DEF IInv, Placed, Addressed
  <2> QED BY <1>1, <2>1, <2>2 DEF IInv, Placed, Ends
<1>9. RanKnown'
  BY <1>1, <1>2 DEF IInv, RanKnown
<1>10. Refused'
  <2>1. \A c \in Commands : /\ cmds'[c].status = "rejected" => Never(c)
                            /\ stored'[c].status = "rejected" => Never(c)
    BY <1>2, <1>5 DEF IInv, Refused
  <2> QED BY <2>1, <1>1, <1>2, <1>4, RefusedStep DEF Refused
<1>11. Reported'
  BY <1>1, <1>2, <1>4, <1>6 DEF IInv, Reported, ReportTrue
<1>12. Last' /\ Single' /\ Lone'
  BY <1>1, <1>2, <1>4, <1>6 DEF IInv, Last, Single, Lone
<1> QED
  BY <1>7, <1>8, <1>9, <1>10, <1>11, <1>12 DEF IInv

\* Restart: the records say nothing that was not true, and no command is current.
LEMMA RestartInductive ==
  ASSUME TInv, IInv, Restart
  PROVE  IInv'
<1>1. /\ UNCHANGED <<receiver, disk, ran, gen, saved, stored>> /\ wire' = {} /\ sent' = {}
      /\ player'.conn = 0 /\ player'.st = saved.st /\ player'.attached = FALSE
  BY DEF Restart, records, device
<1>2. \A c \in Commands :
        /\ cmds'[c].conn = cmds[c].conn /\ cmds'[c].rev = cmds[c].rev
        /\ \/ cmds'[c].status = stored[c].status
           \/ stored[c].status \in Open /\ cmds'[c].status = "outcome_unknown"
  <2>1. ASSUME NEW c \in Commands
        PROVE  cmds'[c] = [cmds[c] EXCEPT !.ack = stored[c].ack,
                 !.status = IF stored[c].status \in Open THEN "outcome_unknown"
                                                         ELSE stored[c].status]
    BY DEF Restart
  <2>2. \A c \in Commands : cmds[c] \in CmdRecord
    BY DEF TInv, TypeOK
  <2> QED BY <2>1, <2>2 DEF CmdRecord
<1>4. \A c \in Commands : (Never(c)' <=> Never(c)) /\ (Dead(c)' <=> Dead(c))
  BY <1>1, <1>2 DEF Never, Dead
<1>6. \A c \in Commands : (Submitted(c)' <=> Submitted(c)) /\ ~Current(c)'
  <2>1. \A c \in Commands : stored[c].status = "none" <=> ~Submitted(c)
    BY DEF IInv, Placed, Known
  <2>2. \A c \in Commands : Submitted(c)' <=> Submitted(c)
    BY <2>1, <1>2 DEF Submitted, Open
  <2>3. \A c \in Commands : cmds'[c].status \in Unresolved => Submitted(c)'
    BY DEF Submitted, Unresolved, Open
  <2>4. \A c \in Commands : Submitted(c) => cmds[c].conn # 0
    BY Kinds DEF IInv, Placed, Known
  <2> QED BY <1>1, <1>2, <2>2, <2>3, <2>4 DEF Current
<1>7. Told'
  BY <1>1, <1>2 DEF IInv, Told, Ran
<1>8. Placed'
  <2>1. \A c \in Commands : Known(c)' /\ Kept(c)'
    BY <1>1, <1>2, <1>6 DEF IInv, Placed, Known, Kept
  <2>2. Ends'
    BY <1>1, Kinds DEF IInv, Placed, Ends
  <2> QED BY <1>1, <2>1, <2>2 DEF Placed
<1>9. RanKnown'
  BY <1>1, <1>2 DEF IInv, RanKnown
<1>10. Refused'
  <2>1. \A c \in Commands : /\ cmds'[c].status = "rejected" => Never(c)
                            /\ stored'[c].status = "rejected" => Never(c)
    BY <1>1, <1>2 DEF IInv, Refused
  <2> QED BY <2>1, <1>1, <1>2, <1>4, RefusedStep DEF Refused
<1>11. Reported' /\ Last' /\ Single'
  BY <1>1, <1>6 DEF Reported, Last, Single
<1>12. Lone'
  BY <1>4, <1>6 DEF IInv, Lone
<1> QED
  BY <1>7, <1>8, <1>9, <1>10, <1>11, <1>12 DEF IInv

\* A step of the device alone: the server's state stays.
Aside == UNCHANGED <<player, saved, cmds, stored, gen>>

\* The device changes nothing that the server knows of a command.
LEMMA AsideFacts ==
  ASSUME Aside
  PROVE  \A c \in Commands : /\ cmds'[c].conn = cmds[c].conn /\ cmds'[c].rev = cmds[c].rev
                             /\ Submitted(c)' <=> Submitted(c)
                             /\ Current(c)' <=> Current(c)
BY DEF Aside, Submitted, Current

\* Deliver, applied: the command becomes dead by running; the current one, if it ran before,
\* would be this one.
LEMMA ApplyInductive ==
  ASSUME TInv, IInv, NEW c \in Commands, Deliver(c),
         receiver.results[c] = NoAck, Valid(c), Apply(c)
  PROVE  IInv'
<1>16. PICK st : st = After(c)
  OBVIOUS
<1>17. PICK ack : ack = AckOf(c, "applied", st)
  OBVIOUS
<1>1. Aside /\ sent' = sent /\ receiver.conn # 0 /\ c \in sent
  BY DEF Deliver, Aside, records
<1>2. /\ receiver'.conn = receiver.conn /\ receiver'.st = st
      /\ receiver'.results = [receiver.results EXCEPT ![c] = ack]
      /\ disk' = st /\ ran' = [ran EXCEPT ![c] = @ + 1] /\ wire' = wire \cup {ack}
  BY <1>16, <1>17 DEF Apply, Post, TInv, TypeOK
<1>3. /\ ack.kind = "ack" /\ ack.cmd = c /\ ack.conn = receiver.conn /\ ack.status = "applied"
      /\ ack.st = st /\ ack # NoAck
  BY <1>17 DEF AckOf, NoAck
<1>4. st.rev = receiver.st.rev + 1 /\ st.applied = c
  BY <1>16 DEF After
<1>5. /\ receiver'.results[c] = ack
      /\ \A d \in Commands \ {c} : receiver'.results[d] = receiver.results[d]
  BY <1>2 DEF TInv, TypeOK
<1>6. /\ cmds[c].conn = receiver.conn /\ Submitted(c) /\ ~Dead(c) /\ ran[c] = 0
  <2>1. cmds[c].conn = receiver.conn /\ cmds[c].rev = receiver.st.rev
    BY DEF Valid
  <2>2. Submitted(c)
    BY <1>1 DEF IInv, Placed, Known
  <2>3. ran[c] = 0
    BY <2>1, Kinds DEF IInv, RanKnown
  <2> QED BY <2>1, <2>2, <2>3, Kinds DEF Dead
<1>7. /\ ran'[c] = 1 /\ \A d \in Commands \ {c} : ran'[d] = ran[d]
      /\ \A d \in Commands : ran[d] > 0 => ran'[d] > 0
  BY <1>2, <1>6 DEF TInv, TypeOK
<1>8. /\ Dead(c)'
      /\ \A d \in Commands : /\ Dead(d) => Dead(d)'
                             /\ Never(d) => d # c /\ Never(d)'
  BY <1>1, <1>2, <1>3, <1>4, <1>5, <1>6, <1>7, AsideFacts, Kinds DEF Dead, Never
<1>9. Told'
  <2>1. Ran(st)'
    BY <1>4, <1>7 DEF Ran
  <2>2. \A t : Ran(t) => (t.applied \in Commands => ran'[t.applied] > 0)
    BY <1>7 DEF Ran
  <2>3. /\ Ran(player.st)' /\ Ran(saved.st)' /\ Ran(receiver.st)' /\ Ran(disk)'
    BY <1>1, <1>2, <1>4, <1>7, <2>2 DEF IInv, Told, Ran, Aside
  <2>4. \A m \in wire' : Ran(m.st)'
    BY <1>2, <1>3, <1>4, <1>7, <2>2 DEF IInv, Told, Ran
  <2>5. \A d \in Commands : receiver'.results[d] # NoAck => Ran(receiver.results[d].st)'
    BY <1>3, <1>4, <1>5, <1>7, <2>2 DEF IInv, Told, Ran
  <2>6. \A d \in Commands : /\ cmds'[d].status = "applied" => ran'[d] > 0
                            /\ stored'[d].status = "applied" => ran'[d] > 0
    BY <1>1, <1>7 DEF IInv, Told, Aside
  <2> QED BY <2>3, <2>4, <2>5, <2>6 DEF Told
<1>10. Placed'
  <2>1. ASSUME NEW d \in Commands PROVE Known(d)' /\ Kept(d)'
    <3>1. Known(d) /\ Kept(d) /\ Ends
      BY DEF IInv, Placed
    <3>2. CASE d = c
      BY <3>1, <3>2, <1>1, <1>3, <1>5, <1>6, AsideFacts, Kinds DEF Known, Kept, Aside, Ends
    <3>3. CASE d # c
      BY <3>1, <3>3, <1>1, <1>5, <1>7, AsideFacts DEF Known, Kept, Aside
    <3> QED BY <3>2, <3>3
  <2>2. Addressed(ack)'
    BY <1>1, <1>3, <1>6, AsideFacts, Kinds DEF Addressed, IInv, Placed, Ends, Aside
  <2>3. \A m \in wire : Addressed(m)'
    BY <1>1, AsideFacts, Kinds DEF IInv, Placed, Addressed, Aside
  <2>5. \A m \in wire' : Addressed(m)'
    BY <2>2, <2>3, <1>2
  <2> QED BY <1>1, <1>2, <2>1, <2>5 DEF IInv, Placed, Ends, Aside
<1>11. RanKnown'
  BY <1>1, <1>2, <1>3, <1>5, <1>7, AsideFacts DEF IInv, RanKnown
<1>12. Refused'
  <2>1. /\ \A d \in Commands \ {c} : NoteTrue(d)'
        /\ \A m \in wire : AckTrue(m)'
    BY <1>1, <1>5, <1>8, AsideFacts, RefusedStep
  <2>2. NoteTrue(c)'
    BY <1>3, <1>5 DEF NoteTrue
  <2>3. \A m \in wire' : AckTrue(m)'
    BY <2>1, <1>2, <1>3 DEF AckTrue
  <2> QED BY <1>1, <1>8, <2>1, <2>2, <2>3 DEF IInv, Refused, Aside
<1>13. Reported'
  <2>1. \A m \in wire' : m.kind = "report" => m \in wire
    BY <1>2, <1>3
  <2> QED BY <2>1, <1>1, <1>2, <1>4, <1>8, AsideFacts, Kinds DEF IInv, Reported, ReportTrue, Aside
<1>14. Last'
  <2>1. ASSUME NEW d \in Commands, d # c, Current(d), cmds[d].conn = receiver.conn
        PROVE  FALSE
    <3>1. cmds[c].conn = player.conn
      BY <2>1, <1>6 DEF Current
    <3>2. cmds[c].status \in Results
      BY <2>1, <3>1, <1>6, Kinds DEF IInv, Single, Current, Submitted, Statuses
    <3>3. CASE cmds[c].status = "rejected"
      BY <3>3, <1>6 DEF IInv, Refused, Never
    <3>4. CASE cmds[c].status = "applied"
      BY <3>4, <1>6, Kinds DEF IInv, Told
    <3> QED BY <3>2, <3>3, <3>4 DEF Results
  <2> QED BY <2>1, <1>1, <1>2, <1>4, AsideFacts DEF Last
<1>15. Single' /\ Lone'
  BY <1>8, <1>1, AsideFacts DEF IInv, Single, Lone
<1> QED
  BY <1>9, <1>10, <1>11, <1>12, <1>13, <1>14, <1>15 DEF IInv

\* Deliver, refused: without a result nothing of this generation ran.
LEMMA RefuseInductive ==
  ASSUME TInv, IInv, NEW c \in Commands, Deliver(c), receiver.results[c] = NoAck, Refuse(c)
  PROVE  IInv'
<1>16. PICK ack : ack = AckOf(c, "rejected", receiver.st)
  OBVIOUS
<1>1. Aside /\ sent' = sent /\ receiver.conn # 0 /\ c \in sent
  BY DEF Deliver, Aside, records
<1>2. /\ receiver'.conn = receiver.conn /\ receiver'.st = receiver.st
      /\ receiver'.results = [receiver.results EXCEPT ![c] = ack]
      /\ disk' = receiver.st /\ ran' = ran /\ wire' = wire \cup {ack}
  BY <1>16 DEF Refuse, Post, TInv, TypeOK
<1>3. /\ ack.kind = "ack" /\ ack.cmd = c /\ ack.conn = receiver.conn
      /\ ack.st = receiver.st /\ ack # NoAck
  BY <1>16 DEF AckOf, NoAck
<1>5. /\ receiver'.results[c] = ack
      /\ \A d \in Commands \ {c} : receiver'.results[d] = receiver.results[d]
  BY <1>2 DEF TInv, TypeOK
<1>6. Submitted(c)
  BY <1>1 DEF IInv, Placed, Known
<1>8. /\ Dead(c)'
      /\ \A d \in Commands : /\ Dead(d) => Dead(d)'
                             /\ Never(d) => Never(d)'
  BY <1>1, <1>2, <1>3, <1>5, AsideFacts DEF Dead, Never
<1>7. ack.conn = cmds[c].conn => Never(c)'
  BY <1>2, <1>3, <1>8, Kinds DEF IInv, RanKnown, Never
<1>9. Told'
  BY <1>1, <1>2, <1>3, <1>5 DEF IInv, Told, Ran, Aside
<1>10. Placed'
  <2>1. ASSUME NEW d \in Commands PROVE Known(d)' /\ Kept(d)'
    <3>1. Known(d) /\ Kept(d) /\ Ends
      BY DEF IInv, Placed
    <3>2. CASE d = c
      BY <3>1, <3>2, <1>1, <1>2, <1>3, <1>5, <1>6, AsideFacts, Kinds DEF Known, Kept, Aside, Ends
    <3>3. CASE d # c
      BY <3>1, <3>3, <1>1, <1>2, <1>5, AsideFacts DEF Known, Kept, Aside
    <3> QED BY <3>2, <3>3
  <2>2. Addressed(ack)'
    BY <1>1, <1>3, <1>6, AsideFacts, Kinds DEF Addressed, IInv, Placed, Ends, Aside
  <2>3. \A m \in wire : Addressed(m)'
    BY <1>1, AsideFacts, Kinds DEF IInv, Placed, Addressed, Aside
  <2>5. \A m \in wire' : Addressed(m)'
    BY <2>2, <2>3, <1>2
  <2> QED BY <1>1, <1>2, <2>1, <2>5 DEF IInv, Placed, Ends, Aside
<1>11. RanKnown'
  BY <1>1, <1>2, <1>3, <1>5, AsideFacts DEF IInv, RanKnown
<1>12. Refused'
  <2>1. /\ \A d \in Commands \ {c} : NoteTrue(d)'
        /\ \A m \in wire : AckTrue(m)'
    BY <1>1, <1>5, <1>8, AsideFacts, RefusedStep
  <2>2. NoteTrue(c)'
    BY <1>1, <1>5, <1>7, AsideFacts DEF NoteTrue
  <2>3. \A m \in wire' : AckTrue(m)'
    BY <2>1, <1>1, <1>2, <1>3, <1>7, AsideFacts DEF AckTrue
  <2> QED BY <1>1, <1>8, <2>1, <2>2, <2>3 DEF IInv, Refused, Aside
<1>13. Reported'
  <2>1. \A m \in wire' : m.kind = "report" => m \in wire
    BY <1>2, <1>3
  <2> QED BY <2>1, <1>1, <1>2, <1>8, AsideFacts DEF IInv, Reported, ReportTrue, Aside
<1>14. Last' /\ Single' /\ Lone'
  BY <1>1, <1>2, <1>8, AsideFacts DEF IInv, Last, Single, Lone
<1> QED
  BY <1>9, <1>10, <1>11, <1>12, <1>13, <1>14 DEF IInv

\* Deliver, known: the same acknowledgement again.
LEMMA ReackInductive ==
  ASSUME TInv, IInv, NEW c \in Commands, Deliver(c), receiver.results[c] # NoAck, Reack(c)
  PROVE  IInv'
<1>1. PICK ack : ack = receiver.results[c]
  OBVIOUS
<1>2. /\ Aside /\ UNCHANGED <<sent, receiver, disk, ran>> /\ wire' = wire \cup {ack}
  BY <1>1 DEF Deliver, Reack, Post, Aside, records, device
<1>3. /\ ack.kind = "ack" /\ ack.cmd = c /\ ack.conn \in 1 .. gen /\ Submitted(c) /\ Ran(ack.st)
      /\ AckTrue(ack)
  BY <1>1, Kinds DEF IInv, Placed, Known, Kept, Told, Refused, NoteTrue, AckTrue
<1>4. \A d \in Commands : (Dead(d)' <=> Dead(d)) /\ (Never(d)' <=> Never(d))
  BY <1>2, AsideFacts DEF Dead, Never
<1>5. Told'
  BY <1>2, <1>3 DEF IInv, Told, Ran, Aside
<1>6. Placed'
  <2>1. \A d \in Commands : Known(d)' /\ Kept(d)'
    BY <1>2, AsideFacts DEF IInv, Placed, Known, Kept, Aside
  <2>2. \A m \in wire' : Addressed(m)'
    BY <1>2, <1>3, AsideFacts, Kinds DEF IInv, Placed, Addressed, Aside
  <2> QED BY <1>2, <2>1, <2>2 DEF IInv, Placed, Ends, Aside
<1>7. RanKnown'
  BY <1>2, AsideFacts DEF IInv, RanKnown
<1>8. Refused'
  <2>1. \A d \in Commands : /\ cmds'[d].status = "rejected" => Never(d)'
                            /\ stored'[d].status = "rejected" => Never(d)'
                            /\ NoteTrue(d)'
    BY <1>2, <1>4, AsideFacts, RefusedStep DEF IInv, Refused, Aside
  <2>2. \A m \in wire : AckTrue(m)'
    BY <1>4, AsideFacts, <1>2, RefusedStep
  <2>3. AckTrue(ack)'
    BY <1>2, <1>3, <1>4, AsideFacts DEF AckTrue
  <2> QED BY <1>2, <2>1, <2>2, <2>3 DEF Refused, AckTrue
<1>9. Reported'
  <2>1. \A m \in wire' : m.kind = "report" => m \in wire
    BY <1>2, <1>3
  <2> QED BY <2>1, <1>2, <1>4, AsideFacts DEF IInv, Reported, ReportTrue, Aside
<1>10. Last' /\ Single' /\ Lone'
  BY <1>2, <1>4, AsideFacts DEF IInv, Last, Single, Lone
<1> QED
  BY <1>5, <1>6, <1>7, <1>8, <1>9, <1>10 DEF IInv

\* Tell: a report of the present state has the right that Last gives it.
LEMMA TellInductive ==
  ASSUME TInv, IInv, Tell
  PROVE  IInv'
<1>1. PICK r : r = [kind |-> "report", conn |-> receiver.conn, seq |-> receiver.seq + 1,
                    st |-> receiver.st]
  OBVIOUS
<1>2. /\ Aside /\ sent' = sent /\ ran' = ran /\ wire' = wire \cup {r}
      /\ receiver'.conn = receiver.conn /\ receiver'.st = receiver.st
      /\ receiver'.results = receiver.results
      /\ disk' \in {disk, receiver.st} /\ receiver.conn # 0
  BY <1>1 DEF Tell, Post, Aside, records, TInv, TypeOK
<1>3. r.kind = "report" /\ r.conn = receiver.conn /\ r.st = receiver.st
  BY <1>1
<1>4. \A d \in Commands : (Dead(d)' <=> Dead(d)) /\ (Never(d)' <=> Never(d))
  BY <1>2, AsideFacts DEF Dead, Never
<1>5. Told'
  BY <1>2, <1>3 DEF IInv, Told, Ran, Aside
<1>6. Placed'
  <2>1. \A d \in Commands : Known(d)' /\ Kept(d)'
    BY <1>2, AsideFacts DEF IInv, Placed, Known, Kept, Aside
  <2>2. Addressed(r)'
    BY <1>2, <1>3, Kinds DEF IInv, Placed, Ends, Addressed, Aside
  <2>3. \A m \in wire : Addressed(m)'
    BY <1>2, AsideFacts, Kinds DEF IInv, Placed, Addressed, Aside
  <2> QED BY <1>2, <2>1, <2>2, <2>3 DEF IInv, Placed, Ends, Aside
<1>7. RanKnown'
  BY <1>2, AsideFacts DEF IInv, RanKnown
<1>8. Refused'
  <2>1. \A d \in Commands : /\ cmds'[d].status = "rejected" => Never(d)'
                            /\ stored'[d].status = "rejected" => Never(d)'
                            /\ NoteTrue(d)'
    BY <1>2, <1>4, AsideFacts, RefusedStep DEF IInv, Refused, Aside
  <2>2. \A m \in wire : AckTrue(m)'
    BY <1>4, AsideFacts, <1>2, RefusedStep
  <2>3. AckTrue(r)'
    BY <1>3 DEF AckTrue
  <2> QED BY <1>2, <2>1, <2>2, <2>3 DEF Refused
<1>9. Reported'
  <2>1. \A m \in wire : m.kind = "report" =>
           ReportTrue(m)' /\ (m.conn = receiver'.conn => m.st.rev <= receiver'.st.rev)
    BY <1>2, <1>4, AsideFacts DEF IInv, Reported, ReportTrue, Aside
  <2>2. ASSUME NEW c \in Commands, Current(c), r.conn = player.conn, r.st.rev > cmds[c].rev,
               r.st.applied # c
        PROVE  Never(c)
    BY <2>2, <1>3, Kinds DEF IInv, Last, Current, Never, Dead
  <2>3. ReportTrue(r)'
    BY <2>2, <1>2, <1>4, AsideFacts DEF ReportTrue, Aside
  <2>4. r.st.rev <= receiver'.st.rev
    BY <1>2, <1>3, Kinds
  <2> QED BY <2>1, <2>3, <2>4, <1>2 DEF Reported
<1>10. Last' /\ Single' /\ Lone'
  BY <1>2, <1>4, AsideFacts DEF IInv, Last, Single, Lone
<1> QED
  BY <1>5, <1>6, <1>7, <1>8, <1>9, <1>10 DEF IInv

\* LocalAction: the revision passes.
LEMMA LocalActionInductive ==
  ASSUME TInv, IInv, LocalAction
  PROVE  IInv'
<1>2. /\ Aside /\ sent' = sent /\ UNCHANGED <<ran, disk, wire>>
      /\ receiver'.conn = receiver.conn /\ receiver'.results = receiver.results
      /\ receiver'.st.rev >= receiver.st.rev /\ receiver'.st.applied = receiver.st.applied
      /\ receiver'.st.rev \in Nat /\ receiver.st.rev \in Nat
  <2>1. PICK fetched \in BOOLEAN : receiver' = [receiver EXCEPT !.st = LocalRevision(@, fetched)]
    BY DEF LocalAction
  <2>2. receiver.st \in States /\ receiver.st.rev \in Nat
    BY DEF TInv, TypeOK, States
  <2>3. /\ LocalRevision(receiver.st, fetched).applied = receiver.st.applied
        /\ LocalRevision(receiver.st, fetched).rev \in {receiver.st.rev, receiver.st.rev + 1}
    BY <2>2 DEF LocalRevision, States
  <2>4. receiver'.st = LocalRevision(receiver.st, fetched)
        /\ receiver'.conn = receiver.conn /\ receiver'.results = receiver.results
    BY <2>1 DEF TInv, TypeOK
  <2>5. receiver'.st.rev >= receiver.st.rev /\ receiver'.st.rev \in Nat
    BY <2>2, <2>3, <2>4
  <2> QED BY <2>2, <2>3, <2>4, <2>5 DEF LocalAction, Aside, records
<1>4. \A d \in Commands : (Dead(d) => Dead(d)') /\ (Never(d) => Never(d)')
  BY <1>2, AsideFacts, Kinds DEF Dead, Never
<1>5. Told'
  BY <1>2 DEF IInv, Told, Ran, Aside
<1>6. Placed'
  <2>1. \A d \in Commands : Known(d)' /\ Kept(d)'
    BY <1>2, AsideFacts DEF IInv, Placed, Known, Kept, Aside
  <2>3. \A m \in wire : Addressed(m)'
    BY <1>2, AsideFacts, Kinds DEF IInv, Placed, Addressed, Aside
  <2> QED BY <1>2, <2>1, <2>3 DEF IInv, Placed, Ends, Aside
<1>7. RanKnown'
  BY <1>2, AsideFacts DEF IInv, RanKnown
<1>8. Refused'
  <2>1. \A d \in Commands : /\ cmds'[d].status = "rejected" => Never(d)'
                            /\ stored'[d].status = "rejected" => Never(d)'
                            /\ NoteTrue(d)'
    BY <1>2, <1>4, AsideFacts, RefusedStep DEF IInv, Refused, Aside
  <2>2. \A m \in wire : AckTrue(m)'
    BY <1>4, AsideFacts, <1>2, RefusedStep
  <2> QED BY <1>2, <2>1, <2>2 DEF Refused
<1>9. Reported'
  BY <1>2, <1>4, AsideFacts, Kinds DEF IInv, Reported, ReportTrue, Aside
<1>10. Last' /\ Single' /\ Lone'
  BY <1>2, <1>4, AsideFacts DEF IInv, Last, Single, Lone
<1> QED
  BY <1>5, <1>6, <1>7, <1>8, <1>9, <1>10 DEF IInv

\* Without a connection nothing that was submitted can run.
LEMMA Disconnected ==
  ASSUME TInv, IInv, Aside, receiver'.conn = 0, wire' = wire
  PROVE  /\ \A c \in Commands : Submitted(c) => Dead(c)'
         /\ \A c \in Commands : (Submitted(c)' <=> Submitted(c)) /\ (Current(c)' <=> Current(c))
         /\ \A c \in Commands : Submitted(c) => cmds'[c].conn # receiver'.conn
         /\ Lone' /\ Single'
<1>1. \A c \in Commands : Submitted(c) => cmds[c].conn # 0
  BY Kinds DEF IInv, Placed, Known
<1> QED
  BY <1>1, AsideFacts DEF Dead, Lone, IInv, Single, Aside

\* DropConnection: results are kept, nothing runs.
LEMMA DropConnectionInductive ==
  ASSUME TInv, IInv, DropConnection
  PROVE  IInv'
<1>2. /\ Aside /\ sent' = sent /\ UNCHANGED <<ran, disk, wire>>
      /\ receiver'.conn = 0 /\ receiver'.results = receiver.results
      /\ receiver'.st = receiver.st
  BY DEF DropConnection, Aside, records, TInv, TypeOK
<1>4. \A d \in Commands : Never(d) /\ Submitted(d) => Never(d)'
  BY <1>2, Disconnected DEF Never
<1>5. Told'
  BY <1>2 DEF IInv, Told, Ran, Aside
<1>6. Placed'
  <2>1. \A d \in Commands : Known(d)' /\ Kept(d)'
    BY <1>2, AsideFacts DEF IInv, Placed, Known, Kept, Aside
  <2>3. \A m \in wire : Addressed(m)'
    BY <1>2, AsideFacts, Kinds DEF IInv, Placed, Addressed, Aside
  <2>4. Ends'
    BY <1>2, Kinds DEF IInv, Placed, Ends, Aside
  <2> QED BY <1>2, <2>1, <2>3, <2>4 DEF Placed
<1>7. RanKnown'
  <2>1. \A c \in Commands : ran[c] > 0 => Submitted(c)
    BY DEF IInv, Placed, Known
  <2> QED BY <1>2, <2>1, Disconnected DEF IInv, RanKnown
<1>8. Refused'
  <2>0. \A d \in Commands : /\ cmds[d].status = "rejected" => Submitted(d)
                            /\ stored[d].status = "rejected" => Submitted(d)
    BY DEF Submitted, IInv, Placed, Known
  <2>1. \A d \in Commands : /\ cmds'[d].status = "rejected" => Never(d)'
                            /\ stored'[d].status = "rejected" => Never(d)'
                            /\ NoteTrue(d)'
    BY <1>2, <1>4, <2>0, AsideFacts, RefusedStep DEF IInv, Refused, Aside
  <2>2. \A m \in wire : AckTrue(m)'
    BY <1>4, AsideFacts, <1>2, RefusedStep
  <2> QED BY <1>2, <2>1, <2>2 DEF Refused
<1>9. Reported'
  <2>1. \A c \in Commands : Current(c) => Submitted(c)
    BY DEF Current, Submitted, Unresolved, Open
  <2>2. \A m \in wire : m.conn # receiver'.conn
    BY <1>2, Kinds DEF IInv, Placed, Addressed
  <2> QED BY <1>2, <1>4, <2>1, <2>2, AsideFacts DEF IInv, Reported, ReportTrue, Aside
<1>10. Last'
  <2>1. \A c \in Commands : Current(c) => Submitted(c)
    BY DEF Current, Submitted, Unresolved, Open
  <2> QED BY <1>2, <2>1, Disconnected DEF Last
<1> QED
  BY <1>2, <1>5, <1>6, <1>7, <1>8, <1>9, <1>10, Disconnected DEF IInv

\* Crash: results are lost, and perhaps a command has run that was not dead.
LEMMA CrashInductive ==
  ASSUME TInv, IInv, Crash
  PROVE  IInv'
<1>2. /\ Aside /\ sent' = {} /\ UNCHANGED <<disk, wire>>
      /\ receiver'.conn = 0 /\ \A c \in Commands : receiver'.results[c] = NoAck
      /\ receiver'.st = disk
  BY DEF Crash, Aside, records
<1>3. \A c \in Commands : \/ ran'[c] = ran[c]
                          \/ ran[c] = 0 /\ ran'[c] = 1 /\ ~Dead(c) /\ Submitted(c)
  <2>1. ASSUME NEW c \in sent, receiver.results[c] = NoAck, Valid(c)
        PROVE  c \in Commands /\ Submitted(c) /\ ~Dead(c) /\ ran[c] = 0
    <3>0. c \in Commands
      BY Kinds
    <3>1. cmds[c].conn = receiver.conn /\ cmds[c].rev = receiver.st.rev
      BY <2>1 DEF Valid
    <3>2. Submitted(c)
      BY <3>0 DEF IInv, Placed, Known
    <3>3. ran[c] = 0
      BY <2>1, <3>0, <3>1, Kinds DEF IInv, RanKnown
    <3> QED BY <2>1, <3>0, <3>1, <3>2, <3>3, Kinds DEF Dead
  <2> QED BY <2>1 DEF Crash, TInv, TypeOK
<1>4. \A d \in Commands : Never(d) /\ Submitted(d) => Never(d)'
  BY <1>2, <1>3, Disconnected DEF Never
<1>5. Told'
  <2>1. \A c \in Commands : ran[c] > 0 => ran'[c] > 0
    BY <1>3, Kinds
  <2>2. \A t : Ran(t) => (t.applied \in Commands => ran'[t.applied] > 0)
    BY <2>1 DEF Ran
  <2>3. /\ Ran(player.st)' /\ Ran(saved.st)' /\ Ran(receiver.st)' /\ Ran(disk)'
    BY <1>2, <2>2 DEF IInv, Told, Ran, Aside
  <2>4. \A m \in wire' : Ran(m.st)'
    BY <1>2, <2>2 DEF IInv, Told, Ran
  <2>5. \A d \in Commands : /\ cmds'[d].status = "applied" => ran'[d] > 0
                            /\ stored'[d].status = "applied" => ran'[d] > 0
    BY <1>2, <2>1 DEF IInv, Told, Aside
  <2> QED BY <1>2, <2>3, <2>4, <2>5 DEF Told
<1>6. Placed'
  <2>1. \A d \in Commands : Known(d)' /\ Kept(d)'
    BY <1>2, <1>3, AsideFacts DEF IInv, Placed, Known, Kept, Aside
  <2>3. \A m \in wire : Addressed(m)'
    BY <1>2, AsideFacts, Kinds DEF IInv, Placed, Addressed, Aside
  <2>4. Ends'
    BY <1>2, Kinds DEF IInv, Placed, Ends, Aside
  <2> QED BY <1>2, <2>1, <2>3, <2>4 DEF Placed
<1>7. RanKnown'
  <2>1. \A c \in Commands : ran'[c] > 0 => Submitted(c)
    BY <1>3 DEF IInv, Placed, Known
  <2> QED BY <1>2, <1>3, <2>1, Disconnected DEF IInv, RanKnown
<1>8. Refused'
  <2>0. \A d \in Commands : /\ cmds[d].status = "rejected" => Submitted(d)
                            /\ stored[d].status = "rejected" => Submitted(d)
    BY DEF Submitted, IInv, Placed, Known
  <2>1. \A d \in Commands : /\ cmds'[d].status = "rejected" => Never(d)'
                            /\ stored'[d].status = "rejected" => Never(d)'
    BY <1>2, <1>4, <2>0, AsideFacts DEF IInv, Refused, Aside
  <2>2. \A m \in wire : AckTrue(m)'
    BY <1>4, AsideFacts, <1>2, RefusedStep
  <2>3. \A d \in Commands : NoteTrue(d)'
    BY <1>2 DEF NoteTrue
  <2> QED BY <1>2, <2>1, <2>2, <2>3 DEF Refused
<1>9. Reported'
  <2>1. \A c \in Commands : Current(c) => Submitted(c)
    BY DEF Current, Submitted, Unresolved, Open
  <2>2. \A m \in wire : m.conn # receiver'.conn
    BY <1>2, Kinds DEF IInv, Placed, Addressed
  <2> QED BY <1>2, <1>4, <2>1, <2>2, AsideFacts DEF IInv, Reported, ReportTrue, Aside
<1>10. Last'
  <2>1. \A c \in Commands : Current(c) => Submitted(c)
    BY DEF Current, Submitted, Unresolved, Open
  <2> QED BY <1>2, <2>1, Disconnected DEF Last
<1> QED
  BY <1>2, <1>5, <1>6, <1>7, <1>8, <1>9, <1>10, Disconnected DEF IInv

-----------------------------------------------------------------------------
(* The theorems                                                             *)

\* Every step keeps the invariant.
LEMMA InvStep ==
  ASSUME TInv, IInv, [Next]_vars
  PROVE  IInv'
<1>1. CASE \/ Observe \/ Register \/ ConnectUnheard \/ OpenStream \/ CloseStream
           \/ \E c \in Commands : Snapshot(c) \/ Expire(c)
           \/ \E m \in wire : Lose(m)
           \/ UNCHANGED vars
  BY <1>1, QuietStep, QuietInductive DEF IInv, Placed
<1>2. CASE Connect
  BY <1>2, ConnectInductive
<1>3. CASE \E c \in Commands : Submit(c)
  BY <1>3, SubmitInductive
<1>4. CASE \E c \in Commands : Deliver(c)
  BY <1>4, ApplyInductive, RefuseInductive, ReackInductive DEF Deliver
<1>5. CASE \E m \in wire : Report(m) \/ Ack(m)
  BY <1>5, ReportInductive, AckInductive
<1>6. CASE Tell
  BY <1>6, TellInductive
<1>7. CASE LocalAction
  BY <1>7, LocalActionInductive
<1>8. CASE DropConnection
  BY <1>8, DropConnectionInductive
<1>9. CASE Crash
  BY <1>9, CrashInductive
<1>10. CASE Restart
  BY <1>10, RestartInductive
<1> QED
  BY <1>1, <1>2, <1>3, <1>4, <1>5, <1>6, <1>7, <1>8, <1>9, <1>10 DEF Next

\* It holds at first.
LEMMA InitInv ==
  ASSUME Init
  PROVE  TInv /\ IInv
<1>1. /\ Boot \in States /\ Boot.applied = "none" /\ Boot.applied = NoCmd
  BY DEF Boot, States, NoCmd
<1>2. Absent \in CmdRecord
  BY <1>1, Strings DEF Absent, CmdRecord
<1>3. TInv
  BY <1>1, <1>2, BoundsNat, Strings DEF Init, TInv, TypeOK
<1>4. NoCmd \notin Commands
  BY RemoteConstantsOK
<1>5. /\ \A c \in Commands : /\ cmds[c].status = "none" /\ cmds[c].conn = 0
                             /\ stored[c].status = "none" /\ ran[c] = 0
                             /\ receiver.results[c] = NoAck /\ c \notin sent
      /\ player.st = Boot /\ saved.st = Boot /\ receiver.st = Boot /\ disk = Boot
      /\ wire = {} /\ gen = 0 /\ receiver.conn = 0 /\ player.conn = 0 /\ player.attached = FALSE
  BY DEF Init, Absent
<1>6. Ran(Boot)
  BY <1>1, <1>4 DEF Ran
<1>7. Told /\ RanKnown
  BY <1>5, <1>6 DEF Told, RanKnown
<1>8. Placed
  BY <1>5 DEF Placed, Known, Kept, Ends, Submitted
<1>9. Refused /\ Reported
  BY <1>5 DEF Refused, Reported, NoteTrue
<1>10. Last /\ Single /\ Lone
  BY <1>5 DEF Last, Single, Lone, Current, Submitted, Unresolved, Open
<1> QED
  BY <1>3, <1>7, <1>8, <1>9, <1>10 DEF IInv

\* It always holds.
LEMMA Invariant == Spec => [](TInv /\ IInv)
<1>1. TInv /\ IInv /\ [Next]_vars => (TInv /\ IInv)'
  BY TypeStep, InvStep
<1> QED
  BY InitInv, <1>1, PTL DEF Spec

\* The variables keep their types: TypeOK.
THEOREM Typed == Spec => []TypeOK
<1>1. TInv => TypeOK
  BY DEF TInv
<1> QED
  BY Invariant, <1>1, PTL

\* HonestResult: a command shown as applied ran, one shown as rejected never does, whatever
\* remote_events.go and remote_commands.go are told late, twice, out of order or not at all.
THEOREM ResultsHonest == Spec => []HonestResult
<1>1. TInv /\ IInv => HonestResult
  BY DEF IInv, Told, Refused, Never, HonestResult, Status
<1> QED
  BY Invariant, <1>1, PTL

\* OneByOne: a command runs at most once, and no two can be under way to the receiver at once.
THEOREM RunsOneByOne == Spec => []OneByOne
<1>1. ASSUME TInv, IInv PROVE OneByOne
  <2>1. ASSUME NEW c \in Commands, MayRun(c) PROVE Submitted(c) /\ ~Dead(c)
    <3>1. Submitted(c)
      BY <1>1, <2>1 DEF MayRun, Status, Submitted, Open, IInv, Placed, Known
    <3> QED BY <1>1, <2>1, <3>1, Kinds DEF MayRun, Valid, Dead
  <2> QED BY <1>1, <2>1 DEF IInv, RanKnown, Lone, OneByOne
<1> QED
  BY Invariant, <1>1, PTL

-----------------------------------------------------------------------------
(* What a command is aimed at                                               *)

\* A state of the present connection is the receiver's own, or an earlier one.
Behind(st) ==
  \/ st.rev < receiver.st.rev
  \/ /\ st.rev = receiver.st.rev /\ st.drift <= receiver.st.drift
     /\ st.drift = receiver.st.drift => st.now = receiver.st.now
\* The receiver's state is the one it was, or a later one.
Onward == \/ receiver'.st.rev > receiver.st.rev
          \/ receiver'.st.rev = receiver.st.rev /\ receiver'.st.drift > receiver.st.drift
          \/ receiver'.st = receiver.st
Heard ==
  /\ player.conn # 0 /\ player.conn = receiver.conn => Behind(player.st)
  /\ \A m \in wire : m.conn = receiver.conn => Behind(m.st)
  /\ \A c \in Commands :
       receiver.results[c] # NoAck /\ receiver.results[c].conn = receiver.conn
         => Behind(receiver.results[c].st)
\* What a controller saw is what the player still is while its ETag matches.
Seen ==
  /\ view.etag <= player.revision
  /\ view.etag = player.revision => /\ view.st.rev = player.st.rev
                                    /\ view.st.now = player.st.now
                                    /\ view.st.drift = player.st.drift
\* A command carries the state it was aimed at, and its revision.
Aimed ==
  \A c \in Commands :
    /\ Submitted(c) => cmds[c].aim.rev = cmds[c].rev
    /\ Submitted(c) /\ cmds[c].conn = receiver.conn => Behind(cmds[c].aim)
\* Until the server restarts: afterwards ETags repeat.
AInv == restarts = 0 => Heard /\ Seen /\ Aimed

\* What a connected receiver does to its state, its results and the wire.
LEMMA DeviceStep ==
  ASSUME TInv, IInv, [Next]_vars, receiver'.conn # 0
  PROVE  \/ Connect
         \/ /\ receiver'.conn = receiver.conn
            /\ Onward
            /\ \A m \in wire' : \/ m \in wire
                                \/ m.st = receiver'.st
                                \/ \E c \in Commands : /\ receiver.results[c] # NoAck
                                                       /\ m = receiver.results[c]
            /\ \A c \in Commands : \/ receiver'.results[c] = receiver.results[c]
                                   \/ receiver'.results[c].st = receiver'.st
<1> DEFINE Goal == /\ receiver'.conn = receiver.conn
                   /\ Onward
                   /\ \A m \in wire' : \/ m \in wire
                                       \/ m.st = receiver'.st
                                       \/ \E c \in Commands : /\ receiver.results[c] # NoAck
                                                              /\ m = receiver.results[c]
                   /\ \A c \in Commands : \/ receiver'.results[c] = receiver.results[c]
                                          \/ receiver'.results[c].st = receiver'.st
<1>1. CASE receiver' = receiver /\ wire' \subseteq wire
  BY <1>1 DEF Onward
<1>2. CASE \/ Observe \/ Register \/ ConnectUnheard \/ OpenStream \/ CloseStream
           \/ \E c \in Commands : Snapshot(c) \/ Expire(c)
           \/ \E m \in wire : Lose(m)
           \/ UNCHANGED vars
  BY <1>1, <1>2, QuietStep DEF IInv, Placed, Quiet, Calm
<1>3. CASE \E c \in Commands : Submit(c)
  BY <1>1, <1>3 DEF Submit, device
<1>4. CASE \E m \in wire : Report(m) \/ Ack(m)
  BY <1>1, <1>4 DEF Report, Ack, Taken, device
<1>5. CASE Restart
  BY <1>1, <1>5 DEF Restart, device
<1>6. ASSUME NEW c \in Commands, Deliver(c) PROVE Goal
  <2>1. CASE Reack(c) /\ receiver.results[c] # NoAck
    <3>1. receiver' = receiver /\ wire' = wire \cup {receiver.results[c]}
      BY <2>1 DEF Reack, Post, device
    <3> QED BY <2>1, <3>1 DEF Onward
  <2>2. CASE Apply(c)
    <3>1. PICK st : st = After(c)
      OBVIOUS
    <3>2. PICK ack : ack = AckOf(c, "applied", st)
      OBVIOUS
    <3>3. receiver' = [receiver EXCEPT !.st = st, !.aseq = cmds[c].seq, !.results[c] = ack]
          /\ wire' = wire \cup {ack}
      BY <2>2, <3>1, <3>2 DEF Apply, Post
    <3>4. ack.st = st /\ st.rev = receiver.st.rev + 1
      BY <3>1, <3>2 DEF AckOf, After
    <3>5. /\ receiver'.conn = receiver.conn /\ receiver'.st = st
          /\ receiver'.results = [receiver.results EXCEPT ![c] = ack]
      BY <3>3 DEF TInv, TypeOK
    <3>6. \A d \in Commands : receiver'.results[d] = receiver.results[d]
                              \/ receiver'.results[d] = ack
      BY <3>5 DEF TInv, TypeOK
    <3> QED BY <3>3, <3>4, <3>5, <3>6, Kinds DEF Onward
  <2>3. CASE Refuse(c)
    <3>2. PICK ack : ack = AckOf(c, "rejected", receiver.st)
      OBVIOUS
    <3>3. receiver' = [receiver EXCEPT !.results[c] = ack] /\ wire' = wire \cup {ack}
      BY <2>3, <3>2 DEF Refuse, Post
    <3>4. ack.st = receiver.st
      BY <3>2 DEF AckOf
    <3>5. /\ receiver'.conn = receiver.conn /\ receiver'.st = receiver.st
          /\ receiver'.results = [receiver.results EXCEPT ![c] = ack]
      BY <3>3 DEF TInv, TypeOK
    <3>6. \A d \in Commands : receiver'.results[d] = receiver.results[d]
                              \/ receiver'.results[d] = ack
      BY <3>5 DEF TInv, TypeOK
    <3> QED BY <3>3, <3>4, <3>5, <3>6 DEF Onward
  <2> QED BY <1>6, <2>1, <2>2, <2>3 DEF Deliver
<1>7. CASE Tell
  <2>1. PICK r : r = [kind |-> "report", conn |-> receiver.conn, seq |-> receiver.seq + 1,
                      st |-> receiver.st]
    OBVIOUS
  <2>2. wire' = wire \cup {r} /\ r.st = receiver.st
    BY <1>7, <2>1 DEF Tell, Post
  <2>3. /\ receiver'.conn = receiver.conn /\ receiver'.st = receiver.st
        /\ receiver'.results = receiver.results
    BY <1>7 DEF Tell, TInv, TypeOK
  <2> QED BY <2>2, <2>3 DEF Onward
<1>8. CASE LocalAction
  <2>1. PICK fetched \in BOOLEAN : receiver' = [receiver EXCEPT !.st = LocalRevision(@, fetched)]
    BY <1>8 DEF LocalAction
  <2>2. /\ receiver'.conn = receiver.conn /\ receiver'.st = LocalRevision(receiver.st, fetched)
        /\ receiver'.results = receiver.results /\ wire' = wire
    BY <1>8, <2>1 DEF LocalAction, TInv, TypeOK
  <2> QED BY <2>2, LocalRevisionTyped DEF Onward, TInv
<1>9. CASE DropConnection \/ Crash
  BY <1>9 DEF DropConnection, Crash, TInv, TypeOK
<1> QED
  BY <1>2, <1>3, <1>4, <1>5, <1>6, <1>7, <1>8, <1>9 DEF Next

\* What happens to the player, whose revision counts its states.
LEMMA PlayerStep ==
  ASSUME TInv, IInv, [Next]_vars, restarts' = restarts
  PROVE  /\ \/ player'.conn = player.conn \/ player'.conn = gen + 1
         /\ \/ player'.st = player.st
            \/ \E m \in wire : /\ m.conn = player.conn /\ player'.conn = player.conn
                               /\ player'.st = m.st
         /\ player'.revision >= player.revision
         /\ player'.revision = player.revision => /\ player'.st.rev = player.st.rev
                                                  /\ player'.st.now = player.st.now
                                                  /\ player'.st.drift = player.st.drift
         /\ \/ view' = view
            \/ view'.etag = player.revision /\ view'.st = player.st /\ player' = player
<1>0. player.revision \in Nat /\ restarts \in Nat
  BY BoundsNat DEF TInv, TypeOK
<1>1. CASE player' = player /\ view' = view
  BY <1>0, <1>1
<1>2. CASE Observe
  BY <1>0, <1>2 DEF Observe
<1>3. CASE Register
  BY <1>1, <1>3 DEF Register
<1>4. CASE Connect \/ ConnectUnheard
  <2>1. /\ player'.conn = gen + 1 /\ player'.st = player.st /\ view' = view
        /\ player'.revision = player.revision + 1
    BY <1>4 DEF Connect, ConnectUnheard, NewGeneration, TInv, TypeOK
  <2> QED BY <1>0, <2>1
<1>5. CASE OpenStream \/ CloseStream \/ \E c \in Commands : Submit(c) \/ Snapshot(c) \/ Expire(c)
  <2>1. /\ player'.conn = player.conn /\ player'.st = player.st /\ view' = view
        /\ player'.revision = player.revision
    BY <1>5 DEF OpenStream, CloseStream, Submit, Snapshot, Expire, Detached, TInv, TypeOK
  <2> QED BY <1>0, <2>1
<1>6. ASSUME NEW m \in wire, Report(m)
      PROVE  /\ m.conn = player.conn /\ player'.conn = player.conn /\ player'.st = m.st
             /\ view' = view
             /\ player'.revision = IF m.st.rev # player.st.rev THEN player.revision + 1
                                                               ELSE player.revision
             /\ m.st.rev = player.st.rev => /\ m.st.now = player.st.now
                                            /\ m.st.drift = player.st.drift
  BY <1>6 DEF Report, TInv, TypeOK
<1>7. ASSUME NEW m \in wire, Ack(m)
      PROVE  /\ m.conn = player.conn /\ player'.conn = player.conn /\ player'.st = m.st
             /\ view' = view /\ player'.revision = player.revision + 1
  BY <1>7 DEF Ack, TInv, TypeOK
<1>8. CASE \E m \in wire : Report(m)
  BY <1>0, <1>6, <1>8
<1>9. CASE \E m \in wire : Ack(m)
  BY <1>0, <1>7, <1>9
<1>10. CASE \/ \E m \in wire : Lose(m)
            \/ \E c \in Commands : Deliver(c)
            \/ Tell \/ LocalAction \/ DropConnection \/ Crash
            \/ UNCHANGED vars
  BY <1>1, <1>10 DEF Lose, Deliver, Tell, LocalAction, DropConnection, Crash, vars
<1>11. CASE Restart
  <2>1. restarts' = restarts + 1
    BY <1>11 DEF Restart
  <2> QED BY <1>0, <2>1
<1> QED
  BY <1>2, <1>3, <1>4, <1>5, <1>8, <1>9, <1>10, <1>11 DEF Next

\* A command keeps what it was submitted with.
LEMMA CommandStep ==
  ASSUME TInv, IInv, [Next]_vars, NEW c \in Commands, Submitted(c)'
  PROVE  \/ Submit(c)
         \/ /\ Submitted(c) /\ cmds'[c].conn = cmds[c].conn
            /\ cmds'[c].rev = cmds[c].rev /\ cmds'[c].aim = cmds[c].aim
<1>0. cmds[c] \in CmdRecord /\ (Submitted(c) <=> stored[c].status # "none")
  BY DEF TInv, TypeOK, IInv, Placed, Known
<1>1. CASE cmds'[c] = cmds[c]
  BY <1>1 DEF Submitted
<1>2. ASSUME NEW s, cmds'[c] = [cmds[c] EXCEPT !.status = s],
             Submitted(c)
      PROVE  /\ Submitted(c) /\ cmds'[c].conn = cmds[c].conn
             /\ cmds'[c].rev = cmds[c].rev /\ cmds'[c].aim = cmds[c].aim
  BY <1>0, <1>2 DEF CmdRecord
<1>3. CASE Connect \/ ConnectUnheard
  <2>1. PICK fs \in SUBSET Fenced : cmds' = Fence(fs)
    BY <1>3 DEF Connect, ConnectUnheard
  <2>2. CASE c \in fs
    BY <2>1, <2>2, <1>2 DEF Fence, Unknown, Fenced, Submitted, Unresolved, Open
  <2>3. CASE c \notin fs
    BY <2>1, <2>3, <1>1 DEF Fence
  <2> QED BY <2>2, <2>3
<1>4. ASSUME NEW d \in Commands, Submit(d), d # c PROVE cmds'[c] = cmds[c]
  BY <1>4 DEF Submit, TInv, TypeOK
<1>5. ASSUME NEW d \in Commands, Snapshot(d) \/ Expire(d)
      PROVE  \/ cmds'[c] = cmds[c]
             \/ Submitted(c) /\ \E s : cmds'[c] = [cmds[c] EXCEPT !.status = s]
  <2>1. PICK s : cmds' = WithStatus(d, s)
    BY <1>5 DEF Snapshot, Expire
  <2>2. Submitted(d)
    BY <1>5 DEF Snapshot, Expire, Expirable, Submitted, Open
  <2>3. cmds \in [Commands -> CmdRecord]
    BY DEF TInv, TypeOK
  <2> QED BY <2>1, <2>2, <2>3 DEF WithStatus
<1>6. ASSUME NEW m \in wire, Report(m)
      PROVE  \/ cmds'[c] = cmds[c]
             \/ Submitted(c) /\ \E s : cmds'[c] = [cmds[c] EXCEPT !.status = s]
  <2>1. c \in Judged => Submitted(c)
    BY DEF Judged, Submitted, Unresolved, Open
  <2> QED BY <1>6, <2>1 DEF Report
<1>7. ASSUME NEW m \in wire, Ack(m)
      PROVE  \/ cmds'[c] = cmds[c]
             \/ /\ Submitted(c)
                /\ cmds'[c] = [cmds[c] EXCEPT !.status = m.status, !.ack = m]
  BY <1>7 DEF Ack, Submitted, TInv, TypeOK
<1>8. CASE \E m \in wire : Ack(m)
  BY <1>0, <1>1, <1>7, <1>8 DEF CmdRecord
<1>9. CASE Restart
  <2>1. cmds'[c] = [cmds[c] EXCEPT !.ack = stored[c].ack,
                !.status = IF stored[c].status \in Open THEN "outcome_unknown"
                                                        ELSE stored[c].status]
    BY <1>9 DEF Restart
  <2>2. Submitted(c)
    BY <2>1, <1>0 DEF Submitted, CmdRecord, Open
  <2> QED BY <2>1, <2>2, <1>0 DEF CmdRecord
<1>10. CASE \/ Observe \/ Register \/ OpenStream \/ CloseStream
            \/ \E m \in wire : Lose(m)
            \/ \E d \in Commands : Deliver(d)
            \/ Tell \/ LocalAction \/ DropConnection \/ Crash
            \/ UNCHANGED vars
  BY <1>1, <1>10 DEF Observe, Register, OpenStream, CloseStream, Lose, Deliver, Tell, LocalAction,
                     DropConnection, Crash, vars
<1>11. CASE \E d \in Commands : Submit(d)
  BY <1>1, <1>4, <1>11
<1>12. CASE \/ \E d \in Commands : Snapshot(d) \/ Expire(d)
            \/ \E m \in wire : Report(m)
  BY <1>1, <1>2, <1>5, <1>6, <1>12
<1> QED
  BY <1>3, <1>8, <1>9, <1>10, <1>11, <1>12 DEF Next

\* Every step keeps the chain from the ETag to the receiver's revision.
LEMMA AimStep ==
  ASSUME TInv, IInv, AInv, [Next]_vars, TInv', IInv'
  PROVE  AInv'
<1> SUFFICES ASSUME restarts' = 0 PROVE Heard' /\ Seen' /\ Aimed'
  BY DEF AInv
<1>1. restarts = 0 /\ Heard /\ Seen /\ Aimed
  <2>1. restarts \in Nat
    BY BoundsNat DEF TInv, TypeOK
  <2>2. restarts' = restarts \/ restarts' = restarts + 1
    BY DEF Next, vars, Observe, Register, Connect, ConnectUnheard, OpenStream, CloseStream, Submit,
           Snapshot, Expire, Deliver, Report, Ack, Lose, Tell, LocalAction, DropConnection, Crash,
           Restart, Fault, bounds
  <2> QED BY <2>1, <2>2 DEF AInv
<1>2. Seen'
  <2>1. player.revision \in Nat /\ player'.revision \in Nat /\ view.etag \in Nat
    BY DEF TInv, TypeOK
  <2> QED BY <1>1, <2>1, PlayerStep DEF Seen
<1>3. CASE Connect
  <2>1. /\ receiver'.conn = gen + 1 /\ wire' = wire /\ receiver'.results = receiver.results
        /\ player'.conn = gen + 1 /\ player'.st = player.st
        /\ receiver'.st.rev > player.st.rev
    <3> DEFINE rev == Larger(receiver.st.rev, player.st.rev) + 1
    <3>1. rev > player.st.rev
      BY DEF Larger, TInv, TypeOK, States
    <3> HIDE DEF rev
    <3>2. receiver' = [receiver EXCEPT !.conn = gen + 1, !.seq = 0, !.aseq = 0,
                                       !.st = [@ EXCEPT !.rev = rev, !.drift = 0]]
      BY <1>3 DEF Connect, TInv, TypeOK, rev
    <3>3. /\ receiver'.conn = gen + 1 /\ receiver'.st = [receiver.st EXCEPT !.rev = rev, !.drift = 0]
          /\ receiver'.results = receiver.results
      BY <3>2 DEF TInv, TypeOK
    <3>4. receiver'.st.rev = rev
      BY <3>3 DEF TInv, TypeOK, States
    <3> QED BY <1>3, <3>1, <3>3, <3>4 DEF Connect, NewGeneration, TInv, TypeOK
  <2>2. Heard'
    BY <2>1, Kinds DEF Heard, Behind, IInv, Placed, Addressed, Kept
  <2>3. ~\E c \in Commands : Submit(c)
    BY <1>3, Kinds DEF Submit, Connect, NewGeneration
  <2>4. Aimed'
    <3>1. \A c \in Commands : Submitted(c)' => cmds'[c].conn # receiver'.conn
      BY <2>1, <2>3, CommandStep, Kinds DEF IInv, Placed, Known
    <3> QED BY <3>1, <2>3, <1>1, CommandStep DEF Aimed
  <2> QED BY <1>2, <2>2, <2>4
<1>4. CASE receiver'.conn = 0
  <2>1. Heard'
    <3>1. \A m \in wire' : m.conn # 0
      BY Kinds DEF IInv, Placed, Addressed
    <3>2. \A c \in Commands : receiver'.results[c] # NoAck => receiver'.results[c].conn # 0
      BY DEF IInv, Placed, Kept
    <3> QED BY <1>4, <3>1, <3>2 DEF Heard
  <2>2. \A c \in Commands : Submitted(c)' => cmds'[c].conn # receiver'.conn
    BY <1>4 DEF IInv, Placed, Known
  <2>3. ASSUME NEW c \in Commands, Submitted(c)' PROVE cmds'[c].aim.rev = cmds'[c].rev
    <3>1. CASE Submit(c)
      BY <1>1, <3>1 DEF Submit, Matches, Seen, TInv, TypeOK
    <3>2. CASE /\ Submitted(c) /\ cmds'[c].rev = cmds[c].rev /\ cmds'[c].aim = cmds[c].aim
      BY <1>1, <3>2 DEF Aimed
    <3> QED BY <2>3, <3>1, <3>2, CommandStep
  <2> QED BY <1>2, <2>1, <2>2, <2>3 DEF Aimed
<1>5. CASE receiver'.conn # 0 /\ ~Connect
  <2>1. /\ receiver'.conn = receiver.conn
        /\ Onward
        /\ \A m \in wire' : \/ m \in wire
                            \/ m.st = receiver'.st
                            \/ \E c \in Commands : /\ receiver.results[c] # NoAck
                                                   /\ m = receiver.results[c]
        /\ \A c \in Commands : \/ receiver'.results[c] = receiver.results[c]
                               \/ receiver'.results[c].st = receiver'.st
    BY <1>5, DeviceStep
  <2>2. ASSUME NEW st \in States, Behind(st) PROVE Behind(st)'
    <3>1. /\ st.rev \in Nat /\ receiver.st.rev \in Nat /\ receiver'.st.rev \in Nat
          /\ st.drift \in Nat /\ receiver.st.drift \in Nat /\ receiver'.st.drift \in Nat
      BY DEF TInv, TypeOK, States
    <3>2. CASE receiver'.st = receiver.st
      BY <2>2, <3>2 DEF Behind
    <3>3. CASE receiver'.st.rev > receiver.st.rev
      BY <2>2, <3>1, <3>3 DEF Behind
    <3>4. CASE receiver'.st.rev = receiver.st.rev /\ receiver'.st.drift > receiver.st.drift
      BY <2>2, <3>1, <3>4 DEF Behind
    <3> QED BY <2>1, <3>2, <3>3, <3>4 DEF Onward
  <2>3. ASSUME NEW st, st = receiver'.st PROVE Behind(st)'
    <3>1. receiver'.st.drift \in Nat
      BY DEF TInv, TypeOK, States
    <3> QED BY <2>3, <3>1 DEF Behind
  <2>4. player'.conn # 0 /\ player'.conn = receiver'.conn => Behind(player.st)'
    <3>1. PICK st : st = player'.st
      OBVIOUS
    <3>2. st \in States
      BY <3>1 DEF TInv, TypeOK
    <3>3. ASSUME player'.conn # 0, player'.conn = receiver'.conn PROVE Behind(st)
      <4>1. player'.conn = player.conn
        BY <3>3, <2>1, PlayerStep, <1>1, Kinds DEF IInv, Placed, Ends
      <4> QED BY <3>1, <3>3, <4>1, <2>1, PlayerStep, <1>1 DEF Heard
    <3> QED BY <3>1, <3>2, <3>3, <2>2 DEF Behind
  <2>5. ASSUME NEW m \in wire', m.conn = receiver'.conn PROVE Behind(m.st)'
    <3>1. m.st \in States
      BY DEF TInv, TypeOK, Acks, Reports
    <3>2. CASE m.st = receiver'.st
      BY <3>2, <2>3 DEF Behind
    <3>3. CASE m \in wire
      BY <3>1, <3>3, <2>1, <2>2, <2>5, <1>1 DEF Heard
    <3>4. CASE \E c \in Commands : receiver.results[c] # NoAck /\ m = receiver.results[c]
      BY <3>1, <3>4, <2>1, <2>2, <2>5, <1>1 DEF Heard
    <3> QED BY <2>1, <3>2, <3>3, <3>4
  <2>6. ASSUME NEW c \in Commands, receiver'.results[c] # NoAck,
               receiver'.results[c].conn = receiver'.conn
        PROVE  Behind(receiver.results[c].st)'
    <3>1. PICK st : st = receiver'.results[c].st
      OBVIOUS
    <3>2. st \in States
      BY <2>6, <3>1 DEF TInv, TypeOK, Acks
    <3>3. CASE receiver'.results[c] = receiver.results[c]
      BY <3>1, <3>2, <3>3, <2>1, <2>2, <2>6, <1>1 DEF Heard, Behind
    <3>4. CASE receiver'.results[c].st = receiver'.st
      BY <3>4, <2>3 DEF Behind
    <3> QED BY <2>1, <3>3, <3>4
  <2>7. Heard'
    BY <2>4, <2>5, <2>6 DEF Heard
  <2>8. ASSUME NEW c \in Commands, Submitted(c)'
        PROVE  /\ cmds'[c].aim.rev = cmds'[c].rev
               /\ cmds'[c].conn = receiver'.conn => Behind(cmds[c].aim)'
    <3>1. CASE Submit(c)
      <4>1. /\ cmds'[c].aim = view.st /\ cmds'[c].rev = player.st.rev /\ cmds'[c].conn = player.conn
            /\ receiver' = receiver /\ view.etag = player.revision
        BY <3>1 DEF Submit, Matches, device, TInv, TypeOK
      <4> QED BY <4>1, <1>1, <1>5 DEF Seen, Heard, Behind
    <3>2. CASE /\ Submitted(c) /\ cmds'[c].rev = cmds[c].rev /\ cmds'[c].aim = cmds[c].aim
               /\ cmds'[c].conn = cmds[c].conn
      <4>1. PICK st : st = cmds[c].aim
        OBVIOUS
      <4>2. st \in States
        BY <4>1 DEF TInv, TypeOK, CmdRecord
      <4> QED BY <4>1, <4>2, <3>2, <2>1, <2>2, <1>1 DEF Aimed, Behind
    <3> QED BY <2>8, <3>1, <3>2, CommandStep
  <2>9. Aimed'
    BY <2>8 DEF Aimed
  <2> QED BY <1>2, <2>7, <2>9
<1> QED
  BY <1>3, <1>4, <1>5

\* It holds at first.
LEMMA InitAimed ==
  ASSUME Init
  PROVE  AInv
<1>1. Heard
  BY DEF Init, Heard
<1>2. Seen
  BY DEF Init, Seen
<1>3. Aimed
  BY DEF Init, Aimed, Submitted, Absent
<1> QED
  BY <1>1, <1>2, <1>3 DEF AInv

\* It always holds.
LEMMA AimedInvariant == Spec => []AInv
<1>1. TInv /\ IInv /\ AInv /\ [Next]_vars /\ (TInv /\ IInv)' => AInv'
  BY AimStep
<1> QED
  BY InitAimed, Invariant, <1>1, PTL DEF Spec

\* A command runs on a step that delivers it, or that crashes over it.
LEMMA RunStep ==
  ASSUME TInv, IInv, [Next]_vars, NEW c \in Commands, ran'[c] > ran[c]
  PROVE  Submitted(c) /\ Valid(c)
<1>1. ran[c] \in Nat
  BY Kinds
<1>2. CASE UNCHANGED ran
  BY <1>1, <1>2
<1>3. ASSUME NEW d \in Commands, Deliver(d) PROVE Submitted(c) /\ Valid(c)
  <2>1. Valid(d) /\ ran' = [ran EXCEPT ![d] = @ + 1]
    BY <1>1, <1>3 DEF Deliver, Reack, Refuse, Apply, device
  <2>2. c = d
    BY <1>1, <2>1 DEF TInv, TypeOK
  <2> QED BY <1>3, <2>1, <2>2 DEF Deliver, IInv, Placed, Known
<1>4. CASE Crash
  <2>1. PICK d \in sent : Valid(d) /\ ran' = [ran EXCEPT ![d] = @ + 1]
    BY <1>1, <1>4 DEF Crash
  <2>2. c = d
    BY <1>1, <2>1 DEF TInv, TypeOK
  <2> QED BY <2>1, <2>2 DEF IInv, Placed, Known
<1> QED
  BY <1>2, <1>3, <1>4 DEF Next, vars, Observe, Register, Connect, ConnectUnheard, OpenStream, CloseStream,
       Submit, Snapshot, Expire, Report, Ack, Lose, Tell, LocalAction, DropConnection, Restart, device

\* AimedAt: until the server restarts, a command runs on the state its controller saw, but
\* for what the receiver has turned to by itself under the same revision.
THEOREM CommandsAimed == Spec => AimedAt
<1> DEFINE A == \A c \in Commands : restarts' = 0 /\ ran'[c] > ran[c] =>
                  LET aim == cmds[c].aim IN
                  /\ aim.rev = receiver.st.rev /\ aim.drift <= receiver.st.drift
                  /\ aim.drift = receiver.st.drift => aim.now = receiver.st.now
<1>1. ASSUME TInv, IInv, AInv, [Next]_vars PROVE A
  <2> SUFFICES ASSUME NEW c \in Commands, restarts' = 0, ran'[c] > ran[c]
               PROVE  LET aim == cmds[c].aim IN
                      /\ aim.rev = receiver.st.rev /\ aim.drift <= receiver.st.drift
                      /\ aim.drift = receiver.st.drift => aim.now = receiver.st.now
    OBVIOUS
  <2>1. Submitted(c) /\ Valid(c)
    BY <1>1, RunStep
  <2>2. restarts = 0
    <3>1. restarts \in Nat
      BY <1>1, BoundsNat DEF TInv, TypeOK
    <3>2. restarts' = restarts \/ restarts' = restarts + 1
      BY <1>1 DEF Next, vars, Observe, Register, Connect, ConnectUnheard, OpenStream, CloseStream, Submit,
             Snapshot, Expire, Deliver, Report, Ack, Lose, Tell, LocalAction, DropConnection, Crash,
             Restart, Fault, bounds
    <3> QED BY <3>1, <3>2
  <2> QED BY <1>1, <2>1, <2>2, Kinds DEF AInv, Aimed, Behind, Valid
<1>2. TInv /\ IInv /\ AInv /\ [Next]_vars => [A]_vars
  BY <1>1
<1> QED
  BY Invariant, AimedInvariant, <1>2, PTL DEF Spec, AimedAt
=============================================================================

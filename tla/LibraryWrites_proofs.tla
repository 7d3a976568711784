------------------------ MODULE LibraryWrites_proofs ------------------------
(* Proofs about LibraryWrites: the types of what a submission goes through, *)
(* that a scrobble is submitted once and answered truly, and that one Mood *)
(* runs, whose record tells what the library has and is final: for every   *)
(* number of requests, keys, occurrences, faults and restarts.             *)
EXTENDS LibraryWrites, FiniteSetTheorems, TLAPS

On(r)   == request[r].body.on
What(r) == request[r].body.what
Path    == [op |-> "scrobble", on |-> 0]

\* The submission of w for o has been confirmed; it has been recorded but not confirmed.
Accepted(o, w) == plays[o] = 1 /\ scrobbled[o] = [hash |-> w, status |-> "accepted"]
Recorded(o, w) == scrobbled[o] = [hash |-> w, status |-> "outcome_unknown"]

Marks == [Paths \X Keys -> [hash : (Nat \X Nat) \cup {<<>>},
                            answer : Answers \cup {"none"}, expires : Nat]]
RequestRecord ==
  [pc : Inside \cup {"idle", "waiting", "done", "dropped"},
   device : Devices \cup {"none"}, key : Keys \cup {"none"},
   body : Bodies \cup {NoBody}, begun : Nat, answer : Answers \cup {"none"}, at : Nat]

SendTypes ==
  /\ now \in Nat
  /\ mark \in Marks
  /\ scrobbled \in [Occurrences ->
       [hash : Nat, status : {"none", "outcome_unknown", "accepted"}]]
  /\ mu \in Requests \cup {0}
  /\ request \in [Requests -> RequestRecord]
  /\ plays \in [Occurrences -> Nat]

\* Only the holder of the mutex is inside, and what is inside or waits was asked for.
Exclusive == \A r \in Requests : request[r].pc \in Inside => mu = r
Asked == \A r \in Requests :
  /\ request[r].pc \in Inside \cup {"waiting"} =>
       request[r].body \in Bodies /\ request[r].key \in Keys
  /\ request[r].pc = "idle" => request[r].body = NoBody

\* A submission has a record, which comes first; the record tells no more than what happened.
Recording == \A o \in Occurrences :
  /\ plays[o] <= 1
  /\ plays[o] = 1 => Seen(o)
  /\ scrobbled[o].status = "accepted" => plays[o] = 1
Sending == \A r \in Requests : Scrobbles(r) =>
  /\ request[r].pc = "sending" => plays[On(r)] = 0 /\ Recorded(On(r), What(r))
  /\ request[r].pc = "sent"    => plays[On(r)] = 1 /\ Recorded(On(r), What(r))

\* An answer, given or about to be, and the record of a key tell the same.
Answering == \A r \in Requests :
  Scrobbles(r) /\ request[r].pc \in {"settling", "done"} /\ request[r].answer = "ok" =>
    On(r) \in Occurrences /\ Accepted(On(r), What(r))
Marking == \A k \in Keys : LET m == mark[<<Path, k>>] IN
  m.answer = "ok" => /\ m.hash \in Nat \X Nat /\ m.hash[1] \in Occurrences
                     /\ Accepted(m.hash[1], m.hash[2])

SendInv == /\ SendTypes /\ Exclusive /\ Asked
           /\ Recording /\ Sending /\ Answering /\ Marking

USE DEF Inside, Answers, On, What, Path

----------------------------------------------------------------------------
\* A request that was asked for names a record by its path and its key; the records of
\* scrobbles are those under Path.
LEMMA IdShape ==
  ASSUME SendInv, NEW r \in Requests, request[r].pc \in Inside \cup {"waiting"}
  PROVE  /\ Id(r) \in Paths \X Keys
         /\ request[r].body.op = "scrobble" =>
              /\ Id(r) = <<Path, request[r].key>> /\ On(r) \in Occurrences
              /\ On(r) \in Nat /\ What(r) \in Nat
         /\ request[r].body.op # "scrobble" => \A k \in Keys : Id(r) # <<Path, k>>
         /\ Hash(r) \in Nat \X Nat /\ request[r].key \in Keys
<1>1. request[r].body \in Bodies /\ request[r].key \in Keys
  BY DEF SendInv, Asked
<1> QED
  BY <1>1, WritesAssumption DEF Id, Hash, Paths, Ops

\* What a step leaves alone when it touches neither requests, nor records of keys, nor
\* scrobbles.
LEMMA Untouched ==
  ASSUME SendInv, UNCHANGED <<mark, scrobbled, mu, request, plays>>, now' \in Nat
  PROVE  SendInv'
BY DEF SendInv, SendTypes, Exclusive, Asked, Recording, Sending, Answering, Marking,
       Accepted, Recorded, Seen, Scrobbles

\* The request r moves to new and nothing else does: what the invariant says of its progress
\* and its answer must hold of new.
Moves(r, new) ==
  /\ request' = [request EXCEPT ![r] = new] /\ new \in RequestRecord
  /\ new.body = request[r].body /\ new.key = request[r].key
  /\ new.pc \in Inside \cup {"done"}
  /\ new.pc \in Inside => mu' = r
  /\ new.pc \in {"sending", "sent"} => ~Scrobbles(r)
  /\ Scrobbles(r) /\ new.pc \in {"settling", "done"} /\ new.answer = "ok" => Accepted(On(r), What(r))

LEMMA OneRequest ==
  ASSUME SendInv, NEW r \in Requests, NEW STATE new, Moves(r, new),
         UNCHANGED <<now, scrobbled, plays>>, mark' \in Marks, Marking',
         mu' \in Requests \cup {0}, mu \in {0, r},
         request[r].pc \in Inside \cup {"waiting"}
  PROVE  SendInv'
<1>1. SendTypes'
  BY DEF SendInv, SendTypes, Moves, RequestRecord
<1>2. Exclusive' /\ Asked'
  BY WritesAssumption DEF SendInv, SendTypes, Exclusive, Asked, Moves, RequestRecord
<1>3. Recording' /\ Marking'
  BY DEF SendInv, Recording, Seen
<1>4. Sending'
  BY DEF SendInv, SendTypes, Sending, Recorded, Scrobbles, Moves
<1>5. Answering'
  <2>1. Scrobbles(r) => On(r) \in Occurrences
    BY IdShape DEF Scrobbles
  <2> QED
    BY <2>1 DEF SendInv, SendTypes, Answering, Accepted, Scrobbles, Moves
<1> QED
  BY <1>1, <1>2, <1>3, <1>4, <1>5 DEF SendInv

\* The records of keys stay as they are, or the record of r is replaced by one that tells
\* the truth about a scrobble.
LEMMA MarkKept ==
  ASSUME SendInv, UNCHANGED <<mark, scrobbled, plays>>
  PROVE  mark' \in Marks /\ Marking'
BY DEF SendInv, SendTypes, Marking, Accepted

LEMMA MarkWritten ==
  ASSUME SendInv, UNCHANGED <<scrobbled, plays>>, NEW r \in Requests,
         request[r].pc \in Inside \cup {"waiting"},
         NEW STATE answer, answer \in Answers \cup {"none"},
         mark' = [mark EXCEPT ![Id(r)] =
                    [hash |-> Hash(r), answer |-> answer, expires |-> now + Keep]],
         Scrobbles(r) /\ answer = "ok" => Accepted(On(r), What(r))
  PROVE  mark' \in Marks /\ Marking'
<1>1. mark' \in Marks
  <2>1. now + Keep \in Nat /\ Hash(r) \in Nat \X Nat
    BY IdShape, WritesAssumption DEF SendInv, SendTypes
  <2> QED
    BY <2>1 DEF SendInv, SendTypes, Marks
<1>2. Marking'
  <2> SUFFICES ASSUME NEW k \in Keys, mark'[<<Path, k>>].answer = "ok"
               PROVE  LET m == mark'[<<Path, k>>] IN
                        /\ m.hash \in Nat \X Nat /\ m.hash[1] \in Occurrences
                        /\ Accepted(m.hash[1], m.hash[2])
    BY DEF Marking, Accepted
  <2>1. CASE Id(r) = <<Path, k>>
    <3>1. request[r].body.op = "scrobble"
      BY <2>1, IdShape
    <3>2. mark'[<<Path, k>>] = [hash |-> Hash(r), answer |-> answer, expires |-> now + Keep]
      BY <2>1, IdShape DEF SendInv, SendTypes, Marks
    <3> QED
      BY <3>1, <3>2, IdShape DEF Hash, Scrobbles
  <2>2. CASE Id(r) # <<Path, k>>
    <3>1. mark'[<<Path, k>>] = mark[<<Path, k>>]
      BY <2>2 DEF SendInv, SendTypes, Marks
    <3> QED
      BY <3>1 DEF SendInv, Marking
  <2> QED
    BY <2>1, <2>2
<1> QED
  BY <1>1, <1>2

----------------------------------------------------------------------------
(* The steps.                                                              *)
LEMMA ArriveKeeps ==
  ASSUME SendInv, NEW r \in Requests, NEW d \in Devices, NEW k \in Keys, NEW b \in Bodies,
         Arrive(r, d, k, b)
  PROVE  SendInv'
<1> DEFINE new == [NoRequest EXCEPT !.pc = "waiting", !.device = d, !.key = k, !.body = b]
<1>1. /\ request' = [request EXCEPT ![r] = new] /\ new \in RequestRecord
      /\ new.pc = "waiting" /\ new.body = b /\ new.key = k
      /\ UNCHANGED <<now, mark, scrobbled, mu, plays>>
  BY DEF Arrive, NoRequest, RequestRecord, durable, upstream
<1>2. SendTypes' /\ Exclusive' /\ Asked'
  BY <1>1 DEF SendInv, SendTypes, Exclusive, Asked
<1>3. Recording' /\ Marking' /\ Sending' /\ Answering'
  BY <1>1 DEF SendInv, SendTypes, Recording, Marking, Sending, Answering, Accepted, Recorded,
              Seen, Scrobbles
<1> QED
  BY <1>2, <1>3 DEF SendInv

LEMMA BeginKeeps ==
  ASSUME SendInv, NEW r \in Requests, Begin(r)
  PROVE  SendInv'
<1> USE DEF Begin
<1> DEFINE done(a) == [request[r] EXCEPT !.pc = "done", !.answer = a, !.at = now]
           called  == [request[r] EXCEPT !.pc = "calling", !.begun = now]
<1>1. /\ mu = 0 /\ request[r].pc = "waiting" /\ request[r] \in RequestRecord /\ now \in Nat
      /\ UNCHANGED <<now, scrobbled, plays>>
  BY DEF upstream, SendInv, SendTypes
<1>2. ASSUME NEW STATE a, a \in Answers \cup {"none"}, Reply(r, a), UNCHANGED mark,
             Scrobbles(r) /\ a = "ok" => Accepted(On(r), What(r))
      PROVE  SendInv'
  <2>1. Moves(r, done(a)) /\ mu' = 0
    <3>1. done(a) \in RequestRecord
      BY <1>1, <1>2 DEF RequestRecord
    <3>2. request' = [request EXCEPT ![r] = done(a)] /\ mu' = 0
      BY <1>2 DEF Reply, SendInv, SendTypes
    <3>3. done(a).body = request[r].body /\ done(a).key = request[r].key
          /\ done(a).pc = "done" /\ done(a).answer = a
      BY <1>1 DEF RequestRecord
    <3> QED
      BY <1>2, <3>1, <3>2, <3>3 DEF Moves
  <2> QED
    BY <1>1, <1>2, <2>1, MarkKept, OneRequest
<1>3. CASE Known(mark[Id(r)]) /\ UNCHANGED mark
           /\ Reply(r, IF mark[Id(r)].hash = Hash(r) THEN mark[Id(r)].answer ELSE "refused")
  <2> DEFINE m == mark[Id(r)]
             a == IF m.hash = Hash(r) THEN m.answer ELSE "refused"
  <2>1. a \in Answers \cup {"none"}
    BY <1>1, IdShape DEF SendInv, SendTypes, Marks
  <2>2. Scrobbles(r) /\ a = "ok" => Accepted(On(r), What(r))
    <3> SUFFICES ASSUME Scrobbles(r), a = "ok" PROVE Accepted(On(r), What(r))
      OBVIOUS
    <3>1. Id(r) = <<Path, request[r].key>> /\ request[r].key \in Keys
      BY <1>1, IdShape DEF Scrobbles
    <3>2. m.answer = "ok" /\ m.hash = <<On(r), What(r)>>
      BY DEF Hash
    <3> QED
      BY <3>1, <3>2 DEF SendInv, Marking
  <2>3. Reply(r, a)
    BY <1>3
  <2> HIDE DEF a
  <2> QED
    BY <1>2, <1>3, <2>1, <2>2, <2>3
<1>4. CASE Reply(r, "full") /\ UNCHANGED mark
  BY <1>2, <1>4
<1>5. CASE /\ mark' = [mark EXCEPT ![Id(r)] = Pending(r)] /\ mu' = r
           /\ request' = [request EXCEPT ![r].pc = "calling", ![r].begun = now]
  <2>1. mark' \in Marks /\ Marking'
    BY <1>1, <1>5, MarkWritten DEF Pending
  <2>2. Moves(r, called)
    BY <1>1, <1>5 DEF Moves, RequestRecord, SendInv, SendTypes
  <2> QED
    BY <1>1, <1>5, <2>1, <2>2, OneRequest
<1> QED
  BY <1>3, <1>4, <1>5

\* A step that leaves the handler's result, with the mutex still held.
LEMMA SettlingKeeps ==
  ASSUME SendInv, NEW r \in Requests, NEW STATE a, a \in Answers, Settling(r, a),
         request[r].pc \in Inside, Scrobbles(r) /\ a = "ok" => Accepted(On(r), What(r)),
         UNCHANGED <<now, mark, scrobbled, mu, plays>>
  PROVE  SendInv'
<1> DEFINE new == [request[r] EXCEPT !.pc = "settling", !.answer = a]
<1>1. mu = r /\ mu' = r
  BY DEF SendInv, Exclusive
<1>2. Moves(r, new)
  BY <1>1 DEF Settling, Moves, RequestRecord, SendInv, SendTypes
<1> QED
  BY <1>1, <1>2, MarkKept, OneRequest

LEMMA SettleKeeps ==
  ASSUME SendInv, NEW r \in Requests, Settle(r)
  PROVE  SendInv'
<1> DEFINE done(a) == [request[r] EXCEPT !.pc = "done", !.answer = a, !.at = now]
<1>1. /\ mu = r /\ UNCHANGED <<now, scrobbled, plays>> /\ request[r].pc = "settling"
      /\ request[r] \in RequestRecord /\ now \in Nat
      /\ Scrobbles(r) /\ request[r].answer = "ok" => Accepted(On(r), What(r))
  BY DEF Settle, upstream, SendInv, SendTypes, Exclusive, Answering
<1>2. ASSUME NEW STATE a, a \in Answers \cup {"none"}, Reply(r, a), mark' \in Marks, Marking',
             Scrobbles(r) /\ a = "ok" => Accepted(On(r), What(r))
      PROVE  SendInv'
  <2>1. Moves(r, done(a)) /\ mu' = 0
    <3>1. done(a) \in RequestRecord
      BY <1>1, <1>2 DEF RequestRecord
    <3>2. request' = [request EXCEPT ![r] = done(a)] /\ mu' = 0
      BY <1>2 DEF Reply, SendInv, SendTypes
    <3>3. done(a).body = request[r].body /\ done(a).key = request[r].key
          /\ done(a).pc = "done" /\ done(a).answer = a
      BY <1>1 DEF RequestRecord
    <3> QED
      BY <1>2, <3>1, <3>2, <3>3 DEF Moves
  <2> QED
    BY <1>1, <1>2, <2>1, OneRequest
<1>3. CASE mark' = [mark EXCEPT ![Id(r)] = Result(r)] /\ Reply(r, request[r].answer)
  <2>1. request[r].answer \in Answers \cup {"none"}
    BY <1>1 DEF RequestRecord
  <2>2. mark' \in Marks /\ Marking'
    BY <1>1, <1>3, <2>1, MarkWritten DEF Result
  <2> QED
    BY <1>1, <1>2, <1>3, <2>1, <2>2
<1>4. CASE Reply(r, "unknown") /\ UNCHANGED mark
  BY <1>1, <1>2, <1>4, MarkKept
<1> QED
  BY <1>3, <1>4 DEF Settle

LEMMA ScrobbleKeeps ==
  ASSUME SendInv, NEW r \in Requests, Scrobble(r)
  PROVE  SendInv'
<1> USE DEF Scrobble
<1>1. /\ request[r].pc = "calling" /\ Scrobbles(r) /\ On(r) \in Occurrences
      /\ What(r) \in Nat /\ mu = r /\ UNCHANGED <<now, mark, mu, plays>>
  BY IdShape DEF Calling, Scrobbles, upstream, SendInv, Exclusive
<1>2. CASE Seen(On(r)) /\ Settling(r, Recalled(r)) /\ UNCHANGED scrobbled
  <2>1. Recalled(r) \in Answers
    BY DEF Recalled
  <2>2. Recalled(r) = "ok" => Accepted(On(r), What(r))
    BY <1>1 DEF Recalled, Accepted, SendInv, SendTypes, Recording
  <2> QED
    BY <1>1, <1>2, <2>1, <2>2, SettlingKeeps
<1>3. CASE Settling(r, "full") /\ UNCHANGED scrobbled
  BY <1>1, <1>3, SettlingKeeps
<1>4. CASE /\ ~Seen(On(r)) /\ Unsent(r)
           /\ scrobbled' = [scrobbled EXCEPT ![On(r)] =
                              [hash |-> What(r), status |-> "outcome_unknown"]]
  <2> DEFINE new == [request[r] EXCEPT !.pc = "sending"]
  <2>1. /\ request' = [request EXCEPT ![r] = new] /\ new \in RequestRecord
        /\ new.pc = "sending" /\ new.body = request[r].body /\ new.key = request[r].key
    BY <1>4 DEF Unsent, SendInv, SendTypes, RequestRecord
  <2>2. plays[On(r)] = 0 /\ \A w : ~Accepted(On(r), w)
    <3>1. plays[On(r)] \in Nat /\ plays[On(r)] <= 1 /\ plays[On(r)] # 1
      BY <1>1, <1>4 DEF SendInv, SendTypes, Recording
    <3> QED
      BY <3>1 DEF Accepted
  <2>3. SendTypes' /\ Exclusive' /\ Asked'
    BY <1>1, <1>4, <2>1 DEF SendInv, SendTypes, Exclusive, Asked
  <2>4. Recording'
    BY <1>1, <1>4, <2>2 DEF SendInv, SendTypes, Recording, Seen, NoPlay
  <2>5. \A q \in Requests \ {r} : request'[q] = request[q] /\ request[q].pc \notin Inside
    BY <1>1, <2>1 DEF SendInv, SendTypes, Exclusive
  <2>6. Sending'
    BY <1>1, <1>4, <2>1, <2>2, <2>5 DEF SendInv, SendTypes, Sending, Recorded, Scrobbles
  <2>7. \A o \in Occurrences : \A w : Accepted(o, w) => Accepted(o, w)'
    BY <1>1, <1>4, <2>2 DEF Accepted, SendInv, SendTypes
  <2>8. Answering'
    BY <2>1, <2>5, <2>7 DEF SendInv, SendTypes, Answering, Scrobbles
  <2>9. Marking'
    BY <1>1, <2>7 DEF SendInv, Marking
  <2> QED
    BY <2>3, <2>4, <2>6, <2>8, <2>9 DEF SendInv
<1> QED
  BY <1>2, <1>3, <1>4

\* The other operations, which are no scrobbles, only settle a result or go on to the call.
LEMMA OtherKeeps ==
  ASSUME SendInv, NEW r \in Requests, Write(r) \/ Mood(r) \/ Stop(r)
  PROVE  SendInv'
<1>1. /\ request[r].pc = "calling" /\ ~Scrobbles(r) /\ mu = r
      /\ UNCHANGED <<now, mark, scrobbled, mu, plays>>
  BY DEF Write, Mood, Stop, Calling, Scrobbles, durable, upstream, SendInv, Exclusive
<1>2. CASE Unsent(r)
  <2> DEFINE new == [request[r] EXCEPT !.pc = "sending"]
  <2>1. Moves(r, new)
    BY <1>1, <1>2 DEF Unsent, Moves, RequestRecord, SendInv, SendTypes
  <2> QED
    BY <1>1, <2>1, MarkKept, OneRequest
<1>3. ASSUME NEW STATE a, a \in Answers, Settling(r, a) PROVE SendInv'
  BY <1>1, <1>3, SettlingKeeps
<1> QED
  BY <1>2, <1>3 DEF Write, Mood, Stop

LEMMA SendKeeps ==
  ASSUME SendInv, NEW r \in Requests, Send(r)
  PROVE  SendInv'
<1>1. /\ request[r].pc = "sending" /\ mu = r /\ UNCHANGED <<now, mark, scrobbled, mu>>
      /\ Scrobbles(r) => On(r) \in Occurrences /\ plays[On(r)] = 0 /\ Recorded(On(r), What(r))
  BY IdShape DEF Send, durable, Scrobbles, SendInv, Exclusive, Sending
<1>2. CASE Settling(r, "unknown") /\ UNCHANGED upstream
  BY <1>1, <1>2, SettlingKeeps DEF upstream
<1>3. CASE request' = [request EXCEPT ![r].pc = "sent"] /\ ~Scrobbles(r) /\ UNCHANGED plays
  <2> DEFINE new == [request[r] EXCEPT !.pc = "sent"]
  <2>1. Moves(r, new)
    BY <1>1, <1>3 DEF Moves, RequestRecord, SendInv, SendTypes
  <2> QED
    BY <1>1, <1>3, <2>1, MarkKept, OneRequest
<1>4. CASE /\ request' = [request EXCEPT ![r].pc = "sent"] /\ Scrobbles(r)
           /\ plays' = [plays EXCEPT ![On(r)] = @ + 1]
  <2> DEFINE new == [request[r] EXCEPT !.pc = "sent"]
  <2>1. /\ request' = [request EXCEPT ![r] = new] /\ new \in RequestRecord
        /\ new.pc = "sent" /\ new.body = request[r].body /\ new.key = request[r].key
    BY <1>4 DEF SendInv, SendTypes, RequestRecord
  <2>2. SendTypes' /\ Exclusive' /\ Asked'
    BY <1>1, <1>4, <2>1 DEF SendInv, SendTypes, Exclusive, Asked
  <2>3. Recording'
    BY <1>1, <1>4 DEF SendInv, SendTypes, Recording, Seen, NoPlay, Recorded
  <2>4. \A q \in Requests \ {r} : request'[q] = request[q] /\ request[q].pc \notin Inside
    BY <1>1, <2>1 DEF SendInv, SendTypes, Exclusive
  <2>5. Sending'
    BY <1>1, <1>4, <2>1, <2>4 DEF SendInv, SendTypes, Sending, Recorded, Scrobbles
  <2>6. \A o \in Occurrences : \A w : Accepted(o, w) => Accepted(o, w)'
    BY <1>1, <1>4 DEF Accepted, SendInv, SendTypes
  <2>7. Answering'
    BY <2>1, <2>4, <2>6 DEF SendInv, SendTypes, Answering, Scrobbles
  <2>8. Marking'
    BY <1>1, <2>6 DEF SendInv, Marking
  <2> QED
    BY <2>2, <2>3, <2>5, <2>7, <2>8 DEF SendInv
<1> QED
  BY <1>2, <1>3, <1>4 DEF Send, Scrobbles

LEMMA ConfirmKeeps ==
  ASSUME SendInv, NEW r \in Requests, Confirm(r)
  PROVE  SendInv'
<1>1. /\ request[r].pc = "sent" /\ mu = r /\ UNCHANGED <<now, mark, mu, plays>>
      /\ Scrobbles(r) => On(r) \in Occurrences /\ plays[On(r)] = 1 /\ Recorded(On(r), What(r))
  BY IdShape DEF Confirm, upstream, Scrobbles, SendInv, Exclusive, Sending
<1>2. CASE Settling(r, "unknown") /\ UNCHANGED scrobbled
  BY <1>1, <1>2, SettlingKeeps
<1>3. CASE /\ Settling(r, "ok") \/ Settling(r, "refused")
           /\ ~Scrobbles(r) /\ UNCHANGED scrobbled
  BY <1>1, <1>3, SettlingKeeps
<1>4. CASE /\ Settling(r, "ok") /\ Scrobbles(r)
           /\ scrobbled' = [scrobbled EXCEPT ![On(r)].status = "accepted"]
  <2> DEFINE new == [request[r] EXCEPT !.pc = "settling", !.answer = "ok"]
  <2>1. /\ request' = [request EXCEPT ![r] = new] /\ new \in RequestRecord
        /\ new.pc = "settling" /\ new.body = request[r].body /\ new.key = request[r].key
    BY <1>4 DEF Settling, SendInv, SendTypes, RequestRecord
  <2>2. scrobbled' = [scrobbled EXCEPT ![On(r)] =
                        [hash |-> What(r), status |-> "accepted"]]
    <3>1. [scrobbled[On(r)] EXCEPT !.status = "accepted"] =
            [hash |-> What(r), status |-> "accepted"]
      BY <1>1, <1>4 DEF Recorded
    <3> QED
      BY <1>4, <3>1
  <2>3. SendTypes' /\ Exclusive' /\ Asked'
    BY <1>1, <1>4, <2>1 DEF SendInv, SendTypes, Exclusive, Asked
  <2>4. Recording'
    <3>1. On(r) \in Occurrences /\ plays[On(r)] = 1
      BY <1>1, <1>4
    <3>2. scrobbled'[On(r)].status = "accepted"
      BY <2>2, <3>1 DEF SendInv, SendTypes
    <3>3. \A o \in Occurrences \ {On(r)} : scrobbled'[o] = scrobbled[o]
      BY <2>2 DEF SendInv, SendTypes
    <3> QED
      BY <1>1, <3>1, <3>2, <3>3 DEF SendInv, Recording, Seen, NoPlay
  <2>5. \A q \in Requests \ {r} : request'[q] = request[q] /\ request[q].pc \notin Inside
    BY <1>1, <2>1 DEF SendInv, SendTypes, Exclusive
  <2>6. Sending'
    BY <2>1, <2>5 DEF SendInv, SendTypes, Sending, Scrobbles
  <2>7. /\ Accepted(On(r), What(r))'
        /\ \A o \in Occurrences : \A w : Accepted(o, w) => Accepted(o, w)'
    BY <1>1, <1>4, <2>1, <2>2 DEF Accepted, Recorded, SendInv, SendTypes
  <2>8. Answering'
    BY <1>1, <1>4, <2>1, <2>5, <2>7 DEF SendInv, SendTypes, Answering, Scrobbles
  <2>9. Marking'
    BY <1>1, <2>7 DEF SendInv, Marking
  <2> QED
    BY <2>3, <2>4, <2>6, <2>8, <2>9 DEF SendInv
<1> QED
  BY <1>2, <1>3, <1>4 DEF Confirm, Scrobbles

\* The browser's Mood: an answered request that has no body of its own.
LEMMA BrowseKeeps ==
  ASSUME SendInv, NEW r \in Requests, Browse(r)
  PROVE  SendInv'
<1> DEFINE new == [request[r] EXCEPT !.pc = "done", !.answer = "ok", !.at = now]
<1>1. /\ request' = [request EXCEPT ![r] = new] /\ new \in RequestRecord
      /\ request[r].pc = "idle" /\ new.pc = "done" /\ new.body = NoBody
      /\ UNCHANGED <<now, mark, scrobbled, mu, plays>>
  BY DEF Browse, durable, upstream, SendInv, SendTypes, Asked, RequestRecord
<1>2. SendTypes' /\ Exclusive' /\ Asked'
  BY <1>1 DEF SendInv, SendTypes, Exclusive, Asked
<1>3. Recording' /\ Marking' /\ Sending' /\ Answering'
  BY <1>1 DEF SendInv, SendTypes, Recording, Marking, Sending, Answering, Accepted, Recorded,
              Seen, Scrobbles, NoBody
<1> QED
  BY <1>2, <1>3 DEF SendInv

\* A restart drops what was in flight; the records and the library stay.
LEMMA RestartKeeps ==
  ASSUME SendInv, Restart
  PROVE  SendInv'
<1>1. UNCHANGED <<now, mark, scrobbled, plays>> /\ mu' = 0
  BY DEF Restart, upstream
<1>2. ASSUME NEW q \in Requests
      PROVE  /\ request'[q] \in RequestRecord /\ request'[q].body = request[q].body
             /\ request'[q].answer = request[q].answer
             /\ request'[q].pc \notin Inside \cup {"waiting"}
             /\ request'[q].pc \in {"idle", "done"} => request'[q].pc = request[q].pc
  BY DEF Restart, SendInv, SendTypes, RequestRecord
<1>3. SendTypes' /\ Exclusive' /\ Asked'
  <2>1. request' \in [Requests -> RequestRecord]
    BY <1>2 DEF Restart
  <2> QED
    BY <1>1, <1>2, <2>1 DEF SendInv, SendTypes, Exclusive, Asked
<1>4. Recording' /\ Marking' /\ Sending' /\ Answering'
  BY <1>1, <1>2 DEF SendInv, Recording, Marking, Sending, Answering, Accepted, Recorded,
                    Seen, Scrobbles
<1> QED
  BY <1>3, <1>4 DEF SendInv

----------------------------------------------------------------------------
LEMMA StartsRight == Init => SendInv
<1> SUFFICES ASSUME Init PROVE SendInv
  OBVIOUS
<1>1. \A r \in Requests : request[r] = NoRequest
  BY DEF Init
<1>2. SendTypes
  BY DEF Init, SendTypes, Marks, RequestRecord, NoMark, NoPlay, NoRequest
<1>3. Exclusive /\ Asked /\ Sending /\ Answering
  BY <1>1 DEF Exclusive, Asked, Sending, Answering, NoRequest
<1>4. Recording /\ Marking
  BY DEF Init, Recording, Marking, NoMark, NoPlay, Paths, Ops
<1> QED
  BY <1>2, <1>3, <1>4 DEF SendInv

LEMMA StepKeeps == SendInv /\ [Next]_vars => SendInv'
<1> SUFFICES ASSUME SendInv, [Next]_vars PROVE SendInv'
  OBVIOUS
<1>1. CASE UNCHANGED vars
  BY <1>1, Untouched DEF vars, durable, upstream, SendInv, SendTypes
<1>2. ASSUME NEW r \in Requests, NEW d \in Devices, NEW k \in Keys, NEW b \in Bodies,
             Arrive(r, d, k, b)
      PROVE  SendInv'
  BY <1>2, ArriveKeeps
<1>3. ASSUME NEW r \in Requests, Browse(r) PROVE SendInv'
  BY <1>3, BrowseKeeps
<1>4. ASSUME NEW r \in Requests, Handle(r) PROVE SendInv'
  BY <1>4, BeginKeeps, ScrobbleKeeps, OtherKeeps, SendKeeps, ConfirmKeeps, SettleKeeps
     DEF Handle
<1>5. ASSUME NEW j \in Requests, MoodRun(j) PROVE SendInv'
  <2>1. UNCHANGED <<now, mark, scrobbled, mu, request, plays>>
    BY <1>5 DEF MoodRun, StartPlaylist, AddTrack, Tell, Finish, Fail, Close, Library,
                durable, upstream
  <2> QED
    BY <2>1, Untouched DEF SendInv, SendTypes
<1>6. ASSUME NEW d \in Devices, Revoke(d) PROVE SendInv'
  BY <1>6, Untouched DEF Revoke, upstream, SendInv, SendTypes
<1>7. CASE Restart
  BY <1>7, RestartKeeps
<1>8. CASE Advance
  BY <1>8, Untouched DEF Advance, durable, upstream, SendInv, SendTypes
<1> QED
  BY <1>1, <1>2, <1>3, <1>4, <1>5, <1>6, <1>7, <1>8 DEF Next

\* SendInv is an invariant of the specification.
THEOREM SendingInvariant == Spec => []SendInv
BY StartsRight, StepKeeps, PTL DEF Spec

\* An occurrence is submitted upstream at most once: whatever keys its retries carry, whatever
\* call or save failed, across restarts and after the records of the keys have expired.
THEOREM OccurrenceSentOnce == Spec => []ScrobbledOnce
<1>1. SendInv => ScrobbledOnce
  BY DEF SendInv, Recording, ScrobbledOnce
<1> QED
  BY <1>1, SendingInvariant, PTL

\* A scrobble answered with accepted has reached the library, for the track asked for.
THEOREM AcceptanceTrue == Spec => []AcceptedTruly
<1>1. SendInv => AcceptedTruly
  BY DEF SendInv, Answering, Accepted, AcceptedTruly, Answered
<1> QED
  BY <1>1, SendingInvariant, PTL

----------------------------------------------------------------------------
(* Mood.                                                                   *)
Runs == [pc : {"none", "starting", "adding", "telling", "finishing", "failing", "closing",
               "ended"},
         kind : {"none", "native", "browser"}, cancelled : BOOLEAN,
         count : 0 .. Size, saved : 0 .. Size]
Jobs == [state : {"none", "running", "completed", "failed"},
         device : Devices \cup {"none"}, told : 0 .. Size]

\* How far a run j with record c has come: the library has what it counts, the record tells of
\* no more, and a final record has no run to change it.
Progress(j, c) ==
  /\ c.told <= j.count /\ j.count <= j.saved
  /\ j.pc = "starting" => j.count = 0
  /\ j.pc = "adding" => j.saved = j.count /\ j.count < Size
  /\ j.pc = "telling" => j.saved = j.count /\ c.told < j.count
  /\ j.pc = "finishing" => j.count = Size
  /\ c.state \in {"completed", "failed"} => j.pc \in {"closing", "ended"}
  /\ c.state = "completed" => j.saved = Size
  /\ j.kind = "native" => c.state # "none"
  /\ c.state # "none" => j.pc # "none"

\* A request that has not been carried out has neither run nor record.
Unborn == \A r \in Requests : request[r].pc \in {"idle", "waiting", "calling"} =>
            run[r] = NoRun /\ record[r] = NoJob

MoodInv == /\ run \in [Requests -> Runs] /\ record \in [Requests -> Jobs]
           /\ \A j \in Requests : Progress(run[j], record[j])
           /\ Unborn

\* A step of one run keeps the invariant when the run and its record do.
LEMMA OneRun ==
  ASSUME MoodInv, NEW j \in Requests, NEW STATE new, new \in Runs, NEW STATE told, told \in Jobs,
         run' = [run EXCEPT ![j] = new], record' = [record EXCEPT ![j] = told],
         Progress(new, told), request'[j].pc \notin {"idle", "waiting", "calling"},
         \A i \in Requests \ {j} : request'[i].pc = request[i].pc
  PROVE  MoodInv'
BY DEF MoodInv, Unborn, Progress

LEMMA MoodRunKeeps ==
  ASSUME MoodInv, NEW j \in Requests, MoodRun(j)
  PROVE  MoodInv'
<1>1. /\ run[j] \in Runs /\ record[j] \in Jobs /\ Progress(run[j], record[j])
      /\ run \in [Requests -> Runs] /\ record \in [Requests -> Jobs]
      /\ run[j].count \in Nat /\ run[j].saved \in Nat /\ record[j].told \in Nat
      /\ run[j].saved <= Size /\ Size \in Nat /\ Size >= 1
  BY WritesAssumption DEF MoodInv, Runs, Jobs
<1>2. request' = request /\ run[j].pc # "none"
  BY DEF MoodRun, StartPlaylist, AddTrack, Tell, Finish, Fail, Close, Library
<1>3. request[j].pc \notin {"idle", "waiting", "calling"}
  BY <1>2 DEF MoodInv, Unborn, NoRun
<1>4. ASSUME NEW STATE new, new \in Runs, NEW STATE told, told \in Jobs,
             run' = [run EXCEPT ![j] = new], record' = [record EXCEPT ![j] = told],
             Progress(new, told)
      PROVE  MoodInv'
  BY <1>2, <1>3, <1>4, OneRun
<1>5. ASSUME NEW STATE new, new \in Runs, run' = [run EXCEPT ![j] = new], UNCHANGED record,
             Progress(new, record[j])
      PROVE  MoodInv'
  BY <1>1, <1>4, <1>5
<1> DEFINE to(pc) == [run[j] EXCEPT !.pc = pc]
<1>6. CASE StartPlaylist(j)
  <2>1. /\ run[j].pc = "starting" /\ record[j].told = 0 /\ run[j].count = 0
        /\ record[j].state \notin {"completed", "failed"} /\ UNCHANGED record
    BY <1>1, <1>6 DEF StartPlaylist, Progress, Runs, Jobs
  <2>2. CASE run' = [run EXCEPT ![j].pc = "telling", ![j].count = 1, ![j].saved = 1]
    <3> DEFINE new == [run[j] EXCEPT !.pc = "telling", !.count = 1, !.saved = 1]
    <3>1. /\ new.pc = "telling" /\ new.count = 1 /\ new.saved = 1 /\ new.kind = run[j].kind
          /\ new \in Runs
      <4>1. to("telling") \in Runs /\ 1 \in 0 .. Size
        BY <1>1 DEF Runs
      <4>2. [to("telling") EXCEPT !.count = 1] \in Runs
        BY <4>1 DEF Runs
      <4>3. [[to("telling") EXCEPT !.count = 1] EXCEPT !.saved = 1] \in Runs
        BY <4>1, <4>2 DEF Runs
      <4> QED
        BY <1>1, <4>3 DEF Runs
    <3>2. run' = [run EXCEPT ![j] = new]
      BY <1>1, <2>2
    <3> HIDE DEF new
    <3>3. Progress(new, record[j])
      BY <1>1, <2>1, <3>1 DEF Progress
    <3> QED
      BY <1>5, <2>1, <3>1, <3>2, <3>3
  <2>3. ASSUME NEW s \in {0, 1}, run' = [run EXCEPT ![j].pc = "failing", ![j].saved = s]
        PROVE  MoodInv'
    <3> DEFINE new == [run[j] EXCEPT !.pc = "failing", !.saved = s]
    <3>1. /\ new.pc = "failing" /\ new.count = 0 /\ new.saved = s /\ new.kind = run[j].kind
          /\ new \in Runs
      <4>1. to("failing") \in Runs /\ s \in 0 .. Size
        BY <1>1 DEF Runs
      <4>2. [to("failing") EXCEPT !.saved = s] \in Runs
        BY <4>1 DEF Runs
      <4> QED
        BY <1>1, <2>1, <4>2 DEF Runs
    <3>2. run' = [run EXCEPT ![j] = new]
      BY <1>1, <2>3
    <3> HIDE DEF new
    <3>3. Progress(new, record[j])
      BY <1>1, <2>1, <3>1 DEF Progress
    <3> QED
      BY <1>5, <2>1, <3>1, <3>2, <3>3
  <2> QED
    BY <1>6, <2>2, <2>3 DEF StartPlaylist
<1>7. CASE AddTrack(j)
  <2>1. /\ run[j].pc = "adding" /\ run[j].saved = run[j].count /\ run[j].count < Size
        /\ record[j].state \notin {"completed", "failed"} /\ UNCHANGED record
        /\ run[j].count \in Nat /\ Size \in Nat
    BY <1>1, <1>7 DEF AddTrack, Progress, Runs
  <2>2. CASE run' = [run EXCEPT ![j] = Added(j)]
    <3>1. /\ Added(j).pc = "telling" /\ Added(j).count = run[j].count + 1
          /\ Added(j).saved = run[j].count + 1 /\ Added(j).kind = run[j].kind
          /\ Added(j) \in Runs
      <4>1. /\ to("telling") \in Runs /\ run[j].count + 1 \in 0 .. Size
            /\ run[j].saved + 1 = run[j].count + 1
        BY <1>1, <2>1 DEF Runs
      <4> DEFINE counted == [to("telling") EXCEPT !.count = run[j].count + 1]
                 added   == [counted EXCEPT !.saved = run[j].count + 1]
      <4>2. counted \in Runs
        BY <4>1 DEF Runs
      <4>3. added \in Runs
        BY <4>1, <4>2 DEF Runs
      <4>4. added = Added(j)
        BY <1>1, <4>1 DEF Added, Runs
      <4> QED
        BY <1>1, <4>1, <4>3, <4>4 DEF Runs, Added
    <3>2. Progress(Added(j), record[j])
      BY <1>1, <2>1, <3>1 DEF Progress
    <3> QED
      BY <1>5, <2>1, <2>2, <3>1, <3>2
  <2>3. ASSUME NEW s \in {0, 1},
               run' = [run EXCEPT ![j].pc = "failing", ![j].saved = @ + s]
        PROVE  MoodInv'
    <3> DEFINE new == [run[j] EXCEPT !.pc = "failing", !.saved = @ + s]
    <3>1. /\ new.pc = "failing" /\ new.count = run[j].count /\ new.kind = run[j].kind
          /\ new.saved = run[j].count + s /\ new \in Runs
      <4>1. to("failing") \in Runs /\ run[j].saved + s \in 0 .. Size
        BY <1>1, <2>1 DEF Runs
      <4>2. [to("failing") EXCEPT !.saved = run[j].saved + s] \in Runs
        BY <4>1 DEF Runs
      <4> QED
        BY <1>1, <2>1, <4>2 DEF Runs
    <3>2. run' = [run EXCEPT ![j] = new]
      BY <1>1, <2>3
    <3> HIDE DEF new
    <3>3. Progress(new, record[j])
      BY <1>1, <2>1, <3>1 DEF Progress
    <3> QED
      BY <1>5, <2>1, <3>1, <3>2, <3>3
  <2> QED
    BY <1>7, <2>2, <2>3 DEF AddTrack
<1>8. ASSUME NEW pc \in {"closing", "failing", "ended"}, MoodStep(j, pc), UNCHANGED record,
             record[j].state \in {"completed", "failed"} => pc \in {"closing", "ended"}
      PROVE  MoodInv'
  <2>1. to(pc) \in Runs /\ Progress(to(pc), record[j])
    BY <1>1, <1>8 DEF Runs, Progress
  <2> QED
    BY <1>1, <1>5, <1>8, <2>1 DEF MoodStep
<1>9. CASE Tell(j)
  <2>1. /\ run[j].pc = "telling" /\ run[j].saved = run[j].count
        /\ record[j].told < run[j].count /\ record[j].state \notin {"completed", "failed"}
        /\ run[j].count \in 0 .. Size /\ record[j].told \in 0 .. Size /\ Size \in Nat
    BY <1>1, <1>9 DEF Tell, Progress, Runs, Jobs
  <2> DEFINE pc == IF run[j].count = Size THEN "finishing" ELSE "adding"
             told == IF Native(j) THEN [record[j] EXCEPT !.told = @ + 1] ELSE record[j]
  <2>2. CASE MoodStep(j, pc) /\ record' = IF Native(j) THEN [record EXCEPT ![j].told = @ + 1]
                                          ELSE record
    <3>1. to(pc) \in Runs /\ told \in Jobs
      BY <1>1, <2>1 DEF Runs, Jobs
    <3>2. /\ to(pc).pc = pc /\ to(pc).count = run[j].count /\ to(pc).saved = run[j].count
          /\ to(pc).kind = run[j].kind /\ told.state = record[j].state
          /\ told.told \in {record[j].told, record[j].told + 1}
      BY <1>1, <2>1 DEF Runs, Jobs
    <3>3. run' = [run EXCEPT ![j] = to(pc)] /\ record' = [record EXCEPT ![j] = told]
      BY <1>1, <2>2 DEF MoodStep
    <3> HIDE DEF to, told
    <3>4. Progress(to(pc), told)
      BY <1>1, <2>1, <3>2 DEF Progress
    <3> HIDE DEF pc
    <3> QED
      BY <1>4, <3>1, <3>3, <3>4
  <2> QED
    BY <1>8, <1>9, <2>1, <2>2 DEF Tell
<1>10. CASE Finish(j)
  <2>1. /\ run[j].pc = "finishing" /\ run[j].count = Size /\ run[j].saved = Size
        /\ record[j].state \notin {"completed", "failed"}
    BY <1>1, <1>10 DEF Finish, Progress
  <2> DEFINE told == IF Native(j) THEN [record[j] EXCEPT !.state = "completed"]
                     ELSE record[j]
  <2>2. CASE MoodStep(j, "closing") /\
             record' = IF Native(j) THEN [record EXCEPT ![j].state = "completed"] ELSE record
    <3>1. to("closing") \in Runs /\ told \in Jobs
      BY <1>1 DEF Runs, Jobs
    <3>2. Progress(to("closing"), told)
      BY <1>1, <2>1 DEF Progress, Runs, Jobs
    <3>3. run' = [run EXCEPT ![j] = to("closing")] /\ record' = [record EXCEPT ![j] = told]
      BY <1>1, <2>2 DEF MoodStep
    <3> HIDE DEF to, told
    <3> QED
      BY <1>4, <3>1, <3>2, <3>3
  <2> QED
    BY <1>8, <1>10, <2>1, <2>2 DEF Finish
<1>11. CASE Fail(j)
  <2>1. run[j].pc = "failing" /\ record[j].state \notin {"completed", "failed"}
    BY <1>1, <1>11 DEF Fail, Progress
  <2> DEFINE told == IF Native(j) THEN [record[j] EXCEPT !.state = "failed"] ELSE record[j]
  <2>2. CASE MoodStep(j, "closing") /\
             record' = IF Native(j) THEN [record EXCEPT ![j].state = "failed"] ELSE record
    <3>1. to("closing") \in Runs /\ told \in Jobs
      BY <1>1 DEF Runs, Jobs
    <3>2. Progress(to("closing"), told)
      BY <1>1, <2>1 DEF Progress, Runs, Jobs
    <3>3. run' = [run EXCEPT ![j] = to("closing")] /\ record' = [record EXCEPT ![j] = told]
      BY <1>1, <2>2 DEF MoodStep
    <3> HIDE DEF to, told
    <3> QED
      BY <1>4, <3>1, <3>2, <3>3
  <2> QED
    BY <1>8, <1>11, <2>1, <2>2 DEF Fail
<1>12. CASE Close(j)
  BY <1>8, <1>12 DEF Close, durable
<1> QED
  BY <1>6, <1>7, <1>9, <1>10, <1>11, <1>12 DEF MoodRun

\* A step that starts no run and changes no record.
Early == {"idle", "waiting", "calling"}
LEMMA NoRunTouched ==
  ASSUME MoodInv, run' \in [Requests -> Runs], UNCHANGED record,
         \A j \in Requests : \/ run'[j] = run[j]
                             \/ /\ run[j] # NoRun /\ run'[j].pc = run[j].pc
                                /\ run'[j].kind = run[j].kind /\ run'[j].count = run[j].count
                                /\ run'[j].saved = run[j].saved,
         \A q \in Requests : request'[q].pc \in Early => request[q].pc \in Early
  PROVE  MoodInv'
BY DEF MoodInv, Unborn, Progress, Early

LEMMA CancelledKeeps ==
  ASSUME MoodInv, NEW J, run' = Cancelled(J)
  PROVE  /\ run' \in [Requests -> Runs]
         /\ \A j \in Requests : \/ run'[j] = run[j]
                                \/ /\ run[j] # NoRun /\ run'[j].pc = run[j].pc
                                   /\ run'[j].kind = run[j].kind
                                   /\ run'[j].count = run[j].count
                                   /\ run'[j].saved = run[j].saved
<1>1. ASSUME NEW j \in Requests
      PROVE  /\ run'[j] \in Runs
             /\ \/ run'[j] = run[j]
                \/ /\ run[j] # NoRun /\ run'[j].pc = run[j].pc
                   /\ run'[j].kind = run[j].kind /\ run'[j].count = run[j].count
                   /\ run'[j].saved = run[j].saved
  <2> DEFINE new == [run[j] EXCEPT !.cancelled = TRUE]
  <2>1. run[j] \in Runs
    BY DEF MoodInv
  <2>2. /\ new \in Runs /\ new.pc = run[j].pc /\ new.kind = run[j].kind
        /\ new.count = run[j].count /\ new.saved = run[j].saved
    BY <2>1 DEF Runs
  <2>3. run'[j] = run[j] \/ (Active(j) /\ run'[j] = new)
    <3>1. CASE j \in J /\ Active(j)
      BY <3>1 DEF Cancelled, Active
    <3>2. CASE ~(j \in J /\ Active(j))
      BY <3>2 DEF Cancelled, Active
    <3> QED
      BY <3>1, <3>2
  <2> QED
    <3>1. Active(j) => run[j] # NoRun
      BY DEF Active, NoRun
    <3> QED
      BY <2>1, <2>2, <2>3, <3>1
<1> QED
  BY <1>1 DEF Cancelled

\* The progress of a request that is no claim: it never goes back.
LEMMA RequestsAdvance ==
  ASSUME SendInv, NEW r \in Requests,
         \/ \E d \in Devices, k \in Keys, b \in Bodies : Arrive(r, d, k, b)
         \/ Handle(r)
  PROVE  \A q \in Requests : request'[q].pc \in Early => request[q].pc \in Early
<1>1. request \in [Requests -> RequestRecord]
  BY DEF SendInv, SendTypes
<1>2. \A q \in Requests \ {r} : request'[q] = request[q]
  BY <1>1 DEF Arrive, Handle, Begin, Reply, Scrobble, Unsent, Settling, Write, Send, Confirm,
              Mood, Stop, Settle
<1>3. request[r].pc \in Early \/ request'[r].pc \notin Early
  <2>1. CASE \E d \in Devices, k \in Keys, b \in Bodies : Arrive(r, d, k, b)
    BY <2>1 DEF Arrive, Early
  <2>2. CASE Begin(r) \/ Calling(r, "scrobble") \/ Calling(r, "write")
             \/ Calling(r, "mood") \/ Calling(r, "stop")
    BY <2>2 DEF Begin, Calling, Early
  <2>3. CASE Send(r) \/ Confirm(r) \/ Settle(r)
    BY <1>1, <2>3 DEF Send, Confirm, Settle, Settling, Reply, Early, RequestRecord
  <2> QED
    BY <2>1, <2>2, <2>3 DEF Handle, Scrobble, Write, Mood, Stop
<1> QED
  BY <1>2, <1>3

LEMMA MoodKeeps ==
  ASSUME SendInv, MoodInv, NEW r \in Requests, Mood(r)
  PROVE  MoodInv'
<1>1. /\ request[r].pc = "calling" /\ request \in [Requests -> RequestRecord]
      /\ request[r].device \in Devices \cup {"none"}
      /\ \A q \in Requests \ {r} : request'[q] = request[q]
      /\ request'[r].pc = "settling"
  BY DEF Mood, Calling, Settling, SendInv, SendTypes, RequestRecord
<1>2. CASE UNCHANGED <<run, record>>
  BY <1>1, <1>2, NoRunTouched DEF MoodInv, Early
<1>3. CASE /\ record' = [record EXCEPT ![r] = [state |-> "running",
                                              device |-> request[r].device, told |-> 0]]
           /\ run' = [run EXCEPT ![r] = NewRun("native")]
  <2> DEFINE told == [state |-> "running", device |-> request[r].device, told |-> 0]
  <2>1. 0 \in 0 .. Size
    BY WritesAssumption
  <2>2. NewRun("native") \in Runs /\ told \in Jobs
    BY <1>1, <2>1 DEF Runs, Jobs, NewRun
  <2>3. Progress(NewRun("native"), told)
    BY <2>1 DEF Progress, NewRun
  <2> QED
    BY <1>1, <1>3, <2>2, <2>3, OneRun
<1> QED
  BY <1>2, <1>3 DEF Mood

LEMMA BrowseKeepsMood ==
  ASSUME SendInv, MoodInv, NEW r \in Requests, Browse(r)
  PROVE  MoodInv'
<1>1. /\ request[r].pc = "idle" /\ request \in [Requests -> RequestRecord]
      /\ \A q \in Requests \ {r} : request'[q] = request[q]
      /\ request'[r].pc = "done" /\ run' = [run EXCEPT ![r] = NewRun("browser")]
      /\ record' = record
  BY DEF Browse, SendInv, SendTypes, RequestRecord, durable
<1>2. record[r] = NoJob /\ NoJob \in Jobs /\ record' = [record EXCEPT ![r] = NoJob]
  BY <1>1, WritesAssumption DEF MoodInv, Unborn, NoJob, Jobs
<1>3. 0 \in 0 .. Size
  BY WritesAssumption
<1>4. NewRun("browser") \in Runs /\ Progress(NewRun("browser"), NoJob)
  BY <1>3 DEF Runs, Progress, NoJob, NewRun
<1> QED
  BY <1>1, <1>2, <1>4, OneRun

LEMMA RestartKeepsMood ==
  ASSUME SendInv, MoodInv, Restart
  PROVE  MoodInv'
<1> DEFINE ended(j) == [run[j] EXCEPT !.pc = "ended"]
           failed(j) == [record[j] EXCEPT !.state = "failed"]
<1>1. ASSUME NEW j \in Requests
      PROVE  /\ run[j] \in Runs /\ record[j] \in Jobs /\ Progress(run[j], record[j])
             /\ ended(j) \in Runs /\ failed(j) \in Jobs
  BY DEF MoodInv, Runs, Jobs
<1>2. ASSUME NEW j \in Requests
      PROVE  /\ \/ run'[j] = run[j] /\ ~Active(j)
                \/ run'[j] = ended(j) /\ Active(j)
             /\ \/ record'[j] = record[j]
                \/ record'[j] = failed(j) /\ record[j].state = "running"
  <2>1. Active(j) => run'[j] = ended(j)
    BY DEF Restart, Active
  <2>2. ~Active(j) => run'[j] = run[j]
    BY DEF Restart, Active
  <2>3. record'[j] = record[j] \/ record'[j] = Recovered(j)
    BY DEF Restart
  <2> QED
    BY <2>1, <2>2, <2>3 DEF Recovered
<1>3. run' \in [Requests -> Runs] /\ record' \in [Requests -> Jobs]
  <2>1. DOMAIN run' = Requests /\ DOMAIN record' = Requests
    BY DEF Restart
  <2>2. \A j \in Requests : run'[j] \in Runs /\ record'[j] \in Jobs
    BY <1>1, <1>2
  <2>3. /\ run' = [j \in Requests |-> run'[j]] /\ record' = [j \in Requests |-> record'[j]]
    BY DEF Restart
  <2> QED
    BY <2>2, <2>3
<1>4. \A j \in Requests : Progress(run'[j], record'[j])
  <2> SUFFICES ASSUME NEW j \in Requests PROVE Progress(run'[j], record'[j])
    OBVIOUS
  <2>1. /\ run'[j].pc \in {"none", "ended"}
        /\ run'[j].pc = "none" => run[j].pc = "none"
        /\ run'[j].kind = run[j].kind
        /\ run'[j].count = run[j].count /\ run'[j].saved = run[j].saved
    BY <1>1, <1>2 DEF Active, Runs
  <2>2. /\ record'[j].told = record[j].told
        /\ \/ record'[j].state = record[j].state
           \/ record'[j].state = "failed" /\ record[j].state = "running"
    BY <1>1, <1>2 DEF Jobs
  <2> QED
    BY <1>1, <2>1, <2>2 DEF Progress
<1>5. Unborn'
  <2> SUFFICES ASSUME NEW j \in Requests, request'[j].pc \in Early
               PROVE  run'[j] = NoRun /\ record'[j] = NoJob
    BY DEF Unborn, Early
  <2>1. request[j].pc = "idle"
    BY DEF Restart, Early, SendInv, SendTypes, RequestRecord
  <2>2. run[j] = NoRun /\ record[j] = NoJob
    BY <2>1 DEF MoodInv, Unborn
  <2> QED
    <3>1. ~Active(j)
      BY <2>2 DEF Active, NoRun
    <3>2. record[j].state # "running"
      BY <2>2 DEF NoJob
    <3> QED
      BY <1>2, <2>2, <3>1, <3>2
<1> QED
  BY <1>3, <1>4, <1>5 DEF MoodInv

LEMMA RunsUnchanged ==
  ASSUME MoodInv, UNCHANGED <<run, record>>,
         \A q \in Requests : request'[q].pc \in Early => request[q].pc \in Early
  PROVE  MoodInv'
BY NoRunTouched DEF MoodInv

LEMMA StopKeepsMood ==
  ASSUME SendInv, MoodInv, NEW r \in Requests, Stop(r)
  PROVE  MoodInv'
<1>1. \A q \in Requests : request'[q].pc \in Early => request[q].pc \in Early
  <2>1. request \in [Requests -> RequestRecord] /\ request[r].pc = "calling"
    BY DEF Stop, Calling, SendInv, SendTypes
  <2>2. \A q \in Requests : request'[q] = request[q] \/ q = r
    BY <2>1 DEF Stop, Settling
  <2> QED
    BY <2>1, <2>2 DEF Early
<1>2. CASE UNCHANGED run
  BY <1>1, <1>2, RunsUnchanged DEF Stop, durable
<1>3. CASE run' = Cancelled({request[r].body.on})
  BY <1>1, <1>3, CancelledKeeps, NoRunTouched DEF Stop, durable
<1> QED
  BY <1>2, <1>3 DEF Stop

LEMMA MoodStepKeeps == SendInv /\ MoodInv /\ [Next]_vars => MoodInv'
<1> SUFFICES ASSUME SendInv, MoodInv, [Next]_vars PROVE MoodInv'
  OBVIOUS
<1>1. CASE UNCHANGED vars
  BY <1>1, RunsUnchanged DEF vars, durable
<1>2. ASSUME NEW r \in Requests, NEW d \in Devices, NEW k \in Keys, NEW b \in Bodies,
             Arrive(r, d, k, b)
      PROVE  MoodInv'
  <2>1. UNCHANGED <<run, record>>
    BY <1>2 DEF Arrive, durable
  <2> QED
    BY <1>2, <2>1, RequestsAdvance, RunsUnchanged
<1>3. ASSUME NEW r \in Requests, Browse(r) PROVE MoodInv'
  BY <1>3, BrowseKeepsMood
<1>4. ASSUME NEW r \in Requests, Handle(r) PROVE MoodInv'
  <2>1. ASSUME UNCHANGED <<run, record>> PROVE MoodInv'
    BY <1>4, <2>1, RequestsAdvance, RunsUnchanged
  <2> QED
    BY <1>4, <2>1, MoodKeeps, StopKeepsMood
       DEF Handle, Begin, Scrobble, Write, Send, Confirm, Settle, durable
<1>5. ASSUME NEW j \in Requests, MoodRun(j) PROVE MoodInv'
  BY <1>5, MoodRunKeeps
<1>6. ASSUME NEW d \in Devices, Revoke(d) PROVE MoodInv'
  BY <1>6, CancelledKeeps, NoRunTouched DEF Revoke
<1>7. CASE Restart
  BY <1>7, RestartKeepsMood
<1>8. CASE Advance
  BY <1>8, RunsUnchanged DEF Advance, durable
<1> QED
  BY <1>1, <1>2, <1>3, <1>4, <1>5, <1>6, <1>7, <1>8 DEF Next

LEMMA MoodStartsRight == Init => MoodInv
<1> SUFFICES ASSUME Init PROVE MoodInv
  OBVIOUS
<1>1. 0 \in 0 .. Size
  BY WritesAssumption
<1>2. NoRun \in Runs /\ NoJob \in Jobs /\ Progress(NoRun, NoJob)
  BY <1>1 DEF NoRun, NoJob, Runs, Jobs, Progress
<1> QED
  BY <1>2 DEF Init, MoodInv, Unborn

\* MoodInv is an invariant of the specification.
THEOREM MoodInvariant == Spec => []MoodInv
BY StartsRight, StepKeeps, MoodStartsRight, MoodStepKeeps, PTL DEF Spec

\* A completed Mood has all its tracks in the library, and no event tells of a track the
\* library has not confirmed.
THEOREM MoodTellsTruth == Spec => []MoodHonest
<1>1. MoodInv => MoodHonest
  BY DEF MoodInv, Progress, MoodHonest, Runs, Jobs
<1> QED
  BY <1>1, MoodInvariant, PTL

\* The saved outcome of a Mood is final: no late event, cancellation or restart changes it.
FinalStays == \A j \in Requests : record[j].state \in {"completed", "failed"} =>
                                    record'[j] = record[j]
THEOREM MoodOutcomeFinal == Spec => OutcomeFinal
<1>1. SendInv /\ MoodInv /\ [Next]_vars => FinalStays
  <2> SUFFICES ASSUME SendInv, MoodInv, [Next]_vars, NEW i \in Requests,
                      record[i].state \in {"completed", "failed"}
               PROVE  record'[i] = record[i]
    BY DEF FinalStays
  <2>1. /\ run[i].pc \in {"closing", "ended"} /\ run[i] \in Runs
        /\ record \in [Requests -> Jobs]
    BY DEF MoodInv, Progress
  <2>2. ASSUME NEW r \in Requests, Mood(r) PROVE record'[i] = record[i]
    <3>1. record[r] = NoJob
      BY <2>2 DEF Mood, Calling, MoodInv, Unborn
    <3>2. r # i
      BY <3>1 DEF NoJob
    <3> QED
      BY <2>1, <2>2, <3>2 DEF Mood
  <2>3. ASSUME NEW j \in Requests, MoodRun(j) PROVE record'[i] = record[i]
    <3>1. record' = record \/ j # i
      BY <2>1, <2>3 DEF MoodRun, StartPlaylist, AddTrack, Tell, Finish, Fail, Close, durable
    <3>2. j # i => record'[i] = record[i]
      BY <2>1, <2>3 DEF MoodRun, StartPlaylist, AddTrack, Tell, Finish, Fail, Close, durable
    <3> QED
      BY <3>1, <3>2
  <2>4. CASE Restart
    BY <2>4 DEF Restart, Recovered
  <2> QED
    BY <2>2, <2>3, <2>4
       DEF Next, vars, durable, Arrive, Browse, Handle, Begin, Scrobble, Write, Send,
           Confirm, Stop, Settle, Revoke, Advance
<1> QED
  BY <1>1, SendingInvariant, MoodInvariant, PTL DEF Spec, OutcomeFinal, FinalStays

----------------------------------------------------------------------------
(* One Mood at a time.                                                     *)
Solo == /\ moodJobs \in BOOLEAN
        /\ \A i, j \in Requests : Active(i) /\ Active(j) => i = j
        /\ moodJobs <=> \E j \in Requests : Active(j)

LEMMA SameRuns ==
  ASSUME Solo, UNCHANGED moodJobs, \A j \in Requests : Active(j)' <=> Active(j)
  PROVE  Solo'
BY DEF Solo

LEMMA SoloStarts == Init => Solo
<1> SUFFICES ASSUME Init PROVE Solo
  OBVIOUS
<1>1. \A j \in Requests : ~Active(j)
  BY DEF Init, Active, NoRun
<1> QED
  BY <1>1 DEF Init, Solo

LEMMA SoloStepKeeps == SendInv /\ MoodInv /\ Solo /\ [Next]_vars => Solo'
<1> SUFFICES ASSUME SendInv, MoodInv, Solo, [Next]_vars PROVE Solo'
  OBVIOUS
<1>1. run \in [Requests -> Runs]
  BY DEF MoodInv
<1>2. ASSUME UNCHANGED <<run, moodJobs>> PROVE Solo'
  BY <1>2, SameRuns DEF Active
<1>3. ASSUME NEW J, run' = Cancelled(J), UNCHANGED moodJobs PROVE Solo'
  <2>1. \A j \in Requests : run'[j].pc = run[j].pc
    BY <1>3, CancelledKeeps
  <2> QED
    BY <1>3, <2>1, SameRuns DEF Active
<1>4. ASSUME NEW r \in Requests, NEW kind, ~moodJobs, moodJobs' = TRUE,
             run' = [run EXCEPT ![r] = NewRun(kind)]
      PROVE  Solo'
  <2>1. \A j \in Requests : ~Active(j)
    BY <1>4 DEF Solo
  <2>2. \A j \in Requests : Active(j)' <=> j = r
    BY <1>1, <1>4, <2>1 DEF Active, NewRun
  <2> QED
    BY <1>4, <2>2 DEF Solo
<1>5. ASSUME NEW r \in Requests, Mood(r) PROVE Solo'
  BY <1>2, <1>4, <1>5 DEF Mood, Busy
<1>6. ASSUME NEW r \in Requests, Browse(r) PROVE Solo'
  BY <1>4, <1>6 DEF Browse, Busy
<1>7. ASSUME NEW r \in Requests, Stop(r) PROVE Solo'
  BY <1>2, <1>3, <1>7 DEF Stop
<1>8. ASSUME NEW j \in Requests, MoodRun(j) PROVE Solo'
  <2>1. CASE Close(j)
    <3>1. \A i \in Requests : ~Active(i)'
      BY <1>1, <2>1 DEF Close, MoodStep, Active, Solo, Runs
    <3> QED
      BY <2>1, <3>1 DEF Close, Solo
  <2>2. CASE StartPlaylist(j) \/ AddTrack(j) \/ Tell(j) \/ Finish(j) \/ Fail(j)
    <3>1. UNCHANGED moodJobs /\ Active(j)
      BY <2>2 DEF StartPlaylist, AddTrack, Tell, Finish, Fail, Library, Active
    <3>2. /\ run'[j].pc \notin {"none", "ended"}
          /\ \A i \in Requests \ {j} : run'[i] = run[i]
      <4>1. ASSUME NEW STATE new, run' = [run EXCEPT ![j] = new],
                   new.pc \notin {"none", "ended"}
            PROVE  /\ run'[j].pc \notin {"none", "ended"}
                   /\ \A i \in Requests \ {j} : run'[i] = run[i]
        BY <1>1, <4>1
      <4>2. CASE StartPlaylist(j) \/ AddTrack(j)
        BY <1>1, <4>2, <4>1 DEF StartPlaylist, AddTrack, Added, Runs
      <4>3. CASE Tell(j) \/ Finish(j) \/ Fail(j)
        BY <1>1, <4>3 DEF Tell, Finish, Fail, MoodStep, Runs
      <4> QED
        BY <2>2, <4>2, <4>3
    <3> QED
      BY <3>1, <3>2, SameRuns DEF Active
  <2> QED
    BY <1>8, <2>1, <2>2 DEF MoodRun
<1>9. CASE Restart
  <2>1. \A j \in Requests : ~Active(j)'
    BY <1>1, <1>9 DEF Restart, Active, Runs
  <2> QED
    BY <1>9, <2>1 DEF Restart, Solo
<1>10. ASSUME NEW d \in Devices, Revoke(d) PROVE Solo'
  BY <1>3, <1>10 DEF Revoke
<1>11. ASSUME NEW r \in Requests, Handle(r) PROVE Solo'
  BY <1>2, <1>5, <1>7, <1>11 DEF Handle, Begin, Scrobble, Write, Send, Confirm, Settle
<1> QED
  BY <1>2, <1>6, <1>8, <1>9, <1>10, <1>11 DEF Next, vars, Arrive, Advance

\* One Mood writes to the playlist of a library user, native or browser, and the user is free
\* when none does.
THEOREM MoodAlone == Spec => []OneMood
<1>1. Init => Solo
  BY SoloStarts
<1>2. Solo => OneMood
  <2> SUFFICES ASSUME Solo PROVE OneMood
    OBVIOUS
  <2> DEFINE A == {j \in Requests : Active(j)}
  <2>1. CASE A = {}
    <3>1. ~moodJobs /\ Cardinality(A) = 0
      BY <2>1, FS_EmptySet DEF Solo
    <3> QED
      BY <3>1 DEF OneMood
  <2>2. CASE A # {}
    <3>1. PICK j \in Requests : A = {j}
      BY <2>2 DEF Solo
    <3>2. moodJobs /\ Cardinality(A) = 1
      BY <3>1, FS_Singleton DEF Solo
    <3> QED
      BY <3>2 DEF OneMood
  <2> QED
    BY <2>1, <2>2
<1> QED
  BY <1>1, <1>2, SoloStepKeeps, SendingInvariant, MoodInvariant, PTL DEF Spec

----------------------------------------------------------------------------
(* No Mood is left behind.                                                 *)
\* The run behind a record that says running is the one that will save its outcome, unless it
\* tried to and could not.
Behind(j)  == Active(j) /\ Native(j) /\ run[j].pc # "closing"
Tended     == \A j \in Running : Behind(j) \/ j \in lost

\* A step of one Mood, whose record, if it says running, is still tended.
LEMMA OneTending ==
  ASSUME Tended, NEW j \in Requests, lost \subseteq lost',
         \A i \in Requests \ {j} : run'[i] = run[i] /\ record'[i] = record[i],
         record'[j].state = "running" => Behind(j)' \/ j \in lost'
  PROVE  Tended'
<1>1. ASSUME NEW i \in Requests, i # j, record'[i].state = "running"
      PROVE  Behind(i)' \/ i \in lost'
  BY <1>1 DEF Tended, Running, Behind, Active, Native
<1> QED
  BY <1>1 DEF Tended, Running

\* A step of one Mood leaves its run behind the record, or saves the outcome, or loses it.
LEMMA MoodRunTends ==
  ASSUME MoodInv, Tended, NEW j \in Requests, MoodRun(j)
  PROVE  Tended'
<1>1. run \in [Requests -> Runs] /\ record \in [Requests -> Jobs]
  BY DEF MoodInv
<1>2. \A i \in Requests \ {j} : run'[i] = run[i] /\ record'[i] = record[i]
  <2>1. CASE StartPlaylist(j) \/ AddTrack(j)
    BY <1>1, <2>1 DEF StartPlaylist, AddTrack
  <2>2. CASE Tell(j) \/ Finish(j) \/ Fail(j) \/ Close(j)
    BY <1>1, <2>2 DEF Tell, Finish, Fail, Close, MoodStep, durable
  <2> QED
    BY <2>1, <2>2 DEF MoodRun
<1>3. ASSUME NEW pc \in {"adding", "finishing", "failing"}, MoodStep(j, pc), UNCHANGED lost,
             record'[j].state = record[j].state
      PROVE  Tended'
  <2>1. Behind(j) => Behind(j)'
    BY <1>1, <1>3 DEF MoodStep, Behind, Active, Native
  <2> QED
    BY <1>2, <1>3, <2>1, OneTending DEF Tended, Running
<1>4. ASSUME UNCHANGED lost \/ lost' = lost \cup {j},
             record'[j].state = "running" => j \in lost'
      PROVE  Tended'
  BY <1>2, <1>4, OneTending
<1>5. CASE StartPlaylist(j) \/ AddTrack(j)
  <2>1. UNCHANGED <<record, lost>> /\ run[j].pc \in {"starting", "adding"}
    BY <1>5 DEF StartPlaylist, AddTrack
  <2>2. run'[j].kind = run[j].kind /\ run'[j].pc \in {"telling", "failing"}
    <3>1. CASE StartPlaylist(j)
      BY <1>1, <3>1 DEF Runs, StartPlaylist
    <3>2. CASE AddTrack(j)
      <4>1. CASE run' = [run EXCEPT ![j] = Added(j)]
        BY <1>1, <4>1 DEF Runs, Added
      <4>2. ASSUME NEW s \in {0, 1},
                   run' = [run EXCEPT ![j].pc = "failing", ![j].saved = @ + s]
            PROVE  run'[j].kind = run[j].kind /\ run'[j].pc = "failing"
        BY <1>1, <4>2 DEF Runs
      <4> QED
        BY <3>2, <4>1, <4>2 DEF AddTrack
    <3> QED
      BY <1>5, <3>1, <3>2
  <2>3. Behind(j) => Behind(j)'
    BY <2>2 DEF Behind, Active, Native
  <2> QED
    BY <1>2, <2>1, <2>3, OneTending DEF Tended, Running
<1>6. CASE Tell(j)
  <2>1. /\ UNCHANGED lost /\ record'[j].state = record[j].state
        /\ run[j].pc = "telling" /\ \E pc \in {"finishing", "adding", "failing"} : MoodStep(j, pc)
    BY <1>1, <1>6 DEF Tell, Jobs
  <2>2. PICK pc \in {"finishing", "adding", "failing"} : MoodStep(j, pc)
    BY <2>1
  <2> QED
    BY <1>3, <2>1, <2>2
<1>7. CASE Finish(j) \/ Fail(j)
  <2>1. CASE MoodStep(j, "failing") /\ UNCHANGED <<record, lost>>
    BY <1>3, <2>1
  <2>2. CASE Native(j) /\ record'[j].state # "running" /\ UNCHANGED lost
    BY <1>4, <2>2
  <2>3. CASE ~Native(j) /\ UNCHANGED <<record, lost>>
    BY <1>4, <2>3 DEF Tended, Running, Behind
  <2>4. CASE lost' = lost \cup {j}
    BY <1>4, <2>4
  <2> QED
    BY <1>1, <1>7, <2>1, <2>2, <2>3, <2>4 DEF Finish, Fail, Jobs
<1>8. CASE Close(j)
  <2>1. record' = record /\ UNCHANGED lost /\ run[j].pc = "closing"
    BY <1>8 DEF Close, durable
  <2> QED
    BY <1>4, <2>1 DEF Tended, Running, Behind
<1> QED
  BY <1>5, <1>6, <1>7, <1>8 DEF MoodRun

\* Every step keeps a run behind what says running.
LEMMA TendingStepKeeps == MoodInv /\ Tended /\ [Next]_vars => Tended'
<1> SUFFICES ASSUME MoodInv, Tended, [Next]_vars PROVE Tended'
  OBVIOUS
<1>1. run \in [Requests -> Runs] /\ record \in [Requests -> Jobs]
  BY DEF MoodInv
<1>2. ASSUME UNCHANGED <<run, record, lost>> PROVE Tended'
  BY <1>2 DEF Tended, Running, Behind, Active, Native
<1>3. ASSUME NEW J, run' = Cancelled(J), UNCHANGED <<record, lost>> PROVE Tended'
  <2>1. \A j \in Requests : run'[j].pc = run[j].pc /\ run'[j].kind = run[j].kind
    BY <1>1, <1>3 DEF Cancelled, Runs
  <2> QED
    BY <1>3, <2>1 DEF Tended, Running, Behind, Active, Native
<1>4. ASSUME NEW r \in Requests, Mood(r) PROVE Tended'
  <2>1. CASE UNCHANGED <<run, record>>
    BY <1>2, <1>4, <2>1 DEF Mood
  <2>2. CASE /\ run' = [run EXCEPT ![r] = NewRun("native")]
             /\ \E c : record' = [record EXCEPT ![r] = c]
    <3>1. Behind(r)'
      BY <1>1, <2>2 DEF Behind, Active, Native, NewRun
    <3>2. \A i \in Requests \ {r} : run'[i] = run[i] /\ record'[i] = record[i]
      BY <1>1, <2>2
    <3> QED
      BY <1>4, <3>1, <3>2, OneTending DEF Mood
  <2> QED
    BY <1>4, <2>1, <2>2 DEF Mood
<1>5. ASSUME NEW r \in Requests, Browse(r) PROVE Tended'
  <2>1. record[r] = NoJob /\ UNCHANGED <<record, lost>>
    BY <1>5 DEF Browse, MoodInv, Unborn, durable
  <2>2. \A i \in Requests \ {r} : run'[i] = run[i]
    BY <1>1, <1>5 DEF Browse
  <2> QED
    BY <2>1, <2>2, OneTending DEF NoJob
<1>6. ASSUME NEW r \in Requests, Stop(r) PROVE Tended'
  BY <1>2, <1>3, <1>6 DEF Stop, durable
<1>7. ASSUME NEW d \in Devices, Revoke(d) PROVE Tended'
  BY <1>3, <1>7 DEF Revoke
<1>8. CASE Restart
  <2>1. \A j \in Requests : Recovered(j).state # "running"
    BY <1>1 DEF Recovered, Jobs
  <2>2. \A j \in Requests : record'[j].state = "running" => j \in lost'
    BY <1>8, <2>1 DEF Restart
  <2> QED
    BY <2>2 DEF Tended, Running
<1>9. ASSUME NEW j \in Requests, MoodRun(j) PROVE Tended'
  BY <1>9, MoodRunTends
<1>10. ASSUME NEW r \in Requests, Handle(r) PROVE Tended'
  <2>1. CASE Begin(r) \/ Scrobble(r) \/ Write(r) \/ Send(r) \/ Confirm(r) \/ Settle(r)
    <3>1. UNCHANGED <<run, record, lost>>
      BY <2>1 DEF Begin, Scrobble, Write, Send, Confirm, Settle, durable
    <3> QED
      BY <1>2, <3>1
  <2> QED
    BY <1>4, <1>6, <1>10, <2>1 DEF Handle
<1> QED
  BY <1>2, <1>5, <1>7, <1>8, <1>9, <1>10 DEF Next, vars, Arrive, Advance, durable

\* A saved Mood that runs has a run behind it, or its last save failed: a client that polls or
\* follows its events is not left waiting.
THEOREM MoodTended == Spec => []NoOrphan
<1>1. Init => Tended
  BY DEF Init, Tended, Running, NoJob
<1>2. Tended => NoOrphan
  BY DEF Tended, Behind, NoOrphan
<1> QED
  BY <1>1, <1>2, TendingStepKeeps, MoodInvariant, PTL DEF Spec

----------------------------------------------------------------------------
(* Types.                                                                  *)
RestTypes ==
  /\ now \in 0 .. MaxTime /\ revoked \subseteq Devices
  /\ writes \in [Keys -> Nat] /\ sentAt \in [Keys -> Nat]
  /\ lost \subseteq Requests
  /\ faults \in 0 .. MaxFaults /\ restarts \in 0 .. MaxRestarts

LEMMA RestStepKeeps == SendInv /\ RestTypes /\ [Next]_vars => RestTypes'
<1> SUFFICES ASSUME SendInv, RestTypes, [Next]_vars PROVE RestTypes'
  OBVIOUS
<1>1. ASSUME UNCHANGED faults \/ Fault PROVE faults' \in 0 .. MaxFaults
  BY <1>1, WritesAssumption DEF Fault, RestTypes
<1>2. ASSUME NEW r \in Requests, Handle(r) PROVE RestTypes'
  <2>1. UNCHANGED <<now, revoked, lost, restarts>> /\ (UNCHANGED faults \/ Fault)
    BY <1>2 DEF Handle, Begin, Scrobble, Write, Send, Confirm, Mood, Stop, Settle, durable
  <2>2. UNCHANGED <<writes, sentAt>> \/
        (/\ request[r].pc = "sending"
         /\ writes' = [writes EXCEPT ![request[r].key] = @ + 1]
         /\ sentAt' = [sentAt EXCEPT ![request[r].key] = request[r].begun])
    BY <1>2 DEF Handle, Begin, Scrobble, Write, Send, Confirm, Mood, Stop, Settle, upstream
  <2>3. request[r].begun \in Nat
    BY DEF SendInv, SendTypes, RequestRecord
  <2>4. writes' \in [Keys -> Nat] /\ sentAt' \in [Keys -> Nat]
    BY <2>2, <2>3 DEF RestTypes
  <2> QED
    BY <1>1, <2>1, <2>4 DEF RestTypes
<1>3. ASSUME NEW j \in Requests, MoodRun(j) PROVE RestTypes'
  <2>1. UNCHANGED <<now, revoked, writes, sentAt, restarts>> /\ (UNCHANGED faults \/ Fault)
        /\ lost' \in {lost, lost \cup {j}}
    BY <1>3 DEF MoodRun, StartPlaylist, AddTrack, Tell, Finish, Fail, Close, Library,
                durable, upstream
  <2> QED
    BY <1>1, <2>1 DEF RestTypes
<1>4. ASSUME NEW d \in Devices, Revoke(d) PROVE RestTypes'
  BY <1>1, <1>4 DEF Revoke, upstream, RestTypes
<1>5. CASE Restart
  <2>1. UNCHANGED <<now, revoked, writes, sentAt>> /\ (UNCHANGED faults \/ Fault)
        /\ restarts' \in 0 .. MaxRestarts /\ lost' \subseteq Requests
    BY <1>5, WritesAssumption DEF Restart, upstream, RestTypes, Running
  <2> QED
    BY <1>1, <2>1 DEF RestTypes
<1>6. CASE Advance
  BY <1>6, WritesAssumption DEF Advance, durable, upstream, RestTypes
<1> QED
  BY <1>2, <1>3, <1>4, <1>5, <1>6
     DEF Next, vars, Arrive, Browse, durable, upstream, RestTypes

\* The variables keep their types.
THEOREM TypeCorrect == Spec => []TypeOK
<1>1. Init => RestTypes
  BY WritesAssumption DEF Init, RestTypes
<1>2. SendInv /\ MoodInv /\ Solo /\ RestTypes => TypeOK
  BY DEF SendInv, SendTypes, RequestRecord, Marks, MoodInv, Runs, Jobs, Solo, RestTypes, TypeOK
<1>3. Init => Solo
  BY SoloStarts
<1> QED
  BY <1>1, <1>2, <1>3, RestStepKeeps, SoloStepKeeps, SendingInvariant, MoodInvariant, PTL
     DEF Spec

=============================================================================

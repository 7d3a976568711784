------------------------- MODULE WebSession_proofs -------------------------
(***************************************************************************)
(* Proofs about WebSession for any number of identities, pages, sessions,  *)
(* changes and faults: what a page shows, whose the actions are that it    *)
(* waits for, and for whom and in which order a queue is written.          *)
(***************************************************************************)
EXTENDS WebSession, TLAPS

-----------------------------------------------------------------------------
(* Whom the page takes itself for, and whom its requests reach.             *)

Accounts == [user : BOOLEAN, app : BOOLEAN, login : Sessions, of : Whose]
Leaves == [at : {"none", "logoutFlush", "logout", "logoutDone",
                 "connectFlush", "connect", "connectDone"}, by : Sessions, n : Sessions]

SessionInv ==
  /\ account \in Accounts /\ (account.user => account.of \in Identities)
  /\ session \in Seq(Identities) /\ Len(session) <= MaxSessions
  /\ cookie \in 0 .. Len(session)
  /\ leave \in Leaves /\ leave.by \in 0 .. Len(session)
  /\ leave.at = "connectDone" => leave.n \in 1 .. Len(session)
  /\ account.user /\ cookie # 0 => session[cookie] = account.of

\* What the server keeps of its sessions stays; at most one more is started.
Grown ==
  /\ Len(session) <= Len(session')
  /\ \A n \in 1 .. Len(session) : session'[n] = session[n]

LEMMA Numbers ==
  ASSUME session \in Seq(Identities), Len(session) <= MaxSessions
  PROVE  /\ MaxSessions \in Nat /\ Len(session) \in Nat
         /\ 0 \in Sessions /\ 0 \in Whose /\ 0 \in 0 .. Len(session)
         /\ \A n \in 0 .. Len(session) : n \in Sessions /\ n \in Nat /\ (n # 0 => n \in 1 .. Len(session))
<1>1. MaxSessions \in Nat
  BY SessionConstantsOK
<1>2. Len(session) \in Nat
  OBVIOUS
<1>3. QED
  BY <1>1, <1>2 DEF Sessions, Whose

LEMMA Started ==
  ASSUME session \in Seq(Identities), Len(session) < MaxSessions, NEW i \in Identities,
         session' = Append(session, i)
  PROVE  /\ session' \in Seq(Identities) /\ Len(session') = Len(session) + 1
         /\ Len(session') <= MaxSessions /\ Len(session) + 1 \in Sessions \ {0}
         /\ session'[Len(session) + 1] = i /\ Grown
<1>1. MaxSessions \in Nat /\ Len(session) \in Nat
  BY SessionConstantsOK
<1>2. /\ session' \in Seq(Identities) /\ Len(session') = Len(session) + 1
      /\ \A n \in 1 .. Len(session) : session'[n] = session[n]
      /\ session'[Len(session) + 1] = i
  OBVIOUS
<1>3. QED
  BY <1>1, <1>2 DEF Sessions, Grown

LEMMA SessionsStay ==
  ASSUME SessionInv, [Next]_vars
  PROVE  Grown
<1>a. session \in Seq(Identities) /\ Len(session) <= MaxSessions /\ Len(session) \in Nat
  BY Numbers DEF SessionInv
<1>1. CASE UNCHANGED session
  BY <1>a, <1>1 DEF Grown
<1>2. CASE SignIn \/ LeaveServed
  <2>1. \/ UNCHANGED session
        \/ Len(session) < MaxSessions /\ \E i \in Identities : session' = Append(session, i)
    BY <1>2 DEF SignIn, LeaveServed
  <2>2. QED
    BY <1>a, <1>1, <2>1, Started
<1>3. QED
  BY <1>1, <1>2
     DEF Next, vars, signed, Go, NavAnswers, ListAnswers, ListAgain, ChooseQuick, QuickAnswers, ChooseLoose,
         LooseAnswers, EditQueue, BuildMood, MoodStarts, MoodEvents, MoodEnds, LoadReads, Loaded,
         LoadFails, AskLeave, TimerDue, WriteGoes, Written, WriteFails, LandsLate, WriteRefused,
         LoggedOut, Connected, LeaveFails, Expires, Refused, SignedOut, Still

\* How far a sign-out or a change of the connection has come is left, taken back, or what
\* was waited for is done and the request goes out with the cookie there is.
LEMMA LeaveGoes ==
  ASSUME SessionInv, UNCHANGED <<session, cookie>>,
         \/ UNCHANGED leave
         \/ leave' = Stay
         \/ \E at \in {"logoutFlush", "connectFlush"} : leave' = [Stay EXCEPT !.at = at]
         \/ \E at \in {"logout", "connect"} :
              leave' \in {[Stay EXCEPT !.at = at, !.by = cookie], [leave EXCEPT !.at = at, !.by = cookie]}
  PROVE  /\ leave' \in Leaves /\ leave'.by \in 0 .. Len(session')
         /\ leave'.at = "connectDone" => leave'.n \in 1 .. Len(session')
<1>1. cookie \in Sessions /\ 0 \in Sessions /\ 0 \in 0 .. Len(session) /\ session' = session
  BY Numbers DEF SessionInv
<1>2. /\ Stay \in Leaves /\ Stay.by = 0 /\ Stay.at = "none"
      /\ \A at \in {"logoutFlush", "connectFlush"} :
           LET v == [Stay EXCEPT !.at = at] IN v \in Leaves /\ v.by = 0 /\ v.at = at
      /\ \A at \in {"logout", "connect"} :
           LET v == [Stay EXCEPT !.at = at, !.by = cookie] IN v \in Leaves /\ v.by = cookie /\ v.at = at
  BY <1>1 DEF Leaves, Stay
<1>3. \A at \in {"logout", "connect"} :
        LET v == [leave EXCEPT !.at = at, !.by = cookie] IN v \in Leaves /\ v.by = cookie /\ v.at = at
  BY <1>1 DEF SessionInv, Leaves
<1>4. QED
  BY <1>1, <1>2, <1>3 DEF SessionInv

LEMMA SessionStep ==
  ASSUME SessionInv, [Next]_vars
  PROVE  SessionInv'
<1> USE DEF SessionInv, Accounts, Leaves
<1>a. /\ 0 \in Sessions /\ 0 \in Whose /\ 0 \in 0 .. Len(session) /\ Len(session) \in Nat
      /\ \A n \in 0 .. Len(session) : n \in Sessions /\ n \in Nat /\ (n # 0 => n \in 1 .. Len(session))
  BY Numbers
<1>b. Len(session') \in Nat /\ Len(session) <= Len(session') => \A n \in 0 .. Len(session) : n \in 0 .. Len(session')
  BY <1>a
<1>1. CASE UNCHANGED <<account, session, cookie, leave>>
  BY <1>1
<1>2. CASE SignIn
  <2>1. PICK i \in Identities :
          /\ session' = Append(session, i) /\ cookie' = Len(session) + 1
          /\ account' = [user |-> TRUE, app |-> FALSE, login |-> Len(session) + 1, of |-> i]
    BY <1>2 DEF SignIn
  <2>2. UNCHANGED leave /\ Len(session) < MaxSessions
    BY <1>2 DEF SignIn
  <2>3. /\ session' \in Seq(Identities) /\ Len(session') = Len(session) + 1
        /\ Len(session') <= MaxSessions /\ Len(session) + 1 \in Sessions \ {0}
        /\ session'[Len(session) + 1] = i
    BY <2>1, <2>2, Started
  <2>4. account' \in Accounts /\ account'.of = i
    BY <2>1, <2>3 DEF Accounts, Whose
  <2>5. cookie' \in 0 .. Len(session') /\ leave'.by \in 0 .. Len(session') /\ (leave'.at = "connectDone" => leave'.n \in 1 .. Len(session'))
    <3>1. Len(session') \in Nat /\ Len(session) <= Len(session')
      BY <1>a, <2>3
    <3>2. cookie' \in 0 .. Len(session') /\ leave'.by \in 0 .. Len(session')
      BY <1>a, <1>b, <2>1, <2>2, <2>3, <3>1
    <3>3. leave.at = "connectDone" => leave.n \in 1 .. Len(session')
      BY <1>a, <2>3, <3>1
    <3>4. QED
      BY <2>2, <3>2, <3>3
  <2>6. QED
    BY <2>1, <2>2, <2>3, <2>4, <2>5
<1>3. CASE Loaded
  <2>1. UNCHANGED <<session, cookie, leave>> /\ account' = [account EXCEPT !.app = TRUE]
    BY <1>3 DEF Loaded
  <2>2. account' \in Accounts /\ account'.user = account.user /\ account'.of = account.of
    BY <2>1 DEF Accounts
  <2>3. QED
    BY <2>1, <2>2
<1>4. CASE AskLeave \/ WriteGoes \/ Written \/ WriteFails \/ LeaveFails
  <2>1. /\ UNCHANGED <<account, session, cookie>>
        /\ \/ UNCHANGED leave
           \/ leave' = Stay
           \/ \E at \in {"logoutFlush", "connectFlush"} : leave' = [Stay EXCEPT !.at = at]
           \/ \E at \in {"logout", "connect"} :
                leave' \in {[Stay EXCEPT !.at = at, !.by = cookie], [leave EXCEPT !.at = at, !.by = cookie]}
    <3>1. CASE AskLeave
      BY <3>1 DEF AskLeave, signed
    <3>2. CASE LeaveFails
      BY <3>2 DEF LeaveFails, signed
    <3>3. CASE WriteGoes \/ Written \/ WriteFails
      BY <3>3 DEF WriteGoes, Written, WriteFails, Settle, Proceed, signed
    <3>4. QED
      BY <1>4, <3>1, <3>2, <3>3
  <2>2. QED
    BY <2>1, LeaveGoes
<1>5. CASE LeaveServed
  <2>1. CASE leave.at = "logout"
    <3>1. UNCHANGED <<account, session>> /\ leave' = [leave EXCEPT !.at = "logoutDone"] /\ cookie' \in {0, cookie}
      BY <1>5, <2>1 DEF LeaveServed
    <3>2. leave' \in Leaves /\ leave'.by = leave.by /\ leave'.at = "logoutDone"
      BY <3>1 DEF Leaves
    <3>3. QED
      BY <1>a, <3>1, <3>2
  <2>2. CASE leave.at = "connect"
    <3>1. PICK i \in Identities : session' = Append(session, i)
      BY <1>5, <2>2 DEF LeaveServed
    <3>2. /\ UNCHANGED account /\ Len(session) < MaxSessions /\ cookie' \in {0, cookie}
          /\ leave' = [leave EXCEPT !.at = "connectDone", !.n = Len(session) + 1]
      BY <1>5, <2>2 DEF LeaveServed
    <3>3. /\ session' \in Seq(Identities) /\ Len(session') = Len(session) + 1
          /\ Len(session') <= MaxSessions /\ Len(session) + 1 \in Sessions \ {0} /\ Grown
      BY <3>1, <3>2, Started
    <3>4. leave' \in Leaves /\ leave'.by = leave.by /\ leave'.n = Len(session) + 1
      BY <3>2, <3>3 DEF Leaves
    <3>5. cookie' # 0 => cookie \in 1 .. Len(session) /\ session'[cookie] = session[cookie]
      BY <1>a, <3>2, <3>3 DEF Grown
    <3>6. cookie' \in 0 .. Len(session') /\ leave'.by \in 0 .. Len(session') /\ leave'.n \in 1 .. Len(session')
      <4>1. Len(session') \in Nat /\ Len(session) <= Len(session')
        BY <1>a, <3>3
      <4>2. 0 \in 0 .. Len(session') /\ cookie \in 0 .. Len(session') /\ leave.by \in 0 .. Len(session')
        BY <1>a, <1>b, <4>1
      <4>3. QED
        BY <1>a, <3>2, <3>3, <3>4, <4>2
    <3>7. QED
      BY <3>2, <3>3, <3>4, <3>5, <3>6
  <2>3. QED
    BY <1>5, <2>1, <2>2 DEF LeaveServed
<1>6. CASE LoggedOut \/ Refused \/ WriteRefused
  <2>1. /\ account' = [account EXCEPT !.user = FALSE, !.app = FALSE, !.of = 0]
        /\ UNCHANGED session /\ cookie' \in {0, cookie} /\ leave' \in {Stay, leave}
    BY <1>6 DEF LoggedOut, Refused, WriteRefused, SignedOut
  <2>2. account' \in Accounts /\ ~account'.user
    BY <1>a, <2>1 DEF Accounts
  <2>3. Stay \in Leaves /\ Stay.by = 0 /\ Stay.at = "none"
    BY <1>a DEF Stay, Leaves
  <2>4. QED
    BY <1>a, <2>1, <2>2, <2>3
<1>7. CASE Connected
  <2>1. /\ leave.at = "connectDone" /\ leave' = Stay /\ cookie' = leave.n /\ UNCHANGED session
        /\ account' = [account EXCEPT !.user = TRUE, !.of = session[leave.n],
                                      !.login = IF account.user THEN account.login ELSE leave.n]
    BY <1>7 DEF Connected
  <2>2. leave.n \in 1 .. Len(session) /\ session[leave.n] \in Identities /\ leave.n \in Sessions
    <3>1. leave.n \in 1 .. Len(session) /\ leave.n \in 0 .. Len(session)
      BY <1>a, <2>1
    <3>2. QED
      BY <1>a, <3>1
  <2>3. account' \in Accounts /\ account'.of = session[leave.n]
    BY <2>1, <2>2 DEF Accounts, Whose
  <2>4. Stay \in Leaves /\ Stay.by = 0 /\ Stay.at = "none"
    BY <1>a DEF Stay, Leaves
  <2>5. QED
    <3>1. cookie' \in 0 .. Len(session') /\ leave'.by \in 0 .. Len(session') /\ leave'.at # "connectDone"
      BY <1>a, <2>1, <2>2, <2>4
    <3>2. QED
      BY <2>1, <2>2, <2>3, <2>4, <3>1
<1>8. CASE Expires
  BY <1>8, <1>a DEF Expires
<1>9. QED
  BY <1>1, <1>2, <1>3, <1>4, <1>5, <1>6, <1>7, <1>8
     DEF Next, vars, signed, Go, NavAnswers, ListAnswers, ListAgain, ChooseQuick, QuickAnswers, ChooseLoose,
         LooseAnswers, EditQueue, BuildMood, MoodStarts, MoodEvents, MoodEnds, LoadReads,
         LoadFails, TimerDue, LandsLate, Still

LEMMA SessionHolds == Spec => []SessionInv
<1>1. Init => SessionInv
  BY SessionConstantsOK DEF Init, SessionInv, Accounts, Leaves, Stay, Sessions, Whose
<1>2. QED
  BY <1>1, SessionStep, PTL DEF Spec

-----------------------------------------------------------------------------
(* Quick actions                                                            *)

QuickInv == quick.on => account.user /\ account.app /\ quick.login = account.login

LEMMA QuickStep ==
  ASSUME QuickInv, SessionInv, [Next]_vars
  PROVE  QuickInv'
<1> USE DEF QuickInv, SessionInv, Accounts, Leaves
<1>1. CASE UNCHANGED <<account, quick>>
  BY <1>1
<1>2. CASE ChooseQuick
  <2>1. UNCHANGED account /\ account.user /\ account.app /\ quick'.login = account.login
    BY <1>2 DEF ChooseQuick, Act, Still, signed, vars
  <2>2. QED
    BY <2>1
<1>3. CASE QuickAnswers \/ LoggedOut \/ Refused \/ WriteRefused
  <2>1. quick' = None
    BY <1>3 DEF QuickAnswers, LoggedOut, Refused, WriteRefused, SignedOut, CancelQuick
  <2>2. QED
    BY <2>1 DEF None
<1>4. CASE SignIn
  BY <1>4 DEF SignIn, doing
<1>5. CASE Loaded
  BY <1>5 DEF Loaded, doing
<1>6. CASE Connected
  BY <1>6 DEF Connected
<1>7. QED
  BY <1>1, <1>2, <1>3, <1>4, <1>5, <1>6
     DEF Next, vars, signed, doing, Go, NavAnswers, ListAnswers, ListAgain, ChooseLoose,
         LooseAnswers, EditQueue, BuildMood, MoodStarts, MoodEvents, MoodEnds, LoadReads, LoadFails,
         AskLeave, TimerDue, WriteGoes, Written, WriteFails, LandsLate, LeaveServed, LeaveFails,
         Expires, Still

\* A quick action that waits was chosen since the user signed in, however often the page
\* signs in and out or changes the connection (cancelQuickActions, web/quick-actions.js).
THEOREM ActionsEnd == Spec => []QuickActionsEnd
<1>1. Init => QuickInv
  BY DEF Init, QuickInv, None
<1>2. QuickInv => QuickActionsEnd
  BY DEF QuickInv, QuickActionsEnd
<1>3. QED
  BY <1>1, <1>2, QuickStep, SessionHolds, PTL DEF Spec

-----------------------------------------------------------------------------
(* What the page shows                                                      *)

Navs == [page : Views, query : BOOLEAN, fresh : BOOLEAN, by : Sessions]
Recs == [fresh : BOOLEAN, by : Sessions]
Seen == [page : Views \cup {"none"}, query : BOOLEAN, by : Sessions]
Viewed == [page : Views, query : BOOLEAN, loading : BOOLEAN, old : BOOLEAN]
Moods == [at : {"idle", "asked", "running", "listed"}, by : Sessions]

\* What was sent with this session's cookie, if with any, is answered for this identity.
Ours(by) == by # 0 => session[by] = account.of
Asks ==
  /\ fetches \subseteq Navs /\ lists \subseteq Recs /\ mood \in Moods
  /\ \A f \in fetches : f.by \in 0 .. Len(session)
  /\ \A l \in lists : l.by \in 0 .. Len(session)
  /\ mood.by \in 0 .. Len(session)
Draws ==
  /\ view \in Viewed /\ shown \in Seen
  /\ shown.page # "none" => shown.by \in 1 .. Len(session)
  /\ \A f \in fetches : f.fresh => f.page = view.page /\ f.query = view.query
  /\ shown.page # "none" =>
       /\ shown.page = view.page
       /\ shown.page # "recorder" => shown.query = view.query /\ ~view.loading
\* An answer that is still wanted is one for the view and, on a page that was drawn since
\* the connection changed, for this identity.
Wanted ==
  account.user /\ account.app /\ ~view.old =>
    /\ \A f \in fetches : f.fresh => Ours(f.by)
    /\ view.page = "recorder" => \A l \in lists : l.fresh => Ours(l.by)
ShownInv == Asks /\ Draws /\ Wanted /\ ShownIsCurrent

\* Requests that have been passed by are no longer wanted.
LEMMA PassedBy ==
  ASSUME NEW navs \in SUBSET Navs
  PROVE  /\ Passed(navs) \subseteq Navs /\ \A f \in Passed(navs) : ~f.fresh
         /\ \A f \in Passed(navs) : \E g \in navs : f.by = g.by
BY DEF Passed, Late, Navs

LEMMA ListsPassedBy ==
  ASSUME NEW recs \in SUBSET Recs
  PROVE  /\ Late(recs) \subseteq Recs /\ \A l \in Late(recs) : ~l.fresh
         /\ \A l \in Late(recs) : \E m \in recs : l.by = m.by
BY DEF Late, Recs

\* Nothing on the page changes, whatever the server's sessions do.
LEMMA PageStays ==
  ASSUME ShownInv, SessionInv, Grown, UNCHANGED <<view, fetches, lists, shown, mood>>,
         session' \in Seq(Identities),
         account'.user /\ account'.app => account.user /\ account.app /\ account'.of = account.of
  PROVE  ShownInv'
<1>1. Len(session) \in Nat /\ Len(session') \in Nat /\ Len(session) <= Len(session')
  BY DEF SessionInv, Grown
<1>2. \A n \in 0 .. Len(session) : n \in 0 .. Len(session') /\ (n # 0 => session'[n] = session[n])
  BY <1>1 DEF Grown
<1>3. Asks'
  BY <1>1, <1>2 DEF ShownInv, Asks
<1>4. Draws'
  BY <1>1 DEF ShownInv, Draws
<1>5. ASSUME account'.user, account'.app, NEW n \in 0 .. Len(session), Ours(n) PROVE Ours(n)'
  BY <1>2, <1>5 DEF Ours
<1>6. Wanted'
  BY <1>5 DEF ShownInv, Asks, Wanted
<1>7. ShownIsCurrent'
  <2>1. shown.page # "none" => shown.by \in 0 .. Len(session) /\ shown.by # 0
    BY <1>1 DEF ShownInv, Draws
  <2>2. QED
    BY <1>2, <2>1 DEF ShownInv, ShownIsCurrent
<1>8. QED
  BY <1>3, <1>4, <1>6, <1>7 DEF ShownInv

\* The page is sent somewhere: nothing that was asked for before is wanted.
LEMMA Navigated ==
  ASSUME ShownInv, SessionInv, NEW p \in Views, NEW q \in BOOLEAN, Navigate(p, q),
         UNCHANGED <<session, mood>>, account'.user => account.user /\ account'.of = account.of
  PROVE  ShownInv'
<1> DEFINE g == [page |-> p, query |-> q, fresh |-> TRUE, by |-> cookie]
<1>1. /\ view' = [page |-> p, query |-> q, loading |-> TRUE, old |-> FALSE]
      /\ shown' = [page |-> "none", query |-> FALSE, by |-> 0]
      /\ fetches' = Passed(fetches) \cup {g}
      /\ lists' = Late(lists)
  BY DEF Navigate, Blank, CloseRecorder
<1>2. cookie \in Sessions /\ cookie \in 0 .. Len(session) /\ 0 \in Sessions
  BY Numbers DEF SessionInv
<1>3. g \in Navs /\ g.page = p /\ g.query = q /\ g.by = cookie
  BY <1>2 DEF Navs
<1>4. account'.user /\ cookie # 0 => session'[cookie] = account'.of
  BY DEF SessionInv
<1> HIDE DEF g
<1>5. fetches' \subseteq Navs /\ \A f \in fetches' : f = g \/ (~f.fresh /\ \E h \in fetches : f.by = h.by)
  BY <1>1, <1>3, PassedBy DEF ShownInv, Asks
<1>6. lists' \subseteq Recs /\ \A l \in lists' : ~l.fresh /\ \E m \in lists : l.by = m.by
  BY <1>1, ListsPassedBy DEF ShownInv, Asks
<1>7. Asks'
  BY <1>2, <1>3, <1>5, <1>6 DEF ShownInv, Asks
<1>8. Draws'
  <2>1. view' \in Viewed /\ view'.page = p /\ view'.query = q /\ shown' \in Seen /\ shown'.page = "none"
    BY <1>1, <1>2 DEF Viewed, Seen
  <2>2. QED
    BY <1>3, <1>5, <2>1 DEF Draws
<1>9. Wanted'
  BY <1>3, <1>4, <1>5, <1>6 DEF Wanted, Ours
<1>10. ShownIsCurrent'
  BY <1>1 DEF ShownIsCurrent
<1>11. QED
  BY <1>7, <1>8, <1>9, <1>10 DEF ShownInv

\* The list of the recorder is asked for anew.
LEMMA Listed ==
  ASSUME Asks, SessionInv, RenderRecorder, UNCHANGED <<session, account>>
  PROVE  /\ lists' \subseteq Recs
         /\ \A l \in lists' : l.by \in 0 .. Len(session') /\ (l.fresh /\ account'.user => Ours(l.by)')
<1> DEFINE g == [fresh |-> TRUE, by |-> cookie]
<1>1. cookie \in Sessions /\ cookie \in 0 .. Len(session)
  BY Numbers DEF SessionInv
<1>2. g \in Recs /\ g.by = cookie
  BY <1>1 DEF Recs
<1>3. account'.user /\ cookie # 0 => session'[cookie] = account'.of
  BY DEF SessionInv
<1> HIDE DEF g
<1>4. lists' = Late(lists) \cup {g}
  BY DEF RenderRecorder, g
<1>5. lists' \subseteq Recs /\ \A l \in lists' : l = g \/ (~l.fresh /\ \E m \in lists : l.by = m.by)
  BY <1>2, <1>4, ListsPassedBy DEF Asks
<1>6. QED
  BY <1>1, <1>2, <1>3, <1>5 DEF Asks, Ours

\* The page of a user who is not there, with nothing wanted.
LEMMA OutShown ==
  ASSUME ShownInv, SessionInv, NEW navs, navs \subseteq fetches, NEW recs, recs \subseteq lists, NEW writes,
         SignedOut(navs, recs, writes), mood' \in {mood, Idle}
  PROVE  ShownInv'
<1>1. /\ ~account'.user /\ view' = AtHome /\ shown' = Blank /\ fetches' = Passed(navs)
      /\ lists' = Late(recs) /\ UNCHANGED session
  BY DEF SignedOut, SessionInv, Accounts
<1>2. 0 \in Sessions /\ 0 \in 0 .. Len(session)
  BY Numbers DEF SessionInv
<1>3. fetches' \subseteq Navs /\ \A f \in fetches' : ~f.fresh /\ \E h \in fetches : f.by = h.by
  BY <1>1, PassedBy DEF ShownInv, Asks
<1>4. lists' \subseteq Recs /\ \A l \in lists' : ~l.fresh /\ \E m \in lists : l.by = m.by
  BY <1>1, ListsPassedBy DEF ShownInv, Asks
<1>5. Asks'
  BY <1>1, <1>2, <1>3, <1>4 DEF ShownInv, Asks, Idle, Moods
<1>6. Draws'
  BY <1>1, <1>2, <1>3, SessionConstantsOK DEF Draws, AtHome, Blank, Viewed, Seen, Views
<1>7. QED
  BY <1>1, <1>5, <1>6 DEF ShownInv, Wanted, ShownIsCurrent

LEMMA ShownStep ==
  ASSUME ShownInv, SessionInv, SessionInv', [Next]_vars
  PROVE  ShownInv'
<1>a. Grown
  BY SessionsStay
<1>b. 0 \in Sessions /\ 0 \in 0 .. Len(session) /\ cookie \in Sessions /\ cookie \in 0 .. Len(session)
  BY Numbers DEF SessionInv
<1>c. {"home", "playlist", "recorder"} \subseteq Views
  BY SessionConstantsOK DEF Views
<1>1. CASE UNCHANGED <<account, view, fetches, lists, shown, mood>>
  BY <1>a, <1>1, PageStays DEF SessionInv
<1>2. CASE SignIn
  <2>1. UNCHANGED <<view, fetches, lists, shown, mood>> /\ ~account'.app
    BY <1>2 DEF SignIn, page, doing
  <2>2. QED
    BY <1>a, <2>1, PageStays DEF SessionInv
<1>3. CASE Go
  <2>1. UNCHANGED <<account, session, mood>>
    BY <1>3 DEF Go, Still, signed, doing
  <2>2. CASE \E p \in Pages : Navigate(p, FALSE)
    BY <2>1, <2>2, Navigated DEF Views
  <2>3. CASE Navigate(view.page, TRUE)
    BY <2>1, <2>3, Navigated DEF ShownInv, Draws, Viewed
  <2>4. CASE /\ view' = [AtHome EXCEPT !.page = "recorder"] /\ shown' = Blank
             /\ CancelNavigation /\ RenderRecorder
    <3>1. /\ lists' \subseteq Recs
          /\ \A l \in lists' : l.by \in 0 .. Len(session') /\ (l.fresh /\ account'.user => Ours(l.by)')
      BY <2>1, <2>4, Listed DEF ShownInv
    <3>2. fetches' \subseteq Navs /\ \A f \in fetches' : ~f.fresh /\ \E h \in fetches : f.by = h.by
      BY <2>4, PassedBy DEF ShownInv, Asks, CancelNavigation
    <3>3. Asks'
      BY <2>1, <3>1, <3>2 DEF ShownInv, Asks
    <3>4. Draws' /\ shown'.page = "none"
      BY <1>b, <1>c, <2>4, <3>2 DEF Draws, AtHome, Blank, Viewed, Seen
    <3>5. QED
      BY <2>1, <3>1, <3>2, <3>3, <3>4 DEF ShownInv, Wanted, ShownIsCurrent
  <2>5. QED
    BY <1>3, <2>2, <2>3, <2>4 DEF Go
<1>4. CASE NavAnswers
  <2>1. PICK f \in fetches :
          /\ fetches' = fetches \ {f}
          /\ IF Shows(f)
             THEN /\ view' = [view EXCEPT !.loading = FALSE]
                  /\ \/ f.by # 0 /\ shown' = [page |-> f.page, query |-> f.query, by |-> f.by]
                        /\ UNCHANGED faults
                     \/ Fault /\ UNCHANGED shown
             ELSE UNCHANGED <<view, shown, faults>>
    BY <1>4 DEF NavAnswers
  <2>2. UNCHANGED <<account, session, lists, mood>>
    BY <1>4 DEF NavAnswers, Still, signed, doing
  <2>3. Asks'
    BY <2>1, <2>2 DEF ShownInv, Asks
  <2>4. CASE ~Shows(f)
    BY <2>1, <2>2, <2>3, <2>4 DEF ShownInv, Draws, Wanted, Ours, ShownIsCurrent
  <2>5. CASE Shows(f)
    <3>1. /\ view' \in Viewed /\ view'.page = view.page /\ view'.query = view.query
          /\ view'.loading = FALSE /\ view'.old = view.old
          /\ f.page = view.page /\ f.query = view.query /\ f \in Navs /\ f.by \in 0 .. Len(session)
      BY <2>1, <2>5 DEF Shows, ShownInv, Draws, Asks, Viewed
    <3>2. Draws'
      BY <2>1, <2>2, <2>5, <3>1 DEF ShownInv, Draws, Navs, Seen
    <3>3. Wanted'
      BY <2>1, <2>2, <3>1 DEF ShownInv, Wanted, Ours
    <3>4. ShownIsCurrent'
      <4>1. CASE UNCHANGED shown
        BY <2>2, <3>1, <4>1 DEF ShownInv, ShownIsCurrent
      <4>2. CASE f.by # 0 /\ shown' = [page |-> f.page, query |-> f.query, by |-> f.by]
        BY <2>1, <2>2, <2>5, <3>1, <4>2 DEF ShownInv, ShownIsCurrent, Wanted, Ours, Shows
      <4>3. QED
        BY <2>1, <2>5, <4>1, <4>2
    <3>5. QED
      BY <2>3, <3>2, <3>3, <3>4 DEF ShownInv
  <2>6. QED
    BY <2>4, <2>5
<1>5. CASE ListAnswers
  <2>1. PICK l \in lists :
          /\ lists' = lists \ {l}
          /\ shown' = IF l.fresh /\ view.page = "recorder" /\ l.by # 0
                      THEN [page |-> "recorder", query |-> FALSE, by |-> l.by] ELSE shown
    BY <1>5 DEF ListAnswers
  <2>2. UNCHANGED <<account, session, view, fetches, mood>>
    BY <1>5 DEF ListAnswers, Still, signed, doing
  <2>3. Asks' /\ Wanted'
    BY <2>1, <2>2 DEF ShownInv, Asks, Wanted, Ours
  <2>4. l \in Recs /\ l.by \in 0 .. Len(session)
    BY <2>1 DEF ShownInv, Asks
  <2>5. Draws' /\ ShownIsCurrent'
    <3>1. CASE shown' = shown
      BY <2>2, <3>1 DEF ShownInv, Draws, ShownIsCurrent
    <3>2. CASE /\ l.fresh /\ view.page = "recorder" /\ l.by # 0
               /\ shown' = [page |-> "recorder", query |-> FALSE, by |-> l.by]
      <4>1. shown' \in Seen
        BY <1>c, <2>4, <3>2 DEF Seen, Recs
      <4>2. QED
        BY <2>1, <2>2, <2>4, <3>2, <4>1 DEF ShownInv, Draws, ShownIsCurrent, Wanted, Ours
    <3>3. QED
      BY <2>1, <3>1, <3>2
  <2>6. QED
    BY <2>3, <2>5 DEF ShownInv
<1>6. CASE ListAgain \/ (LooseAnswers /\ RenderRecorder /\ UNCHANGED <<view, fetches, shown>>)
  <2>1. UNCHANGED <<account, session, view, fetches, shown, mood>> /\ RenderRecorder
    BY <1>6 DEF ListAgain, LooseAnswers, Still, signed, doing
  <2>2. /\ lists' \subseteq Recs
        /\ \A l \in lists' : l.by \in 0 .. Len(session') /\ (l.fresh /\ account'.user => Ours(l.by)')
    BY <2>1, Listed DEF ShownInv
  <2>3. QED
    BY <2>1, <2>2 DEF ShownInv, Asks, Draws, Wanted, Ours, ShownIsCurrent
<1>7. CASE QuickAnswers \/ LooseAnswers
  <2>1. UNCHANGED <<account, session, mood>>
    BY <1>7 DEF QuickAnswers, LooseAnswers, signed
  <2>2. CASE Navigate("playlist", FALSE)
    BY <1>c, <2>1, <2>2, Navigated
  <2>3. CASE UNCHANGED page
    BY <1>a, <2>1, <2>3, PageStays DEF page, SessionInv
  <2>4. QED
    BY <1>6, <1>7, <2>2, <2>3 DEF QuickAnswers, LooseAnswers
<1>8. CASE BuildMood \/ MoodStarts \/ MoodEnds
  <2>1. UNCHANGED <<account, session, view, fetches, lists, shown>>
    BY <1>8 DEF BuildMood, MoodStarts, MoodEnds, Still, signed, page
  <2>2. mood' \in {[at |-> "asked", by |-> cookie], [at |-> "running", by |-> cookie], Idle}
    BY <1>8 DEF BuildMood, MoodStarts, MoodEnds
  <2>3. mood' \in Moods /\ mood'.by \in 0 .. Len(session)
    BY <1>b, <2>2 DEF Moods, Idle
  <2>4. QED
    BY <2>1, <2>3 DEF ShownInv, Asks, Draws, Wanted, Ours, ShownIsCurrent
<1>9. CASE MoodEvents
  <2>1. UNCHANGED <<account, session, lists>> /\ cookie # 0 /\ mood.by = cookie
    BY <1>9 DEF MoodEvents, signed, page
  <2>2. CASE UNCHANGED <<mood, page>>
    BY <1>a, <2>1, <2>2, PageStays DEF page, SessionInv
  <2>3. CASE mood' = [mood EXCEPT !.at = "listed"] /\ MoodOpens
    <3>1. mood' \in Moods /\ mood'.by = mood.by
      BY <2>3 DEF ShownInv, Asks, Moods
    <3>2. /\ view' = [page |-> "playlist", query |-> FALSE, loading |-> FALSE, old |-> FALSE]
          /\ shown' = [page |-> "playlist", query |-> FALSE, by |-> cookie]
          /\ fetches' = Passed(fetches)
      BY <2>1, <2>3 DEF MoodOpens, AtHome, CancelNavigation
    <3>3. fetches' \subseteq Navs /\ \A f \in fetches' : ~f.fresh /\ \E h \in fetches : f.by = h.by
      BY <3>2, PassedBy DEF ShownInv, Asks
    <3>4. Asks'
      BY <2>1, <3>1, <3>3 DEF ShownInv, Asks
    <3>5. Draws'
      <4>1. cookie \in 1 .. Len(session) /\ cookie \in Sessions
        BY <1>b, <2>1, Numbers DEF SessionInv
      <4>2. view' \in Viewed /\ shown' \in Seen /\ shown'.by = cookie
        BY <1>c, <3>2, <4>1 DEF Viewed, Seen
      <4>3. QED
        BY <2>1, <3>2, <3>3, <4>1, <4>2 DEF Draws
    <3>6. Wanted'
      BY <2>1, <3>2, <3>3 DEF Wanted
    <3>7. ShownIsCurrent'
      BY <2>1, <3>2 DEF ShownIsCurrent, SessionInv
    <3>8. QED
      BY <3>4, <3>5, <3>6, <3>7 DEF ShownInv
  <2>4. QED
    BY <1>9, <2>2, <2>3 DEF MoodEvents
<1>10. CASE Loaded
  <2>1. Navigate("home", FALSE) /\ UNCHANGED <<session, mood>> /\ account' = [account EXCEPT !.app = TRUE]
    BY <1>10 DEF Loaded, doing
  <2>2. account'.user = account.user /\ account'.of = account.of
    BY <2>1 DEF SessionInv, Accounts
  <2>3. QED
    BY <1>c, <2>1, <2>2, Navigated
<1>11. CASE AskLeave \/ WriteGoes \/ Written \/ WriteFails
  <2>1. UNCHANGED <<account, session, view, lists, shown, mood>>
    BY <1>11 DEF AskLeave, WriteGoes, Written, WriteFails, signed, doing
  <2>2. fetches' = fetches \/ fetches' = Passed(fetches)
    BY <1>11 DEF AskLeave, WriteGoes, Written, WriteFails, Settle, Proceed, Drop, CancelNavigation
  <2>3. CASE fetches' = fetches
    BY <1>a, <2>1, <2>3, PageStays DEF SessionInv
  <2>4. CASE fetches' = Passed(fetches)
    <3>1. fetches' \subseteq Navs /\ \A f \in fetches' : ~f.fresh /\ \E h \in fetches : f.by = h.by
      BY <2>4, PassedBy DEF ShownInv, Asks
    <3>2. QED
      BY <2>1, <3>1 DEF ShownInv, Asks, Draws, Wanted, Ours, ShownIsCurrent
  <2>5. QED
    BY <2>2, <2>3, <2>4
<1>12. CASE LoggedOut \/ Refused \/ WriteRefused
  <2>1. PICK navs \in SUBSET fetches, recs \in SUBSET lists, writes \in {chain, Tail(chain)} :
          SignedOut(navs, recs, writes)
    BY <1>12 DEF LoggedOut, Refused, WriteRefused
  <2>2. mood' \in {mood, Idle}
    BY <1>12 DEF LoggedOut, Refused, WriteRefused, CancelMood
  <2>3. QED
    BY <2>1, <2>2, OutShown
<1>13. CASE Connected
  <2>1. /\ UNCHANGED <<session, fetches, lists, shown>> /\ view' = [view EXCEPT !.old = TRUE]
        /\ mood' \in {mood, Idle}
    BY <1>13 DEF Connected, CancelMood
  <2>2. account'.user /\ account'.app = account.app
    BY <1>13 DEF Connected, SessionInv, Accounts
  <2>3. /\ view' \in Viewed /\ view'.page = view.page /\ view'.query = view.query
        /\ view'.loading = view.loading /\ view'.old
    BY <2>1 DEF ShownInv, Draws, Viewed
  <2>4. Idle \in Moods /\ Idle.by = 0
    BY <1>b DEF Moods, Idle
  <2>5. Asks' /\ Draws' /\ Wanted'
    BY <1>b, <2>1, <2>3, <2>4 DEF ShownInv, Asks, Draws, Wanted
  <2>6. ShownIsCurrent'
    BY <2>3, <2>5 DEF ShownIsCurrent, Draws
  <2>7. QED
    BY <2>5, <2>6 DEF ShownInv
<1>14. QED
  BY <1>1, <1>2, <1>3, <1>4, <1>5, <1>6, <1>7, <1>8, <1>9, <1>10, <1>11, <1>12, <1>13
     DEF Next, vars, signed, page, doing, ChooseQuick, ChooseLoose, EditQueue, LoadReads, LoadFails,
         TimerDue, LandsLate, LeaveServed, LeaveFails, Expires, Still

\* A signed-in page shows the last place it was sent to, with the data of its identity, except
\* for what was drawn before the connection changed and the recorder's list over a search
\* (navigate and its request id, web/navigation.js; onMood, web/mood.js).
THEOREM PageIsCurrent == Spec => []ShownIsCurrent
<1>1. Init => ShownInv
  BY SessionConstantsOK
     DEF Init, ShownInv, Asks, Draws, Wanted, ShownIsCurrent, AtHome, Blank, Idle, Viewed, Seen, Views,
         Moods, Sessions
<1>2. ShownInv => ShownIsCurrent
  BY DEF ShownInv
<1>3. SessionInv /\ ShownInv /\ SessionInv' /\ [Next]_vars => ShownInv'
  BY ShownStep
<1>4. QED
  BY <1>1, <1>2, <1>3, SessionHolds, PTL DEF Spec

-----------------------------------------------------------------------------
(* Saving                                                                   *)

Writes == [queue : Copies, fresh : BOOLEAN, sent : BOOLEAN, by : Sessions, leave : BOOLEAN]
Lost == [queue : Copies, by : Sessions]
Loads == [by : Sessions, form : BOOLEAN, read : BOOLEAN, edit : 0 .. MaxEdits]
Kinds ==
  /\ chain \in Seq(Writes) /\ queue \in Queues /\ edits \in 0 .. MaxEdits
  /\ saved \in [Identities -> Copies] /\ afloat \subseteq Lost /\ loads \subseteq Loads
  /\ \A k \in DOMAIN chain : chain[k].by \in 0 .. Len(session)
  /\ \A w \in afloat : w.by \in 1 .. Len(session)
  /\ \A l \in loads : l.by \in 1 .. Len(session)

\* A write that may still be sent was captured for the identity that has the page; one that
\* was sent went out for the identity it was captured for, or for none.
Own(w) ==
  /\ Waits(w) => account.user /\ w.queue.for = account.of
  /\ w.sent /\ w.by # 0 => w.queue.for = session[w.by]
Owned ==
  /\ \A i \in Identities : saved[i].for = i
  /\ \A k \in DOMAIN chain : Own(chain[k])
  /\ \A w \in afloat : w.queue.for = session[w.by]
SavesInv == Kinds /\ ("stranded" \in excused \/ Owned)

\* The chain t is the one there is, less its first d writes, and some are cancelled.
Left(t, d) ==
  /\ t \in Seq(Writes) /\ d \in {0, 1} /\ Len(chain) = Len(t) + d
  /\ \A k \in 1 .. Len(t) :
       /\ k + d \in 1 .. Len(chain)
       /\ t[k].queue = chain[k + d].queue /\ t[k].sent = chain[k + d].sent
       /\ t[k].by = chain[k + d].by /\ (t[k].fresh => chain[k + d].fresh)

LEMMA CancelledOnes ==
  ASSUME NEW t \in Seq(Writes)
  PROVE  /\ Cancelled(t) \in Seq(Writes) /\ Len(Cancelled(t)) = Len(t)
         /\ \A k \in 1 .. Len(t) :
              /\ Cancelled(t)[k].queue = t[k].queue /\ Cancelled(t)[k].sent = t[k].sent
              /\ Cancelled(t)[k].by = t[k].by /\ ~Cancelled(t)[k].fresh
<1>1. DOMAIN t = 1 .. Len(t) /\ Len(t) \in Nat /\ \A k \in 1 .. Len(t) : t[k] \in Writes
  OBVIOUS
<1>2. \A k \in 1 .. Len(t) :
        LET w == [t[k] EXCEPT !.fresh = FALSE]
        IN  w \in Writes /\ w.queue = t[k].queue /\ w.sent = t[k].sent /\ w.by = t[k].by /\ ~w.fresh
  BY <1>1 DEF Writes
<1>3. Cancelled(t) = [k \in 1 .. Len(t) |-> [t[k] EXCEPT !.fresh = FALSE]]
  BY <1>1 DEF Cancelled
<1>4. Cancelled(t) \in Seq(Writes) /\ Len(Cancelled(t)) = Len(t)
  BY <1>1, <1>2, <1>3
<1>5. \A k \in 1 .. Len(t) : Cancelled(t)[k] = [t[k] EXCEPT !.fresh = FALSE]
  BY <1>3
<1>6. QED
  BY <1>2, <1>4, <1>5

LEMMA Remains ==
  ASSUME Kinds, NEW t, NEW d \in {0, 1},
         \/ d = 0 /\ t \in {chain, Cancelled(chain)}
         \/ d = 1 /\ chain # <<>> /\ t \in {Tail(chain), Cancelled(Tail(chain))}
  PROVE  Left(t, d)
<1>1. chain \in Seq(Writes) /\ Len(chain) \in Nat
  BY DEF Kinds
<1>2. CASE d = 0
  <2>1. \A k \in 1 .. Len(chain) : k + 0 = k
    OBVIOUS
  <2>2. CASE t = chain
    BY <1>1, <1>2, <2>1, <2>2 DEF Left
  <2>3. CASE t = Cancelled(chain)
    <3>1. /\ t \in Seq(Writes) /\ Len(t) = Len(chain)
          /\ \A k \in 1 .. Len(chain) : /\ t[k].queue = chain[k].queue /\ t[k].sent = chain[k].sent
                                        /\ t[k].by = chain[k].by /\ ~t[k].fresh
      BY <1>1, <2>3, CancelledOnes
    <3>2. QED
      BY <1>1, <1>2, <2>1, <3>1 DEF Left
  <2>4. QED
    BY <1>2, <2>2, <2>3
<1>3. CASE d = 1 /\ chain # <<>>
  <2>1. /\ Tail(chain) \in Seq(Writes) /\ Len(chain) = Len(Tail(chain)) + 1 /\ Len(Tail(chain)) \in Nat
        /\ \A k \in 1 .. Len(Tail(chain)) : k + 1 \in 1 .. Len(chain) /\ Tail(chain)[k] = chain[k + 1]
    BY <1>1, <1>3
  <2>2. CASE t = Tail(chain)
    BY <1>3, <2>1, <2>2 DEF Left
  <2>3. CASE t = Cancelled(Tail(chain))
    <3>1. PICK r : r = Tail(chain)
      OBVIOUS
    <3>2. /\ t \in Seq(Writes) /\ Len(t) = Len(r)
          /\ \A k \in 1 .. Len(r) : /\ t[k].queue = r[k].queue /\ t[k].sent = r[k].sent
                                    /\ t[k].by = r[k].by /\ ~t[k].fresh
      BY <2>1, <2>3, <3>1, CancelledOnes
    <3>3. QED
      BY <1>3, <2>1, <3>1, <3>2 DEF Left
  <2>4. QED
    BY <1>3, <2>2, <2>3
<1>4. QED
  BY <1>2, <1>3

\* What a step does that only ends writes: they are done, lost or cancelled.
First == chain[1].sent /\ chain[1].by # 0
Ends(d) ==
  /\ Left(chain', d)
  /\ saved' \in [Identities -> Copies]
  /\ \A i \in Identities :
       \/ saved'[i] = saved[i]
       \/ \E w \in afloat : session[w.by] = i /\ saved'[i] = w.queue
       \/ d = 1 /\ First /\ session[chain[1].by] = i /\ saved'[i] = chain[1].queue
  /\ \A w \in afloat' :
       \/ w \in afloat
       \/ d = 1 /\ First /\ w = [queue |-> chain[1].queue, by |-> chain[1].by]
  /\ UNCHANGED <<session, edits>> /\ loads' \subseteq loads /\ queue' \in {queue, Nothing}
  /\ excused \subseteq excused'
  /\ UNCHANGED account \/ \A k \in 1 .. Len(chain') : ~chain'[k].fresh

LEMMA EndsKinds ==
  ASSUME Kinds, SessionInv, NEW d, Ends(d)
  PROVE  Kinds'
<1>1. chain' \in Seq(Writes) /\ \A k \in 1 .. Len(chain') : chain'[k].by \in 0 .. Len(session)
  BY DEF Ends, Left, Kinds
<1>2. queue' \in Queues
  BY SessionConstantsOK DEF Ends, Kinds, Nothing, Queues, Whose
<1>3. \A w \in afloat' : w \in Lost /\ w.by \in 1 .. Len(session)
  <2>1. ASSUME d = 1, First
        PROVE  LET w == [queue |-> chain[1].queue, by |-> chain[1].by]
               IN  w \in Lost /\ w.by \in 1 .. Len(session)
    <3>1. 1 \in DOMAIN chain
      BY <2>1 DEF Ends, Left, Kinds
    <3>2. chain[1] \in Writes /\ chain[1].by \in 0 .. Len(session) /\ Len(session) \in Nat
      BY <3>1, Numbers DEF Kinds, SessionInv
    <3>3. QED
      BY <2>1, <3>2 DEF First, Writes, Lost
  <2>2. QED
    BY <2>1 DEF Ends, Kinds
<1>4. QED
  BY <1>1, <1>2, <1>3 DEF Ends, Kinds

LEMMA EndsOwned ==
  ASSUME Kinds, Owned, SessionInv, NEW d, Ends(d)
  PROVE  Owned'
<1>1. d = 1 => 1 \in DOMAIN chain
  BY DEF Ends, Left, Kinds
<1>2. d = 1 /\ First => chain[1].queue.for = session[chain[1].by]
  BY <1>1 DEF Owned, Own, First
<1>3. \A i \in Identities : saved'[i].for = i
  BY <1>2 DEF Ends, Owned
<1>4. \A w \in afloat' : w.queue.for = session'[w.by]
  BY <1>2 DEF Ends, Owned
<1>5. ASSUME NEW k \in DOMAIN chain' PROVE Own(chain[k])'
  <2>1. k \in 1 .. Len(chain') /\ k + d \in DOMAIN chain
    BY DEF Ends, Left, Kinds
  <2>2. /\ chain'[k].queue = chain[k + d].queue /\ chain'[k].sent = chain[k + d].sent
        /\ chain'[k].by = chain[k + d].by /\ (chain'[k].fresh => chain[k + d].fresh)
    BY <2>1 DEF Ends, Left
  <2>3. Own(chain[k + d])
    BY <2>1 DEF Owned
  <2>4. QED
    BY <2>1, <2>2, <2>3 DEF Ends, Own, Waits
<1>6. QED
  BY <1>3, <1>4, <1>5 DEF Owned

\* A write that the server does, for the session that it came with.
LEMMA Saved ==
  ASSUME Kinds, SessionInv, NEW w, w.queue \in Copies, w.by \in 0 .. Len(session), Save(w)
  PROVE  /\ w.by # 0 /\ saved' \in [Identities -> Copies]
         /\ \A i \in Identities : saved'[i] = saved[i] \/ (session[w.by] = i /\ saved'[i] = w.queue)
<1>1. w.by # 0 /\ saved' = [saved EXCEPT ![session[w.by]] = w.queue]
  BY DEF Save
<1>2. w.by \in 1 .. Len(session)
  BY <1>1, Numbers DEF SessionInv
<1>3. session[w.by] \in Identities
  BY <1>2 DEF SessionInv
<1>4. QED
  BY <1>1, <1>3 DEF Kinds

\* What settling the first write leaves of the chain.
LEMMA Settled ==
  ASSUME Kinds, chain # <<>>, NEW ok \in BOOLEAN, Settle(ok)
  PROVE  Left(chain', 1) /\ excused \subseteq excused'
<1>1. chain' \in {Tail(chain), Cancelled(Tail(chain))} /\ excused \subseteq excused'
  BY DEF Settle, Proceed, Drop
<1>2. QED
  BY <1>1, Remains

\* What a sign-out leaves of it.
LEMMA OutEnds ==
  ASSUME Kinds, NEW d \in {0, 1}, NEW navs, NEW recs,
         SignedOut(navs, recs, IF d = 0 THEN chain ELSE Tail(chain)), d = 1 => chain # <<>>,
         loads' \subseteq loads
  PROVE  Ends(d)
<1>1. /\ chain' = Cancelled(IF d = 0 THEN chain ELSE Tail(chain)) /\ queue' = Nothing
      /\ UNCHANGED <<session, edits, saved, afloat, excused>>
  BY DEF SignedOut, kept
<1>2. Left(chain', d)
  BY <1>1, Remains
<1>3. \A k \in 1 .. Len(chain') : ~chain'[k].fresh
  <2>1. CASE d = 0
    BY <1>1, <2>1, CancelledOnes DEF Kinds
  <2>2. CASE d = 1
    <3>1. PICK r : r = Tail(chain)
      OBVIOUS
    <3>2. r \in Seq(Writes) /\ chain' = Cancelled(r)
      BY <1>1, <2>2, <3>1 DEF Kinds
    <3>3. QED
      BY <3>2, CancelledOnes
  <2>3. QED
    BY <2>1, <2>2
<1>4. QED
  BY <1>1, <1>2, <1>3 DEF Ends, Kinds

LEMMA OnlyEnds ==
  ASSUME Kinds, SessionInv,
         \/ AskLeave /\ ~account.user
         \/ WriteGoes /\ ~Goes(chain[1])
         \/ Written \/ WriteFails \/ LandsLate \/ LoggedOut \/ Refused \/ WriteRefused
  PROVE  \E d : Ends(d)
<1>a. chain # <<>> =>
        /\ 1 \in DOMAIN chain /\ chain[1] \in Writes /\ chain[1].queue \in Copies
        /\ chain[1].by \in 0 .. Len(session)
  <2>1. chain # <<>> => 1 \in DOMAIN chain
    BY DEF Kinds
  <2>2. \A k \in DOMAIN chain : chain[k] \in Writes /\ chain[k].by \in 0 .. Len(session)
    BY DEF Kinds
  <2>3. \A w \in Writes : w.queue \in Copies
    BY DEF Writes
  <2>4. QED
    BY <2>1, <2>2, <2>3
<1>1. CASE AskLeave /\ ~account.user
  <2>1. /\ chain' \in {chain, Cancelled(chain)} /\ excused \subseteq excused'
        /\ UNCHANGED <<account, session, loads, queue, edits, saved, afloat>>
    BY <1>1 DEF AskLeave, Drop, signed
  <2>2. Left(chain', 0)
    BY <2>1, Remains
  <2>3. Ends(0)
    BY <2>1, <2>2 DEF Ends, Kinds
  <2>4. QED
    BY <2>3
<1>2. CASE WriteGoes /\ ~Goes(chain[1])
  <2>1. /\ chain # <<>> /\ Settle(TRUE)
        /\ UNCHANGED <<account, session, loads, queue, edits, saved, afloat>>
    BY <1>2 DEF WriteGoes, signed
  <2>2. Ends(1)
    BY <2>1, Settled DEF Ends, Kinds
  <2>3. QED
    BY <2>2
<1>3. CASE Written \/ WriteFails
  <2>1. PICK ok \in BOOLEAN : Settle(ok)
    BY <1>3 DEF Written, WriteFails
  <2>2. chain # <<>> /\ chain[1].sent /\ UNCHANGED <<account, session, loads, queue, edits>>
    BY <1>3 DEF Written, WriteFails, signed
  <2>3. /\ saved' \in [Identities -> Copies]
        /\ \A i \in Identities : \/ saved'[i] = saved[i]
                                 \/ First /\ session[chain[1].by] = i /\ saved'[i] = chain[1].queue
    <3>1. CASE saved' = saved
      BY <3>1 DEF Kinds
    <3>2. CASE Save(chain[1])
      BY <1>a, <2>2, <3>2, Saved DEF First
    <3>3. QED
      BY <1>3, <3>1, <3>2 DEF Written, WriteFails
  <2>4. \A w \in afloat' : \/ w \in afloat
                           \/ First /\ w = [queue |-> chain[1].queue, by |-> chain[1].by]
    BY <1>3, <2>2 DEF Written, WriteFails, First
  <2>5. Left(chain', 1) /\ excused \subseteq excused'
    BY <2>1, <2>2, Settled
  <2>6. Ends(1)
    BY <2>2, <2>3, <2>4, <2>5 DEF Ends
  <2>7. QED
    BY <2>6
<1>4. CASE LandsLate
  <2>1. PICK w \in afloat : Save(w) /\ afloat' = afloat \ {w}
    BY <1>4 DEF LandsLate
  <2>2. UNCHANGED <<account, session, loads, queue, chain, edits, excused>>
    BY <1>4 DEF LandsLate, signed, saves
  <2>3. w.queue \in Copies /\ w.by \in 0 .. Len(session)
    <3>1. w \in Lost /\ w.by \in 1 .. Len(session) /\ Len(session) \in Nat
      BY Numbers DEF Kinds, SessionInv
    <3>2. QED
      BY <3>1 DEF Lost
  <2>4. /\ saved' \in [Identities -> Copies]
        /\ \A i \in Identities : saved'[i] = saved[i] \/ (session[w.by] = i /\ saved'[i] = w.queue)
    BY <2>1, <2>3, Saved
  <2>5. Left(chain', 0)
    BY <2>2, Remains
  <2>6. Ends(0)
    BY <2>1, <2>2, <2>4, <2>5 DEF Ends
  <2>7. QED
    BY <2>6
<1>5. CASE LoggedOut \/ Refused
  <2>1. loads' \subseteq loads /\ \E navs, recs : SignedOut(navs, recs, chain)
    BY <1>5 DEF LoggedOut, Refused
  <2>2. Ends(0)
    BY <2>1, OutEnds
  <2>3. QED
    BY <2>2
<1>6. CASE WriteRefused
  <2>1. loads' \subseteq loads /\ SignedOut(fetches, lists, Tail(chain)) /\ chain # <<>>
    BY <1>6 DEF WriteRefused
  <2>2. Ends(1)
    BY <2>1, OutEnds
  <2>3. QED
    BY <2>2
<1>7. QED
  BY <1>1, <1>2, <1>3, <1>4, <1>5, <1>6

\* The other steps: the queue changes, a snapshot is queued, or the first write is sent.
Edits ==
  /\ edits < MaxEdits /\ edits' = edits + 1 /\ queue' = [queue EXCEPT !.edit = edits + 1]
  /\ UNCHANGED <<signed, chain, kept>>
Appends ==
  /\ account.user /\ \E b \in BOOLEAN : chain' = Append(chain, Snapshot(b))
  /\ UNCHANGED <<signed, queue, edits, saved, afloat>> /\ excused \subseteq excused'
Sends ==
  /\ chain # <<>> /\ chain[1].fresh /\ ~chain[1].sent
  /\ chain' = [chain EXCEPT ![1].sent = TRUE, ![1].by = cookie]
  /\ UNCHANGED <<signed, queue, edits, saved, afloat, excused>>

LEMMA Sorts ==
  ASSUME Kinds, SessionInv, [Next]_vars
  PROVE  \/ \E d : Ends(d)
         \/ Edits \/ Appends \/ Sends
         \/ SignIn \/ LeaveServed \/ Connected \/ LoadReads \/ Loaded
<1>1. CASE /\ UNCHANGED <<account, session, saved, afloat, queue, chain, edits>>
           /\ loads' \subseteq loads /\ excused \subseteq excused'
  <2>1. Left(chain', 0)
    BY <1>1, Remains
  <2>2. Ends(0)
    BY <1>1, <2>1 DEF Ends, Kinds
  <2>3. QED
    BY <2>2
<1>2. CASE QuickAnswers \/ LooseAnswers \/ EditQueue \/ MoodEvents
  <2>1. UNCHANGED <<signed, kept>>
    BY <1>2 DEF QuickAnswers, LooseAnswers, EditQueue, MoodEvents
  <2>2. CASE Edit
    BY <2>1, <2>2 DEF Edit, Edits
  <2>3. CASE UNCHANGED saves
    BY <1>1, <2>1, <2>3 DEF saves, kept, signed
  <2>4. QED
    BY <1>2, <2>2, <2>3 DEF QuickAnswers, LooseAnswers, EditQueue, MoodEvents
<1>3. CASE AskLeave \/ TimerDue
  <2>1. /\ UNCHANGED <<signed, queue, edits, saved, afloat>> /\ excused \subseteq excused'
    BY <1>3 DEF AskLeave, TimerDue, Drop
  <2>2. CASE account.user
    <3>1. \E b \in BOOLEAN : Flush(b)
      BY <1>3, <2>2 DEF AskLeave, TimerDue
    <3>2. QED
      BY <2>1, <2>2, <3>1 DEF Flush, Appends
  <2>3. CASE ~account.user
    <3>1. CASE AskLeave
      BY <2>3, <3>1, OnlyEnds
    <3>2. CASE TimerDue
      BY <1>1, <2>1, <2>3, <3>2 DEF TimerDue, Flush, signed
    <3>3. QED
      BY <1>3, <3>1, <3>2
  <2>4. QED
    BY <2>2, <2>3
<1>4. CASE WriteGoes
  <2>1. CASE Goes(chain[1])
    BY <1>4, <2>1 DEF WriteGoes, Goes, Sends
  <2>2. QED
    BY <1>4, <2>1, OnlyEnds
<1>5. CASE Written \/ WriteFails \/ LandsLate \/ LoggedOut \/ Refused \/ WriteRefused
  BY <1>5, OnlyEnds
<1>6. CASE LoadFails
  BY <1>1, <1>6 DEF LoadFails, saves, kept
<1>7. QED
  BY <1>1, <1>2, <1>3, <1>4, <1>5, <1>6
     DEF Next, vars, signed, saves, kept, Still, Go, NavAnswers, ListAnswers, ListAgain, ChooseQuick,
         ChooseLoose, BuildMood, MoodStarts, MoodEnds, LeaveFails, Expires

LEMMA SnapshotKind ==
  ASSUME Kinds, SessionInv, account.user, NEW b \in BOOLEAN, NEW w, w = Snapshot(b)
  PROVE  /\ w \in Writes /\ w.by = 0 /\ w.fresh /\ ~w.sent /\ w.queue.for = account.of
         /\ w.queue.of = queue.of /\ w.queue.edit = queue.edit
<1>1. account.of \in Identities /\ 0 \in Sessions
  BY Numbers DEF SessionInv
<1>2. queue.of \in Whose /\ queue.edit \in 0 .. MaxEdits
  BY DEF Kinds, Queues
<1>3. QED
  BY <1>1, <1>2 DEF Snapshot, Writes, Copies

LEMMA AppendKind ==
  ASSUME Kinds, SessionInv, Appends
  PROVE  \E w \in Writes :
           /\ chain' \in Seq(Writes) /\ Len(chain') = Len(chain) + 1 /\ chain'[Len(chain) + 1] = w
           /\ DOMAIN chain = 1 .. Len(chain) /\ DOMAIN chain' = 1 .. Len(chain) + 1
           /\ \A k \in DOMAIN chain' : k = Len(chain) + 1 \/ (k \in DOMAIN chain /\ chain'[k] = chain[k])
           /\ w.by = 0 /\ w.fresh /\ ~w.sent /\ w.queue.for = account.of
           /\ w.queue.of = queue.of /\ w.queue.edit = queue.edit
<1>1. PICK b \in BOOLEAN : chain' = Append(chain, Snapshot(b))
  BY DEF Appends
<1>2. PICK w : w = Snapshot(b)
  OBVIOUS
<1>3. /\ w \in Writes /\ w.by = 0 /\ w.fresh /\ ~w.sent /\ w.queue.for = account.of
      /\ w.queue.of = queue.of /\ w.queue.edit = queue.edit
  BY <1>2, SnapshotKind DEF Appends
<1>4. /\ chain' \in Seq(Writes) /\ Len(chain') = Len(chain) + 1 /\ chain'[Len(chain) + 1] = w
      /\ DOMAIN chain = 1 .. Len(chain) /\ DOMAIN chain' = 1 .. Len(chain) + 1
      /\ \A k \in DOMAIN chain' : k = Len(chain) + 1 \/ (k \in DOMAIN chain /\ chain'[k] = chain[k])
  BY <1>1, <1>2, <1>3 DEF Kinds
<1>5. QED
  BY <1>3, <1>4

LEMMA SendKind ==
  ASSUME Kinds, SessionInv, Sends
  PROVE  /\ 1 \in DOMAIN chain /\ chain' \in Seq(Writes) /\ DOMAIN chain' = DOMAIN chain
         /\ \A k \in DOMAIN chain : chain'[k].queue = chain[k].queue /\ (k # 1 => chain'[k] = chain[k])
         /\ chain'[1].sent /\ chain'[1].by = cookie
<1>1. 1 \in DOMAIN chain /\ chain[1] \in Writes
  BY DEF Kinds, Sends
<1>2. cookie \in Sessions
  BY Numbers DEF SessionInv
<1>3. PICK w : w = [chain[1] EXCEPT !.sent = TRUE, !.by = cookie]
  OBVIOUS
<1>4. w \in Writes /\ w.queue = chain[1].queue /\ w.sent /\ w.by = cookie
  BY <1>1, <1>2, <1>3 DEF Writes
<1>5. chain' = [chain EXCEPT ![1] = w]
  BY <1>1, <1>3 DEF Sends
<1>6. QED
  BY <1>1, <1>4, <1>5 DEF Kinds

LEMMA KindsStep ==
  ASSUME Kinds, SessionInv, SessionInv', [Next]_vars
  PROVE  Kinds'
<1>a. /\ MaxEdits \in Nat /\ Len(session) \in Nat /\ 0 \in 0 .. Len(session)
      /\ \A n \in 1 .. Len(session) : n \in Sessions
  BY SessionConstantsOK, Numbers DEF SessionInv
<1>b. Grown
  BY SessionsStay
<1>c. Len(session') \in Nat /\ \A n \in 0 .. Len(session) : n \in 0 .. Len(session') /\ (n \in 1 .. Len(session) => n \in 1 .. Len(session'))
  <2>1. Len(session') \in Nat
    BY DEF SessionInv
  <2>2. QED
    BY <1>a, <1>b, <2>1 DEF Grown
<1>d. /\ \A k \in DOMAIN chain : chain[k].by \in 0 .. Len(session')
      /\ \A w \in afloat : w.by \in 1 .. Len(session')
      /\ \A l \in loads : l.by \in 1 .. Len(session')
  <2>1. \A n \in 1 .. Len(session) : n \in 1 .. Len(session')
    BY <1>a, <1>c
  <2>2. QED
    BY <1>c, <2>1 DEF Kinds
<1>1. ASSUME NEW d, Ends(d)
      PROVE  Kinds'
  BY <1>1, EndsKinds
<1>2. CASE Edits
  <2>1. queue' \in Queues /\ edits' \in 0 .. MaxEdits
    BY <1>2, <1>a DEF Edits, Kinds, Queues
  <2>2. QED
    BY <1>2, <2>1 DEF Edits, Kinds, signed, kept
<1>3. CASE Appends
  <2>1. chain' \in Seq(Writes) /\ \A k \in DOMAIN chain' : chain'[k].by \in 0 .. Len(session)
    BY <1>3, <1>a, AppendKind DEF Kinds
  <2>2. QED
    BY <1>3, <2>1 DEF Appends, Kinds, signed
<1>4. CASE Sends
  <2>1. chain' \in Seq(Writes) /\ \A k \in DOMAIN chain' : chain'[k].by \in 0 .. Len(session)
    BY <1>4, SendKind DEF Kinds, SessionInv
  <2>2. QED
    BY <1>4, <2>1 DEF Sends, Kinds, signed
<1>5. CASE SignIn \/ LeaveServed \/ Connected
  <2>1. UNCHANGED <<queue, chain, edits, saved, afloat>>
    BY <1>5 DEF SignIn, LeaveServed, Connected, saves, kept
  <2>2. loads' \subseteq Loads /\ \A l \in loads' : l.by \in 1 .. Len(session')
    <3>1. CASE LeaveServed
      BY <1>d, <3>1 DEF LeaveServed, Kinds
    <3>2. ASSUME NEW n \in 1 .. Len(session'), NEW form \in BOOLEAN, Load(n, form)
          PROVE  loads' \subseteq Loads /\ \A l \in loads' : l.by \in 1 .. Len(session')
      <4>1. n \in Sessions /\ 0 \in 0 .. MaxEdits
        <5>1. Len(session') <= MaxSessions /\ MaxSessions \in Nat
          BY SessionConstantsOK DEF SessionInv
        <5>2. QED
          BY <1>a, <1>c, <5>1 DEF Sessions
      <4>2. PICK m : m = [by |-> n, form |-> form, read |-> FALSE, edit |-> 0]
        OBVIOUS
      <4>3. m \in Loads /\ m.by = n
        BY <4>1, <4>2 DEF Loads
      <4>4. loads' = loads \cup {m}
        BY <3>2, <4>2 DEF Load
      <4>5. QED
        BY <1>d, <4>3, <4>4 DEF Kinds
    <3>3. CASE SignIn
      <4>1. Load(Len(session) + 1, TRUE) /\ \E i \in Identities : session' = Append(session, i)
        BY <3>3 DEF SignIn
      <4>2. Len(session) + 1 \in 1 .. Len(session')
        BY <1>a, <4>1 DEF SessionInv
      <4>3. QED
        BY <3>2, <4>1, <4>2
    <3>4. CASE Connected
      <4>1. Load(leave.n, FALSE) /\ leave.n \in 1 .. Len(session')
        BY <3>4 DEF Connected, SessionInv
      <4>2. QED
        BY <3>2, <4>1
    <3>5. QED
      BY <1>5, <3>1, <3>3, <3>4
  <2>3. QED
    BY <1>d, <2>1, <2>2 DEF Kinds
<1>6. CASE LoadReads
  <2>1. PICK l \in loads : loads' = (loads \ {l}) \cup {[l EXCEPT !.read = TRUE, !.edit = saved[session[l.by]].edit]}
    BY <1>6 DEF LoadReads
  <2>2. UNCHANGED <<session, saves, kept>>
    BY <1>6 DEF LoadReads
  <2>3. l \in Loads /\ l.by \in 1 .. Len(session) /\ session[l.by] \in Identities
    BY DEF Kinds, SessionInv
  <2>4. saved[session[l.by]].edit \in 0 .. MaxEdits
    BY <2>3 DEF Kinds, Copies
  <2>5. PICK m : m = [l EXCEPT !.read = TRUE, !.edit = saved[session[l.by]].edit]
    OBVIOUS
  <2>6. m \in Loads /\ m.by = l.by
    BY <2>3, <2>4, <2>5 DEF Loads
  <2>7. loads' \subseteq Loads /\ \A g \in loads' : g.by \in 1 .. Len(session)
    BY <2>1, <2>3, <2>5, <2>6 DEF Kinds
  <2>8. QED
    BY <2>2, <2>7 DEF Kinds, saves, kept
<1>7. CASE Loaded
  <2>1. PICK l \in loads : loads' = loads \ {l} /\ queue' = [of |-> session[l.by], edit |-> l.edit]
    BY <1>7 DEF Loaded
  <2>2. UNCHANGED <<session, chain, edits, saved, afloat>>
    BY <1>7 DEF Loaded
  <2>3. l \in Loads /\ session[l.by] \in Identities
    BY DEF Kinds, SessionInv
  <2>4. queue' \in Queues
    BY <2>1, <2>3 DEF Loads, Queues, Whose
  <2>5. QED
    BY <2>1, <2>2, <2>4 DEF Kinds
<1>8. QED
  BY <1>1, <1>2, <1>3, <1>4, <1>5, <1>6, <1>7, Sorts

\* Whoever has the page now, what waits was captured for it, or is stranded.
LEMMA Waiting ==
  ASSUME Kinds, Owned, SessionInv, Grown, NEW i \in Identities, account'.user, account'.of = i, ~Stranded(i),
         UNCHANGED <<chain, saved, afloat>>
  PROVE  Owned'
<1>1. \A n \in 1 .. Len(session) : session'[n] = session[n]
  BY DEF Grown
<1>2. \A n \in 0 .. Len(session) : n # 0 => n \in 1 .. Len(session)
  BY Numbers DEF SessionInv
<1>3. \A k \in DOMAIN chain : Waits(chain[k]) => chain[k].queue.for = i
  BY DEF Stranded
<1>4. \A w \in afloat : w.queue.for = session'[w.by]
  BY <1>1 DEF Owned, Kinds
<1>5. ASSUME NEW k \in DOMAIN chain'
      PROVE  Own(chain[k])'
  BY <1>1, <1>2, <1>3 DEF Owned, Own, Kinds, Waits
<1>6. QED
  BY <1>4, <1>5 DEF Owned

LEMMA OwnedStep ==
  ASSUME Kinds, Owned, SessionInv, [Next]_vars
  PROVE  Owned' \/ "stranded" \in excused'
<1>a. Grown
  BY SessionsStay
<1>1. ASSUME NEW d, Ends(d)
      PROVE  Owned'
  BY <1>1, EndsOwned
<1>2. CASE Edits
  BY <1>2 DEF Edits, Owned, Own, signed, kept
<1>3. CASE Appends
  <2>1. PICK w \in Writes :
          /\ DOMAIN chain = 1 .. Len(chain) /\ chain'[Len(chain) + 1] = w
          /\ \A k \in DOMAIN chain' : k = Len(chain) + 1 \/ (k \in DOMAIN chain /\ chain'[k] = chain[k])
          /\ ~w.sent /\ w.queue.for = account.of
    BY <1>3, AppendKind
  <2>2. account.user /\ UNCHANGED <<account, session, saved, afloat>>
    BY <1>3 DEF Appends, signed
  <2>3. Own(w)
    BY <2>1, <2>2 DEF Own
  <2>4. ASSUME NEW k \in DOMAIN chain' PROVE Own(chain[k])'
    BY <2>1, <2>2, <2>3 DEF Owned, Own
  <2>5. QED
    BY <2>2, <2>4 DEF Owned
<1>4. CASE Sends
  <2>1. /\ 1 \in DOMAIN chain /\ DOMAIN chain' = DOMAIN chain
        /\ \A k \in DOMAIN chain : chain'[k].queue = chain[k].queue /\ (k # 1 => chain'[k] = chain[k])
        /\ chain'[1].sent /\ chain'[1].by = cookie
    BY <1>4, SendKind
  <2>2. UNCHANGED <<account, session, saved, afloat>> /\ Waits(chain[1])
    BY <1>4 DEF Sends, signed, Waits
  <2>3. account.user /\ chain[1].queue.for = account.of
    BY <2>1, <2>2 DEF Owned, Own
  <2>4. cookie # 0 => chain[1].queue.for = session[cookie]
    BY <2>3 DEF SessionInv
  <2>5. ASSUME NEW k \in DOMAIN chain' PROVE Own(chain[k])'
    <3>1. CASE k = 1
      BY <2>1, <2>2, <2>4, <3>1 DEF Own, Waits
    <3>2. CASE k # 1
      BY <2>1, <2>2, <3>2 DEF Owned, Own
    <3>3. QED
      BY <3>1, <3>2
  <2>6. QED
    BY <2>2, <2>5 DEF Owned
<1>5. CASE SignIn
  <2>1. PICK i \in Identities : account' = [user |-> TRUE, app |-> FALSE, login |-> Len(session) + 1, of |-> i] /\ Strand(i)
    BY <1>5 DEF SignIn
  <2>2. UNCHANGED <<chain, saved, afloat>>
    BY <1>5 DEF SignIn, saves
  <2>3. CASE Stranded(i)
    BY <2>1, <2>3 DEF Strand
  <2>4. CASE ~Stranded(i)
    BY <1>a, <2>1, <2>2, <2>4, Waiting
  <2>5. QED
    BY <2>3, <2>4
<1>6. CASE Connected
  <2>1. /\ leave.n \in 1 .. Len(session) /\ Strand(session[leave.n])
        /\ account' = [account EXCEPT !.user = TRUE, !.of = session[leave.n],
                                      !.login = IF account.user THEN account.login ELSE leave.n]
    BY <1>6 DEF Connected, SessionInv
  <2>2. session[leave.n] \in Identities
    BY <2>1 DEF SessionInv
  <2>3. account'.user /\ account'.of = session[leave.n]
    BY <2>1 DEF SessionInv, Accounts
  <2>4. UNCHANGED <<chain, saved, afloat>>
    BY <1>6 DEF Connected, saves
  <2>5. CASE Stranded(session[leave.n])
    BY <2>1, <2>5 DEF Strand
  <2>6. CASE ~Stranded(session[leave.n])
    BY <1>a, <2>2, <2>3, <2>4, <2>6, Waiting
  <2>7. QED
    BY <2>5, <2>6
<1>7. CASE LeaveServed \/ LoadReads \/ Loaded
  <2>1. UNCHANGED <<chain, saved, afloat>> /\ account'.user = account.user /\ account'.of = account.of
    BY <1>7 DEF LeaveServed, LoadReads, Loaded, saves, kept, SessionInv, Accounts
  <2>2. CASE account.user
    <3>1. account.of \in Identities /\ ~Stranded(account.of)
      BY <2>2 DEF SessionInv, Stranded, Owned, Own
    <3>2. QED
      BY <1>a, <2>1, <2>2, <3>1, Waiting
  <2>3. CASE ~account.user
    <3>1. \A k \in DOMAIN chain : ~Waits(chain[k])
      BY <2>3 DEF Owned, Own
    <3>2. \A n \in 1 .. Len(session) : session'[n] = session[n]
      BY <1>a DEF Grown
    <3>3. \A n \in 0 .. Len(session) : n # 0 => n \in 1 .. Len(session)
      BY Numbers DEF SessionInv
    <3>4. \A w \in afloat : w.queue.for = session'[w.by]
      BY <3>2 DEF Owned, Kinds
    <3>5. ASSUME NEW k \in DOMAIN chain' PROVE Own(chain[k])'
      BY <2>1, <3>1, <3>2, <3>3 DEF Owned, Own, Kinds, Waits
    <3>6. QED
      BY <2>1, <3>4, <3>5 DEF Owned
  <2>4. QED
    BY <2>2, <2>3
<1>8. QED
  BY <1>1, <1>2, <1>3, <1>4, <1>5, <1>6, <1>7, Sorts

\* What excuses stays.
LEMMA ExcusesStay ==
  ASSUME Kinds, SessionInv, [Next]_vars
  PROVE  excused \subseteq excused'
<1>1. ASSUME NEW d, Ends(d) PROVE excused \subseteq excused'
  BY <1>1 DEF Ends
<1>2. QED
  BY <1>1, Sorts
     DEF Edits, Appends, Sends, SignIn, LeaveServed, Connected, LoadReads, Loaded, Strand, kept

LEMMA SavesStep ==
  ASSUME SavesInv, SessionInv, SessionInv', [Next]_vars
  PROVE  SavesInv'
<1>1. Kinds' /\ excused \subseteq excused'
  BY KindsStep, ExcusesStay DEF SavesInv
<1>2. Owned => Owned' \/ "stranded" \in excused'
  BY OwnedStep DEF SavesInv
<1>3. QED
  BY <1>1, <1>2 DEF SavesInv

LEMMA SavesStart == Init => SavesInv
<1>1. ASSUME Init PROVE Kinds
  <2>1. [i \in Identities |-> [of |-> i, edit |-> 0, for |-> i]] \in [Identities -> Copies]
    BY SessionConstantsOK DEF Copies, Whose
  <2>2. queue \in Queues /\ edits \in 0 .. MaxEdits
    BY <1>1, SessionConstantsOK DEF Init, Nothing, Queues, Whose
  <2>3. QED
    BY <1>1, <2>1, <2>2 DEF Init, Kinds
<1>2. Init => Owned
  BY DEF Init, Owned
<1>3. QED
  BY <1>1, <1>2 DEF SavesInv

\* A queue captured while one identity had the page is never saved for another, unless a
\* write that waited for the one before went out with the cookie of a new connection or of
\* another sign-in (flushState, web/api.js; connect, web/auth.js).
THEOREM EachSavesItsOwn == Spec => []SavesOwn
<1>1. SavesInv => SavesOwn
  BY DEF SavesInv, Owned, SavesOwn
<1>2. SessionInv /\ SavesInv /\ SessionInv' /\ [Next]_vars => SavesInv'
  BY SavesStep
<1>3. QED
  BY <1>1, <1>2, SavesStart, SessionHolds, PTL DEF Spec

-----------------------------------------------------------------------------
(* The order of the writes.  A write that was cancelled is never sent: only *)
(* those that are live, and the ones afloat, count.                         *)

NotOlder(a, b) == a.of \in Identities /\ a.of = b.of => a.edit <= b.edit
\* q is no newer than the page's queue and than the writes that are still to be done.
Precedes(q) ==
  /\ q.edit <= edits /\ NotOlder(q, queue)
  /\ \A k \in DOMAIN chain : Live(chain[k]) => NotOlder(q, chain[k].queue)
Bounded ==
  /\ queue.edit <= edits /\ \A l \in loads : l.edit <= edits
  /\ \A i \in Identities : saved[i].edit <= edits
InOrder ==
  /\ Bounded
  /\ \A k \in DOMAIN chain :
       Live(chain[k]) =>
         /\ chain[k].queue.edit <= edits /\ NotOlder(chain[k].queue, queue)
         /\ \A j \in DOMAIN chain : k < j /\ Live(chain[j]) => NotOlder(chain[k].queue, chain[j].queue)
  /\ \A i \in Identities : saved[i].of = i => Precedes(saved[i])
  /\ \A w \in afloat : Precedes(w.queue)
OrderInv == SavesInv /\ ("replaced" \in excused \/ InOrder)

LEMMA QueueTypes ==
  ASSUME Kinds
  PROVE  /\ edits \in Nat /\ MaxEdits \in Nat /\ queue.edit \in Nat
         /\ Len(chain) \in Nat /\ DOMAIN chain = 1 .. Len(chain)
         /\ \A k \in DOMAIN chain : chain[k].queue.edit \in Nat
         /\ \A i \in Identities : saved[i].edit \in Nat
         /\ \A w \in afloat : w.queue.edit \in Nat
         /\ \A l \in loads : l.edit \in Nat
<1>1. MaxEdits \in Nat /\ \A n \in 0 .. MaxEdits : n \in Nat
  BY SessionConstantsOK
<1>2. edits \in Nat /\ queue.edit \in Nat /\ Len(chain) \in Nat /\ DOMAIN chain = 1 .. Len(chain)
  BY <1>1 DEF Kinds, Queues
<1>3. \A q \in Copies : q.edit \in Nat
  BY <1>1 DEF Copies
<1>4. \A k \in DOMAIN chain : chain[k].queue \in Copies
  <2>1. \A k \in DOMAIN chain : chain[k] \in Writes
    BY DEF Kinds
  <2>2. QED
    BY <2>1 DEF Writes
<1>5. \A i \in Identities : saved[i] \in Copies
  BY DEF Kinds
<1>6. \A w \in afloat : w.queue \in Copies
  BY DEF Kinds, Lost
<1>7. \A l \in loads : l.edit \in Nat
  BY <1>1 DEF Kinds, Loads
<1>8. QED
  BY <1>1, <1>2, <1>3, <1>4, <1>5, <1>6, <1>7

\* Writes that are done, lost or cancelled leave the others in order.
LEMMA EndsOrders ==
  ASSUME Kinds, InOrder, NEW d, Ends(d)
  PROVE  InOrder'
<1>1. \A k \in DOMAIN chain' :
        /\ k + d \in DOMAIN chain /\ chain'[k].queue = chain[k + d].queue
        /\ Live(chain'[k]) => Live(chain[k + d])
  BY DEF Ends, Left, Kinds, Live
<1>2. DOMAIN chain' \subseteq Nat /\ d \in {0, 1}
  BY DEF Ends, Left
<1>3. edits' = edits /\ queue' \in {queue, Nothing} /\ loads' \subseteq loads
  BY DEF Ends
<1>4. /\ \A q : NotOlder(q, queue) => NotOlder(q, queue')
      /\ queue'.edit <= edits
  BY <1>3, SessionConstantsOK, QueueTypes DEF NotOlder, Nothing, InOrder, Bounded
<1>5. ASSUME NEW q, Precedes(q)
      PROVE  /\ q.edit <= edits' /\ NotOlder(q, queue')
             /\ \A k \in DOMAIN chain' : Live(chain'[k]) => NotOlder(q, chain'[k].queue)
  BY <1>1, <1>3, <1>4, <1>5 DEF Precedes
<1>6. d = 1 /\ First => \A k \in DOMAIN chain' : Live(chain'[k]) => NotOlder(chain[1].queue, chain'[k].queue)
  <2>1. ASSUME d = 1, First, NEW k \in DOMAIN chain', Live(chain'[k])
        PROVE  NotOlder(chain[1].queue, chain'[k].queue)
    <3>1. 1 \in DOMAIN chain /\ Live(chain[1]) /\ 1 < k + d
      BY <1>1, <1>2, <2>1 DEF Ends, Left, Kinds, First, Live
    <3>2. QED
      BY <1>1, <2>1, <3>1 DEF InOrder
  <2>2. QED
    BY <2>1
<1>7. d = 1 /\ First => /\ chain[1].queue.edit <= edits' /\ NotOlder(chain[1].queue, queue')
                        /\ \A k \in DOMAIN chain' : Live(chain'[k]) => NotOlder(chain[1].queue, chain'[k].queue)
  <2>1. d = 1 => 1 \in DOMAIN chain
    BY DEF Ends, Left, Kinds
  <2>2. QED
    BY <1>3, <1>4, <1>6, <2>1 DEF InOrder, First, Live
<1>8. \A k \in DOMAIN chain' : Live(chain'[k]) =>
        /\ chain'[k].queue.edit <= edits' /\ NotOlder(chain'[k].queue, queue')
        /\ \A j \in DOMAIN chain' : k < j /\ Live(chain'[j]) => NotOlder(chain'[k].queue, chain'[j].queue)
  <2>1. \A k, j \in DOMAIN chain' : k < j => k + d < j + d
    BY <1>2
  <2>2. QED
    BY <1>1, <1>3, <1>4, <2>1 DEF InOrder
<1>9. \A w \in afloat' :
        /\ w.queue.edit <= edits' /\ NotOlder(w.queue, queue')
        /\ \A k \in DOMAIN chain' : Live(chain'[k]) => NotOlder(w.queue, chain'[k].queue)
  BY <1>5, <1>7 DEF Ends, InOrder
<1>10. \A i \in Identities : saved'[i].edit <= edits'
  BY <1>3, <1>7 DEF Ends, InOrder, Bounded, Precedes
<1>11. ASSUME NEW i \in Identities, saved'[i].of = i
       PROVE  /\ saved'[i].edit <= edits' /\ NotOlder(saved'[i], queue')
              /\ \A k \in DOMAIN chain' : Live(chain'[k]) => NotOlder(saved'[i], chain'[k].queue)
  BY <1>5, <1>7, <1>11 DEF Ends, InOrder
<1>12. Bounded'
  BY <1>3, <1>4, <1>10 DEF InOrder, Bounded
<1>13. QED
  BY <1>8, <1>9, <1>11, <1>12 DEF InOrder, Precedes

\* A change is newer than all there is, and a snapshot as new as the page's queue.
LEMMA EditOrders ==
  ASSUME Kinds, InOrder, Edits
  PROVE  InOrder'
<1>1. /\ queue'.of = queue.of /\ queue'.edit = edits' /\ edits' = edits + 1 /\ edits \in Nat
      /\ UNCHANGED <<chain, saved, afloat, loads>>
  BY QueueTypes DEF Edits, Kinds, Queues, signed, kept
<1>2. \A q : q.edit \in Nat /\ q.edit <= edits => q.edit <= edits' /\ NotOlder(q, queue')
  BY <1>1 DEF NotOlder
<1>3. ASSUME NEW q, q.edit \in Nat, Precedes(q)
      PROVE  /\ q.edit <= edits' /\ NotOlder(q, queue')
             /\ \A k \in DOMAIN chain' : Live(chain'[k]) => NotOlder(q, chain'[k].queue)
  BY <1>1, <1>2, <1>3 DEF Precedes
<1>4. Bounded'
  <2>1. \A n \in Nat : n <= edits => n <= edits'
    BY <1>1
  <2>2. QED
    BY <1>1, <2>1, QueueTypes DEF InOrder, Bounded
<1>5. \A k \in DOMAIN chain' : Live(chain'[k]) =>
        /\ chain'[k].queue.edit <= edits' /\ NotOlder(chain'[k].queue, queue')
        /\ \A j \in DOMAIN chain' : k < j /\ Live(chain'[j]) => NotOlder(chain'[k].queue, chain'[j].queue)
  BY <1>1, <1>2, QueueTypes DEF InOrder
<1>6. QED
  BY <1>1, <1>3, <1>4, <1>5, QueueTypes DEF InOrder, Precedes

LEMMA AppendOrders ==
  ASSUME Kinds, InOrder, SessionInv, Appends
  PROVE  InOrder'
<1>1. PICK w \in Writes :
        /\ DOMAIN chain = 1 .. Len(chain) /\ DOMAIN chain' = 1 .. Len(chain) + 1
        /\ chain'[Len(chain) + 1] = w
        /\ \A k \in DOMAIN chain' : k = Len(chain) + 1 \/ (k \in DOMAIN chain /\ chain'[k] = chain[k])
        /\ w.queue.of = queue.of /\ w.queue.edit = queue.edit
  BY AppendKind
<1>2. UNCHANGED <<queue, edits, saved, afloat, loads>> /\ Len(chain) \in Nat /\ queue.edit \in Nat /\ edits \in Nat
  BY QueueTypes DEF Appends, signed
<1>3. \A q : NotOlder(q, queue) => NotOlder(q, w.queue)
  BY <1>1 DEF NotOlder
<1>4. ASSUME NEW q, Precedes(q)
      PROVE  /\ q.edit <= edits' /\ NotOlder(q, queue')
             /\ \A k \in DOMAIN chain' : Live(chain'[k]) => NotOlder(q, chain'[k].queue)
  BY <1>1, <1>2, <1>3, <1>4 DEF Precedes
<1>5. w.queue.edit <= edits /\ NotOlder(w.queue, queue)
  BY <1>1, <1>2 DEF InOrder, Bounded, NotOlder
<1>6. ASSUME NEW k \in DOMAIN chain', Live(chain'[k])
      PROVE  /\ chain'[k].queue.edit <= edits' /\ NotOlder(chain'[k].queue, queue')
             /\ \A j \in DOMAIN chain' : k < j /\ Live(chain'[j]) => NotOlder(chain'[k].queue, chain'[j].queue)
  <2>1. CASE k = Len(chain) + 1
    <3>1. \A j \in DOMAIN chain' : ~(k < j)
      BY <1>1, <1>2, <2>1
    <3>2. QED
      BY <1>1, <1>2, <1>5, <2>1, <3>1
  <2>2. CASE k \in DOMAIN chain /\ chain'[k] = chain[k]
    BY <1>1, <1>2, <1>3, <1>6, <2>2 DEF InOrder
  <2>3. QED
    BY <1>1, <2>1, <2>2
<1>7. QED
  BY <1>2, <1>4, <1>6 DEF InOrder, Bounded, Precedes

LEMMA SendOrders ==
  ASSUME Kinds, InOrder, SessionInv, Sends
  PROVE  InOrder'
<1>1. /\ 1 \in DOMAIN chain /\ DOMAIN chain' = DOMAIN chain
      /\ \A k \in DOMAIN chain : chain'[k].queue = chain[k].queue /\ (k # 1 => chain'[k] = chain[k])
  BY SendKind
<1>2. UNCHANGED <<queue, edits, saved, afloat, loads>> /\ Live(chain[1])
  BY DEF Sends, signed, Live
<1>3. \A k \in DOMAIN chain : Live(chain'[k]) => Live(chain[k])
  BY <1>1, <1>2
<1>4. QED
  BY <1>1, <1>2, <1>3 DEF InOrder, Bounded, Precedes

\* A queue that is loaded while no other write of it is under way or waits is as new as all.
LEMMA LoadOrders ==
  ASSUME Kinds, InOrder, SessionInv, Loaded
  PROVE  InOrder' \/ "replaced" \in excused'
<1>1. PICK l \in loads :
        /\ loads' = loads \ {l} /\ queue' = [of |-> session[l.by], edit |-> l.edit]
        /\ excused' = excused \cup IF Overtaken(queue') THEN {"replaced"} ELSE {}
  BY DEF Loaded
<1>2. UNCHANGED <<chain, edits, saved, afloat>>
  BY DEF Loaded
<1>3. CASE Overtaken(queue')
  BY <1>1, <1>3
<1>4. CASE ~Overtaken(queue')
  <2>1. /\ queue'.edit = l.edit /\ l.edit \in Nat /\ l.edit <= edits
    BY <1>1, QueueTypes DEF InOrder, Bounded
  <2>2. \A i \in Identities : saved[i].of = i => NotOlder(saved[i], queue')
    <3>1. \A i \in Identities : i = queue'.of => saved[i].edit = queue'.edit
      BY <1>4 DEF Overtaken
    <3>2. QED
      BY <2>1, <3>1 DEF NotOlder
  <2>3. \A w \in afloat : NotOlder(w.queue, queue')
    <3>1. \A w \in afloat : w.queue.of = queue'.of => w.queue.edit = queue'.edit
      BY <1>4 DEF Overtaken
    <3>2. QED
      BY <2>1, <3>1 DEF NotOlder
  <2>4. \A k \in DOMAIN chain : Live(chain[k]) => NotOlder(chain[k].queue, queue')
    <3>1. \A k \in DOMAIN chain : Live(chain[k]) /\ chain[k].queue.of = queue'.of => chain[k].queue.edit = queue'.edit
      BY <1>4 DEF Overtaken
    <3>2. QED
      BY <2>1, <3>1 DEF NotOlder
  <2>5. QED
    BY <1>1, <1>2, <2>1, <2>2, <2>3, <2>4 DEF InOrder, Bounded, Precedes
<1>5. QED
  BY <1>3, <1>4

LEMMA OrderStep ==
  ASSUME Kinds, InOrder, SessionInv, [Next]_vars
  PROVE  InOrder' \/ "replaced" \in excused'
<1>1. ASSUME NEW d, Ends(d) PROVE InOrder'
  BY <1>1, EndsOrders
<1>2. CASE SignIn \/ LeaveServed \/ Connected
  <2>1. UNCHANGED <<chain, queue, edits, saved, afloat>>
    BY <1>2 DEF SignIn, LeaveServed, Connected, saves, kept
  <2>2. \A l \in loads' : l \in loads \/ l.edit = 0
    BY <1>2 DEF SignIn, LeaveServed, Connected, Load
  <2>3. 0 <= edits
    BY QueueTypes
  <2>4. QED
    BY <2>1, <2>2, <2>3 DEF InOrder, Bounded, Precedes
<1>3. CASE LoadReads
  <2>1. PICK l \in loads : loads' = (loads \ {l}) \cup {[l EXCEPT !.read = TRUE, !.edit = saved[session[l.by]].edit]}
    BY <1>3 DEF LoadReads
  <2>2. UNCHANGED <<chain, queue, edits, saved, afloat>>
    BY <1>3 DEF LoadReads, saves, kept
  <2>3. l \in Loads /\ session[l.by] \in Identities
    BY DEF Kinds, SessionInv
  <2>4. [l EXCEPT !.read = TRUE, !.edit = saved[session[l.by]].edit].edit = saved[session[l.by]].edit
    BY <2>3 DEF Loads
  <2>5. \A m \in loads' : m.edit <= edits
    BY <2>1, <2>3, <2>4 DEF InOrder, Bounded
  <2>6. QED
    BY <2>2, <2>5 DEF InOrder, Bounded, Precedes
<1>4. QED
  BY <1>1, <1>2, <1>3, EditOrders, AppendOrders, SendOrders, LoadOrders, Sorts

\* A write is not older than what it takes the place of, or its answer was lost before.
LEMMA WriteIsNewer ==
  ASSUME OrderInv, SessionInv, [Next]_vars, NEW i \in Identities, saved[i].of = i, saved'[i].of = i
  PROVE  \/ saved'[i].edit >= saved[i].edit
         \/ "replaced" \in excused
         \/ \E w \in afloat : w \notin afloat' /\ saved'[i] = w.queue
<1>a. Kinds
  BY DEF OrderInv, SavesInv
<1>1. CASE saved'[i] = saved[i]
  BY <1>a, <1>1, QueueTypes
<1>2. CASE Written \/ WriteFails
  <2>1. 1 \in DOMAIN chain /\ chain[1].sent
    <3>1. chain # <<>> /\ chain[1].sent
      BY <1>2 DEF Written, WriteFails
    <3>2. QED
      BY <1>a, <3>1 DEF Kinds
  <2>2. saved' = saved \/ Save(chain[1])
    BY <1>2 DEF Written, WriteFails
  <2>3. saved'[i] = saved[i] \/ saved'[i] = chain[1].queue
    BY <1>a, <2>2 DEF Save, Kinds
  <2>4. CASE saved'[i] = chain[1].queue
    <3>1. Live(chain[1]) /\ chain[1].queue.of = i
      BY <2>1, <2>4 DEF Live
    <3>2. "replaced" \in excused \/ NotOlder(saved[i], chain[1].queue)
      BY <2>1, <3>1 DEF OrderInv, InOrder, Precedes
    <3>3. saved[i].edit \in Nat /\ chain[1].queue.edit \in Nat
      BY <1>a, <2>1, QueueTypes
    <3>4. QED
      BY <2>4, <3>1, <3>2, <3>3 DEF NotOlder
  <2>5. QED
    BY <1>1, <2>3, <2>4
<1>3. CASE LandsLate
  <2>1. PICK w \in afloat : Save(w) /\ afloat' = afloat \ {w}
    BY <1>3 DEF LandsLate
  <2>2. saved'[i] = saved[i] \/ saved'[i] = w.queue
    BY <1>a, <2>1 DEF Save, Kinds
  <2>3. QED
    BY <1>1, <2>1, <2>2
<1>4. QED
  BY <1>1, <1>2, <1>3
     DEF Next, vars, kept, Go, NavAnswers, ListAnswers, ListAgain, ChooseQuick, QuickAnswers, ChooseLoose,
         LooseAnswers, EditQueue, BuildMood, MoodStarts, MoodEvents, MoodEnds, SignIn, LoadReads,
         Loaded, LoadFails, AskLeave, TimerDue, WriteGoes, WriteRefused, LeaveServed, LoggedOut,
         Connected, LeaveFails, Expires, Refused, SignedOut, Still

\* However slow the writes are and whatever fails, none puts an older state of an identity's
\* own queue back, unless the queue was loaded while another write of it was under way or
\* waited, or the write is one whose answer was lost before (saveChain, web/api.js).
THEOREM SavesInOrder == Spec => SavedInOrder
<1>1. Init => OrderInv
  BY SavesStart, SessionConstantsOK
     DEF Init, OrderInv, InOrder, Bounded, Precedes, NotOlder, Nothing
<1>2. OrderInv /\ SessionInv /\ SessionInv' /\ [Next]_vars => OrderInv'
  BY SavesStep, OrderStep, ExcusesStay DEF OrderInv, SavesInv
<1>3. OrderInv /\ SessionInv /\ [Next]_vars
        => [\A i \in Identities : saved[i].of = i /\ saved'[i].of = i =>
              \/ saved'[i].edit >= saved[i].edit
              \/ "replaced" \in excused
              \/ \E w \in afloat : w \notin afloat' /\ saved'[i] = w.queue]_vars
  BY WriteIsNewer
<1>4. QED
  BY <1>1, <1>2, <1>3, SessionHolds, PTL DEF Spec, SavedInOrder
=============================================================================

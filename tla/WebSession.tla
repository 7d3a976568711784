----------------------------- MODULE WebSession -----------------------------
(***************************************************************************)
(* One browser page over sign-ins, sign-outs and changes of the music      *)
(* connection (web/auth.js, app.js): what it shows (navigation.js,         *)
(* flight-recorder.js), the actions that wait for an answer                *)
(* (quick-actions.js, dialogs.js, mood.js) and the saving of the queue     *)
(* (api.js).  A queue is the identity that it was loaded for and the       *)
(* number of its last change.  An identity is an account with its library; *)
(* a request reaches the session whose cookie it was sent with, and the    *)
(* server looks once whether that has ended (auth.go, connection.go).      *)
(* Left out: the arrays beside the page itself that an answer fills, such  *)
(* as the names of the playlists, which are taken whatever was asked since *)
(* (navigation.js:44).                                                     *)
(***************************************************************************)
EXTENDS Naturals, Sequences

CONSTANTS
  Identities,   \* accounts with their library; not 0
  Pages,        \* the library pages, these three among them
  MaxSessions,  \* bound: sessions the server starts
  MaxEdits,     \* bound: changes of the queue
  MaxActs,      \* bound: acts of the listener
  MaxFaults     \* bound: requests that fail, sessions that expire

ASSUME SessionConstantsOK ==
  /\ 0 \notin Identities /\ Identities # {} /\ {"home", "playlist", "playlists"} \subseteq Pages
  /\ "recorder" \notin Pages /\ "none" \notin Pages
  /\ {MaxSessions, MaxEdits, MaxActs, MaxFaults} \subseteq Nat

VARIABLES
  account,  \* is there a user, is the app shown, by which sign-in, and for which identity
  session,  \* the identity of each session that was started
  cookie,   \* the session that the page's requests reach; 0: none, or it has ended
  loads,    \* the accounts under way: has the saved queue been read
  leave,    \* how far a sign-out or a change of the connection has come
  view,     \* state.view, is there a query, state.loading; old: drawn before the connection
  fetches,  \* the navigations under way; fresh: its id is requestID
  lists,    \* the recorder lists under way; fresh: its gen is generation
  shown,    \* what the page shows, and by which session it was answered
  quick,    \* the quick action that waits for an answer
  loose,    \* another action that does
  mood,     \* the run of Mood
  queue, timer,
  chain,    \* saveChain, the first one perhaps sent; fresh: its gen is generation
  saved,    \* the queue the server keeps for an identity, and the one it was captured for
  afloat,   \* writes whose answer was lost before they were done
  edits, acts, faults,
  excused   \* history: what else has happened that keeps a change from being saved

page == <<view, fetches, lists, shown>>
saves == <<queue, timer, chain, edits>>
doing == <<quick, loose, mood>>
signed == <<account, session, cookie, loads>>
kept == <<saved, afloat, excused>>
vars == <<signed, leave, page, doing, saves, kept, acts, faults>>

Whose == Identities \cup {0}
Sessions == 0 .. MaxSessions
Queues == [of : Whose, edit : 0 .. MaxEdits]
Copies == [of : Whose, edit : 0 .. MaxEdits, for : Identities]
Views == Pages \cup {"recorder"}
None == [on |-> FALSE, login |-> 0, kind |-> "none", by |-> 0]
Done == [on |-> FALSE, kind |-> "none", by |-> 0]
Idle == [at |-> "idle", by |-> 0]
Stay == [at |-> "none", by |-> 0, n |-> 0]
Blank == [page |-> "none", query |-> FALSE, by |-> 0]
AtHome == [page |-> "home", query |-> FALSE, loading |-> FALSE, old |-> FALSE]
Nothing == [of |-> 0, edit |-> 0]

TypeOK ==
  /\ account \in [user : BOOLEAN, app : BOOLEAN, login : Sessions, of : Whose]
  /\ session \in Seq(Identities) /\ Len(session) <= MaxSessions /\ cookie \in Sessions
  /\ loads \subseteq [by : Sessions, form : BOOLEAN, read : BOOLEAN, edit : 0 .. MaxEdits]
  /\ leave \in [at : {"none", "logoutFlush", "logout", "logoutDone",
                      "connectFlush", "connect", "connectDone"}, by : Sessions, n : Sessions]
  /\ view \in [page : Views, query : BOOLEAN, loading : BOOLEAN, old : BOOLEAN]
  /\ fetches \subseteq [page : Views, query : BOOLEAN, fresh : BOOLEAN, by : Sessions]
  /\ lists \subseteq [fresh : BOOLEAN, by : Sessions]
  /\ shown \in [page : Views \cup {"none"}, query : BOOLEAN, by : Sessions]
  /\ quick \in [on : BOOLEAN, login : Sessions, kind : {"none", "queue", "open"}, by : Sessions]
  /\ loose \in [on : BOOLEAN, kind : {"none", "resume", "playlist", "recorder"}, by : Sessions]
  /\ mood \in [at : {"idle", "asked", "running", "listed"}, by : Sessions]
  /\ queue \in Queues /\ timer \in BOOLEAN
  /\ chain \in Seq([queue : Copies, fresh : BOOLEAN, sent : BOOLEAN, by : Sessions, leave : BOOLEAN])
  /\ saved \in [Identities -> Copies] /\ afloat \subseteq [queue : Copies, by : Sessions]
  /\ edits \in 0 .. MaxEdits /\ acts \in 0 .. MaxActs /\ faults \in 0 .. MaxFaults
  /\ excused \subseteq {"failed", "cancelled", "nobody", "replaced", "stranded"}

Init ==
  /\ account = [user |-> FALSE, app |-> FALSE, login |-> 0, of |-> 0]
  /\ session = <<>> /\ cookie = 0 /\ loads = {} /\ leave = Stay
  /\ view = AtHome /\ fetches = {} /\ lists = {} /\ shown = Blank
  /\ quick = None /\ loose = Done /\ mood = Idle
  /\ queue = Nothing /\ timer = FALSE /\ chain = <<>> /\ afloat = {}
  /\ saved = [i \in Identities |-> [of |-> i, edit |-> 0, for |-> i]]
  /\ edits = 0 /\ acts = 0 /\ faults = 0 /\ excused = {}

\* The buttons are there as soon as the app is, with a user or without.
Act == account.app /\ acts < MaxActs /\ acts' = acts + 1
Fault == faults < MaxFaults /\ faults' = faults + 1
\* A request is answered "session-expired" when its session has ended before it came; it is
\* served when it came before that.
Ended(by) == by = 0 \/ by # cookie

-----------------------------------------------------------------------------
(* Saving                                                                   *)

\* saveState(): the change is saved when nothing more has changed for 350 ms.
Edit ==
  /\ edits < MaxEdits /\ edits' = edits + 1
  /\ queue' = [queue EXCEPT !.edit = edits + 1] /\ timer' = TRUE
  /\ UNCHANGED chain

Snapshot(leaving) ==
  [queue |-> [of |-> queue.of, edit |-> queue.edit, for |-> account.of], fresh |-> TRUE,
   sent |-> FALSE, by |-> 0, leave |-> leaving]
\* flushState(): what is saved is the state now, when its turn comes.
\* Mutant of Flush: nothing is queued behind a write that is under way.
FlushUnlessBusy(leaving) ==
  /\ timer' = FALSE
  /\ chain' = IF account.user /\ (chain = <<>> \/ leaving)
              THEN Append(chain, Snapshot(leaving)) ELSE chain
\* Mutant of Flush: a later snapshot is written first.
FlushFirst(leaving) ==
  /\ timer' = FALSE
  /\ chain' = IF ~account.user THEN chain
              ELSE IF chain # <<>> /\ ~chain[1].sent THEN <<Snapshot(leaving)>> \o chain
              ELSE Append(chain, Snapshot(leaving))
Flush(leaving) ==
  /\ timer' = FALSE
  /\ chain' = IF account.user THEN Append(chain, Snapshot(leaving)) ELSE chain
\* cancelSave(): no write that has not been sent will be.
Cancelled(writes) == [k \in DOMAIN writes |-> [writes[k] EXCEPT !.fresh = FALSE]]
Waits(w) == w.fresh /\ ~w.sent
Live(w) == w.fresh \/ w.sent

TimerDue ==
  /\ timer /\ Flush(FALSE)
  /\ excused' = excused \cup IF account.user \/ queue.of = 0 THEN {} ELSE {"nobody"}
  /\ UNCHANGED <<signed, leave, page, doing, queue, edits, saved, afloat, acts, faults>>

-----------------------------------------------------------------------------
(* What the page shows                                                      *)

Late(set) == {[f EXCEPT !.fresh = FALSE] : f \in set}
\* The controller aborts the request; that of the playlists has no signal and goes on.
Passed(navs) == Late({f \in navs : f.page = "playlists" /\ ~f.query})
CancelNavigation == fetches' = Passed(fetches)
CloseRecorder == lists' = Late(lists)

\* navigate(): the last one asked for is the one that will be shown.
Navigate(p, q) ==
  /\ view' = [page |-> p, query |-> q, loading |-> TRUE, old |-> FALSE] /\ shown' = Blank
  /\ fetches' = Passed(fetches) \cup {[page |-> p, query |-> q, fresh |-> TRUE, by |-> cookie]}
  /\ CloseRecorder
RenderRecorder == lists' = Late(lists) \cup {[fresh |-> TRUE, by |-> cookie]}

Still == UNCHANGED <<signed, leave, saves, kept>>
Go ==
  /\ Act
  /\ \/ \E p \in Pages : Navigate(p, FALSE)
     \/ Navigate(view.page, TRUE)
     \/ /\ view' = [AtHome EXCEPT !.page = "recorder"] /\ shown' = Blank
        /\ CancelNavigation /\ RenderRecorder
  /\ Still /\ UNCHANGED <<doing, faults>>

\* Mutant of Shows: every answer is shown.
ShowsAny(f) == TRUE
Shows(f) == f.fresh
NavAnswers ==
  \E f \in fetches :
    /\ fetches' = fetches \ {f}
    /\ IF Shows(f)
       THEN /\ view' = [view EXCEPT !.loading = FALSE]
            /\ \/ f.by # 0 /\ shown' = [page |-> f.page, query |-> f.query, by |-> f.by]
                  /\ UNCHANGED faults
               \/ Fault /\ UNCHANGED shown
       ELSE UNCHANGED <<view, shown, faults>>
    /\ Still /\ UNCHANGED <<lists, doing, acts>>
ListAnswers ==
  \E l \in lists :
    /\ lists' = lists \ {l}
    /\ shown' = IF l.fresh /\ view.page = "recorder" /\ l.by # 0
                THEN [page |-> "recorder", query |-> FALSE, by |-> l.by] ELSE shown
    /\ Still /\ UNCHANGED <<view, fetches, doing, acts, faults>>
\* Five seconds after the list was drawn it is asked for again.
ListAgain ==
  /\ shown.page = "recorder" /\ view.page = "recorder" /\ ~view.query /\ \A l \in lists : ~l.fresh
  /\ RenderRecorder
  /\ Still /\ UNCHANGED <<view, fetches, shown, doing, acts, faults>>

-----------------------------------------------------------------------------
(* Actions that wait for an answer                                          *)

\* A quick action takes the place of the one before, whose controller is aborted.
ChooseQuick ==
  /\ Act /\ account.user /\ \E k \in {"queue", "open"} : 
       quick' = [on |-> TRUE, login |-> account.login, kind |-> k, by |-> cookie]
  /\ Still /\ UNCHANGED <<page, loose, mood, faults>>
QuickAnswers ==
  /\ quick.on /\ quick' = None
  /\ \/ quick.by # 0 /\ quick.kind = "queue" /\ Edit /\ UNCHANGED <<page, faults>>
     \/ quick.by # 0 /\ quick.kind = "open" /\ Navigate("playlist", FALSE) /\ UNCHANGED <<saves, faults>>
     \/ Fault /\ UNCHANGED <<page, saves>>
  /\ UNCHANGED <<signed, leave, loose, mood, kept, acts>>
\* The buttons of app.js, the dialogs and the recorder: nothing aborts them.
ChooseLoose ==
  /\ Act /\ ~loose.on
  /\ \E k \in {"resume", "playlist", "recorder"} : loose' = [on |-> TRUE, kind |-> k, by |-> cookie]
  /\ Still /\ UNCHANGED <<page, quick, mood, faults>>
LooseAnswers ==
  /\ loose.on /\ loose' = Done
  /\ \/ loose.by # 0 /\ loose.kind = "resume" /\ Edit /\ UNCHANGED <<page, faults>>
     \/ /\ loose.by # 0 /\ loose.kind = "playlist" /\ Navigate("playlist", FALSE)
        /\ UNCHANGED <<saves, faults>>
     \/ /\ loose.by # 0 /\ loose.kind = "recorder" /\ RenderRecorder
        /\ UNCHANGED <<view, fetches, shown, saves, faults>>
     \/ Fault /\ UNCHANGED <<page, saves>>
  /\ UNCHANGED <<signed, leave, quick, mood, kept, acts>>
\* The queue is changed at once: an edit by hand, or the next track.
EditQueue ==
  /\ Act /\ Edit
  /\ UNCHANGED <<signed, leave, page, doing, kept, faults>>

BuildMood ==
  /\ Act /\ mood.at = "idle" /\ mood' = [at |-> "asked", by |-> cookie]
  /\ Still /\ UNCHANGED <<page, quick, loose, faults>>
\* api('llm') has answered; the run is started with whatever session there is now.
MoodStarts ==
  /\ mood.at = "asked"
  /\ \/ mood' = Idle
     \/ mood.by # 0 /\ mood' = [at |-> "running", by |-> cookie]
  /\ Still /\ UNCHANGED <<page, quick, loose, acts, faults>>
\* The first event opens the playlist of the run, whatever is being loaded.
MoodOpens ==
  /\ view' = [AtHome EXCEPT !.page = "playlist"]
  /\ shown' = [page |-> "playlist", query |-> FALSE, by |-> mood.by] /\ CancelNavigation
\* The server looks before each event whether the session goes on; an event is taken to be
\* read before the answer to what ended it.
MoodEvents ==
  /\ cookie # 0 /\ mood.by = cookie
  /\ \/ mood.at = "running" /\ mood' = [mood EXCEPT !.at = "listed"] /\ MoodOpens
        /\ UNCHANGED <<saves, lists>>
     \/ mood.at = "listed" /\ Edit /\ UNCHANGED <<mood, page>>
  /\ UNCHANGED <<signed, leave, quick, loose, kept, acts, faults>>
MoodEnds ==
  /\ mood.at \in {"running", "listed"} /\ mood' = Idle
  /\ Still /\ UNCHANGED <<page, quick, loose, acts, faults>>

-----------------------------------------------------------------------------
(* Signing in and out                                                       *)

CancelMood == mood' = IF mood.at = "asked" THEN mood ELSE Idle
\* Mutant of CancelQuick: only the menu is closed.
CloseMenu == UNCHANGED quick
CancelQuick == quick' = None
\* signedOut(), with these requests and writes left; a load goes on.
SignedOut(navs, recs, writes) ==
  /\ account' = [account EXCEPT !.user = FALSE, !.app = FALSE, !.of = 0]
  /\ CancelQuick /\ fetches' = Passed(navs) /\ lists' = Late(recs)
  /\ timer' = FALSE /\ chain' = Cancelled(writes)
  /\ queue' = Nothing /\ view' = AtHome /\ shown' = Blank
  /\ UNCHANGED <<session, edits, kept, acts, faults>>

\* A write captured for one identity waits for the one before it, and is sent as another's.
Stranded(i) == \E k \in DOMAIN chain : Waits(chain[k]) /\ chain[k].queue.for # i
Strand(i) == excused' = excused \cup IF Stranded(i) THEN {"stranded"} ELSE {}
\* loadAccount(): the user is set before the saved queue is asked for.
Load(n, form) == loads' = loads \cup {[by |-> n, form |-> form, read |-> FALSE, edit |-> 0]}
\* The form's button is disabled until the load has ended.
SignIn ==
  /\ ~account.app /\ (\A l \in loads : ~l.form) /\ Len(session) < MaxSessions
  /\ \E i \in Identities :
       /\ session' = Append(session, i) /\ cookie' = Len(session) + 1
       /\ account' = [user |-> TRUE, app |-> FALSE, login |-> Len(session) + 1, of |-> i]
       /\ Load(Len(session) + 1, TRUE) /\ Strand(i)
  /\ UNCHANGED <<leave, page, doing, saves, saved, afloat, acts, faults>>
\* The server reads the saved queue.
LoadReads ==
  \E l \in loads :
    /\ l.by # 0 /\ ~l.read
    /\ loads' = (loads \ {l}) \cup {[l EXCEPT !.read = TRUE, !.edit = saved[session[l.by]].edit]}
    /\ UNCHANGED <<account, session, cookie, leave, page, doing, saves, kept, acts, faults>>
\* Another write of the queue q, or in its place, has been done since, or may be.
Overtaken(q) ==
  LET Other(c) == q.of \in {c.of, c.for} /\ c.edit # q.edit
  IN  \/ \E i \in Identities : i = q.of /\ saved[i].edit # q.edit
      \/ \E w \in afloat : Other(w.queue)
      \/ \E k \in DOMAIN chain : Live(chain[k]) /\ Other(chain[k].queue)
\* The rest of loadAccount(), which does not look whether there still is a user.
Loaded ==
  \E l \in loads :
    /\ l.read /\ loads' = loads \ {l}
    /\ account' = [account EXCEPT !.app = TRUE] /\ Navigate("home", FALSE)
    /\ queue' = [of |-> session[l.by], edit |-> l.edit]
    /\ excused' = excused \cup IF Overtaken(queue') THEN {"replaced"} ELSE {}
    /\ UNCHANGED <<session, cookie, leave, doing, timer, chain, edits, saved, afloat, acts, faults>>
LoadFails ==
  /\ Fault /\ \E l \in loads : loads' = loads \ {l}
  /\ UNCHANGED <<account, session, cookie, leave, page, doing, saves, kept, acts>>

-----------------------------------------------------------------------------
(* Sign-out and the music connection                                        *)

\* The connection dialog cancels what waits to be saved.
Drop(writes) ==
  /\ CancelNavigation /\ timer' = FALSE /\ chain' = Cancelled(writes)
  /\ excused' = excused \cup
       IF timer \/ \E k \in DOMAIN writes : Waits(writes[k]) THEN {"cancelled"} ELSE {}
\* Both save first, if there is a user; the dialog stays open meanwhile.
AskLeave ==
  /\ Act /\ leave = Stay
  /\ \/ /\ account.user /\ \E at \in {"logoutFlush", "connectFlush"} : leave' = [Stay EXCEPT !.at = at]
        /\ Flush(TRUE) /\ UNCHANGED <<fetches, excused>>
     \/ /\ ~account.user /\ leave' = [Stay EXCEPT !.at = "logout", !.by = cookie]
        /\ timer' = FALSE /\ UNCHANGED <<chain, fetches, excused>>
     \/ /\ ~account.user /\ leave' = [Stay EXCEPT !.at = "connect", !.by = cookie]
        /\ Drop(chain)
  /\ UNCHANGED <<signed, view, lists, shown, doing, queue, edits, saved, afloat, faults>>
\* The write that leave waits for is done or was skipped.
Proceed ==
  \/ /\ leave.at = "logoutFlush" /\ leave' = [leave EXCEPT !.at = "logout", !.by = cookie]
     /\ chain' = Tail(chain) /\ UNCHANGED <<timer, fetches, excused>>
  \/ /\ leave.at = "connectFlush" /\ leave' = [leave EXCEPT !.at = "connect", !.by = cookie]
     /\ Drop(Tail(chain))
Settle(ok) ==
  IF ok /\ chain[1].leave THEN Proceed
  ELSE /\ leave' = IF chain[1].leave THEN Stay ELSE leave
       /\ chain' = Tail(chain) /\ excused' = excused \cup (IF ok THEN {} ELSE {"failed"})
       /\ UNCHANGED <<timer, fetches>>

\* Mutant of Goes: a cancelled write is sent all the same.
GoesAny(w) == TRUE
Goes(w) == w.fresh
WriteGoes ==
  /\ chain # <<>> /\ ~chain[1].sent
  /\ IF Goes(chain[1]) THEN chain' = [chain EXCEPT ![1].sent = TRUE, ![1].by = cookie]
                            /\ UNCHANGED <<leave, timer, fetches, excused>>
     ELSE Settle(TRUE)
  /\ UNCHANGED <<signed, view, lists, shown, doing, queue, edits, saved, afloat, acts, faults>>
\* The server writes for the session that the request came with, which may have ended since.
Save(w) == w.by # 0 /\ saved' = [saved EXCEPT ![session[w.by]] = w.queue]
Written ==
  /\ chain # <<>> /\ chain[1].sent /\ Save(chain[1]) /\ Settle(TRUE)
  /\ UNCHANGED <<signed, view, lists, shown, doing, queue, edits, afloat, acts, faults>>
\* An error may come from after the queue was written, and a lost answer from before.
WriteFails ==
  /\ chain # <<>> /\ chain[1].sent /\ Fault /\ Settle(FALSE)
  /\ \/ UNCHANGED <<saved, afloat>>
     \/ Save(chain[1]) /\ UNCHANGED afloat
     \/ /\ chain[1].by # 0 /\ UNCHANGED saved
        /\ afloat' = afloat \cup {[queue |-> chain[1].queue, by |-> chain[1].by]}
  /\ UNCHANGED <<signed, view, lists, shown, doing, queue, edits, acts>>
LandsLate ==
  /\ \E w \in afloat : Save(w) /\ afloat' = afloat \ {w}
  /\ UNCHANGED <<signed, leave, page, doing, saves, excused, acts, faults>>

\* A sign-out ends its session; a change of the connection ends all of the account's and
\* starts one, as whoever the library is then.
LeaveServed ==
  /\ leave.by # 0
  /\ \/ /\ leave.at = "logout" /\ leave' = [leave EXCEPT !.at = "logoutDone"]
        /\ cookie' = IF cookie = leave.by THEN 0 ELSE cookie
        /\ UNCHANGED session
     \/ /\ leave.at = "connect" /\ Len(session) < MaxSessions
        /\ leave' = [leave EXCEPT !.at = "connectDone", !.n = Len(session) + 1]
        /\ \E i \in Identities : session' = Append(session, i)
        /\ cookie' \in IF cookie = leave.by THEN {0} ELSE {0, cookie}
  /\ UNCHANGED <<account, loads, page, doing, saves, kept, acts, faults>>
LoggedOut ==
  /\ leave.at = "logoutDone" /\ leave' = Stay /\ cookie' = 0
  /\ SignedOut(fetches, lists, chain) /\ CancelMood
  /\ UNCHANGED <<loads, loose>>
\* The answer brings the cookie; the page is drawn anew when the account has been loaded.
Connected ==
  /\ leave.at = "connectDone" /\ leave' = Stay /\ cookie' = leave.n
  /\ LET i == session[leave.n] IN
       /\ account' = [account EXCEPT !.user = TRUE, !.of = i,
                                     !.login = IF account.user THEN account.login ELSE leave.n]
       /\ Strand(i)
  /\ Load(leave.n, FALSE) /\ CancelMood /\ view' = [view EXCEPT !.old = TRUE]
  /\ UNCHANGED <<session, fetches, lists, shown, quick, loose, saves, saved, afloat, acts, faults>>
LeaveFails ==
  /\ leave.at \in {"logout", "logoutDone", "connect", "connectDone"} /\ Fault /\ leave' = Stay
  /\ UNCHANGED <<signed, page, doing, saves, kept, acts>>
\* The server ends the session; the next request finds out.
Expires ==
  /\ cookie # 0 /\ Fault /\ cookie' = 0
  /\ UNCHANGED <<account, session, loads, leave, page, doing, saves, kept, acts>>
\* "session-expired": the answer to any request, an earlier session's as well, signs out.
Refused ==
  /\ UNCHANGED cookie
  /\ \/ /\ account.user \/ account.app
        /\ cookie = 0 /\ SignedOut(fetches, lists, chain) /\ CancelMood
        /\ UNCHANGED <<loads, leave, loose>>
     \/ /\ \/ \E f \in fetches : Ended(f.by) /\ SignedOut(fetches \ {f}, lists, chain)
           \/ \E l \in lists : Ended(l.by) /\ SignedOut(fetches, lists \ {l}, chain)
           \/ quick.on /\ Ended(quick.by) /\ SignedOut(fetches, lists, chain)
        /\ CancelMood /\ UNCHANGED <<loads, leave, loose>>
     \/ /\ loose.on /\ Ended(loose.by) /\ SignedOut(fetches, lists, chain)
        /\ loose' = Done /\ CancelMood /\ UNCHANGED <<loads, leave>>
     \/ /\ mood.at \in {"asked", "running"} /\ Ended(mood.by) /\ SignedOut(fetches, lists, chain)
        /\ mood' = Idle /\ UNCHANGED <<loads, leave, loose>>
     \/ /\ leave.at \in {"logout", "connect"} /\ Ended(leave.by) /\ SignedOut(fetches, lists, chain)
        /\ leave' = Stay /\ CancelMood /\ UNCHANGED <<loads, loose>>
     \/ /\ \E l \in loads : ~l.read /\ Ended(l.by) /\ loads' = loads \ {l}
        /\ SignedOut(fetches, lists, chain) /\ CancelMood /\ UNCHANGED <<leave, loose>>
WriteRefused ==
  /\ chain # <<>> /\ chain[1].sent /\ Ended(chain[1].by)
  /\ SignedOut(fetches, lists, Tail(chain)) /\ CancelMood
  /\ leave' = IF chain[1].leave THEN Stay ELSE leave
  /\ UNCHANGED <<cookie, loads, loose>>

-----------------------------------------------------------------------------

Next ==
  \/ Go \/ NavAnswers \/ ListAnswers \/ ListAgain \/ ChooseQuick \/ QuickAnswers
  \/ ChooseLoose \/ LooseAnswers \/ EditQueue \/ BuildMood \/ MoodStarts \/ MoodEvents \/ MoodEnds
  \/ SignIn \/ LoadReads \/ Loaded \/ LoadFails \/ AskLeave \/ TimerDue \/ WriteGoes \/ Written
  \/ WriteFails \/ LandsLate \/ WriteRefused
  \/ LeaveServed \/ LoggedOut \/ Connected \/ LeaveFails \/ Expires \/ Refused

Spec == Init /\ [][Next]_vars
\* Timers fire and writes are answered; nobody has to do anything.
FairSpec == Spec /\ WF_vars(TimerDue) /\ WF_vars(WriteGoes) /\ WF_vars(Written \/ WriteRefused)

-----------------------------------------------------------------------------
(* Properties                                                               *)

\* What a signed-in page shows is what it was last sent to, and this identity's: no late
\* answer, event of a run or answer of an earlier session takes its place.  Two exceptions:
\* after a change of the connection what was drawn before stays until the page is sent
\* somewhere, and the recorder's list is drawn over a search or a page that loads (SearchKept).
ShownIsCurrent ==
  account.user /\ account.app /\ shown.page # "none" =>
    /\ shown.page = view.page
    /\ view.old \/ session[shown.by] = account.of
    /\ shown.page # "recorder" => shown.query = view.query /\ ~view.loading

\* "Sign-out also aborts pending quick-action requests" (UI_QUICK_ACTIONS.md:35): one that
\* waits was chosen since the user signed in, whatever requests, sign-outs, changes of the
\* connection and loads that end late have come between.
QuickActionsEnd == quick.on => account.user /\ quick.login = account.login

\* A queue captured while one identity had the page is never saved for another, however long
\* its write waits and whoever signs in; except that a write that waits for the one before
\* while the connection changes, or another signs in on a page whose load failed, goes out
\* with the new cookie.
SavesOwn == \A i \in Identities : saved[i].for = i \/ "stranded" \in excused

\* Writes are done in the order of the changes: none puts an older state of an identity's
\* own queue back.  Two exceptions: the queue was loaded while another write of it was under
\* way or waited, and a write whose answer was lost is done late.
SavedInOrder ==
  [][\A i \in Identities : saved[i].of = i /\ saved'[i].of = i =>
       \/ saved'[i].edit >= saved[i].edit
       \/ "replaced" \in excused
       \/ \E w \in afloat : w \notin afloat' /\ saved'[i] = w.queue]_vars

\* A change is saved in the end, for the identity that the requests reach (SavedApart), unless
\* a write failed, the connection dialog cancelled it, the queue was loaded while another
\* write of it was under way or waited, or the page had no user when its time came: a load
\* that ends after a sign-out shows an app that saves nothing.
Unsaved ==
  /\ account.user /\ account.app /\ queue.of = account.of
  /\ excused \subseteq {"stranded"}
  /\ \A i \in Identities : i = account.of \/ saved[i].of = queue.of => saved[i].edit < queue.edit
ChangesSaved == Unsaved ~> ~Unsaved

\* "Changed library identity namespaces presets/queues/cache IDs anew"
\* (SUBWEAZL_API_V1.md:332): what is saved for an identity was loaded or made for it.
SavedApart == \A i \in Identities : saved[i].of = i

\* "Search also works while viewing Flight Recorder" (UI_QUICK_ACTIONS.md:15): the list is
\* not drawn over the results.
SearchKept == view.query => shown.page = "none" \/ shown.query
=============================================================================

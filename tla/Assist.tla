-------------------------------- MODULE Assist --------------------------------
(***************************************************************************)
(* Apply assist: the application rows and their endpoints                  *)
(* (api/routers/job_apply.py, pipeline/jobs/apply.py, packet.py) and the   *)
(* desktop runner that claims an application and walks its playbook in a   *)
(* browser (pipeline/jobs/assist/__main__.py).                             *)
(*                                                                         *)
(* A handler reads the row and updates it later: SQLite takes no lock for  *)
(* the read, and the UPDATE writes the columns the handler changed.  The   *)
(* panel's buttons only queue an action; the loop performs it when it      *)
(* pumps.  assist_log and the answer bank are append-only and left out.    *)
(***************************************************************************)
EXTENDS Autofill

CONSTANTS
  Apps,      \* application ids: the n-th row inserted is n
  Threads,   \* server threads that answer the web client
  Runners,   \* desktop processes, each in watch()
  Headless,  \* those of them that cannot launch a browser
  Playbook,  \* the PlaybookSteps of the posting's ATS
  Stored,    \* the statuses an application may start out with
  Ops, Buttons,                              \* requests and panel buttons used
  MaxOps, MaxClicks, MaxFaults   \* bounds

Statuses == {"none", "saved", "preparing", "ready", "submitted", "interviewing",
             "rejected", "closed", "withdrawn"}
Active == {"queued", "claimed", "running"}
AssistStates == Active \cup {"idle", "paused"}

Kinds == {"create", "status", "queue", "prepare", "edit"}

Steps == [review : BOOLEAN, user_only : BOOLEAN]
W(user) == [review |-> FALSE, user_only |-> user]
ReviewStep == [review |-> TRUE, user_only |-> TRUE]
Workday == <<W(TRUE), W(TRUE), W(FALSE), W(FALSE), W(FALSE), W(TRUE), W(TRUE), ReviewStep>>
Generic == <<W(FALSE), ReviewStep>>

ASSUME AppAssumption ==
  /\ 1 \in Apps /\ Apps \subseteq Nat \ {0} /\ \A a \in Apps : 1 .. a \subseteq Apps
  /\ Stored \subseteq {"none", "saved", "preparing", "ready"}
ASSUME PlaybookAssumption ==
  /\ Playbook \in Seq(Steps) /\ Len(Playbook) > 0
ASSUME ClientAssumption ==
  /\ Headless \subseteq Runners /\ Ops \subseteq Kinds
  /\ Buttons \subseteq {"pause", "fill", "next"}
ASSUME AssistBounds ==
  MaxOps \in Nat /\ MaxClicks \in Nat /\ MaxFaults \in Nat

VARIABLES
  app,      \* the JobApplication rows; status "none" is no row
  letter,   \* per application: the path is stored in the row, the file is on disk
  req,      \* each server thread's request
  run,      \* each desktop runner's session
  issued,   \* how many session ids claims have made
  clicked,  \* ghost: Next clicks the runner made, and by whom
  wrote,    \* ghost: what the runner wrote into the fields of a page
  tally     \* how many requests, button clicks and faults there were

vars == <<app, letter, req, run, issued, clicked, wrote, tally>>

-----------------------------------------------------------------------------
Row == [status : Statuses, stamped : BOOLEAN, assist : AssistStates, sid : Nat]
NoRow == [status |-> "none", stamped |-> FALSE, assist |-> "idle", sid |-> 0]

Request == [pc : {"idle", "draft", "render", "commit"}, kind : Kinds, app : Apps, to : Statuses]
NoRequest == [pc |-> "idle", kind |-> "create", app |-> 1, to |-> "none"]

Session == [pc : {"idle", "claim", "commit", "reply", "open", "loop", "filled", "pumped", "await", "rest"},
            app : Apps, sid : Nat, index : Nat, at : Nat, paused : BOOLEAN,
            open : BOOLEAN, got : {"unknown", "none", "file"}, actions : Seq({"pause", "fill", "next"})]
NoSession == [pc |-> "idle", app |-> 1, sid |-> 0, index |-> 1, at |-> 1,
              paused |-> FALSE, open |-> FALSE, got |-> "unknown", actions |-> <<>>]

Click == [index : Nat, by : {"loop", "user"}]

Counted(kind, limit) ==
  tally[kind] < limit /\ tally' = [tally EXCEPT ![kind] = @ + 1]

Serve(t, r) == req' = [req EXCEPT ![t] = r]
Go(r, s) == run' = [run EXCEPT ![r] = s]
Row1(a) == app[a].status # "none"

Init ==
  /\ app \in [Apps -> {[NoRow EXCEPT !.status = s] : s \in Stored}]
  /\ letter = [a \in Apps |-> [path |-> FALSE, file |-> FALSE]]
  /\ req = [t \in Threads |-> NoRequest]
  /\ run = [r \in Runners |-> NoSession]
  /\ issued = 0
  /\ clicked = {}
  /\ wrote = {}
  /\ tally = [ops |-> 0, clicks |-> 0, faults |-> 0]

-----------------------------------------------------------------------------
(* The web client's requests.  Each is accepted on the row as it is read   *)
(* and carried out later; a refusal (404, 409, 422) changes nothing.       *)

\* _ALLOWED_TRANSITIONS.
Allowed(status) ==
  CASE status = "saved" -> {"preparing", "withdrawn"}
    [] status = "preparing" -> {"ready", "withdrawn"}
    [] status = "ready" -> {"submitted", "withdrawn"}
    [] status = "submitted" -> {"interviewing", "rejected", "withdrawn"}
    [] status = "interviewing" -> {"rejected", "closed", "withdrawn"}
    [] OTHER -> {}

Receive(t, a, kind, to, pc) ==
  /\ req[t].pc = "idle" /\ kind \in Ops
  /\ Counted("ops", MaxOps)
  /\ Serve(t, [pc |-> pc, kind |-> kind, app |-> a, to |-> to])
  /\ UNCHANGED <<app, letter, run, issued, clicked, wrote>>

\* Rows get increasing ids, so the next one is the first without a row.
CreateRead(t, a) ==
  /\ ~Row1(a) /\ \A b \in Apps : b < a => Row1(b)
  /\ Receive(t, a, "create", "none", "commit")

StatusRead(t, a) ==
  \E to \in Allowed(app[a].status) : Receive(t, a, "status", to, "commit")

QueueRead(t, a) ==
  /\ app[a].status = "ready" /\ app[a].assist \notin Active
  /\ Receive(t, a, "queue", "none", "commit")

PrepareRead(t, a) == Row1(a) /\ Receive(t, a, "prepare", "none", "draft")
EditRead(t, a) == Row1(a) /\ Receive(t, a, "edit", "none", "render")

\* generate_packet: seconds of model time; a refusal, a cut answer or an
\* exception ends the request with the row untouched.
Drafted(t) ==
  /\ req[t].pc = "draft"
  /\ \E pc \in {"render", "idle"} : Serve(t, [req[t] EXCEPT !.pc = pc])
  /\ UNCHANGED <<app, letter, run, issued, clicked, wrote, tally>>

\* render_cover_letter_pdf writes the file before the row names it.
Render(t) ==
  /\ req[t].pc = "render"
  /\ letter' = [letter EXCEPT ![req[t].app].file = TRUE]
  /\ Serve(t, [req[t] EXCEPT !.pc = "commit"])
  /\ UNCHANGED <<app, run, issued, clicked, wrote, tally>>

StatusCommitted(row, to) ==
  [row EXCEPT !.status = to, !.stamped = @ \/ to = "submitted"]

CreateCommit(t) ==
  /\ req[t].pc = "commit" /\ req[t].kind = "create"
  /\ Serve(t, NoRequest)
  \* posting_id is UNIQUE: the later of two inserts fails
  /\ app' = [app EXCEPT ![req[t].app].status = IF @ = "none" THEN "saved" ELSE @]
  /\ UNCHANGED <<letter, run, issued, clicked, wrote, tally>>

StatusCommit(t) ==
  /\ req[t].pc = "commit" /\ req[t].kind = "status"
  /\ Serve(t, NoRequest)
  /\ app' = [app EXCEPT ![req[t].app] = StatusCommitted(@, req[t].to)]
  /\ UNCHANGED <<letter, run, issued, clicked, wrote, tally>>

\* The session id of an earlier claim stays in the row.
QueueCommit(t) ==
  /\ req[t].pc = "commit" /\ req[t].kind = "queue"
  /\ Serve(t, NoRequest)
  /\ app' = [app EXCEPT ![req[t].app].assist = "queued"]
  /\ UNCHANGED <<letter, run, issued, clicked, wrote, tally>>

PacketCommit(t) ==
  /\ req[t].pc = "commit" /\ req[t].kind \in {"prepare", "edit"}
  /\ Serve(t, NoRequest)
  /\ letter' = [letter EXCEPT ![req[t].app].path = TRUE]
  /\ UNCHANGED <<app, run, issued, clicked, wrote, tally>>

\* The server stops: what a request had not committed is gone.
ServerCrash ==
  /\ Counted("faults", MaxFaults)
  /\ req' = [t \in Threads |-> NoRequest]
  /\ UNCHANGED <<app, letter, run, issued, clicked, wrote>>

-----------------------------------------------------------------------------
(* The desktop runner: claiming *)

\* Mutant of Queued: the queue lists what is active.
QueuedOrActive == {a \in Apps : app[a].assist \in Active}

Queued == {a \in Apps : app[a].assist = "queued"}
QueueHead(a) == a \in Queued /\ \A b \in Queued : a <= b

\* watch: the next poll, once the last session has ended in whatever way.
Poll(r) ==
  /\ run[r].pc = "idle"
  /\ \E a \in Apps : QueueHead(a) /\ Go(r, [NoSession EXCEPT !.pc = "claim", !.app = a])
  /\ UNCHANGED <<app, letter, req, issued, clicked, wrote, tally>>

ClaimRead(r) ==
  /\ run[r].pc = "claim"
  /\ IF app[run[r].app].assist = "queued" THEN Go(r, [run[r] EXCEPT !.pc = "commit"])
     ELSE Go(r, NoSession)
  /\ UNCHANGED <<app, letter, req, issued, clicked, wrote, tally>>

ClaimCommit(r) ==
  /\ run[r].pc = "commit"
  /\ issued' = issued + 1
  /\ app' = [app EXCEPT ![run[r].app].assist = "claimed", ![run[r].app].sid = issued']
  /\ Go(r, [run[r] EXCEPT !.pc = "reply"])
  /\ UNCHANGED <<letter, req, clicked, wrote, tally>>

\* session.refresh: the answer carries the row as it is then.
ClaimReply(r) ==
  /\ run[r].pc = "reply"
  /\ Go(r, [run[r] EXCEPT !.pc = "open", !.sid = app[run[r].app].sid])
  /\ UNCHANGED <<app, letter, req, issued, clicked, wrote, tally>>

-----------------------------------------------------------------------------
(* The desktop runner: the session *)

Holds(r) == app[run[r].app].sid = run[r].sid
Step(r) == run[r].index <= Len(Playbook)
LoopTop(r) == run[r].pc = "loop" /\ run[r].open /\ Step(r)
Reviewing(r) == Step(r) /\ Playbook[run[r].index].review

\* Mutant of MovedOn: the step is not looked at again after the pump.
NeverMovedOn(r) == FALSE

\* The user pressed Next step while the fill was running.
MovedOn(r) == run[r].index # run[r].at

\* update_assist_session: the row that holds the session id takes any state
\* the runner reports, also over "queued".
Reported(r, state) ==
  /\ Holds(r)
  /\ app' = [app EXCEPT ![run[r].app].assist = state]

\* fetch_application, the browser, the overlay and the first report.
Open(r) ==
  /\ run[r].pc = "open" /\ r \notin Headless
  /\ Reported(r, "running")
  /\ Go(r, [run[r] EXCEPT !.pc = "loop", !.open = TRUE])
  /\ UNCHANGED <<letter, req, issued, clicked, wrote, tally>>

\* An exception ends the session and watch() logs it; no state is reported.
Raised(r) ==
  /\ Go(r, NoSession)
  /\ UNCHANGED <<app, letter, req, issued, clicked, wrote>>

\* playwright.sync_api.Error, before the first report: the row stays "claimed".
NoBrowser(r) ==
  /\ run[r].pc = "open" /\ r \in Headless
  /\ UNCHANGED tally
  /\ Raised(r)

SessionFails(r) ==
  /\ run[r].pc \in {"claim", "reply", "open", "loop", "filled", "pumped"}
  /\ Counted("faults", MaxFaults)
  /\ Raised(r)

\* The session id is no longer the row's: propose and report answer 404.
Superseded(r) ==
  /\ run[r].pc = "open" \/ (LoopTop(r) /\ ~run[r].paused)
  /\ ~Holds(r)
  /\ UNCHANGED tally
  /\ Raised(r)

LoopEnds(r) ==
  /\ run[r].pc = "loop" /\ (~run[r].open \/ ~Step(r))
  /\ Go(r, NoSession)
  /\ UNCHANGED <<app, letter, req, issued, clicked, wrote, tally>>

LoopPaused(r) ==
  /\ LoopTop(r) /\ run[r].paused
  /\ Go(r, [run[r] EXCEPT !.pc = "rest"])
  /\ UNCHANGED <<app, letter, req, issued, clicked, wrote, tally>>

\* A CAPTCHA frame, before the step or after its fill (which changes nothing here).
Captcha(r) ==
  /\ LoopTop(r) /\ ~run[r].paused
  /\ Reported(r, "paused")
  /\ Go(r, [run[r] EXCEPT !.pc = "loop", !.paused = TRUE])
  /\ UNCHANGED <<letter, req, issued, clicked, wrote, tally>>

\* Mutant of ReviewState: a state that pipeline/db.py does not list.
UnlistedState == "ready_for_review"

\* announce_review: the state stays "running", and the session is over.
ReviewState == "running"

AnnounceReview(r) ==
  /\ LoopTop(r) /\ ~run[r].paused /\ Reviewing(r)
  /\ Reported(r, ReviewState)
  /\ Go(r, NoSession)
  /\ UNCHANGED <<letter, req, issued, clicked, wrote, tally>>

AwaitUser(r) ==
  /\ LoopTop(r) /\ ~run[r].paused /\ ~Reviewing(r)
  /\ Playbook[run[r].index].user_only
  /\ Holds(r)
  /\ Go(r, [run[r] EXCEPT !.pc = "await", !.at = run[r].index])
  /\ UNCHANGED <<app, letter, req, issued, clicked, wrote, tally>>

\* _local_file: the letter is fetched once a session, found or not.
Fetched(r) ==
  IF ~LetterWanted \/ run[r].got # "unknown" THEN run[r].got
  ELSE IF letter[run[r].app].path /\ letter[run[r].app].file THEN "file" ELSE "none"

FillsPage(r) ==
  \E fill \in PageFills :
    fill.found = (Fetched(r) = "file") /\ wrote' = wrote \cup fill.writes

\* extract, propose, fill and report; then the pump.
FillStep(r) ==
  /\ LoopTop(r) /\ ~run[r].paused /\ ~Reviewing(r)
  /\ ~Playbook[run[r].index].user_only
  /\ Holds(r)
  /\ FillsPage(r)
  /\ Go(r, [run[r] EXCEPT !.pc = "filled", !.at = run[r].index, !.got = Fetched(r)])
  /\ UNCHANGED <<app, letter, req, issued, clicked, tally>>

Clicks(r, by) == clicked' = clicked \cup {[index |-> run[r].index, by |-> by]}

Pumping(r) == run[r].pc \in {"filled", "await", "rest"} /\ run[r].open
Pumped(r) == Pumping(r) /\ run[r].actions = <<>>

PumpEnds(r) ==
  /\ Pumped(r)
  /\ run[r].pc = "await" => MovedOn(r)
  /\ Go(r, [run[r] EXCEPT !.pc = IF @ = "filled" /\ ~MovedOn(r) THEN "pumped" ELSE "loop"])
  /\ UNCHANGED <<app, letter, req, issued, clicked, wrote, tally>>

\* The window is closed: what is still to do fails or returns at once.
PumpClosed(r) ==
  /\ run[r].pc \in {"filled", "pumped", "await", "rest"} /\ ~run[r].open
  /\ Go(r, NoSession)
  /\ UNCHANGED <<app, letter, req, issued, clicked, wrote, tally>>

\* advance: the Next control is clicked, or there is none, or the click fails
\* and the step is handed to the user.
Advance(r) ==
  /\ run[r].pc = "pumped" /\ run[r].open
  /\ \/ /\ Clicks(r, "loop")
        /\ Go(r, [run[r] EXCEPT !.pc = "loop", !.index = @ + 1])
     \/ /\ Go(r, IF Holds(r) THEN [run[r] EXCEPT !.pc = "await"] ELSE NoSession)
        /\ UNCHANGED clicked
  /\ UNCHANGED <<app, letter, req, issued, wrote, tally>>

-----------------------------------------------------------------------------
(* The panel's buttons, performed by the pump.  A report that fails stops  *)
(* the action there; the session goes on.                                  *)

Popped(r) == [run[r] EXCEPT !.actions = Tail(@)]
Performs(r, name) == Pumping(r) /\ run[r].actions # <<>> /\ Head(run[r].actions) = name

Told(r, state) ==
  IF Holds(r) THEN app' = [app EXCEPT ![run[r].app].assist = state] ELSE UNCHANGED app

Resumed(r) == IF run[r].paused THEN Told(r, "running") ELSE UNCHANGED app

PerformPause(r) ==
  /\ Performs(r, "pause")
  /\ IF run[r].paused THEN UNCHANGED app ELSE Told(r, "paused")
  /\ Go(r, [Popped(r) EXCEPT !.paused = TRUE])
  /\ UNCHANGED <<letter, req, issued, clicked, wrote, tally>>

\* resume, then fill_step, also on a step of the user's; without the session
\* the resume's report or the proposals are refused and nothing is filled.
PerformFill(r) ==
  /\ Performs(r, "fill")
  /\ IF Step(r) /\ ~Reviewing(r)
     THEN /\ Resumed(r)
          /\ IF Holds(r)
             THEN FillsPage(r) /\ Go(r, [Popped(r) EXCEPT !.paused = FALSE, !.got = Fetched(r)])
             ELSE Go(r, [Popped(r) EXCEPT !.paused = FALSE]) /\ UNCHANGED wrote
     ELSE Go(r, Popped(r)) /\ UNCHANGED <<app, wrote>>
  /\ UNCHANGED <<letter, req, issued, clicked, tally>>

MayAdvance(r) == Step(r) /\ ~Reviewing(r)

\* resume, advance unless the step is the review, and on to the next step
\* whether or not a control was clicked.
PerformNext(r) ==
  /\ Performs(r, "next")
  /\ Resumed(r)
  /\ IF run[r].paused /\ ~Holds(r)
     THEN Go(r, [Popped(r) EXCEPT !.paused = FALSE]) /\ UNCHANGED clicked
     ELSE /\ Go(r, [Popped(r) EXCEPT !.paused = FALSE, !.index = @ + 1])
          /\ (MayAdvance(r) /\ Clicks(r, "user")) \/ UNCHANGED clicked
  /\ UNCHANGED <<letter, req, issued, wrote, tally>>

\* The report fails: a pause stands, a resume stands, and nothing else is done.
PerformFails(r) ==
  /\ Pumping(r) /\ run[r].actions # <<>>
  /\ \/ Head(run[r].actions) = "pause"
     \/ Head(run[r].actions) = "fill" /\ MayAdvance(r)
     \/ Head(run[r].actions) = "next" /\ run[r].paused
  /\ Counted("faults", MaxFaults)
  /\ Go(r, [Popped(r) EXCEPT !.paused = Head(run[r].actions) = "pause"])
  /\ UNCHANGED <<app, letter, req, issued, clicked, wrote>>

Press(r, button) ==
  /\ run[r].open /\ button \in Buttons
  /\ Counted("clicks", MaxClicks)
  /\ Go(r, [run[r] EXCEPT !.actions = Append(@, button)])
  /\ UNCHANGED <<app, letter, req, issued, clicked, wrote>>

CloseWindow(r) ==
  /\ run[r].open
  /\ Go(r, [run[r] EXCEPT !.open = FALSE])
  /\ UNCHANGED <<app, letter, req, issued, clicked, wrote, tally>>

-----------------------------------------------------------------------------
Read(t) == \E a \in Apps : CreateRead(t, a) \/ StatusRead(t, a) \/ QueueRead(t, a)
                             \/ PrepareRead(t, a) \/ EditRead(t, a)
Write(t) == Drafted(t) \/ Render(t) \/ CreateCommit(t) \/ StatusCommit(t)
              \/ QueueCommit(t) \/ PacketCommit(t)
Claim(r) == Poll(r) \/ ClaimRead(r) \/ ClaimCommit(r) \/ ClaimReply(r)
Walk(r) == Open(r) \/ NoBrowser(r) \/ Superseded(r) \/ LoopEnds(r) \/ LoopPaused(r) \/ AnnounceReview(r)
             \/ AwaitUser(r) \/ FillStep(r) \/ PumpEnds(r) \/ PumpClosed(r) \/ Advance(r)
Perform(r) == PerformPause(r) \/ PerformFill(r) \/ PerformNext(r)
User(r) == (\E b \in Buttons : Press(r, b)) \/ CloseWindow(r)

Next ==
  \/ \E t \in Threads : Read(t) \/ Write(t)
  \/ ServerCrash
  \/ \E r \in Runners : Claim(r) \/ Walk(r) \/ Captcha(r) \/ SessionFails(r)
                          \/ Perform(r) \/ PerformFails(r) \/ User(r)

Spec == Init /\ [][Next]_vars

\* The runner's process keeps running and its user closes the window in the end.
FairSpec ==
  /\ Spec
  /\ \A r \in Runners : WF_vars(Claim(r) \/ Walk(r) \/ Perform(r)) /\ WF_vars(CloseWindow(r))

-----------------------------------------------------------------------------
TypeOK ==
  /\ app \in [Apps -> Row]
  /\ letter \in [Apps -> [path : BOOLEAN, file : BOOLEAN]]
  /\ req \in [Threads -> Request]
  /\ run \in [Runners -> Session]
  /\ issued \in Nat
  /\ clicked \subseteq Click
  /\ wrote \subseteq FieldWrite
  /\ tally \in [{"ops", "clicks", "faults"} -> Nat]

\* The runner never clicks at or after the review step, and a step that is the
\* user's is left only on the user's own Next step, whatever was pressed while
\* the loop was filling (__main__.py's first guarantee, PlaybookStep.user_only).
ClicksBeforeReview ==
  \A c \in clicked : /\ c.index <= Len(Playbook) /\ ~Playbook[c.index].review
                     /\ Playbook[c.index].user_only => c.by = "user"

\* The attestations and CAPTCHAs whose id brings no other field's proposal.
UsersFields == {i \in DOMAIN Page : Forced(Page[i]) /\ Forced(Page[Winner(i)])}

\* Attestations and CAPTCHAs are the user's (mapping.py:32-35): whatever the
\* profile, the bank and the model hold, and however often the page is filled,
\* none is written into, but in the two ways the code leaves open.  A file input
\* that reads like a cover letter gets the runner's own copy whoever the field
\* was proposed for (__main__.py:384), and a field the page knows by the id of
\* another (extract.js:181) gets the proposal kept for that one.
UsersFieldsUntouched ==
  \A w \in wrote :
    \/ w.field \notin UsersFields
    \/ WantsLetter(Page[w.field]) /\ w.value = "local"

\* Every queued application leaves the queue: a session that fails, is paused
\* or is closed never keeps the watcher from the next one.
QueueServed == \A a \in Apps : (app[a].assist = "queued") ~> (app[a].assist # "queued")
=============================================================================

------------------------------ MODULE AssistProofs ------------------------------
(***************************************************************************)
(* Theorems about Assist and the page filling it rests on.                 *)
(***************************************************************************)
EXTENDS Assist, TLAPS, SequenceTheorems, WellFoundedInduction

-----------------------------------------------------------------------------
(* What one fill of a page writes *)

LEMMA FieldHasLast ==
  ASSUME NEW i \in DOMAIN Page
  PROVE  Target(i) \in DOMAIN Page /\ SameId(Target(i)) = SameId(i)
<1> DEFINE fromEnd == {Len(Page) - j : j \in SameId(i)}
<1>1. Len(Page) \in Nat /\ DOMAIN Page = 1 .. Len(Page) BY PageAssumption
<1>2. SameId(i) \subseteq DOMAIN Page /\ i \in SameId(i) BY DEF SameId
<1>3. fromEnd \subseteq Nat /\ fromEnd # {} BY <1>1, <1>2
<1> HIDE DEF fromEnd
<1>4. PICK m \in fromEnd : \A n \in fromEnd : <<n, m>> \notin OpToRel(<, Nat)
  BY <1>3, WFMin, NatLessThanWellFounded, Zenon
<1>5. \A n \in fromEnd : m <= n
  <2>1. SUFFICES ASSUME NEW n \in fromEnd, ~(m <= n) PROVE FALSE OBVIOUS
  <2>2. n < m /\ n \in Nat /\ m \in Nat BY <1>3, <2>1
  <2>3. <<n, m>> \in Nat \X Nat /\ <<n, m>>[1] < <<n, m>>[2] BY <2>2
  <2>4. <<n, m>> \in OpToRel(<, Nat) BY <2>3, Zenon DEF OpToRel
  <2>5. QED BY <1>4, <2>4, Zenon
<1>6. PICK j \in SameId(i) : m = Len(Page) - j BY <1>4 DEF fromEnd
<1>7. ASSUME NEW k \in SameId(i) PROVE k <= j
  <2>1. Len(Page) - k \in fromEnd BY DEF fromEnd
  <2>2. m <= Len(Page) - k BY <2>1, <1>5
  <2>3. j \in Nat /\ k \in Nat BY <1>1, <1>2
  <2>4. QED BY <2>2, <2>3, <1>6, <1>1
<1>8. Target(i) \in SameId(i) BY <1>7 DEF Target
<1>9. Target(i) \in DOMAIN Page /\ Page[Target(i)].id = Page[i].id BY <1>8 DEF SameId
<1>10. SameId(Target(i)) = SameId(i) BY <1>9 DEF SameId
<1>11. QED BY <1>9, <1>10

LEMMA OffersAreProposals ==
  /\ NeedsUser \in Proposal /\ NeedsUser.user
  /\ \A v \in Values : Offered(v) \in Proposal
<1>1. "none" \in Values BY DEF Values
<1>2. QED BY <1>1 DEF NeedsUser, Offered, Proposal

\* Whatever a field says, the ladder proposes one of the values.
LEMMA LadderTyped ==
  ASSUME NEW f, NEW reply \in Replies
  PROVE  Ladder(f, reply) \in Proposal
<1>1. {"none", "profile", "decline", "path", "answer"} \subseteq Values BY DEF Values
<1>2. ASSUME NEW rule PROVE FromProfile(rule) \in Proposal
  BY <1>1, OffersAreProposals DEF FromProfile
<1>3. Answered(f, reply) \in Proposal
  BY <1>1, OffersAreProposals, PageAssumption DEF Answered, Generated
<1>4. QED BY <1>2, <1>3, OffersAreProposals DEF Ladder

LEMMA LocalizedTyped ==
  ASSUME NEW f, NEW p \in Proposal, NEW found
  PROVE  Localized(f, p, found) \in Proposal
<1>1. "local" \in Values BY DEF Values
<1>2. QED BY <1>1, OffersAreProposals DEF Localized

LEMMA ProposalsTyped ==
  ASSUME NEW found, NEW reply \in Replies
  PROVE  Proposals(found, reply) \in [DOMAIN Page -> Proposal]
BY LadderTyped, LocalizedTyped DEF Proposals, Proposed

LEMMA FillsTyped ==
  ASSUME NEW fill \in PageFills
  PROVE  fill.writes \subseteq FieldWrite
<1>1. PICK found \in BOOLEAN, reply \in Replies :
        fill = [found |-> found, writes |-> Filled(Proposals(found, reply))]
  BY DEF PageFills
<1>2. fill.writes = Filled(Proposals(found, reply)) BY <1>1
<1>3. Proposals(found, reply) \in [DOMAIN Page -> Proposal] BY ProposalsTyped
<1>4. ASSUME NEW i \in DOMAIN Page
      PROVE  /\ Target(i) \in DOMAIN Page
             /\ Proposals(found, reply)[i].value \in Values
  BY FieldHasLast, <1>3 DEF Proposal
<1>5. QED BY <1>2, <1>4 DEF Filled, FieldWrite

\* What may be written into a field: Assist's UsersFieldsUntouched for one write.
Permitted(w) ==
  \/ w.field \notin UsersFields
  \/ WantsLetter(Page[w.field]) /\ w.value = "local"

\* The swap of files takes back no demand for the user but for a letter found.
LEMMA DemandStands ==
  ASSUME NEW f, NEW found, ~Localized(f, NeedsUser, found).user
  PROVE  WantsLetter(f) /\ Localized(f, NeedsUser, found) = Offered("local")
<1>1. NeedsUser.user /\ NeedsUser.value = "none" BY DEF NeedsUser
<1>2. QED BY <1>1 DEF Localized

\* Where the proposal kept for a forced field's id is a forced field's, the
\* ladder asks for the user, and the filler obeys but for a letter found.
LEMMA ForcedNotFilled ==
  ASSUME NEW fill \in PageFills, NEW w \in fill.writes
  PROVE  Permitted(w)
<1>1. PICK found \in BOOLEAN, reply \in Replies :
        fill = [found |-> found, writes |-> Filled(Proposals(found, reply))]
  BY DEF PageFills
<1> DEFINE props == Proposals(found, reply)
<1>2. w \in Filled(props) BY <1>1
<1>3. PICK i \in DOMAIN Page : /\ w = [field |-> Target(i), value |-> props[i].value]
                               /\ Fills(Page[Target(i)], props[i])
  BY <1>2 DEF Filled
<1>4. w.field = Target(i) /\ w.value = props[i].value /\ ~props[i].user BY <1>3 DEF Fills
<1>5. Winner(w.field) = Winner(i) BY <1>4, FieldHasLast DEF Winner
<1>6. SUFFICES ASSUME Forced(Page[Winner(i)])
               PROVE  WantsLetter(Page[w.field]) /\ w.value = "local"
  BY <1>5 DEF Permitted, UsersFields
<1>7. props[i] = Localized(Page[Target(i)], NeedsUser, found)
  BY <1>6 DEF Proposals, Proposed, Ladder
<1>8. WantsLetter(Page[Target(i)]) /\ props[i] = Offered("local") BY <1>4, <1>7, DemandStands
<1>9. QED BY <1>4, <1>8 DEF Offered

-----------------------------------------------------------------------------
(* Types *)

Pcs == {"idle", "claim", "commit", "reply", "open", "loop", "filled", "pumped", "await", "rest"}
Pressed == {"pause", "fill", "next"}

LEMMA AppFacts == 1 \in Apps BY AppAssumption

LEMMA NoSessionTyped == NoSession \in Session /\ NoSession.pc = "idle"
BY AppFacts DEF NoSession, Session

LEMMA NoRequestTyped == NoRequest \in Request
BY AppFacts DEF NoRequest, Request, Kinds, Statuses

\* A row changed in the columns the handlers change.
LEMMA RowParts ==
  ASSUME NEW x \in Row, NEW status \in Statuses, NEW stamped \in BOOLEAN,
         NEW assist \in AssistStates, NEW sid \in Nat
  PROVE  /\ [x EXCEPT !.status = status] \in Row
         /\ [x EXCEPT !.status = status, !.stamped = stamped] \in Row
         /\ [x EXCEPT !.assist = assist] \in Row
         /\ [x EXCEPT !.assist = assist, !.sid = sid] \in Row
BY DEF Row

\* A session changed in the fields the runner's steps change.
LEMMA SessionAt ==
  ASSUME NEW s \in Session, NEW pc \in Pcs
  PROVE  [s EXCEPT !.pc = pc] \in Session
BY DEF Session, Pcs

LEMMA SessionMoves ==
  ASSUME NEW s \in Session, NEW pc \in Pcs, NEW n \in Nat
  PROVE  /\ [s EXCEPT !.pc = pc, !.sid = n] \in Session
         /\ [s EXCEPT !.pc = pc, !.at = n] \in Session
         /\ [s EXCEPT !.pc = pc, !.index = n] \in Session
BY DEF Session, Pcs

LEMMA SessionFilled ==
  ASSUME NEW s \in Session, NEW pc \in Pcs, NEW n \in Nat,
         NEW g \in {"unknown", "none", "file"}
  PROVE  [s EXCEPT !.pc = pc, !.at = n, !.got = g] \in Session
BY DEF Session, Pcs

LEMMA SessionFlags ==
  ASSUME NEW s \in Session, NEW pc \in Pcs, NEW b \in BOOLEAN
  PROVE  /\ [s EXCEPT !.pc = pc, !.open = b] \in Session
         /\ [s EXCEPT !.pc = pc, !.paused = b] \in Session
BY DEF Session, Pcs

LEMMA SessionPaused ==
  ASSUME NEW s \in Session, NEW b \in BOOLEAN
  PROVE  /\ [s EXCEPT !.paused = b] \in Session
         /\ [s EXCEPT !.open = b] \in Session
BY DEF Session

LEMMA SessionResumed ==
  ASSUME NEW s \in Session, NEW g \in {"unknown", "none", "file"}, NEW n \in Nat
  PROVE  /\ [s EXCEPT !.paused = FALSE, !.got = g] \in Session
         /\ [s EXCEPT !.paused = FALSE, !.index = n] \in Session
BY DEF Session

LEMMA SessionQueued ==
  ASSUME NEW s \in Session, NEW q \in Seq(Pressed)
  PROVE  [s EXCEPT !.actions = q] \in Session
BY DEF Session, Pressed

LEMMA PoppedTyped ==
  ASSUME run \in [Runners -> Session], NEW r \in Runners, run[r].actions # <<>>
  PROVE  Popped(r) \in Session
<1>1. run[r] \in Session /\ run[r].actions \in Seq(Pressed) BY DEF Session, Pressed
<1>2. Tail(run[r].actions) \in Seq(Pressed) BY <1>1, HeadTailProperties
<1>3. QED BY <1>1, <1>2, SessionQueued DEF Popped

LEMMA GoTyped ==
  ASSUME run \in [Runners -> Session], NEW r \in Runners, NEW s \in Session, Go(r, s)
  PROVE  /\ run' \in [Runners -> Session]
         /\ run'[r] = s
         /\ \A x \in Runners \ {r} : run'[x] = run[x]
BY DEF Go

LEMMA ServeTyped ==
  ASSUME req \in [Threads -> Request], NEW t \in Threads, NEW q \in Request, Serve(t, q)
  PROVE  req' \in [Threads -> Request]
BY DEF Serve

LEMMA CountedTyped ==
  ASSUME tally \in [{"ops", "clicks", "faults"} -> Nat],
         NEW kind \in {"ops", "clicks", "faults"}, NEW limit, Counted(kind, limit)
  PROVE  tally' \in [{"ops", "clicks", "faults"} -> Nat]
BY DEF Counted

LEMMA AssistTyped ==
  ASSUME app \in [Apps -> Row], NEW a \in Apps, NEW state \in AssistStates,
         app' = [app EXCEPT ![a].assist = state]
  PROVE  app' \in [Apps -> Row]
<1>1. app[a] \in Row OBVIOUS
<1>2. [app[a] EXCEPT !.assist = state] \in Row BY <1>1 DEF Row
<1> DEFINE x == [app[a] EXCEPT !.assist = state]
<1>3. app' = [app EXCEPT ![a] = x] OBVIOUS
<1> HIDE DEF x
<1>4. QED BY <1>2, <1>3 DEF x

LEMMA FillTyped ==
  ASSUME wrote \subseteq FieldWrite, NEW r, FillsPage(r)
  PROVE  wrote' \subseteq FieldWrite
BY FillsTyped DEF FillsPage

LEMMA FetchedTyped ==
  ASSUME run \in [Runners -> Session], NEW r \in Runners
  PROVE  Fetched(r) \in {"unknown", "none", "file"}
BY DEF Fetched, Session

LEMMA ClickTyped ==
  ASSUME clicked \subseteq Click, run \in [Runners -> Session], NEW r \in Runners,
         NEW by \in {"loop", "user"}, Clicks(r, by)
  PROVE  clicked' \subseteq Click
<1>1. [index |-> run[r].index, by |-> by] \in Click BY DEF Click, Session
<1>2. QED BY <1>1 DEF Clicks

-----------------------------------------------------------------------------
(* Each step keeps the types *)

USE DEF Pcs

LEMMA ReadTyped ==
  ASSUME TypeOK, NEW t \in Threads, NEW a \in Apps, NEW kind, NEW to \in Statuses,
         NEW pc \in {"draft", "render", "commit"}, Receive(t, a, kind, to, pc)
  PROVE  TypeOK'
<1> DEFINE q == [pc |-> pc, kind |-> kind, app |-> a, to |-> to]
<1>1. q \in Request BY ClientAssumption DEF Request, Receive
<1>2. Serve(t, q) /\ Counted("ops", MaxOps) BY DEF Receive
<1> HIDE DEF q
<1>3. req' \in [Threads -> Request] BY <1>1, <1>2, ServeTyped DEF TypeOK
<1>4. tally' \in [{"ops", "clicks", "faults"} -> Nat] BY <1>2, CountedTyped DEF TypeOK
<1>5. QED BY <1>3, <1>4 DEF TypeOK, Receive

LEMMA RequestStepsTyped ==
  ASSUME TypeOK, NEW t \in Threads, Read(t) \/ Write(t)
  PROVE  TypeOK'
<1>1. "none" \in Statuses /\ NoRequest \in Request BY NoRequestTyped DEF Statuses
<1>2. req[t] \in Request BY DEF TypeOK
<1>3. CASE Read(t)
  <2>1. PICK a \in Apps : CreateRead(t, a) \/ StatusRead(t, a) \/ QueueRead(t, a)
                            \/ PrepareRead(t, a) \/ EditRead(t, a)
    BY <1>3 DEF Read
  <2>2. Allowed(app[a].status) \subseteq Statuses BY DEF Allowed, Statuses
  <2>3. CASE CreateRead(t, a) BY <1>1, <2>3, ReadTyped DEF CreateRead
  <2>4. CASE StatusRead(t, a) BY <2>2, <2>4, ReadTyped DEF StatusRead
  <2>5. CASE QueueRead(t, a) BY <1>1, <2>5, ReadTyped DEF QueueRead
  <2>6. CASE PrepareRead(t, a) BY <1>1, <2>6, ReadTyped DEF PrepareRead
  <2>7. CASE EditRead(t, a) BY <1>1, <2>7, ReadTyped DEF EditRead
  <2>8. QED BY <2>1, <2>3, <2>4, <2>5, <2>6, <2>7
<1>4. CASE Drafted(t)
  <2>1. PICK pc \in {"render", "idle"} : Serve(t, [req[t] EXCEPT !.pc = pc])
    BY <1>4 DEF Drafted
  <2>2. [req[t] EXCEPT !.pc = pc] \in Request BY <1>2 DEF Request
  <2>3. req' \in [Threads -> Request] BY <2>1, <2>2, ServeTyped DEF TypeOK
  <2>4. QED BY <1>4, <2>3 DEF Drafted, TypeOK
<1>5. CASE Render(t)
  <2>1. [req[t] EXCEPT !.pc = "commit"] \in Request BY <1>2 DEF Request
  <2>2. req' \in [Threads -> Request] BY <1>5, <2>1, ServeTyped DEF Render, TypeOK
  <2>3. letter' \in [Apps -> [path : BOOLEAN, file : BOOLEAN]] BY <1>5 DEF Render, TypeOK
  <2>4. QED BY <1>5, <2>2, <2>3 DEF Render, TypeOK
<1>6. req[t].app \in Apps /\ req[t].to \in Statuses BY <1>2 DEF Request
<1>7. CASE CreateCommit(t)
  <2>1. req' \in [Threads -> Request] BY <1>1, <1>7, ServeTyped DEF CreateCommit, TypeOK
  <2>2. app' \in [Apps -> Row] BY <1>6, <1>7 DEF CreateCommit, TypeOK, Row, Statuses
  <2>3. QED BY <1>7, <2>1, <2>2 DEF CreateCommit, TypeOK
<1>8. CASE StatusCommit(t)
  <2>1. req' \in [Threads -> Request] BY <1>1, <1>8, ServeTyped DEF StatusCommit, TypeOK
  <2>2. app[req[t].app] \in Row BY <1>6 DEF TypeOK
  <2>3. StatusCommitted(app[req[t].app], req[t].to) \in Row
    BY <1>6, <2>2 DEF StatusCommitted, Row
  <2>4. app' \in [Apps -> Row] BY <1>6, <1>8, <2>3 DEF StatusCommit, TypeOK
  <2>5. QED BY <1>8, <2>1, <2>4 DEF StatusCommit, TypeOK
<1>9. CASE QueueCommit(t)
  <2>1. req' \in [Threads -> Request] BY <1>1, <1>9, ServeTyped DEF QueueCommit, TypeOK
  <2>2. "queued" \in AssistStates BY DEF AssistStates, Active
  <2>3. app' \in [Apps -> Row] BY <1>6, <1>9, <2>2, AssistTyped DEF QueueCommit, TypeOK
  <2>4. QED BY <1>9, <2>1, <2>3 DEF QueueCommit, TypeOK
<1>10. CASE PacketCommit(t)
  <2>1. req' \in [Threads -> Request] BY <1>1, <1>10, ServeTyped DEF PacketCommit, TypeOK
  <2>2. letter' \in [Apps -> [path : BOOLEAN, file : BOOLEAN]]
    BY <1>10 DEF PacketCommit, TypeOK
  <2>3. QED BY <1>10, <2>1, <2>2 DEF PacketCommit, TypeOK
<1>11. QED BY <1>3, <1>4, <1>5, <1>7, <1>8, <1>9, <1>10 DEF Write

LEMMA CrashTyped ==
  ASSUME TypeOK, ServerCrash
  PROVE  TypeOK'
<1>1. req' \in [Threads -> Request] BY NoRequestTyped DEF ServerCrash
<1>2. tally' \in [{"ops", "clicks", "faults"} -> Nat]
  BY CountedTyped DEF ServerCrash, TypeOK
<1>3. QED BY <1>1, <1>2 DEF ServerCrash, TypeOK

\* A step of a runner leaves what the server's requests keep alone.
LEMMA RunnerTyped ==
  ASSUME TypeOK, NEW r \in Runners, NEW s \in Session, Go(r, s), UNCHANGED <<letter, req>>,
         app' \in [Apps -> Row], issued' \in Nat, clicked' \subseteq Click,
         wrote' \subseteq FieldWrite, tally' \in [{"ops", "clicks", "faults"} -> Nat]
  PROVE  TypeOK'
BY GoTyped DEF TypeOK

LEMMA OnlyMoves ==
  ASSUME TypeOK, NEW r \in Runners, NEW s \in Session, Go(r, s),
         UNCHANGED <<app, letter, req, issued, clicked, wrote, tally>>
  PROVE  TypeOK'
BY RunnerTyped DEF TypeOK

\* A report of the runner, accepted or refused.
LEMMA OnlyReports ==
  ASSUME TypeOK, NEW r \in Runners, NEW s \in Session, Go(r, s),
         UNCHANGED <<letter, req, issued, clicked, wrote, tally>>,
         NEW state \in AssistStates,
         app' = app \/ app' = [app EXCEPT ![run[r].app].assist = state]
  PROVE  TypeOK'
<1>1. run[r].app \in Apps BY DEF TypeOK, Session
<1>2. app' \in [Apps -> Row] BY <1>1, AssistTyped DEF TypeOK
<1>3. QED BY <1>2, RunnerTyped DEF TypeOK

LEMMA RaisedTyped ==
  ASSUME TypeOK, NEW r \in Runners, Raised(r),
         tally' = tally \/ Counted("faults", MaxFaults)
  PROVE  TypeOK'
<1>1. tally' \in [{"ops", "clicks", "faults"} -> Nat] BY CountedTyped DEF TypeOK
<1>2. QED BY <1>1, NoSessionTyped, RunnerTyped DEF Raised, TypeOK

LEMMA ClaimTyped ==
  ASSUME TypeOK, NEW r \in Runners, Claim(r)
  PROVE  TypeOK'
<1>1. run[r] \in Session /\ run[r].app \in Apps BY DEF TypeOK, Session
<1>2. CASE Poll(r)
  <2>1. PICK a \in Apps : Go(r, [NoSession EXCEPT !.pc = "claim", !.app = a])
    BY <1>2 DEF Poll
  <2>2. [NoSession EXCEPT !.pc = "claim", !.app = a] \in Session
    BY NoSessionTyped DEF Session
  <2>3. QED BY <1>2, <2>1, <2>2, OnlyMoves DEF Poll
<1>3. CASE ClaimRead(r)
  BY <1>1, <1>3, NoSessionTyped, SessionAt, OnlyMoves DEF ClaimRead
<1>4. CASE ClaimCommit(r)
  <2>1. issued' \in Nat BY <1>4 DEF ClaimCommit, TypeOK
  <2>2. "claimed" \in AssistStates BY DEF AssistStates, Active
  <2>3. app[run[r].app] \in Row BY <1>1 DEF TypeOK
  <2> DEFINE x == [app[run[r].app] EXCEPT !.assist = "claimed", !.sid = issued']
  <2>4. x \in Row BY <2>1, <2>2, <2>3 DEF Row
  <2>5. app' = [app EXCEPT ![run[r].app] = x] BY <1>1, <1>4 DEF ClaimCommit, TypeOK
  <2> HIDE DEF x
  <2>6. app' \in [Apps -> Row] BY <2>4, <2>5 DEF TypeOK
  <2>7. [run[r] EXCEPT !.pc = "reply"] \in Session BY <1>1, SessionAt
  <2>8. QED BY <1>4, <2>1, <2>6, <2>7, RunnerTyped DEF ClaimCommit, TypeOK
<1>5. CASE ClaimReply(r)
  <2>1. app[run[r].app].sid \in Nat BY <1>1 DEF TypeOK, Row
  <2>2. [run[r] EXCEPT !.pc = "open", !.sid = app[run[r].app].sid] \in Session
    BY <1>1, <2>1, SessionMoves
  <2>3. QED BY <1>5, <2>2, OnlyMoves DEF ClaimReply
<1>6. QED BY <1>2, <1>3, <1>4, <1>5 DEF Claim

LEMMA FillStepTyped ==
  ASSUME TypeOK, NEW r \in Runners, FillStep(r)
  PROVE  TypeOK'
<1>1. run[r] \in Session /\ run[r].index \in Nat BY DEF TypeOK, Session
<1>2. Fetched(r) \in {"unknown", "none", "file"} BY FetchedTyped DEF TypeOK
<1>3. [run[r] EXCEPT !.pc = "filled", !.at = run[r].index, !.got = Fetched(r)] \in Session
  BY <1>1, <1>2, SessionFilled
<1>4. wrote' \subseteq FieldWrite BY FillTyped DEF FillStep, TypeOK
<1>5. QED BY <1>3, <1>4, RunnerTyped DEF FillStep, TypeOK

LEMMA AdvanceTyped ==
  ASSUME TypeOK, NEW r \in Runners, Advance(r)
  PROVE  TypeOK'
<1>1. run[r] \in Session /\ run[r].index + 1 \in Nat BY DEF TypeOK, Session
<1>2. clicked' \subseteq Click
  <2>1. Clicks(r, "loop") \/ clicked' = clicked BY DEF Advance
  <2>2. QED BY <2>1, ClickTyped DEF TypeOK
<1>3. /\ [run[r] EXCEPT !.pc = "loop", !.index = run[r].index + 1] \in Session
      /\ [run[r] EXCEPT !.pc = "await"] \in Session
  BY <1>1, SessionMoves, SessionAt
<1>4. PICK s \in Session : Go(r, s) BY <1>3, NoSessionTyped DEF Advance
<1>5. QED BY <1>2, <1>4, RunnerTyped DEF Advance, TypeOK

LEMMA WalkTyped ==
  ASSUME TypeOK, NEW r \in Runners, Walk(r)
  PROVE  TypeOK'
<1>1. run[r] \in Session /\ run[r].index \in Nat BY DEF TypeOK, Session
<1>2. "running" \in AssistStates /\ "paused" \in AssistStates BY DEF AssistStates, Active
<1>3. CASE Open(r)
  <2>1. [run[r] EXCEPT !.pc = "loop", !.open = TRUE] \in Session BY <1>1, SessionFlags
  <2>2. QED BY <1>2, <1>3, <2>1, OnlyReports DEF Open, Reported
<1>4. CASE NoBrowser(r) BY <1>4, RaisedTyped DEF NoBrowser
<1>5. CASE Superseded(r) BY <1>5, RaisedTyped DEF Superseded
<1>6. CASE LoopEnds(r) BY <1>6, NoSessionTyped, OnlyMoves DEF LoopEnds
<1>7. CASE LoopPaused(r) BY <1>1, <1>7, SessionAt, OnlyMoves DEF LoopPaused
<1>8. CASE AnnounceReview(r)
  BY <1>2, <1>8, NoSessionTyped, OnlyReports DEF AnnounceReview, Reported, ReviewState
<1>9. CASE AwaitUser(r) BY <1>1, <1>9, SessionMoves, OnlyMoves DEF AwaitUser
<1>10. CASE FillStep(r) BY <1>10, FillStepTyped
<1>11. CASE PumpEnds(r)
  <2>1. [run[r] EXCEPT !.pc = "pumped"] \in Session /\ [run[r] EXCEPT !.pc = "loop"] \in Session
    BY <1>1, SessionAt
  <2>2. PICK s \in Session : Go(r, s) BY <1>11, <2>1 DEF PumpEnds
  <2>3. QED BY <1>11, <2>2, OnlyMoves DEF PumpEnds
<1>12. CASE PumpClosed(r) BY <1>12, NoSessionTyped, OnlyMoves DEF PumpClosed
<1>13. CASE Advance(r) BY <1>13, AdvanceTyped
<1>14. QED BY <1>3, <1>4, <1>5, <1>6, <1>7, <1>8, <1>9, <1>10, <1>11, <1>12, <1>13 DEF Walk

LEMMA ToldCases ==
  ASSUME NEW r \in Runners, NEW state, Told(r, state)
  PROVE  app' = app \/ app' = [app EXCEPT ![run[r].app].assist = state]
BY DEF Told

LEMMA ResumedCases ==
  ASSUME NEW r \in Runners, Resumed(r)
  PROVE  app' = app \/ app' = [app EXCEPT ![run[r].app].assist = "running"]
BY ToldCases DEF Resumed

LEMMA PerformFillTyped ==
  ASSUME TypeOK, NEW r \in Runners, PerformFill(r)
  PROVE  TypeOK'
<1>1. Popped(r) \in Session BY PoppedTyped DEF PerformFill, Performs, TypeOK
<1>2. Fetched(r) \in {"unknown", "none", "file"} BY FetchedTyped DEF TypeOK
<1>3. run[r].index \in Nat /\ run[r].app \in Apps BY DEF TypeOK, Session
<1>4. /\ [Popped(r) EXCEPT !.paused = FALSE, !.got = Fetched(r)] \in Session
      /\ [Popped(r) EXCEPT !.paused = FALSE] \in Session
  BY <1>1, <1>2, <1>3, SessionResumed, SessionPaused
<1>5. PICK s \in Session : Go(r, s) BY <1>1, <1>4 DEF PerformFill
<1>6. wrote' \subseteq FieldWrite
  <2>1. FillsPage(r) \/ wrote' = wrote BY DEF PerformFill
  <2>2. QED BY <2>1, FillTyped DEF TypeOK
<1>7. app' \in [Apps -> Row]
  <2>1. app' = app \/ app' = [app EXCEPT ![run[r].app].assist = "running"]
    BY ResumedCases DEF PerformFill
  <2>2. "running" \in AssistStates BY DEF AssistStates, Active
  <2>3. QED BY <1>3, <2>1, <2>2, AssistTyped DEF TypeOK
<1>8. QED BY <1>5, <1>6, <1>7, RunnerTyped DEF PerformFill, TypeOK

LEMMA PerformNextTyped ==
  ASSUME TypeOK, NEW r \in Runners, PerformNext(r)
  PROVE  TypeOK'
<1>1. Popped(r) \in Session BY PoppedTyped DEF PerformNext, Performs, TypeOK
<1>2. run[r].index \in Nat /\ run[r].app \in Apps BY DEF TypeOK, Session
<1>3. Popped(r).index = run[r].index BY <1>1 DEF Popped, TypeOK, Session
<1>4. /\ [Popped(r) EXCEPT !.paused = FALSE, !.index = Popped(r).index + 1] \in Session
      /\ [Popped(r) EXCEPT !.paused = FALSE] \in Session
  <2>1. Popped(r).index + 1 \in Nat BY <1>2, <1>3
  <2>2. "none" \in {"unknown", "none", "file"} OBVIOUS
  <2>3. QED BY <1>1, <2>1, <2>2, SessionResumed, SessionPaused
<1>5. PICK s \in Session : Go(r, s) BY <1>4 DEF PerformNext
<1>6. clicked' \subseteq Click
  <2>1. Clicks(r, "user") \/ clicked' = clicked BY DEF PerformNext
  <2>2. QED BY <2>1, ClickTyped DEF TypeOK
<1>7. app' \in [Apps -> Row]
  <2>1. app' = app \/ app' = [app EXCEPT ![run[r].app].assist = "running"]
    BY ResumedCases DEF PerformNext
  <2>2. "running" \in AssistStates BY DEF AssistStates, Active
  <2>3. QED BY <1>2, <2>1, <2>2, AssistTyped DEF TypeOK
<1>8. QED BY <1>5, <1>6, <1>7, RunnerTyped DEF PerformNext, TypeOK

LEMMA PanelTyped ==
  ASSUME TypeOK, NEW r \in Runners, Perform(r) \/ PerformFails(r) \/ User(r) \/ Captcha(r)
  PROVE  TypeOK'
<1>1. run[r] \in Session /\ run[r].actions \in Seq(Pressed) BY DEF TypeOK, Session, Pressed
<1>2. "running" \in AssistStates /\ "paused" \in AssistStates BY DEF AssistStates, Active
<1>3. run[r].actions # <<>> => Popped(r) \in Session BY PoppedTyped DEF TypeOK
<1>4. CASE PerformPause(r)
  <2>1. [Popped(r) EXCEPT !.paused = TRUE] \in Session
    BY <1>3, <1>4, SessionPaused DEF PerformPause, Performs
  <2>2. app' = app \/ app' = [app EXCEPT ![run[r].app].assist = "paused"]
    BY <1>4, ToldCases DEF PerformPause
  <2>3. QED BY <1>2, <1>4, <2>1, <2>2, OnlyReports DEF PerformPause
<1>5. CASE PerformFill(r) BY <1>5, PerformFillTyped
<1>6. CASE PerformNext(r) BY <1>6, PerformNextTyped
<1>7. CASE PerformFails(r)
  <2> DEFINE b == Head(run[r].actions) = "pause"
  <2>1. [Popped(r) EXCEPT !.paused = b] \in Session
    <3>1. b \in BOOLEAN OBVIOUS
    <3>2. Popped(r) \in Session BY <1>3, <1>7 DEF PerformFails
    <3> HIDE DEF b
    <3>3. QED BY <3>1, <3>2, SessionPaused
  <2>2. Go(r, [Popped(r) EXCEPT !.paused = b]) /\ Counted("faults", MaxFaults)
    BY <1>7 DEF PerformFails
  <2> HIDE DEF b
  <2>3. tally' \in [{"ops", "clicks", "faults"} -> Nat] BY <2>2, CountedTyped DEF TypeOK
  <2>4. QED BY <1>7, <2>1, <2>2, <2>3, RunnerTyped DEF PerformFails, TypeOK
<1>8. CASE User(r)
  <2>1. CASE \E button \in Buttons : Press(r, button)
    <3>1. PICK button \in Buttons : Press(r, button) BY <2>1
    <3>2. Append(run[r].actions, button) \in Seq(Pressed)
      BY <1>1, ClientAssumption, AppendProperties DEF Pressed
    <3>3. [run[r] EXCEPT !.actions = Append(run[r].actions, button)] \in Session
      BY <1>1, <3>2, SessionQueued
    <3>4. tally' \in [{"ops", "clicks", "faults"} -> Nat]
      BY <3>1, CountedTyped DEF Press, TypeOK
    <3>5. QED BY <3>1, <3>3, <3>4, RunnerTyped DEF Press, TypeOK
  <2>2. CASE CloseWindow(r)
    <3>1. [run[r] EXCEPT !.open = FALSE] \in Session BY <1>1, SessionPaused
    <3>2. QED BY <2>2, <3>1, OnlyMoves DEF CloseWindow
  <2>3. QED BY <1>8, <2>1, <2>2 DEF User
<1>9. CASE Captcha(r)
  <2>1. [run[r] EXCEPT !.pc = "loop", !.paused = TRUE] \in Session BY <1>1, SessionFlags
  <2>2. QED BY <1>2, <1>9, <2>1, OnlyReports DEF Captcha, Reported
<1>10. QED BY <1>4, <1>5, <1>6, <1>7, <1>8, <1>9 DEF Perform

LEMMA InitTyped == Init => TypeOK
<1> SUFFICES ASSUME Init PROVE TypeOK OBVIOUS
<1>1. Stored \subseteq Statuses BY AppAssumption DEF Statuses
<1>2. ASSUME NEW s \in Stored PROVE [NoRow EXCEPT !.status = s] \in Row
  BY <1>1 DEF NoRow, Row, AssistStates, Active
<1>3. app \in [Apps -> Row] BY <1>2 DEF Init
<1>4. tally \in [{"ops", "clicks", "faults"} -> Nat] BY DEF Init
<1>5. QED BY <1>3, <1>4, NoRequestTyped, NoSessionTyped DEF Init, TypeOK

LEMMA NextTyped ==
  ASSUME TypeOK, [Next]_vars
  PROVE  TypeOK'
<1>1. CASE \E t \in Threads : Read(t) \/ Write(t) BY <1>1, RequestStepsTyped
<1>2. CASE ServerCrash BY <1>2, CrashTyped
<1>3. ASSUME NEW r \in Runners,
             \/ Claim(r) \/ Walk(r) \/ Captcha(r) \/ SessionFails(r)
             \/ Perform(r) \/ PerformFails(r) \/ User(r)
      PROVE  TypeOK'
  <2>1. CASE Claim(r) BY <2>1, ClaimTyped
  <2>2. CASE Walk(r) BY <2>2, WalkTyped
  <2>3. CASE SessionFails(r) BY <2>3, RaisedTyped DEF SessionFails
  <2>4. CASE Captcha(r) \/ Perform(r) \/ PerformFails(r) \/ User(r) BY <2>4, PanelTyped
  <2>5. QED BY <1>3, <2>1, <2>2, <2>3, <2>4
<1>4. CASE UNCHANGED vars BY <1>4 DEF vars, TypeOK
<1>5. QED BY <1>1, <1>2, <1>3, <1>4 DEF Next

\* The rows, the requests and the sessions stay what the code stores, over every
\* order of the two processes' steps.
THEOREM TypeCorrect == Spec => []TypeOK
<1>1. TypeOK /\ [Next]_vars => TypeOK' BY NextTyped
<1>2. QED BY InitTyped, <1>1, PTL DEF Spec

-----------------------------------------------------------------------------
(* The runner clicks only before the review *)

\* A step whose Next control the loop itself may click.
LoopsOwn(i) == i <= Len(Playbook) /\ ~Playbook[i].review /\ ~Playbook[i].user_only

\* What the loop filled was a step of its own, and a pump that did not move the
\* session leaves it at that step.
Walking(s) ==
  /\ s.pc = "filled" => LoopsOwn(s.at)
  /\ s.pc = "pumped" => s.index = s.at /\ LoopsOwn(s.at)
OnOwnSteps == \A r \in Runners : Walking(run[r])
Guarded == TypeOK /\ OnOwnSteps /\ ClicksBeforeReview

\* A session that is at no such point, or stays where it was.
LEMMA WalkingKept ==
  ASSUME TypeOK, OnOwnSteps, NEW r \in Runners, NEW s, Go(r, s), Walking(s)
  PROVE  OnOwnSteps'
<1>1. /\ run' = [run EXCEPT ![r] = s] /\ run \in [Runners -> Session]
  BY DEF Go, TypeOK
<1>2. ASSUME NEW x \in Runners PROVE Walking(run'[x])
  <2>1. CASE x = r BY <1>1, <2>1
  <2>2. CASE x # r
    <3>1. run'[x] = run[x] BY <1>1, <2>2
    <3>2. QED BY <3>1 DEF OnOwnSteps
  <2>3. QED BY <2>1, <2>2
<1>3. QED BY <1>2 DEF OnOwnSteps, Walking

LEMMA ElsewhereWalks ==
  ASSUME NEW s, s.pc \notin {"filled", "pumped"}
  PROVE  Walking(s)
BY DEF Walking

LEMMA PumpEndsOnOwn ==
  ASSUME Guarded, NEW r \in Runners, PumpEnds(r)
  PROVE  OnOwnSteps'
<1>1. run[r] \in Session /\ Walking(run[r]) BY DEF Guarded, TypeOK, OnOwnSteps
<1>2. CASE run[r].pc = "filled" /\ ~MovedOn(r)
  <2> DEFINE s == [run[r] EXCEPT !.pc = "pumped"]
  <2>1. Go(r, s) BY <1>2 DEF PumpEnds
  <2>2. s.pc = "pumped" /\ s.index = run[r].index /\ s.at = run[r].at BY <1>1 DEF Session
  <2> HIDE DEF s
  <2>3. Walking(s) BY <1>1, <1>2, <2>2 DEF Walking, MovedOn
  <2>4. QED BY <2>1, <2>3, WalkingKept DEF Guarded
<1>3. CASE ~(run[r].pc = "filled" /\ ~MovedOn(r))
  <2> DEFINE s == [run[r] EXCEPT !.pc = "loop"]
  <2>1. Go(r, s) BY <1>3 DEF PumpEnds
  <2>2. s.pc = "loop" BY <1>1 DEF Session
  <2> HIDE DEF s
  <2>3. QED BY <2>1, <2>2, ElsewhereWalks, WalkingKept DEF Guarded
<1>4. QED BY <1>2, <1>3

LEMMA FillStepOnOwn ==
  ASSUME Guarded, NEW r \in Runners, FillStep(r)
  PROVE  OnOwnSteps'
<1> DEFINE s == [run[r] EXCEPT !.pc = "filled", !.at = run[r].index, !.got = Fetched(r)]
<1>1. run[r] \in Session /\ Go(r, s) BY DEF Guarded, TypeOK, FillStep
<1>2. s.pc = "filled" /\ s.at = run[r].index BY <1>1 DEF Session
<1>3. LoopsOwn(run[r].index) BY DEF FillStep, LoopTop, Step, Reviewing, LoopsOwn
<1> HIDE DEF s
<1>4. Walking(s) BY <1>2, <1>3 DEF Walking
<1>5. QED BY <1>1, <1>4, WalkingKept DEF Guarded

\* The steps after which a session is at no such point.
LEMMA WalkOnOwn ==
  ASSUME Guarded, NEW r \in Runners, Claim(r) \/ Walk(r) \/ Captcha(r) \/ SessionFails(r)
  PROVE  OnOwnSteps'
<1>1. run[r] \in Session BY DEF Guarded, TypeOK
<1>2. CASE PumpEnds(r) BY <1>2, PumpEndsOnOwn
<1>3. CASE FillStep(r) BY <1>3, FillStepOnOwn
<1>4. CASE ~PumpEnds(r) /\ ~FillStep(r)
  <2>1. ASSUME NEW s, Go(r, s), s.pc \notin {"filled", "pumped"} PROVE OnOwnSteps'
    BY <2>1, ElsewhereWalks, WalkingKept DEF Guarded
  <2>2. ASSUME NEW a, NEW n
        PROVE  /\ [NoSession EXCEPT !.pc = "claim", !.app = a].pc = "claim"
               /\ [run[r] EXCEPT !.pc = "open", !.sid = n].pc = "open"
               /\ [run[r] EXCEPT !.pc = "await", !.at = n].pc = "await"
               /\ [run[r] EXCEPT !.pc = "loop", !.index = n].pc = "loop"
    BY <1>1 DEF NoSession, Session
  <2>3. /\ \A pc \in Pcs : [run[r] EXCEPT !.pc = pc].pc = pc
        /\ [run[r] EXCEPT !.pc = "loop", !.open = TRUE].pc = "loop"
        /\ [run[r] EXCEPT !.pc = "loop", !.paused = TRUE].pc = "loop"
    BY <1>1 DEF Session
  <2>4. CASE Claim(r)
    <3>1. CASE Poll(r) BY <2>1, <2>2, <3>1 DEF Poll
    <3>2. CASE ClaimRead(r)
      <4>1. [run[r] EXCEPT !.pc = "commit"].pc = "commit" BY <2>3
      <4>2. QED BY <2>1, <3>2, <4>1, NoSessionTyped DEF ClaimRead
    <3>3. CASE ClaimCommit(r)
      <4>1. [run[r] EXCEPT !.pc = "reply"].pc = "reply" BY <2>3
      <4>2. QED BY <2>1, <3>3, <4>1 DEF ClaimCommit
    <3>4. CASE ClaimReply(r) BY <2>1, <2>2, <3>4 DEF ClaimReply
    <3>5. QED BY <2>4, <3>1, <3>2, <3>3, <3>4 DEF Claim
  <2>5. CASE Walk(r)
    <3>1. CASE Open(r) BY <2>1, <2>3, <3>1 DEF Open
    <3>2. CASE NoBrowser(r) \/ Superseded(r) \/ LoopEnds(r) \/ AnnounceReview(r) \/ PumpClosed(r)
      BY <2>1, <3>2, NoSessionTyped
         DEF NoBrowser, Superseded, Raised, LoopEnds, AnnounceReview, PumpClosed
    <3>3. CASE LoopPaused(r) BY <2>1, <2>3, <3>3 DEF LoopPaused
    <3>4. CASE AwaitUser(r) BY <2>1, <2>2, <3>4 DEF AwaitUser
    <3>5. CASE Advance(r)
      <4>1. [run[r] EXCEPT !.pc = "await"].pc = "await" BY <2>3
      <4>2. [run[r] EXCEPT !.pc = "loop", !.index = run[r].index + 1].pc = "loop" BY <2>2
      <4>3. QED BY <2>1, <3>5, <4>1, <4>2, NoSessionTyped DEF Advance
    <3>6. QED BY <1>4, <2>5, <3>1, <3>2, <3>3, <3>4, <3>5 DEF Walk
  <2>6. CASE Captcha(r) BY <2>1, <2>3, <2>6 DEF Captcha
  <2>7. CASE SessionFails(r) BY <2>1, <2>7, NoSessionTyped DEF SessionFails, Raised
  <2>8. QED BY <2>4, <2>5, <2>6, <2>7
<1>5. QED BY <1>2, <1>3, <1>4

\* The panel's buttons leave the loop where it is; Next step moves the session
\* only while the loop is pumping.
LEMMA PanelOnOwn ==
  ASSUME Guarded, NEW r \in Runners, Perform(r) \/ PerformFails(r) \/ User(r)
  PROVE  OnOwnSteps'
<1>1. run[r] \in Session /\ Walking(run[r]) BY DEF Guarded, TypeOK, OnOwnSteps
<1>2. ASSUME NEW s, Go(r, s), s.pc = run[r].pc, s.at = run[r].at,
             run[r].pc = "pumped" => s.index = run[r].index
      PROVE  OnOwnSteps'
  <2>1. Walking(s) BY <1>1, <1>2 DEF Walking
  <2>2. QED BY <1>2, <2>1, WalkingKept DEF Guarded
<1>3. /\ Popped(r).pc = run[r].pc /\ Popped(r).at = run[r].at /\ Popped(r).index = run[r].index
      /\ DOMAIN Popped(r) = DOMAIN run[r]
  BY <1>1 DEF Popped, Session
<1>4. DOMAIN run[r] = {"pc", "app", "sid", "index", "at", "paused", "open", "got", "actions"}
  BY <1>1 DEF Session
<1>5. ASSUME NEW b
      PROVE  LET s == [Popped(r) EXCEPT !.paused = b]
             IN  s.pc = run[r].pc /\ s.at = run[r].at /\ s.index = run[r].index
  BY <1>3, <1>4
<1>6. ASSUME NEW g
      PROVE  LET s == [Popped(r) EXCEPT !.paused = FALSE, !.got = g]
             IN  s.pc = run[r].pc /\ s.at = run[r].at /\ s.index = run[r].index
  BY <1>3, <1>4
<1>7. ASSUME NEW n
      PROVE  LET s == [Popped(r) EXCEPT !.paused = FALSE, !.index = n]
             IN  s.pc = run[r].pc /\ s.at = run[r].at
  BY <1>3, <1>4
<1>8. CASE PerformPause(r) BY <1>2, <1>5, <1>8 DEF PerformPause
<1>9. CASE PerformFill(r) BY <1>2, <1>3, <1>5, <1>6, <1>9 DEF PerformFill
<1>10. CASE PerformNext(r)
  <2>1. run[r].pc # "pumped" BY <1>10 DEF PerformNext, Performs, Pumping
  <2>2. QED BY <1>2, <1>5, <1>7, <1>10, <2>1 DEF PerformNext
<1>11. CASE PerformFails(r)
  <2> DEFINE b == Head(run[r].actions) = "pause"
  <2>1. Go(r, [Popped(r) EXCEPT !.paused = b]) BY <1>11 DEF PerformFails
  <2> HIDE DEF b
  <2>2. QED BY <1>2, <1>5, <2>1
<1>12. CASE User(r)
  <2>1. ASSUME NEW x PROVE LET s == [run[r] EXCEPT !.actions = x]
                           IN  s.pc = run[r].pc /\ s.at = run[r].at /\ s.index = run[r].index
    BY <1>4
  <2>2. LET s == [run[r] EXCEPT !.open = FALSE]
        IN  s.pc = run[r].pc /\ s.at = run[r].at /\ s.index = run[r].index
    BY <1>4
  <2>3. QED BY <1>2, <1>12, <2>1, <2>2 DEF User, Press, CloseWindow
<1>13. QED BY <1>8, <1>9, <1>10, <1>11, <1>12 DEF Perform

\* A click by the loop is at a step of its own, one by the user before the review.
LEMMA ClicksAllowed ==
  ASSUME Guarded, NEW r \in Runners,
         (Clicks(r, "loop") /\ LoopsOwn(run[r].index)) \/ (Clicks(r, "user") /\ MayAdvance(r))
  PROVE  ClicksBeforeReview'
<1>1. PICK by : /\ clicked' = clicked \cup {[index |-> run[r].index, by |-> by]}
                /\ run[r].index <= Len(Playbook) /\ ~Playbook[run[r].index].review
                /\ Playbook[run[r].index].user_only => by = "user"
  <2>1. CASE Clicks(r, "loop") /\ LoopsOwn(run[r].index) BY <2>1 DEF Clicks, LoopsOwn
  <2>2. CASE Clicks(r, "user") /\ MayAdvance(r)
    BY <2>2 DEF Clicks, MayAdvance, Step, Reviewing
  <2>3. QED BY <2>1, <2>2
<1>2. ASSUME NEW c \in clicked'
      PROVE  /\ c.index <= Len(Playbook) /\ ~Playbook[c.index].review
             /\ Playbook[c.index].user_only => c.by = "user"
  BY <1>1 DEF Guarded, ClicksBeforeReview
<1>3. QED BY <1>2 DEF ClicksBeforeReview

LEMMA NextClicks ==
  ASSUME Guarded, [Next]_vars
  PROVE  ClicksBeforeReview'
<1>1. ClicksBeforeReview BY DEF Guarded
<1>2. CASE clicked' = clicked BY <1>1, <1>2 DEF ClicksBeforeReview
<1>3. ASSUME NEW r \in Runners, Advance(r), ~UNCHANGED clicked PROVE ClicksBeforeReview'
  <2>1. Clicks(r, "loop") BY <1>3 DEF Advance
  <2>2. LoopsOwn(run[r].index) BY <1>3 DEF Advance, Guarded, OnOwnSteps, Walking
  <2>3. QED BY <2>1, <2>2, ClicksAllowed
<1>4. ASSUME NEW r \in Runners, PerformNext(r), ~UNCHANGED clicked PROVE ClicksBeforeReview'
  <2>1. Clicks(r, "user") /\ MayAdvance(r) BY <1>4 DEF PerformNext
  <2>2. QED BY <2>1, ClicksAllowed
<1>5. ASSUME NEW t \in Threads, Read(t) \/ Write(t) PROVE UNCHANGED clicked
  BY <1>5 DEF Read, Write, CreateRead, StatusRead, QueueRead, PrepareRead, EditRead, Receive,
              Drafted, Render, CreateCommit, StatusCommit, QueueCommit, PacketCommit
<1>6. ASSUME NEW r \in Runners,
             \/ Claim(r) \/ Walk(r) \/ Captcha(r) \/ SessionFails(r)
             \/ Perform(r) \/ PerformFails(r) \/ User(r),
             ~Advance(r), ~PerformNext(r)
      PROVE  UNCHANGED clicked
  <2>1. CASE Claim(r) BY <2>1 DEF Claim, Poll, ClaimRead, ClaimCommit, ClaimReply
  <2>2. CASE Walk(r)
    BY <1>6, <2>2 DEF Walk, Open, NoBrowser, Superseded, Raised, LoopEnds, LoopPaused,
                      AnnounceReview, AwaitUser, FillStep, PumpEnds, PumpClosed
  <2>3. CASE Captcha(r) \/ SessionFails(r) BY <2>3 DEF Captcha, SessionFails, Raised
  <2>4. CASE Perform(r) BY <1>6, <2>4 DEF Perform, PerformPause, PerformFill
  <2>5. CASE PerformFails(r) \/ User(r) BY <2>5 DEF PerformFails, User, Press, CloseWindow
  <2>6. QED BY <1>6, <2>1, <2>2, <2>3, <2>4, <2>5
<1>7. CASE ServerCrash \/ UNCHANGED vars BY <1>1, <1>7 DEF ServerCrash, vars, ClicksBeforeReview
<1>8. QED BY <1>2, <1>3, <1>4, <1>5, <1>6, <1>7 DEF Next

LEMMA NextGuarded ==
  ASSUME Guarded, [Next]_vars
  PROVE  Guarded'
<1>1. TypeOK' BY NextTyped DEF Guarded
<1>2. ClicksBeforeReview' BY NextClicks
<1>3. OnOwnSteps'
  <2>1. CASE run' = run BY <2>1 DEF Guarded, OnOwnSteps, Walking
  <2>2. ASSUME NEW t \in Threads, Read(t) \/ Write(t) PROVE UNCHANGED run
    BY <2>2 DEF Read, Write, CreateRead, StatusRead, QueueRead, PrepareRead, EditRead, Receive,
                Drafted, Render, CreateCommit, StatusCommit, QueueCommit, PacketCommit
  <2>3. CASE ServerCrash \/ UNCHANGED vars BY <2>1, <2>3 DEF ServerCrash, vars
  <2>4. ASSUME NEW r \in Runners,
               \/ Claim(r) \/ Walk(r) \/ Captcha(r) \/ SessionFails(r)
               \/ Perform(r) \/ PerformFails(r) \/ User(r)
        PROVE  OnOwnSteps'
    BY <2>4, WalkOnOwn, PanelOnOwn
  <2>5. QED BY <2>1, <2>2, <2>3, <2>4 DEF Next
<1>4. QED BY <1>1, <1>2, <1>3 DEF Guarded

\* The Next control is clicked only at steps before the review, and at a step
\* that is the user's only on the user's own Next step, for any playbook and any
\* number of runners.
THEOREM ReviewIsTheUsers == Spec => []ClicksBeforeReview
<1>1. Init => Guarded
  BY InitTyped, NoSessionTyped DEF Init, Guarded, OnOwnSteps, Walking, ClicksBeforeReview
<1>2. Guarded /\ [Next]_vars => Guarded' BY NextGuarded
<1>3. Guarded => ClicksBeforeReview BY DEF Guarded
<1>4. QED BY <1>1, <1>2, <1>3, PTL DEF Spec

-----------------------------------------------------------------------------
(* Nothing is written into what only the user may answer *)

LEMMA NextUntouched ==
  ASSUME UsersFieldsUntouched, [Next]_vars
  PROVE  UsersFieldsUntouched'
<1>1. CASE wrote' = wrote BY <1>1 DEF UsersFieldsUntouched
<1>2. ASSUME NEW r, FillsPage(r) PROVE UsersFieldsUntouched'
  <2>1. PICK fill \in PageFills : wrote' = wrote \cup fill.writes BY <1>2 DEF FillsPage
  <2>2. ASSUME NEW w \in wrote' PROVE Permitted(w)
    BY <2>1, ForcedNotFilled DEF UsersFieldsUntouched, Permitted
  <2>3. QED BY <2>2 DEF UsersFieldsUntouched, Permitted
<1>3. ASSUME NEW t \in Threads, Read(t) \/ Write(t) PROVE UNCHANGED wrote
  BY <1>3 DEF Read, Write, CreateRead, StatusRead, QueueRead, PrepareRead, EditRead, Receive,
              Drafted, Render, CreateCommit, StatusCommit, QueueCommit, PacketCommit
<1>4. ASSUME NEW r \in Runners,
             \/ Claim(r) \/ Walk(r) \/ Captcha(r) \/ SessionFails(r)
             \/ Perform(r) \/ PerformFails(r) \/ User(r)
      PROVE  FillsPage(r) \/ UNCHANGED wrote
  <2>1. CASE Claim(r) BY <2>1 DEF Claim, Poll, ClaimRead, ClaimCommit, ClaimReply
  <2>2. CASE Walk(r)
    BY <2>2 DEF Walk, Open, NoBrowser, Superseded, Raised, LoopEnds, LoopPaused,
                AnnounceReview, AwaitUser, FillStep, PumpEnds, PumpClosed, Advance
  <2>3. CASE Captcha(r) \/ SessionFails(r) BY <2>3 DEF Captcha, SessionFails, Raised
  <2>4. CASE Perform(r) BY <2>4 DEF Perform, PerformPause, PerformFill, PerformNext
  <2>5. CASE PerformFails(r) \/ User(r) BY <2>5 DEF PerformFails, User, Press, CloseWindow
  <2>6. QED BY <1>4, <2>1, <2>2, <2>3, <2>4, <2>5
<1>5. CASE ServerCrash \/ UNCHANGED vars BY <1>1, <1>5 DEF ServerCrash, vars
<1>6. QED BY <1>1, <1>2, <1>3, <1>4, <1>5 DEF Next

\* On any page, whatever the profile, the bank and the model hold, a fill writes
\* into an attestation or a CAPTCHA only the runner's copy of the cover letter,
\* or what was proposed for a field that shares its id and is not the user's.
THEOREM AttestationsAreTheUsers == Spec => []UsersFieldsUntouched
<1>1. Init => UsersFieldsUntouched BY DEF Init, UsersFieldsUntouched
<1>2. UsersFieldsUntouched /\ [Next]_vars => UsersFieldsUntouched' BY NextUntouched
<1>3. QED BY <1>1, <1>2, PTL DEF Spec

=============================================================================

----------------------------- MODULE JobBoards -----------------------------
(***************************************************************************)
(* The jobs collector's inventory: companies put on the watch list, one    *)
(* board resolved for each, the board's postings polled into the database  *)
(* and scored (pipeline/jobs/seeds.py, inbox_seed.py, inventory.py,        *)
(* scoring.py, api/routers/jobs.py and the refresh of api/scheduler.py).   *)
(*                                                                         *)
(* Two kinds of thread work on the same rows: the refresh that the         *)
(* scheduler starts again and again, and the rescans a user asks for.      *)
(* Each goes company by company and board by board, asks the network with  *)
(* nothing locked and commits what it found.                               *)
(***************************************************************************)
EXTENDS Ats

CONSTANTS
  Cron,        \* the scheduler's thread
  Rescans,     \* threads that serve POST /jobs/companies/{id}/rescan
  Forms,       \* threads that serve the requests that add companies
  Entries,     \* companies the world may name
  Watched,     \* the watch list at the start, a sequence of entries
  Ids,         \* external ids of postings
  Opening,     \* what the boards may list at the start
  OffTarget,   \* ids the profile's targeting rejects
  Shunned,     \* ids the model never scores
  HasProfile,  \* the user has configured a profile
  Spare,       \* boards the user may choose by hand
  Ops,         \* enabled user operations
  MISSED_TO_CLOSE, MAX_LLM, MAX_SCORE, BATCH,
  MaxPostings, MaxListed, MaxOps, MaxFaults

ASSUME JobNumbers == /\ MISSED_TO_CLOSE \in Nat \ {0}
                     /\ MAX_LLM \in Nat /\ MAX_SCORE \in Nat
                     /\ BATCH \in Nat \ {0}
                     /\ MaxPostings \in Nat /\ MaxListed \in Nat
                     /\ MaxOps \in Nat /\ MaxFaults \in Nat
ASSUME OneCron == Cron \notin Rescans
ASSUME JobWorld == /\ \A e \in Entries : Describes(e)
                   /\ Watched \in Seq(Entries)
                   /\ Opening \subseteq [Sites -> Seq(Ids)]
                   /\ Spare \subseteq Sites

Threads == Rescans \cup {Cron}

VARIABLES
  listed,   \* [Sites -> sequence of ids]: what each board lists now
  gone,     \* sites that answer 404 now
  company,  \* JobCompany, in table order
  form,     \* [Forms -> sequence of <<entry, known>>]: an add under way
  board,    \* JobBoard, in table order
  posting,  \* JobPosting, in table order
  job,      \* [Threads -> what each is doing]
  ops, faults

vars == <<listed, gone, company, form, board, posting, job, ops, faults>>

----------------------------------------------------------------------------
(***************************************************************************)
(* The tables.                                                             *)
(***************************************************************************)
BoardRow == [owner : Nat, site : Sites, by : Provenance, sure : Sure,
             error : BOOLEAN]

\* Three observers: the polls in a row, counted up to MISSED_TO_CLOSE, whose
\* whole listing lacked the posting, those a final error ended without it, and
\* whether two polls overlapped so that missed outlived a listing that has it.
PostingRow == [row : Nat, id : Ids, missed : 0..MISSED_TO_CLOSE, closed : BOOLEAN,
               score : {"none", "filtered", "scored"},
               absences : 0..MISSED_TO_CLOSE, refusals : 0..MISSED_TO_CLOSE,
               raced : BOOLEAN]

Idle == [pc |-> "idle", of |-> 0, todo |-> <<>>, llm |-> 0, found |-> Miss,
         site |-> None, pages |-> 0, got |-> <<>>, heard |-> "nothing", snap |-> <<>>]

Job == [pc : {"idle", "resolve", "insert", "boards", "poll", "list", "upsert",
              "commit", "score", "batch"},
        of : Nat, todo : Seq(Nat), llm : 0..MAX_LLM,
        found : Found,
        site : Sites \cup {None}, pages : Nat, got : Seq(Ids),
        heard : {"nothing", "listing", "refusal"},   \* an observer: the last answer
        snap : Seq(PostingRow)]

TypeOK ==
  /\ listed \in [Sites -> Seq(Ids)]
  /\ gone \subseteq Sites
  /\ company \in Seq(Entries)
  /\ form \in [Forms -> Seq(Entries \X BOOLEAN)]
  /\ board \in Seq(BoardRow)
  /\ posting \in Seq(PostingRow)
  /\ job \in [Threads -> Job]
  /\ ops \in 0..MaxOps /\ faults \in 0..MaxFaults

Init ==
  /\ listed \in Opening
  /\ gone = {}
  /\ company = Watched
  /\ form = [f \in Forms |-> <<>>]
  /\ board = <<>>
  /\ posting = <<>>
  /\ job = [t \in Threads |-> Idle]
  /\ ops = 0 /\ faults = 0

Operated == ops < MaxOps /\ ops' = ops + 1 /\ UNCHANGED faults
Faulted  == faults < MaxFaults /\ faults' = faults + 1
Do(t, j) == job' = [job EXCEPT ![t] = j]
World    == <<listed, gone>>
Tables   == <<company, board, posting>>

\* A set of row numbers in their order, and the elements of a sequence at them.
Rank(S, n) == Cardinality({m \in S : m <= n})
Rows(S)    == [i \in 1..Cardinality(S) |-> CHOOSE n \in S : Rank(S, n) = i]
Only(s, S) == [i \in 1..Cardinality(S) |-> s[Rows(S)[i]]]

----------------------------------------------------------------------------
(***************************************************************************)
(* The outside world: openings come to the front of a listing and go, and  *)
(* a whole board can move away.                                            *)
(***************************************************************************)
Publish(s, i) ==
  /\ Operated /\ Len(listed[s]) < MaxListed
  /\ (\E k \in DOMAIN listed[s] : listed[s][k] = i) => Adapter(s).twins
  /\ listed' = [listed EXCEPT ![s] = <<i>> \o @]
  /\ UNCHANGED <<gone, Tables, form, job>>

Withdraw(s, k) ==
  /\ Operated /\ k \in DOMAIN listed[s]
  /\ listed' = [listed EXCEPT ![s] = SubSeq(@, 1, k - 1) \o SubSeq(@, k + 1, Len(@))]
  /\ UNCHANGED <<gone, Tables, form, job>>

Move(s) ==
  /\ Operated /\ "move" \in Ops
  /\ gone' = IF s \in gone THEN gone \ {s} ELSE gone \cup {s}
  /\ UNCHANGED <<listed, Tables, form, job>>

\* What a request to a site can come back as: its own answer, or, at the
\* price of a fault, whatever MAX_ATTEMPTS bad attempts make of it.
Outcomes(attempts) == {Fetch(tries) : tries \in [1..MAX_ATTEMPTS -> attempts]}
UpOutcomes   == Outcomes(Attempt)
GoneOutcomes == Outcomes({"refused", "flaky"})

Answers(s) == IF s \in gone THEN GoneOutcomes ELSE UpOutcomes
Answer(s)  == IF s \in gone THEN "error" ELSE "ok"

Reply(s, reply) ==
  \/ reply = Answer(s) /\ UNCHANGED faults
  \/ reply # Answer(s) /\ Faulted

----------------------------------------------------------------------------
(***************************************************************************)
(* Adding companies.  Every importer comes down to add_company() for each  *)
(* of its entries and one commit for all of them.                          *)
(***************************************************************************)
Bare(e) == [e EXCEPT !.domain = None]

Csv   == {<<e>> : e \in Entries} \cup {<<e, f>> : e, f \in Entries}
Yc    == {<<e>> : e \in {x \in Entries : x.domain # None}}
Hn    == {<<e>> : e \in {x \in Entries : x.domain = None}}
Inbox == {<<Bare(e)>> : e \in {x \in Entries : Bare(x) \in Entries}}

Arrivals ==
  UNION {CASE op = "manual" -> {<<e>> : e \in Entries}
           [] op = "csv"    -> Csv
           [] op = "yc"     -> Yc
           [] op = "hn"     -> Hn
           [] op = "inbox"  -> Inbox
           [] OTHER         -> {} : op \in Ops}

\* By domain when one is given, otherwise (and next) by name.
SameCompany(e, row) ==
  \/ e.domain # None /\ e.domain = row.domain
  \/ e.name = row.name

\* The rows an entry would refresh are read here and the new ones written at
\* the commit.  Entries added earlier in the request are seen.
AddRead(f, entries) ==
  /\ Operated /\ form[f] = <<>>
  /\ form' = [form EXCEPT ![f] =
        [k \in DOMAIN entries |->
           <<entries[k],
             \/ \E c \in DOMAIN company : SameCompany(entries[k], company[c])
             \/ \E j \in 1..(k - 1) : SameCompany(entries[k], entries[j])>>]]
  /\ UNCHANGED <<World, Tables, job>>

AddCommit(f) ==
  /\ form[f] # <<>>
  /\ LET new == Only(form[f], {k \in DOMAIN form[f] : ~form[f][k][2]})
     IN  company' = company \o [k \in DOMAIN new |-> new[k][1]]
  /\ form' = [form EXCEPT ![f] = <<>>]
  /\ UNCHANGED <<World, board, posting, job, ops, faults>>

----------------------------------------------------------------------------
(***************************************************************************)
(* Starting.  The refresh takes the companies without a board, a rescan    *)
(* its company's boards, or the company itself when it has none.           *)
(***************************************************************************)
BoardsOf(c) == {b \in DOMAIN board : board[b].owner = c}
Pending     == {c \in DOMAIN company : BoardsOf(c) = {}}

Tick ==
  /\ job[Cron].pc = "idle"
  /\ Do(Cron, [Idle EXCEPT !.pc = "resolve", !.todo = Rows(Pending)])
  /\ UNCHANGED <<World, Tables, form, ops, faults>>

Rescan(t, c) ==
  /\ Operated /\ "rescan" \in Ops /\ job[t].pc = "idle"
  /\ Do(t, IF BoardsOf(c) = {}
           THEN [Idle EXCEPT !.pc = "resolve", !.of = c, !.todo = <<c>>]
           ELSE [Idle EXCEPT !.pc = "poll", !.of = c, !.todo = Rows(BoardsOf(c))])
  /\ UNCHANGED <<World, Tables, form>>

----------------------------------------------------------------------------
(***************************************************************************)
(* Resolving.                                                              *)
(***************************************************************************)
Popped(j) == [j EXCEPT !.todo = Tail(@), !.found = Miss]

\* The refresh pays for at most MAX_LLM researches, a rescan is not counted.
\* What raises is one company's failure.
MayResearch(t) == t # Cron \/ job[t].llm < MAX_LLM

Resolve(t) ==
  /\ job[t].pc = "resolve" /\ job[t].todo # <<>>
  /\ \E bad \in Sites, reply \in UpOutcomes, answered \in BOOLEAN :
       LET c       == company[Head(job[t].todo)]
           replies == [s \in Sites |-> IF s = bad THEN reply ELSE Answer(s)]
           free    == Ladder(c, replies, listed)
           paid    == free = Miss /\ MayResearch(t)
           hit     == IF paid THEN Researched(c, answered, replies, listed) ELSE free
           j       == [job[t] EXCEPT !.llm = IF paid /\ t = Cron THEN @ + 1 ELSE @]
       IN  /\ reply \in Answers(bad)
           /\ IF reply = Answer(bad) /\ answered THEN UNCHANGED faults ELSE Faulted
           /\ Do(t, IF hit = Miss THEN Popped(j) ELSE [j EXCEPT !.found = hit, !.pc = "insert"])
  /\ UNCHANGED <<World, Tables, form, ops>>

\* UNIQUE(ats_kind, board_id): the commit of a board that another row holds
\* raises, and nothing between it and the top of the thread catches that.
Taken(s) == \E b \in DOMAIN board : board[b].site = s

\* Mutant of Insert: resolved_by is given the kind of the board.
InsertKind(t) ==
  /\ job[t].pc = "insert"
  /\ LET found == job[t].found
         row   == [owner |-> Head(job[t].todo), site |-> found.site, by |-> Kind[found.site],
                   sure |-> found.sure, error |-> FALSE]
     IN  IF Taken(found.site)
         THEN Do(t, Idle) /\ UNCHANGED board
         ELSE Do(t, [Popped(job[t]) EXCEPT !.pc = "resolve"]) /\ board' = Append(board, row)
  /\ UNCHANGED <<World, company, posting, form, ops, faults>>

Insert(t) ==
  /\ job[t].pc = "insert"
  /\ LET found == job[t].found
         row   == [owner |-> Head(job[t].todo), site |-> found.site, by |-> found.by,
                   sure |-> found.sure, error |-> FALSE]
     IN  IF Taken(found.site)
         THEN Do(t, Idle) /\ UNCHANGED board
         ELSE Do(t, [Popped(job[t]) EXCEPT !.pc = "resolve"]) /\ board' = Append(board, row)
  /\ UNCHANGED <<World, company, posting, form, ops, faults>>

\* With every company tried the boards to poll are read: all of them, or the
\* rescanned company's.
Resolved(t) ==
  /\ job[t].pc = "resolve" /\ job[t].todo = <<>>
  /\ Do(t, [job[t] EXCEPT !.pc = "poll",
              !.todo = Rows(IF t = Cron THEN DOMAIN board ELSE BoardsOf(job[t].of))])
  /\ UNCHANGED <<World, Tables, form, ops, faults>>

----------------------------------------------------------------------------
(***************************************************************************)
(* Polling.                                                                *)
(***************************************************************************)
NextBoard(j) == [j EXCEPT !.pc = "poll", !.todo = Tail(@), !.site = None,
                          !.pages = 0, !.got = <<>>, !.heard = "nothing", !.snap = <<>>]

\* The row's kind and id are read before the network is asked.
BeginList(t) ==
  /\ job[t].pc = "poll" /\ job[t].todo # <<>>
  /\ Do(t, [job[t] EXCEPT !.pc = "list", !.site = board[Head(job[t].todo)].site])
  /\ UNCHANGED <<World, Tables, form, ops, faults>>

Flag(b, up) == board' = [board EXCEPT ![b].error = up]

\* Mutant of ListPage: a board that cannot be reached lists nothing.
SwallowsOutage(t) ==
  /\ job[t].pc = "list"
  /\ \E reply \in Answers(job[t].site) :
       LET s      == job[t].site
           offset == job[t].pages * PAGE
           page   == Page(s, listed[s], offset)
           more   == [job[t] EXCEPT !.got = @ \o page, !.pages = @ + 1, !.heard = "listing"]
       IN  /\ Reply(s, reply)
           /\ CASE reply = "unavailable" ->
                     Do(t, [job[t] EXCEPT !.pc = "upsert"]) /\ UNCHANGED board
                [] reply = "error" ->
                     /\ Do(t, [job[t] EXCEPT !.pc = "upsert", !.heard = "refusal"])
                     /\ UNCHANGED board
                [] reply = "ok" ->
                     /\ Do(t, IF page = <<>> \/ LastPage(s, listed[s], offset)
                              THEN [more EXCEPT !.pc = "upsert"] ELSE more)
                     /\ UNCHANGED board
  /\ UNCHANGED <<World, company, posting, form, ops>>

\* One request of a listing.  An unavailable board raises and is skipped with
\* last_error set; any other bad answer ends the listing with what is there.
ListPage(t) ==
  /\ job[t].pc = "list"
  /\ \E reply \in Answers(job[t].site) :
       LET s      == job[t].site
           offset == job[t].pages * PAGE
           page   == Page(s, listed[s], offset)
           more   == [job[t] EXCEPT !.got = @ \o page, !.pages = @ + 1, !.heard = "listing"]
       IN  /\ Reply(s, reply)
           /\ CASE reply = "unavailable" ->
                     Do(t, NextBoard(job[t])) /\ Flag(Head(job[t].todo), TRUE)
                [] reply = "error" ->
                     /\ Do(t, [job[t] EXCEPT !.pc = "upsert", !.heard = "refusal"])
                     /\ UNCHANGED board
                [] reply = "ok" ->
                     /\ Do(t, IF page = <<>> \/ LastPage(s, listed[s], offset)
                              THEN [more EXCEPT !.pc = "upsert"] ELSE more)
                     /\ UNCHANGED board
  /\ UNCHANGED <<World, company, posting, form, ops>>

Snapshot(t) ==
  /\ job[t].pc = "upsert"
  /\ Do(t, [job[t] EXCEPT !.pc = "commit", !.snap = posting])
  /\ UNCHANGED <<World, Tables, form, ops, faults>>

Seen(j, id) == \E k \in DOMAIN j.got : j.got[k] = id

\* What the commit writes to one row: the columns whose value differs from
\* the one read, and nothing to a closed row that stays unlisted.
Capped(n) == IF n < MISSED_TO_CLOSE THEN n ELSE MISSED_TO_CLOSE

\* Mutant of Touched: a posting that is listed again stays closed.
StaysClosed(read, now, seen, heard) ==
  IF seen
  THEN [now EXCEPT !.missed = 0]
  ELSE IF read.closed THEN now
  ELSE [now EXCEPT !.missed = Capped(read.missed + 1),
                   !.closed = read.missed + 1 >= MISSED_TO_CLOSE \/ @,
                   !.absences = Capped(@ + 1)]

\* Mutant of Touched: a posting that is listed keeps the absences counted so far.
KeepsCount(read, now, seen, heard) ==
  IF seen
  THEN [now EXCEPT !.closed = IF read.closed THEN FALSE ELSE @,
                   !.absences = 0, !.refusals = 0, !.raced = FALSE]
  ELSE IF read.closed THEN now
  ELSE [now EXCEPT !.missed = Capped(read.missed + 1),
                   !.closed = read.missed + 1 >= MISSED_TO_CLOSE \/ @,
                   !.absences = Capped(@ + 1)]

Touched(read, now, seen, heard) ==
  LET missed == IF read.missed # 0 THEN 0 ELSE now.missed
      closed == ~read.closed /\ now.closed
  IN  IF seen
      THEN [now EXCEPT !.missed = missed, !.closed = closed,
                       !.absences = 0, !.refusals = 0, !.raced = missed # 0 \/ closed]
      ELSE IF read.closed THEN now
      ELSE [now EXCEPT !.missed = Capped(read.missed + 1),
                       !.closed = read.missed + 1 >= MISSED_TO_CLOSE \/ @,
                       !.absences = IF heard = "listing" THEN Capped(@ + 1) ELSE @,
                       !.refusals = IF heard = "refusal" THEN Capped(@ + 1) ELSE @,
                       !.raced = @ \/ read.missed > now.missed]

NewRow(b, id) == [row |-> b, id |-> id, missed |-> 0, closed |-> FALSE,
                  score |-> "none", absences |-> 0, refusals |-> 0, raced |-> FALSE]

Holds(rows, b, id) == \E k \in DOMAIN rows : rows[k].row = b /\ rows[k].id = id

Inserted(j, b) == Only(j.got, {k \in DOMAIN j.got : ~Holds(j.snap, b, j.got[k])})

\* UNIQUE(board_id, external_id): a listing that names a new posting twice,
\* or one that another thread has inserted meanwhile, cannot be committed.
Clashes(j, b) ==
  LET new == Inserted(j, b)
  IN  \/ \E k, l \in DOMAIN new : k # l /\ new[k] = new[l]
      \/ \E k \in DOMAIN new : Holds(posting, b, new[k])

Commit(t) ==
  /\ job[t].pc = "commit"
  /\ LET j   == job[t]
         b   == Head(j.todo)
         new == Inserted(j, b)
     IN  IF Clashes(j, b)
         THEN Do(t, Idle) /\ UNCHANGED <<board, posting>>
         ELSE /\ Len(posting) + Len(new) <= MaxPostings
              /\ posting' = [k \in DOMAIN posting |->
                               IF k \in DOMAIN j.snap /\ posting[k].row = b
                               THEN Touched(j.snap[k], posting[k], Seen(j, posting[k].id), j.heard)
                               ELSE posting[k]]
                            \o [k \in DOMAIN new |-> NewRow(b, new[k])]
              /\ Flag(b, FALSE)
              /\ Do(t, NextBoard(j))
  /\ UNCHANGED <<World, company, form, ops, faults>>

\* PUT /jobs/boards/{id}: any board another row does not hold.
Override(b, s) ==
  /\ Operated /\ "override" \in Ops /\ b \in DOMAIN board /\ s \in Spare
  /\ \A other \in DOMAIN board \ {b} : board[other].site # s
  /\ board' = [board EXCEPT ![b].site = s, ![b].by = "manual", ![b].sure = 100]
  /\ UNCHANGED <<World, company, posting, form, job>>

----------------------------------------------------------------------------
(***************************************************************************)
(* Scoring, in the refresh only.                                           *)
(***************************************************************************)
Polled(t) ==
  /\ job[t].pc = "poll" /\ job[t].todo = <<>>
  /\ Do(t, IF t = Cron /\ HasProfile THEN [Idle EXCEPT !.pc = "score"] ELSE Idle)
  /\ UNCHANGED <<World, Tables, form, ops, faults>>

Candidates == {k \in DOMAIN posting : posting[k].score = "none" /\ ~posting[k].closed}

First(n, s) == SubSeq(s, 1, IF n < Len(s) THEN n ELSE Len(s))

Prefilter ==
  /\ job[Cron].pc = "score"
  /\ LET off == {k \in Candidates : posting[k].id \in OffTarget}
     IN  /\ posting' = [k \in DOMAIN posting |->
                          IF k \in off THEN [posting[k] EXCEPT !.score = "filtered"]
                          ELSE posting[k]]
         /\ Do(Cron, [job[Cron] EXCEPT !.pc = "batch",
                        !.todo = First(MAX_SCORE, Rows(Candidates \ off))])
  /\ UNCHANGED <<World, company, board, form, ops, faults>>

\* One call of the model.  The records come back by alias, so that a batch
\* can fail as a whole or miss some of its postings: once in a while, and every
\* time for what the model refuses.
ScoreBatch ==
  /\ job[Cron].pc = "batch" /\ job[Cron].todo # <<>>
  /\ LET batch   == First(BATCH, job[Cron].todo)
         asked   == {batch[k] : k \in DOMAIN batch}
         refused == {k \in asked : posting[k].id \in Shunned}
     IN  \E answered \in SUBSET (asked \ refused) :
           /\ IF answered = asked \/ refused # {} THEN UNCHANGED faults ELSE Faulted
           /\ posting' = [k \in DOMAIN posting |->
                            IF k \in answered THEN [posting[k] EXCEPT !.score = "scored"]
                            ELSE posting[k]]
           /\ Do(Cron, [job[Cron] EXCEPT !.todo =
                          SubSeq(@, Len(batch) + 1, Len(@))])
  /\ UNCHANGED <<World, company, board, form, ops>>

ScoreDone ==
  /\ job[Cron].pc = "batch" /\ job[Cron].todo = <<>>
  /\ Do(Cron, Idle)
  /\ UNCHANGED <<World, Tables, form, ops, faults>>

\* The process stops and is started again: what was not committed is lost.
Crash ==
  /\ Faulted
  /\ \E t \in Threads : job[t].pc # "idle"
  /\ job' = [t \in Threads |-> Idle]
  /\ form' = [f \in Forms |-> <<>>]
  /\ UNCHANGED <<World, Tables, ops>>

----------------------------------------------------------------------------
Step(t) == \/ Resolve(t) \/ Insert(t) \/ Resolved(t)
           \/ BeginList(t) \/ ListPage(t) \/ Snapshot(t) \/ Commit(t) \/ Polled(t)

Refresh == Step(Cron) \/ Prefilter \/ ScoreBatch \/ ScoreDone

Next ==
  \/ \E s \in Sites, i \in Ids : Publish(s, i)
  \/ \E s \in Sites, k \in 1..MaxListed : Withdraw(s, k)
  \/ \E s \in Sites : Move(s)
  \/ \E f \in Forms, entries \in Arrivals : AddRead(f, entries)
  \/ \E f \in Forms : AddCommit(f)
  \/ \E t \in Rescans, c \in DOMAIN company : Rescan(t, c)
  \/ \E b \in DOMAIN board, s \in Spare : Override(b, s)
  \/ Tick
  \/ Refresh
  \/ \E t \in Rescans : Step(t)
  \/ Crash

Spec == Init /\ [][Next]_vars

\* The cron trigger fires again after every refresh, and a thread that runs
\* goes on.  Nobody has to ask for a rescan.
FairSpec ==
  /\ Spec
  /\ WF_vars(Tick)
  /\ WF_vars(Refresh)
  /\ \A t \in Rescans : WF_vars(Step(t))
  /\ \A f \in Forms : WF_vars(AddCommit(f))

----------------------------------------------------------------------------
(***************************************************************************)
(* Properties.                                                             *)
(***************************************************************************)
\* A posting is closed on the evidence of MISSED_TO_CLOSE polls in a row
\* (inventory.py:31-32): since it was last listed that many listings lacked it,
\* none of them cut short by an outage (inventory.py:26-30), whichever threads
\* polled.  What ends with a final error counts, as the adapters take that for a
\* board with no more openings (greenhouse.py:106-107).  Left out is a row whose
\* count outlived a listing with the posting, because two polls overlapped and one
\* wrote, or took for unchanged, what it had read before the other's commit.
ClosedIsAbsent ==
  \A k \in DOMAIN posting :
    posting[k].closed /\ ~posting[k].raced =>
      posting[k].absences + posting[k].refusals >= MISSED_TO_CLOSE

\* Once the boards stop changing and the network is well, every company that
\* the free steps can place has a board, and the open postings of a board are
\* exactly those its site lists: additions, closings, reopenings, overrides,
\* crashes and polls cut short are all made good by later refreshes.
Lists(b) == IF board[b].site \in gone THEN {}
            ELSE {listed[board[b].site][k] : k \in DOMAIN listed[board[b].site]}
Open(b)  == {posting[k].id : k \in {x \in DOMAIN posting :
                                       posting[x].row = b /\ ~posting[x].closed}}

Free(c) == Ladder(company[c], [s \in Sites |-> Answer(s)], listed)

Settled ==
  /\ \A c \in DOMAIN company : Free(c) # Miss => BoardsOf(c) # {}
  /\ \A b \in DOMAIN board : Open(b) = Lists(b)

\* The refresh ends at a company that comes out at another's board, before it
\* has polled anything (inventory.py:123-133).
Blocked ==
  \E c \in Pending : LET hit == IF Free(c) # Miss THEN Free(c)
                                ELSE Researched(company[c], TRUE, [s \in Sites |-> Answer(s)], listed)
                    IN  hit # Miss /\ Taken(hit.site)

\* What a run would score, and its n-th batch.
Share    == First(MAX_SCORE, Rows(Candidates))
Batch(n) == {Share[k] : k \in {x \in DOMAIN Share : (x - 1) \div BATCH = n}}

\* And a posting waits for its score for ever only when every batch of the next
\* run has a posting that the model refuses each time it is asked: those keep
\* their place at the front (scoring.py:382), and neither the cap per run, nor a
\* batch that failed or came back short now and then, keeps the others waiting.
Settles ==
  <>[](Blocked \/ (Settled /\ (HasProfile =>
         \A n \in {(k - 1) \div BATCH : k \in DOMAIN Share} :
           \E k \in Batch(n) : posting[k].id \in Shunned)))
=============================================================================

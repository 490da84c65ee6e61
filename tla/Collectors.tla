------------------------------ MODULE Collectors ------------------------------
(***************************************************************************)
(* The collectors that ask a service over the network                      *)
(* (pipeline/collectors/gmail.py, graph.py, slack.py, zoom.py) and what    *)
(* the runner keeps of their answer (pipeline/runner.py).                  *)
(*                                                                         *)
(* A collection is a queue of requests.  A listing is drained page by      *)
(* page, and what it lists may ask for more: mails one by one, the tasks   *)
(* of a list, the messages of a chat or channel, the replies of a thread.  *)
(* Any request may fail, and what is listed may be deleted before it is    *)
(* fetched.  A payload is left out, except whether a meeting's summary was *)
(* in it.  What a run says of its sources is in Runner.                    *)
(***************************************************************************)
EXTENDS Integers, Sequences, FiniteSets, SequencesExt

CONSTANTS
  Kinds,                \* the collectors: "gmail", "m365", "slack", "zoom"
  World,                \* [Kinds -> Seq(Thing)]: what each service holds, in listing order
  Boxes,                \* the names of inboxes, lists, chats and channels
  PAGE,                 \* things on a page
  MAX_PAGES,            \* [Kinds -> pages drained of one listing]
  GRACE,                \* CHAT_SCAN_GRACE
  MAX_UNJUDGEABLE,      \* chats without a preview that are scanned
  LOOKBACK,             \* SUMMARY_LOOKBACK
  OVERLAP,              \* how far a window reaches back behind the watermark
  S2S,                  \* Zoom answers the account's report
  MAX_STUCK_RUNS,       \* collections in a row that may fail before the window is given up
  MaxTime, MaxFaults, MaxChanges   \* bounds

None == -1

\* The members of S in their order, and the members of s whose place is in S.
Rank(S, n) == Cardinality({m \in S : m <= n})
Sorted(S)  == [i \in 1 .. Cardinality(S) |-> CHOOSE n \in S : Rank(S, n) = i]
Only(s, S) == [i \in 1 .. Cardinality(S) |-> s[Sorted(S)[i]]]

\* A message, event, task, chat, channel or meeting.
\*   at     when it is from; for a chat its last message's instant, or None
\*   form   "undated" has no usable time, "broken" cannot be parsed, "noise" is
\*          a system message, "box" holds other things
\*   under  a Slack reply's parent;  lists, hosted  where a meeting shows up
Thing == [box : Boxes, own : Nat, at : Nat \cup {None}, form : {"plain", "undated", "broken", "noise", "box"},
          holds : Boxes, under : Nat \cup {None}, lists : SUBSET Boxes, hosted : BOOLEAN]

ASSUME WorldAssumption ==
  /\ Kinds # {} /\ Kinds \subseteq {"gmail", "m365", "slack", "zoom"}
  /\ World \in [Kinds -> Seq(Thing)]
\* The listings a collection starts with.
ASSUME BoxAssumption ==
  /\ "-" \notin Boxes
  /\ {"inbox", "mail", "calendar", "todo", "chat", "channels", "summaries", "previous", "report"} \subseteq Boxes

Of(k, box)   == {n \in DOMAIN World[k] : World[k][n].box = box}
OfChat(k, n) == \E b \in Of(k, "chat") : World[k][b].holds = World[k][n].box

\* What the services promise: an id is given once, in a chat or channel, and outside
\* of them in the service; lists, chats and channels are listed apart from what they
\* hold; chats come by their last message, those without a preview at the end.
ASSUME ServiceAssumption ==
  \A k \in Kinds :
    /\ \A n, m \in DOMAIN World[k] :
         /\ World[k][n].own = World[k][m].own
         /\ \/ k \in {"gmail", "zoom"} \/ World[k][n].box = World[k][m].box
            \/ k = "m365" /\ ~OfChat(k, n) /\ ~OfChat(k, m)
         => n = m
    /\ k \in {"m365", "slack"} => \A n \in DOMAIN World[k] :
         World[k][n].form = "box" <=> World[k][n].box \in {"todo", "chat", "channels"}
    /\ \A a, b \in Of(k, "chat") : a < b => World[k][b].at <= World[k][a].at

ASSUME PageAssumption == PAGE \in Nat \ {0} /\ MAX_PAGES \in [Kinds -> Nat \ {0}]
ASSUME CollectorNumbers ==
  /\ GRACE \in Nat /\ MAX_UNJUDGEABLE \in Nat /\ LOOKBACK \in Nat /\ OVERLAP \in Nat \ {0} /\ S2S \in BOOLEAN
  /\ MAX_STUCK_RUNS \in Nat \ {0}
  /\ MaxTime \in Nat /\ MaxFaults \in Nat /\ MaxChanges \in Nat

VARIABLES
  kind,      \* the source's kind
  now,       \* the clock, in instants
  gone,      \* things deleted at the service
  summary,   \* when each meeting's summary was generated, or None
  mark,      \* the source's watermark
  streak,    \* collections that failed since it moved
  stored,    \* the CollectedItem rows
  call,      \* the collection under way
  vouched,   \* ghost: things that a collection answered "ok" about
  behind,    \* ghost: things behind a page limit that was taken for the end
  given,     \* ghost: things whose request failed in a window that was given up
  tally      \* faults and changes of the service

vars == <<kind, now, gone, summary, mark, streak, stored, call, vouched, behind, given, tally>>
service == <<kind, now, gone, summary>>
table == <<mark, streak, stored, vouched, behind, given>>

-----------------------------------------------------------------------------
Things == DOMAIN World[kind]
T(n) == World[kind][n]

\* A row; a meeting is whole when its summary and participants are in it.
Item == [key : [scope : Boxes \cup {"-"}, own : Nat], thing : Nat, whole : BOOLEAN]

\* A request; the requests of one unit are one resource, which fails as a whole.
Request == [op : {"token", "me", "list", "get", "merge"}, box : Boxes \cup {"-"},
            of : Nat \cup {None}, unit : Boxes \cup {"-"}]
R(op, box, of, unit) == [op |-> op, box |-> box, of |-> of, unit |-> unit]
Alone(op) == R(op, "-", None, "-")
Listing(box) == R("list", box, None, "-")

Status == {"ok", "partial", "error", "raised"}
Call == [pc : {"idle", "ask", "answer"}, since : Int, until : Nat, todo : Seq(Request),
         page : Nat, rows : Seq(Nat), part : Seq(Item), items : Seq(Item),
         met : SUBSET (Boxes \X Nat), failed : Nat, tried : Nat, status : Status,
         unread : SUBSET Nat, missed : SUBSET Nat]
NoCall == [pc |-> "idle", since |-> 0, until |-> 0, todo |-> <<>>, page |-> 0, rows |-> <<>>,
           part |-> <<>>, items |-> <<>>, met |-> {}, failed |-> 0, tried |-> 0, status |-> "ok",
           unread |-> {}, missed |-> {}]

Init ==
  /\ kind \in Kinds
  /\ now = 0 /\ gone = {} /\ mark = 0 /\ streak = 0
  /\ summary = [n \in Things |-> None]
  /\ stored = {} /\ vouched = {} /\ behind = {} /\ given = {}
  /\ call = NoCall
  /\ tally = [faults |-> 0, changes |-> 0]

Counted(what, limit) == tally[what] < limit /\ tally' = [tally EXCEPT ![what] = @ + 1]

-----------------------------------------------------------------------------
(* The services *)

Tick == now < MaxTime /\ now' = now + 1 /\ UNCHANGED <<kind, gone, summary, table, call, tally>>

Delete(n) ==
  /\ n \in Things \ gone /\ T(n).at <= now /\ T(n).form # "box"
  /\ Counted("changes", MaxChanges)
  /\ gone' = gone \cup {n}
  /\ UNCHANGED <<kind, now, summary, table, call>>

\* AI Companion writes a hosted meeting's summary some time after it, or never.
Summarize(n) ==
  /\ kind = "zoom" /\ n \in Things /\ T(n).hosted /\ T(n).at <= now /\ summary[n] = None
  /\ Counted("changes", MaxChanges)
  /\ summary' = [summary EXCEPT ![n] = now]
  /\ UNCHANGED <<kind, now, gone, table, call>>

Within(i, from, to) == from <= i /\ i < to

\* min(since, until - SUMMARY_LOOKBACK).
From(c) == IF kind = "zoom" /\ c.until - LOOKBACK < c.since THEN c.until - LOOKBACK ELSE c.since

\* What a service lists for the request.  Gmail's bounds may be off by an instant,
\* Slack's and Graph's "after" leaves its instant out, and Graph may ignore the
\* filter of a chat without an error (when it is not obeyed).
Lists(c, r, n, obeyed) ==
  /\ n \notin gone /\ T(n).at <= now
  /\ CASE kind = "gmail" -> T(n).form = "undated" \/ Within(T(n).at, c.since - 1, c.until + 1)
       [] kind = "m365" ->
            /\ T(n).box = r.box
            /\ r.unit \in {"mail", "calendar"} => Within(T(n).at, c.since, c.until)
            /\ r.unit = "todo" /\ T(n).form # "box" => T(n).at >= c.since
            /\ r.unit = "chat" /\ T(n).form # "box" /\ obeyed => Within(T(n).at, c.since + 1, c.until)
       [] kind = "slack" ->
            /\ T(n).box = r.box /\ T(n).under = r.of
            /\ T(n).form # "box" => T(n).at > c.since
       [] kind = "zoom" ->
            IF r.box = "summaries" THEN summary[n] # None /\ Within(summary[n], From(c), c.until)
            ELSE r.box \in T(n).lists /\ Within(T(n).at, From(c), c.until + 1)

\* What the listing still has behind the pages that were read.
Rest(c, obeyed) == {n \in Things : Lists(c, Head(c.todo), n, obeyed) /\ n \notin ToSet(c.rows)}
Rows(c, obeyed) == Sorted(Rest(c, obeyed))

-----------------------------------------------------------------------------
(* The collectors: what each makes of an answer *)

InChat(n) == OfChat(kind, n)

\* external_id: a message's id is unique only within its chat or channel.
Scoped(n) == kind = "slack" \/ (kind = "m365" /\ InChat(n))

\* Mutant of Key: the id is taken as the service gives it.
OwnId(n) == [scope |-> "-", own |-> T(n).own]

Key(n) == [scope |-> IF Scoped(n) THEN T(n).box ELSE "-", own |-> T(n).own]

ItemOf(n, whole) == [key |-> Key(n), thing |-> n, whole |-> whole]

\* The window as the code checks it itself.
Kept(c, n) ==
  /\ T(n).form \in {"plain", "broken"}
  /\ CASE kind = "gmail" -> Within(T(n).at, c.since, c.until)
       [] kind = "m365" -> InChat(n) => Within(T(n).at, c.since, c.until + 1)
       [] kind = "slack" -> T(n).at >= c.since
       [] kind = "zoom" -> TRUE

\* The plan each collector starts with.
Plan ==
  CASE kind = "gmail" -> <<Alone("token"), Listing("inbox")>>
    [] kind = "m365" -> <<Alone("token")>> \o
         [i \in 1 .. 4 |-> LET box == <<"mail", "calendar", "todo", "chat">>[i]
                           IN R("list", box, None, box)]
    [] kind = "slack" -> <<Listing("channels")>>
    [] kind = "zoom" -> <<Alone("token"), Alone("me"), Listing("summaries"), Listing("previous")>> \o
         (IF S2S THEN <<Listing("report")>> ELSE <<>>) \o <<Alone("merge")>>

\* How many listings there are to fail (a mail each, once they are listed).
Units == CASE kind = "m365" -> 4 [] kind = "zoom" -> IF S2S THEN 3 ELSE 2 [] OTHER -> 0

\* The head request is answered: items came of it, and requests to ask next.
Done(c, items, more) ==
  LET unit == Head(c.todo).unit
      todo == more \o Tail(c.todo)
      open == unit # "-" /\ \E i \in DOMAIN todo : todo[i].unit = unit
  IN [c EXCEPT !.todo = todo, !.page = 0, !.rows = <<>>,
               !.part = IF open THEN @ \o items ELSE <<>>,
               !.items = IF open THEN @ ELSE @ \o c.part \o items]

\* The head request failed, and with it the rest of its unit.
Dropped(c) ==
  LET unit == Head(c.todo).unit
      rest == Tail(c.todo)
  IN [c EXCEPT !.todo = Only(rest, {i \in DOMAIN rest : unit = "-" \/ rest[i].unit # unit}),
               !.page = 0, !.rows = <<>>, !.part = <<>>, !.failed = @ + 1]

Ended(c, status, items) ==
  [NoCall EXCEPT !.pc = "answer", !.since = c.since, !.until = c.until, !.status = status,
                 !.items = items, !.unread = c.unread, !.missed = c.missed]

\* Mutant of Fatal: nothing can be had from a source of which a part fails.
AnyFailure(r) == TRUE

\* A failure that leaves nothing to go on with.
Fatal(r) ==
  \/ r.op \in {"token", "me"}
  \/ r.op = "list" /\ (kind = "gmail" \/ r.box = "channels")

\* What a request, and the rest of its unit, would have brought.
Covers(r) == {n \in Things :
  \/ r.op \in {"token", "me"}
  \/ kind = "gmail" /\ (r.op = "list" \/ r.of = n)
  \/ kind = "m365" /\ (r.unit = T(n).box \/ \E b \in Of(kind, r.unit) : T(b).holds = T(n).box)
  \/ kind = "slack" /\ (r.box = "channels" \/ (r.box = T(n).box /\ r.of \in {None, T(n).under}))
  \/ kind = "zoom" /\ r.op = "list" /\ r.box \in T(n).lists}

Missing(c) == [c EXCEPT !.missed = @ \cup Covers(Head(c.todo))]

\* A meeting whose summary or participants cannot be had is kept without.
Fails(c) ==
  LET r == Head(c.todo)
  IN IF Fatal(r) THEN Ended(Missing(c), "error", <<>>)
     ELSE IF kind = "zoom" /\ r.op = "get"
     THEN [Done(c, <<ItemOf(r.of, FALSE)>>, <<>>) EXCEPT !.failed = @ + 1]
     ELSE Dropped(Missing(c))

Unjudgeable(c, i) == Cardinality({j \in 1 .. i : T(c.rows[j]).at = None})

\* The chats to look into: up to the first whose last message is older than the
\* grace allows, or one too many without a preview.
Scanned(c) ==
  LET stop == {i \in DOMAIN c.rows : IF T(c.rows[i]).at = None THEN Unjudgeable(c, i) > MAX_UNJUDGEABLE
                                     ELSE T(c.rows[i]).at < c.since - GRACE}
  IN IF Head(c.todo).box # "chat" \/ stop = {} THEN c.rows
     ELSE SubSeq(c.rows, 1, (CHOOSE i \in stop : \A j \in stop : i <= j) - 1)

Opened(c) ==
  LET scanned == Scanned(c)
  IN [i \in DOMAIN scanned |-> R("list", T(scanned[i]).holds, None, Head(c.todo).unit)]

\* The parents of a channel's listing that have replies.
Threads(c) ==
  LET parents == Only(c.rows, {i \in DOMAIN c.rows : \E m \in Things \ gone :
                   T(m).box = T(c.rows[i]).box /\ T(m).under = T(c.rows[i]).own})
  IN IF kind # "slack" \/ Head(c.todo).of # None THEN <<>>
     ELSE [i \in DOMAIN parents |-> R("list", Head(c.todo).box, T(parents[i]).own, "-")]

\* A listing has come to its end.
Listed(c) ==
  LET r == Head(c.todo)
      kept == Only(c.rows, {i \in DOMAIN c.rows : Kept(c, c.rows[i])})
  IN CASE kind = "gmail" ->
            [Done(c, <<>>, [i \in DOMAIN c.rows |-> R("get", "-", c.rows[i], "-")])
               EXCEPT !.tried = Len(c.rows)]
       [] kind = "zoom" ->
            [Done(c, <<>>, <<>>) EXCEPT !.met = @ \cup {<<r.box, n>> : n \in ToSet(c.rows)}]
       [] OTHER ->
            IF r.box \in {"todo", "chat", "channels"} THEN Done(c, <<>>, Opened(c))
            ELSE Done(c, [i \in DOMAIN kept |-> ItemOf(kept[i], TRUE)], Threads(c))

-----------------------------------------------------------------------------
(* A collection *)

Asks(op) == call.pc = "ask" /\ call.todo # <<>> /\ Head(call.todo).op = op

\* The window reaches from behind the watermark to now (Runner's CollectionWindow).
Begin ==
  /\ call.pc = "idle"
  /\ call' = [NoCall EXCEPT !.pc = "ask", !.since = mark - OVERLAP, !.until = now, !.todo = Plan, !.tried = Units]
  /\ UNCHANGED <<service, table, tally>>

Reach ==
  /\ Asks("token") \/ Asks("me")
  /\ call' = Done(call, <<>>, <<>>)
  /\ UNCHANGED <<service, table, tally>>

\* Mutant of TooManyPages: the last page that is drained is taken for the end.
TakesForEnd(c) == Listed(c)

\* Gmail and Graph take a listing of too many pages for a failure; the other two
\* go on with what they have.
TooManyPages(c) ==
  IF kind \in {"gmail", "m365"} THEN Fails(c)
  ELSE Listed([c EXCEPT !.unread = @ \cup Rest(c, TRUE)])

ListPage ==
  /\ Asks("list")
  /\ \E rows \in {Rows(call, obeyed) : obeyed \in BOOLEAN} :
     LET read == [call EXCEPT !.rows = @ \o SubSeq(rows, 1, IF PAGE < Len(rows) THEN PAGE ELSE Len(rows)),
                              !.page = @ + 1]
     IN call' = IF Len(rows) <= PAGE THEN Listed(read)
                ELSE IF read.page < MAX_PAGES[kind] THEN read
                ELSE TooManyPages(read)
  /\ UNCHANGED <<service, table, tally>>

\* A mail that was deleted meanwhile cannot be fetched, and one that cannot be
\* parsed counts as a failure too.
GetMail ==
  /\ kind = "gmail" /\ Asks("get")
  /\ LET n == Head(call.todo).of
     IN call' = IF n \in gone THEN Fails(call)
                ELSE IF ~Kept(call, n) THEN Done(call, <<>>, <<>>)
                ELSE IF T(n).form = "broken" THEN Fails(call)
                ELSE Done(call, <<ItemOf(n, TRUE)>>, <<>>)
  /\ UNCHANGED <<service, table, tally>>

\* The summary, the participants and the transcript of a meeting of the user's.
GetMeeting ==
  /\ kind = "zoom" /\ Asks("get")
  /\ LET n == Head(call.todo).of
     IN call' = Done(call, <<ItemOf(n, <<"summaries", n>> \in call.met)>>, <<>>)
  /\ UNCHANGED <<service, table, tally>>

\* The three listings are merged by meeting; what is asked further is only for
\* meetings of the user's.
Merge ==
  /\ Asks("merge")
  /\ LET met == {m[2] : m \in call.met}
         mine == SetToSeq({n \in met : T(n).hosted \/ <<"summaries", n>> \in call.met})
         others == SetToSeq(met \ ToSet(mine))
     IN call' = IF call.failed = call.tried THEN Ended(call, "error", <<>>)
                ELSE Done(call, [i \in DOMAIN others |-> ItemOf(others[i], FALSE)],
                          [i \in DOMAIN mine |-> R("get", "-", mine[i], "-")])
  /\ UNCHANGED <<service, table, tally>>

\* A request fails: no connection, a refusal, a rate limit, an unreadable body.
RequestFails ==
  /\ \E op \in {"token", "me", "list", "get"} : Asks(op)
  /\ Counted("faults", MaxFaults)
  /\ call' = Fails(call)
  /\ UNCHANGED <<service, table>>

\* Slack turns out to cap the app (RateLimitClassified), or a Graph page is not
\* JSON, which no handler of the collector expects.
BreaksOff ==
  /\ Asks("list") /\ Head(call.todo).of = None
  /\ Head(call.todo).box # "channels" /\ kind \in {"slack", "m365"}
  /\ Counted("faults", MaxFaults)
  /\ LET c == [call EXCEPT !.missed = Things]
     IN call' = IF kind = "slack" THEN Ended(c, "error", c.items) ELSE Ended(c, "raised", <<>>)
  /\ UNCHANGED <<service, table>>

Result(c) ==
  IF c.failed = 0 THEN "ok"
  ELSE IF kind \in {"gmail", "m365"} /\ c.failed = c.tried THEN "error" ELSE "partial"

Finish ==
  /\ call.pc = "ask" /\ call.todo = <<>>
  /\ call' = Ended(call, Result(call), call.items)
  /\ UNCHANGED <<service, table, tally>>

-----------------------------------------------------------------------------
(* The runner *)

\* Mutant of Fresh: only the ids within one result are told apart.
FreshInResult(items) ==
  {items[i] : i \in {j \in DOMAIN items : \A k \in 1 .. j - 1 : items[k].key # items[j].key}}

\* _persist: the first item of each key that has no row yet.
Fresh(items) ==
  {items[i] : i \in {j \in DOMAIN items :
     /\ \A k \in 1 .. j - 1 : items[k].key # items[j].key
     /\ \A row \in stored : row.key # items[j].key}}

\* The list or chat b shows n: it is there, and a chat's last message is not too old.
Shows(c, b, n) ==
  /\ T(b).box \in {"todo", "chat"} /\ T(b).holds = T(n).box /\ T(b).at <= c.until
  /\ T(b).box = "chat" =>
       /\ T(b).at >= c.since - GRACE
       /\ T(b).at = None => Cardinality({a \in Of(kind, "chat") : T(a).at = None}) <= MAX_UNJUDGEABLE

\* What an "ok" vouches for: what the listings of the collection lead to; a reply
\* counts with its parent, a meeting when it is listed for all of its attendees.
Listable(c, n) ==
  CASE kind = "m365" -> T(n).box \in {"mail", "calendar"} \/ \E b \in Things : Shows(c, b, n)
    [] kind = "slack" ->
         /\ \E b \in Of(kind, "channels") : T(b).holds = T(n).box /\ T(b).under = None /\ T(b).at <= c.until
         /\ T(n).under # None => \E p \in Things \ gone :
              /\ T(p).box = T(n).box /\ T(p).own = T(n).under /\ T(p).under = None
              /\ Within(T(p).at, c.since + 1, c.until + 1)
    [] kind = "zoom" -> T(n).lists \cap (IF S2S THEN {"previous", "report"} ELSE {"previous"}) # {}
    [] OTHER -> TRUE

Vouched(c) == {n \in Things \ gone : T(n).form = "plain" /\ Within(T(n).at, mark, c.until) /\ Listable(c, n)}

\* What lies behind a page limit: what is listed there, the messages of a channel
\* and the replies of a message.
Behind(c) == {n \in Things :
  /\ T(n).at < c.until
  /\ \/ n \in c.unread
     \/ kind = "slack" /\ \E b \in c.unread :
          T(b).holds = T(n).box \/ (T(b).box = T(n).box /\ T(b).own = T(n).under)}

GivesUp(c) == c.status # "ok" /\ streak + 1 >= MAX_STUCK_RUNS

\* The watermark moves on an "ok", and when the source has failed too often in a
\* row, so that an ever larger window is not asked for for ever.
Moves(c) == c.status = "ok" \/ GivesUp(c)

\* Mutant of Streak: a collection that brings a part is no failure.
CountsErrors(c) == IF Moves(c) \/ c.status = "partial" THEN 0 ELSE streak + 1

\* record_failure counts whatever is not clean; set_cursor starts afresh.
Streak(c) == IF Moves(c) THEN 0 ELSE streak + 1

\* The rows are kept whatever the status.
Persist ==
  /\ call.pc = "answer"
  /\ stored' = stored \cup Fresh(call.items)
  /\ mark' = IF Moves(call) THEN call.until ELSE mark
  /\ streak' = Streak(call)
  /\ vouched' = IF call.status = "ok" THEN vouched \cup Vouched(call) ELSE vouched
  /\ behind' = IF Moves(call) THEN behind \cup Behind(call) ELSE behind
  /\ given' = IF GivesUp(call) THEN given \cup {n \in call.missed : T(n).at < call.until} ELSE given
  /\ call' = NoCall
  /\ UNCHANGED <<service, tally>>

-----------------------------------------------------------------------------
Collect == Begin \/ Reach \/ ListPage \/ GetMail \/ GetMeeting \/ Merge \/ Finish \/ Persist

Next ==
  \/ Collect \/ RequestFails \/ BreaksOff \/ Tick
  \/ \E n \in Things : Delete(n) \/ Summarize(n)

Spec == Init /\ [][Next]_vars

\* Runs start again and again (the scheduler), every request returns (timeouts),
\* and time passes.
FairSpec == Spec /\ WF_vars(Collect) /\ WF_vars(Tick)

-----------------------------------------------------------------------------
TypeOK ==
  /\ kind \in Kinds /\ now \in 0 .. MaxTime /\ gone \subseteq Things
  /\ summary \in [Things -> Nat \cup {None}]
  /\ mark \in Nat /\ streak \in 0 .. MAX_STUCK_RUNS - 1
  /\ stored \subseteq Item
  /\ \A r, q \in stored : r.key = q.key => r = q    \* only _persist sees to it
  /\ call \in Call
  /\ vouched \subseteq Things /\ behind \subseteq Things /\ given \subseteq Nat
  /\ tally \in [{"faults", "changes"} -> Nat]

\* When a collection says "ok" the runner moves the watermark and does not ask for
\* the window again; so everything the service held there is stored, each thing in
\* a row of its own, through paging, deletions on the way and equal ids in different
\* chats.  Only Slack and Zoom may leave out what lies behind a page limit: they take
\* the last page drained for the end (slack.py _paginate, zoom.py _paged) and say "ok".
OkIsStored == \A n \in vouched :
  \/ \E row \in stored : row.thing = n
  \/ kind \in {"slack", "zoom"} /\ n \in behind

\* What can be collected is collected in the end, or deleted before: neither an
\* unreadable mail nor a resource that fails each time keeps the others of its source
\* from being stored, and a failed request is made good by a later run, unless its
\* own failure fell into a window that was given up (execute_run: "any data still
\* missing from that window will not be retried") or a page limit hides it.
Collectable(n) ==
  /\ T(n).form = "plain" /\ T(n).at < MaxTime /\ T(n).under = None
  /\ kind = "zoom" => T(n).lists # {}
CollectedInTheEnd ==
  <>[](\A n \in Things : Collectable(n) =>
         n \in gone \cup behind \cup given \/ \E row \in stored : row.thing = n)

\* A mail that can never be read, or a mailbox that outgrows its pages, does not hold
\* the watermark back for ever, so the window does not grow without end.
WatermarkMoves == <>[](mark = MaxTime)
=============================================================================

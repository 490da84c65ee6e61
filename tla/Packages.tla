------------------------------- MODULE Packages -------------------------------
(***************************************************************************)
(* Parcel tracking: the mail scan (pipeline/packages/scan.py), the rows it *)
(* and the carrier poll write (inventory.py, poll.py), staleness, and the  *)
(* operator's endpoints (api/routers/packages.py), all on one SQLite file. *)
(*                                                                         *)
(* A session writes what it changed of the rows it read earlier; its first *)
(* write takes SQLite's write lock and keeps it until commit.              *)
(***************************************************************************)
EXTENDS Integers, Sequences, FiniteSets

CONSTANTS
  Carriers,         \* carrier codes, "unknown" included
  Numbers,          \* tracking numbers
  Orders,           \* (merchant domain, order id) pairs
  None,             \* no number, no order, no signal, no time, no session
  Scanners,         \* threads that may scan the mailbox: cron and UI
  Contents,         \* what a mail can carry: see Content
  CarrierStatuses,  \* statuses a carrier answers with
  Polled,           \* the carrier that has a configured adapter
  PageCap,          \* gmail.MAX_PAGES * PAGE_SIZE
  OVERLAP, SCAN_DAYS, STALE_DAYS, INTERVAL, BACKOFF, DUE_TOLERANCE, STOP_AFTER,
  MAX_FAILURES,     \* poll.MAX_CONSECUTIVE_FAILURES
  Ops,              \* operator endpoints used in this instance
  MaxTime, MaxMails, MaxPackages, MaxOps, MaxFaults, MaxCrashes   \* bounds

Ranked == {"pending", "in_transit", "out_for_delivery", "delivered"}
Rank == [pending |-> 0, in_transit |-> 1, out_for_delivery |-> 2, delivered |-> 3]
Terminal == {"delivered", "returned"}
Side == {"exception", "stale", "unknown"}
Status == Ranked \cup Terminal \cup Side

\* One shipment extract() found, and the mail's shipments with its signal.  The
\* carrier of an order-only mail is the one its text names, else "unknown".
Shipment == [carrier : Carriers, number : Numbers \cup {None}, order : Orders \cup {None}]
Content == [ships : Seq(Shipment), signal : Status \cup {None}]

ASSUME DayAssumption ==
  /\ OVERLAP \in Nat /\ SCAN_DAYS \in Nat /\ STALE_DAYS \in Nat
  /\ INTERVAL \in Nat \ {0} /\ BACKOFF \in Nat \ {0}
  /\ DUE_TOLERANCE \in Nat /\ STOP_AFTER \in Nat
ASSUME LimitAssumption == PageCap \in Nat \ {0} /\ MAX_FAILURES \in Nat \ {0}
ASSUME ContentAssumption == Contents \subseteq Content /\ CarrierStatuses \subseteq Status
ASSUME SetAssumption == Polled \in Carriers /\ None \notin Numbers \cup Orders \cup Scanners
ASSUME BoundAssumption ==
  /\ MaxTime \in Nat /\ MaxMails \in Nat /\ MaxPackages \in Nat
  /\ MaxOps \in Nat /\ MaxFaults \in Nat /\ MaxCrashes \in Nat

VARIABLES
  now,        \* the clock
  up,
  tally,      \* how many operator calls, faults and crashes there were
  mailbox,    \* the Gmail account, oldest first
  db,         \* the committed Package, PackageEvent and PackageEmail tables
  cursor,     \* the account's SourceCursor.last_success_at
  lock,       \* the session that holds SQLite's write lock
  scan,       \* each scanner's _scan_account
  poll,       \* refresh_due
  seen,       \* ghost: mails a committed scan has processed
  missed      \* ghost: mails a scan that moved the cursor has not even listed

outside == <<now, up, mailbox>>
store == <<db, cursor, seen, missed>>
vars == <<outside, tally, store, lock, scan, poll>>

-----------------------------------------------------------------------------
(* Records *)

Id == 1 .. MaxPackages
Row == [live : BOOLEAN, carrier : Carriers,
        number : Numbers \cup {None}, order : Orders \cup {None},
        status : Status, source : {"email", "carrier", "manual"},
        delivered : Int, last : Int, next : Int, archived : BOOLEAN, made : Int]
Never == -1
NoRow == [live |-> FALSE, carrier |-> Polled, number |-> None, order |-> None, status |-> "pending",
          source |-> "email", delivered |-> Never, last |-> Never, next |-> Never,
          archived |-> FALSE, made |-> 0]

Event == [package : Id, status : Status, at : Nat, source : {"email", "carrier"}]
Link == [package : Id, mail : Nat]
Tables == [rows : [Id -> Row], events : SUBSET Event, links : SUBSET Link]
Empty == [rows |-> [p \in Id |-> NoRow], events |-> {}, links |-> {}]

Mail == [at : Nat, ships : Seq(Shipment), signal : Status \cup {None}]

\* draft is what the session has read or, once it holds the lock, written; torn
\* notes that the tables had changed between a read and the write based on it.
Scan == [pc : {"idle", "fetch", "write", "mark", "stale"}, at : Nat, todo : Seq(Nat),
         newest : Int, failed : BOOLEAN, draft : Tables, torn : BOOLEAN,
         ships : Seq(Shipment), touched : SUBSET Id, done : SUBSET Nat, left : SUBSET Nat]
NoScan == [pc |-> "idle", at |-> 0, todo |-> <<>>, newest |-> Never, failed |-> FALSE,
           draft |-> Empty, torn |-> FALSE, ships |-> <<>>, touched |-> {}, done |-> {},
           left |-> {}]

Poll == [pc : {"idle", "get", "track"}, at : Nat, todo : Seq(Id), snap : Row, fails : Nat]
NoPoll == [pc |-> "idle", at |-> 0, todo |-> <<>>, snap |-> NoRow, fails |-> 0]

Live(t) == {p \in Id : t.rows[p].live}

-----------------------------------------------------------------------------
(* Status rules *)

\* Mutant of CanTransition: a lower rank replaces a higher one.
CanGoBack(old, new) ==
  /\ new # old /\ new \notin {"stale", "unknown"} /\ old \notin Terminal
  /\ new \in Ranked \cup {"exception", "returned"}

CanTransition(old, new) ==
  /\ new # old /\ new \notin {"stale", "unknown"} /\ old \notin Terminal
  /\ \/ new \in {"exception", "returned"}
     \/ new \in Ranked /\ (old \in Ranked => Rank[new] > Rank[old])

\* _move: the row after an observation.
Moved(row, status, at, source) ==
  LET changed == CanTransition(row.status, status)
  IN [row EXCEPT
        !.status = IF changed THEN status ELSE @,
        !.source = IF changed THEN source ELSE @,
        !.delivered = IF changed /\ status = "delivered" THEN at ELSE @,
        !.last = IF at > @ THEN at ELSE @]

\* An UPDATE writes the columns that differ from what the session had read.
Flushed(current, read, new) ==
  [c \in DOMAIN current |-> IF new[c] # read[c] THEN new[c] ELSE current[c]]

-----------------------------------------------------------------------------
(* inventory.py: rows *)

\* INTEGER PRIMARY KEY without AUTOINCREMENT: one more than the largest in use.
NewIds(t) == {i \in Id : (i = 1 \/ i - 1 \in Live(t)) /\ \A p \in Live(t) : p < i}

Created(carrier, number, order, source) ==
  [NoRow EXCEPT !.live = TRUE, !.carrier = carrier, !.number = number, !.order = order,
                !.source = source, !.made = now]

\* _find_numbered goes by the carrier as well, _order_packages does not.
WithNumber(t, carrier, number) ==
  {p \in Live(t) : number # None /\ t.rows[p].number = number /\ t.rows[p].carrier = carrier}
OfOrder(t, order) == {p \in Live(t) : order # None /\ t.rows[p].order = order}

\* _resolve: the rows a shipment refers to; none means that one is created.
Matches(t, ship) ==
  LET same == WithNumber(t, ship.carrier, ship.number)
      open == {p \in OfOrder(t, ship.order) : t.rows[p].number = None}
  IN IF ship.number = None THEN OfOrder(t, ship.order)
     ELSE IF same # {} THEN same ELSE {p \in open : \A q \in open : p <= q}

\* The upgrade of an order-level row and _fill_identity.
Identified(row, ship) ==
  LET upgraded == row.number = None /\ ship.number # None
  IN [row EXCEPT !.carrier = IF upgraded THEN ship.carrier ELSE row.carrier,
                 !.number = IF upgraded THEN ship.number ELSE row.number,
                 !.order = IF row.order = None THEN ship.order ELSE row.order]

\* The keys of the two partial indexes: an order-level row with an order, a number.
SameOrder(a, b) ==
  a.number = None /\ b.number = None /\ a.order # None /\ a.order = b.order /\ a.carrier = b.carrier

SameNumber(a, b) == a.number # None /\ a.number = b.number /\ a.carrier = b.carrier

\* Mutant of Unique: no index on the tracking number.
UniqueOrders(t) == \A p, q \in Live(t) : p # q => ~SameOrder(t.rows[p], t.rows[q])

\* The indexes uq_package_carrier_tracking and uq_package_order_level.
Unique(t) ==
  \A p, q \in Live(t) : p # q =>
    ~SameNumber(t.rows[p], t.rows[q]) /\ ~SameOrder(t.rows[p], t.rows[q])

\* What mail m records of the packages ids: an event if it carries a signal, a link.
Events(ids, m) ==
  {[package |-> p, status |-> mailbox[m].signal, at |-> mailbox[m].at, source |-> "email"] :
     p \in IF mailbox[m].signal = None THEN {} ELSE ids}
Links(ids, m) == {[package |-> p, mail |-> m] : p \in ids}

\* apply_email for one shipment: written to t, decided on what was read.  Rows
\* this mail has touched before are identified but not observed again.
Applied(t, read, ship, m, touched) ==
  LET mail == mailbox[m]
      found == Matches(read, ship)
      ids == IF found = {} THEN NewIds(t) ELSE found
      Before(p) == IF found = {} THEN Created(ship.carrier, ship.number, ship.order, "email")
                   ELSE Identified(read.rows[p], ship)
      After(p) == IF mail.signal = None \/ p \in touched THEN Before(p)
                  ELSE Moved(Before(p), mail.signal, mail.at, "email")
  IN [rows |-> [p \in Id |->
        IF p \notin ids THEN t.rows[p]
        ELSE IF found = {} THEN After(p) ELSE Flushed(t.rows[p], read.rows[p], After(p))],
      events |-> t.events \cup Events(ids \ touched, m),
      links |-> t.links \cup Links(ids \ touched, m)]

\* The rows still exist (else StaleDataError), and no event or link to insert has
\* been committed since the pre-check (else IntegrityError).
Intact(t, read, ship, m, touched) ==
  LET found == Matches(read, ship)
  IN /\ found \subseteq Live(t)
     /\ Events(found \ touched, m) \cap t.events \subseteq read.events
     /\ Links(found \ touched, m) \cap t.links \subseteq read.links

-----------------------------------------------------------------------------
Init ==
  /\ now = 0 /\ up = TRUE
  /\ tally = [ops |-> 0, faults |-> 0, crashes |-> 0]
  /\ mailbox = <<>>
  /\ db = Empty
  /\ cursor = Never
  /\ lock = None
  /\ scan = [s \in Scanners |-> NoScan]
  /\ poll = NoPoll
  /\ seen = {} /\ missed = {}

Tick ==
  /\ now < MaxTime
  /\ now' = now + 1
  /\ UNCHANGED <<up, mailbox, tally, store, lock, scan, poll>>

Arrive ==
  /\ Len(mailbox) < MaxMails
  /\ \E c \in Contents :
       mailbox' = Append(mailbox, [at |-> now, ships |-> c.ships, signal |-> c.signal])
  /\ UNCHANGED <<now, up, tally, store, lock, scan, poll>>

\* A request fails, or a statement waits five seconds for the lock (busy_timeout).
Fault ==
  /\ tally.faults < MaxFaults
  /\ tally' = [tally EXCEPT !.faults = tally.faults + 1]

-----------------------------------------------------------------------------
(* scan.scan_all: _scan_account, then mark_stale *)

\* _since
Since == IF cursor = Never THEN now - SCAN_DAYS ELSE cursor - OVERLAP

\* list_ids: newest first, cut off at the page cap (mail arrives in time order).
Listed ==
  LET hits == Cardinality({m \in DOMAIN mailbox : mailbox[m].at >= Since})
  IN [i \in 1 .. (IF hits < PageCap THEN hits ELSE PageCap) |-> Len(mailbox) + 1 - i]

\* What the listing leaves out for good: mail before the first look-back, and the
\* oldest messages when the page cap cuts it off.
Unlisted ==
  {m \in DOMAIN mailbox : /\ m \notin {Listed[i] : i \in DOMAIN Listed}
                          /\ cursor = Never \/ mailbox[m].at >= Since}

ScanBegin(s) ==
  /\ up /\ scan[s].pc = "idle"
  /\ scan' = [scan EXCEPT ![s] = [NoScan EXCEPT !.pc = "fetch", !.at = now, !.todo = Listed,
                                                !.left = Unlisted]]
  /\ UNCHANGED <<outside, tally, store, lock, poll>>

\* What the session reads: its own uncommitted writes, or the committed tables.
View(s) == IF lock = s THEN scan[s].draft ELSE db

Known(t, m) == \E l \in t.links : l.mail = m

\* A message that cannot be fetched is left out and holds the cursor.
FetchFails(s) ==
  /\ scan[s].pc = "fetch" /\ scan[s].todo # <<>>
  /\ Fault
  /\ scan' = [scan EXCEPT ![s].todo = Tail(scan[s].todo), ![s].failed = TRUE]
  /\ UNCHANGED <<outside, store, lock, poll>>

Fetch(s) ==
  /\ scan[s].pc = "fetch" /\ scan[s].todo # <<>>
  /\ LET m == Head(scan[s].todo)
         newest == IF mailbox[m].at > scan[s].newest THEN mailbox[m].at ELSE scan[s].newest
     IN scan' = IF Known(View(s), m)
          THEN [scan EXCEPT ![s].todo = Tail(scan[s].todo), ![s].newest = newest,
                            ![s].done = scan[s].done \cup {m}]
          ELSE [scan EXCEPT ![s].pc = "write", ![s].newest = newest, ![s].draft = View(s),
                            ![s].ships = mailbox[m].ships, ![s].touched = {}]
  /\ UNCHANGED <<outside, tally, store, lock, poll>>

\* Order-only mail without a signal is noise; without an order there is nothing to track.
Noise(s) ==
  LET ship == Head(scan[s].ships)
  IN ship.number = None /\ (mailbox[Head(scan[s].todo)].signal = None \/ ship.order = None)

\* apply_email, one shipment per step.  The first write takes the lock, on
\* whatever is committed by then.
ScanWrite(s) ==
  /\ scan[s].pc = "write" /\ scan[s].ships # <<>>
  /\ LET ship == Head(scan[s].ships)
         m == Head(scan[s].todo)
         read == scan[s].draft
         t == View(s)
         new == Applied(t, read, ship, m, scan[s].touched)
     IN IF Noise(s)
        THEN scan' = [scan EXCEPT ![s].ships = Tail(scan[s].ships)] /\ UNCHANGED lock
        ELSE /\ lock \in {None, s}
             /\ Intact(t, read, ship, m, scan[s].touched) /\ Unique(new)
             /\ Matches(read, ship) = {} => NewIds(t) # {}
             /\ lock' = s
             /\ scan' = [scan EXCEPT
                  ![s].ships = Tail(scan[s].ships), ![s].draft = new,
                  ![s].torn = scan[s].torn \/ t # read,
                  ![s].touched = {p \in Id : [package |-> p, mail |-> m] \in new.links}]
  /\ UNCHANGED <<outside, tally, store, poll>>

ScanNext(s) ==
  /\ scan[s].pc = "write" /\ scan[s].ships = <<>>
  /\ scan' = [scan EXCEPT ![s].pc = "fetch", ![s].todo = Tail(scan[s].todo),
                          ![s].done = scan[s].done \cup {Head(scan[s].todo)}]
  /\ UNCHANGED <<outside, tally, store, lock, poll>>

\* Mutant of Unlocked: no rollback when the account fails.
KeptLock(s) == lock

Unlocked(s) == IF lock = s THEN None ELSE lock

\* The account fails: rollback, the cursor stays, mark_stale still runs.
ScanFails(s) ==
  /\ scan[s].pc \in {"fetch", "write"}
  /\ Fault
  /\ scan' = [scan EXCEPT ![s] = [NoScan EXCEPT !.pc = "mark", !.at = scan[s].at]]
  /\ lock' = Unlocked(s)
  /\ UNCHANGED <<outside, store, poll>>

\* A row or link this session did not read collides with its write.
ScanCollides(s) ==
  /\ scan[s].pc = "write" /\ scan[s].ships # <<>> /\ lock \in {None, s}
  /\ LET ship == Head(scan[s].ships)
         m == Head(scan[s].todo)
         t == View(s)
     IN /\ ~Noise(s)
        /\ \/ ~Intact(t, scan[s].draft, ship, m, scan[s].touched)
           \/ ~Unique(Applied(t, scan[s].draft, ship, m, scan[s].touched))
  /\ scan' = [scan EXCEPT ![s] = [NoScan EXCEPT !.pc = "mark", !.at = scan[s].at]]
  /\ lock' = Unlocked(s)
  /\ UNCHANGED <<outside, tally, store, poll>>

\* Mutant of Advanced: a failed fetch does not hold the cursor.
AdvancedAnyway(s) ==
  IF scan[s].newest = Never \/ scan[s].newest > scan[s].at THEN scan[s].at ELSE scan[s].newest

\* The cursor after the account: the newest message seen, at most now.
Advanced(s) ==
  IF scan[s].failed THEN cursor
  ELSE IF scan[s].newest = Never \/ scan[s].newest > scan[s].at THEN scan[s].at
  ELSE scan[s].newest

ScanCommit(s) ==
  /\ scan[s].pc = "fetch" /\ scan[s].todo = <<>>
  /\ lock \in {None, s}
  /\ db' = View(s)
  /\ cursor' = Advanced(s)
  /\ seen' = seen \cup scan[s].done
  /\ missed' = missed \cup (IF scan[s].failed THEN {} ELSE scan[s].left)
  /\ lock' = None
  /\ scan' = [scan EXCEPT ![s] = [NoScan EXCEPT !.pc = "mark", !.at = scan[s].at]]
  /\ UNCHANGED <<outside, tally, poll>>

\* mark_stale: the SELECT, and the UPDATE of what it found.
MarkRead(s) ==
  /\ scan[s].pc = "mark"
  /\ scan' = [scan EXCEPT ![s].pc = "stale", ![s].draft = db]
  /\ UNCHANGED <<outside, tally, store, lock, poll>>

Silent(s) ==
  {p \in Live(scan[s].draft) :
     LET row == scan[s].draft.rows[p]
         last == IF row.last = Never THEN row.made ELSE row.last
     IN /\ ~row.archived /\ row.status \notin Terminal \cup {"stale"}
        /\ last < scan[s].at - STALE_DAYS}

MarkWrite(s) ==
  /\ scan[s].pc = "stale"
  /\ \/ Silent(s) = {} /\ UNCHANGED db
     \/ /\ Silent(s) # {} /\ lock = None
        /\ db' = IF Silent(s) \subseteq Live(db)
                 THEN [db EXCEPT !.rows = [p \in Id |->
                   IF p \in Silent(s) THEN [db.rows[p] EXCEPT !.status = "stale"] ELSE db.rows[p]]]
                 ELSE db
  /\ scan' = [scan EXCEPT ![s] = NoScan]
  /\ UNCHANGED <<outside, tally, cursor, seen, missed, lock, poll>>

MarkFails(s) ==
  /\ scan[s].pc = "stale" /\ Silent(s) # {}
  /\ Fault
  /\ scan' = [scan EXCEPT ![s] = NoScan]
  /\ UNCHANGED <<outside, store, lock, poll>>

-----------------------------------------------------------------------------
(* poll.refresh_due *)

\* _is_due and the SELECT's conditions.
Due(p) ==
  LET row == db.rows[p]
  IN /\ row.live /\ row.carrier = Polled /\ row.number # None /\ ~row.archived
     /\ row.next <= now + DUE_TOLERANCE
     /\ row.status # "returned"
     /\ row.status = "delivered" => now - row.delivered <= STOP_AFTER

\* Longest unchecked first; Never sorts before any time, as NULL does.
InOrder(q) ==
  \A i, j \in DOMAIN q : i < j =>
    \/ db.rows[q[i]].next < db.rows[q[j]].next
    \/ db.rows[q[i]].next = db.rows[q[j]].next /\ q[i] < q[j]

PollBegin ==
  /\ up /\ poll.pc = "idle"
  /\ \E q \in [1 .. Cardinality({p \in Id : Due(p)}) -> {p \in Id : Due(p)}] :
       /\ q # <<>> /\ InOrder(q)
       /\ poll' = [pc |-> "track", at |-> now, todo |-> q, snap |-> db.rows[q[1]], fails |-> 0]
  /\ UNCHANGED <<outside, tally, store, lock, scan>>

\* session.get of the next row; one that is gone is skipped.
PollGet ==
  /\ poll.pc = "get"
  /\ poll' = IF poll.todo = <<>> THEN NoPoll
             ELSE IF Head(poll.todo) \in Live(db)
             THEN [poll EXCEPT !.pc = "track", !.snap = db.rows[Head(poll.todo)]]
             ELSE [poll EXCEPT !.todo = Tail(poll.todo)]
  /\ UNCHANGED <<outside, tally, store, lock, scan>>

Written(row) == [db.rows EXCEPT ![Head(poll.todo)] = Flushed(db.rows[Head(poll.todo)], poll.snap, row)]

Tracking == poll.pc = "track" /\ lock = None /\ Head(poll.todo) \in Live(db)

\* The row read is of the polled carrier: its id has not passed to another's.
Adapted == poll.snap.carrier = Polled

\* apply_carrier_result and the row's commit.
PollAnswered ==
  /\ Tracking /\ Adapted
  /\ \E status \in CarrierStatuses, at \in 0 .. now :
       db' = [rows |-> Written([Moved(poll.snap, status, at, "carrier")
                                  EXCEPT !.next = poll.at + INTERVAL]),
              events |-> db.events \cup {[package |-> Head(poll.todo), status |-> status,
                                          at |-> at, source |-> "carrier"]},
              links |-> db.links]
  /\ poll' = [poll EXCEPT !.pc = "get", !.todo = Tail(poll.todo), !.fails = 0]
  /\ UNCHANGED <<outside, tally, cursor, seen, missed, lock, scan>>

\* The number is not known yet: after the rollback the row is read again.
PollNotFound ==
  /\ Tracking /\ Adapted
  /\ db' = [db EXCEPT !.rows[Head(poll.todo)].next = poll.at + BACKOFF]
  /\ poll' = [poll EXCEPT !.pc = "get", !.todo = Tail(poll.todo), !.fails = 0]
  /\ UNCHANGED <<outside, tally, cursor, seen, missed, lock, scan>>

\* Any other failure, a carrier without an adapter among them; the carrier is given
\* up after MAX_FAILURES in a row.
PollFails ==
  /\ Tracking
  /\ IF Adapted THEN Fault ELSE UNCHANGED tally
  /\ db' = [db EXCEPT !.rows[Head(poll.todo)].next = poll.at + INTERVAL]
  /\ poll' = IF poll.fails + 1 >= MAX_FAILURES THEN NoPoll
             ELSE [poll EXCEPT !.pc = "get", !.todo = Tail(poll.todo), !.fails = poll.fails + 1]
  /\ UNCHANGED <<outside, cursor, seen, missed, lock, scan>>

\* Rate limit or refused credentials: the carrier is given up, next_check_at stays.
PollStops ==
  /\ Tracking /\ Adapted /\ Fault
  /\ poll' = NoPoll
  /\ UNCHANGED <<outside, store, lock, scan>>

\* An exception escapes refresh_due: the row was deleted during track() and
\* session.get(...) is None, or the error's own commit finds the database locked.
PollRaises ==
  /\ poll.pc = "track"
  /\ \/ Head(poll.todo) \notin Live(db) /\ UNCHANGED tally
     \/ lock # None /\ Fault
  /\ poll' = NoPoll
  /\ UNCHANGED <<outside, store, lock, scan>>

-----------------------------------------------------------------------------
(* The operator, and the process *)

Operator(op) ==
  /\ up /\ op \in Ops /\ lock = None /\ tally.ops < MaxOps
  /\ tally' = [tally EXCEPT !.ops = tally.ops + 1]
  /\ UNCHANGED <<outside, cursor, seen, missed, lock, scan, poll>>

\* POST /packages: an existing number is a 409.
AddManual ==
  /\ Operator("add")
  /\ \E c \in Carriers, n \in Numbers :
       /\ WithNumber(db, c, n) = {} /\ NewIds(db) # {}
       /\ db' = [db EXCEPT !.rows = [p \in Id |->
            IF p \in NewIds(db) THEN Created(c, n, None, "manual") ELSE db.rows[p]]]

\* PATCH /packages/{id}
Archive ==
  /\ Operator("archive")
  /\ \E p \in Live(db) : db' = [db EXCEPT !.rows[p].archived = ~db.rows[p].archived]

\* Mutant of Erased: the email links stay.
ErasedRow(p) ==
  [rows |-> [db.rows EXCEPT ![p] = NoRow],
   events |-> {e \in db.events : e.package # p},
   links |-> db.links]

Erased(p) ==
  [rows |-> [db.rows EXCEPT ![p] = NoRow],
   events |-> {e \in db.events : e.package # p},
   links |-> {l \in db.links : l.package # p}]

\* DELETE /packages/{id}
Delete == Operator("delete") /\ \E p \in Live(db) : db' = Erased(p)

\* SQLite rolls an open transaction back.
Crash ==
  /\ up /\ tally.crashes < MaxCrashes
  /\ up' = FALSE
  /\ tally' = [tally EXCEPT !.crashes = tally.crashes + 1]
  /\ lock' = None
  /\ scan' = [s \in Scanners |-> NoScan]
  /\ poll' = NoPoll
  /\ UNCHANGED <<now, mailbox, store>>

Restart ==
  /\ ~up /\ up' = TRUE
  /\ UNCHANGED <<now, mailbox, tally, store, lock, scan, poll>>

ScanStep(s) ==
  \/ ScanBegin(s) \/ Fetch(s) \/ ScanWrite(s) \/ ScanNext(s) \/ ScanCollides(s)
  \/ ScanCommit(s) \/ MarkRead(s) \/ MarkWrite(s)

ScanFault(s) == FetchFails(s) \/ ScanFails(s) \/ MarkFails(s)

PollStep == PollBegin \/ PollGet \/ PollAnswered \/ PollNotFound \/ PollFails \/ PollStops \/ PollRaises

Next ==
  \/ Tick \/ Arrive
  \/ \E s \in Scanners : ScanStep(s) \/ ScanFault(s)
  \/ PollStep
  \/ AddManual \/ Archive \/ Delete
  \/ Crash \/ Restart

Spec == Init /\ [][Next]_vars

\* The cron starts scans for ever, a running one goes on, the container restarts.
Fairness == WF_vars(Restart) /\ \A s \in Scanners : WF_vars(ScanStep(s))

FairSpec == Spec /\ Fairness

-----------------------------------------------------------------------------
(* Properties *)

\* Every variable keeps its type, and only a session at work holds the lock.
TypeOK ==
  /\ now \in Nat /\ up \in BOOLEAN
  /\ tally \in [ops : Nat, faults : Nat, crashes : Nat]
  /\ mailbox \in Seq(Mail)
  /\ db \in Tables
  /\ cursor \in Int
  /\ lock \in Scanners \cup {None}
  /\ scan \in [Scanners -> Scan]
  /\ poll \in Poll
  /\ seen \subseteq Nat /\ missed \subseteq Nat
  /\ lock # None => scan[lock].pc \in {"fetch", "write"}

\* No event or email link outlives its package, however a delete falls between
\* a scan's or a poll's read and its write (ids are reused by the next package).
NoOrphans ==
  \A x \in db.events \cup db.links : x.package \in Live(db)

\* The identity of packages (Package docstring): one row per carrier and number,
\* one numberless row per order and carrier, whatever two scans, an upgrade, the
\* poll and the operator do between one another's reads and writes.
OneRowPerParcel ==
  \A p, q \in Live(db) :
    /\ db.rows[p].carrier = db.rows[q].carrier
    /\ db.rows[p].number = db.rows[q].number
    /\ db.rows[p].number = None => db.rows[p].order = db.rows[q].order
    => p = q

\* The step writes on the strength of a read that was out of date by then.
Torn ==
  \/ poll' # poll /\ poll.pc = "track" /\ poll.snap # db.rows[Head(poll.todo)]
  \/ \E s \in Scanners :
       /\ scan'[s] # scan[s]
       /\ scan[s].torn \/ (scan[s].pc = "stale" /\ scan[s].draft # db)

\* A terminal status stays and a rank is lost only through an exception or
\* staleness, late mail and old carrier events included, unless the writer's read
\* was out of date (pipeline/packages/__init__.py "Ranking rules").
StatusForward ==
  [][\A p \in Live(db) \cap Live(db') :
       LET old == db.rows[p].status
           new == db'.rows[p].status
       IN \/ new = old \/ Torn
          \/ old \notin Terminal /\ (old \in Ranked /\ new \in Ranked =>
               \/ Rank[new] > Rank[old]
               \/ \E e \in db'.events : e.package = p /\ e.status = "exception")]_vars

\* The next scan's window never starts after a mail no scan has processed, unless
\* it came before the first look-back or fell to the page cap, for failing
\* fetches, failing accounts and overlapping scans (scan.py docstring).
NoMailSkipped ==
  \A m \in DOMAIN mailbox :
    mailbox[m].at < cursor - OVERLAP => m \in seen \cup missed

\* Every mail is processed in the end, after faults, collisions and a crash.
MailIsProcessed ==
  \A m \in 1 .. MaxMails : m \in DOMAIN mailbox ~> m \in seen

=============================================================================

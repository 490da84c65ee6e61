--------------------------- MODULE PackagesProofs ---------------------------
(* Theorems about Packages, for every set of numbers, orders, scanners and   *)
(* mail contents and every interval, cap and bound its assumptions allow.    *)
EXTENDS Packages, FiniteSetTheorems, SequenceTheorems, TLAPS

-----------------------------------------------------------------------------
(* The inductive invariant. *)

\* Every row has a number or an order to go by.
Named(row) == row.number # None \/ row.order # None

\* One version of the tables: what NoOrphans and OneRowPerParcel say of db.
Sound(t) ==
  /\ \A x \in t.events \cup t.links : x.package \in Live(t)
  /\ Unique(t)
  /\ \A p \in Live(t) : Named(t.rows[p])

\* A running scan's queue holds messages of the mailbox, the current one included.
Queued(s) ==
  /\ \A i \in DOMAIN scan[s].todo : scan[s].todo[i] \in DOMAIN mailbox
  /\ scan[s].pc = "write" => scan[s].todo # <<>>

IInv ==
  /\ TypeOK
  /\ Sound(db)
  /\ lock # None => Sound(scan[lock].draft)
  /\ \A s \in Scanners : Queued(s)
  /\ poll.pc = "track" => poll.todo # <<>>

-----------------------------------------------------------------------------
(* Rows and tables. *)

LEMMA NoRowTyped == NoRow \in Row
BY SetAssumption DEF NoRow, Row, Status, Ranked, Never

LEMMA EmptyTyped == Empty \in Tables
BY NoRowTyped DEF Empty, Tables

LEMMA NoScanTyped == NoScan \in Scan
BY EmptyTyped DEF NoScan, Scan, Never

LEMMA NoPollTyped == NoPoll \in Poll
BY NoRowTyped DEF NoPoll, Poll

\* Moved keeps a row a row, and touches neither its identity nor its existence.
LEMMA MovedRow ==
  ASSUME NEW row \in Row, NEW status \in Status, NEW at \in Nat, NEW source \in {"email", "carrier"}
  PROVE  /\ Moved(row, status, at, source) \in Row
         /\ Moved(row, status, at, source).live = row.live
         /\ Moved(row, status, at, source).number = row.number
         /\ Moved(row, status, at, source).order = row.order
         /\ Moved(row, status, at, source).carrier = row.carrier
<1> DEFINE changed == CanTransition(row.status, status)
           st == IF changed THEN status ELSE row.status
           src == IF changed THEN source ELSE row.source
           del == IF changed /\ status = "delivered" THEN at ELSE row.delivered
           last == IF at > row.last THEN at ELSE row.last
<1>1. Moved(row, status, at, source) =
        [row EXCEPT !.status = st, !.source = src, !.delivered = del, !.last = last]
  BY DEF Moved, Row
<1>2. st \in Status /\ src \in {"email", "carrier", "manual"} /\ del \in Int /\ last \in Int
  BY DEF Row
<1> HIDE DEF changed, st, src, del, last
<1>3. row \in Row
  OBVIOUS
<1> DEFINE new == [row EXCEPT !.status = st, !.source = src, !.delivered = del, !.last = last]
<1>4. new \in Row /\ new.live = row.live /\ new.number = row.number /\ new.order = row.order /\ new.carrier = row.carrier
  BY ONLY <1>2, <1>3 DEF Row
<1> HIDE DEF new
<1>5. Moved(row, status, at, source) = new
  BY <1>1 DEF new
<1> QED BY ONLY <1>4, <1>5

\* An update sets a number or an order, never clears one.
Names(read, new) ==
  /\ new.number # read.number => new.number # None
  /\ new.order # read.order => new.order # None

\* A flushed row is a row; what the session left alone is the stored row's.
LEMMA FlushedRow ==
  ASSUME NEW current \in Row, NEW read \in Row, NEW new \in Row
  PROVE  /\ Flushed(current, read, new) \in Row
         /\ new.live = read.live => Flushed(current, read, new).live = current.live
         /\ new.number = read.number => Flushed(current, read, new).number = current.number
         /\ new.order = read.order => Flushed(current, read, new).order = current.order
         /\ new.carrier = read.carrier => Flushed(current, read, new).carrier = current.carrier
         /\ Named(current) /\ Names(read, new) => Named(Flushed(current, read, new))
<1> DEFINE f == [c \in DOMAIN current |-> IF new[c] # read[c] THEN new[c] ELSE current[c]]
           Cols == {"live", "carrier", "number", "order", "status", "source", "delivered",
                    "last", "next", "archived", "made"}
<1>1. DOMAIN current = Cols
  BY DEF Row
<1>2. \A c \in Cols : f[c] = IF new[c] # read[c] THEN new[c] ELSE current[c]
  BY <1>1
<1>3. DOMAIN f = Cols
  BY <1>1
<1>4. f = [c \in Cols |-> f[c]]
  BY <1>3
<1>5. f \in Row
  BY <1>2, <1>4 DEF Row
<1> QED BY <1>2, <1>5 DEF Flushed, Named, Names

LEMMA IdentifiedRow ==
  ASSUME NEW row \in Row, NEW ship \in Shipment
  PROVE  /\ Identified(row, ship) \in Row
         /\ Identified(row, ship).live = row.live
         /\ Names(row, Identified(row, ship))
<1> DEFINE upgraded == row.number = None /\ ship.number # None
           carrier == IF upgraded THEN ship.carrier ELSE row.carrier
           number == IF upgraded THEN ship.number ELSE row.number
           order == IF row.order = None THEN ship.order ELSE row.order
           new == [row EXCEPT !.carrier = carrier, !.number = number, !.order = order]
<1>1. /\ carrier \in Carriers /\ number \in Numbers \cup {None} /\ order \in Orders \cup {None}
      /\ number # row.number => number # None
      /\ order # row.order => order # None
  BY DEF Row, Shipment
<1> HIDE DEF carrier, number, order
<1>2. new \in Row /\ new.live = row.live /\ new.number = number /\ new.order = order
  BY <1>1 DEF Row
<1>3. Identified(row, ship) = new
  BY DEF Identified, carrier, number, order
<1> HIDE DEF new
<1> QED BY <1>1, <1>2, <1>3 DEF Names

\* A created row holds what its shipment says.
LEMMA CreatedRow ==
  ASSUME NEW ship \in Shipment, NEW source \in {"email", "manual"}, now \in Nat
  PROVE  LET row == Created(ship.carrier, ship.number, ship.order, source)
         IN /\ row \in Row /\ row.live = TRUE
            /\ row.carrier = ship.carrier /\ row.number = ship.number /\ row.order = ship.order
<1> DEFINE carrier == ship.carrier
           number == ship.number
           order == ship.order
           live == TRUE
           new == [NoRow EXCEPT !.live = live, !.carrier = carrier, !.number = number,
                                !.order = order, !.source = source, !.made = now]
<1>1. /\ carrier \in Carriers /\ number \in Numbers \cup {None} /\ order \in Orders \cup {None}
      /\ now \in Int /\ source \in {"email", "carrier", "manual"} /\ live \in BOOLEAN
  BY DEF Shipment
<1>2. Created(carrier, number, order, source) = new
  BY DEF Created
<1> HIDE DEF carrier, number, order, live
<1>3. /\ new \in Row /\ new.live = live
      /\ new.carrier = carrier /\ new.number = number /\ new.order = order
  BY <1>1, NoRowTyped DEF Row
<1> HIDE DEF new
<1> QED BY <1>2, <1>3 DEF carrier, number, order, live

LEMMA MatchesIds ==
  ASSUME NEW t, NEW ship
  PROVE  Matches(t, ship) \subseteq Live(t) /\ Live(t) \subseteq Id
BY DEF Matches, OfOrder, WithNumber, Live

\* apply_email leaves well-formed tables without orphans: whatever it records is
\* of a row it has found alive or created.
LEMMA AppliedSound ==
  ASSUME mailbox \in Seq(Mail), now \in Nat, NEW t \in Tables, NEW read \in Tables,
         NEW ship \in Shipment, NEW m \in DOMAIN mailbox, NEW touched,
         \A x \in t.events \cup t.links : x.package \in Live(t),
         \A p \in Live(t) : Named(t.rows[p]),
         ship.number # None \/ ship.order # None,
         Matches(read, ship) \subseteq Live(t)
  PROVE  /\ Applied(t, read, ship, m, touched) \in Tables
         /\ \A p \in Live(Applied(t, read, ship, m, touched)) :
              Named(Applied(t, read, ship, m, touched).rows[p])
         /\ \A x \in Applied(t, read, ship, m, touched).events
                  \cup Applied(t, read, ship, m, touched).links :
              x.package \in Live(Applied(t, read, ship, m, touched))
<1> DEFINE mail == mailbox[m]
           found == Matches(read, ship)
           ids == IF found = {} THEN NewIds(t) ELSE found
           Before(p) == IF found = {} THEN Created(ship.carrier, ship.number, ship.order, "email")
                        ELSE Identified(read.rows[p], ship)
           After(p) == IF mail.signal = None \/ p \in touched THEN Before(p)
                       ELSE Moved(Before(p), mail.signal, mail.at, "email")
           RowOf(p) == IF p \notin ids THEN t.rows[p]
                       ELSE IF found = {} THEN After(p)
                       ELSE Flushed(t.rows[p], read.rows[p], After(p))
           new == Applied(t, read, ship, m, touched)
<1>1. mail \in Mail
  BY ElementOfSeq, LenProperties
<1>2. mail.signal \in Status \cup {None} /\ mail.at \in Nat
  BY <1>1 DEF Mail
<1>3. ids \subseteq Id
  BY MatchesIds DEF NewIds
<1>4. /\ ship.carrier \in Carriers
      /\ ship.number \in Numbers \cup {None} /\ ship.order \in Orders \cup {None}
  BY DEF Shipment
<1>5. \A p \in Id : t.rows[p] \in Row /\ read.rows[p] \in Row
  BY DEF Tables
<1>6. \A p \in ids : Before(p) \in Row /\ (found = {} => Before(p).live)
                   /\ (found = {} => Named(Before(p)))
                   /\ (found # {} => Before(p).live = read.rows[p].live
                                     /\ Names(read.rows[p], Before(p)))
  <2> SUFFICES ASSUME NEW p \in ids
               PROVE  /\ Before(p) \in Row
                      /\ found = {} => Before(p).live /\ Named(Before(p))
                      /\ found # {} => Before(p).live = read.rows[p].live /\ Names(read.rows[p], Before(p))
    OBVIOUS
  <2>1. CASE found = {}
    <3> DEFINE row == Created(ship.carrier, ship.number, ship.order, "email")
    <3>1. row \in Row /\ row.live = TRUE /\ row.number = ship.number /\ row.order = ship.order
      BY CreatedRow
    <3>2. Before(p) = row
      BY <2>1
    <3> HIDE DEF row, Before, found, ids
    <3> QED BY <2>1, <3>1, <3>2 DEF Named
  <2>2. CASE found # {}
    <3>1. Before(p) = Identified(read.rows[p], ship) /\ read.rows[p] \in Row
      BY <2>2, <1>3, <1>5
    <3> HIDE DEF Before, found, ids
    <3> QED BY <2>2, <3>1, IdentifiedRow
  <2> QED BY <2>1, <2>2
<1>7. \A p \in ids : /\ After(p) \in Row /\ After(p).live = Before(p).live
                     /\ After(p).number = Before(p).number /\ After(p).order = Before(p).order
  <2> SUFFICES ASSUME NEW p \in ids
               PROVE  /\ After(p) \in Row /\ After(p).live = Before(p).live
                      /\ After(p).number = Before(p).number /\ After(p).order = Before(p).order
    OBVIOUS
  <2>1. Before(p) \in Row
    BY <1>6
  <2> HIDE DEF Before, mail, ids
  <2> QED BY <1>2, <2>1, MovedRow
<1>8. \A p \in Id : /\ RowOf(p) \in Row
                    /\ (p \in Live(t) \cup ids => RowOf(p).live)
                    /\ (RowOf(p).live => Named(RowOf(p)))
  <2> TAKE p \in Id
  <2>1. CASE p \notin ids
    BY <2>1, <1>5 DEF Live
  <2>2. CASE p \in ids /\ found = {}
    <3> HIDE DEF After, Before, ids, found
    <3> QED BY <2>2, <1>6, <1>7 DEF Named
  <2>3. CASE p \in ids /\ found # {}
    <3>1. t.rows[p].live /\ Named(t.rows[p])
      BY <2>3 DEF Live
    <3>2. Names(read.rows[p], After(p)) /\ After(p).live = read.rows[p].live /\ After(p) \in Row
      <4> HIDE DEF After, Before, ids, found
      <4> QED BY <2>3, <1>6, <1>7 DEF Names
    <3> HIDE DEF After, Before, ids, found
    <3> QED BY <2>3, <3>1, <3>2, <1>5, FlushedRow
  <2> QED BY <2>1, <2>2, <2>3
<1>9. /\ new.rows = [p \in Id |-> RowOf(p)]
      /\ new.events = t.events \cup Events(ids \ touched, m)
      /\ new.links = t.links \cup Links(ids \ touched, m)
      /\ new = [rows |-> new.rows, events |-> new.events, links |-> new.links]
  BY DEF Applied
<1> HIDE DEF RowOf, new
<1>10. new.rows \in [Id -> Row] /\ Live(t) \cup ids \subseteq Live(new)
  BY <1>3, <1>8, <1>9 DEF Live
<1>11. /\ Events(ids \ touched, m) \subseteq Event
       /\ \A x \in Events(ids \ touched, m) : x.package \in ids
  BY <1>2, <1>3 DEF Events, Event
<1>12. /\ Links(ids \ touched, m) \subseteq Link
       /\ \A x \in Links(ids \ touched, m) : x.package \in ids
  <2>1. m \in Nat
    BY LenProperties
  <2> QED BY <2>1, <1>3 DEF Links, Link
<1>13. new \in Tables
  BY <1>9, <1>10, <1>11, <1>12 DEF Tables
<1>14. \A x \in new.events \cup new.links : x.package \in Live(new)
  BY <1>9, <1>10, <1>11, <1>12
<1>15. \A p \in Live(new) : Named(new.rows[p])
  BY <1>8, <1>9 DEF Live
<1> QED BY <1>13, <1>14, <1>15 DEF new

-----------------------------------------------------------------------------
(* Scan records. *)

LEMMA ScanFields ==
  ASSUME NEW r \in Scan
  PROVE  /\ r.at \in Nat /\ r.todo \in Seq(Nat) /\ r.newest \in Int /\ r.failed \in BOOLEAN
         /\ r.draft \in Tables /\ r.torn \in BOOLEAN /\ r.ships \in Seq(Shipment)
         /\ r.touched \subseteq Id /\ r.done \subseteq Nat /\ r.left \subseteq Nat
BY DEF Scan

\* What a step of one scanner must establish.
LEMMA ScanStepKeeps ==
  ASSUME IInv, NEW s \in Scanners, NEW r \in Scan, scan' = [scan EXCEPT ![s] = r],
         UNCHANGED <<now, up, mailbox, poll>>,
         tally' \in [ops : Nat, faults : Nat, crashes : Nat],
         db' \in Tables, Sound(db'), cursor' \in Int, seen' \subseteq Nat, missed' \subseteq Nat,
         \/ lock' = lock /\ lock # s
         \/ lock' = None
         \/ lock' = s /\ Sound(r.draft) /\ r.pc \in {"fetch", "write"},
         \A i \in DOMAIN r.todo : r.todo[i] \in DOMAIN mailbox,
         r.pc = "write" => r.todo # <<>>
  PROVE  IInv'
<1>1. /\ scan \in [Scanners -> Scan] /\ lock \in Scanners \cup {None} /\ None \notin Scanners
      /\ lock # None => scan[lock].pc \in {"fetch", "write"} /\ Sound(scan[lock].draft)
  BY SetAssumption DEF IInv, TypeOK
<1>2. scan' \in [Scanners -> Scan] /\ scan'[s] = r /\ \A u \in Scanners \ {s} : scan'[u] = scan[u]
  BY <1>1
<1>3. /\ lock' \in Scanners \cup {None}
      /\ lock' # None => scan'[lock'].pc \in {"fetch", "write"} /\ Sound(scan'[lock'].draft)
  BY <1>1, <1>2
<1>4. TypeOK'
  BY <1>2, <1>3 DEF IInv, TypeOK
<1>5. (lock # None => Sound(scan[lock].draft))'
  BY <1>3
<1>6. (\A u \in Scanners : Queued(u))'
  BY <1>2 DEF IInv, Queued
<1> QED BY <1>4, <1>5, <1>6 DEF IInv

\* What a step that leaves the scanners alone must establish.
LEMMA OtherStepKeeps ==
  ASSUME IInv, UNCHANGED <<now, up, mailbox, cursor, seen, missed, lock, scan>>,
         tally' \in [ops : Nat, faults : Nat, crashes : Nat],
         db' \in Tables, Sound(db'),
         poll' \in Poll, poll'.pc = "track" => poll'.todo # <<>>
  PROVE  IInv'
BY DEF IInv, TypeOK, Queued

LEMMA FaultTyped ==
  ASSUME IInv, Fault
  PROVE  tally' \in [ops : Nat, faults : Nat, crashes : Nat]
BY DEF IInv, TypeOK, Fault

-----------------------------------------------------------------------------
(* The scan. *)

LEMMA ListedQueue ==
  ASSUME IInv
  PROVE  Listed \in Seq(Nat) /\ \A i \in DOMAIN Listed : Listed[i] \in DOMAIN mailbox
<1> DEFINE H == {m \in DOMAIN mailbox : mailbox[m].at >= Since}
           hits == Cardinality(H)
           n == IF hits < PageCap THEN hits ELSE PageCap
<1>1. DOMAIN mailbox = 1 .. Len(mailbox) /\ Len(mailbox) \in Nat
  BY LenProperties DEF IInv, TypeOK
<1>2. IsFiniteSet(1 .. Len(mailbox)) /\ Cardinality(1 .. Len(mailbox)) = Len(mailbox)
  <2>1. ASSUME NEW k \in Nat PROVE IsFiniteSet(1 .. k) /\ Cardinality(1 .. k) = k
    <3>1. 1 \in Int /\ k \in Int
      OBVIOUS
    <3>2. IsFiniteSet(1 .. k) /\ Cardinality(1 .. k) = IF 1 > k THEN 0 ELSE k - 1 + 1
      BY ONLY <3>1, FS_Interval
    <3> QED BY <3>2
  <2> QED BY <1>1, <2>1
<1>3. hits \in Nat /\ hits <= Len(mailbox)
  BY <1>1, <1>2, FS_Subset, FS_CardinalityType
<1> HIDE DEF H, hits
<1>4. n \in Nat /\ n <= Len(mailbox)
  BY <1>1, <1>3, LimitAssumption
<1>5. Listed = [i \in 1 .. n |-> Len(mailbox) + 1 - i]
  BY DEF Listed, H, hits
<1> HIDE DEF n
<1>6. \A i \in 1 .. n : Len(mailbox) + 1 - i \in 1 .. Len(mailbox)
  BY <1>1, <1>4
<1>7. Listed \in Seq(Nat)
  <2>1. Listed \in [1 .. n -> Nat]
    BY <1>1, <1>5, <1>6
  <2> QED BY <2>1, <1>4, SeqDef
<1> QED BY <1>1, <1>5, <1>6, <1>7

LEMMA TailQueue ==
  ASSUME NEW q \in Seq(Nat), q # <<>>, NEW D, \A i \in DOMAIN q : q[i] \in D
  PROVE  /\ Tail(q) \in Seq(Nat) /\ Head(q) \in D /\ Head(q) \in Nat
         /\ \A i \in DOMAIN Tail(q) : Tail(q)[i] \in D
BY HeadTailProperties, LenProperties, EmptySeq

LEMMA Current ==
  ASSUME IInv, NEW s \in Scanners
  PROVE  /\ scan[s] \in Scan /\ db \in Tables /\ Sound(db) /\ cursor \in Int /\ seen \subseteq Nat /\ missed \subseteq Nat
         /\ now \in Nat /\ mailbox \in Seq(Mail)
         /\ tally \in [ops : Nat, faults : Nat, crashes : Nat]
         /\ lock \in Scanners \cup {None}
         /\ lock = s => scan[s].pc \in {"fetch", "write"} /\ Sound(scan[s].draft)
         /\ \A i \in DOMAIN scan[s].todo : scan[s].todo[i] \in DOMAIN mailbox
         /\ scan[s].pc = "write" => scan[s].todo # <<>>
         /\ s # None
BY SetAssumption DEF IInv, TypeOK, Queued

\* A step that writes nothing.
LEMMA ScanQuiet ==
  ASSUME IInv, NEW s \in Scanners, NEW r \in Scan, scan' = [scan EXCEPT ![s] = r],
         UNCHANGED <<outside, store, lock, poll>>,
         tally' \in [ops : Nat, faults : Nat, crashes : Nat],
         lock = s => r.draft = scan[s].draft /\ r.pc \in {"fetch", "write"},
         \A i \in DOMAIN r.todo : r.todo[i] \in DOMAIN mailbox,
         r.pc = "write" => r.todo # <<>>
  PROVE  IInv'
<1>1. UNCHANGED <<now, up, mailbox, poll, db, cursor, seen, missed, lock>>
  BY DEF outside, store
<1>2. db' \in Tables /\ Sound(db') /\ cursor' \in Int /\ seen' \subseteq Nat /\ missed' \subseteq Nat
  BY <1>1, Current
<1>3. \/ lock' = lock /\ lock # s
      \/ lock' = s /\ Sound(r.draft) /\ r.pc \in {"fetch", "write"}
  BY <1>1, Current
<1> QED BY <1>1, <1>2, <1>3, ScanStepKeeps

\* A step that ends the account, whose session gives up the lock.
LEMMA ScanEnds ==
  ASSUME IInv, NEW s \in Scanners,
         scan' = [scan EXCEPT ![s] = [NoScan EXCEPT !.pc = "mark", !.at = scan[s].at]],
         UNCHANGED <<now, up, mailbox, poll>>,
         tally' \in [ops : Nat, faults : Nat, crashes : Nat],
         db' \in Tables, Sound(db'), cursor' \in Int, seen' \subseteq Nat, missed' \subseteq Nat,
         lock' = None \/ lock' = Unlocked(s)
  PROVE  IInv'
<1> DEFINE r == [NoScan EXCEPT !.pc = "mark", !.at = scan[s].at]
<1>1. r \in Scan /\ r.pc = "mark" /\ r.todo = <<>>
  <2>1. scan[s].at \in Nat /\ NoScan.todo = <<>>
    BY Current, ScanFields DEF NoScan
  <2> QED BY <2>1, NoScanTyped DEF Scan
<1>2. \/ lock' = lock /\ lock # s
      \/ lock' = None
  BY DEF Unlocked
<1> HIDE DEF r
<1>3. scan' = [scan EXCEPT ![s] = r]
  BY DEF r
<1>4. \A i \in DOMAIN r.todo : r.todo[i] \in DOMAIN mailbox
  BY <1>1
<1> QED BY <1>1, <1>2, <1>3, <1>4, ScanStepKeeps

LEMMA ScanBeginKeeps ==
  ASSUME IInv, NEW s \in Scanners, ScanBegin(s)
  PROVE  IInv'
<1> DEFINE r == [NoScan EXCEPT !.pc = "fetch", !.at = now, !.todo = Listed, !.left = Unlisted]
<1>1. Listed \in Seq(Nat) /\ \A i \in DOMAIN Listed : Listed[i] \in DOMAIN mailbox
  BY ListedQueue
<1>2. r \in Scan /\ r.pc = "fetch" /\ r.todo = Listed
  <2>1. Unlisted \subseteq Nat
    BY Current, LenProperties DEF Unlisted
  <2> QED BY <1>1, <2>1, Current, NoScanTyped DEF Scan
<1>3. lock # s
  BY Current DEF ScanBegin
<1>4. /\ scan' = [scan EXCEPT ![s] = r] /\ UNCHANGED <<outside, store, lock, poll>>
      /\ tally' \in [ops : Nat, faults : Nat, crashes : Nat]
  BY Current DEF ScanBegin
<1> HIDE DEF r
<1> QED BY <1>1, <1>2, <1>3, <1>4, ScanQuiet

LEMMA FetchFailsKeeps ==
  ASSUME IInv, NEW s \in Scanners, FetchFails(s)
  PROVE  IInv'
<1> DEFINE q == Tail(scan[s].todo)
<1>1. q \in Seq(Nat) /\ \A i \in DOMAIN q : q[i] \in DOMAIN mailbox
  BY Current, ScanFields, TailQueue DEF FetchFails
<1> HIDE DEF q
<1> DEFINE r == [scan[s] EXCEPT !.todo = q, !.failed = TRUE]
<1>2. r \in Scan /\ r.pc = "fetch" /\ r.todo = q /\ r.draft = scan[s].draft
  BY <1>1, Current DEF Scan, FetchFails
<1>3. /\ scan' = [scan EXCEPT ![s] = r] /\ UNCHANGED <<outside, store, lock, poll>>
      /\ tally' \in [ops : Nat, faults : Nat, crashes : Nat]
  BY FaultTyped DEF FetchFails, q
<1> HIDE DEF r
<1> QED BY <1>1, <1>2, <1>3, ScanQuiet

LEMMA ViewSound ==
  ASSUME IInv, NEW s \in Scanners
  PROVE  View(s) \in Tables /\ Sound(View(s))
BY Current, ScanFields DEF View

LEMMA FetchKeeps ==
  ASSUME IInv, NEW s \in Scanners, Fetch(s)
  PROVE  IInv'
<1> DEFINE m == Head(scan[s].todo)
           q == Tail(scan[s].todo)
           newest == IF mailbox[m].at > scan[s].newest THEN mailbox[m].at ELSE scan[s].newest
<1>1. /\ q \in Seq(Nat) /\ \A i \in DOMAIN q : q[i] \in DOMAIN mailbox
      /\ m \in DOMAIN mailbox /\ m \in Nat
  BY Current, ScanFields, TailQueue DEF Fetch
<1>2. mailbox[m] \in Mail
  BY <1>1, Current, ElementOfSeq, LenProperties
<1>3. newest \in Int /\ mailbox[m].ships \in Seq(Shipment)
  <2>1. scan[s].newest \in Int
    BY Current, ScanFields
  <2>2. mailbox[m].at \in Nat /\ mailbox[m].ships \in Seq(Shipment)
    BY <1>2 DEF Mail
  <2> QED BY ONLY <2>1, <2>2
<1>4. UNCHANGED <<outside, store, lock, poll>> /\ tally' \in [ops : Nat, faults : Nat, crashes : Nat]
  BY Current DEF Fetch
<1>5. CASE Known(View(s), m)
  <2> DEFINE r == [scan[s] EXCEPT !.todo = q, !.newest = newest, !.done = scan[s].done \cup {m}]
  <2>1. scan' = [scan EXCEPT ![s] = r] /\ scan[s].pc = "fetch"
    BY <1>5 DEF Fetch
  <2> HIDE DEF q, newest, m
  <2>2. r \in Scan /\ r.pc = "fetch" /\ r.todo = q /\ r.draft = scan[s].draft
    BY <1>1, <1>3, <2>1, Current DEF Scan
  <2> HIDE DEF r
  <2> QED BY <1>1, <1>4, <2>1, <2>2, ScanQuiet
<1>6. CASE ~Known(View(s), m)
  <2> DEFINE ships == mailbox[m].ships
             draft == View(s)
             r == [scan[s] EXCEPT !.pc = "write", !.newest = newest, !.draft = draft,
                                  !.ships = ships, !.touched = {}]
  <2>1. scan' = [scan EXCEPT ![s] = r] /\ scan[s].todo # <<>>
    BY <1>6 DEF Fetch
  <2>2. draft \in Tables /\ (lock = s => draft = scan[s].draft)
    BY ViewSound DEF View
  <2> HIDE DEF draft, newest, ships
  <2>3. r \in Scan
    <3>1. scan[s] \in Scan /\ ships \in Seq(Shipment)
      BY <1>3, Current DEF ships
    <3> QED BY <1>3, <2>2, <3>1 DEF Scan
  <2>4. r.pc = "write" /\ r.todo = scan[s].todo /\ (lock = s => r.draft = scan[s].draft)
    BY <2>2, Current DEF Scan
  <2> HIDE DEF r
  <2>5. \A i \in DOMAIN r.todo : r.todo[i] \in DOMAIN mailbox
    BY <2>4, Current
  <2> QED BY <1>4, <2>1, <2>2, <2>3, <2>4, <2>5, ScanQuiet
<1> QED BY <1>5, <1>6

LEMMA ScanNextKeeps ==
  ASSUME IInv, NEW s \in Scanners, ScanNext(s)
  PROVE  IInv'
<1> DEFINE m == Head(scan[s].todo)
           q == Tail(scan[s].todo)
           r == [scan[s] EXCEPT !.pc = "fetch", !.todo = q, !.done = scan[s].done \cup {m}]
<1>1. q \in Seq(Nat) /\ (\A i \in DOMAIN q : q[i] \in DOMAIN mailbox) /\ m \in Nat
  BY Current, ScanFields, TailQueue DEF ScanNext
<1>2. /\ scan' = [scan EXCEPT ![s] = r] /\ UNCHANGED <<outside, store, lock, poll>>
      /\ tally' \in [ops : Nat, faults : Nat, crashes : Nat]
  BY Current DEF ScanNext
<1> HIDE DEF m, q
<1>3. r \in Scan /\ r.pc = "fetch" /\ r.todo = q /\ r.draft = scan[s].draft
  BY <1>1, Current DEF Scan
<1> HIDE DEF r
<1> QED BY <1>1, <1>2, <1>3, ScanQuiet

LEMMA ScanWriteKeeps ==
  ASSUME IInv, NEW s \in Scanners, ScanWrite(s)
  PROVE  IInv'
<1> DEFINE ship == Head(scan[s].ships)
           m == Head(scan[s].todo)
           read == scan[s].draft
           t == View(s)
           new == Applied(t, read, ship, m, scan[s].touched)
           rest == Tail(scan[s].ships)
<1>1. scan[s] \in Scan /\ scan[s].pc = "write" /\ scan[s].ships # <<>> /\ scan[s].todo # <<>>
  BY Current DEF ScanWrite
<1>2. ship \in Shipment /\ rest \in Seq(Shipment)
  BY <1>1, ScanFields, HeadTailProperties
<1>3. m \in DOMAIN mailbox /\ m \in Nat
  BY <1>1, Current, ScanFields, TailQueue
<1>4. UNCHANGED <<outside, store, poll>> /\ tally' \in [ops : Nat, faults : Nat, crashes : Nat]
  BY Current DEF ScanWrite
<1>5. CASE Noise(s)
  <2> DEFINE r == [scan[s] EXCEPT !.ships = rest]
  <2>1. scan' = [scan EXCEPT ![s] = r] /\ UNCHANGED lock
    BY <1>5 DEF ScanWrite
  <2> HIDE DEF rest
  <2>2. r \in Scan /\ r.pc = "write" /\ r.todo = scan[s].todo /\ r.draft = scan[s].draft
    BY <1>1, <1>2 DEF Scan
  <2> HIDE DEF r
  <2>3. \A i \in DOMAIN r.todo : r.todo[i] \in DOMAIN mailbox
    BY <2>2, Current
  <2> QED BY <1>1, <1>4, <2>1, <2>2, <2>3, ScanQuiet
<1>6. CASE ~Noise(s)
  <2> DEFINE torn == scan[s].torn \/ t # read
             touched == {p \in Id : [package |-> p, mail |-> m] \in new.links}
             r == [scan[s] EXCEPT !.ships = rest, !.draft = new, !.torn = torn, !.touched = touched]
  <2>1. /\ Intact(t, read, ship, m, scan[s].touched) /\ Unique(new) /\ lock' = s
        /\ scan' = [scan EXCEPT ![s] = r]
    BY <1>6 DEF ScanWrite
  <2>2. t \in Tables /\ read \in Tables /\ \A x \in t.events \cup t.links : x.package \in Live(t)
    BY <1>1, ScanFields, ViewSound DEF Sound
  <2>3. new \in Tables /\ Sound(new)
    <3>1. Matches(read, ship) \subseteq Live(t)
      BY <2>1 DEF Intact
    <3>2. mailbox \in Seq(Mail) /\ now \in Nat
      BY Current
    <3>3. ship.number # None \/ ship.order # None
      BY <1>6 DEF Noise
    <3>4. \A p \in Live(t) : Named(t.rows[p])
      BY ViewSound DEF Sound
    <3> HIDE DEF ship, m, read, t
    <3> QED BY <1>2, <1>3, <2>1, <2>2, <3>1, <3>2, <3>3, <3>4, AppliedSound DEF Sound
  <2>4. torn \in BOOLEAN /\ touched \in SUBSET Id
    BY <1>1, ScanFields
  <2> HIDE DEF rest, new, torn, touched
  <2>5. /\ r \in Scan /\ r.pc = "write" /\ r.todo = scan[s].todo /\ r.draft = new
    BY <1>1, <1>2, <2>3, <2>4 DEF Scan
  <2> HIDE DEF r
  <2>6. \A i \in DOMAIN r.todo : r.todo[i] \in DOMAIN mailbox
    BY <2>5, Current
  <2>7. UNCHANGED <<now, up, mailbox, poll, db, cursor, seen, missed>>
    BY <1>4 DEF outside, store
  <2>8. db' \in Tables /\ Sound(db') /\ cursor' \in Int /\ seen' \subseteq Nat /\ missed' \subseteq Nat
    BY <2>7, Current
  <2> QED BY <1>1, <1>4, <2>1, <2>3, <2>5, <2>6, <2>7, <2>8, ScanStepKeeps
<1> QED BY <1>5, <1>6

LEMMA ScanFailsKeeps ==
  ASSUME IInv, NEW s \in Scanners, ScanFails(s) \/ ScanCollides(s)
  PROVE  IInv'
<1>1. /\ scan' = [scan EXCEPT ![s] = [NoScan EXCEPT !.pc = "mark", !.at = scan[s].at]]
      /\ lock' = Unlocked(s) /\ UNCHANGED <<outside, store, poll>>
  BY DEF ScanFails, ScanCollides
<1>2. tally' \in [ops : Nat, faults : Nat, crashes : Nat]
  BY FaultTyped, Current DEF ScanFails, ScanCollides
<1>3. UNCHANGED <<now, up, mailbox, poll, db, cursor, seen, missed>>
  BY <1>1 DEF outside, store
<1>4. db' \in Tables /\ Sound(db') /\ cursor' \in Int /\ seen' \subseteq Nat /\ missed' \subseteq Nat
  BY <1>3, Current
<1> QED BY <1>1, <1>2, <1>3, <1>4, ScanEnds

LEMMA ScanCommitKeeps ==
  ASSUME IInv, NEW s \in Scanners, ScanCommit(s)
  PROVE  IInv'
<1>1. /\ scan' = [scan EXCEPT ![s] = [NoScan EXCEPT !.pc = "mark", !.at = scan[s].at]]
      /\ lock' = None /\ UNCHANGED <<now, up, mailbox, poll, tally>>
      /\ db' = View(s) /\ cursor' = Advanced(s) /\ seen' = seen \cup scan[s].done
      /\ missed' = missed \cup (IF scan[s].failed THEN {} ELSE scan[s].left)
  BY DEF ScanCommit, outside
<1>2. db' \in Tables /\ Sound(db')
  BY <1>1, ViewSound
<1>3. cursor' \in Int /\ seen' \subseteq Nat /\ missed' \subseteq Nat
  <2>1. scan[s].at \in Nat /\ scan[s].newest \in Int /\ scan[s].done \subseteq Nat /\ scan[s].left \subseteq Nat
    BY Current, ScanFields
  <2> QED BY <1>1, <2>1, Current DEF Advanced
<1>4. tally' \in [ops : Nat, faults : Nat, crashes : Nat]
  BY <1>1, Current
<1> QED BY <1>1, <1>2, <1>3, <1>4, ScanEnds

LEMMA MarkReadKeeps ==
  ASSUME IInv, NEW s \in Scanners, MarkRead(s)
  PROVE  IInv'
<1> DEFINE r == [scan[s] EXCEPT !.pc = "stale", !.draft = db]
<1>1. /\ scan' = [scan EXCEPT ![s] = r] /\ UNCHANGED <<outside, store, lock, poll>>
      /\ tally' \in [ops : Nat, faults : Nat, crashes : Nat]
  BY Current DEF MarkRead
<1>2. r \in Scan /\ r.pc = "stale" /\ r.todo = scan[s].todo
  BY Current DEF Scan
<1>3. lock # s
  BY Current DEF MarkRead
<1> HIDE DEF r
<1>4. \A i \in DOMAIN r.todo : r.todo[i] \in DOMAIN mailbox
  BY <1>2, Current
<1> QED BY <1>1, <1>2, <1>3, <1>4, ScanQuiet

\* Rewriting rows without touching their identity, and recording events of live
\* ones, leaves the tables sound.
LEMMA PatchSound ==
  ASSUME NEW t \in Tables, Sound(t), NEW rows \in [Id -> Row], NEW events \in SUBSET Event,
         \A p \in Id : /\ rows[p].live = t.rows[p].live
                       /\ rows[p].number = t.rows[p].number
                       /\ rows[p].order = t.rows[p].order /\ rows[p].carrier = t.rows[p].carrier,
         \A e \in events : e.package \in Live(t),
         NEW new, new.rows = rows, new.events = events, new.links = t.links,
         new = [rows |-> rows, events |-> events, links |-> t.links]
  PROVE  new \in Tables /\ Sound(new)
<1>1. new \in Tables
  BY DEF Tables
<1>2. Live(new) = Live(t)
  BY DEF Live
<1>3. Unique(new)
  BY <1>2 DEF Sound, Unique, SameOrder, SameNumber, Live
<1>4. \A p \in Live(new) : Named(new.rows[p])
  BY <1>2 DEF Sound, Named, Live
<1> QED BY <1>1, <1>2, <1>3, <1>4 DEF Sound

LEMMA TablesParts ==
  ASSUME NEW t \in Tables
  PROVE  /\ t = [rows |-> t.rows, events |-> t.events, links |-> t.links]
         /\ t.rows \in [Id -> Row] /\ t.events \subseteq Event /\ t.links \subseteq Link
BY DEF Tables

LEMMA MarkWriteKeeps ==
  ASSUME IInv, NEW s \in Scanners, MarkWrite(s) \/ MarkFails(s)
  PROVE  IInv'
<1>1. /\ scan' = [scan EXCEPT ![s] = NoScan] /\ UNCHANGED <<now, up, mailbox, poll, cursor, seen, missed, lock>>
      /\ lock # s
  BY Current DEF MarkWrite, MarkFails, outside, store
<1>2. tally' \in [ops : Nat, faults : Nat, crashes : Nat]
  BY FaultTyped, Current DEF MarkWrite, MarkFails
<1>3. db' \in Tables /\ Sound(db')
  <2> DEFINE rows == [p \in Id |-> IF p \in Silent(s) THEN [db.rows[p] EXCEPT !.status = "stale"]
                                   ELSE db.rows[p]]
  <2>1. db' = db \/ db' = [db EXCEPT !.rows = rows]
    BY DEF MarkWrite, MarkFails, store
  <2>2. CASE db' = db
    BY <2>2, Current
  <2>3. CASE db' = [db EXCEPT !.rows = rows]
    <3>1. db \in Tables /\ Sound(db)
      BY Current
    <3>2. \A p \in Id : db.rows[p] \in Row
      BY <3>1 DEF Tables
    <3>3. ASSUME NEW row \in Row
          PROVE  LET new == [row EXCEPT !.status = "stale"]
                 IN new \in Row /\ new.live = row.live /\ new.number = row.number /\ new.order = row.order /\ new.carrier = row.carrier
      BY DEF Row, Status, Side
    <3>4. rows \in [Id -> Row]
      BY <3>2, <3>3
    <3>5. \A p \in Id : /\ rows[p].live = db.rows[p].live
                        /\ rows[p].number = db.rows[p].number
                        /\ rows[p].order = db.rows[p].order /\ rows[p].carrier = db.rows[p].carrier
      BY <3>2, <3>3
    <3>6. \A e \in db.events : e.package \in Live(db)
      BY <3>1 DEF Sound
    <3> HIDE DEF rows
    <3>7. /\ db'.rows = rows /\ db'.events = db.events /\ db'.links = db.links
          /\ db' = [rows |-> rows, events |-> db.events, links |-> db.links]
      BY <2>3, <3>1, TablesParts
    <3>8. db.events \in SUBSET Event
      BY <3>1, TablesParts
    <3> QED BY ONLY <3>1, <3>4, <3>5, <3>6, <3>7, <3>8, PatchSound
  <2> QED BY <2>1, <2>2, <2>3
<1>4. cursor' \in Int /\ seen' \subseteq Nat /\ missed' \subseteq Nat
  BY <1>1, Current
<1>5. NoScan.pc = "idle" /\ \A i \in DOMAIN NoScan.todo : NoScan.todo[i] \in DOMAIN mailbox
  BY DEF NoScan
<1> QED BY <1>1, <1>2, <1>3, <1>4, <1>5, NoScanTyped, ScanStepKeeps

LEMMA ScanKeeps ==
  ASSUME IInv, NEW s \in Scanners, ScanStep(s) \/ ScanFault(s)
  PROVE  IInv'
BY ScanBeginKeeps, FetchKeeps, ScanWriteKeeps, ScanNextKeeps, ScanFailsKeeps, ScanCommitKeeps,
   MarkReadKeeps, MarkWriteKeeps, FetchFailsKeeps DEF ScanStep, ScanFault

-----------------------------------------------------------------------------
(* The carrier poll. *)

LEMMA PollParts ==
  ASSUME IInv
  PROVE  /\ poll \in Poll /\ poll.at \in Nat /\ poll.todo \in Seq(Id) /\ poll.snap \in Row /\ poll.fails \in Nat
         /\ poll.pc = "track" => poll.todo # <<>>
         /\ db \in Tables /\ Sound(db) /\ now \in Nat
         /\ tally \in [ops : Nat, faults : Nat, crashes : Nat]
BY DEF IInv, TypeOK, Poll

LEMMA PollBeginKeeps ==
  ASSUME IInv, PollBegin
  PROVE  IInv'
<1> DEFINE D == {p \in Id : Due(p)}
           n == Cardinality(D)
<1>1. PICK q \in [1 .. n -> D] :
        /\ q # <<>>
        /\ poll' = [pc |-> "track", at |-> now, todo |-> q, snap |-> db.rows[q[1]], fails |-> 0]
  BY DEF PollBegin
<1>2. n \in Nat
  <2>1. \A k \in Nat : IsFiniteSet(1 .. k)
    <3>1. ASSUME NEW k \in Nat PROVE 1 \in Int /\ k \in Int
      OBVIOUS
    <3> QED BY <3>1, FS_Interval
  <2>2. IsFiniteSet(Id)
    BY <2>1, BoundAssumption DEF Id
  <2>3. D \in SUBSET Id
    OBVIOUS
  <2> HIDE DEF D
  <2> QED BY <2>2, <2>3, FS_Subset, FS_CardinalityType
<1> HIDE DEF n
<1>3. q \in Seq(Id)
  <2>1. q \in [1 .. n -> Id]
    BY <1>1
  <2> QED BY <1>2, <2>1, SeqDef
<1>4. q[1] \in Id
  <2>1. Len(q) \in Nat \ {0}
    BY <1>1, <1>3, EmptySeq
  <2>2. 1 \in 1 .. Len(q)
    BY <2>1
  <2> QED BY ONLY <1>3, <2>2, ElementOfSeq
<1>5. db.rows[q[1]] \in Row /\ now \in Nat
  BY <1>4, PollParts DEF Tables
<1>6. poll' \in Poll /\ poll'.todo # <<>>
  BY <1>1, <1>3, <1>5 DEF Poll
<1>7. UNCHANGED <<now, up, mailbox, cursor, seen, missed, lock, scan, tally, db>>
  BY DEF PollBegin, outside, store
<1> QED BY <1>6, <1>7, PollParts, OtherStepKeeps

LEMMA PollGetKeeps ==
  ASSUME IInv, PollGet
  PROVE  IInv'
<1>1. UNCHANGED <<now, up, mailbox, cursor, seen, missed, lock, scan, tally, db>>
  BY DEF PollGet, outside, store
<1>2. poll' \in Poll /\ (poll'.pc = "track" => poll'.todo # <<>>)
  <2>1. CASE poll.todo = <<>>
    BY <2>1, NoPollTyped DEF PollGet, NoPoll
  <2>2. CASE poll.todo # <<>> /\ Head(poll.todo) \in Live(db)
    <3> DEFINE row == db.rows[Head(poll.todo)]
    <3>1. row \in Row
      BY <2>2, PollParts DEF Live, Tables
    <3>2. poll' = [poll EXCEPT !.pc = "track", !.snap = row] /\ poll \in Poll
      BY <2>2, PollParts DEF PollGet
    <3> HIDE DEF row
    <3> QED BY <2>2, <3>1, <3>2 DEF Poll
  <2>3. CASE poll.todo # <<>> /\ Head(poll.todo) \notin Live(db)
    <3> DEFINE q == Tail(poll.todo)
    <3>1. q \in Seq(Id)
      BY <2>3, PollParts, HeadTailProperties
    <3>2. poll' = [poll EXCEPT !.todo = q] /\ poll \in Poll /\ poll.pc = "get"
      BY <2>3, PollParts DEF PollGet
    <3> HIDE DEF q
    <3> QED BY <3>1, <3>2 DEF Poll
  <2> QED BY <2>1, <2>2, <2>3
<1> QED BY <1>1, <1>2, PollParts, OtherStepKeeps

\* The poll after a row: the next one, or none.
LEMMA PollMovesOn ==
  ASSUME IInv, poll.pc = "track", NEW fails \in Nat
  PROVE  LET after == [poll EXCEPT !.pc = "get", !.todo = Tail(poll.todo), !.fails = fails]
         IN after \in Poll /\ after.pc = "get"
<1> DEFINE q == Tail(poll.todo)
<1>1. q \in Seq(Id) /\ poll \in Poll
  BY PollParts, HeadTailProperties
<1> HIDE DEF q
<1>2. LET after == [poll EXCEPT !.pc = "get", !.todo = q, !.fails = fails]
      IN after \in Poll /\ after.pc = "get"
  BY <1>1 DEF Poll
<1> QED BY <1>2 DEF q

\* The tables after one row has been rewritten.
LEMMA RowPatched ==
  ASSUME NEW t \in Tables, Sound(t), NEW p \in Live(t), NEW row \in Row,
         row.live = t.rows[p].live, row.number = t.rows[p].number, row.order = t.rows[p].order, row.carrier = t.rows[p].carrier,
         NEW events \in SUBSET Event, \A e \in events : e.package \in Live(t)
  PROVE  LET new == [rows |-> [t.rows EXCEPT ![p] = row], events |-> events, links |-> t.links]
         IN new \in Tables /\ Sound(new)
<1> DEFINE rows == [t.rows EXCEPT ![p] = row]
           new == [rows |-> rows, events |-> events, links |-> t.links]
<1>1. t.rows \in [Id -> Row] /\ p \in Id
  BY TablesParts DEF Live
<1>2. rows \in [Id -> Row]
  BY <1>1
<1>3. \A x \in Id : /\ rows[x].live = t.rows[x].live
                    /\ rows[x].number = t.rows[x].number
                    /\ rows[x].order = t.rows[x].order /\ rows[x].carrier = t.rows[x].carrier
  BY <1>1
<1> HIDE DEF rows
<1>4. /\ new.rows = rows /\ new.events = events /\ new.links = t.links
      /\ new = [rows |-> rows, events |-> events, links |-> t.links]
  OBVIOUS
<1>5. t \in Tables /\ Sound(t) /\ events \in SUBSET Event /\ \A e \in events : e.package \in Live(t)
  OBVIOUS
<1> HIDE DEF new
<1>6. new \in Tables /\ Sound(new)
  BY ONLY <1>2, <1>3, <1>4, <1>5, PatchSound
<1> QED BY <1>6 DEF new, rows

\* A new next_check_at keeps a row a row.
LEMMA RowScheduled ==
  ASSUME NEW row \in Row, NEW next \in Int
  PROVE  LET new == [row EXCEPT !.next = next]
         IN new \in Row /\ new.live = row.live /\ new.number = row.number /\ new.order = row.order /\ new.carrier = row.carrier
BY DEF Row

LEMMA PollAnsweredKeeps ==
  ASSUME IInv, PollAnswered
  PROVE  IInv'
<1> DEFINE p == Head(poll.todo)
<1>1. /\ poll.pc = "track" /\ p \in Live(db)
      /\ poll' = [poll EXCEPT !.pc = "get", !.todo = Tail(poll.todo), !.fails = 0]
      /\ UNCHANGED <<now, up, mailbox, tally, cursor, seen, missed, lock, scan>>
  BY DEF PollAnswered, Tracking, outside
<1>2. PICK status \in CarrierStatuses, at \in 0 .. now :
        db' = [rows |-> Written([Moved(poll.snap, status, at, "carrier")
                                   EXCEPT !.next = poll.at + INTERVAL]),
               events |-> db.events \cup {[package |-> p, status |-> status,
                                           at |-> at, source |-> "carrier"]},
               links |-> db.links]
  BY DEF PollAnswered
<1> DEFINE moved == Moved(poll.snap, status, at, "carrier")
           checked == [moved EXCEPT !.next = poll.at + INTERVAL]
           row == Flushed(db.rows[p], poll.snap, checked)
           events == db.events \cup {[package |-> p, status |-> status, at |-> at, source |-> "carrier"]}
<1>3. status \in Status /\ at \in Nat /\ p \in Id /\ db.rows[p] \in Row /\ poll.snap \in Row
  BY <1>1, ContentAssumption, PollParts DEF Live, Tables
<1>4. moved \in Row /\ moved.live = poll.snap.live /\ moved.number = poll.snap.number
      /\ moved.order = poll.snap.order /\ moved.carrier = poll.snap.carrier
  BY <1>3, MovedRow
<1>5. poll.at + INTERVAL \in Int
  BY PollParts, DayAssumption
<1> HIDE DEF moved
<1>6. checked \in Row /\ checked.live = poll.snap.live /\ checked.number = poll.snap.number
      /\ checked.order = poll.snap.order /\ checked.carrier = poll.snap.carrier
  BY <1>4, <1>5, RowScheduled
<1> HIDE DEF checked
<1>7. row \in Row /\ row.live = db.rows[p].live /\ row.number = db.rows[p].number
      /\ row.order = db.rows[p].order /\ row.carrier = db.rows[p].carrier
  BY <1>3, <1>6, FlushedRow
<1>8. events \in SUBSET Event /\ \A e \in events : e.package \in Live(db)
  <2>1. [package |-> p, status |-> status, at |-> at, source |-> "carrier"] \in Event
    BY <1>3 DEF Event
  <2> QED BY <1>1, <2>1, PollParts, TablesParts DEF Sound
<1>9. db' = [rows |-> [db.rows EXCEPT ![p] = row], events |-> events, links |-> db.links]
  BY <1>2 DEF Written, checked, moved
<1> HIDE DEF row, events
<1>10. db' \in Tables /\ Sound(db')
  <2>1. db \in Tables /\ Sound(db) /\ p \in Live(db)
    BY <1>1, PollParts
  <2>2. LET new == [rows |-> [db.rows EXCEPT ![p] = row], events |-> events, links |-> db.links]
        IN new \in Tables /\ Sound(new)
    BY ONLY <2>1, <1>7, <1>8, RowPatched
  <2> QED BY <1>9, <2>2
<1>11. poll' \in Poll /\ poll'.pc = "get"
  BY <1>1, PollMovesOn
<1> QED BY <1>1, <1>10, <1>11, PollParts, OtherStepKeeps

\* The poll notes when to ask again and moves on.
LEMMA PollRescheduled ==
  ASSUME IInv, Tracking, NEW next \in Int, NEW after \in Poll, after.pc # "track",
         db' = [db EXCEPT !.rows[Head(poll.todo)].next = next], poll' = after,
         tally' \in [ops : Nat, faults : Nat, crashes : Nat],
         UNCHANGED <<outside, cursor, seen, missed, lock, scan>>
  PROVE  IInv'
<1> DEFINE p == Head(poll.todo)
           row == [db.rows[p] EXCEPT !.next = next]
<1>1. db \in Tables /\ Sound(db) /\ p \in Live(db)
  BY PollParts DEF Tracking
<1>2. db.rows[p] \in Row
  BY <1>1 DEF Live, Tables
<1>3. row \in Row /\ row.live = db.rows[p].live /\ row.number = db.rows[p].number
      /\ row.order = db.rows[p].order /\ row.carrier = db.rows[p].carrier
  BY <1>2, RowScheduled
<1>4. db' = [rows |-> [db.rows EXCEPT ![p] = row], events |-> db.events, links |-> db.links]
  BY <1>1, TablesParts
<1> HIDE DEF row
<1>5. db.events \in SUBSET Event /\ \A e \in db.events : e.package \in Live(db)
  BY <1>1, TablesParts DEF Sound
<1>6. LET new == [rows |-> [db.rows EXCEPT ![p] = row], events |-> db.events, links |-> db.links]
      IN new \in Tables /\ Sound(new)
  BY ONLY <1>1, <1>3, <1>5, RowPatched
<1>7. db' \in Tables /\ Sound(db')
  BY <1>4, <1>6
<1>8. UNCHANGED <<now, up, mailbox, cursor, seen, missed, lock, scan>>
  BY DEF outside
<1> QED BY <1>7, <1>8, OtherStepKeeps

LEMMA PollNotFoundKeeps ==
  ASSUME IInv, PollNotFound
  PROVE  IInv'
<1> DEFINE after == [poll EXCEPT !.pc = "get", !.todo = Tail(poll.todo), !.fails = 0]
<1>1. after \in Poll /\ after.pc # "track"
  BY PollMovesOn DEF PollNotFound, Tracking
<1>2. poll.at + BACKOFF \in Int
  BY PollParts, DayAssumption
<1>3. /\ db' = [db EXCEPT !.rows[Head(poll.todo)].next = poll.at + BACKOFF] /\ poll' = after
      /\ tally' \in [ops : Nat, faults : Nat, crashes : Nat] /\ Tracking
      /\ UNCHANGED <<outside, cursor, seen, missed, lock, scan>>
  BY PollParts DEF PollNotFound
<1> HIDE DEF after
<1> QED BY <1>1, <1>2, <1>3, PollRescheduled

LEMMA PollFailsKeeps ==
  ASSUME IInv, PollFails
  PROVE  IInv'
<1> DEFINE on == [poll EXCEPT !.pc = "get", !.todo = Tail(poll.todo), !.fails = poll.fails + 1]
           after == IF poll.fails + 1 >= MAX_FAILURES THEN NoPoll ELSE on
<1>1. on \in Poll /\ on.pc # "track"
  <2>1. poll.fails + 1 \in Nat /\ poll.pc = "track"
    BY PollParts DEF PollFails, Tracking
  <2> QED BY <2>1, PollMovesOn
<1>2. NoPoll \in Poll /\ NoPoll.pc # "track"
  BY NoPollTyped DEF NoPoll
<1>3. after \in Poll /\ after.pc # "track"
  BY <1>1, <1>2
<1>4. poll.at + INTERVAL \in Int
  BY PollParts, DayAssumption
<1>5. /\ db' = [db EXCEPT !.rows[Head(poll.todo)].next = poll.at + INTERVAL] /\ poll' = after
      /\ tally' \in [ops : Nat, faults : Nat, crashes : Nat] /\ Tracking
      /\ UNCHANGED <<outside, cursor, seen, missed, lock, scan>>
  BY FaultTyped, PollParts DEF PollFails
<1> HIDE DEF after
<1> QED BY <1>3, <1>4, <1>5, PollRescheduled

LEMMA PollEndsKeeps ==
  ASSUME IInv, PollStops \/ PollRaises
  PROVE  IInv'
<1>1. poll' = NoPoll /\ UNCHANGED <<now, up, mailbox, cursor, seen, missed, lock, scan, db>>
  BY DEF PollStops, PollRaises, outside, store
<1>2. tally' \in [ops : Nat, faults : Nat, crashes : Nat]
  BY FaultTyped, PollParts DEF PollStops, PollRaises
<1>3. NoPoll.pc # "track"
  BY DEF NoPoll
<1> QED BY <1>1, <1>2, <1>3, NoPollTyped, PollParts, OtherStepKeeps

-----------------------------------------------------------------------------
(* The operator, and the process. *)

LEMMA OperatorKeeps ==
  ASSUME IInv, AddManual \/ Archive \/ Delete
  PROVE  IInv'
<1>1. /\ UNCHANGED <<now, up, mailbox, cursor, seen, missed, lock, scan, poll>>
      /\ tally' \in [ops : Nat, faults : Nat, crashes : Nat]
  BY PollParts DEF AddManual, Archive, Delete, Operator, outside
<1>2. db \in Tables /\ Sound(db) /\ now \in Nat
  BY PollParts
<1>3. \A p \in Id : db.rows[p] \in Row
  BY <1>2 DEF Tables
<1>4. CASE AddManual
  <2>1. PICK c \in Carriers, n \in Numbers :
          /\ WithNumber(db, c, n) = {}
          /\ db' = [db EXCEPT !.rows = [p \in Id |->
                IF p \in NewIds(db) THEN Created(c, n, None, "manual") ELSE db.rows[p]]]
    BY <1>4 DEF AddManual
  <2> DEFINE added == Created(c, n, None, "manual")
             rows == [p \in Id |-> IF p \in NewIds(db) THEN added ELSE db.rows[p]]
  <2>2. added \in Row /\ added.live /\ added.carrier = c /\ added.number = n /\ n # None
    <3> DEFINE ship == [carrier |-> c, number |-> n, order |-> None]
    <3>1. ship \in Shipment /\ ship.carrier = c /\ ship.number = n /\ ship.order = None
      BY DEF Shipment
    <3> HIDE DEF ship
    <3>2. LET row == Created(ship.carrier, ship.number, ship.order, "manual")
          IN row \in Row /\ row.live = TRUE /\ row.carrier = ship.carrier /\ row.number = ship.number
      BY <1>2, <3>1, CreatedRow
    <3> QED BY <3>1, <3>2, SetAssumption
  <2> HIDE DEF added
  <2>3. rows \in [Id -> Row]
    BY <1>3, <2>2
  <2>4. db' = [rows |-> rows, events |-> db.events, links |-> db.links]
    BY <1>2, <2>1, TablesParts DEF added
  <2>5. /\ \A p \in NewIds(db) : rows[p] = added /\ p \notin Live(db)
        /\ \A p \in Id \ NewIds(db) : rows[p] = db.rows[p]
        /\ \A p, q \in NewIds(db) : p = q
    <3>1. \A p, q \in NewIds(db) : p = q
      BY DEF NewIds, Id
    <3>2. \A p \in NewIds(db) : p \in Id /\ p \notin Live(db)
      BY DEF NewIds, Id
    <3> QED BY <3>1, <3>2
  <2> HIDE DEF rows
  <2>6. db'.rows = rows /\ db'.events = db.events /\ db'.links = db.links /\ db' \in Tables
    BY <1>2, <2>3, <2>4, TablesParts DEF Tables
  <2>7. Live(db') = Live(db) \cup NewIds(db)
    BY <2>2, <2>5, <2>6 DEF Live, NewIds
  <2>8. \A p \in Live(db) : ~(db.rows[p].number = n /\ db.rows[p].carrier = c)
    BY <2>1, <2>2 DEF WithNumber
  <2>9. Unique(db')
    BY <1>2, <2>2, <2>5, <2>6, <2>7, <2>8 DEF Sound, Unique, SameOrder, SameNumber, Live
  <2>10. Sound(db')
    <3>1. \A p \in Live(db') : Named(db'.rows[p])
      BY <1>2, <2>2, <2>5, <2>6, <2>7 DEF Sound, Named, Live
    <3> QED BY <1>2, <2>6, <2>7, <2>9, <3>1 DEF Sound
  <2> QED BY <1>1, <2>6, <2>10, PollParts, OtherStepKeeps
<1>5. CASE Archive
  <2>1. PICK p \in Live(db) : db' = [db EXCEPT !.rows[p].archived = ~db.rows[p].archived]
    BY <1>5 DEF Archive
  <2> DEFINE row == [db.rows[p] EXCEPT !.archived = ~db.rows[p].archived]
  <2>2. row \in Row /\ row.live = db.rows[p].live /\ row.number = db.rows[p].number
        /\ row.order = db.rows[p].order /\ row.carrier = db.rows[p].carrier
    <3>1. ASSUME NEW r \in Row, NEW b \in BOOLEAN
          PROVE  LET new == [r EXCEPT !.archived = b]
                 IN new \in Row /\ new.live = r.live /\ new.number = r.number /\ new.order = r.order /\ new.carrier = r.carrier
      BY DEF Row
    <3>2. db.rows[p] \in Row /\ (~db.rows[p].archived) \in BOOLEAN
      BY <1>3 DEF Live
    <3> QED BY <3>1, <3>2
  <2>3. db' = [rows |-> [db.rows EXCEPT ![p] = row], events |-> db.events, links |-> db.links]
    BY <1>2, <2>1, TablesParts
  <2> HIDE DEF row
  <2>4. db.events \in SUBSET Event /\ \A e \in db.events : e.package \in Live(db)
    BY <1>2, TablesParts DEF Sound
  <2>5. LET new == [rows |-> [db.rows EXCEPT ![p] = row], events |-> db.events, links |-> db.links]
        IN new \in Tables /\ Sound(new)
    BY ONLY <1>2, <2>1, <2>2, <2>4, RowPatched
  <2>6. db' \in Tables /\ Sound(db')
    BY <2>3, <2>5
  <2> QED BY <1>1, <2>6, PollParts, OtherStepKeeps
<1>6. CASE Delete
  <2>1. PICK p \in Live(db) : db' = Erased(p)
    BY <1>6 DEF Delete
  <2>2. /\ db'.rows = [db.rows EXCEPT ![p] = NoRow]
        /\ db'.events = {e \in db.events : e.package # p}
        /\ db'.links = {l \in db.links : l.package # p}
        /\ db' = [rows |-> db'.rows, events |-> db'.events, links |-> db'.links]
    BY <2>1 DEF Erased
  <2>3. p \in Id /\ db.rows \in [Id -> Row] /\ db.events \subseteq Event /\ db.links \subseteq Link
    BY <1>2, TablesParts DEF Live
  <2>4. db' \in Tables
    <3>1. db'.rows \in [Id -> Row]
      BY <2>2, <2>3, NoRowTyped
    <3> QED BY <2>2, <2>3, <3>1 DEF Tables
  <2>5. Live(db') = Live(db) \ {p} /\ \A x \in Live(db') : db'.rows[x] = db.rows[x]
    BY <2>2, <2>3 DEF Live, NoRow
  <2>6. Unique(db')
    BY <1>2, <2>5 DEF Sound, Unique, SameOrder, SameNumber
  <2>7. Sound(db')
    BY <1>2, <2>2, <2>5, <2>6 DEF Sound
  <2> QED BY <1>1, <2>4, <2>7, PollParts, OtherStepKeeps
<1> QED BY <1>4, <1>5, <1>6

LEMMA CrashKeeps ==
  ASSUME IInv, Crash
  PROVE  IInv'
<1>1. scan' = [s \in Scanners |-> NoScan] /\ poll' = NoPoll /\ lock' = None
      /\ UNCHANGED <<now, mailbox, db, cursor, seen, missed>> /\ up' = FALSE
  BY DEF Crash, store
<1>2. tally' \in [ops : Nat, faults : Nat, crashes : Nat]
  BY DEF Crash, IInv, TypeOK
<1>3. up' \in BOOLEAN
  BY <1>1, Zenon
<1>4. TypeOK'
  BY <1>1, <1>2, <1>3, NoScanTyped, NoPollTyped DEF IInv, TypeOK
<1>5. Sound(db)' /\ (lock # None => Sound(scan[lock].draft))' /\ (poll.pc = "track" => poll.todo # <<>>)'
  BY <1>1 DEF IInv, NoPoll
<1>6. (\A s \in Scanners : Queued(s))'
  BY <1>1 DEF Queued, NoScan
<1> QED BY <1>4, <1>5, <1>6 DEF IInv

LEMMA QuietKeeps ==
  ASSUME IInv, Tick \/ Restart \/ UNCHANGED vars
  PROVE  IInv'
<1>1. UNCHANGED <<mailbox, tally, db, cursor, seen, missed, lock, scan, poll>> /\ now' \in Nat
  BY DEF IInv, TypeOK, Tick, Restart, vars, outside, store
<1>2. up' \in BOOLEAN
  <2>1. CASE up' = up
    BY <2>1 DEF IInv, TypeOK
  <2>2. CASE Restart
    BY <2>2, Zenon DEF Restart
  <2> QED BY <2>1, <2>2 DEF Tick, vars, outside
<1>3. TypeOK'
  BY <1>1, <1>2 DEF IInv, TypeOK
<1> QED BY <1>1, <1>3 DEF IInv, Queued

LEMMA ArriveKeeps ==
  ASSUME IInv, Arrive
  PROVE  IInv'
<1>1. PICK c \in Contents :
        mailbox' = Append(mailbox, [at |-> now, ships |-> c.ships, signal |-> c.signal])
  BY DEF Arrive
<1>2. UNCHANGED <<now, up, tally, db, cursor, seen, missed, lock, scan, poll>>
  BY DEF Arrive, store
<1>3. mailbox \in Seq(Mail) /\ now \in Nat
  BY DEF IInv, TypeOK
<1>4. [at |-> now, ships |-> c.ships, signal |-> c.signal] \in Mail
  BY <1>3, ContentAssumption DEF Content, Mail
<1>5. mailbox' \in Seq(Mail) /\ DOMAIN mailbox \subseteq DOMAIN mailbox'
  BY <1>1, <1>3, <1>4, AppendProperties, LenProperties
<1>6. TypeOK'
  BY <1>2, <1>5 DEF IInv, TypeOK
<1>7. (\A s \in Scanners : Queued(s))'
  BY <1>2, <1>5 DEF IInv, Queued
<1> QED BY <1>2, <1>6, <1>7 DEF IInv

-----------------------------------------------------------------------------
(* The theorems. *)

THEOREM Inductive == Spec => []IInv
<1>1. Init => IInv
  <2> SUFFICES ASSUME Init PROVE IInv
    OBVIOUS
  <2>1. TypeOK
    BY EmptyTyped, NoScanTyped, NoPollTyped, SetAssumption DEF Init, TypeOK, Never
  <2>2. Sound(db)
    BY DEF Init, Empty, NoRow, Sound, Unique, Live
  <2>3. \A s \in Scanners : Queued(s)
    BY DEF Init, NoScan, Queued
  <2> QED BY <2>1, <2>2, <2>3 DEF Init, IInv, NoPoll
<1>2. IInv /\ [Next]_vars => IInv'
  BY ScanKeeps, PollBeginKeeps, PollGetKeeps, PollAnsweredKeeps, PollNotFoundKeeps, PollFailsKeeps,
     PollEndsKeeps, OperatorKeeps, CrashKeeps, QuietKeeps, ArriveKeeps DEF Next, PollStep
<1> QED BY <1>1, <1>2, PTL DEF Spec

\* Every variable keeps its type, and the lock is only held by a scan at work.
THEOREM TypeCorrect == Spec => []TypeOK
<1>1. IInv => TypeOK
  BY DEF IInv
<1> QED BY <1>1, Inductive, PTL

\* No event and no email link outlives its package, whatever writes beside a delete.
THEOREM NothingOrphaned == Spec => []NoOrphans
<1>1. IInv => NoOrphans
  BY DEF IInv, Sound, NoOrphans
<1> QED BY <1>1, Inductive, PTL

\* One row per carrier and number and one numberless row per order and carrier, so
\* two rows never stand for the same parcel by either key.
THEOREM ParcelsDistinct == Spec => []OneRowPerParcel
<1>1. IInv => OneRowPerParcel
  BY DEF IInv, Sound, Unique, SameOrder, SameNumber, Named, OneRowPerParcel
<1> QED BY <1>1, Inductive, PTL

-----------------------------------------------------------------------------
(* The sweep.  NoMailSkipped follows for the cursor a scan writes because of  *)
(* what the scan has kept track of since its listing: every mail older than   *)
(* its start is dealt with, given up by the listing, or still in its queue.   *)

Queue(r) == {r.todo[i] : i \in DOMAIN r.todo}
Handled(r) == seen \cup missed \cup r.done \cup r.left \cup Queue(r)
SweepsOver(r, box, known) == \A m \in DOMAIN box : box[m].at < r.at => m \in known
Swept(r) ==
  r.pc \in {"fetch", "write"} =>
    /\ r.at <= now
    /\ ~r.failed => SweepsOver(r, mailbox, Handled(r))
SIInv ==
  /\ NoMailSkipped
  /\ cursor <= now
  /\ \A s \in Scanners : Swept(scan[s])

LEMMA TailMembers ==
  ASSUME NEW q \in Seq(Nat), q # <<>>, NEW i \in DOMAIN q
  PROVE  q[i] = Head(q) \/ \E k \in DOMAIN Tail(q) : Tail(q)[k] = q[i]
<1>1. /\ Len(Tail(q)) = Len(q) - 1 /\ Len(q) \in Nat /\ DOMAIN q = 1 .. Len(q)
      /\ DOMAIN Tail(q) = 1 .. Len(Tail(q)) /\ \A k \in 1 .. Len(Tail(q)) : Tail(q)[k] = q[k + 1]
  BY HeadTailProperties, LenProperties
<1>2. CASE i = 1
  BY <1>2, HeadTailProperties
<1>3. CASE i # 1
  <2>1. i - 1 \in DOMAIN Tail(q) /\ Tail(q)[i - 1] = q[i]
    BY <1>1, <1>3
  <2> QED BY <2>1
<1> QED BY <1>2, <1>3

\* A step that changes one scanner at most leaves the sweeps of the others alone.
LEMMA SweepsApart ==
  ASSUME IInv, SIInv, NEW s \in Scanners, mailbox' = mailbox,
         seen \subseteq seen', missed \subseteq missed', now' \in Nat, now <= now',
         \A u \in Scanners \ {s} : scan'[u] = scan[u], Swept(scan[s])'
  PROVE  \A u \in Scanners : Swept(scan[u])'
<1> SUFFICES ASSUME NEW u \in Scanners PROVE Swept(scan[u])'
  OBVIOUS
<1>1. CASE u = s
  BY <1>1
<1>2. CASE u # s
  <2>1. PICK r \in Scan : r = scan[u] /\ r = scan'[u]
    BY <1>2 DEF IInv, TypeOK
  <2>2. Swept(r) /\ r.at \in Nat /\ now \in Nat
    BY <2>1 DEF SIInv, Scan, IInv, TypeOK
  <2>3. r.pc \in {"fetch", "write"} =>
          /\ r.at <= now'
          /\ ~r.failed => SweepsOver(r, mailbox, Handled(r)')
    BY <2>2 DEF Swept, SweepsOver, Handled
  <2> QED BY <2>1, <2>3 DEF Swept, Handled
<1> QED BY <1>1, <1>2

\* A step that moves no cursor and changes one scanner at most.
LEMMA SweepStays ==
  ASSUME IInv, SIInv, NEW s \in Scanners, cursor' = cursor, mailbox' = mailbox,
         seen \subseteq seen', missed \subseteq missed', now' \in Nat, now <= now',
         \A u \in Scanners \ {s} : scan'[u] = scan[u], Swept(scan[s])'
  PROVE  SIInv'
<1>1. now \in Nat /\ cursor \in Int
  BY DEF IInv, TypeOK
<1>2. NoMailSkipped' /\ cursor' <= now'
  BY <1>1 DEF SIInv, NoMailSkipped
<1> QED BY <1>2, SweepsApart DEF SIInv

\* A step after which the scanner is no longer at its account.
LEMMA SweepLeaves ==
  ASSUME IInv, SIInv, NEW s \in Scanners, cursor' = cursor, mailbox' = mailbox,
         seen' = seen, missed' = missed, now' = now, NEW r, r.pc \notin {"fetch", "write"},
         scan' = [scan EXCEPT ![s] = r]
  PROVE  SIInv'
<1>1. scan'[s] = r /\ (\A u \in Scanners \ {s} : scan'[u] = scan[u]) /\ now \in Nat
  BY DEF IInv, TypeOK
<1>2. Swept(scan[s])'
  BY <1>1 DEF Swept
<1> QED BY <1>1, <1>2, SweepStays

\* A step that takes a mail from the queue, or none, and forgets nothing.
LEMMA SweepGoesOn ==
  ASSUME IInv, SIInv, NEW s \in Scanners, cursor' = cursor, mailbox' = mailbox,
         seen' = seen, missed' = missed, now' = now, NEW r,
         scan' = [scan EXCEPT ![s] = r], scan[s].pc \in {"fetch", "write"},
         r.at = scan[s].at, r.failed \/ r.failed = scan[s].failed,
         ~r.failed => /\ scan[s].done \cup scan[s].left \subseteq r.done \cup r.left
                      /\ Queue(scan[s]) \subseteq Queue(r) \cup r.done
  PROVE  SIInv'
<1>1. /\ scan'[s] = r /\ (\A u \in Scanners \ {s} : scan'[u] = scan[u]) /\ now \in Nat
      /\ Swept(scan[s])
  BY DEF IInv, TypeOK, SIInv
<1>2. r.at <= now /\ (~r.failed => SweepsOver(r, mailbox, Handled(r)))
  BY <1>1 DEF Swept, SweepsOver, Handled
<1>3. Swept(scan[s])'
  BY <1>1, <1>2 DEF Swept, Handled, SweepsOver, Queue
<1> QED BY <1>1, <1>3, SweepStays

LEMMA QueueOfTail ==
  ASSUME NEW q \in Seq(Nat), q # <<>>
  PROVE  {q[i] : i \in DOMAIN q} \subseteq {Head(q)} \cup {Tail(q)[k] : k \in DOMAIN Tail(q)}
BY TailMembers

LEMMA SweepBegins ==
  ASSUME IInv, SIInv, NEW s \in Scanners, ScanBegin(s)
  PROVE  SIInv'
<1>1. PICK r : /\ r.pc = "fetch" /\ r.at = now /\ r.todo = Listed /\ r.left = Unlisted
               /\ scan' = [scan EXCEPT ![s] = r]
  <2> DEFINE r == [NoScan EXCEPT !.pc = "fetch", !.at = now, !.todo = Listed, !.left = Unlisted]
  <2>1. r.pc = "fetch" /\ r.at = now /\ r.todo = Listed /\ r.left = Unlisted
    BY DEF NoScan
  <2>2. scan' = [scan EXCEPT ![s] = r]
    BY DEF ScanBegin
  <2> HIDE DEF r
  <2> QED BY <2>1, <2>2
<1>2. /\ scan' = [scan EXCEPT ![s] = r]
      /\ UNCHANGED <<cursor, mailbox, seen, missed, now>>
  BY <1>1 DEF ScanBegin, outside, store
<1>3. now \in Nat /\ cursor \in Int /\ OVERLAP \in Nat
      /\ \A m \in DOMAIN mailbox : mailbox[m].at \in Nat
  <2>1. \A m \in DOMAIN mailbox : mailbox[m] \in Mail
    BY ElementOfSeq, LenProperties DEF IInv, TypeOK
  <2> QED BY <2>1, DayAssumption DEF IInv, TypeOK, Mail
<1>4. ASSUME NEW m \in DOMAIN mailbox PROVE m \in Handled(r)
  <2>1. CASE m \in {Listed[i] : i \in DOMAIN Listed}
    BY <1>1, <2>1 DEF Handled, Queue
  <2>2. CASE /\ m \notin {Listed[i] : i \in DOMAIN Listed}
             /\ cursor = Never \/ mailbox[m].at >= Since
    BY <1>1, <2>2 DEF Handled, Unlisted
  <2>3. CASE ~(cursor = Never \/ mailbox[m].at >= Since)
    <3>1. mailbox[m].at < cursor - OVERLAP
      BY <1>3, <2>3 DEF Since
    <3> QED BY <3>1 DEF SIInv, NoMailSkipped, Handled
  <2> QED BY <2>1, <2>2, <2>3
<1>5. r.at <= now' /\ SweepsOver(r, mailbox', Handled(r)')
  BY <1>1, <1>2, <1>3, <1>4 DEF SweepsOver, Handled
<1>6. scan'[s] = r /\ \A u \in Scanners \ {s} : scan'[u] = scan[u]
  BY <1>2 DEF IInv, TypeOK
<1>7. Swept(scan[s])'
  BY <1>5, <1>6 DEF Swept, Handled
<1> QED BY <1>2, <1>3, <1>6, <1>7, SweepStays

LEMMA SweepFetchFails ==
  ASSUME IInv, SIInv, NEW s \in Scanners, FetchFails(s)
  PROVE  SIInv'
<1> DEFINE q == Tail(scan[s].todo)
<1>1. q \in Seq(Nat)
  BY Current, ScanFields, TailQueue DEF FetchFails
<1> HIDE DEF q
<1> DEFINE r == [scan[s] EXCEPT !.todo = q, !.failed = TRUE]
<1>2. r \in Scan /\ r.at = scan[s].at /\ r.failed
  BY <1>1, Current DEF Scan
<1>3. /\ scan' = [scan EXCEPT ![s] = r] /\ scan[s].pc = "fetch"
      /\ UNCHANGED <<cursor, mailbox, seen, missed, now>>
  BY DEF FetchFails, q, outside, store
<1> HIDE DEF r
<1> QED BY <1>2, <1>3, SweepGoesOn

LEMMA SweepFetch ==
  ASSUME IInv, SIInv, NEW s \in Scanners, Fetch(s)
  PROVE  SIInv'
<1> DEFINE m == Head(scan[s].todo)
           q == Tail(scan[s].todo)
           newest == IF mailbox[m].at > scan[s].newest THEN mailbox[m].at ELSE scan[s].newest
<1>1. /\ q \in Seq(Nat) /\ m \in DOMAIN mailbox /\ m \in Nat
      /\ Queue(scan[s]) \subseteq {m} \cup {q[k] : k \in DOMAIN q}
  <2>1. scan[s].todo \in Seq(Nat) /\ scan[s].todo # <<>>
    BY Current, ScanFields DEF Fetch
  <2> QED BY <2>1, Current, TailQueue, QueueOfTail DEF Queue
<1>2. mailbox[m] \in Mail
  BY <1>1, Current, ElementOfSeq, LenProperties
<1>3. newest \in Int /\ mailbox[m].ships \in Seq(Shipment)
  <2>1. scan[s].newest \in Int
    BY Current, ScanFields
  <2>2. mailbox[m].at \in Nat /\ mailbox[m].ships \in Seq(Shipment)
    BY <1>2 DEF Mail
  <2> QED BY ONLY <2>1, <2>2
<1>4. scan[s].pc = "fetch" /\ UNCHANGED <<cursor, mailbox, seen, missed, now>>
  BY DEF Fetch, outside, store
<1>5. CASE Known(View(s), m)
  <2> DEFINE r == [scan[s] EXCEPT !.todo = q, !.newest = newest, !.done = scan[s].done \cup {m}]
  <2>1. scan' = [scan EXCEPT ![s] = r]
    BY <1>5 DEF Fetch
  <2> HIDE DEF q, newest, m
  <2>2. r \in Scan /\ r.at = scan[s].at /\ r.todo = q /\ r.failed = scan[s].failed
        /\ r.done = scan[s].done \cup {m} /\ r.left = scan[s].left
    BY <1>1, <1>3, <1>4, Current DEF Scan
  <2> HIDE DEF r
  <2>3. /\ scan[s].done \cup scan[s].left \subseteq r.done \cup r.left
        /\ Queue(scan[s]) \subseteq Queue(r) \cup r.done
    BY <1>1, <2>2 DEF Queue
  <2> QED BY <1>4, <2>1, <2>2, <2>3, SweepGoesOn
<1>6. CASE ~Known(View(s), m)
  <2> DEFINE ships == mailbox[m].ships
             draft == View(s)
             r == [scan[s] EXCEPT !.pc = "write", !.newest = newest, !.draft = draft,
                                  !.ships = ships, !.touched = {}]
  <2>1. scan' = [scan EXCEPT ![s] = r]
    BY <1>6 DEF Fetch
  <2>2. draft \in Tables
    BY ViewSound
  <2> HIDE DEF draft, newest, ships
  <2>3. r \in Scan
    <3>1. scan[s] \in Scan /\ ships \in Seq(Shipment)
      BY <1>3, Current DEF ships
    <3> QED BY <1>3, <2>2, <3>1 DEF Scan
  <2>4. r.at = scan[s].at /\ r.todo = scan[s].todo /\ r.failed = scan[s].failed
        /\ r.done = scan[s].done /\ r.left = scan[s].left
    BY Current DEF Scan
  <2> HIDE DEF r
  <2>5. /\ scan[s].done \cup scan[s].left \subseteq r.done \cup r.left
        /\ Queue(scan[s]) \subseteq Queue(r) \cup r.done
    BY <2>4 DEF Queue
  <2> QED BY <1>4, <2>1, <2>3, <2>4, <2>5, SweepGoesOn
<1> QED BY <1>5, <1>6

LEMMA SweepNext ==
  ASSUME IInv, SIInv, NEW s \in Scanners, ScanNext(s)
  PROVE  SIInv'
<1> DEFINE m == Head(scan[s].todo)
           q == Tail(scan[s].todo)
           r == [scan[s] EXCEPT !.pc = "fetch", !.todo = q, !.done = scan[s].done \cup {m}]
<1>1. /\ q \in Seq(Nat) /\ m \in Nat
      /\ Queue(scan[s]) \subseteq {m} \cup {q[k] : k \in DOMAIN q}
  <2>1. scan[s].todo \in Seq(Nat) /\ scan[s].todo # <<>>
    BY Current, ScanFields DEF ScanNext
  <2> QED BY <2>1, Current, TailQueue, QueueOfTail DEF Queue
<1>2. /\ scan' = [scan EXCEPT ![s] = r] /\ scan[s].pc = "write"
      /\ UNCHANGED <<cursor, mailbox, seen, missed, now>>
  BY DEF ScanNext, outside, store
<1> HIDE DEF m, q
<1>3. r \in Scan /\ r.at = scan[s].at /\ r.todo = q /\ r.failed = scan[s].failed
      /\ r.done = scan[s].done \cup {m} /\ r.left = scan[s].left
  BY <1>1, Current DEF Scan
<1> HIDE DEF r
<1>4. /\ scan[s].done \cup scan[s].left \subseteq r.done \cup r.left
      /\ Queue(scan[s]) \subseteq Queue(r) \cup r.done
  BY <1>1, <1>3 DEF Queue
<1> QED BY <1>2, <1>3, <1>4, SweepGoesOn

\* apply_email changes nothing the sweep depends on.
LEMMA SweepWrite ==
  ASSUME IInv, SIInv, NEW s \in Scanners, ScanWrite(s)
  PROVE  SIInv'
<1>1. PICK rest, new, torn, touched :
        \/ scan' = [scan EXCEPT ![s] = [scan[s] EXCEPT !.ships = rest]]
        \/ scan' = [scan EXCEPT ![s] = [scan[s] EXCEPT !.ships = rest, !.draft = new,
                                                       !.torn = torn, !.touched = touched]]
  <2> DEFINE m == Head(scan[s].todo)
             n == Applied(View(s), scan[s].draft, Head(scan[s].ships), m, scan[s].touched)
             d == scan[s].torn \/ View(s) # scan[s].draft
             c == {p \in Id : [package |-> p, mail |-> m] \in n.links}
             q == Tail(scan[s].ships)
  <2>1. \/ scan' = [scan EXCEPT ![s] = [scan[s] EXCEPT !.ships = q]]
        \/ scan' = [scan EXCEPT ![s] = [scan[s] EXCEPT !.ships = q, !.draft = n,
                                                       !.torn = d, !.touched = c]]
    BY DEF ScanWrite
  <2> HIDE DEF n, d, c, q
  <2> QED BY <2>1, Zenon
<1>2. PICK r : /\ scan' = [scan EXCEPT ![s] = r]
               /\ r.at = scan[s].at /\ r.todo = scan[s].todo /\ r.failed = scan[s].failed
               /\ r.done = scan[s].done /\ r.left = scan[s].left
  <2>1. scan[s] \in Scan
    BY Current
  <2> DEFINE a == [scan[s] EXCEPT !.ships = rest]
             b == [scan[s] EXCEPT !.ships = rest, !.draft = new, !.torn = torn, !.touched = touched]
  <2>2. /\ a.at = scan[s].at /\ a.todo = scan[s].todo /\ a.failed = scan[s].failed
        /\ a.done = scan[s].done /\ a.left = scan[s].left
    BY <2>1 DEF Scan
  <2>3. /\ b.at = scan[s].at /\ b.todo = scan[s].todo /\ b.failed = scan[s].failed
        /\ b.done = scan[s].done /\ b.left = scan[s].left
    BY <2>1 DEF Scan
  <2>4. scan' = [scan EXCEPT ![s] = a] \/ scan' = [scan EXCEPT ![s] = b]
    BY <1>1
  <2> HIDE DEF a, b
  <2> QED BY <2>2, <2>3, <2>4
<1>3. scan[s].pc = "write" /\ UNCHANGED <<cursor, mailbox, seen, missed, now>>
  BY DEF ScanWrite, outside, store
<1>4. /\ scan[s].done \cup scan[s].left \subseteq r.done \cup r.left
      /\ Queue(scan[s]) \subseteq Queue(r) \cup r.done
  BY <1>2 DEF Queue
<1> QED BY <1>2, <1>3, <1>4, SweepGoesOn

LEMMA SweepDrops ==
  ASSUME IInv, SIInv, NEW s \in Scanners, ScanFails(s) \/ ScanCollides(s)
  PROVE  SIInv'
<1> DEFINE r == [NoScan EXCEPT !.pc = "mark", !.at = scan[s].at]
<1>1. r.pc = "mark"
  BY DEF NoScan
<1>2. /\ scan' = [scan EXCEPT ![s] = r]
      /\ UNCHANGED <<cursor, mailbox, seen, missed, now>>
  BY DEF ScanFails, ScanCollides, outside, store
<1> HIDE DEF r
<1> QED BY <1>1, <1>2, SweepLeaves

LEMMA SweepRests ==
  ASSUME IInv, SIInv, NEW s \in Scanners, MarkRead(s) \/ MarkWrite(s) \/ MarkFails(s)
  PROVE  SIInv'
<1>1. PICK r : scan' = [scan EXCEPT ![s] = r] /\ r.pc \notin {"fetch", "write"}
  <2>1. CASE MarkRead(s)
    <3> DEFINE r == [scan[s] EXCEPT !.pc = "stale", !.draft = db]
    <3>1. r.pc = "stale"
      BY Current DEF Scan
    <3>2. scan' = [scan EXCEPT ![s] = r]
      BY <2>1 DEF MarkRead
    <3> HIDE DEF r
    <3> QED BY <3>1, <3>2
  <2>2. CASE MarkWrite(s) \/ MarkFails(s)
    <3>1. scan' = [scan EXCEPT ![s] = NoScan]
      BY <2>2 DEF MarkWrite, MarkFails
    <3>2. NoScan.pc \notin {"fetch", "write"}
      BY DEF NoScan
    <3> QED BY <3>1, <3>2
  <2> QED BY <2>1, <2>2
<1>2. UNCHANGED <<cursor, mailbox, seen, missed, now>>
  BY DEF MarkRead, MarkWrite, MarkFails, outside, store
<1> QED BY <1>1, <1>2, SweepLeaves

\* The cursor moves to the scan's start at most, and the queue is empty by then.
LEMMA SweepCommits ==
  ASSUME IInv, SIInv, NEW s \in Scanners, ScanCommit(s)
  PROVE  SIInv'
<1> DEFINE r == [NoScan EXCEPT !.pc = "mark", !.at = scan[s].at]
<1>1. r.pc = "mark"
  BY DEF NoScan
<1>2. /\ scan' = [scan EXCEPT ![s] = r] /\ UNCHANGED <<mailbox, now>>
      /\ cursor' = Advanced(s) /\ seen' = seen \cup scan[s].done
      /\ missed' = missed \cup (IF scan[s].failed THEN {} ELSE scan[s].left)
      /\ scan[s].pc = "fetch" /\ scan[s].todo = <<>>
  BY DEF ScanCommit, outside
<1> HIDE DEF r
<1>3. /\ now \in Nat /\ cursor \in Int /\ OVERLAP \in Nat /\ scan[s].at \in Nat
      /\ scan[s].newest \in Int /\ scan[s].at <= now
      /\ \A m \in DOMAIN mailbox : mailbox[m].at \in Nat
  <2>1. \A m \in DOMAIN mailbox : mailbox[m] \in Mail
    BY ElementOfSeq, LenProperties DEF IInv, TypeOK
  <2>2. scan[s].at <= now
    BY <1>2 DEF SIInv, Swept
  <2> QED BY <2>1, <2>2, Current, ScanFields, DayAssumption DEF Mail
<1>4. NoMailSkipped' /\ cursor' <= now'
  <2>1. CASE scan[s].failed
    BY <1>2, <1>3, <2>1 DEF Advanced, SIInv, NoMailSkipped
  <2>2. CASE ~scan[s].failed
    <3>1. cursor' <= scan[s].at /\ cursor' \in Int
      BY <1>2, <1>3, <2>2 DEF Advanced
    <3>2. Queue(scan[s]) = {}
      BY <1>2 DEF Queue
    <3>3. \A m \in DOMAIN mailbox : mailbox[m].at < scan[s].at => m \in seen' \cup missed'
      BY <1>2, <2>2, <3>2 DEF SIInv, Swept, SweepsOver, Handled
    <3> QED BY <1>2, <1>3, <3>1, <3>3 DEF NoMailSkipped
  <2> QED BY <2>1, <2>2
<1>5. scan'[s] = r /\ \A u \in Scanners \ {s} : scan'[u] = scan[u]
  BY <1>2 DEF IInv, TypeOK
<1>6. Swept(scan[s])'
  BY <1>1, <1>5 DEF Swept
<1>7. seen \subseteq seen' /\ missed \subseteq missed' /\ now' \in Nat /\ now <= now'
  BY <1>2, <1>3
<1> QED BY <1>2, <1>4, <1>5, <1>6, <1>7, SweepsApart DEF SIInv

LEMMA SweepAside ==
  ASSUME IInv, SIInv, Tick \/ Restart \/ PollStep \/ AddManual \/ Archive \/ Delete \/ UNCHANGED vars
  PROVE  SIInv'
<1>1. UNCHANGED <<mailbox, cursor, seen, missed, scan>> /\ now' \in Nat /\ now <= now'
  BY DEF IInv, TypeOK, Tick, Restart, vars, outside, store, PollStep, PollBegin, PollGet, PollAnswered,
         PollNotFound, PollFails, PollStops, PollRaises, AddManual, Archive, Delete, Operator
<1>2. NoMailSkipped' /\ cursor' <= now'
  BY <1>1 DEF SIInv, NoMailSkipped, IInv, TypeOK
<1>3. ASSUME NEW u \in Scanners PROVE Swept(scan[u])'
  <2>1. PICK r \in Scan : r = scan[u] /\ r = scan'[u]
    BY <1>1 DEF IInv, TypeOK
  <2>2. Swept(r) /\ r.at \in Nat /\ now \in Nat
    BY <2>1 DEF SIInv, Scan, IInv, TypeOK
  <2>3. r.pc \in {"fetch", "write"} =>
          /\ r.at <= now'
          /\ ~r.failed => SweepsOver(r, mailbox', Handled(r)')
    BY <1>1, <2>2 DEF Swept, SweepsOver, Handled
  <2> QED BY <2>1, <2>3 DEF Swept, Handled
<1> QED BY <1>2, <1>3 DEF SIInv

LEMMA SweepCrashes ==
  ASSUME IInv, SIInv, Crash
  PROVE  SIInv'
<1>1. scan' = [s \in Scanners |-> NoScan] /\ UNCHANGED <<now, mailbox, cursor, seen, missed>>
  BY DEF Crash, store
<1>2. \A s \in Scanners : Swept(scan[s])'
  BY <1>1 DEF Swept, NoScan
<1> QED BY <1>1, <1>2 DEF SIInv, NoMailSkipped

\* New mail is no older than the start of any scan, nor than the cursor.
LEMMA SweepArrives ==
  ASSUME IInv, SIInv, Arrive
  PROVE  SIInv'
<1>1. PICK c \in Contents :
        mailbox' = Append(mailbox, [at |-> now, ships |-> c.ships, signal |-> c.signal])
  BY DEF Arrive
<1>2. UNCHANGED <<now, cursor, seen, missed, scan>>
  BY DEF Arrive, store
<1>3. mailbox \in Seq(Mail) /\ now \in Nat /\ cursor \in Int /\ OVERLAP \in Nat
  BY DayAssumption DEF IInv, TypeOK
<1>4. \A m \in DOMAIN mailbox' :
        (m \in DOMAIN mailbox /\ mailbox'[m] = mailbox[m]) \/ mailbox'[m].at = now
  <2> DEFINE e == [at |-> now, ships |-> c.ships, signal |-> c.signal]
  <2>1. mailbox' = Append(mailbox, e) /\ e.at = now
    BY <1>1
  <2> HIDE DEF e
  <2>2. e \in Mail
    BY <1>3, ContentAssumption DEF Content, Mail, e
  <2> QED BY <1>3, <2>1, <2>2, AppendProperties, LenProperties
<1>5. NoMailSkipped' /\ cursor' <= now'
  BY <1>2, <1>3, <1>4 DEF SIInv, NoMailSkipped
<1>6. ASSUME NEW u \in Scanners PROVE Swept(scan[u])'
  <2>1. PICK r \in Scan : r = scan[u] /\ r = scan'[u]
    BY <1>2 DEF IInv, TypeOK
  <2>2. Swept(r) /\ r.at \in Nat
    BY <2>1 DEF SIInv, Scan
  <2>3. r.pc \in {"fetch", "write"} =>
          /\ r.at <= now'
          /\ ~r.failed => SweepsOver(r, mailbox', Handled(r)')
    BY <1>2, <1>3, <1>4, <2>2 DEF Swept, SweepsOver, Handled
  <2> QED BY <2>1, <2>3 DEF Swept, Handled
<1> QED BY <1>5, <1>6 DEF SIInv

\* A mail outside the next scan's window has been dealt with or given up.
THEOREM NothingSkipped == Spec => []NoMailSkipped
<1>1. Init => SIInv
  BY DayAssumption DEF Init, SIInv, NoMailSkipped, Swept, NoScan, Never
<1>2. IInv /\ SIInv /\ [Next]_vars => SIInv'
  BY SweepBegins, SweepFetchFails, SweepFetch, SweepNext, SweepWrite, SweepDrops, SweepRests,
     SweepCommits, SweepAside, SweepCrashes, SweepArrives DEF Next, ScanStep, ScanFault
<1>3. SIInv => NoMailSkipped
  BY DEF SIInv
<1> QED BY <1>1, <1>2, <1>3, Inductive, PTL DEF Spec

-----------------------------------------------------------------------------
(* Status.  A session's draft is ahead of the committed tables by steps that  *)
(* each keep the ranking rules; committing it makes them one step, so the     *)
(* rules must compose.  They do because an exception that comes in between    *)
(* leaves its event, and nothing in between can be stale or terminal.         *)

Excepted(t, p) == \E e \in t.events : e.package = p /\ e.status = "exception"
Follows(old, new, excepted) ==
  \/ new = old
  \/ /\ old \notin Terminal /\ new \notin {"stale", "unknown"}
     /\ old \in Ranked /\ new \in Ranked => Rank[new] > Rank[old] \/ excepted
     /\ new = "exception" => excepted
Advances(t, u) ==
  /\ Live(t) \subseteq Live(u) /\ t.events \subseteq u.events
  /\ \A p \in Live(t) : Follows(t.rows[p].status, u.rows[p].status, Excepted(u, p))
Ahead == lock # None /\ ~scan[lock].torn => Advances(db, scan[lock].draft)

\* What one step may do to the statuses: the body of StatusForward.
Forward ==
  \A p \in Live(db) \cap Live(db') :
    LET old == db.rows[p].status
        new == db'.rows[p].status
    IN \/ new = old \/ Torn
       \/ old \notin Terminal /\ (old \in Ranked /\ new \in Ranked =>
            \/ Rank[new] > Rank[old]
            \/ \E e \in db'.events : e.package = p /\ e.status = "exception")

LEMMA FollowsComposes ==
  ASSUME NEW a \in Status, NEW b \in Status, NEW c \in Status, NEW x, NEW y,
         Follows(a, b, x), Follows(b, c, y), x => y
  PROVE  Follows(a, c, y)
<1>1. \A k \in Ranked : Rank[k] \in Nat
  BY DEF Ranked, Rank
<1> QED BY <1>1 DEF Follows, Status, Terminal, Side, Ranked

LEMMA AdvancesComposes ==
  ASSUME NEW t \in Tables, NEW u \in Tables, NEW v \in Tables, Advances(t, u), Advances(u, v)
  PROVE  Advances(t, v)
<1>1. Live(t) \subseteq Live(v) /\ t.events \subseteq v.events
  BY DEF Advances
<1>2. ASSUME NEW p \in Live(t) PROVE Follows(t.rows[p].status, v.rows[p].status, Excepted(v, p))
  <2>1. p \in Id /\ p \in Live(u)
    BY DEF Live, Advances
  <2>2. t.rows[p].status \in Status /\ u.rows[p].status \in Status /\ v.rows[p].status \in Status
    BY <2>1 DEF Tables, Row
  <2>3. Excepted(u, p) => Excepted(v, p)
    BY DEF Excepted, Advances
  <2>4. /\ Follows(t.rows[p].status, u.rows[p].status, Excepted(u, p))
        /\ Follows(u.rows[p].status, v.rows[p].status, Excepted(v, p))
    BY <2>1 DEF Advances
  <2> QED BY ONLY <2>2, <2>3, <2>4, FollowsComposes
<1> QED BY <1>1, <1>2 DEF Advances

\* An observation follows the ranking rules, given that an exception is recorded.
LEMMA MovedFollows ==
  ASSUME NEW row \in Row, NEW status \in Status, NEW at \in Nat, NEW source \in {"email", "carrier"},
         NEW excepted, status = "exception" => excepted
  PROVE  Follows(row.status, Moved(row, status, at, source).status, excepted)
<1>1. Moved(row, status, at, source).status = IF CanTransition(row.status, status) THEN status ELSE row.status
  BY DEF Moved, Row
<1>2. CASE CanTransition(row.status, status)
  BY <1>1, <1>2 DEF CanTransition, Follows, Ranked
<1>3. CASE ~CanTransition(row.status, status)
  BY <1>1, <1>3 DEF Follows
<1> QED BY <1>2, <1>3

LEMMA FlushedFresh ==
  ASSUME NEW row \in Row, NEW new \in Row
  PROVE  Flushed(row, row, new).status = new.status
BY DEF Flushed, Row

LEMMA IdentifiedStatus ==
  ASSUME NEW row \in Row, NEW ship
  PROVE  Identified(row, ship).status = row.status
BY DEF Identified, Row

\* apply_email on tables that are still what was read.
LEMMA AppliedAdvances ==
  ASSUME mailbox \in Seq(Mail), NEW t \in Tables,
         NEW ship \in Shipment, NEW m \in DOMAIN mailbox, NEW touched,
         NEW new \in Tables, new = Applied(t, t, ship, m, touched)
  PROVE  Advances(t, new)
<1> DEFINE mail == mailbox[m]
           found == Matches(t, ship)
           ids == IF found = {} THEN NewIds(t) ELSE found
           Before(p) == IF found = {} THEN Created(ship.carrier, ship.number, ship.order, "email")
                        ELSE Identified(t.rows[p], ship)
           After(p) == IF mail.signal = None \/ p \in touched THEN Before(p)
                       ELSE Moved(Before(p), mail.signal, mail.at, "email")
           RowOf(p) == IF p \notin ids THEN t.rows[p]
                       ELSE IF found = {} THEN After(p)
                       ELSE Flushed(t.rows[p], t.rows[p], After(p))
<1>1. mail.signal \in Status \cup {None} /\ mail.at \in Nat
  <2>1. mail \in Mail
    BY ElementOfSeq, LenProperties
  <2> QED BY <2>1 DEF Mail
<1>2. /\ new.rows = [p \in Id |-> RowOf(p)]
      /\ new.events = t.events \cup Events(ids \ touched, m)
  BY DEF Applied
<1>3. t.events \subseteq new.events
  BY <1>2
<1>4. ASSUME NEW p \in Live(t)
      PROVE  new.rows[p].live /\ Follows(t.rows[p].status, new.rows[p].status, Excepted(new, p))
  <2>1. p \in Id /\ t.rows[p] \in Row /\ t.rows[p].live /\ new.rows[p] = RowOf(p)
    BY <1>2 DEF Live, Tables
  <2>2. CASE p \notin ids
    BY <2>1, <2>2 DEF Follows
  <2>3. CASE p \in ids
    <3>1. found # {}
      BY <2>3 DEF NewIds, Id
    <3>2. Before(p) \in Row /\ Before(p).live /\ Before(p).status = t.rows[p].status
      BY <2>1, <3>1, IdentifiedRow, IdentifiedStatus
    <3>3. After(p) \in Row /\ After(p).live
          /\ Follows(t.rows[p].status, After(p).status, Excepted(new, p))
      <4>1. CASE mail.signal = None \/ p \in touched
        BY <3>2, <4>1 DEF Follows
      <4>2. CASE mail.signal # None /\ p \notin touched
        <5>1. mail.signal = "exception" => Excepted(new, p)
          <6> DEFINE e == [package |-> p, status |-> mail.signal, at |-> mail.at, source |-> "email"]
          <6>1. e \in Events(ids \ touched, m)
            BY <2>3, <4>2 DEF Events
          <6>2. e \in new.events /\ e.package = p /\ e.status = mail.signal
            BY <1>2, <6>1
          <6> QED BY <6>2 DEF Excepted
        <5>2. After(p) = Moved(Before(p), mail.signal, mail.at, "email")
          BY <4>2
        <5> HIDE DEF After, Before, mail
        <5> QED BY <1>1, <3>2, <4>2, <5>1, <5>2, MovedRow, MovedFollows
      <4> QED BY <4>1, <4>2
    <3>4. RowOf(p) = Flushed(t.rows[p], t.rows[p], After(p))
      BY <2>3, <3>1
    <3> HIDE DEF After, Before, RowOf
    <3>5. RowOf(p).status = After(p).status
      BY <2>1, <3>3, <3>4, FlushedFresh
    <3>6. RowOf(p).live
      <4>1. After(p).live = t.rows[p].live
        BY <2>1, <3>3 DEF Row
      <4>2. RowOf(p).live = t.rows[p].live
        BY <2>1, <3>3, <3>4, <4>1, FlushedRow, ZenonT(40)
      <4> QED BY <2>1, <4>2
    <3> QED BY <2>1, <3>3, <3>5, <3>6
  <2> QED BY <2>2, <2>3
<1> HIDE DEF RowOf, ids
<1>5. Live(t) \subseteq Live(new)
  BY <1>4 DEF Live
<1> QED BY <1>3, <1>4, <1>5 DEF Advances

\* A step that leaves every status alone.
LEMMA ForwardStill ==
  ASSUME \A p \in Live(db) \cap Live(db') : db'.rows[p].status = db.rows[p].status
  PROVE  Forward
BY DEF Forward

\* A scanner's step that writes nothing, to the tables or to its draft.
LEMMA ScanStill ==
  ASSUME IInv, Ahead, NEW s \in Scanners, NEW r, scan' = [scan EXCEPT ![s] = r], db' = db,
         lock' \in {lock, None}, lock' = s => r.draft = scan[s].draft /\ r.torn = scan[s].torn
  PROVE  Ahead' /\ Forward
<1>1. scan'[s] = r /\ (\A u \in Scanners \ {s} : scan'[u] = scan[u]) /\ lock \in Scanners \cup {None}
  BY DEF IInv, TypeOK
<1>2. ASSUME lock' # None, ~scan'[lock'].torn PROVE Advances(db', scan'[lock'].draft)
  <2>1. PICK u \in Scanners : u = lock /\ u = lock'
    BY <1>1, <1>2
  <2>2. scan'[u].draft = scan[u].draft /\ scan'[u].torn = scan[u].torn
    BY <1>1, <2>1
  <2>3. Advances(db, scan[u].draft)
    BY <1>2, <2>1, <2>2 DEF Ahead
  <2> QED BY <2>1, <2>2, <2>3
<1> QED BY <1>2, ForwardStill DEF Ahead

LEMMA ForwardBegin ==
  ASSUME IInv, Ahead, NEW s \in Scanners, ScanBegin(s) \/ MarkRead(s) \/ MarkFails(s)
  PROVE  Ahead' /\ Forward
<1>1. lock # s /\ lock' = lock /\ db' = db
  BY Current DEF ScanBegin, MarkRead, MarkFails, store
<1>2. PICK r : scan' = [scan EXCEPT ![s] = r]
  <2>1. ASSUME NEW x, scan' = [scan EXCEPT ![s] = x] PROVE \E r : scan' = [scan EXCEPT ![s] = r]
    BY <2>1
  <2>2. CASE ScanBegin(s)
    <3> DEFINE x == [NoScan EXCEPT !.pc = "fetch", !.at = now, !.todo = Listed, !.left = Unlisted]
    <3>1. scan' = [scan EXCEPT ![s] = x]
      BY <2>2 DEF ScanBegin
    <3> HIDE DEF x
    <3> QED BY <3>1
  <2>3. CASE MarkRead(s)
    <3> DEFINE x == [scan[s] EXCEPT !.pc = "stale", !.draft = db]
    <3>1. scan' = [scan EXCEPT ![s] = x]
      BY <2>3 DEF MarkRead
    <3> HIDE DEF x
    <3> QED BY <3>1
  <2>4. CASE MarkFails(s)
    BY <2>4 DEF MarkFails
  <2> QED BY <2>2, <2>3, <2>4
<1> QED BY <1>1, <1>2, ScanStill

LEMMA ForwardFetch ==
  ASSUME IInv, Ahead, NEW s \in Scanners, FetchFails(s) \/ Fetch(s) \/ ScanNext(s)
  PROVE  Ahead' /\ Forward
<1>1. lock' = lock /\ db' = db
  BY DEF FetchFails, Fetch, ScanNext, store
<1>2. PICK r : /\ scan' = [scan EXCEPT ![s] = r]
               /\ lock = s => r.draft = scan[s].draft /\ r.torn = scan[s].torn
  <2> DEFINE m == Head(scan[s].todo)
             q == Tail(scan[s].todo)
             newest == IF mailbox[m].at > scan[s].newest THEN mailbox[m].at ELSE scan[s].newest
             known == scan[s].done \cup {m}
             ships == mailbox[m].ships
             draft == View(s)
             a == [scan[s] EXCEPT !.todo = q, !.failed = TRUE]
             b == [scan[s] EXCEPT !.todo = q, !.newest = newest, !.done = known]
             c == [scan[s] EXCEPT !.pc = "write", !.newest = newest, !.draft = draft,
                                  !.ships = ships, !.touched = {}]
             d == [scan[s] EXCEPT !.pc = "fetch", !.todo = q, !.done = known]
  <2>1. \/ scan' = [scan EXCEPT ![s] = a] \/ scan' = [scan EXCEPT ![s] = b]
        \/ scan' = [scan EXCEPT ![s] = c] \/ scan' = [scan EXCEPT ![s] = d]
    BY DEF FetchFails, Fetch, ScanNext
  <2>2. lock = s => draft = scan[s].draft
    BY DEF View
  <2> HIDE DEF q, newest, known, ships, draft
  <2>3. scan[s] \in Scan
    BY Current
  <2>4. /\ a.draft = scan[s].draft /\ a.torn = scan[s].torn
        /\ b.draft = scan[s].draft /\ b.torn = scan[s].torn
        /\ c.draft = draft /\ c.torn = scan[s].torn
        /\ d.draft = scan[s].draft /\ d.torn = scan[s].torn
    BY <2>3 DEF Scan
  <2> HIDE DEF a, b, c, d
  <2> QED BY <2>1, <2>2, <2>4
<1> QED BY <1>1, <1>2, ScanStill

LEMMA ForwardDrops ==
  ASSUME IInv, Ahead, NEW s \in Scanners, ScanFails(s) \/ ScanCollides(s)
  PROVE  Ahead' /\ Forward
<1> DEFINE r == [NoScan EXCEPT !.pc = "mark", !.at = scan[s].at]
<1>1. scan' = [scan EXCEPT ![s] = r] /\ db' = db /\ lock' = Unlocked(s)
  BY DEF ScanFails, ScanCollides, store
<1>2. lock' \in {lock, None} /\ lock' # s
  BY <1>1, Current DEF Unlocked
<1> HIDE DEF r
<1> QED BY <1>1, <1>2, ScanStill

\* apply_email, on the draft or, for the first write, on what is committed.
LEMMA ForwardWrite ==
  ASSUME IInv, Ahead, NEW s \in Scanners, ScanWrite(s)
  PROVE  Ahead' /\ Forward
<1> DEFINE ship == Head(scan[s].ships)
           m == Head(scan[s].todo)
           read == scan[s].draft
           t == View(s)
           new == Applied(t, read, ship, m, scan[s].touched)
           rest == Tail(scan[s].ships)
           torn == scan[s].torn \/ t # read
           touched == {p \in Id : [package |-> p, mail |-> m] \in new.links}
           a == [scan[s] EXCEPT !.ships = rest]
           b == [scan[s] EXCEPT !.ships = rest, !.draft = new, !.torn = torn, !.touched = touched]
<1>1. db' = db /\ IInv' /\ scan[s] \in Scan /\ s # None
  BY ScanWriteKeeps, Current DEF ScanWrite, store
<1>2. CASE Noise(s)
  <2>1. scan' = [scan EXCEPT ![s] = a] /\ lock' = lock
    BY <1>2 DEF ScanWrite
  <2> HIDE DEF rest
  <2>2. a.draft = scan[s].draft /\ a.torn = scan[s].torn
    BY <1>1 DEF Scan
  <2> HIDE DEF a
  <2> QED BY <1>1, <2>1, <2>2, ScanStill
<1>3. CASE ~Noise(s)
  <2>1. scan' = [scan EXCEPT ![s] = b] /\ lock' = s /\ lock \in {None, s}
    BY <1>3 DEF ScanWrite
  <2>2. /\ ship \in Shipment /\ m \in DOMAIN mailbox /\ mailbox \in Seq(Mail)
        /\ t \in Tables /\ db \in Tables
    <3>1. ship \in Shipment
      BY <1>1, ScanFields, HeadTailProperties DEF ScanWrite
    <3>2. m \in DOMAIN mailbox
      BY <1>1, Current, ScanFields, TailQueue DEF ScanWrite
    <3> QED BY <3>1, <3>2, Current, ViewSound
  <2>3. Advances(db, db)
    BY DEF Advances, Follows
  <2>4. ~scan[s].torn => Advances(db, t)
    BY <2>1, <2>3, Current DEF Ahead, View
  <2>5. scan'[s].draft \in Tables
    BY <1>1, ScanFields DEF IInv, TypeOK
  <2> HIDE DEF rest, torn, touched, new
  <2>6. b.draft = new /\ b.torn = torn
    BY <1>1 DEF Scan
  <2> HIDE DEF b
  <2>7. scan'[s] = b
    BY <2>1 DEF IInv, TypeOK
  <2>8. ~torn => Advances(db, new)
    <3> SUFFICES ASSUME ~torn PROVE Advances(db, new)
      OBVIOUS
    <3>1. ~scan[s].torn /\ new = Applied(t, t, ship, m, scan[s].touched)
      BY DEF torn, new
    <3>2. new \in Tables
      BY <2>5, <2>6, <2>7
    <3> HIDE DEF t, ship, m
    <3>3. Advances(t, new)
      BY <2>2, <3>1, <3>2, AppliedAdvances
    <3> QED BY <2>2, <2>4, <3>1, <3>2, <3>3, AdvancesComposes
  <2>9. Ahead'
    BY <1>1, <2>1, <2>6, <2>7, <2>8 DEF Ahead
  <2> QED BY <1>1, <2>9, ForwardStill
<1> QED BY <1>2, <1>3

\* The commit makes the whole account one step of the tables.
LEMMA ForwardCommit ==
  ASSUME IInv, Ahead, NEW s \in Scanners, ScanCommit(s)
  PROVE  Ahead' /\ Forward
<1>1. lock' = None /\ db' = View(s) /\ lock \in {None, s} /\ s # None
  BY Current DEF ScanCommit
<1>2. CASE lock # s
  BY <1>1, <1>2, ForwardStill DEF View, Ahead
<1>3. CASE lock = s /\ scan[s].torn
  <2>1. scan'[s] # scan[s]
    <3> DEFINE r == [NoScan EXCEPT !.pc = "mark", !.at = scan[s].at]
    <3>1. scan' = [scan EXCEPT ![s] = r] /\ scan[s].pc = "fetch"
      BY DEF ScanCommit
    <3>2. r.pc = "mark"
      BY DEF NoScan
    <3> HIDE DEF r
    <3> QED BY <3>1, <3>2 DEF IInv, TypeOK
  <2>2. Torn
    BY <1>3, <2>1 DEF Torn
  <2> QED BY <1>1, <2>2 DEF Forward, Ahead
<1>4. CASE lock = s /\ ~scan[s].torn
  <2>1. Advances(db, db')
    BY <1>1, <1>4 DEF Ahead, View
  <2> QED BY <1>1, <2>1 DEF Advances, Follows, Forward, Ahead, Excepted
<1> QED BY <1>2, <1>3, <1>4

\* mark_stale writes on the rows it has read.
LEMMA ForwardMark ==
  ASSUME IInv, Ahead, NEW s \in Scanners, MarkWrite(s)
  PROVE  Ahead' /\ Forward
<1>1. scan' = [scan EXCEPT ![s] = NoScan] /\ lock' = lock /\ lock # s /\ scan[s].pc = "stale"
  BY Current DEF MarkWrite
<1>2. CASE db' = db
  BY <1>1, <1>2, ScanStill
<1>3. CASE db' # db
  <2>1. /\ lock = None
        /\ db' = [db EXCEPT !.rows = [p \in Id |->
              IF p \in Silent(s) THEN [db.rows[p] EXCEPT !.status = "stale"] ELSE db.rows[p]]]
    BY <1>3 DEF MarkWrite
  <2>2. CASE scan[s].draft # db
    <3>1. NoScan.pc = "idle" /\ scan'[s] = NoScan
      BY <1>1 DEF NoScan, IInv, TypeOK
    <3>2. Torn
      BY <1>1, <2>2, <3>1 DEF Torn
    <3> QED BY <1>1, <2>1, <3>2 DEF Forward, Ahead
  <2>3. CASE scan[s].draft = db
    <3>1. \A p \in Id : db.rows[p] \in Row
      BY Current DEF Tables
    <3>2. ASSUME NEW p \in Live(db)
          PROVE  \/ db'.rows[p].status = db.rows[p].status
                 \/ db.rows[p].status \notin Terminal /\ db'.rows[p].status \notin Ranked
      <4>1. p \in Id /\ db.rows[p] \in Row
        BY <3>1 DEF Live
      <4>2. db'.rows[p] = IF p \in Silent(s) THEN [db.rows[p] EXCEPT !.status = "stale"] ELSE db.rows[p]
        BY <2>1, <4>1, Current, TablesParts
      <4>3. CASE p \in Silent(s)
        <5>1. db'.rows[p].status = "stale"
          BY <4>1, <4>2, <4>3 DEF Row
        <5> QED BY <2>3, <4>3, <5>1 DEF Silent, Ranked
      <4>4. CASE p \notin Silent(s)
        BY <4>2, <4>4
      <4> QED BY <4>3, <4>4
    <3> QED BY <1>1, <2>1, <3>2 DEF Forward, Ahead
  <2> QED BY <2>2, <2>3
<1> QED BY <1>2, <1>3

\* The poll: an answer is an observation of the row it was read from.
LEMMA ForwardPoll ==
  ASSUME IInv, Ahead, PollStep
  PROVE  Ahead' /\ Forward
<1>1. scan' = scan /\ lock' = lock
  BY DEF PollStep, PollBegin, PollGet, PollAnswered, PollNotFound, PollFails, PollStops, PollRaises
<1>2. CASE db' = db
  BY <1>1, <1>2, ForwardStill DEF Ahead
<1>3. CASE PollAnswered
  <2> DEFINE p == Head(poll.todo)
  <2>1. /\ poll.pc = "track" /\ lock = None /\ p \in Live(db) /\ p \in Id /\ db.rows[p] \in Row
    BY <1>3, PollParts DEF PollAnswered, Tracking, Live, Tables
  <2>2. CASE poll.snap # db.rows[p]
    <3>1. poll' # poll
      <4>1. poll'.pc = "get"
        BY <1>3, PollParts DEF PollAnswered, Poll
      <4> QED BY <2>1, <4>1
    <3>2. Torn
      BY <2>1, <2>2, <3>1 DEF Torn
    <3> QED BY <1>1, <2>1, <3>2 DEF Forward, Ahead
  <2>3. CASE poll.snap = db.rows[p]
    <3>1. PICK status \in CarrierStatuses, at \in 0 .. now :
            db' = [rows |-> Written([Moved(poll.snap, status, at, "carrier")
                                       EXCEPT !.next = poll.at + INTERVAL]),
                   events |-> db.events \cup {[package |-> p, status |-> status,
                                               at |-> at, source |-> "carrier"]},
                   links |-> db.links]
      BY <1>3 DEF PollAnswered
    <3> DEFINE moved == Moved(db.rows[p], status, at, "carrier")
               checked == [moved EXCEPT !.next = poll.at + INTERVAL]
               row == Flushed(db.rows[p], db.rows[p], checked)
               e == [package |-> p, status |-> status, at |-> at, source |-> "carrier"]
    <3>2. status \in Status /\ at \in Nat
      BY ContentAssumption, PollParts
    <3>3. status = "exception" => Excepted(db', p)
      <4>1. e \in db'.events /\ e.package = p /\ e.status = status
        BY <3>1
      <4> QED BY <4>1 DEF Excepted
    <3>4. moved \in Row /\ Follows(db.rows[p].status, moved.status, Excepted(db', p))
      BY <2>1, <3>2, <3>3, MovedRow, MovedFollows
    <3>5. db'.rows = [db.rows EXCEPT ![p] = row]
      BY <2>3, <3>1 DEF Written
    <3> HIDE DEF moved
    <3>6. checked \in Row /\ checked.status = moved.status
      <4>1. poll.at + INTERVAL \in Int
        BY PollParts, DayAssumption
      <4> QED BY <3>4, <4>1 DEF Row
    <3> HIDE DEF checked
    <3>7. row.status = moved.status
      BY <2>1, <3>6, FlushedFresh
    <3> HIDE DEF row
    <3>8. \A x \in Live(db) : x # p => db'.rows[x].status = db.rows[x].status
      BY <2>1, <3>5, PollParts, TablesParts DEF Live
    <3>9. db'.rows[p].status = moved.status
      BY <2>1, <3>5, <3>7, PollParts, TablesParts
    <3> QED BY <1>1, <2>1, <3>4, <3>8, <3>9 DEF Forward, Ahead, Follows, Excepted
  <2> QED BY <2>2, <2>3
<1>4. CASE PollNotFound \/ PollFails
  <2> DEFINE p == Head(poll.todo)
  <2>1. lock = None /\ p \in Live(db) /\ p \in Id /\ db.rows \in [Id -> Row]
    BY <1>4, PollParts, TablesParts DEF PollNotFound, PollFails, Tracking, Live
  <2>2. PICK next : db' = [db EXCEPT !.rows[p].next = next]
    BY <1>4 DEF PollNotFound, PollFails
  <2>3. db'.rows = [db.rows EXCEPT ![p] = [db.rows[p] EXCEPT !.next = next]]
    BY <2>2, PollParts, TablesParts
  <2>4. \A x \in Id : db'.rows[x].status = db.rows[x].status
    BY <2>1, <2>3 DEF Row
  <2> QED BY <1>1, <2>1, <2>4, ForwardStill DEF Ahead, Live
<1> QED BY <1>2, <1>3, <1>4 DEF PollStep, PollBegin, PollGet, PollStops, PollRaises, store

LEMMA ForwardOperator ==
  ASSUME IInv, Ahead, AddManual \/ Archive \/ Delete
  PROVE  Ahead' /\ Forward
<1>1. lock = None /\ lock' = lock
  BY DEF AddManual, Archive, Delete, Operator
<1>2. db \in Tables /\ db.rows \in [Id -> Row]
  BY PollParts, TablesParts
<1>3. ASSUME NEW x \in Live(db), x \in Live(db') PROVE db'.rows[x].status = db.rows[x].status
  <2>1. x \in Id
    BY DEF Live
  <2>2. CASE AddManual
    <3>1. PICK c \in Carriers, n \in Numbers :
            db' = [db EXCEPT !.rows = [p \in Id |->
                IF p \in NewIds(db) THEN Created(c, n, None, "manual") ELSE db.rows[p]]]
      BY <2>2 DEF AddManual
    <3>2. x \notin NewIds(db)
      BY <2>1 DEF NewIds, Id
    <3>3. db'.rows[x] = db.rows[x]
      BY <1>2, <2>1, <3>1, <3>2, TablesParts
    <3> QED BY <3>3
  <2>3. CASE Archive
    <3>1. PICK p \in Live(db) : db' = [db EXCEPT !.rows[p].archived = ~db.rows[p].archived]
      BY <2>3 DEF Archive
    <3> DEFINE flag == ~db.rows[p].archived
    <3>2. db'.rows = [db.rows EXCEPT ![p] = [db.rows[p] EXCEPT !.archived = flag]]
      BY <1>2, <3>1, TablesParts
    <3> HIDE DEF flag
    <3> QED BY <1>2, <2>1, <3>2 DEF Row, Live
  <2>4. CASE Delete
    <3>1. PICK p \in Live(db) : db' = Erased(p)
      BY <2>4 DEF Delete
    <3>2. db'.rows = [db.rows EXCEPT ![p] = NoRow]
      BY <3>1 DEF Erased
    <3>3. x # p
      BY <1>2, <1>3, <2>1, <3>2 DEF Live, NoRow
    <3> QED BY <1>2, <2>1, <3>2, <3>3
  <2> QED BY <2>2, <2>3, <2>4
<1> QED BY <1>1, <1>3, ForwardStill DEF Ahead

LEMMA ForwardAside ==
  ASSUME IInv, Ahead, Tick \/ Restart \/ Arrive \/ Crash \/ UNCHANGED vars
  PROVE  Ahead' /\ Forward
<1>1. db' = db
  BY DEF Tick, Restart, Arrive, Crash, vars, store
<1>2. Forward
  BY <1>1, ForwardStill
<1>3. CASE Crash
  BY <1>2, <1>3 DEF Crash, Ahead
<1>4. CASE Tick \/ Restart \/ Arrive \/ UNCHANGED vars
  <2>1. lock' = lock /\ scan' = scan
    BY <1>4 DEF Tick, Restart, Arrive, vars
  <2>2. Ahead'
    BY <1>1, <2>1 DEF Ahead
  <2> QED BY <1>2, <2>2
<1> QED BY <1>3, <1>4

\* A terminal status stays, and a rank is lost only through an exception or staleness.
THEOREM StatusesMoveForward == Spec => StatusForward
<1>1. Init => Ahead
  BY DEF Init, Ahead
<1>2. IInv /\ Ahead /\ [Next]_vars => Ahead' /\ Forward
  BY ForwardBegin, ForwardFetch, ForwardDrops, ForwardWrite, ForwardCommit, ForwardMark, ForwardPoll,
     ForwardOperator, ForwardAside DEF Next, ScanStep, ScanFault
<1>3. Spec => []Ahead
  BY <1>1, <1>2, Inductive, PTL DEF Spec
<1>4. StatusForward <=> [][Forward]_vars
  BY DEF StatusForward, Forward
<1> QED BY <1>2, <1>3, <1>4, Inductive, PTL DEF Spec

=============================================================================

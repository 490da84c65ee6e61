------------------------ MODULE DomainPurchaseProofs ------------------------
(* Theorems about DomainPurchase, for every set of names, threads, offers   *)
(* and terms and every limit the assumptions of DomainPurchase allow.       *)
EXTENDS DomainPurchase, FiniteSetTheorems, SequenceTheorems, TLAPS

-----------------------------------------------------------------------------
(* The shapes in which an action edits a job, a purchase or a domain row. *)

LEMMA NoJobTyped == NoJob \in Job
BY DEF NoJob, Job, Answered

LEMMA JobSubmits ==
  ASSUME NEW j \in Job, NEW q \in Nat, NEW n \in Names, NEW y \in Nat, NEW i \in Nat
  PROVE  [j EXCEPT !.quote = q, !.typed = n, !.years = y, !.at = i] \in Job
BY DEF Job

LEMMA JobGranted ==
  ASSUME NEW j \in Job, NEW b \in BOOLEAN
  PROVE  [j EXCEPT !.granted = b] \in Job
BY DEF Job

LEMMA JobAnswered ==
  ASSUME NEW j \in Job, NEW s \in Answered
  PROVE  [j EXCEPT !.status = s] \in Job
BY DEF Job

LEMMA RowAnswered ==
  ASSUME NEW r \in Row, NEW s \in Answered
  PROVE  [r EXCEPT !.status = s] \in Row /\ [r EXCEPT !.status = s].status = s
BY DEF Row

LEMMA RowFlagged ==
  ASSUME NEW r \in Row, NEW b \in BOOLEAN
  PROVE  [r EXCEPT !.flagged = b] \in Row /\ [r EXCEPT !.flagged = b].status = r.status
BY DEF Row

LEMMA DomainMarked ==
  ASSUME NEW d \in Domain, NEW b \in BOOLEAN
  PROVE  [d EXCEPT !.missing = b] \in Domain
BY DEF Domain

LEMMA DomainAdded ==
  ASSUME NEW d \in Domain, NEW b \in BOOLEAN, NEW c \in BOOLEAN, NEW e \in BOOLEAN
  PROVE  [d EXCEPT !.tracked = b, !.owned = c, !.missing = e] \in Domain
BY DEF Domain

LEMMA OutcomeTyped ==
  ASSUME NEW b \in BOOLEAN, NEW reply \in Replies
  PROVE  Outcome(b, reply) \in Answered
BY DEF Replies, Outcome, Answered

\* A term of at least a year never costs less than nothing.
LEMMA TotalTyped ==
  ASSUME NEW quote \in Quote, NEW years \in 1 .. 10
  PROVE  Total(quote, years) \in Nat
<1>1. quote.price \in Nat /\ quote.renewal \in Nat \cup {Unquoted} /\ years - 1 \in Nat
  BY DEF Quote
<1>2. \A a, b \in Nat : a * b \in Nat
  OBVIOUS
<1> QED BY <1>1, <1>2 DEF Total

-----------------------------------------------------------------------------
(* Types, and what a thread in the middle of a purchase knows. *)

Knows ==
  \A t \in Threads :
    /\ pc[t] # "idle" => job[t].quote \in DOMAIN quotes
    /\ pc[t] = "insert" => job[t].years \in 1 .. 10
    /\ pc[t] = "record" => job[t].status \in Answered
Typed == TypeOK /\ Knows

USE DEF Goto, Leave

LEMMA TypedInit == Init => Typed
<1> SUFFICES ASSUME Init PROVE Typed
  OBVIOUS
<1>1. book \in [QuoteId -> Row] /\ domain \in [Names -> Domain]
  BY DEF Init, NoRow, Row, NoDomain, Domain
<1>2. job \in [Threads -> Job] /\ pc \in [Threads -> PC]
  BY NoJobTyped DEF Init, PC
<1>3. quotes \in Seq(Quote) /\ Len(quotes) <= MaxQuotes
  BY BoundAssumption DEF Init
<1>4. up \in BOOLEAN
  BY Zenon DEF Init
<1> QED BY <1>1, <1>2, <1>3, <1>4 DEF Init, Typed, TypeOK, Knows

LEMMA QuoteTyped ==
  ASSUME Typed, NEW n \in Names, NEW offer \in Offers, CreateQuote(n, offer)
  PROVE  Typed'
<1> USE DEF Typed, TypeOK, Knows, processVars, threadVars, accountVars
<1>1. /\ offer.price \in Nat \ {0} /\ offer.renewal \in Nat \cup {Unquoted}
      /\ offer.premium \in BOOLEAN
  BY OfferAssumption DEF CreateQuote, Offer
<1>2. StoredRenewal(offer) \in Nat \cup {Unquoted} /\ now + QUOTE_TTL \in Nat
  BY <1>1, LimitAssumption DEF StoredRenewal
<1>3. (offer.renewal = Unquoted) \in BOOLEAN
  OBVIOUS
<1>4. StoredQuote(n, offer) \in Quote
  BY <1>1, <1>2, <1>3 DEF StoredQuote, Quote
<1>5. /\ quotes \in Seq(Quote) /\ quotes' = Append(quotes, StoredQuote(n, offer))
      /\ Len(quotes) < MaxQuotes
  BY DEF CreateQuote
<1>6. /\ quotes' \in Seq(Quote) /\ Len(quotes') = Len(quotes) + 1
      /\ DOMAIN quotes = 1 .. Len(quotes) /\ DOMAIN quotes' = 1 .. Len(quotes')
      /\ Len(quotes) \in Nat
  BY <1>4, <1>5, AppendProperties, LenProperties
<1>7. DOMAIN quotes \subseteq DOMAIN quotes' /\ Len(quotes') <= MaxQuotes
  BY <1>5, <1>6, BoundAssumption
<1> QED BY <1>6, <1>7 DEF CreateQuote

LEMMA SubmitTyped ==
  ASSUME Typed, NEW t \in Threads, Submit(t)
  PROVE  Typed'
<1> USE DEF Typed, TypeOK, Knows, processVars, tableVars, accountVars, PC
<1>1. PICK q \in DOMAIN quotes, typed \in Names, years \in Years :
        job' = [job EXCEPT ![t] = [NoJob EXCEPT !.quote = q, !.typed = typed,
                                                !.years = years, !.at = now]]
  BY DEF Submit
<1>2. q \in Nat /\ years \in Nat /\ now \in Nat
  BY OfferAssumption, LenProperties
<1>3. [NoJob EXCEPT !.quote = q, !.typed = typed, !.years = years, !.at = now] \in Job
  BY ONLY <1>2, NoJobTyped, JobSubmits
<1>4. job' \in [Threads -> Job]
  BY <1>1, <1>3
<1>5. job'[t].quote = q
  BY <1>1 DEF NoJob
<1>6. pc' = [pc EXCEPT ![t] = "asked"] /\ \A u \in Threads \ {t} : job'[u] = job[u]
  BY <1>1 DEF Submit
<1> QED BY <1>4, <1>5, <1>6 DEF Submit

LEMMA StepTyped ==
  ASSUME Typed, NEW t \in Threads, Step(t)
  PROVE  Typed'
<1> USE DEF Typed, TypeOK, Knows, processVars, tableVars, accountVars, PC
<1> DEFINE j == job[t]
<1>0. /\ j \in Job /\ NoJob \in Job /\ j.granted \in BOOLEAN /\ j.at \in Nat /\ j.years \in Nat
      /\ DOMAIN quotes \subseteq QuoteId
      /\ \A q \in DOMAIN quotes : quotes[q] \in Quote /\ quotes[q].name \in Names
  <2>1. j \in Job
    OBVIOUS
  <2>2. DOMAIN quotes \subseteq QuoteId
    BY LenProperties, BoundAssumption DEF QuoteId
  <2>3. \A q \in DOMAIN quotes : quotes[q] \in Quote
    BY LenProperties, ElementOfSeq
  <2>4. \A quote \in Quote : quote.name \in Names
    BY DEF Quote
  <2> QED BY <2>1, <2>2, <2>3, <2>4, NoJobTyped DEF Job
<1>1. CASE Refuse(t)
  BY <1>0, <1>1 DEF Refuse
<1>2. CASE PassGuards(t)
  BY <1>2 DEF PassGuards, Allowed
<1>3. CASE InsertPending(t)
  <2>1. j.quote \in DOMAIN quotes /\ j.years \in 1 .. 10 /\ quotes \in Seq(Quote)
    BY <1>3 DEF InsertPending
  <2>2. Total(quotes[j.quote], j.years) \in Nat
    <3>1. quotes[j.quote] \in Quote
      BY <1>0, <2>1
    <3> QED BY <2>1, <3>1, TotalTyped
  <2>3. NewRow(j) \in Row
    BY <1>0, <2>2 DEF NewRow, Row
  <2>4. book' \in [QuoteId -> Row]
    BY <1>3, <2>3 DEF InsertPending
  <2> QED BY <1>3, <2>4 DEF InsertPending
<1>4. CASE InsertRefused(t)
  BY <1>0, <1>4 DEF InsertRefused
<1>5. CASE Order(t)
  <2>1. j.quote \in QuoteId /\ quotes[j.quote].name \in Names
    BY <1>0, <1>5 DEF Order
  <2>2. /\ job' = job \/ job' = [job EXCEPT ![t].granted = TRUE]
        /\ held' \subseteq held \cup {quotes[j.quote].name}
        /\ charged' \subseteq charged \cup {j.quote}
        /\ orders' = [orders EXCEPT ![j.quote] = @ + 1]
        /\ pc' = [pc EXCEPT ![t] = "answer"]
        /\ UNCHANGED <<now, processVars, tableVars, lock, listing>>
    BY <1>5 DEF Order
  <2>3. [j EXCEPT !.granted = TRUE] \in Job
    BY <1>0, JobGranted
  <2>4. /\ job' \in [Threads -> Job]
        /\ \A u \in Threads : job'[u].quote = job[u].quote
        /\ \A u \in Threads \ {t} : job'[u] = job[u]
    <3>1. CASE job' = job
      BY <3>1
    <3>2. CASE job' = [job EXCEPT ![t].granted = TRUE]
      BY <1>0, <2>3, <3>2 DEF Job
    <3> QED BY <2>2, <3>1, <3>2
  <2>5. orders' \in [QuoteId -> Nat]
    BY <2>1, <2>2
  <2>6. pc' \in [Threads -> PC]
    BY <2>2
  <2>7. held' \subseteq Names /\ charged' \subseteq QuoteId
    BY <2>1, <2>2
  <2>8. Knows'
    <3>1. /\ DOMAIN quotes' = DOMAIN quotes
          /\ book' = book
          /\ \A u \in Threads \ {t} : pc'[u] = pc[u]
          /\ pc'[t] = "answer" /\ pc[t] = "order"
      BY <1>5, <2>2 DEF Order
    <3> QED BY <2>4, <3>1
  <2> QED BY <2>2, <2>4, <2>5, <2>6, <2>7, <2>8
<1>6. CASE Answer(t)
  <2>1. PICK reply \in Replies : job' = [job EXCEPT ![t].status = Outcome(j.granted, reply)]
    BY <1>6 DEF Answer
  <2> DEFINE s == Outcome(j.granted, reply)
  <2>2. s \in Answered
    BY <1>0, OutcomeTyped
  <2> HIDE DEF s
  <2>3. [j EXCEPT !.status = s] \in Job
    BY <1>0, <2>2, JobAnswered
  <2>4. job' = [job EXCEPT ![t].status = s]
    BY <2>1 DEF s
  <2>5. /\ job' \in [Threads -> Job] /\ job'[t].status = s /\ job'[t].quote = job[t].quote
        /\ \A u \in Threads \ {t} : job'[u] = job[u]
    BY <1>0, <2>3, <2>4 DEF Job
  <2> QED BY <1>6, <2>2, <2>5 DEF Answer
<1>7. CASE Record(t)
  <2>1. j.quote \in QuoteId /\ j.status \in Answered /\ quotes[j.quote].name \in Names
    BY <1>0, <1>7 DEF Record
  <2>2. [book[j.quote] EXCEPT !.status = j.status] \in Row
    <3>1. book[j.quote] \in Row
      BY <2>1
    <3> QED BY ONLY <2>1, <3>1, RowAnswered
  <2>3. book' \in [QuoteId -> Row]
    BY <1>7, <2>1, <2>2 DEF Record
  <2>4. domain' \in [Names -> Domain]
    BY <1>7, <2>1 DEF Record, MarkOwned, Domain
  <2> QED BY <1>0, <1>7, <2>3, <2>4 DEF Record
<1>8. CASE RecordRaises(t)
  BY <1>0, <1>8 DEF RecordRaises
<1> QED
  BY <1>1, <1>2, <1>3, <1>4, <1>5, <1>6, <1>7, <1>8 DEF Step

LEMMA PortfolioTyped ==
  ASSUME Typed, Portfolio
  PROVE  Typed'
<1> USE DEF Typed, TypeOK, Knows, processVars, tableVars, threadVars, accountVars
<1>0. \A n \in Names : /\ domain[n] \in Domain /\ domain[n].owned \in BOOLEAN
                        /\ domain[n].missing \in BOOLEAN /\ domain[n].linked \in BOOLEAN
                        /\ domain[n].tracked \in BOOLEAN
  BY DEF Domain
<1>1. CASE SyncList
  BY <1>1 DEF SyncList
<1>2. CASE SyncWrite
  <2>1. \A n \in Names :
          /\ [tracked |-> TRUE, owned |-> ~domain[n].tracked \/ domain[n].owned,
              linked |-> TRUE, missing |-> FALSE] \in Domain
          /\ [domain[n] EXCEPT !.missing = @ \/ domain[n].linked] \in Domain
    BY <1>0, DomainMarked DEF Domain
  <2>2. domain' \in [Names -> Domain]
    BY <1>2, <2>1 DEF SyncWrite
  <2> QED BY <1>2, <2>2 DEF SyncWrite
<1>3. CASE Reconcile
  <2>1. ASSUME NEW q \in QuoteId PROVE book'[q] \in Row
    <3>1. book[q] \in Row /\ "succeeded" \in Answered /\ (book[q].flagged \/ Overdue(q)) \in BOOLEAN
      BY DEF Answered
    <3>2. /\ [book[q] EXCEPT !.status = "succeeded"] \in Row
          /\ [book[q] EXCEPT !.flagged = @ \/ Overdue(q)] \in Row
      BY ONLY <3>1, RowAnswered, RowFlagged
    <3> QED BY <1>3, <3>1, <3>2 DEF Reconcile
  <2>2. book' \in [QuoteId -> Row]
    BY <1>3, <2>1 DEF Reconcile
  <2> QED BY <1>3, <2>2 DEF Reconcile
<1>4. ASSUME NEW n \in Names, Remove(n) PROVE Typed'
  <2>1. [domain[n] EXCEPT !.missing = TRUE] \in Domain
    BY <1>0, DomainMarked
  <2>2. domain' \in [Names -> Domain]
    BY <1>4, <2>1 DEF Remove
  <2> QED BY <1>4, <2>2 DEF Remove
<1>5. ASSUME NEW n \in Names, NEW owned \in BOOLEAN, AddManual(n, owned) PROVE Typed'
  <2>1. [domain[n] EXCEPT !.tracked = TRUE, !.owned = owned, !.missing = FALSE] \in Domain
    BY <1>0, DomainAdded
  <2>2. domain' \in [Names -> Domain]
    BY <1>5, <2>1 DEF AddManual
  <2> QED BY <1>5, <2>2 DEF AddManual
<1> QED
  BY <1>1, <1>2, <1>3, <1>4, <1>5 DEF Portfolio

LEMMA NextTyped == Typed /\ [Next]_vars => Typed'
<1> SUFFICES ASSUME Typed, [Next]_vars PROVE Typed'
  OBVIOUS
<1> USE DEF Typed, TypeOK, Knows, processVars, tableVars, threadVars, accountVars
<1>1. CASE Tick \/ UNCHANGED vars
  BY <1>1 DEF Tick, vars
<1>2. CASE Crash
  <2>1. up' \in BOOLEAN
    BY <1>2, Zenon DEF Crash
  <2>2. job' \in [Threads -> Job] /\ pc' \in [Threads -> PC] /\ \A t \in Threads : pc'[t] = "idle"
    BY <1>2, NoJobTyped DEF Crash, PC
  <2>3. crashes' \in Nat /\ lock' = None /\ listing' = {NoSync}
    BY <1>2 DEF Crash
  <2>4. UNCHANGED <<now, tableVars, accountVars>>
    BY <1>2 DEF Crash
  <2> QED BY <2>1, <2>2, <2>3, <2>4
<1>3. CASE Restart
  BY <1>3 DEF Restart
<1>4. CASE Portfolio
  BY <1>4, PortfolioTyped
<1>5. ASSUME NEW n \in Names, NEW offer \in Offers, CreateQuote(n, offer) PROVE Typed'
  BY <1>5, QuoteTyped
<1>6. ASSUME NEW t \in Threads, Submit(t) PROVE Typed'
  BY <1>6, SubmitTyped
<1>7. ASSUME NEW t \in Threads, Step(t) PROVE Typed'
  BY <1>7, StepTyped
<1> QED
  BY <1>1, <1>2, <1>3, <1>4, <1>5, <1>6, <1>7 DEF Next

\* Every variable keeps its type; in particular no purchase is ever booked at a
\* negative price, whatever the quote and the term.
THEOREM TypeCorrect == Spec => []TypeOK
<1>1. Spec => []Typed
  BY TypedInit, NextTyped, PTL DEF Spec
<1> QED BY <1>1, PTL DEF Typed

-----------------------------------------------------------------------------
(* At most one order per quote: the row a thread inserted under the UNIQUE   *)
(* quote_id stays "pending" and its own until the thread has written it back. *)

Buying(t) == pc[t] \in {"order", "answer", "record"}

Booked ==
  /\ OneOrderPerQuote
  /\ \A q \in QuoteId : book[q].status = "none" => orders[q] = 0
  /\ \A t \in Threads : Buying(t) => book[job[t].quote].status = "pending"
  /\ \A t \in Threads : pc[t] = "order" => orders[job[t].quote] = 0
  /\ \A t, u \in Threads : t # u /\ Buying(t) /\ Buying(u) => job[t].quote # job[u].quote

LEMMA BookedInit == Init => Booked
BY DEF Init, Booked, OneOrderPerQuote, Buying, NoRow

\* A step that orders nothing, puts no thread into a purchase and leaves every
\* missing or pending row alone.
LEMMA QuietBooked ==
  ASSUME Typed, Booked,
         UNCHANGED orders,
         \A q \in QuoteId : \/ book'[q].status = book[q].status
                            \/ book[q].status = "unknown" /\ book'[q].status = "succeeded",
         \A t \in Threads : Buying(t)' =>
           /\ pc'[t] = pc[t] \/ (pc[t] = "answer" /\ pc'[t] = "record")
           /\ job'[t].quote = job[t].quote
  PROVE  Booked'
<1>1. \A t \in Threads : Buying(t)' => Buying(t) /\ job[t].quote \in QuoteId
  <2>1. DOMAIN quotes \subseteq QuoteId
    BY LenProperties, BoundAssumption DEF QuoteId, Typed, TypeOK
  <2> QED BY <2>1 DEF Buying, Typed, Knows
<1> QED BY <1>1 DEF Booked, OneOrderPerQuote, Buying

LEMMA ReconcileKeepsRows ==
  ASSUME Typed, Reconcile, NEW q \in QuoteId
  PROVE  \/ book'[q].status = book[q].status
         \/ book[q].status = "unknown" /\ book'[q].status = "succeeded"
<1>1. book[q] \in Row /\ (book[q].flagged \/ Overdue(q)) \in BOOLEAN
  BY DEF Typed, TypeOK, Row
<1>2. [book[q] EXCEPT !.flagged = @ \/ Overdue(q)].status = book[q].status
  BY ONLY <1>1, RowFlagged
<1>3. "succeeded" \in Answered
  BY DEF Answered
<1>4. [book[q] EXCEPT !.status = "succeeded"].status = "succeeded"
  BY ONLY <1>1, <1>3, RowAnswered
<1> QED BY <1>2, <1>4 DEF Reconcile, Resolved

LEMMA StepBooked ==
  ASSUME Typed, Booked, NEW t \in Threads, Step(t)
  PROVE  Booked'
<1> USE DEF processVars, tableVars, accountVars
<1>0. /\ \A u \in Threads : Buying(u) => job[u].quote \in QuoteId
      /\ pc[t] # "idle" => job[t].quote \in QuoteId
      /\ job \in [Threads -> Job] /\ pc \in [Threads -> PC]
      /\ book \in [QuoteId -> Row] /\ orders \in [QuoteId -> Nat]
  <2>1. DOMAIN quotes \subseteq QuoteId
    BY LenProperties, BoundAssumption DEF QuoteId, Typed, TypeOK
  <2> QED BY <2>1 DEF Buying, Typed, Knows, TypeOK
<1>1. CASE Refuse(t) \/ PassGuards(t) \/ InsertRefused(t) \/ RecordRaises(t)
  BY <1>0, <1>1, QuietBooked DEF Refuse, PassGuards, InsertRefused, RecordRaises, Buying
<1>2. CASE InsertPending(t)
  <2> DEFINE q == job[t].quote
  <2>1. q \in QuoteId /\ book[q].status = "none"
    BY <1>0, <1>2 DEF InsertPending
  <2>2. /\ book'[q].status = "pending" /\ pc'[t] = "order"
        /\ \A r \in QuoteId \ {q} : book'[r] = book[r]
        /\ \A u \in Threads \ {t} : pc'[u] = pc[u]
        /\ UNCHANGED <<orders, job>>
    BY <1>0, <1>2, <2>1 DEF InsertPending, NewRow
  <2>3. \A u \in Threads \ {t} : Buying(u) => job[u].quote # q
    BY <2>1 DEF Booked
  <2> QED BY <1>0, <2>1, <2>2, <2>3 DEF Booked, OneOrderPerQuote, Buying
<1>3. CASE Order(t)
  <2> DEFINE q == job[t].quote
  <2>1. q \in QuoteId /\ book[q].status = "pending" /\ orders[q] = 0
    BY <1>0, <1>3 DEF Order, Booked, Buying
  <2>2. /\ orders'[q] = 1 /\ pc'[t] = "answer"
        /\ \A r \in QuoteId \ {q} : orders'[r] = orders[r]
        /\ \A u \in Threads \ {t} : pc'[u] = pc[u]
        /\ UNCHANGED book
    BY <1>0, <1>3, <2>1 DEF Order
  <2>3. \A u \in Threads : job'[u].quote = job[u].quote
    BY <1>0, <1>3, JobGranted DEF Order, Job
  <2>4. \A u \in Threads \ {t} : Buying(u) => job[u].quote # q
    BY <1>3 DEF Booked, Buying, Order
  <2> QED BY <1>0, <1>3, <2>1, <2>2, <2>3, <2>4 DEF Booked, OneOrderPerQuote, Buying, Order
<1>4. CASE Answer(t)
  <2>1. \A u \in Threads : job'[u].quote = job[u].quote
    BY <1>0, <1>4 DEF Answer, Job
  <2> QED BY <1>0, <1>4, <2>1, QuietBooked DEF Answer, Buying
<1>5. CASE Record(t)
  <2> DEFINE q == job[t].quote
  <2>1. q \in QuoteId /\ job[t].status \in Answered
    BY <1>0, <1>5 DEF Record, Typed, Knows
  <2>2. book'[q].status \in Answered
    BY <1>0, <1>5, <2>1 DEF Record, Row
  <2>3. /\ pc'[t] = "idle"
        /\ \A r \in QuoteId \ {q} : book'[r] = book[r]
        /\ \A u \in Threads \ {t} : pc'[u] = pc[u] /\ job'[u] = job[u]
        /\ UNCHANGED orders
    BY <1>0, <1>5, <2>1 DEF Record
  <2>4. \A u \in Threads \ {t} : Buying(u) => job[u].quote # q
    BY <1>5 DEF Booked, Buying, Record
  <2> QED
    BY <1>0, <2>1, <2>2, <2>3, <2>4 DEF Booked, OneOrderPerQuote, Buying, Answered
<1> QED BY <1>1, <1>2, <1>3, <1>4, <1>5 DEF Step

LEMMA NextBooked == Typed /\ Booked /\ [Next]_vars => Booked'
<1> SUFFICES ASSUME Typed, Booked, [Next]_vars PROVE Booked'
  OBVIOUS
<1> USE DEF processVars, tableVars, threadVars, accountVars
<1>1. CASE Tick \/ Crash \/ Restart \/ UNCHANGED vars
  BY <1>1, QuietBooked DEF Tick, Crash, Restart, vars, Buying
<1>2. CASE Portfolio
  <2>1. UNCHANGED <<orders, pc, job>>
    BY <1>2 DEF Portfolio, SyncList, SyncWrite, Reconcile, Remove, AddManual
  <2>2. UNCHANGED book \/ Reconcile
    BY <1>2 DEF Portfolio, SyncList, SyncWrite, Remove, AddManual
  <2> QED BY <2>1, <2>2, ReconcileKeepsRows, QuietBooked DEF Buying
<1>3. ASSUME NEW n \in Names, NEW offer \in Offers, CreateQuote(n, offer) PROVE Booked'
  BY <1>3, QuietBooked DEF CreateQuote, Buying
<1>4. ASSUME NEW t \in Threads, Submit(t) PROVE Booked'
  <2>1. \A u \in Threads : Buying(u)' => u # t /\ pc'[u] = pc[u] /\ job'[u] = job[u]
    BY <1>4 DEF Submit, Buying, Typed, TypeOK
  <2> QED BY <1>4, <2>1, QuietBooked DEF Submit
<1>5. ASSUME NEW t \in Threads, Step(t) PROVE Booked'
  BY <1>5, StepBooked
<1> QED BY <1>1, <1>2, <1>3, <1>4, <1>5 DEF Next

LEMMA InvariantBooked == Spec => [](Typed /\ Booked)
<1>1. Init => Typed /\ Booked
  BY TypedInit, BookedInit
<1>2. Typed /\ Booked /\ [Next]_vars => (Typed /\ Booked)'
  BY NextTyped, NextBooked
<1> QED BY <1>1, <1>2, PTL DEF Spec

\* The registrar is asked at most once for a quote, for any number of threads,
\* submissions and crashes.
THEOREM OrderedOnce == Spec => []OneOrderPerQuote
<1>1. Typed /\ Booked => OneOrderPerQuote
  BY DEF Booked
<1> QED BY <1>1, InvariantBooked, PTL

-----------------------------------------------------------------------------
(* The purchase table implements PurchaseIntent. *)

RowStatus == [q \in QuoteId |-> book[q].status]

LEMMA IntentStep ==
  ASSUME Typed, Booked, [Next]_vars
  PROVE  [Intent!Next]_RowStatus
<1> USE DEF processVars, tableVars, threadVars, accountVars
<1>0. /\ book \in [QuoteId -> Row] /\ job \in [Threads -> Job] /\ pc \in [Threads -> PC]
      /\ \A t \in Threads : pc[t] # "idle" => job[t].quote \in QuoteId
  <2>1. DOMAIN quotes \subseteq QuoteId
    BY LenProperties, BoundAssumption DEF QuoteId, Typed, TypeOK
  <2> QED BY <2>1 DEF Typed, Knows, TypeOK
<1>1. CASE UNCHANGED book
  BY <1>1 DEF RowStatus
<1>2. ASSUME NEW t \in Threads, InsertPending(t) PROVE \E q \in QuoteId : Intent!Submit(q)
  <2> DEFINE q == job[t].quote
  <2>1. q \in QuoteId /\ RowStatus[q] = "none"
    BY <1>0, <1>2 DEF InsertPending, RowStatus
  <2>2. RowStatus' = [RowStatus EXCEPT ![q] = "pending"]
    BY <1>0, <1>2, <2>1 DEF InsertPending, RowStatus, NewRow
  <2> QED BY <2>1, <2>2 DEF Intent!Submit, RowStatus
<1>3. ASSUME NEW t \in Threads, Record(t) PROVE \E q \in QuoteId : Intent!Answer(q)
  <2> DEFINE q == job[t].quote
             s == job[t].status
  <2>1. q \in QuoteId /\ RowStatus[q] = "pending" /\ s \in Answered
    BY <1>0, <1>3 DEF Record, RowStatus, Booked, Buying, Typed, Knows
  <2>2. [book[q] EXCEPT !.status = s].status = s
    BY <1>0, <2>1, RowAnswered
  <2>3. RowStatus' = [RowStatus EXCEPT ![q] = s]
    BY <1>0, <1>3, <2>1, <2>2 DEF Record, RowStatus
  <2> QED BY <2>1, <2>3 DEF Intent!Answer, RowStatus, Answered
<1>4. ASSUME Reconcile PROVE Intent!Resolve
  <2> DEFINE Q == {q \in QuoteId : RowStatus'[q] # RowStatus[q]}
  <2>1. \A q \in Q : RowStatus[q] = "unknown" /\ RowStatus'[q] = "succeeded"
    BY <1>4, ReconcileKeepsRows DEF RowStatus
  <2>2. RowStatus' = [q \in QuoteId |-> IF q \in Q THEN "succeeded" ELSE RowStatus[q]]
    BY <2>1 DEF RowStatus
  <2> HIDE DEF Q
  <2>3. Q \in SUBSET {q \in QuoteId : RowStatus[q] = "unknown"}
    BY <2>1 DEF Q
  <2> QED BY <2>2, <2>3 DEF Intent!Resolve, RowStatus
<1>5. ASSUME ~Reconcile, \A t \in Threads : ~InsertPending(t) /\ ~Record(t)
      PROVE  UNCHANGED book
  <2>1. ASSUME NEW t \in Threads, Submit(t) \/ Step(t) PROVE UNCHANGED book
    BY <1>5, <2>1 DEF Submit, Step, Refuse, PassGuards, InsertRefused, Order, Answer, RecordRaises
  <2>2. CASE Portfolio
    BY <1>5, <2>2 DEF Portfolio, SyncList, SyncWrite, Remove, AddManual
  <2>3. ASSUME NEW n \in Names, NEW offer \in Offers, CreateQuote(n, offer) PROVE UNCHANGED book
    BY <2>3 DEF CreateQuote
  <2>4. CASE Tick \/ Crash \/ Restart \/ UNCHANGED vars
    BY <2>4 DEF Tick, Crash, Restart, vars
  <2> QED BY <2>1, <2>2, <2>3, <2>4 DEF Next
<1> QED BY <1>1, <1>2, <1>3, <1>4, <1>5 DEF Intent!Next

\* Every purchase row is written before the registrar is called, is answered
\* once, and afterwards only moves from "unknown" to "succeeded".
THEOREM PurchaseKeepsIntent == Spec => KeepsIntent
<1>1. Init => Intent!Init
  BY DEF Init, Intent!Init, NoRow
<1>2. Typed /\ Booked /\ [Next]_vars => [Intent!Next]_([q \in QuoteId |-> book[q].status])
  BY IntentStep DEF RowStatus
<1> QED BY <1>1, <1>2, InvariantBooked, PTL DEF Spec, KeepsIntent, Intent!Spec

-----------------------------------------------------------------------------
(* What is billed is what was booked: a row keeps the price of its quote and *)
(* term, and the registrar bills only for rows.                              *)

AsOffered(quote) ==
  quote.price = quote.offer.price /\ quote.renewal = StoredRenewal(quote.offer)

Booking(q, row) ==
  row.status # "none" =>
    q \in DOMAIN quotes /\ row.years \in 1 .. 10 /\ row.price = Total(quotes[q], row.years)

Priced ==
  /\ \A q \in DOMAIN quotes : AsOffered(quotes[q])
  /\ \A q \in QuoteId : Booking(q, book[q])
  /\ \A q \in charged : book[q].status # "none"

LEMMA PricedInit == Init => Priced
BY DEF Init, Priced, Booking, NoRow

\* A step that leaves the quotes alone and prices no row anew.
LEMMA QuietPriced ==
  ASSUME Typed, Priced,
         UNCHANGED <<quotes, charged>>,
         \A q \in QuoteId : /\ book'[q].price = book[q].price /\ book'[q].years = book[q].years
                            /\ book'[q].status = "none" <=> book[q].status = "none"
  PROVE  Priced'
BY DEF Typed, TypeOK, Priced, Booking

LEMMA StepPriced ==
  ASSUME Typed, Booked, Priced, NEW t \in Threads, Step(t)
  PROVE  Priced'
<1> USE DEF processVars, tableVars, accountVars
<1>0. /\ \A u \in Threads : pc[u] # "idle" => job[u].quote \in DOMAIN quotes
      /\ \A u \in Threads : pc[u] # "idle" => job[u].quote \in QuoteId
      /\ job \in [Threads -> Job] /\ book \in [QuoteId -> Row]
  <2>1. DOMAIN quotes \subseteq QuoteId
    BY LenProperties, BoundAssumption DEF QuoteId, Typed, TypeOK
  <2> QED BY <2>1 DEF Typed, Knows, TypeOK
<1>1. CASE Refuse(t) \/ PassGuards(t) \/ InsertRefused(t) \/ RecordRaises(t) \/ Answer(t)
  BY <1>1, QuietPriced DEF Refuse, PassGuards, InsertRefused, RecordRaises, Answer
<1>2. CASE InsertPending(t)
  <2> DEFINE q == job[t].quote
  <2>1. /\ q \in DOMAIN quotes /\ q \in QuoteId /\ job[t].years \in 1 .. 10
        /\ UNCHANGED <<quotes, charged>>
        /\ \A r \in QuoteId \ {q} : book'[r] = book[r]
        /\ book'[q] = NewRow(job[t])
    BY <1>0, <1>2 DEF InsertPending, Typed, Knows
  <2>2. book'[q].status = "pending" /\ Booking(q, book'[q])
    BY <2>1 DEF NewRow, Booking
  <2> HIDE DEF q
  <2>3. \A r \in QuoteId : Booking(r, book'[r])
    BY <2>1, <2>2 DEF Priced
  <2>4. \A r \in charged : book'[r].status # "none"
    BY <2>1, <2>2 DEF Priced, Typed, TypeOK
  <2> QED BY <2>1, <2>3, <2>4 DEF Priced, Booking
<1>3. CASE Order(t)
  <2>1. /\ UNCHANGED <<quotes, book>> /\ charged' \subseteq charged \cup {job[t].quote}
        /\ book[job[t].quote].status = "pending"
    BY <1>3 DEF Order, Booked, Buying
  <2> QED BY <2>1 DEF Priced, Booking
<1>4. CASE Record(t)
  <2> DEFINE q == job[t].quote
  <2>1. /\ q \in QuoteId /\ job[t].status \in Answered /\ book[q].status = "pending"
        /\ book' = [book EXCEPT ![q].status = job[t].status] /\ UNCHANGED <<quotes, charged>>
    BY <1>0, <1>4 DEF Record, Typed, Knows, Booked, Buying
  <2>2. \A r \in QuoteId : /\ book'[r].price = book[r].price /\ book'[r].years = book[r].years
                           /\ book'[r].status = "none" <=> book[r].status = "none"
    BY <1>0, <2>1 DEF Row, Answered
  <2> QED BY <2>1, <2>2, QuietPriced
<1> QED BY <1>1, <1>2, <1>3, <1>4 DEF Step

LEMMA ReconcileKeepsTerms ==
  ASSUME Typed, Reconcile, NEW q \in QuoteId
  PROVE  /\ book'[q].price = book[q].price /\ book'[q].years = book[q].years
         /\ book'[q].at = book[q].at
<1>1. book[q] \in Row
  BY DEF Typed, TypeOK
<1>2. book'[q] = IF q \notin DOMAIN quotes THEN book[q]
                 ELSE IF Resolved(q) THEN [book[q] EXCEPT !.status = "succeeded"]
                 ELSE [book[q] EXCEPT !.flagged = book[q].flagged \/ Overdue(q)]
  BY DEF Reconcile
<1>3. ASSUME NEW b, NEW r, r \in {[book[q] EXCEPT !.flagged = b], [book[q] EXCEPT !.status = b]}
      PROVE  r.price = book[q].price /\ r.years = book[q].years /\ r.at = book[q].at
  BY <1>1, <1>3 DEF Row
<1> QED BY <1>2, <1>3

LEMMA QuotePriced ==
  ASSUME Typed, Priced, NEW n \in Names, NEW offer \in Offers, CreateQuote(n, offer)
  PROVE  Priced'
<1>1. /\ quotes' = Append(quotes, StoredQuote(n, offer)) /\ UNCHANGED <<book, charged>>
      /\ quotes \in Seq(Quote)
  BY DEF CreateQuote, accountVars, Typed, TypeOK
<1>2. quotes' \in Seq(Quote)
  BY QuoteTyped DEF Typed, TypeOK
<1>3. AsOffered(StoredQuote(n, offer))
  BY DEF AsOffered, StoredQuote
<1>4. ASSUME NEW q \in DOMAIN quotes PROVE q \in DOMAIN quotes' /\ quotes'[q] = quotes[q]
  BY <1>1, LenProperties
<1>5. ASSUME NEW q \in DOMAIN quotes' PROVE AsOffered(quotes'[q])
  <2>1. CASE q \in DOMAIN quotes
    BY <1>4, <2>1 DEF Priced
  <2>2. CASE q \notin DOMAIN quotes
    <3>1. quotes'[q] = StoredQuote(n, offer)
      BY <1>1, <1>2, <2>2, LenProperties
    <3> QED BY <1>3, <3>1
  <2> QED BY <2>1, <2>2
<1>6. \A q \in QuoteId : Booking(q, book[q])'
  BY <1>1, <1>4 DEF Priced, Booking
<1> QED BY <1>1, <1>5, <1>6 DEF Priced

LEMMA NextPriced ==
  ASSUME Typed, Booked, Priced, [Next]_vars
  PROVE  Priced'
<1> USE DEF processVars, tableVars, threadVars, accountVars
<1>1. CASE Tick \/ Crash \/ Restart \/ UNCHANGED vars
  BY <1>1, QuietPriced DEF Tick, Crash, Restart, vars
<1>2. CASE Portfolio
  <2>1. UNCHANGED <<quotes, charged>>
    BY <1>2 DEF Portfolio, SyncList, SyncWrite, Reconcile, Remove, AddManual
  <2>2. UNCHANGED book \/ Reconcile
    BY <1>2 DEF Portfolio, SyncList, SyncWrite, Remove, AddManual
  <2>3. CASE Reconcile
    BY <2>1, <2>3, ReconcileKeepsRows, ReconcileKeepsTerms, QuietPriced
  <2> QED BY <2>1, <2>2, <2>3, QuietPriced
<1>3. ASSUME NEW n \in Names, NEW offer \in Offers, CreateQuote(n, offer) PROVE Priced'
  BY <1>3, QuotePriced
<1>4. ASSUME NEW t \in Threads, Submit(t) PROVE Priced'
  BY <1>4, QuietPriced DEF Submit
<1>5. ASSUME NEW t \in Threads, Step(t) PROVE Priced'
  BY <1>5, StepPriced
<1> QED BY <1>1, <1>2, <1>3, <1>4, <1>5 DEF Next

-----------------------------------------------------------------------------
(* The daily cap.  A guard that has passed still holds when its row is        *)
(* inserted, because nobody else can insert in between (_purchase_lock) and   *)
(* no row that does not count ever counts again.                              *)

Capped ==
  /\ IsFiniteSet(Units(QuoteId))
  /\ \A day \in Int : SpentOn(day) <= DAILY_CAP
  /\ \A t \in Threads : pc[t] = "insert" =>
       /\ lock = t
       /\ SpentOn(DayOf(job[t].at)) + Total(quotes[job[t].quote], job[t].years) <= DAILY_CAP

\* A purchase of price n has n units at most.
LEMMA UnitsOfOne ==
  ASSUME NEW q, NEW n \in Nat
  PROVE  IsFiniteSet({q} \X (1 .. n)) /\ Cardinality({q} \X (1 .. n)) <= n
<1> DEFINE U == {q} \X (1 .. n)
           f == [i \in 1 .. n |-> <<q, i>>]
<1>1. f \in Surjection(1 .. n, U)
  <2>1. f \in [1 .. n -> U] /\ \A i \in 1 .. n : f[i] = <<q, i>>
    OBVIOUS
  <2>2. \A u \in U : \E i \in 1 .. n : u = <<q, i>>
    OBVIOUS
  <2> HIDE DEF f, U
  <2>3. \A u \in U : \E i \in 1 .. n : f[i] = u
    BY <2>1, <2>2
  <2> QED BY <2>1, <2>3 DEF Surjection
<1>2. IsFiniteSet(1 .. n) /\ Cardinality(1 .. n) = n
  <2>1. 1 \in Int /\ n \in Int
    OBVIOUS
  <2>2. IsFiniteSet(1 .. n) /\ Cardinality(1 .. n) = IF 1 > n THEN 0 ELSE n - 1 + 1
    BY ONLY <2>1, FS_Interval
  <2> QED BY <2>2
<1> HIDE DEF f, U
<1>3. IsFiniteSet(U) /\ Cardinality(U) <= n
  BY <1>1, <1>2, FS_Surjection
<1> QED BY <1>3 DEF U

\* Fewer purchases, fewer units.
LEMMA UnitsWithin ==
  ASSUME IsFiniteSet(Units(QuoteId)), NEW T \in SUBSET QuoteId, NEW S \in SUBSET T
  PROVE  /\ IsFiniteSet(Units(S)) /\ Cardinality(Units(S)) \in Nat
         /\ Cardinality(Units(T)) \in Nat
         /\ Cardinality(Units(S)) <= Cardinality(Units(T))
<1>1. Units(S) \subseteq Units(T) /\ Units(T) \subseteq Units(QuoteId)
  BY DEF Units
<1> QED BY <1>1, FS_Subset, FS_CardinalityType

LEMMA SpentTyped ==
  ASSUME Capped, NEW day
  PROVE  SpentOn(day) \in Nat /\ IsFiniteSet(Units(CountedOn(day)))
<1>1. CountedOn(day) \in SUBSET QuoteId
  BY DEF CountedOn
<1> QED BY <1>1, UnitsWithin DEF Capped, SpentOn

\* What a thread that has passed the guards is about to insert.
LEMMA InsertFacts ==
  ASSUME Typed, NEW t \in Threads, pc[t] # "idle"
  PROVE  /\ job[t].quote \in QuoteId /\ job[t].quote \in DOMAIN quotes
         /\ quotes[job[t].quote] \in Quote
         /\ pc[t] = "insert" => Total(quotes[job[t].quote], job[t].years) \in Nat
<1>1. job[t].quote \in DOMAIN quotes
  BY DEF Typed, Knows
<1>2. job[t].quote \in QuoteId /\ quotes[job[t].quote] \in Quote
  BY <1>1, LenProperties, ElementOfSeq, BoundAssumption DEF QuoteId, Typed, TypeOK
<1>3. pc[t] = "insert" => job[t].years \in 1 .. 10
  BY DEF Typed, Knows
<1> QED BY <1>1, <1>2, <1>3, TotalTyped

LEMMA DayTyped ==
  ASSUME NEW i \in Nat
  PROVE  DayOf(i) \in Int
BY LimitAssumption DEF DayOf

\* A step that lets no row count anew, and no thread pass the guards.
LEMMA QuietCapped ==
  ASSUME Typed, Capped,
         \A q \in QuoteId : /\ book'[q].price = book[q].price /\ book'[q].at = book[q].at
                            /\ book'[q].status \in Counted => book[q].status \in Counted,
         \A t \in Threads : pc'[t] = "insert" =>
           /\ pc[t] = "insert" /\ job'[t] = job[t] /\ lock' = lock
           /\ quotes'[job[t].quote] = quotes[job[t].quote]
  PROVE  Capped'
<1>1. ASSUME NEW S \in SUBSET QuoteId PROVE Units(S)' = Units(S)
  BY DEF Units
<1>2. IsFiniteSet(Units(QuoteId))'
  BY <1>1 DEF Capped, QuoteId
<1>3. ASSUME NEW day PROVE SpentOn(day)' <= SpentOn(day) /\ SpentOn(day)' \in Nat /\ SpentOn(day) \in Nat
  <2>1. CountedOn(day)' \in SUBSET CountedOn(day) /\ CountedOn(day) \in SUBSET QuoteId
    BY DEF CountedOn
  <2>2. PICK S \in SUBSET QuoteId : S = CountedOn(day)'
    BY <2>1
  <2>3. SpentOn(day)' = Cardinality(Units(S)')
    BY <2>2 DEF SpentOn, Units
  <2>4. SpentOn(day)' = Cardinality(Units(S)) /\ S \in SUBSET CountedOn(day)
    BY <1>1, <2>1, <2>2, <2>3
  <2> QED BY <2>1, <2>4, UnitsWithin DEF Capped, SpentOn
<1>4. \A day \in Int : SpentOn(day)' <= DAILY_CAP
  BY <1>3, LimitAssumption DEF Capped
<1>5. ASSUME NEW t \in Threads, pc'[t] = "insert"
      PROVE  /\ lock' = t
             /\ (SpentOn(DayOf(job[t].at)) + Total(quotes[job[t].quote], job[t].years))' <= DAILY_CAP
  <2>1. /\ pc[t] = "insert" /\ job'[t] = job[t] /\ lock' = lock /\ lock = t
        /\ quotes'[job'[t].quote] = quotes[job[t].quote]
    BY <1>5 DEF Capped
  <2>2. PICK j \in Job, quote \in Quote : j = job[t] /\ j = job'[t] /\ quote = quotes[j.quote]
                                         /\ quote = quotes'[j.quote]
    BY <2>1, InsertFacts DEF Typed, TypeOK
  <2> DEFINE day == DayOf(j.at)
             total == Total(quote, j.years)
  <2>3. total \in Nat
    BY <2>1, <2>2, InsertFacts
  <2>4. SpentOn(day) + total <= DAILY_CAP
    BY <2>1, <2>2 DEF Capped
  <2>5. SpentOn(day)' + total <= DAILY_CAP
    BY <1>3, <2>3, <2>4, LimitAssumption
  <2>6. day = DayOf(job'[t].at) /\ total = Total(quotes'[job'[t].quote], job'[t].years)
    BY <2>2
  <2> QED BY <2>1, <2>2, <2>5, <2>6
<1> QED BY <1>2, <1>4, <1>5 DEF Capped

\* The guards are passed on the day's spending as it is, with nobody inserting.
LEMMA PassCapped ==
  ASSUME Typed, Capped, NEW t \in Threads, PassGuards(t)
  PROVE  Capped'
<1>1. /\ UNCHANGED <<book, quotes, job>> /\ lock = None /\ lock' = t
      /\ pc' = [pc EXCEPT ![t] = "insert"] /\ Allowed(job[t])
  BY DEF PassGuards, tableVars
<1>2. \A u \in Threads : pc[u] # "insert"
  BY <1>1, NoneAssumption DEF Capped
<1>3. \A u \in Threads : pc'[u] = "insert" => u = t
  BY <1>1, <1>2 DEF Typed, TypeOK
<1>4. \A day : SpentOn(day)' = SpentOn(day)
  BY <1>1 DEF SpentOn, Units, CountedOn
<1>5. SpentOn(DayOf(job[t].at)) + Total(quotes[job[t].quote], job[t].years) <= DAILY_CAP
  BY <1>1 DEF Allowed
<1>6. IsFiniteSet(Units(QuoteId))'
  BY <1>1 DEF Capped, Units
<1>7. \A day \in Int : SpentOn(day)' <= DAILY_CAP
  BY <1>4 DEF Capped
<1>8. (SpentOn(DayOf(job[t].at)) + Total(quotes[job[t].quote], job[t].years))' <= DAILY_CAP
  <2>1. PICK day, total : /\ day = DayOf(job[t].at)
                          /\ total = Total(quotes[job[t].quote], job[t].years)
    OBVIOUS
  <2>2. SpentOn(day)' + total <= DAILY_CAP
    BY <1>4, <1>5, <2>1
  <2> QED BY <1>1, <2>1, <2>2
<1> QED BY <1>1, <1>3, <1>6, <1>7, <1>8 DEF Capped

\* The row of a purchase adds its price to its own day, which was judged with it.
LEMMA InsertCapped ==
  ASSUME Typed, Capped, NEW t \in Threads, InsertPending(t)
  PROVE  Capped'
<1>1. PICK j \in Job, q \in QuoteId, total \in Nat :
        j = job[t] /\ q = j.quote /\ total = Total(quotes[j.quote], j.years)
  BY InsertFacts DEF InsertPending, Typed, TypeOK
<1>2. /\ book[q].status = "none" /\ lock' = None /\ UNCHANGED quotes /\ job' = job
      /\ pc[t] = "insert" /\ pc' = [pc EXCEPT ![t] = "order"]
  BY <1>1 DEF InsertPending
<1>3. /\ book'[q].price = total /\ book'[q].at = j.at /\ book'[q].status = "pending"
      /\ \A r \in QuoteId \ {q} : book'[r] = book[r]
  BY <1>1 DEF InsertPending, NewRow, Typed, TypeOK
<1>4. DayOf(j.at) \in Int
  BY DayTyped DEF Job
<1>5. \A u \in Threads : pc'[u] # "insert"
  BY <1>2 DEF Capped, Typed, TypeOK
<1> DEFINE New == {q} \X (1 .. total)
<1>6. IsFiniteSet(New) /\ Cardinality(New) <= total /\ Cardinality(New) \in Nat
  BY UnitsOfOne, FS_CardinalityType
<1>7. ASSUME NEW S \in SUBSET QuoteId PROVE Units(S)' \subseteq Units(S \ {q}) \cup New
  BY <1>3 DEF Units
<1>8. ASSUME NEW S \in SUBSET QuoteId, q \notin S PROVE Units(S)' = Units(S)
  BY <1>3, <1>8 DEF Units
<1>9. IsFiniteSet(Units(QuoteId))'
  <2>1. IsFiniteSet(Units(QuoteId \ {q}))
    BY UnitsWithin DEF Capped
  <2>2. Units(QuoteId)' \subseteq Units(QuoteId \ {q}) \cup New
    BY <1>7
  <2> QED BY <1>6, <2>1, <2>2, FS_Union, FS_Subset
<1>10. ASSUME NEW day \in Int PROVE SpentOn(day)' <= DAILY_CAP
  <2>1. SpentOn(day) \in Nat /\ SpentOn(day) <= DAILY_CAP /\ IsFiniteSet(Units(CountedOn(day)))
    BY SpentTyped DEF Capped
  <2>2. PICK S \in SUBSET QuoteId : S = CountedOn(day)'
    BY DEF CountedOn
  <2>3. SpentOn(day)' = Cardinality(Units(S)')
    BY <2>2 DEF SpentOn, Units
  <2>4. S \ {q} = CountedOn(day)
    BY <1>2, <1>3, <2>2 DEF CountedOn, Counted
  <2>5. CASE q \in S
    <3>1. day = DayOf(j.at)
      BY <1>3, <2>2, <2>5 DEF CountedOn
    <3>2. SpentOn(day) + total <= DAILY_CAP
      BY <1>1, <1>2, <3>1 DEF Capped
    <3>3. /\ IsFiniteSet(Units(CountedOn(day)) \cup New)
          /\ Cardinality(Units(CountedOn(day)) \cup New) <= SpentOn(day) + Cardinality(New)
      <4> DEFINE X == Units(CountedOn(day))
      <4>1. IsFiniteSet(X) /\ IsFiniteSet(New) /\ Cardinality(X) = SpentOn(day)
        BY <1>6, <2>1 DEF SpentOn
      <4> HIDE DEF X, New
      <4>2. /\ IsFiniteSet(X \cup New)
            /\ Cardinality(X \cup New) = Cardinality(X) + Cardinality(New) - Cardinality(X \cap New)
        BY <4>1, FS_Union
      <4>3. Cardinality(X \cap New) \in Nat
        BY <4>1, FS_Subset, FS_CardinalityType
      <4> QED BY <1>6, <2>1, <4>1, <4>2, <4>3 DEF X
    <3>4. Cardinality(Units(S)') <= Cardinality(Units(CountedOn(day)) \cup New)
          /\ Cardinality(Units(S)') \in Nat
      BY <1>7, <2>4, <3>3, FS_Subset, FS_CardinalityType
    <3>5. Cardinality(Units(CountedOn(day)) \cup New) \in Nat
      BY <3>3, FS_CardinalityType
    <3> QED BY <1>6, <2>1, <2>3, <3>2, <3>3, <3>4, <3>5, LimitAssumption
  <2>6. CASE q \notin S
    BY <1>8, <2>1, <2>3, <2>4, <2>6 DEF SpentOn
  <2> QED BY <2>5, <2>6
<1> QED BY <1>5, <1>9, <1>10 DEF Capped

LEMMA StepCapped ==
  ASSUME Typed, Booked, Capped, NEW t \in Threads, Step(t)
  PROVE  Capped'
<1>0. /\ job \in [Threads -> Job] /\ pc \in [Threads -> PC] /\ book \in [QuoteId -> Row]
      /\ \A u \in Threads : pc[u] = "insert" => lock = u
  BY DEF Typed, TypeOK, Capped
<1>1. CASE Refuse(t) \/ InsertRefused(t) \/ RecordRaises(t) \/ Order(t) \/ Answer(t)
  <2>1. UNCHANGED <<book, quotes>>
    BY <1>1 DEF Refuse, InsertRefused, RecordRaises, Order, Answer, tableVars
  <2>2. ASSUME NEW u \in Threads, pc'[u] = "insert"
        PROVE  pc[u] = "insert" /\ job'[u] = job[u] /\ lock' = lock
    <3>1. u # t /\ pc[u] = "insert" /\ job'[u] = job[u]
      BY <1>0, <1>1, <2>2 DEF Refuse, InsertRefused, RecordRaises, Order, Answer
    <3>2. pc[t] # "insert"
      BY <1>0, <3>1
    <3> QED BY <1>1, <3>1, <3>2 DEF Refuse, InsertRefused, RecordRaises, Order, Answer
  <2> QED BY <2>1, <2>2, QuietCapped
<1>2. CASE PassGuards(t)
  BY <1>2, PassCapped
<1>3. CASE InsertPending(t)
  BY <1>3, InsertCapped
<1>4. CASE Record(t)
  <2> DEFINE q == job[t].quote
  <2>1. q \in QuoteId /\ book[q].status = "pending" /\ job[t].status \in Answered
    BY <1>4, InsertFacts DEF Record, Booked, Buying, Typed, Knows
  <2>2. book' = [book EXCEPT ![q] = [book[q] EXCEPT !.status = job[t].status]]
    BY <1>0, <1>4, <2>1 DEF Record
  <2>3. \A r \in QuoteId : /\ book'[r].price = book[r].price /\ book'[r].at = book[r].at
                           /\ book'[r].status \in Counted => book[r].status \in Counted
    <3> TAKE r \in QuoteId
    <3>1. CASE r = q
      <4>1. book'[r].price = book[r].price /\ book'[r].at = book[r].at
        BY <1>0, <2>1, <2>2, <3>1 DEF Row
      <4> QED BY <2>1, <3>1, <4>1 DEF Counted
    <3>2. CASE r # q
      BY <1>0, <2>2, <3>2
    <3> QED BY <3>1, <3>2
  <2>4. \A u \in Threads : pc'[u] = "insert" => pc[u] = "insert" /\ job'[u] = job[u]
    BY <1>0, <1>4 DEF Record
  <2>5. lock' = lock /\ UNCHANGED quotes
    BY <1>4 DEF Record
  <2> QED BY <2>3, <2>4, <2>5, QuietCapped
<1> QED BY <1>1, <1>2, <1>3, <1>4 DEF Step

LEMMA ReconcileKeepsPrices ==
  ASSUME Typed, Reconcile, NEW q \in QuoteId
  PROVE  /\ book'[q].price = book[q].price /\ book'[q].at = book[q].at
         /\ book'[q].status \in Counted => book[q].status \in Counted
BY ReconcileKeepsTerms, ReconcileKeepsRows DEF Counted

LEMMA NextCapped ==
  ASSUME Typed, Booked, Capped, [Next]_vars
  PROVE  Capped'
<1> USE DEF processVars, tableVars, threadVars, accountVars
<1>1. CASE Tick \/ Crash \/ Restart \/ UNCHANGED vars
  BY <1>1, QuietCapped DEF Tick, Crash, Restart, vars
<1>2. CASE Portfolio
  <2>1. UNCHANGED <<quotes, lock, pc, job>>
    BY <1>2 DEF Portfolio, SyncList, SyncWrite, Reconcile, Remove, AddManual
  <2>2. UNCHANGED book \/ Reconcile
    BY <1>2 DEF Portfolio, SyncList, SyncWrite, Remove, AddManual
  <2> QED BY <2>1, <2>2, ReconcileKeepsPrices, QuietCapped
<1>3. ASSUME NEW n \in Names, NEW offer \in Offers, CreateQuote(n, offer) PROVE Capped'
  <2>1. UNCHANGED <<book, lock, pc, job>> /\ quotes' = Append(quotes, StoredQuote(n, offer))
    BY <1>3 DEF CreateQuote
  <2>2. ASSUME NEW q \in DOMAIN quotes PROVE quotes'[q] = quotes[q]
    <3>1. quotes \in Seq(Quote) /\ Typed'
      BY <1>3, QuoteTyped DEF Typed, TypeOK
    <3>2. q \in 1 .. Len(quotes) /\ Len(quotes) \in Nat
      BY <3>1, LenProperties
    <3> QED BY <2>1, <3>1, <3>2
  <2> QED BY <2>1, <2>2, InsertFacts, QuietCapped
<1>4. ASSUME NEW t \in Threads, Submit(t) PROVE Capped'
  <2>1. \A u \in Threads : pc'[u] = "insert" => u # t /\ pc'[u] = pc[u] /\ job'[u] = job[u]
    BY <1>4 DEF Submit, Typed, TypeOK
  <2> QED BY <1>4, <2>1, QuietCapped DEF Submit
<1>5. ASSUME NEW t \in Threads, Step(t) PROVE Capped'
  BY <1>5, StepCapped
<1> QED BY <1>1, <1>2, <1>3, <1>4, <1>5 DEF Next

LEMMA CappedInit == Init => Capped
<1> SUFFICES ASSUME Init PROVE Capped
  OBVIOUS
<1>1. Units(QuoteId) = {}
  BY DEF Init, NoRow, Units
<1>2. \A day : SpentOn(day) = 0
  <2> SUFFICES ASSUME NEW day PROVE SpentOn(day) = 0
    OBVIOUS
  <2>1. CountedOn(day) = {}
    BY DEF Init, NoRow, CountedOn, Counted
  <2>2. Units(CountedOn(day)) = {}
    BY <2>1 DEF Units
  <2> QED BY <2>2, FS_EmptySet DEF SpentOn
<1> QED BY <1>1, <1>2, FS_EmptySet, LimitAssumption DEF Init, Capped

\* What the registrar bills for a purchase is what its row says, if the renewal
\* price was stated where the term needs one.
LEMMA BilledAsBooked ==
  ASSUME Typed, Priced, NEW q \in charged, Foreseen(q)
  PROVE  Bill(q) = book[q].price
<1>1. /\ q \in DOMAIN quotes /\ book[q].years \in 1 .. 10
      /\ book[q].price = Total(quotes[q], book[q].years) /\ AsOffered(quotes[q])
  BY DEF Priced, Booking, Typed, TypeOK
<1>2. PICK quote \in Quote : quote = quotes[q]
  BY <1>1, ElementOfSeq, LenProperties DEF Typed, TypeOK
<1>3. PICK offer \in Offers : offer = quote.offer
  BY DEF Quote
<1>4. /\ offer.price \in Int /\ offer.owed \in Nat
      /\ offer.renewal # Unquoted => offer.owed = offer.renewal
  BY OfferAssumption DEF Offer
<1>5. /\ quote.price = offer.price /\ quote.renewal = StoredRenewal(offer)
  BY <1>1, <1>2, <1>3 DEF AsOffered
<1>6. PICK years \in 1 .. 10 : years = book[q].years
  BY <1>1
<1>7. CASE years = 1
  <2>1. Bill(q) = offer.price + 0 * offer.owed
    BY <1>2, <1>3, <1>6, <1>7 DEF Bill
  <2>2. Bill(q) = offer.price
    BY <1>4, <2>1
  <2>3. PICK further \in Nat \cup {Unquoted} :
          further = IF quote.renewal = Unquoted THEN quote.price ELSE quote.renewal
    BY DEF Quote
  <2>4. Total(quote, years) = quote.price + 0 * further
    BY <1>7, <2>3 DEF Total
  <2>5. Total(quote, years) = quote.price
    BY <1>4, <1>5, <2>3, <2>4 DEF Unquoted
  <2> QED BY <1>1, <1>2, <1>5, <1>6, <2>2, <2>5
<1>8. CASE years # 1
  <2>1. offer.renewal # Unquoted
    BY <1>2, <1>3, <1>6, <1>8 DEF Foreseen
  <2>2. quote.renewal = offer.owed /\ quote.renewal # Unquoted
    BY <1>4, <1>5, <2>1 DEF StoredRenewal
  <2>3. Total(quote, years) = offer.price + (years - 1) * offer.owed
    BY <1>5, <2>2 DEF Total
  <2> QED BY <1>1, <1>2, <1>3, <1>6, <2>3 DEF Bill
<1> QED BY <1>7, <1>8

\* What the registrar has charged for is among the rows that count, unless it is
\* recorded as failed.
LEMMA ChargedCounts ==
  ASSUME Typed, Priced, Capped
  PROVE  SpendWithinCap
<1> SUFFICES ASSUME NEW day \in {DayOf(book[q].at) : q \in charged}
             PROVE  Cardinality(Billed({q \in charged : /\ DayOf(book[q].at) = day
                                                        /\ book[q].status # "failed"
                                                        /\ Foreseen(q)})) <= DAILY_CAP
  BY DEF SpendWithinCap
<1> DEFINE S == {q \in charged : /\ DayOf(book[q].at) = day
                                 /\ book[q].status # "failed"
                                 /\ Foreseen(q)}
<1>1. day \in Int
  BY DayTyped DEF Typed, TypeOK, Row
<1>2. S \subseteq CountedOn(day)
  <2>1. ASSUME NEW q \in S PROVE q \in QuoteId /\ book[q].status \in Counted
    <3>1. q \in QuoteId /\ book[q].status # "failed" /\ book[q].status # "none"
      BY DEF Priced, Typed, TypeOK
    <3> QED BY <3>1 DEF Typed, TypeOK, Row, Answered, Counted
  <2> QED BY <2>1 DEF CountedOn
<1>3. CountedOn(day) \in SUBSET QuoteId
  BY DEF CountedOn
<1>4. SpentOn(day) <= DAILY_CAP
  BY <1>1 DEF Capped
<1>5. Billed(S) = Units(S)
  <2>1. \A q \in S : Bill(q) = book[q].price
    BY BilledAsBooked
  <2> HIDE DEF S
  <2> QED BY <2>1 DEF Billed, Units
<1> HIDE DEF S
<1>6. Cardinality(Units(S)) <= DAILY_CAP
  BY <1>2, <1>3, <1>4, UnitsWithin, LimitAssumption DEF Capped, SpentOn
<1> QED BY <1>5, <1>6 DEF S

\* What the registrar bills for the purchases of one day stays within the cap,
\* whatever its answers, for any number of threads buying at once and any crash.
THEOREM DayStaysWithinCap == Spec => []SpendWithinCap
<1>1. Typed /\ Booked /\ Priced /\ [Next]_vars => Priced'
  BY NextPriced
<1>2. Typed /\ Booked /\ Capped /\ [Next]_vars => Capped'
  BY NextCapped
<1>3. Typed /\ Priced /\ Capped => SpendWithinCap
  BY ChargedCounts
<1> QED BY <1>1, <1>2, <1>3, PricedInit, CappedInit, InvariantBooked, PTL DEF Spec

=============================================================================

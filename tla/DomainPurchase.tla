---------------------------- MODULE DomainPurchase ----------------------------
(***************************************************************************)
(* Buying a domain: pipeline/domains/purchase.py (quotes, the guarded      *)
(* purchase, reconcile_unknown), the registrar adapters' answers and the   *)
(* portfolio sync of pipeline/domains/inventory.py that runs beside it.    *)
(*                                                                         *)
(* One registrar connection; its account (held, charged) is the outside    *)
(* world the program only sees through answers that may get lost.          *)
(***************************************************************************)
EXTENDS Integers, Sequences, FiniteSets

CONSTANTS
  Names,            \* domain names
  Threads,          \* API worker threads serving POST /domains/purchases
  None,             \* no thread
  Kind,             \* the connection's adapter: "godaddy" or "namecheap"
  Offers,           \* what the registrar answers to check(): see Offer
  Years,            \* terms a caller asks for
  MAX_PRICE,        \* DOMAINS_MAX_PRICE
  DAILY_CAP,        \* DOMAINS_DAILY_CAP
  ALLOW_PREMIUM,    \* DOMAINS_ALLOW_PREMIUM
  QUOTE_TTL, DAY, FLAG_AGE,   \* _QUOTE_TTL, one UTC day, _RECONCILE_FLAG_AGE
  Ops,              \* operator endpoints used in this instance
  Faults,           \* outside failures that may happen in this instance
  MaxTime, MaxQuotes, MaxCrashes   \* bounds

\* One answer of registrar.check(); "renewal" is Unquoted when it has none, and
\* "owed" is what the registrar charges for a year after the first.
Unquoted == -1
Offer == [price : Int, renewal : Nat \cup {Unquoted}, owed : Nat, premium : BOOLEAN]

ASSUME OfferAssumption ==
  /\ Offers \subseteq Offer /\ Years \subseteq Nat
  /\ \A offer \in Offers : offer.renewal # Unquoted => offer.owed = offer.renewal
ASSUME KindAssumption == Kind \in {"godaddy", "namecheap"}
ASSUME LimitAssumption ==
  /\ MAX_PRICE \in Nat /\ DAILY_CAP \in Nat /\ ALLOW_PREMIUM \in BOOLEAN
  /\ QUOTE_TTL \in Nat \ {0} /\ DAY \in Nat \ {0} /\ FLAG_AGE \in Nat
ASSUME BoundAssumption == MaxTime \in Nat /\ MaxQuotes \in Nat /\ MaxCrashes \in Nat
ASSUME NoneAssumption == None \notin Threads

VARIABLES
  now,        \* the clock
  up,         \* the API process is running
  crashes,    \* how often it has died
  quotes,     \* the DomainQuote table
  book,       \* the DomainPurchase table, by the quote it is for
  domain,     \* the Domain table
  lock,       \* holder of _purchase_lock
  pc,         \* where each thread is in execute_purchase
  job,        \* each thread's local variables
  listing,    \* what a sync in flight got from list_domains(), or {NoSync}
  held,       \* the registrar's account: names registered
  charged,    \* the registrar's account: quotes it charged for
  orders      \* ghost: how often registrar.purchase() was called, by quote

processVars == <<up, crashes>>
tableVars == <<quotes, book, domain>>
threadVars == <<lock, pc, job>>
accountVars == <<held, charged, orders>>
vars == <<now, processVars, tableVars, threadVars, listing, accountVars>>

-----------------------------------------------------------------------------
(* Records *)

QuoteId == 1 .. MaxQuotes
\* "offer" is a ghost: the registrar's answer the quote was made of.
Quote == [name : Names, price : Nat \ {0}, renewal : Nat \cup {Unquoted},
          premium : BOOLEAN, expires : Nat, offer : Offers]

Answered == {"succeeded", "failed", "unknown"}
\* "none": no row, the quote was never submitted.
Row == [status : {"none", "pending"} \cup Answered, price : Nat, years : Nat,
        at : Nat, flagged : BOOLEAN]
NoRow == [status |-> "none", price |-> 0, years |-> 0, at |-> 0, flagged |-> FALSE]

Domain == [tracked : BOOLEAN, owned : BOOLEAN, linked : BOOLEAN, missing : BOOLEAN]
NoDomain == [tracked |-> FALSE, owned |-> FALSE, linked |-> FALSE, missing |-> FALSE]

Job == [quote : Nat, typed : Names \cup {None}, years : Nat, at : Nat,
        granted : BOOLEAN, status : {"none"} \cup Answered]
NoJob == [quote |-> 0, typed |-> None, years |-> 0, at |-> 0,
          granted |-> FALSE, status |-> "none"]

PC == {"idle", "asked", "insert", "order", "answer", "record"}
NoSync == "no sync"

-----------------------------------------------------------------------------
(* Pricing and guards *)

\* Namecheap's _to_decimal turns a premium renewal price the registrar left out
\* into 0; everywhere else a missing renewal price stays missing.
StoredRenewal(offer) ==
  IF Kind = "namecheap" /\ offer.premium /\ offer.renewal = Unquoted THEN 0 ELSE offer.renewal

\* Mutant of Total: a term counts at its first year's price.
FirstYear(quote, years) == quote.price

\* The charge for the whole term.
Total(quote, years) ==
  quote.price + (years - 1) * (IF quote.renewal = Unquoted THEN quote.price ELSE quote.renewal)

DayOf(i) == i \div DAY

\* _DAILY_CAP_STATUSES
Counted == {"succeeded", "pending", "unknown"}

\* One element for each unit of the price of each purchase: how many there are
\* is the sum of the prices.
Units(purchases) == UNION {{q} \X (1 .. book[q].price) : q \in purchases}

CountedOn(day) == {q \in QuoteId : book[q].status \in Counted /\ DayOf(book[q].at) = day}

\* What the day's purchases may have cost so far.
SpentOn(day) == Cardinality(Units(CountedOn(day)))

\* The guards that look at the quote, the term and today's spending.
Allowed(j) ==
  LET quote == quotes[j.quote]
      total == Total(quote, j.years)
  IN /\ quote.expires > j.at
     /\ j.typed = quote.name
     /\ ~quote.premium \/ ALLOW_PREMIUM
     /\ j.years \in 1 .. 10
     /\ total <= MAX_PRICE
     /\ SpentOn(DayOf(j.at)) + total <= DAILY_CAP

-----------------------------------------------------------------------------
Init ==
  /\ now = 0
  /\ up = TRUE
  /\ crashes = 0
  /\ quotes = <<>>
  /\ book = [q \in QuoteId |-> NoRow]
  /\ domain = [n \in Names |-> NoDomain]
  /\ lock = None
  /\ pc = [t \in Threads |-> "idle"]
  /\ job = [t \in Threads |-> NoJob]
  /\ listing = {NoSync}
  /\ held = {}
  /\ charged = {}
  /\ orders = [q \in QuoteId |-> 0]

Tick ==
  /\ now < MaxTime
  /\ now' = now + 1
  /\ UNCHANGED <<processVars, tableVars, threadVars, listing, accountVars>>

Goto(t, label) == pc' = [pc EXCEPT ![t] = label]

\* Back to idle: a response or a 422 refusal.
Leave(t) == Goto(t, "idle") /\ job' = [job EXCEPT ![t] = NoJob]

-----------------------------------------------------------------------------
(* Quotes *)

StoredQuote(n, offer) ==
  [name |-> n, price |-> offer.price, renewal |-> StoredRenewal(offer),
   premium |-> offer.premium, expires |-> now + QUOTE_TTL, offer |-> offer]

\* Mutant of CreateQuote: any price is stored.
CreateAnyQuote(n, offer) ==
  /\ up /\ Len(quotes) < MaxQuotes
  /\ n \notin held
  /\ quotes' = Append(quotes, StoredQuote(n, offer))
  /\ UNCHANGED <<now, processVars, book, domain, threadVars, listing, accountVars>>

\* create_quote: nothing unavailable and no non-positive price is ever stored.
CreateQuote(n, offer) ==
  /\ up /\ Len(quotes) < MaxQuotes
  /\ n \notin held
  /\ offer.price > 0
  /\ quotes' = Append(quotes, StoredQuote(n, offer))
  /\ UNCHANGED <<now, processVars, book, domain, threadVars, listing, accountVars>>

-----------------------------------------------------------------------------
(* execute_purchase *)

\* The clock is read before the lock is taken; every guard uses that instant.
Submit(t) ==
  /\ up /\ pc[t] = "idle"
  /\ \E q \in DOMAIN quotes, typed \in Names, years \in Years :
       job' = [job EXCEPT ![t] =
                 [NoJob EXCEPT !.quote = q, !.typed = typed, !.years = years, !.at = now]]
  /\ Goto(t, "asked")
  /\ UNCHANGED <<now, processVars, tableVars, lock, listing, accountVars>>

\* A guard fails: the quote's own, the contact's or the adapter's.
Refuse(t) ==
  /\ pc[t] = "asked" /\ lock = None
  /\ ~Allowed(job[t]) \/ "connection" \in Faults
  /\ Leave(t)
  /\ UNCHANGED <<now, processVars, tableVars, lock, listing, accountVars>>

\* Mutant of PassGuards: the guards are evaluated outside _purchase_lock.
PassUnlocked(t) ==
  /\ pc[t] = "asked"
  /\ Allowed(job[t])
  /\ lock' = t
  /\ Goto(t, "insert")
  /\ UNCHANGED <<now, processVars, tableVars, job, listing, accountVars>>

PassGuards(t) ==
  /\ pc[t] = "asked" /\ lock = None
  /\ Allowed(job[t])
  /\ lock' = t
  /\ Goto(t, "insert")
  /\ UNCHANGED <<now, processVars, tableVars, job, listing, accountVars>>

NewRow(j) ==
  [status |-> "pending", price |-> Total(quotes[j.quote], j.years), years |-> j.years,
   at |-> j.at, flagged |-> FALSE]

\* Mutant of InsertPending: a second submission overwrites the first one's row.
InsertAnyway(t) ==
  /\ pc[t] = "insert"
  /\ book' = [book EXCEPT ![job[t].quote] = NewRow(job[t])]
  /\ lock' = None
  /\ Goto(t, "order")
  /\ UNCHANGED <<now, processVars, quotes, domain, job, listing, accountVars>>

\* The pending row is committed before the registrar is called; quote_id is UNIQUE.
InsertPending(t) ==
  /\ pc[t] = "insert"
  /\ book[job[t].quote].status = "none"
  /\ book' = [book EXCEPT ![job[t].quote] = NewRow(job[t])]
  /\ lock' = None
  /\ Goto(t, "order")
  /\ UNCHANGED <<now, processVars, quotes, domain, job, listing, accountVars>>

\* IntegrityError: "already_submitted".
InsertRefused(t) ==
  /\ pc[t] = "insert"
  /\ book[job[t].quote].status # "none"
  /\ lock' = None
  /\ Leave(t)
  /\ UNCHANGED <<now, processVars, tableVars, listing, accountVars>>

\* registrar.purchase() reaches the registrar, which grants it or does not.
Order(t) ==
  /\ pc[t] = "order"
  /\ LET q == job[t].quote
         n == quotes[q].name
     IN /\ orders' = [orders EXCEPT ![q] = @ + 1]
        /\ \/ /\ n \notin held
              /\ held' = held \cup {n}
              /\ charged' = charged \cup {q}
              /\ job' = [job EXCEPT ![t].granted = TRUE]
           \/ UNCHANGED <<held, charged, job>>
  /\ Goto(t, "answer")
  /\ UNCHANGED <<now, processVars, tableVars, lock, listing>>

\* What the adapter and execute_purchase make of the registrar's answer, which is
\*   clean      it says what happened
\*   transport  any requests exception, a timeout included: a RegistrarError
\*   malformed  a body that does not parse: GoDaddy's is a RegistrarError, while
\*              Namecheap's ParseError (a SyntaxError) falls to `except Exception`
\*   unusable   one that reads as a refusal whatever the registrar did: an error
\*              status, a rejected entity, no DomainCreateResult, no "Registered"
Outcome(granted, reply) ==
  CASE reply = "clean" -> IF granted THEN "succeeded" ELSE "failed"
    [] reply = "malformed" /\ Kind = "namecheap" -> "unknown"
    [] OTHER -> "failed"

Replies == {"clean"} \cup (Faults \cap {"transport", "malformed", "unusable"})

Answer(t) ==
  /\ pc[t] = "answer"
  /\ \E reply \in Replies :
       job' = [job EXCEPT ![t].status = Outcome(job[t].granted, reply)]
  /\ Goto(t, "record")
  /\ UNCHANGED <<now, processVars, tableVars, lock, listing, accountVars>>

\* _mark_domain_owned
MarkOwned(n) == [domain EXCEPT ![n] =
  [tracked |-> TRUE, owned |-> TRUE, linked |-> TRUE, missing |-> FALSE]]

\* The final write; the UPDATE is flushed before the Domain row is looked up, so
\* the two are one SQLite write transaction.
Record(t) ==
  /\ pc[t] = "record"
  /\ LET j == job[t]
     IN /\ book' = [book EXCEPT ![j.quote].status = j.status]
        /\ domain' = IF j.status = "succeeded" THEN MarkOwned(quotes[j.quote].name) ELSE domain
  /\ Leave(t)
  /\ UNCHANGED <<now, processVars, quotes, lock, listing, accountVars>>

\* The final write fails (database locked past busy_timeout).
RecordRaises(t) ==
  /\ "final" \in Faults
  /\ pc[t] = "record"
  /\ Leave(t)
  /\ UNCHANGED <<now, processVars, tableVars, lock, listing, accountVars>>

-----------------------------------------------------------------------------
(* The portfolio *)

Live(n) == domain[n].tracked /\ ~domain[n].missing

\* _sync_one: list_domains() is a network call with no session open ...
SyncList ==
  /\ up /\ listing = {NoSync}
  /\ listing' = held
  /\ UNCHANGED <<now, processVars, tableVars, threadVars, accountVars>>

\* Mutant of SyncWrite: a listed row keeps its missing_since.
SyncKeepsMissing ==
  /\ up /\ listing # {NoSync}
  /\ domain' = [n \in Names |->
       IF n \in listing
         THEN [tracked |-> TRUE, owned |-> ~domain[n].tracked \/ domain[n].owned,
               linked |-> TRUE, missing |-> domain[n].missing]
         ELSE [domain[n] EXCEPT !.missing = @ \/ domain[n].linked]]
  /\ listing' = {NoSync}
  /\ UNCHANGED <<now, processVars, quotes, book, threadVars, accountVars>>

\* ... and then one transaction upserts what it returned (ownership only on
\* creation) and marks the connection's other rows missing.
SyncWrite ==
  /\ up /\ listing # {NoSync}
  /\ domain' = [n \in Names |->
       IF n \in listing
         THEN [tracked |-> TRUE, owned |-> ~domain[n].tracked \/ domain[n].owned,
               linked |-> TRUE, missing |-> FALSE]
         ELSE [domain[n] EXCEPT !.missing = @ \/ domain[n].linked]]
  /\ listing' = {NoSync}
  /\ UNCHANGED <<now, processVars, quotes, book, threadVars, accountVars>>

\* POST /domains: ownership is the owner's word.
AddManual(n, owned) ==
  /\ "add" \in Ops /\ up
  /\ domain' = [domain EXCEPT ![n].tracked = TRUE, ![n].owned = owned, ![n].missing = FALSE]
  /\ UNCHANGED <<now, processVars, quotes, book, threadVars, listing, accountVars>>

\* DELETE /domains/{name} only marks the row.
Remove(n) ==
  /\ "remove" \in Ops /\ up /\ Live(n)
  /\ domain' = [domain EXCEPT ![n].missing = TRUE]
  /\ UNCHANGED <<now, processVars, quotes, book, threadVars, listing, accountVars>>

\* Mutant of Resolved: pending purchases are reconciled too.
ResolvedPending(q) ==
  LET n == quotes[q].name
  IN book[q].status \in {"unknown", "pending"} /\ Live(n) /\ domain[n].owned

Resolved(q) ==
  LET n == quotes[q].name IN book[q].status = "unknown" /\ Live(n) /\ domain[n].owned

Overdue(q) ==
  book[q].status = "unknown" /\ ~book[q].flagged /\ now - book[q].at > FLAG_AGE

\* reconcile_unknown
Reconcile ==
  /\ "reconcile" \in Ops /\ up
  /\ \E q \in DOMAIN quotes : Resolved(q) \/ Overdue(q)
  /\ book' = [q \in QuoteId |->
       IF q \notin DOMAIN quotes THEN book[q]
       ELSE IF Resolved(q) THEN [book[q] EXCEPT !.status = "succeeded"]
       ELSE [book[q] EXCEPT !.flagged = @ \/ Overdue(q)]]
  /\ UNCHANGED <<now, processVars, quotes, domain, threadVars, listing, accountVars>>

-----------------------------------------------------------------------------
Crash ==
  /\ up /\ crashes < MaxCrashes
  /\ up' = FALSE
  /\ crashes' = crashes + 1
  /\ lock' = None
  /\ pc' = [t \in Threads |-> "idle"]
  /\ job' = [t \in Threads |-> NoJob]
  /\ listing' = {NoSync}
  /\ UNCHANGED <<now, tableVars, accountVars>>

\* The lifespan reaps digest runs; nothing looks at pending purchases.
Restart ==
  /\ ~up
  /\ up' = TRUE
  /\ UNCHANGED <<now, crashes, tableVars, threadVars, listing, accountVars>>

Step(t) ==
  \/ Refuse(t) \/ PassGuards(t) \/ InsertPending(t) \/ InsertRefused(t)
  \/ Order(t) \/ Answer(t) \/ Record(t) \/ RecordRaises(t)

Portfolio ==
  \/ SyncList \/ SyncWrite \/ Reconcile
  \/ \E n \in Names : Remove(n) \/ \E owned \in BOOLEAN : AddManual(n, owned)

Next ==
  \/ Tick \/ Crash \/ Restart \/ Portfolio
  \/ \E n \in Names, offer \in Offers : CreateQuote(n, offer)
  \/ \E t \in Threads : Submit(t) \/ Step(t)

Spec == Init /\ [][Next]_vars

\* A request thread always runs on (the adapters' calls time out); the domains
\* cron job syncs again and again; compose restarts a dead container.
Fairness ==
  /\ \A t \in Threads : WF_vars(Step(t))
  /\ WF_vars(SyncList) /\ WF_vars(SyncWrite) /\ WF_vars(Restart)

FairSpec == Spec /\ Fairness

-----------------------------------------------------------------------------
(* Properties *)

TypeOK ==
  /\ now \in Nat /\ up \in BOOLEAN /\ crashes \in Nat
  /\ quotes \in Seq(Quote) /\ Len(quotes) <= MaxQuotes
  /\ book \in [QuoteId -> Row]
  /\ domain \in [Names -> Domain]
  /\ lock \in Threads \cup {None}
  /\ pc \in [Threads -> PC]
  /\ job \in [Threads -> Job]
  /\ listing \subseteq Names \cup {NoSync}
  /\ held \subseteq Names /\ charged \subseteq QuoteId
  /\ orders \in [QuoteId -> Nat]

\* The registrar is asked at most once for a quote, for any double click, retry
\* or concurrent call (purchase.py:21).
OneOrderPerQuote == \A q \in QuoteId : orders[q] <= 1

\* What the registrar bills for the purchases of one day stays within the daily
\* cap, for any interleaving of purchases of different quotes (purchase.py:51).
\* The day is that of the request (purchase.py:257), and two kinds of purchase lie
\* outside the promise: one billed but recorded as failed (FailedNeverCharged), and
\* a term of years whose renewal price the registrar had not stated.
Bill(q) == quotes[q].offer.price + (book[q].years - 1) * quotes[q].offer.owed
Billed(purchases) == UNION {{q} \X (1 .. Bill(q)) : q \in purchases}
Foreseen(q) == book[q].years = 1 \/ quotes[q].offer.renewal # Unquoted
SpendWithinCap ==
  \A day \in {DayOf(book[q].at) : q \in charged} :
    Cardinality(Billed({q \in charged : /\ DayOf(book[q].at) = day
                                        /\ book[q].status # "failed"
                                        /\ Foreseen(q)})) <= DAILY_CAP

\* A purchase recorded as failed was not charged, so it may be retried and need
\* not eat cap (purchase.py:30, purchase.py:88).
FailedNeverCharged == \A q \in QuoteId : book[q].status = "failed" => q \notin charged

\* The purchase rows keep the intent's promise.
Intent == INSTANCE PurchaseIntent WITH
  Intents <- QuoteId, status <- [q \in QuoteId |-> book[q].status]
KeepsIntent == Intent!Spec

\* A name the account holds enters the portfolio for good, also when the process
\* dies between the order and the final write or a sync listed just before it.
HeldIsTracked == \A n \in Names : (n \in held) ~> [](Live(n))

=============================================================================

-------------------------- MODULE CollectorsProofs --------------------------
(* Theorems about Collectors, for every world the services may hold, every   *)
(* page size and limit, and any number of runs, changes and failures.        *)
EXTENDS Collectors, FiniteSetTheorems, SequenceTheorems, WellFoundedInduction, TLAPS

-----------------------------------------------------------------------------
(* The members of a set in their order. *)

LEMMA RankRange ==
  ASSUME NEW S \in SUBSET Int, IsFiniteSet(S), NEW n \in S
  PROVE  Rank(S, n) \in 1 .. Cardinality(S)
<1> DEFINE below == {m \in S : m <= n}
<1>1. below \in SUBSET S /\ {n} \in SUBSET below
  OBVIOUS
<1>2. IsFiniteSet(below) /\ Cardinality(below) <= Cardinality(S)
  BY <1>1, FS_Subset
<1>3. Cardinality({n}) = 1 /\ Cardinality({n}) <= Cardinality(below)
  BY <1>1, <1>2, FS_Singleton, FS_Subset
<1>4. Cardinality(below) \in Nat /\ Cardinality(S) \in Nat
  BY <1>2, FS_CardinalityType
<1> HIDE DEF below
<1>5. Cardinality(below) \in 1 .. Cardinality(S)
  BY <1>2, <1>3, <1>4
<1> QED BY <1>5 DEF Rank, below

LEMMA RankGrows ==
  ASSUME NEW S \in SUBSET Int, IsFiniteSet(S), NEW m \in S, NEW n \in S, m < n
  PROVE  Rank(S, m) < Rank(S, n)
<1> DEFINE lower == {k \in S : k <= m}
           upper == {k \in S : k <= n}
<1>1. upper \in SUBSET S /\ lower \in SUBSET upper /\ lower # upper
  <2>1. m \in Int /\ n \in Int /\ ~(n <= m) /\ \A k \in S : k \in Int /\ (k <= m => k <= n)
    OBVIOUS
  <2>2. n \in upper /\ n \notin lower
    BY <2>1
  <2>3. lower \in SUBSET upper
    BY <2>1
  <2> QED BY <2>2, <2>3
<1>2. IsFiniteSet(upper)
  BY <1>1, FS_Subset
<1>3. Cardinality(lower) <= Cardinality(upper) /\ Cardinality(lower) # Cardinality(upper)
  BY <1>1, <1>2, FS_Subset
<1>4. Cardinality(lower) \in Nat /\ Cardinality(upper) \in Nat
  BY <1>1, <1>2, FS_Subset, FS_CardinalityType
<1> HIDE DEF lower, upper
<1>5. Cardinality(lower) < Cardinality(upper)
  BY <1>3, <1>4
<1> QED BY <1>5 DEF Rank, lower, upper

\* Sorted(S) lists the members of S, each once and in their order.
LEMMA SortedLists ==
  ASSUME NEW S \in SUBSET Int, IsFiniteSet(S)
  PROVE  /\ Cardinality(S) \in Nat /\ Sorted(S) \in [1 .. Cardinality(S) -> S]
         /\ Sorted(S) \in Seq(S) /\ Len(Sorted(S)) = Cardinality(S)
         /\ \A n \in S : Sorted(S)[Rank(S, n)] = n
         /\ \A i \in 1 .. Cardinality(S) : Rank(S, Sorted(S)[i]) = i
<1> DEFINE size == Cardinality(S)
           f == [x \in S |-> Rank(S, x)]
<1>1. size \in Nat
  BY FS_CardinalityType
<1>2. f \in [S -> 1 .. size]
  BY RankRange
<1>3. \A a, b \in S : Rank(S, a) = Rank(S, b) => a = b
  <2>1. SUFFICES ASSUME NEW a \in S, NEW b \in S, a # b
                 PROVE  Rank(S, a) # Rank(S, b)
    OBVIOUS
  <2>2. Rank(S, a) \in Int /\ Rank(S, b) \in Int
    BY <1>1, RankRange
  <2>3. CASE a < b
    BY <2>2, <2>3, RankGrows
  <2>4. CASE b < a
    BY <2>2, <2>4, RankGrows
  <2> QED BY <2>1, <2>3, <2>4
<1>4. f \in Injection(S, 1 .. size)
  BY <1>2, <1>3 DEF Injection, IsInjective
<1>5. IsFiniteSet(1 .. size) /\ Cardinality(1 .. size) = size
  BY <1>1, FS_Interval
<1>6. f \in Surjection(S, 1 .. size)
  BY <1>4, <1>5, FS_Injection
<1>7. \A i \in 1 .. size : \E x \in S : Rank(S, x) = i
  BY <1>6 DEF Surjection
<1>8. \A i \in 1 .. size : /\ (CHOOSE x \in S : Rank(S, x) = i) \in S
                           /\ Rank(S, CHOOSE x \in S : Rank(S, x) = i) = i
  BY <1>7
<1>9. /\ Sorted(S) \in [1 .. size -> S]
      /\ \A i \in 1 .. size : Rank(S, Sorted(S)[i]) = i
  BY <1>8 DEF Sorted
<1>10. \A n \in S : Sorted(S)[Rank(S, n)] = n
  BY <1>3, <1>9, RankRange
<1> HIDE DEF size
<1>11. Sorted(S) \in Seq(S) /\ Len(Sorted(S)) = size
  BY <1>1, <1>9
<1> QED BY <1>1, <1>9, <1>10, <1>11 DEF size

LEMMA LeastNumber ==
  ASSUME NEW S \in SUBSET Nat, S # {}
  PROVE  \E x \in S : \A y \in S : x <= y
<1>1. IsWellFoundedOn(OpToRel(<, Nat), Nat)
  BY NatLessThanWellFounded
<1>2. \E x \in S : \A y \in S : ~(<<y, x>> \in OpToRel(<, Nat))
  BY <1>1, WFMin, Zenon
<1>3. \E x \in S : \A y \in S : ~(y < x)
  BY <1>2 DEF OpToRel
<1> QED BY <1>3

LEMMA FunctionIsSeq ==
  ASSUME NEW V, NEW s \in Seq(V), NEW U, NEW f \in [DOMAIN s -> U]
  PROVE  f \in Seq(U) /\ DOMAIN f = DOMAIN s
<1>1. Len(s) \in Nat /\ DOMAIN s = 1 .. Len(s)
  BY LenProperties
<1> QED BY <1>1

LEMMA PlacesFinite ==
  ASSUME NEW V, NEW s \in Seq(V), NEW S \in SUBSET DOMAIN s
  PROVE  S \in SUBSET Int /\ IsFiniteSet(S)
<1>1. Len(s) \in Nat /\ DOMAIN s = 1 .. Len(s)
  BY LenProperties
<1>2. IsFiniteSet(1 .. Len(s))
  BY <1>1, FS_Interval
<1> QED BY <1>1, <1>2, FS_Subset

\* Only(s, S) keeps the members of s at the places S, and nothing else.
LEMMA OnlyKeeps ==
  ASSUME NEW V, NEW s \in Seq(V), NEW S \in SUBSET DOMAIN s
  PROVE  /\ Only(s, S) \in Seq(V)
         /\ \A k \in S : \E i \in DOMAIN Only(s, S) : Only(s, S)[i] = s[k]
         /\ \A i \in DOMAIN Only(s, S) : \E k \in S : Only(s, S)[i] = s[k]
<1>1. S \in SUBSET Int /\ IsFiniteSet(S)
  BY PlacesFinite
<1> DEFINE size == Cardinality(S)
<1>2. /\ size \in Nat /\ Sorted(S) \in [1 .. size -> S]
      /\ \A k \in S : Rank(S, k) \in 1 .. size /\ Sorted(S)[Rank(S, k)] = k
  BY <1>1, SortedLists, RankRange
<1>3. \A k \in S : s[k] \in V
  BY ElementOfSeq
<1> HIDE DEF size
<1>4. Only(s, S) = [i \in 1 .. size |-> s[Sorted(S)[i]]]
  BY DEF Only, size
<1>5. Only(s, S) \in [1 .. size -> V]
  BY <1>2, <1>3, <1>4
<1>6. Only(s, S) \in Seq(V) /\ DOMAIN Only(s, S) = 1 .. size
  BY <1>2, <1>5
<1> QED BY <1>2, <1>4, <1>6

\* SetToSeq lists the members of a finite set.
LEMMA SetListed ==
  ASSUME NEW S, IsFiniteSet(S)
  PROVE  /\ SetToSeq(S) \in Seq(S)
         /\ \A x \in S : \E i \in DOMAIN SetToSeq(S) : SetToSeq(S)[i] = x
<1> DEFINE size == Cardinality(S)
<1>1. size \in Nat /\ IsFiniteSet(1 .. size) /\ Cardinality(1 .. size) = size
  BY FS_CardinalityType, FS_Interval
<1>2. PICK g : g \in Bijection(1 .. size, S)
  BY FS_CardinalityType DEF ExistsBijection
<1>3. \E f \in [1 .. size -> S] : IsInjective(f)
  BY <1>2 DEF Bijection, Injection, IsInjective
<1>4. SetToSeq(S) \in [1 .. size -> S] /\ IsInjective(SetToSeq(S))
  BY <1>3 DEF SetToSeq
<1>5. SetToSeq(S) \in Injection(1 .. size, S)
  BY <1>4 DEF Injection
<1>6. SetToSeq(S) \in Surjection(1 .. size, S)
  BY <1>1, <1>5, FS_Injection
<1>7. \A x \in S : \E i \in 1 .. size : SetToSeq(S)[i] = x
  BY <1>6 DEF Surjection
<1> HIDE DEF size
<1>8. SetToSeq(S) \in Seq(S) /\ DOMAIN SetToSeq(S) = 1 .. size
  BY <1>1, <1>4
<1> QED BY <1>7, <1>8

-----------------------------------------------------------------------------
(* Types: a request names a listing or a thing there is. *)

Ask == {r \in Request : (r.op = "list" => r.box \in Boxes) /\ (r.op = "get" => r.of \in Things)}
Asking == {c \in Call : c.todo \in Seq(Ask) /\ c.rows \in Seq(Things) /\ c.met \subseteq Boxes \X Things}
Typed == TypeOK /\ call \in Asking

LEMMA ThingsTyped ==
  ASSUME kind \in Kinds
  PROVE  /\ Things \in SUBSET Nat /\ IsFiniteSet(Things)
         /\ \A n \in Things : T(n) \in Thing
<1>1. World[kind] \in Seq(Thing)
  BY WorldAssumption
<1>2. Len(World[kind]) \in Nat /\ Things = 1 .. Len(World[kind])
  BY <1>1, LenProperties DEF Things
<1>3. IsFiniteSet(Things)
  BY <1>2, FS_Interval
<1>4. \A n \in Things : T(n) \in Thing
  BY <1>1, ElementOfSeq DEF Things, T
<1> QED BY <1>2, <1>3, <1>4

LEMMA ItemTyped ==
  ASSUME kind \in Kinds, NEW n \in Things, NEW whole \in BOOLEAN
  PROVE  ItemOf(n, whole) \in Item
<1>1. T(n) \in Thing /\ n \in Nat
  BY ThingsTyped
<1>2. Key(n) \in [scope : Boxes \cup {"-"}, own : Nat]
  BY <1>1 DEF Thing, Key
<1> QED BY <1>1, <1>2 DEF ItemOf, Item

LEMMA CallTyped ==
  ASSUME NEW c \in Asking
  PROVE  /\ c \in Call /\ c.pc \in {"idle", "ask", "answer"} /\ c.since \in Int /\ c.until \in Nat
         /\ c.todo \in Seq(Ask) /\ c.page \in Nat /\ c.rows \in Seq(Things)
         /\ c.part \in Seq(Item) /\ c.items \in Seq(Item) /\ c.met \in SUBSET (Boxes \X Things)
         /\ c.failed \in Nat /\ c.tried \in Nat /\ c.status \in Status
         /\ c.unread \in SUBSET Nat /\ c.missed \in SUBSET Nat
BY DEF Asking, Call

LEMMA AsksAreRequests == Seq(Ask) \subseteq Seq(Request)
<1>1. Ask \subseteq Request
  BY DEF Ask
<1> QED BY <1>1, SeqMonotonic

LEMMA ThingsAreNumbers == ASSUME kind \in Kinds PROVE Seq(Things) \subseteq Seq(Nat)
BY ThingsTyped, SeqMonotonic

LEMMA NoCallTyped == ASSUME kind \in Kinds PROVE NoCall \in Asking
<1>1. <<>> \in Seq(Ask) /\ <<>> \in Seq(Things) /\ <<>> \in Seq(Item) /\ <<>> \in Seq(Nat) /\ <<>> \in Seq(Request)
  BY EmptySeq
<1>2. NoCall \in Call
  BY <1>1 DEF NoCall, Call, Status
<1>3. NoCall.todo = <<>> /\ NoCall.rows = <<>> /\ NoCall.met = {}
  BY DEF NoCall
<1> QED BY <1>1, <1>2, <1>3 DEF Asking

LEMMA AloneAsks ==
  ASSUME NEW op \in {"token", "me", "merge"}
  PROVE  Alone(op) \in Ask
BY DEF Alone, R, Ask, Request

LEMMA ListingAsks ==
  ASSUME NEW box \in Boxes, NEW of \in Nat \cup {None}, NEW unit \in Boxes \cup {"-"}
  PROVE  R("list", box, of, unit) \in Ask /\ Listing(box) \in Ask
BY DEF Listing, R, Ask, Request

LEMMA GetAsks ==
  ASSUME kind \in Kinds, NEW n \in Things
  PROVE  R("get", "-", n, "-") \in Ask
BY ThingsTyped DEF R, Ask, Request

LEMMA PlanTyped == ASSUME kind \in Kinds PROVE Plan \in Seq(Ask)
<1>1. Alone("token") \in Ask /\ Alone("me") \in Ask /\ Alone("merge") \in Ask
  BY AloneAsks
<1>2. /\ Listing("inbox") \in Ask /\ Listing("channels") \in Ask /\ Listing("summaries") \in Ask
      /\ Listing("previous") \in Ask /\ Listing("report") \in Ask
  BY BoxAssumption, ListingAsks DEF None
<1>3. CASE kind = "gmail"
  BY <1>1, <1>2, <1>3 DEF Plan
<1>4. CASE kind = "m365"
  <2> DEFINE four == <<"mail", "calendar", "todo", "chat">>
             lists == [i \in 1 .. 4 |-> R("list", four[i], None, four[i])]
  <2>1. \A i \in 1 .. 4 : four[i] \in Boxes
    BY BoxAssumption
  <2>2. lists \in Seq(Ask)
    <3> HIDE DEF four
    <3>1. \A i \in 1 .. 4 : R("list", four[i], None, four[i]) \in Ask
      BY <2>1, ListingAsks
    <3> QED BY <3>1
  <2>3. <<Alone("token")>> \in Seq(Ask)
    BY <1>1
  <2>4. Plan = <<Alone("token")>> \o lists
    BY <1>4 DEF Plan
  <2> HIDE DEF lists
  <2> QED BY <2>2, <2>3, <2>4, ConcatProperties
<1>5. CASE kind = "slack"
  BY <1>2, <1>5 DEF Plan
<1>6. CASE kind = "zoom"
  <2> DEFINE first == <<Alone("token"), Alone("me"), Listing("summaries"), Listing("previous")>>
             report == IF S2S THEN <<Listing("report")>> ELSE <<>>
             last == <<Alone("merge")>>
  <2>1. first \in Seq(Ask) /\ report \in Seq(Ask) /\ last \in Seq(Ask)
    BY <1>1, <1>2
  <2>2. Plan = (first \o report) \o last
    BY <1>6 DEF Plan
  <2> HIDE DEF first, report, last
  <2>3. first \o report \in Seq(Ask)
    BY <2>1, ConcatProperties
  <2>4. (first \o report) \o last \in Seq(Ask)
    BY <2>1, <2>3, ConcatProperties
  <2> QED BY <2>2, <2>4
<1> QED BY <1>3, <1>4, <1>5, <1>6, WorldAssumption
-----------------------------------------------------------------------------
(* What the collectors make of an answer keeps the types. *)

LEMMA HeadAsks ==
  ASSUME NEW c \in Asking, c.todo # <<>>
  PROVE  Head(c.todo) \in Ask /\ Tail(c.todo) \in Seq(Ask)
BY CallTyped, HeadTailProperties

\* A call stays one when its queue and its results are replaced.
Updated(c, todo, part, items) ==
  [c EXCEPT !.todo = todo, !.page = 0, !.rows = <<>>, !.part = part, !.items = items]

LEMMA CallUpdated ==
  ASSUME kind \in Kinds, NEW c \in Asking, NEW todo \in Seq(Ask),
         NEW part \in Seq(Item), NEW items \in Seq(Item)
  PROVE  \E d \in Asking :
           /\ d = Updated(c, todo, part, items)
           /\ d.todo = todo /\ d.page = 0 /\ d.rows = <<>> /\ d.part = part /\ d.items = items
           /\ d.pc = c.pc /\ d.since = c.since /\ d.until = c.until /\ d.met = c.met
           /\ d.failed = c.failed /\ d.tried = c.tried /\ d.status = c.status /\ d.unread = c.unread
<1>1. todo \in Seq(Request) /\ <<>> \in Seq(Nat) /\ <<>> \in Seq(Things)
  BY AsksAreRequests, EmptySeq
<1>2. c \in Call
  BY DEF Asking
<1>3. PICK d : d = Updated(c, todo, part, items)
  OBVIOUS
<1>4. /\ d.todo = todo /\ d.page = 0 /\ d.rows = <<>> /\ d.part = part /\ d.items = items
      /\ d.pc = c.pc /\ d.since = c.since /\ d.until = c.until /\ d.met = c.met
      /\ d.failed = c.failed /\ d.tried = c.tried /\ d.status = c.status /\ d.unread = c.unread
  BY <1>2, <1>3 DEF Call, Updated
<1>5. d \in Call
  BY <1>1, <1>2, <1>3 DEF Call, Updated
<1>6. d \in Asking
  BY <1>1, <1>4, <1>5 DEF Asking
<1> QED BY <1>3, <1>4, <1>6

\* Whether the unit of the request at the head goes on.
Open(c, more) ==
  LET unit == Head(c.todo).unit
      todo == more \o Tail(c.todo)
  IN unit # "-" /\ \E i \in DOMAIN todo : todo[i].unit = unit

\* An answered request makes room for those that it asks for.
LEMMA DoneTyped ==
  ASSUME kind \in Kinds, NEW c \in Asking, c.todo # <<>>, NEW items \in Seq(Item), NEW more \in Seq(Ask)
  PROVE  LET d == Done(c, items, more)
         IN /\ d \in Asking /\ d.todo = more \o Tail(c.todo) /\ d.page = 0 /\ d.rows = <<>>
            /\ d.part = IF Open(c, more) THEN c.part \o items ELSE <<>>
            /\ d.items = IF Open(c, more) THEN c.items ELSE (c.items \o c.part) \o items
            /\ d.pc = c.pc /\ d.since = c.since /\ d.until = c.until /\ d.met = c.met
            /\ d.failed = c.failed /\ d.tried = c.tried /\ d.status = c.status /\ d.unread = c.unread
<1>1. PICK todo \in Seq(Ask) : todo = more \o Tail(c.todo)
  BY HeadAsks, ConcatProperties
<1>2. c.part \in Seq(Item) /\ c.items \in Seq(Item)
  BY CallTyped
<1>3. c.items \o c.part \in Seq(Item) /\ c.part \o items \in Seq(Item)
  BY <1>2, ConcatProperties
<1>4. (c.items \o c.part) \o items \in Seq(Item)
  BY <1>3, ConcatProperties
<1> DEFINE open == Open(c, more)
           part == IF open THEN c.part \o items ELSE <<>>
           all == IF open THEN c.items ELSE (c.items \o c.part) \o items
<1>5. part \in Seq(Item) /\ all \in Seq(Item)
  BY <1>2, <1>3, <1>4, EmptySeq
<1>6. Done(c, items, more) = Updated(c, todo, part, all)
  <2>1. c \in Call
    BY DEF Asking
  <2> QED BY <1>1, <2>1 DEF Done, Open, Call, Updated
<1> HIDE DEF part, all, open
<1>7. PICK d \in Asking :
        /\ d = Updated(c, todo, part, all)
        /\ d.todo = todo /\ d.page = 0 /\ d.rows = <<>> /\ d.part = part /\ d.items = all
        /\ d.pc = c.pc /\ d.since = c.since /\ d.until = c.until /\ d.met = c.met
        /\ d.failed = c.failed /\ d.tried = c.tried /\ d.status = c.status /\ d.unread = c.unread
  BY <1>5, CallUpdated
<1>8. d = Done(c, items, more)
  BY <1>6, <1>7
<1> QED BY <1>1, <1>7, <1>8 DEF part, all, open

LEMMA EndedTyped ==
  ASSUME kind \in Kinds, NEW c \in Asking, NEW status \in Status, NEW items \in Seq(Item)
  PROVE  LET d == Ended(c, status, items)
         IN /\ d \in Asking /\ d.pc = "answer" /\ d.since = c.since /\ d.until = c.until
            /\ d.status = status /\ d.items = items /\ d.todo = <<>> /\ d.rows = <<>> /\ d.part = <<>>
            /\ d.unread = c.unread
<1>1. PICK no \in Asking : no = NoCall
  BY NoCallTyped
<1>2. c.since \in Int /\ c.until \in Nat /\ c.unread \in SUBSET Nat /\ c.missed \in SUBSET Nat
  BY CallTyped
<1>3. /\ Ended(c, status, items) \in Call
      /\ Ended(c, status, items).todo = no.todo /\ Ended(c, status, items).rows = no.rows
      /\ Ended(c, status, items).met = no.met /\ Ended(c, status, items).part = no.part
      /\ Ended(c, status, items).pc = "answer" /\ Ended(c, status, items).status = status
      /\ Ended(c, status, items).since = c.since /\ Ended(c, status, items).until = c.until
      /\ Ended(c, status, items).items = items /\ Ended(c, status, items).unread = c.unread
  BY <1>1, <1>2 DEF Ended, Call, Asking
<1>4. no.todo = <<>> /\ no.rows = <<>> /\ no.part = <<>>
  BY <1>1 DEF NoCall
<1> QED BY <1>1, <1>3, <1>4, CallTyped DEF Asking

\* What is noted of a call beside it changes nothing else.
Noted(c, unread, missed) == [c EXCEPT !.unread = unread, !.missed = missed]
SameCall(c, d) ==
  /\ d.pc = c.pc /\ d.since = c.since /\ d.until = c.until /\ d.todo = c.todo /\ d.page = c.page
  /\ d.rows = c.rows /\ d.part = c.part /\ d.items = c.items /\ d.met = c.met
  /\ d.failed = c.failed /\ d.tried = c.tried /\ d.status = c.status

LEMMA NotedTyped ==
  ASSUME NEW c \in Asking, NEW unread \in SUBSET Nat, NEW missed \in SUBSET Nat
  PROVE  \E d \in Asking : d = Noted(c, unread, missed) /\ SameCall(c, d) /\ d.unread = unread
<1>1. c \in Call
  BY CallTyped
<1>2. PICK d : d = Noted(c, unread, missed)
  OBVIOUS
<1>3. SameCall(c, d) /\ d.unread = unread
  BY <1>1, <1>2 DEF Noted, Call, SameCall
<1>4. d \in Call
  BY <1>1, <1>2 DEF Noted, Call
<1>5. d \in Asking
  BY <1>3, <1>4, CallTyped DEF Asking, SameCall
<1> QED BY <1>2, <1>3, <1>5

LEMMA MissingTyped ==
  ASSUME kind \in Kinds, NEW c \in Asking
  PROVE  \E d \in Asking : d = Missing(c) /\ SameCall(c, d) /\ d.unread = c.unread
<1>1. c.unread \in SUBSET Nat /\ c.missed \in SUBSET Nat
  BY CallTyped
<1>2. PICK missed \in SUBSET Nat : missed = c.missed \cup Covers(Head(c.todo))
  BY <1>1, ThingsTyped DEF Covers
<1>3. Missing(c) = Noted(c, c.unread, missed)
  BY <1>2 DEF Missing, Noted, Asking, Call
<1> QED BY <1>1, <1>3, NotedTyped

LEMMA CutTyped ==
  ASSUME kind \in Kinds, NEW c \in Asking
  PROVE  \E d \in Asking : /\ d = [c EXCEPT !.unread = @ \cup Rest(c, TRUE)] /\ SameCall(c, d)
                            /\ d.unread = c.unread \cup Rest(c, TRUE)
<1>1. c.unread \in SUBSET Nat /\ c.missed \in SUBSET Nat
  BY CallTyped
<1>2. PICK unread \in SUBSET Nat : unread = c.unread \cup Rest(c, TRUE)
  BY <1>1, ThingsTyped DEF Rest
<1>3. [c EXCEPT !.unread = @ \cup Rest(c, TRUE)] = Noted(c, unread, c.missed)
  BY <1>2 DEF Noted, Asking, Call
<1>4. PICK d \in Asking : d = Noted(c, unread, c.missed) /\ SameCall(c, d) /\ d.unread = unread
  BY <1>1, NotedTyped
<1>5. d = [c EXCEPT !.unread = @ \cup Rest(c, TRUE)]
  BY <1>3, <1>4
<1> QED BY <1>2, <1>4, <1>5

LEMMA BrokenTyped ==
  ASSUME kind \in Kinds, NEW c \in Asking
  PROVE  \E d \in Asking : d = [c EXCEPT !.missed = Things] /\ SameCall(c, d)
<1>1. c.unread \in SUBSET Nat /\ Things \in SUBSET Nat
  BY CallTyped, ThingsTyped
<1>2. [c EXCEPT !.missed = Things] = Noted(c, c.unread, Things)
  BY DEF Noted, Asking, Call
<1> QED BY <1>1, <1>2, NotedTyped

LEMMA DroppedTyped ==
  ASSUME kind \in Kinds, NEW c \in Asking, c.todo # <<>>
  PROVE  Dropped(c) \in Asking /\ Dropped(c).failed = c.failed + 1 /\ Dropped(c).pc = c.pc
<1> DEFINE rest == Tail(c.todo)
           left == {i \in DOMAIN rest : Head(c.todo).unit = "-" \/ rest[i].unit # Head(c.todo).unit}
<1>1. PICK todo \in Seq(Ask) : todo = Only(rest, left)
  BY HeadAsks, OnlyKeeps
<1>2. <<>> \in Seq(Item) /\ <<>> \in Seq(Nat) /\ <<>> \in Seq(Things) /\ todo \in Seq(Request)
  BY <1>1, AsksAreRequests, EmptySeq
<1>3. c \in Call /\ c.failed \in Nat
  BY CallTyped
<1>4. PICK n \in Nat : n = c.failed + 1
  BY <1>3
<1>5. Dropped(c) = [c EXCEPT !.todo = todo, !.page = 0, !.rows = <<>>, !.part = <<>>, !.failed = n]
  BY <1>1, <1>3, <1>4 DEF Dropped, Call
<1>6. PICK d : d = [c EXCEPT !.todo = todo, !.page = 0, !.rows = <<>>, !.part = <<>>, !.failed = n]
  OBVIOUS
<1>7. d.todo = todo /\ d.rows = <<>> /\ d.met = c.met /\ d.failed = n /\ d.pc = c.pc
  BY <1>3, <1>6 DEF Call
<1>8. d \in Call
  BY <1>2, <1>3, <1>4, <1>6 DEF Call
<1>9. d = Dropped(c)
  BY <1>5, <1>6
<1> QED BY <1>1, <1>2, <1>4, <1>7, <1>8, <1>9, CallTyped DEF Asking

LEMMA FailsTyped ==
  ASSUME kind \in Kinds, NEW c \in Asking, c.todo # <<>>
  PROVE  /\ Fails(c) \in Asking
         /\ Fails(c).pc = "answer" => Fails(c).status = "error" \/ c.pc = "answer"
         /\ Fails(c).pc # "answer" => Fails(c).pc = c.pc /\ Fails(c).failed = c.failed + 1
<1> DEFINE r == Head(c.todo)
<1>0. PICK m \in Asking : m = Missing(c) /\ m.todo = c.todo /\ m.pc = c.pc /\ m.failed = c.failed
  BY MissingTyped DEF SameCall
<1>1. r \in Ask
  BY HeadAsks
<1>2. CASE Fatal(r)
  <2>1. PICK none \in Seq(Item) : none = <<>>
    BY EmptySeq
  <2>2. Fails(c) = Ended(m, "error", none)
    BY <1>0, <1>2, <2>1 DEF Fails
  <2>3. PICK d \in Asking : d = Ended(m, "error", none) /\ d.pc = "answer" /\ d.status = "error"
    BY EndedTyped DEF Status
  <2> QED BY <2>2, <2>3
<1>3. CASE ~Fatal(r) /\ kind = "zoom" /\ r.op = "get"
  <2>1. r.of \in Things
    BY <1>1, <1>3 DEF Ask
  <2>2. PICK item \in Item : item = ItemOf(r.of, FALSE)
    BY <2>1, ItemTyped
  <2>3. <<item>> \in Seq(Item) /\ <<>> \in Seq(Ask)
    BY EmptySeq
  <2>4. PICK d \in Asking : d = Done(c, <<item>>, <<>>) /\ d.pc = c.pc /\ d.failed = c.failed
    BY <2>3, DoneTyped
  <2>5. PICK e : e = [d EXCEPT !.failed = @ + 1]
    OBVIOUS
  <2>6. Fails(c) = e
    BY <1>3, <2>2, <2>4, <2>5 DEF Fails
  <2>7. d \in Call /\ d.failed \in Nat
    BY CallTyped
  <2>8. /\ e.todo = d.todo /\ e.rows = d.rows /\ e.met = d.met
        /\ e.pc = d.pc /\ e.failed = d.failed + 1
    BY <2>5, <2>7 DEF Call
  <2>9. e \in Call
    <3>1. PICK n \in Nat : n = d.failed + 1
      BY <2>7
    <3>2. e = [d EXCEPT !.failed = n]
      BY <2>5, <2>7, <3>1 DEF Call
    <3> QED BY <2>7, <3>2 DEF Call
  <2>10. e \in Asking
    BY <2>8, <2>9, CallTyped DEF Asking
  <2> QED BY <2>4, <2>6, <2>8, <2>10
<1>4. CASE ~Fatal(r) /\ ~(kind = "zoom" /\ r.op = "get")
  <2>1. Fails(c) = Dropped(m)
    BY <1>0, <1>4 DEF Fails
  <2>2. Dropped(m) \in Asking /\ Dropped(m).failed = m.failed + 1 /\ Dropped(m).pc = m.pc
    BY <1>0, DroppedTyped
  <2> QED BY <1>0, <2>1, <2>2
<1> QED BY <1>2, <1>3, <1>4
LEMMA RowsListed ==
  ASSUME kind \in Kinds, NEW c, NEW obeyed
  PROVE  /\ Rows(c, obeyed) \in Seq(Things)
         /\ \A n \in Things : Lists(c, Head(c.todo), n, obeyed) /\ n \notin ToSet(c.rows)
                                => \E i \in DOMAIN Rows(c, obeyed) : Rows(c, obeyed)[i] = n
         /\ \A i \in DOMAIN Rows(c, obeyed) :
              /\ Lists(c, Head(c.todo), Rows(c, obeyed)[i], obeyed)
              /\ Rows(c, obeyed)[i] \notin ToSet(c.rows)
              /\ \A j \in DOMAIN Rows(c, obeyed) : i < j => Rows(c, obeyed)[i] < Rows(c, obeyed)[j]
<1> DEFINE S == {n \in Things : Lists(c, Head(c.todo), n, obeyed) /\ n \notin ToSet(c.rows)}
<1>1. S \in SUBSET Int /\ S \in SUBSET Things /\ IsFiniteSet(S)
  BY ThingsTyped, FS_Subset
<1>2. /\ Cardinality(S) \in Nat /\ Sorted(S) \in [1 .. Cardinality(S) -> S] /\ Sorted(S) \in Seq(S)
      /\ \A n \in S : Sorted(S)[Rank(S, n)] = n /\ Rank(S, n) \in 1 .. Cardinality(S)
      /\ \A i \in 1 .. Cardinality(S) : Rank(S, Sorted(S)[i]) = i
  BY <1>1, SortedLists, RankRange
<1>3. \A i, j \in 1 .. Cardinality(S) : i < j => Sorted(S)[i] < Sorted(S)[j]
  <2>1. SUFFICES ASSUME NEW i \in 1 .. Cardinality(S), NEW j \in 1 .. Cardinality(S), i < j,
                        ~(Sorted(S)[i] < Sorted(S)[j])
                 PROVE  FALSE
    OBVIOUS
  <2>2. PICK a \in S, b \in S : a = Sorted(S)[i] /\ b = Sorted(S)[j]
    BY <1>2
  <2>3. Rank(S, a) = i /\ Rank(S, b) = j /\ a \in Int /\ b \in Int
    BY <1>1, <1>2, <2>2
  <2>4. b < a \/ a = b
    BY <2>1, <2>2, <2>3
  <2>5. CASE b < a
    BY <1>1, <1>2, <2>1, <2>3, <2>5, RankGrows
  <2>6. CASE a = b
    BY <1>2, <2>1, <2>3, <2>6
  <2> QED BY <2>4, <2>5, <2>6
<1>4. Rows(c, obeyed) = Sorted(S)
  BY DEF Rows, Rest
<1>5. Seq(S) \subseteq Seq(Things) /\ DOMAIN Sorted(S) = 1 .. Cardinality(S)
  BY <1>1, <1>2, SeqMonotonic
<1>6. \A i \in 1 .. Cardinality(S) : Sorted(S)[i] \in S
  BY <1>2
<1>7. \A n : n \in S <=> n \in Things /\ Lists(c, Head(c.todo), n, obeyed) /\ n \notin ToSet(c.rows)
  OBVIOUS
<1> HIDE DEF S
<1> QED BY <1>2, <1>3, <1>4, <1>5, <1>6, <1>7

LEMMA ScannedTyped ==
  ASSUME kind \in Kinds, NEW c \in Asking
  PROVE  Scanned(c) \in Seq(Things)
<1> DEFINE stop == {i \in DOMAIN c.rows :
                      IF T(c.rows[i]).at = None THEN Unjudgeable(c, i) > MAX_UNJUDGEABLE
                      ELSE T(c.rows[i]).at < c.since - GRACE}
           first == CHOOSE i \in stop : \A j \in stop : i <= j
<1>1. c.rows \in Seq(Things) /\ DOMAIN c.rows = 1 .. Len(c.rows) /\ Len(c.rows) \in Nat
  BY CallTyped, LenProperties
<1>2. CASE Head(c.todo).box # "chat" \/ stop = {}
  BY <1>1, <1>2 DEF Scanned
<1>3. CASE ~(Head(c.todo).box # "chat" \/ stop = {})
  <2>1. stop \in SUBSET Nat /\ stop # {} /\ stop \subseteq 1 .. Len(c.rows)
    BY <1>1, <1>3
  <2> HIDE DEF stop
  <2>2. \E i \in stop : \A j \in stop : i <= j
    BY <2>1, LeastNumber
  <2>3. first \in 1 .. Len(c.rows)
    BY <2>1, <2>2
  <2>4. Scanned(c) = SubSeq(c.rows, 1, first - 1)
    BY <1>3 DEF Scanned, stop
  <2> HIDE DEF first
  <2>5. first - 1 \in Nat /\ first - 1 <= Len(c.rows)
    BY <1>1, <2>3
  <2>6. \A i \in 1 .. first - 1 : i \in 1 .. Len(c.rows)
    BY <1>1, <2>3
  <2> QED BY <1>1, <2>4, <2>5, <2>6, SubSeqProperties
<1> QED BY <1>2, <1>3

LEMMA OpenedTyped ==
  ASSUME kind \in Kinds, NEW c \in Asking, c.todo # <<>>
  PROVE  Opened(c) \in Seq(Ask)
<1>1. PICK s \in Seq(Things) : s = Scanned(c)
  BY ScannedTyped
<1>2. PICK u \in Boxes \cup {"-"} : u = Head(c.todo).unit
  BY HeadAsks DEF Ask, Request
<1>3. \A i \in DOMAIN s : R("list", T(s[i]).holds, None, u) \in Ask
  <2>1. \A i \in DOMAIN s : T(s[i]).holds \in Boxes
    BY ElementOfSeq, ThingsTyped DEF Thing
  <2> QED BY <2>1, ListingAsks
<1>4. /\ Opened(c) = [i \in 1 .. Len(s) |-> R("list", T(s[i]).holds, None, u)]
      /\ DOMAIN s = 1 .. Len(s) /\ Len(s) \in Nat
  BY <1>1, <1>2, LenProperties DEF Opened
<1> QED BY <1>3, <1>4

LEMMA ThreadsTyped ==
  ASSUME kind \in Kinds, NEW c \in Asking, c.todo # <<>>, Head(c.todo).op = "list"
  PROVE  Threads(c) \in Seq(Ask)
<1> DEFINE places == {i \in DOMAIN c.rows : \E m \in Things \ gone :
                        T(m).box = T(c.rows[i]).box /\ T(m).under = T(c.rows[i]).own}
<1>1. c.rows \in Seq(Things) /\ Head(c.todo).box \in Boxes
  BY CallTyped, HeadAsks DEF Ask
<1>2. PICK s \in Seq(Things) : s = Only(c.rows, places)
  BY <1>1, OnlyKeeps
<1>3. PICK b \in Boxes : b = Head(c.todo).box
  BY <1>1
<1>4. \A i \in DOMAIN s : R("list", b, T(s[i]).own, "-") \in Ask
  <2>1. \A i \in DOMAIN s : T(s[i]).own \in Nat
    BY ElementOfSeq, ThingsTyped DEF Thing
  <2> QED BY <2>1, ListingAsks
<1>5. DOMAIN s = 1 .. Len(s) /\ Len(s) \in Nat
  BY LenProperties
<1>6. CASE kind # "slack" \/ Head(c.todo).of # None
  BY <1>6, EmptySeq DEF Threads
<1>7. CASE ~(kind # "slack" \/ Head(c.todo).of # None)
  <2>1. Threads(c) = [i \in 1 .. Len(s) |-> R("list", b, T(s[i]).own, "-")]
    BY <1>2, <1>3, <1>5, <1>7 DEF Threads
  <2> QED BY <1>4, <1>5, <2>1
<1> QED BY <1>6, <1>7
LEMMA ListedTyped ==
  ASSUME kind \in Kinds, NEW c \in Asking, c.todo # <<>>, Head(c.todo).op = "list"
  PROVE  /\ Listed(c) \in Asking /\ Listed(c).pc = c.pc /\ Listed(c).since = c.since
         /\ Listed(c).until = c.until /\ Listed(c).failed = c.failed /\ Listed(c).status = c.status
<1> DEFINE r == Head(c.todo)
           places == {i \in DOMAIN c.rows : Kept(c, c.rows[i])}
<1>1. /\ c.rows \in Seq(Things) /\ DOMAIN c.rows = 1 .. Len(c.rows) /\ Len(c.rows) \in Nat /\ r.box \in Boxes
      /\ c \in Call /\ c.met \in SUBSET (Boxes \X Things)
  BY CallTyped, HeadAsks, LenProperties DEF Ask
<1>2. PICK noItems \in Seq(Item), noAsks \in Seq(Ask) : noItems = <<>> /\ noAsks = <<>>
  BY EmptySeq
<1>3. CASE kind = "gmail"
  <2>1. PICK more \in Seq(Ask) : more = [i \in DOMAIN c.rows |-> R("get", "-", c.rows[i], "-")]
    <3>1. \A i \in DOMAIN c.rows : R("get", "-", c.rows[i], "-") \in Ask
      BY <1>1, GetAsks, ElementOfSeq
    <3>2. [i \in DOMAIN c.rows |-> R("get", "-", c.rows[i], "-")] \in [DOMAIN c.rows -> Ask]
      BY <3>1
    <3> QED BY <1>1, <3>2, FunctionIsSeq
  <2>2. PICK d \in Asking : /\ d = Done(c, noItems, more) /\ d.pc = c.pc /\ d.since = c.since
                            /\ d.until = c.until /\ d.failed = c.failed /\ d.status = c.status
    BY DoneTyped
  <2>3. PICK n \in Nat : n = Len(c.rows)
    BY <1>1
  <2>4. PICK e : e = [d EXCEPT !.tried = n]
    OBVIOUS
  <2>5. Listed(c) = e
    BY <1>2, <1>3, <2>1, <2>2, <2>3, <2>4 DEF Listed
  <2>6. d \in Call
    BY CallTyped
  <2>7. /\ e.todo = d.todo /\ e.rows = d.rows /\ e.met = d.met /\ e.pc = d.pc /\ e.since = d.since
        /\ e.until = d.until /\ e.failed = d.failed /\ e.status = d.status
    BY <2>4, <2>6 DEF Call
  <2>8. e \in Call
    BY <2>4, <2>6 DEF Call
  <2>9. e \in Asking
    BY <2>7, <2>8, CallTyped DEF Asking
  <2> QED BY <2>2, <2>5, <2>7, <2>9
<1>4. CASE kind = "zoom"
  <2>1. PICK d \in Asking : /\ d = Done(c, noItems, noAsks) /\ d.pc = c.pc /\ d.since = c.since /\ d.met = c.met
                            /\ d.until = c.until /\ d.failed = c.failed /\ d.status = c.status
    BY DoneTyped
  <2>2. PICK met \in SUBSET (Boxes \X Things) : met = d.met \cup {<<r.box, n>> : n \in ToSet(c.rows)}
    <3>1. ToSet(c.rows) \subseteq Things
      BY <1>1, ElementOfSeq DEF ToSet
    <3>2. {<<r.box, n>> : n \in ToSet(c.rows)} \in SUBSET (Boxes \X Things)
      BY <1>1, <3>1
    <3>3. d.met \in SUBSET (Boxes \X Things)
      BY <1>1, <2>1
    <3> QED BY <3>2, <3>3
  <2>3. PICK e : e = [d EXCEPT !.met = met]
    OBVIOUS
  <2>4. d \in Call
    BY CallTyped
  <2>5. Listed(c) = e
    BY <1>2, <1>4, <2>1, <2>2, <2>3, <2>4 DEF Listed, Call
  <2>6. /\ e.todo = d.todo /\ e.rows = d.rows /\ e.met = met /\ e.pc = d.pc /\ e.since = d.since
        /\ e.until = d.until /\ e.failed = d.failed /\ e.status = d.status
    BY <2>3, <2>4 DEF Call
  <2>7. e \in Call
    <3>1. met \in SUBSET (Boxes \X Nat)
      BY ThingsTyped
    <3> QED BY <2>3, <2>4, <3>1 DEF Call
  <2>8. e \in Asking
    BY <2>6, <2>7, CallTyped DEF Asking
  <2> QED BY <2>1, <2>5, <2>6, <2>8
<1>5. CASE kind \notin {"gmail", "zoom"} /\ r.box \in {"todo", "chat", "channels"}
  <2>1. PICK more \in Seq(Ask) : more = Opened(c)
    BY OpenedTyped
  <2>2. PICK d \in Asking : /\ d = Done(c, noItems, more) /\ d.pc = c.pc /\ d.since = c.since
                            /\ d.until = c.until /\ d.failed = c.failed /\ d.status = c.status
    BY DoneTyped
  <2> QED BY <1>2, <1>5, <2>1, <2>2 DEF Listed
<1>6. CASE kind \notin {"gmail", "zoom"} /\ r.box \notin {"todo", "chat", "channels"}
  <2>1. PICK more \in Seq(Ask) : more = Threads(c)
    BY ThreadsTyped
  <2>2. PICK kept \in Seq(Things) : kept = Only(c.rows, places)
    BY <1>1, OnlyKeeps
  <2>3. PICK items \in Seq(Item) : items = [i \in DOMAIN kept |-> ItemOf(kept[i], TRUE)]
    <3>1. \A i \in DOMAIN kept : kept[i] \in Things
      BY ElementOfSeq
    <3>2. \A i \in DOMAIN kept : ItemOf(kept[i], TRUE) \in Item
      BY <3>1, ItemTyped
    <3>3. [i \in DOMAIN kept |-> ItemOf(kept[i], TRUE)] \in [DOMAIN kept -> Item]
      BY <3>2
    <3> QED BY <3>3, FunctionIsSeq
  <2>4. PICK d \in Asking : /\ d = Done(c, items, more) /\ d.pc = c.pc /\ d.since = c.since
                            /\ d.until = c.until /\ d.failed = c.failed /\ d.status = c.status
    BY DoneTyped
  <2> QED BY <1>6, <2>1, <2>2, <2>3, <2>4 DEF Listed
<1> QED BY <1>3, <1>4, <1>5, <1>6

\* A page more of the listing at the head.
Paged(c, rows) ==
  [c EXCEPT !.rows = @ \o SubSeq(rows, 1, IF PAGE < Len(rows) THEN PAGE ELSE Len(rows)), !.page = @ + 1]

LEMMA PagedTyped ==
  ASSUME kind \in Kinds, NEW c \in Asking, NEW rows \in Seq(Things)
  PROVE  \E d \in Asking :
           /\ d = Paged(c, rows) /\ d.todo = c.todo /\ d.page = c.page + 1
           /\ d.rows = c.rows \o SubSeq(rows, 1, IF PAGE < Len(rows) THEN PAGE ELSE Len(rows))
           /\ d.part = c.part /\ d.items = c.items
           /\ d.pc = c.pc /\ d.since = c.since /\ d.until = c.until /\ d.met = c.met
           /\ d.failed = c.failed /\ d.tried = c.tried /\ d.status = c.status /\ d.unread = c.unread
<1> DEFINE end == IF PAGE < Len(rows) THEN PAGE ELSE Len(rows)
<1>1. Len(rows) \in Nat /\ PAGE \in Nat /\ end \in Nat /\ end <= Len(rows)
  BY LenProperties, PageAssumption
<1>2. SubSeq(rows, 1, end) \in Seq(Things)
  <2> HIDE DEF end
  <2>1. \A i \in 1 .. end : i \in 1 .. Len(rows)
    BY <1>1
  <2> QED BY <1>1, <2>1, SubSeqProperties
<1>3. c \in Call /\ c.rows \in Seq(Things) /\ c.page \in Nat
  BY CallTyped
<1>4. PICK all \in Seq(Things) : all = c.rows \o SubSeq(rows, 1, end)
  BY <1>2, <1>3, ConcatProperties
<1>5. PICK n \in Nat : n = c.page + 1
  BY <1>3
<1>6. PICK d : d = [c EXCEPT !.rows = all, !.page = n]
  OBVIOUS
<1>7. /\ d.todo = c.todo /\ d.page = n /\ d.rows = all /\ d.part = c.part /\ d.items = c.items
      /\ d.pc = c.pc /\ d.since = c.since /\ d.until = c.until /\ d.met = c.met
      /\ d.failed = c.failed /\ d.tried = c.tried /\ d.status = c.status /\ d.unread = c.unread
  BY <1>3, <1>6 DEF Call
<1>8. d \in Call
  <2>1. all \in Seq(Nat)
    BY ThingsAreNumbers
  <2> QED BY <1>3, <1>6, <2>1 DEF Call
<1>9. d \in Asking
  BY <1>7, <1>8, CallTyped DEF Asking
<1>10. d = Paged(c, rows)
  BY <1>3, <1>4, <1>5, <1>6 DEF Paged, Call
<1> QED BY <1>4, <1>5, <1>7, <1>9, <1>10
-----------------------------------------------------------------------------
(* Type correctness, and with it one row per key. *)

LEMMA TypedFacts ==
  ASSUME Typed
  PROVE  /\ kind \in Kinds /\ now \in 0 .. MaxTime /\ gone \subseteq Things
         /\ summary \in [Things -> Nat \cup {None}] /\ mark \in Nat /\ stored \subseteq Item
         /\ call \in Asking /\ vouched \subseteq Things /\ behind \subseteq Things /\ given \subseteq Nat
         /\ streak \in 0 .. MAX_STUCK_RUNS - 1
         /\ tally \in [{"faults", "changes"} -> Nat]
BY DEF Typed, TypeOK

LEMMA SameKind == ASSUME kind' = kind PROVE Things' = Things /\ Asking' = Asking /\ Ask' = Ask
BY DEF Things, Asking, Ask

\* A step of a collection touches nothing but the call.
LEMMA CallStep ==
  ASSUME Typed, call' \in Asking, UNCHANGED <<service, table>>,
         tally' \in [{"faults", "changes"} -> Nat]
  PROVE  Typed'
<1>1. call' \in Call
  BY DEF Asking
<1> QED BY <1>1, SameKind DEF Typed, TypeOK, service, table

LEMMA TallyCounts ==
  ASSUME Typed, NEW what \in {"faults", "changes"}, NEW limit, Counted(what, limit)
  PROVE  tally' \in [{"faults", "changes"} -> Nat]
BY DEF Typed, TypeOK, Counted

LEMMA AskingHasHead ==
  ASSUME NEW op, Asks(op)
  PROVE  call.pc = "ask" /\ call.todo # <<>> /\ Head(call.todo).op = op
BY DEF Asks

LEMMA ServiceTyped ==
  ASSUME Typed, Tick \/ \E n \in Things : Delete(n) \/ Summarize(n)
  PROVE  Typed'
<1>1. CASE Tick
  <2>1. now' \in 0 .. MaxTime
    BY <1>1, CollectorNumbers DEF Tick, Typed, TypeOK
  <2> QED BY <1>1, <2>1, SameKind DEF Tick, Typed, TypeOK, table
<1>2. ASSUME NEW n \in Things, Delete(n) PROVE Typed'
  <2>1. tally' \in [{"faults", "changes"} -> Nat]
    BY <1>2, TallyCounts DEF Delete
  <2> QED BY <1>2, <2>1, SameKind DEF Delete, Typed, TypeOK, table
<1>3. ASSUME NEW n \in Things, Summarize(n) PROVE Typed'
  <2>1. tally' \in [{"faults", "changes"} -> Nat]
    BY <1>3, TallyCounts DEF Summarize
  <2>2. now \in Nat
    BY CollectorNumbers DEF Typed, TypeOK
  <2>3. summary' \in [Things -> Nat \cup {None}]
    BY <1>3, <2>2 DEF Summarize, Typed, TypeOK
  <2> QED BY <1>3, <2>1, <2>3, SameKind DEF Summarize, Typed, TypeOK, table
<1> QED BY <1>1, <1>2, <1>3

LEMMA MergeTyped ==
  ASSUME Typed, Merge
  PROVE  call' \in Asking
<1> DEFINE met == {m[2] : m \in call.met}
           mine == {n \in met : T(n).hosted \/ <<"summaries", n>> \in call.met}
<1>1. kind \in Kinds /\ call \in Asking /\ call.todo # <<>> /\ IsFiniteSet(Things)
  BY TypedFacts, ThingsTyped DEF Merge, Asks
<1>2. met \in SUBSET Things /\ mine \in SUBSET Things
  BY <1>1, CallTyped
<1> HIDE DEF met, mine
<1>3. IsFiniteSet(mine)
  BY <1>1, <1>2, FS_Subset
<1>4. PICK first \in Seq(Things) : first = SetToSeq(mine)
  BY <1>2, <1>3, SetListed, SeqMonotonic
<1>5. met \ ToSet(first) \in SUBSET Things /\ IsFiniteSet(met \ ToSet(first))
  BY <1>1, <1>2, FS_Subset
<1>6. PICK others \in Seq(Things) : others = SetToSeq(met \ ToSet(first))
  BY <1>5, SetListed, SeqMonotonic
<1>7. PICK items \in Seq(Item) : items = [i \in DOMAIN others |-> ItemOf(others[i], FALSE)]
  <2>1. \A i \in DOMAIN others : others[i] \in Things
    BY ElementOfSeq
  <2>2. \A i \in DOMAIN others : ItemOf(others[i], FALSE) \in Item
    BY <1>1, <2>1, ItemTyped
  <2>3. [i \in DOMAIN others |-> ItemOf(others[i], FALSE)] \in [DOMAIN others -> Item]
    BY <2>2
  <2> QED BY <2>3, FunctionIsSeq
<1>8. PICK more \in Seq(Ask) : more = [i \in DOMAIN first |-> R("get", "-", first[i], "-")]
  <2>1. \A i \in DOMAIN first : first[i] \in Things
    BY ElementOfSeq
  <2>2. [i \in DOMAIN first |-> R("get", "-", first[i], "-")] \in [DOMAIN first -> Ask]
    BY <1>1, <2>1, GetAsks
  <2> QED BY <2>2, FunctionIsSeq
<1>9. PICK none \in Seq(Item) : none = <<>>
  BY EmptySeq
<1>10. call' = Ended(call, "error", none) \/ call' = Done(call, items, more)
  BY <1>4, <1>6, <1>7, <1>8, <1>9 DEF Merge, met, mine
<1>11. Ended(call, "error", none) \in Asking
  BY <1>1, EndedTyped DEF Status
<1>12. Done(call, items, more) \in Asking
  BY <1>1, DoneTyped
<1> QED BY <1>10, <1>11, <1>12

LEMMA GetTyped ==
  ASSUME Typed, GetMail \/ GetMeeting
  PROVE  call' \in Asking
<1> DEFINE n == Head(call.todo).of
<1>1. kind \in Kinds /\ call \in Asking /\ call.todo # <<>> /\ Head(call.todo).op = "get"
  BY TypedFacts DEF GetMail, GetMeeting, Asks
<1>2. n \in Things
  BY <1>1, HeadAsks DEF Ask
<1> HIDE DEF n
<1>3. PICK none \in Seq(Item), no \in Seq(Ask) : none = <<>> /\ no = <<>>
  BY EmptySeq
<1>4. \A whole \in BOOLEAN : <<ItemOf(n, whole)>> \in Seq(Item)
  <2>1. \A whole \in BOOLEAN : ItemOf(n, whole) \in Item
    BY <1>1, <1>2, ItemTyped
  <2> QED BY <2>1
<1>5. \A items \in Seq(Item) : Done(call, items, no) \in Asking
  BY <1>1, DoneTyped
<1>6. Fails(call) \in Asking
  BY <1>1, FailsTyped
<1>7. CASE GetMail
  <2>1. call' \in {Fails(call), Done(call, none, no), Done(call, <<ItemOf(n, TRUE)>>, no)}
    BY <1>3, <1>7 DEF GetMail, n
  <2> QED BY <1>4, <1>5, <1>6, <2>1
<1>8. CASE GetMeeting
  <2> DEFINE whole == <<"summaries", n>> \in call.met
  <2>1. whole \in BOOLEAN
    OBVIOUS
  <2>2. call' = Done(call, <<ItemOf(n, whole)>>, no)
    BY <1>3, <1>8 DEF GetMeeting, n
  <2> HIDE DEF whole
  <2>3. <<ItemOf(n, whole)>> \in Seq(Item)
    BY <1>4, <2>1
  <2> QED BY <1>5, <2>2, <2>3
<1> QED BY <1>7, <1>8

LEMMA ListPageTyped ==
  ASSUME Typed, ListPage
  PROVE  call' \in Asking
<1>1. kind \in Kinds /\ call \in Asking /\ call.todo # <<>> /\ Head(call.todo).op = "list"
  BY TypedFacts DEF ListPage, Asks
<1>2. PICK obeyed \in BOOLEAN :
        LET rows == Rows(call, obeyed)
        IN call' = IF Len(rows) <= PAGE THEN Listed(Paged(call, rows))
                   ELSE IF Paged(call, rows).page < MAX_PAGES[kind] THEN Paged(call, rows)
                   ELSE TooManyPages(Paged(call, rows))
  BY DEF ListPage, Paged
<1>3. PICK rows \in Seq(Things) : rows = Rows(call, obeyed)
  BY <1>1, RowsListed
<1>4. PICK read \in Asking : read = Paged(call, rows) /\ read.todo = call.todo
  BY <1>1, PagedTyped
<1>5. Listed(read) \in Asking
  BY <1>1, <1>4, ListedTyped
<1>6. TooManyPages(read) \in Asking
  <2>1. Fails(read) \in Asking
    BY <1>1, <1>4, FailsTyped
  <2>2. PICK cut \in Asking : cut = [read EXCEPT !.unread = @ \cup Rest(read, TRUE)] /\ cut.todo = read.todo
    BY <1>1, CutTyped DEF SameCall
  <2>3. Listed(cut) \in Asking
    BY <1>1, <1>4, <2>2, ListedTyped
  <2> QED BY <2>1, <2>2, <2>3 DEF TooManyPages
<1>7. call' \in {Listed(read), read, TooManyPages(read)}
  BY <1>2, <1>3, <1>4
<1> QED BY <1>4, <1>5, <1>6, <1>7

LEMMA BeginTyped ==
  ASSUME Typed, Begin
  PROVE  call' \in Asking
<1>1. kind \in Kinds /\ NoCall \in Asking /\ Plan \in Seq(Ask) /\ mark \in Nat /\ now \in Nat
  BY TypedFacts, NoCallTyped, PlanTyped, CollectorNumbers
<1>2. PICK since \in Int : since = mark - OVERLAP
  BY <1>1, CollectorNumbers
<1>3. PICK units \in Nat : units = Units
  BY DEF Units
<1>4. PICK todo \in Seq(Ask) : todo = Plan
  BY <1>1
<1>5. PICK no \in Asking : no = NoCall
  BY <1>1
<1>6. no \in Call /\ todo \in Seq(Request)
  BY AsksAreRequests, CallTyped
<1>7. call' = [no EXCEPT !.pc = "ask", !.since = since, !.until = now, !.todo = todo, !.tried = units]
  BY <1>2, <1>3, <1>4, <1>5 DEF Begin
<1>8. call' \in Call /\ call'.todo = todo /\ call'.rows = no.rows /\ call'.met = no.met
  BY <1>1, <1>6, <1>7 DEF Call
<1> QED BY <1>8, CallTyped DEF Asking

\* The rows of a result are the first of their keys, and of keys without a row.
LEMMA FreshKeys ==
  ASSUME NEW items \in Seq(Item)
  PROVE  /\ Fresh(items) \subseteq Item
         /\ \A r \in Fresh(items), q \in stored : r.key # q.key
         /\ \A r, q \in Fresh(items) : r.key = q.key => r = q
<1>1. DOMAIN items = 1 .. Len(items) /\ Len(items) \in Nat
  BY LenProperties
<1>2. Fresh(items) \subseteq Item
  BY ElementOfSeq DEF Fresh
<1>3. \A r \in Fresh(items), q \in stored : r.key # q.key
  BY DEF Fresh
<1>4. ASSUME NEW r \in Fresh(items), NEW q \in Fresh(items), r.key = q.key PROVE r = q
  <2>1. PICK i \in DOMAIN items : r = items[i] /\ \A k \in 1 .. i - 1 : items[k].key # r.key
    BY DEF Fresh
  <2>2. PICK j \in DOMAIN items : q = items[j] /\ \A k \in 1 .. j - 1 : items[k].key # q.key
    BY DEF Fresh
  <2>3. ~(i < j) /\ ~(j < i)
    BY <1>1, <1>4, <2>1, <2>2
  <2> QED BY <1>1, <2>1, <2>2, <2>3
<1> QED BY <1>2, <1>3, <1>4

LEMMA PersistTyped ==
  ASSUME Typed, Persist
  PROVE  Typed'
<1>1. /\ kind \in Kinds /\ call \in Asking /\ call.items \in Seq(Item) /\ call.until \in Nat
      /\ stored \subseteq Item /\ vouched \subseteq Things /\ mark \in Nat /\ call.missed \in SUBSET Nat
      /\ behind \subseteq Things /\ given \subseteq Nat /\ streak \in 0 .. MAX_STUCK_RUNS - 1
  BY TypedFacts, CallTyped
<1>2. /\ stored' = stored \cup Fresh(call.items) /\ call' = NoCall
      /\ mark' \in {mark, call.until} /\ streak' = Streak(call)
      /\ vouched' \in {vouched, vouched \cup Vouched(call)} /\ behind' \in {behind, behind \cup Behind(call)}
      /\ given' \in {given, given \cup {n \in call.missed : T(n).at < call.until}}
      /\ kind' = kind /\ now' = now /\ gone' = gone /\ summary' = summary /\ tally' = tally
  BY DEF Persist, service
<1>3. \A r, q \in stored' : r.key = q.key => r = q
  <2>1. \A r, q \in stored : r.key = q.key => r = q
    BY DEF Typed, TypeOK
  <2> QED BY <1>1, <1>2, <2>1, FreshKeys
<1>4. stored' \subseteq Item /\ mark' \in Nat
  BY <1>1, <1>2, FreshKeys
<1>5. vouched' \subseteq Things /\ behind' \subseteq Things /\ given' \subseteq Nat
  BY <1>1, <1>2 DEF Vouched, Behind
<1>6. streak' \in 0 .. MAX_STUCK_RUNS - 1
  BY <1>1, <1>2, CollectorNumbers DEF Streak, Moves, GivesUp
<1>7. call' \in Asking /\ call' \in Call
  BY <1>1, <1>2, NoCallTyped, CallTyped
<1> QED BY <1>2, <1>3, <1>4, <1>5, <1>6, <1>7, SameKind DEF Typed, TypeOK

LEMMA InitTyped == Init => Typed
<1> SUFFICES ASSUME Init PROVE Typed
  OBVIOUS
<1>1. kind \in Kinds /\ call = NoCall
  BY DEF Init
<1>2. call \in Asking /\ call \in Call
  BY <1>1, NoCallTyped, CallTyped
<1>3. 0 \in 0 .. MaxTime /\ 0 \in 0 .. MAX_STUCK_RUNS - 1
  BY CollectorNumbers
<1> QED BY <1>2, <1>3 DEF Init, Typed, TypeOK

LEMMA NextTyped == Typed /\ [Next]_vars => Typed'
<1> SUFFICES ASSUME Typed, [Next]_vars PROVE Typed'
  OBVIOUS
<1>0. /\ kind \in Kinds /\ call \in Asking /\ tally \in [{"faults", "changes"} -> Nat]
      /\ call.items \in Seq(Item)
  BY TypedFacts, CallTyped
<1>1. PICK none \in Seq(Item), no \in Seq(Ask) : none = <<>> /\ no = <<>>
  BY EmptySeq
<1>2. CASE Begin
  BY <1>0, <1>2, BeginTyped, CallStep DEF Begin
<1>3. CASE Reach
  <2>1. call.todo # <<>> /\ call' = Done(call, none, no)
    BY <1>1, <1>3 DEF Reach, Asks
  <2>2. call' \in Asking
    BY <1>0, <2>1, DoneTyped
  <2> QED BY <1>0, <1>3, <2>2, CallStep DEF Reach
<1>4. CASE ListPage
  BY <1>0, <1>4, ListPageTyped, CallStep DEF ListPage
<1>5. CASE GetMail
  BY <1>0, <1>5, GetTyped, CallStep DEF GetMail
<1>6. CASE GetMeeting
  BY <1>0, <1>6, GetTyped, CallStep DEF GetMeeting
<1>7. CASE Merge
  BY <1>0, <1>7, MergeTyped, CallStep DEF Merge
<1>8. CASE RequestFails
  <2>1. call' \in Asking
    BY <1>0, <1>8, FailsTyped DEF RequestFails, Asks
  <2>2. tally' \in [{"faults", "changes"} -> Nat]
    BY <1>8, TallyCounts DEF RequestFails
  <2> QED BY <1>8, <2>1, <2>2, CallStep DEF RequestFails
<1>9. CASE BreaksOff
  <2>0. PICK c \in Asking : c = [call EXCEPT !.missed = Things] /\ c.items = call.items
    BY <1>0, BrokenTyped DEF SameCall
  <2>1. call' = Ended(c, "error", c.items) \/ call' = Ended(c, "raised", none)
    BY <1>1, <1>9, <2>0 DEF BreaksOff
  <2>2. call' \in Asking
    <3>1. Ended(c, "error", c.items) \in Asking
      BY <1>0, <2>0, EndedTyped DEF Status
    <3>2. Ended(c, "raised", none) \in Asking
      BY <1>0, <2>0, EndedTyped DEF Status
    <3> QED BY <2>1, <3>1, <3>2
  <2>3. tally' \in [{"faults", "changes"} -> Nat]
    BY <1>9, TallyCounts DEF BreaksOff
  <2> QED BY <1>9, <2>2, <2>3, CallStep DEF BreaksOff
<1>10. CASE Finish
  <2>1. call' = Ended(call, Result(call), call.items) /\ Result(call) \in Status
    BY <1>10 DEF Finish, Result, Status
  <2>2. call' \in Asking
    BY <1>0, <2>1, EndedTyped
  <2> QED BY <1>0, <1>10, <2>2, CallStep DEF Finish
<1>11. CASE Persist
  BY <1>11, PersistTyped
<1>12. CASE Tick \/ \E n \in Things : Delete(n) \/ Summarize(n)
  BY <1>12, ServiceTyped
<1>13. CASE UNCHANGED vars
  BY <1>0, <1>13, CallStep DEF vars, service, table
<1> QED
  BY <1>2, <1>3, <1>4, <1>5, <1>6, <1>7, <1>8, <1>9, <1>10, <1>11, <1>12, <1>13 DEF Next, Collect

\* The queue of a collection only ever holds requests for listings and things
\* there are, and no two stored rows share a key, though only _persist sees to it.
THEOREM CollectionsTyped == Spec => []TypeOK
<1>1. Typed => TypeOK
  BY DEF Typed
<1> QED BY <1>1, InitTyped, NextTyped, PTL DEF Spec

-----------------------------------------------------------------------------
(* What an "ok" vouches for is stored: while nothing has failed, each thing    *)
(* vouched for is in hand already, or some request leads to it, or it lies     *)
(* behind a page limit.                                                        *)

Mine(item) == item.thing \in Things /\ item.key = Key(item.thing)

Held(s, n) == \E i \in DOMAIN s : s[i].thing = n
InHand(c, n) == Held(c.items, n) \/ Held(c.part, n)

\* What an "ok" is sure of: not what lies behind a page limit of Slack's or Zoom's.
Sure(c) == {n \in Vouched(c) : kind \in {"slack", "zoom"} => n \notin Behind(c)}

\* The i-th request of the queue leads to n.
Leads(c, i, n) ==
  LET r == c.todo[i]
  IN CASE kind = "gmail" -> r.op = "list" \/ (r.op = "get" /\ r.of = n)
       [] kind = "m365" -> r.op = "list" /\ (r.box = T(n).box \/ \E b \in Things : Shows(c, b, n) /\ T(b).box = r.box)
       [] kind = "slack" -> r.op = "list" /\ \/ r.box = "channels" /\ r.of = None
                                             \/ r.box = T(n).box /\ r.of \in {None, T(n).under}
       [] OTHER -> \/ r.op = "get" /\ r.of = n
                   \/ r.op = "merge" /\ \E m \in c.met : m[2] = n
                   \/ /\ r.op = "list" /\ r.box \in T(n).lists \ {"summaries"}
                      /\ \E j \in DOMAIN c.todo : i < j /\ c.todo[j].op = "merge"
Due(c, n) == \E i \in DOMAIN c.todo : Leads(c, i, n)

\* What has been read of the listing at the head: full pages, each thing once, of
\* that listing, and chats in their order.
RowsOf(c) ==
  /\ \A i, j \in DOMAIN c.rows : c.rows[i] = c.rows[j] => i = j
  /\ c.todo # <<>> /\ kind \in {"m365", "slack"} => \A i \in DOMAIN c.rows :
       /\ T(c.rows[i]).box = Head(c.todo).box
       /\ kind = "slack" => T(c.rows[i]).under = Head(c.todo).of
RowsFit(c) == Len(c.rows) = c.page * PAGE /\ RowsOf(c)
InOrder(c) ==
  c.todo # <<>> /\ kind = "m365" /\ Head(c.todo).box = "chat" =>
    \A b \in Of(kind, "chat"), i \in DOMAIN c.rows :
      T(b).at <= c.until => c.rows[i] < b \/ \E j \in 1 .. i : c.rows[j] = b

\* A request of mail's or calendar's is for mail or for events.
UnitFits(r) == kind = "m365" /\ r.unit \in {"mail", "calendar"} => r.box = r.unit

Promised(c) ==
  /\ \A n \in Sure(c) : InHand(c, n) \/ Due(c, n)
  /\ c.todo = <<>> => c.part = <<>>
  /\ \A i \in DOMAIN c.todo : UnitFits(c.todo[i])
OnTheWay(c) == c.pc = "ask" /\ c.failed = 0 => Promised(c) /\ RowsFit(c) /\ InOrder(c)
Answered(c) == c.pc = "answer" /\ c.status = "ok" => \A n \in Sure(c) : Held(c.items, n)
Windowed(c) == c.pc # "idle" => c.since = mark - OVERLAP /\ c.until <= now
Sound(c) == /\ \A i \in DOMAIN c.items : Mine(c.items[i])
            /\ \A i \in DOMAIN c.part : Mine(c.part[i])

BoxesStay == \A n \in gone : T(n).form # "box"
RowsMine == \A row \in stored : Mine(row)

Promise ==
  /\ Windowed(call) /\ OnTheWay(call) /\ Answered(call) /\ Sound(call)
  /\ BoxesStay /\ RowsMine /\ OkIsStored

-----------------------------------------------------------------------------
(* What stays in hand, and what stays due. *)

LEMMA JoinHeld ==
  ASSUME NEW s \in Seq(Item), NEW t \in Seq(Item), NEW n
  PROVE  Held(s \o t, n) <=> Held(s, n) \/ Held(t, n)
<1>1. /\ Len(s) \in Nat /\ Len(t) \in Nat /\ DOMAIN s = 1 .. Len(s) /\ DOMAIN t = 1 .. Len(t)
      /\ s \o t \in Seq(Item) /\ DOMAIN (s \o t) = 1 .. Len(s) + Len(t)
      /\ \A i \in 1 .. Len(s) + Len(t) : (s \o t)[i] = IF i <= Len(s) THEN s[i] ELSE t[i - Len(s)]
  BY LenProperties, ConcatProperties
<1> DEFINE both == s \o t
<1> HIDE DEF both
<1>2. ASSUME Held(both, n) PROVE Held(s, n) \/ Held(t, n)
  <2>1. PICK i \in DOMAIN both : both[i].thing = n
    BY <1>2 DEF Held
  <2>2. (i \in DOMAIN s /\ both[i] = s[i]) \/ (i - Len(s) \in DOMAIN t /\ both[i] = t[i - Len(s)])
    BY <1>1, <2>1 DEF both
  <2> QED BY <2>1, <2>2 DEF Held
<1>3. ASSUME Held(s, n) PROVE Held(both, n)
  <2>1. PICK i \in DOMAIN s : s[i].thing = n
    BY <1>3 DEF Held
  <2>2. i \in DOMAIN both /\ both[i] = s[i]
    BY <1>1 DEF both
  <2> QED BY <2>1, <2>2 DEF Held
<1>4. ASSUME Held(t, n) PROVE Held(both, n)
  <2>1. PICK i \in DOMAIN t : t[i].thing = n
    BY <1>4 DEF Held
  <2>2. Len(s) + i \in DOMAIN both /\ both[Len(s) + i] = t[i]
    BY <1>1 DEF both
  <2> QED BY <2>1, <2>2 DEF Held
<1> QED BY <1>2, <1>3, <1>4 DEF both

LEMMA JoinMine ==
  ASSUME NEW s \in Seq(Item), NEW t \in Seq(Item),
         \A i \in DOMAIN s : Mine(s[i]), \A i \in DOMAIN t : Mine(t[i])
  PROVE  \A i \in DOMAIN (s \o t) : Mine((s \o t)[i])
<1>1. /\ Len(s) \in Nat /\ Len(t) \in Nat /\ DOMAIN s = 1 .. Len(s) /\ DOMAIN t = 1 .. Len(t)
      /\ s \o t \in Seq(Item) /\ DOMAIN (s \o t) = 1 .. Len(s) + Len(t)
      /\ \A i \in 1 .. Len(s) + Len(t) : (s \o t)[i] = IF i <= Len(s) THEN s[i] ELSE t[i - Len(s)]
  BY LenProperties, ConcatProperties
<1> DEFINE both == s \o t
<1> HIDE DEF both
<1>2. ASSUME NEW i \in DOMAIN both PROVE Mine(both[i])
  <2>1. (i \in DOMAIN s /\ both[i] = s[i]) \/ (i - Len(s) \in DOMAIN t /\ both[i] = t[i - Len(s)])
    BY <1>1 DEF both
  <2> QED BY <2>1
<1> QED BY <1>2 DEF both

\* The queue after an answer: what was asked for more, then the rest.
Follows(c, more, todo) ==
  /\ Len(more) \in Nat /\ DOMAIN more = 1 .. Len(more)
  /\ \A i \in DOMAIN more : i \in DOMAIN todo /\ todo[i] = more[i]
  /\ \A j \in DOMAIN c.todo : j # 1 =>
       Len(more) + j - 1 \in DOMAIN todo /\ todo[Len(more) + j - 1] = c.todo[j]
  /\ \A k \in DOMAIN todo : \/ k \in DOMAIN more /\ todo[k] = more[k]
                            \/ \E j \in DOMAIN c.todo : todo[k] = c.todo[j]

LEMMA HeadFirst ==
  ASSUME NEW c \in Asking, c.todo # <<>>
  PROVE  1 \in DOMAIN c.todo /\ c.todo[1] = Head(c.todo) /\ \A i \in DOMAIN c.todo : i \in Nat /\ i >= 1
<1>1. c.todo \in Seq(Ask)
  BY CallTyped
<1>2. Len(c.todo) \in Nat \ {0} /\ DOMAIN c.todo = 1 .. Len(c.todo)
  BY <1>1, LenProperties, EmptySeq
<1> QED BY <1>1, <1>2

LEMMA QueueAfter ==
  ASSUME NEW c \in Asking, c.todo # <<>>, NEW more \in Seq(Ask)
  PROVE  Follows(c, more, more \o Tail(c.todo))
<1>0. PICK todo \in Seq(Ask) : todo = more \o Tail(c.todo)
  BY HeadAsks, ConcatProperties
<1>1. c.todo \in Seq(Ask)
  BY CallTyped
<1>2. PICK rest \in Seq(Ask) : rest = Tail(c.todo) /\ Len(rest) = Len(c.todo) - 1
                               /\ \A i \in 1 .. Len(rest) : rest[i] = c.todo[i + 1]
  BY <1>1, HeadTailProperties
<1>3. /\ Len(more) \in Nat /\ DOMAIN more = 1 .. Len(more) /\ Len(rest) \in Nat /\ DOMAIN rest = 1 .. Len(rest)
      /\ Len(c.todo) \in Nat \ {0} /\ DOMAIN c.todo = 1 .. Len(c.todo)
  BY <1>1, LenProperties, EmptySeq
<1>4. /\ todo \in Seq(Ask) /\ Len(todo) = Len(more) + Len(rest)
      /\ \A i \in 1 .. Len(more) + Len(rest) : todo[i] = IF i <= Len(more) THEN more[i] ELSE rest[i - Len(more)]
  BY <1>0, <1>2, ConcatProperties
<1>5. DOMAIN todo = 1 .. Len(more) + Len(rest)
  BY <1>4, LenProperties
<1>6. \A i \in DOMAIN more : i \in DOMAIN todo /\ todo[i] = more[i]
  <2>1. \A i \in DOMAIN more : i \in 1 .. Len(more) + Len(rest) /\ i <= Len(more)
    BY <1>3
  <2> QED BY <1>4, <1>5, <2>1
<1>7. ASSUME NEW j \in DOMAIN c.todo, j # 1
      PROVE  Len(more) + j - 1 \in DOMAIN todo /\ todo[Len(more) + j - 1] = c.todo[j]
  <2>1. j - 1 \in 1 .. Len(rest) /\ j \in Nat
    BY <1>2, <1>3, <1>7
  <2>2. rest[j - 1] = c.todo[j]
    BY <1>2, <2>1
  <2>3. PICK k : k = Len(more) + j - 1
    OBVIOUS
  <2>4. k \in 1 .. Len(more) + Len(rest) /\ ~(k <= Len(more)) /\ k - Len(more) = j - 1
    BY <1>2, <1>3, <2>1, <2>3
  <2>5. todo[k] = rest[j - 1] /\ k \in DOMAIN todo
    BY <1>4, <1>5, <2>4
  <2> QED BY <2>2, <2>3, <2>5
<1>8. ASSUME NEW k \in DOMAIN todo
      PROVE  \/ k \in DOMAIN more /\ todo[k] = more[k]
             \/ \E j \in DOMAIN c.todo : todo[k] = c.todo[j]
  <2>1. CASE k <= Len(more)
    BY <1>3, <1>4, <1>5, <2>1
  <2>2. CASE ~(k <= Len(more))
    <3>0. k \in 1 .. Len(more) + Len(rest) /\ k - Len(more) \in 1 .. Len(rest)
      BY <1>2, <1>3, <1>5, <2>2
    <3>1. k - Len(more) \in 1 .. Len(rest) /\ todo[k] = rest[k - Len(more)]
      BY <1>4, <2>2, <3>0
    <3>2. rest[k - Len(more)] = c.todo[k - Len(more) + 1] /\ k - Len(more) + 1 \in DOMAIN c.todo
      BY <1>2, <1>3, <3>1
    <3> QED BY <3>1, <3>2
  <2> QED BY <2>1, <2>2
<1>9. Follows(c, more, todo)
  BY <1>3, <1>6, <1>7, <1>8 DEF Follows
<1> QED BY <1>0, <1>9

\* A request that stays leads where it led, from its new place in the queue.
LEMMA LeadsFrom ==
  ASSUME NEW c \in Asking, NEW d \in Asking, NEW i \in DOMAIN c.todo, NEW k \in DOMAIN d.todo, NEW n,
         d.todo[k] = c.todo[i], c.met \subseteq d.met, d.since = c.since, d.until = c.until,
         \A j \in DOMAIN c.todo : i < j => \E l \in DOMAIN d.todo : k < l /\ d.todo[l] = c.todo[j],
         Leads(c, i, n)
  PROVE  Leads(d, k, n)
<1> DEFINE r == c.todo[i]
<1>1. CASE kind = "gmail"
  BY <1>1 DEF Leads
<1>2. CASE kind = "m365"
  <2>1. \A b : Shows(c, b, n) <=> Shows(d, b, n)
    BY DEF Shows
  <2> QED BY <1>2, <2>1 DEF Leads
<1>3. CASE kind = "slack"
  BY <1>3 DEF Leads
<1>4. CASE kind \notin {"gmail", "m365", "slack"}
  <2>1. CASE r.op = "get" /\ r.of = n
    BY <1>4, <2>1 DEF Leads
  <2>2. CASE r.op = "merge" /\ \E m \in c.met : m[2] = n
    BY <1>4, <2>2 DEF Leads
  <2>3. CASE /\ r.op = "list" /\ r.box \in T(n).lists \ {"summaries"}
             /\ \E j \in DOMAIN c.todo : i < j /\ c.todo[j].op = "merge"
    <3>1. \E l \in DOMAIN d.todo : k < l /\ d.todo[l].op = "merge"
      BY <2>3
    <3> QED BY <1>4, <2>3, <3>1 DEF Leads
  <2> QED BY <1>4, <2>1, <2>2, <2>3 DEF Leads
<1> QED BY <1>1, <1>2, <1>3, <1>4

LEMMA SureIs ==
  ASSUME NEW c, NEW d, d.since = c.since, d.until = c.until, c.unread \subseteq d.unread
  PROVE  Sure(d) \subseteq Sure(c)
<1>1. \A b, n : Shows(c, b, n) <=> Shows(d, b, n)
  BY DEF Shows
<1>2. \A n : Listable(c, n) <=> Listable(d, n)
  BY <1>1 DEF Listable
<1>3. Vouched(d) = Vouched(c)
  BY <1>2 DEF Vouched
<1>4. Behind(c) \subseteq Behind(d)
  BY DEF Behind
<1> QED BY <1>3, <1>4 DEF Sure

\* An answer keeps the promise when what the head led to is an item of it, or what
\* one of its further requests leads to.
LEMMA AnswerKeeps ==
  ASSUME kind \in Kinds, NEW c \in Asking, c.todo # <<>>, Promised(c),
         NEW items \in Seq(Item), NEW more \in Seq(Ask), NEW e \in Asking,
         NEW d \in Asking, d = Done(c, items, more),
         e.todo = d.todo, e.part = d.part, e.items = d.items, e.page = d.page, e.rows = d.rows,
         e.since = d.since, e.until = d.until, d.met \subseteq e.met, e.unread = d.unread,
         \A i \in DOMAIN more : UnitFits(more[i]),
         \A n \in Sure(c) : Leads(c, 1, n) => Held(items, n) \/ Due(e, n)
  PROVE  Promised(e) /\ RowsFit(e) /\ InOrder(e)
<1>1. /\ d.todo = more \o Tail(c.todo) /\ d.page = 0 /\ d.rows = <<>> /\ d.met = c.met
      /\ d.part = IF Open(c, more) THEN c.part \o items ELSE <<>>
      /\ d.items = IF Open(c, more) THEN c.items ELSE (c.items \o c.part) \o items
      /\ d.since = c.since /\ d.until = c.until /\ d.unread = c.unread
  BY DoneTyped, SMTT(30)
<1>2. /\ Len(more) \in Nat
      /\ \A i \in DOMAIN more : i \in DOMAIN e.todo /\ e.todo[i] = more[i]
      /\ \A j \in DOMAIN c.todo : j # 1 =>
           Len(more) + j - 1 \in DOMAIN e.todo /\ e.todo[Len(more) + j - 1] = c.todo[j]
      /\ \A k \in DOMAIN e.todo : \/ k \in DOMAIN more /\ e.todo[k] = more[k]
                                  \/ \E j \in DOMAIN c.todo : e.todo[k] = c.todo[j]
  <2>1. e.todo = more \o Tail(c.todo)
    BY <1>1
  <2>2. Follows(c, more, e.todo)
    BY <2>1, QueueAfter
  <2> QED BY <2>2 DEF Follows
<1>3. c.part \in Seq(Item) /\ c.items \in Seq(Item) /\ c.items \o c.part \in Seq(Item)
  BY CallTyped, ConcatProperties
<1>4. \A n : InHand(c, n) \/ Held(items, n) => InHand(e, n)
  <2>1. CASE Open(c, more)
    <3>1. e.items = c.items /\ e.part = c.part \o items
      BY <1>1, <2>1
    <3>2. \A n : Held(e.part, n) <=> Held(c.part, n) \/ Held(items, n)
      BY <1>3, <3>1, JoinHeld
    <3> QED BY <3>1, <3>2 DEF InHand
  <2>2. CASE ~Open(c, more)
    <3>1. PICK done \in Seq(Item) : done = c.items \o c.part /\ e.items = done \o items
      BY <1>1, <1>3, <2>2
    <3>2. \A n : Held(done \o items, n) <=> Held(done, n) \/ Held(items, n)
      BY JoinHeld
    <3>3. \A n : Held(done, n) <=> Held(c.items, n) \/ Held(c.part, n)
      BY <1>3, <3>1, JoinHeld
    <3> QED BY <3>1, <3>2, <3>3 DEF InHand
  <2> QED BY <2>1, <2>2
<1>5. ASSUME NEW i \in DOMAIN c.todo, i # 1, NEW n, Leads(c, i, n)
      PROVE  Due(e, n)
  <2>1. PICK k \in DOMAIN e.todo : k = Len(more) + i - 1 /\ i \in Nat /\ e.todo[k] = c.todo[i]
    BY <1>2, <1>5, HeadFirst
  <2>2. \A j \in DOMAIN c.todo : i < j => \E l \in DOMAIN e.todo : k < l /\ e.todo[l] = c.todo[j]
    <3>1. SUFFICES ASSUME NEW j \in DOMAIN c.todo, i < j
                   PROVE  \E l \in DOMAIN e.todo : k < l /\ e.todo[l] = c.todo[j]
      OBVIOUS
    <3>2. i >= 1 /\ j \in Nat
      BY HeadFirst
    <3>3. j \in Nat /\ j # 1 /\ k < Len(more) + j - 1
      BY <1>2, <2>1, <3>1, <3>2
    <3> QED BY <1>2, <3>1, <3>3
  <2>3. c.met \subseteq e.met /\ e.since = c.since /\ e.until = c.until
    BY <1>1
  <2>4. Leads(e, k, n)
    BY <1>5, <2>1, <2>2, <2>3, LeadsFrom, SMTT(30)
  <2> QED BY <2>1, <2>4 DEF Due
<1>6. \A n \in Sure(e) : InHand(e, n) \/ Due(e, n)
  <2>1. SUFFICES ASSUME NEW n \in Sure(e) PROVE InHand(e, n) \/ Due(e, n)
    OBVIOUS
  <2>2. n \in Sure(c)
    BY <1>1, SureIs
  <2>3. InHand(c, n) \/ Due(c, n)
    BY <2>2 DEF Promised
  <2>4. ASSUME NEW i \in DOMAIN c.todo, Leads(c, i, n) PROVE InHand(e, n) \/ Due(e, n)
    BY <1>4, <1>5, <2>2, <2>4
  <2> QED BY <1>4, <2>3, <2>4 DEF Due
<1>7. e.todo = <<>> => e.part = <<>>
  <2>1. SUFFICES ASSUME e.todo = <<>> PROVE ~Open(c, more)
    BY <1>1
  <2>2. DOMAIN (more \o Tail(c.todo)) = {}
    BY <1>1, <2>1
  <2> QED BY <2>2 DEF Open
<1>8. \A k \in DOMAIN e.todo : UnitFits(e.todo[k])
  <2>1. \A j \in DOMAIN c.todo : UnitFits(c.todo[j])
    BY DEF Promised
  <2> QED BY <1>2, <2>1
<1>9. e.rows = <<>> /\ e.page = 0 /\ Len(e.rows) = 0 /\ DOMAIN e.rows = {}
  BY <1>1
<1>10. RowsFit(e)
  BY <1>9, PageAssumption DEF RowsFit, RowsOf
<1>11. InOrder(e)
  BY <1>9 DEF InOrder
<1> QED BY <1>6, <1>7, <1>8, <1>10, <1>11 DEF Promised

LEMMA AnswerSound ==
  ASSUME kind \in Kinds, NEW c \in Asking, c.todo # <<>>, Sound(c),
         NEW items \in Seq(Item), NEW more \in Seq(Ask), \A i \in DOMAIN items : Mine(items[i]),
         NEW d \in Asking, d = Done(c, items, more), NEW e, e.part = d.part, e.items = d.items
  PROVE  Sound(e)
<1>1. /\ d.part = IF Open(c, more) THEN c.part \o items ELSE <<>>
      /\ d.items = IF Open(c, more) THEN c.items ELSE (c.items \o c.part) \o items
  BY DoneTyped
<1>2. c.part \in Seq(Item) /\ c.items \in Seq(Item) /\ c.items \o c.part \in Seq(Item)
  BY CallTyped, ConcatProperties
<1>3. (\A i \in DOMAIN c.part : Mine(c.part[i])) /\ (\A i \in DOMAIN c.items : Mine(c.items[i]))
  BY DEF Sound
<1>4. CASE Open(c, more)
  <2>1. e.items = c.items /\ e.part = c.part \o items
    BY <1>1, <1>4
  <2>2. \A i \in DOMAIN (c.part \o items) : Mine((c.part \o items)[i])
    BY <1>2, <1>3, JoinMine
  <2> QED BY <1>3, <2>1, <2>2 DEF Sound
<1>5. CASE ~Open(c, more)
  <2>1. e.items = (c.items \o c.part) \o items /\ e.part = <<>>
    BY <1>1, <1>5
  <2>2. \A i \in DOMAIN (c.items \o c.part) : Mine((c.items \o c.part)[i])
    BY <1>2, <1>3, JoinMine
  <2> DEFINE done == c.items \o c.part
  <2>3. done \in Seq(Item) /\ \A i \in DOMAIN done : Mine(done[i])
    BY <1>2, <2>2
  <2> HIDE DEF done
  <2>4. \A i \in DOMAIN (done \o items) : Mine((done \o items)[i])
    BY <2>3, JoinMine
  <2>5. DOMAIN e.part = {} /\ e.items = done \o items
    BY <2>1 DEF done
  <2> QED BY <2>4, <2>5 DEF Sound
<1> QED BY <1>4, <1>5

LEMMA ItemMine ==
  ASSUME NEW n \in Things, NEW whole
  PROVE  Mine(ItemOf(n, whole)) /\ ItemOf(n, whole).thing = n
BY DEF ItemOf, Mine

LEMMA OneItem ==
  ASSUME kind \in Kinds, NEW n \in Things, NEW whole \in BOOLEAN, NEW items, items = <<ItemOf(n, whole)>>
  PROVE  items \in Seq(Item) /\ Held(items, n) /\ \A i \in DOMAIN items : Mine(items[i])
<1>1. PICK item \in Item : item = ItemOf(n, whole) /\ Mine(item) /\ item.thing = n
  BY ItemTyped, ItemMine
<1>2. items = <<item>> /\ items \in Seq(Item) /\ DOMAIN items = {1} /\ items[1] = item
  BY <1>1
<1> QED BY <1>1, <1>2 DEF Held

-----------------------------------------------------------------------------
(* The steps of a collection. *)

Stays(c) == Windowed(c) /\ OnTheWay(c) /\ Answered(c) /\ Sound(c)

\* What is said of a call does not depend on the rest of the state but for this.
LEMMA CallKeeps ==
  ASSUME Promise, UNCHANGED <<service, table>>, NEW d, d = call', Stays(d)
  PROVE  Promise'
<1>1. kind' = kind /\ now' = now /\ gone' = gone /\ mark' = mark /\ stored' = stored /\ vouched' = vouched
      /\ behind' = behind
  BY DEF service, table
<1>2. Things' = Things /\ (\A n : T(n)' = T(n)) /\ \A n : (InChat(n)' <=> InChat(n))
  BY <1>1 DEF Things, T, InChat
<1>3. \A b, n : Shows(d, b, n)' <=> Shows(d, b, n)
  BY <1>1, <1>2 DEF Shows
<1>4. \A n : Listable(d, n)' <=> Listable(d, n)
  BY <1>1, <1>2, <1>3 DEF Listable
<1>5. Sure(d)' = Sure(d)
  <2>1. Vouched(d)' = Vouched(d)
    BY <1>1, <1>2, <1>4 DEF Vouched
  <2>2. Behind(d)' = Behind(d)
    BY <1>1, <1>2 DEF Behind
  <2> QED BY <1>1, <2>1, <2>2 DEF Sure
<1>6. \A i, n : Leads(d, i, n)' <=> Leads(d, i, n)
  BY <1>1, <1>2, <1>3 DEF Leads
<1>7. Promised(d)' <=> Promised(d)
  BY <1>1, <1>5, <1>6 DEF Promised, Due, UnitFits
<1>8. (RowsFit(d)' <=> RowsFit(d)) /\ (InOrder(d)' <=> InOrder(d))
  BY <1>1, <1>2 DEF RowsFit, RowsOf, InOrder
<1>9. \A item : Mine(item)' <=> Mine(item)
  BY <1>1, <1>2 DEF Mine, Key, Scoped
<1>10. Windowed(d)' /\ OnTheWay(d)' /\ Answered(d)' /\ Sound(d)'
  BY <1>1, <1>5, <1>7, <1>8, <1>9 DEF Stays, Windowed, OnTheWay, Answered, Sound
<1>11. Windowed(call)' /\ OnTheWay(call)' /\ Answered(call)' /\ Sound(call)'
  BY <1>10
<1>12. BoxesStay' /\ RowsMine' /\ OkIsStored'
  BY <1>1, <1>2, <1>9 DEF Promise, BoxesStay, RowsMine, OkIsStored
<1> QED BY <1>11, <1>12 DEF Promise

\* Typed and Promise, as what they say of a call that is asking.
LEMMA AskingFacts ==
  ASSUME Typed, Promise, call.pc = "ask", call.todo # <<>>
  PROVE  /\ kind \in Kinds /\ call \in Asking /\ call.since = mark - OVERLAP /\ call.until <= now
         /\ Sound(call) /\ Head(call.todo) \in Ask /\ call.todo[1] = Head(call.todo) /\ 1 \in DOMAIN call.todo
         /\ (call.failed = 0 => Promised(call) /\ RowsFit(call) /\ InOrder(call))
<1>1. kind \in Kinds /\ call \in Asking
  BY TypedFacts
<1>2. Windowed(call) /\ OnTheWay(call) /\ Sound(call)
  BY DEF Promise
<1> QED BY <1>1, <1>2, HeadAsks, HeadFirst DEF Windowed, OnTheWay

\* A collection that is asking, whatever it has read of the listing at the head.
Going(c) ==
  /\ c \in Asking /\ c.pc = "ask" /\ c.todo # <<>> /\ c.since = mark - OVERLAP /\ c.until <= now
  /\ Sound(c) /\ (c.failed = 0 => Promised(c))

LEMMA CallGoes ==
  ASSUME Typed, Promise, call.pc = "ask", call.todo # <<>>
  PROVE  Going(call)
BY AskingFacts DEF Going

\* An answer of one request.
LEMMA AnswerStays ==
  ASSUME kind \in Kinds, NEW c \in Asking, Going(c),
         NEW items \in Seq(Item), \A i \in DOMAIN items : Mine(items[i]), NEW more \in Seq(Ask),
         NEW e \in Asking, NEW d \in Asking, d = Done(c, items, more),
         e.todo = d.todo, e.part = d.part, e.items = d.items, e.page = d.page, e.rows = d.rows,
         e.since = d.since, e.until = d.until, d.met \subseteq e.met, e.pc = "ask", e.failed = d.failed,
         e.unread = d.unread,
         c.failed = 0 => \A i \in DOMAIN more : UnitFits(more[i]),
         c.failed = 0 => \A n \in Sure(c) : Leads(c, 1, n) => Held(items, n) \/ Due(e, n)
  PROVE  Stays(e)
<1>1. /\ c.todo # <<>> /\ c.since = mark - OVERLAP /\ c.until <= now
      /\ Sound(c) /\ (c.failed = 0 => Promised(c))
  BY DEF Going
<1>2. d.since = c.since /\ d.until = c.until /\ d.failed = c.failed
  BY <1>1, DoneTyped
<1>3. Windowed(e)
  BY <1>1, <1>2 DEF Windowed
<1>4. OnTheWay(e)
  BY <1>1, <1>2, AnswerKeeps DEF OnTheWay
<1>5. Sound(e)
  BY <1>1, AnswerSound
<1>6. Answered(e)
  BY DEF Answered
<1> QED BY <1>3, <1>4, <1>5, <1>6 DEF Stays

LEMMA ReachStays ==
  ASSUME Typed, Promise, Reach
  PROVE  Promise'
<1>1. call.pc = "ask" /\ call.todo # <<>> /\ Head(call.todo).op \in {"token", "me"}
  BY DEF Reach, Asks
<1>2. PICK none \in Seq(Item), no \in Seq(Ask) : none = <<>> /\ no = <<>>
  BY EmptySeq
<1>3. kind \in Kinds /\ call \in Asking /\ call.todo[1] = Head(call.todo)
  BY <1>1, AskingFacts
<1>4. PICK d \in Asking : d = Done(call, none, no) /\ d.pc = "ask"
  BY <1>1, <1>3, DoneTyped
<1>5. \A n : ~Leads(call, 1, n)
  BY <1>1, <1>3 DEF Leads
<1>6. DOMAIN none = {} /\ DOMAIN no = {}
  BY <1>2
<1>7. Stays(d)
  BY <1>1, <1>3, <1>4, <1>5, <1>6, CallGoes, AnswerStays
<1>8. call' = d
  BY <1>2, <1>4 DEF Reach
<1> QED BY <1>7, <1>8, CallKeeps DEF Reach

\* A failure takes back what was promised, and keeps what is sound.
LEMMA DroppedSound ==
  ASSUME kind \in Kinds, NEW c \in Asking, Sound(c)
  PROVE  Sound(Dropped(c))
<1>1. Dropped(c).part = <<>> /\ Dropped(c).items = c.items
  BY DEF Dropped, Asking, Call
<1> QED BY <1>1 DEF Sound

LEMMA FailsStays ==
  ASSUME Typed, Promise, NEW c \in Asking, c.pc = "ask", c.todo # <<>>, Sound(c),
         c.since = mark - OVERLAP, c.until <= now
  PROVE  Stays(Fails(c))
<1> DEFINE r == Head(c.todo)
<1>1. kind \in Kinds /\ r \in Ask /\ c.failed \in Nat
  BY TypedFacts, HeadAsks, CallTyped
<1>0. PICK m \in Asking : m = Missing(c) /\ SameCall(c, m)
  BY <1>1, MissingTyped
<1>2. CASE Fatal(r)
  <2>1. PICK none \in Seq(Item) : none = <<>>
    BY EmptySeq
  <2>2. PICK d \in Asking : /\ d = Ended(m, "error", none) /\ d.pc = "answer"
                            /\ d.since = m.since /\ d.until = m.until
                            /\ d.status = "error" /\ d.items = none /\ d.part = <<>>
    BY <1>1, EndedTyped DEF Status
  <2>4. d.since = c.since /\ d.until = c.until
    BY <1>0, <2>2 DEF SameCall
  <2>3. Fails(c) = d
    BY <1>0, <1>2, <2>1, <2>2 DEF Fails
  <2> QED BY <2>1, <2>2, <2>3, <2>4 DEF Stays, Windowed, OnTheWay, Answered, Sound
<1>3. CASE ~Fatal(r) /\ kind = "zoom" /\ r.op = "get"
  <2>1. r.of \in Things
    BY <1>1, <1>3 DEF Ask
  <2>2. PICK items \in Seq(Item) : items = <<ItemOf(r.of, FALSE)>> /\ \A i \in DOMAIN items : Mine(items[i])
    BY <1>1, <2>1, OneItem
  <2>3. PICK no \in Seq(Ask) : no = <<>>
    BY EmptySeq
  <2>4. PICK d \in Asking : /\ d = Done(c, items, no) /\ d.pc = c.pc /\ d.failed = c.failed
                            /\ d.since = c.since /\ d.until = c.until
    BY <1>1, DoneTyped
  <2>5. PICK e : e = [d EXCEPT !.failed = @ + 1]
    OBVIOUS
  <2>6. Fails(c) = e
    BY <1>3, <2>2, <2>3, <2>4, <2>5 DEF Fails
  <2>7. /\ e.pc = "ask" /\ e.failed = c.failed + 1 /\ e.since = c.since /\ e.until = c.until
        /\ e.part = d.part /\ e.items = d.items
    <3>1. d \in Call
      BY CallTyped
    <3> QED BY <2>4, <2>5, <3>1 DEF Call
  <2>8. Sound(e)
    BY <1>1, <2>2, <2>4, <2>7, AnswerSound
  <2>9. e.failed # 0
    BY <1>1, <2>7
  <2> QED BY <2>6, <2>7, <2>8, <2>9 DEF Stays, Windowed, OnTheWay, Answered
<1>4. CASE ~Fatal(r) /\ ~(kind = "zoom" /\ r.op = "get")
  <2>0. m.todo # <<>> /\ m.failed = c.failed /\ m.pc = "ask" /\ m.since = c.since /\ m.until = c.until /\ Sound(m)
    BY <1>0 DEF SameCall, Sound
  <2>1. PICK d \in Asking : d = Dropped(m) /\ d.failed = c.failed + 1 /\ d.pc = "ask"
    BY <1>1, <2>0, DroppedTyped
  <2>2. Fails(c) = d
    BY <1>0, <1>4, <2>1 DEF Fails
  <2>3. d.since = c.since /\ d.until = c.until
    BY <2>0, <2>1 DEF Dropped, Asking, Call
  <2>4. Sound(d)
    BY <1>1, <2>0, <2>1, DroppedSound
  <2>5. d.failed # 0
    BY <1>1, <2>1
  <2> QED BY <2>1, <2>2, <2>3, <2>4, <2>5 DEF Stays, Windowed, OnTheWay, Answered
<1> QED BY <1>2, <1>3, <1>4

LEMMA GetStays ==
  ASSUME Typed, Promise, GetMail \/ GetMeeting
  PROVE  Promise'
<1> DEFINE n == Head(call.todo).of
<1>1. call.pc = "ask" /\ call.todo # <<>> /\ Head(call.todo).op = "get" /\ kind \in {"gmail", "zoom"}
  BY DEF GetMail, GetMeeting, Asks
<1>2. /\ kind \in Kinds /\ call \in Asking /\ call.todo[1] = Head(call.todo) /\ Head(call.todo) \in Ask
      /\ call.since = mark - OVERLAP /\ call.until <= now /\ Sound(call)
  BY <1>1, AskingFacts
<1>3. n \in Things
  BY <1>1, <1>2 DEF Ask
<1>4. PICK none \in Seq(Item), no \in Seq(Ask) : none = <<>> /\ no = <<>>
  BY EmptySeq
<1>5. DOMAIN none = {} /\ DOMAIN no = {}
  BY <1>4
<1>6. \A m : Leads(call, 1, m) => m = n
  BY <1>1, <1>2 DEF Leads
<1> HIDE DEF n
<1>7. \A whole \in BOOLEAN : Stays(Done(call, <<ItemOf(n, whole)>>, no))
  <2>1. SUFFICES ASSUME NEW whole \in BOOLEAN PROVE Stays(Done(call, <<ItemOf(n, whole)>>, no))
    OBVIOUS
  <2>2. PICK items \in Seq(Item) : /\ items = <<ItemOf(n, whole)>> /\ Held(items, n)
                                   /\ \A i \in DOMAIN items : Mine(items[i])
    BY <1>2, <1>3, OneItem
  <2>3. PICK d \in Asking : d = Done(call, items, no) /\ d.pc = "ask"
    BY <1>1, <1>2, DoneTyped
  <2>4. Stays(d)
    BY <1>1, <1>2, <1>5, <1>6, <2>2, <2>3, CallGoes, AnswerStays
  <2> QED BY <2>2, <2>3, <2>4
<1>8. CASE GetMail
  <2>1. kind = "gmail"
    BY <1>8 DEF GetMail
  <2>2. CASE n \in gone \/ (Kept(call, n) /\ T(n).form = "broken")
    <3>1. call' = Fails(call)
      BY <1>8, <2>2 DEF GetMail, n
    <3>2. PICK d : d = Fails(call) /\ Stays(d)
      BY <1>1, <1>2, FailsStays
    <3> QED BY <1>8, <3>1, <3>2, CallKeeps DEF GetMail
  <2>3. CASE n \notin gone /\ ~Kept(call, n)
    <3>1. call' = Done(call, none, no)
      BY <1>4, <1>8, <2>3 DEF GetMail, n
    <3>2. PICK d \in Asking : d = Done(call, none, no) /\ d.pc = "ask"
      BY <1>1, <1>2, DoneTyped
    <3>3. n \notin Sure(call)
      <4>1. SUFFICES ASSUME n \in Sure(call) PROVE Kept(call, n)
        BY <2>3
      <4>2. T(n).form = "plain" /\ Within(T(n).at, mark, call.until)
        BY <4>1 DEF Vouched, Sure
      <4>3. T(n).at \in Int /\ mark \in Nat /\ call.until \in Nat
        BY <1>2, <1>3, ThingsTyped, TypedFacts, CallTyped DEF Thing, None
      <4>4. Within(T(n).at, call.since, call.until)
        BY <1>2, <4>2, <4>3, CollectorNumbers DEF Within
      <4> QED BY <2>1, <4>2, <4>4 DEF Kept
    <3>4. Stays(d)
      BY <1>1, <1>2, <1>5, <1>6, <3>2, <3>3, CallGoes, AnswerStays
    <3> QED BY <1>8, <3>1, <3>2, <3>4, CallKeeps DEF GetMail
  <2>4. CASE n \notin gone /\ Kept(call, n) /\ T(n).form # "broken"
    <3>1. call' = Done(call, <<ItemOf(n, TRUE)>>, no)
      BY <1>4, <1>8, <2>4 DEF GetMail, n
    <3>2. PICK d : d = Done(call, <<ItemOf(n, TRUE)>>, no) /\ Stays(d)
      BY <1>7
    <3> QED BY <1>8, <3>1, <3>2, CallKeeps DEF GetMail
  <2> QED BY <2>2, <2>3, <2>4
<1>9. CASE GetMeeting
  <2> DEFINE whole == <<"summaries", n>> \in call.met
  <2>1. whole \in BOOLEAN
    OBVIOUS
  <2>2. call' = Done(call, <<ItemOf(n, whole)>>, no)
    BY <1>4, <1>9 DEF GetMeeting, n
  <2> HIDE DEF whole
  <2>3. PICK d : d = Done(call, <<ItemOf(n, whole)>>, no) /\ Stays(d)
    BY <1>7, <2>1
  <2> QED BY <1>9, <2>2, <2>3, CallKeeps DEF GetMeeting
<1> QED BY <1>8, <1>9

LEMMA MergeStays ==
  ASSUME Typed, Promise, Merge
  PROVE  Promise'
<1> DEFINE met == {m[2] : m \in call.met}
           mine == {n \in met : T(n).hosted \/ <<"summaries", n>> \in call.met}
<1>1. call.pc = "ask" /\ call.todo # <<>> /\ Head(call.todo).op = "merge"
  BY DEF Merge, Asks
<1>2. /\ kind \in Kinds /\ call \in Asking /\ call.todo[1] = Head(call.todo) /\ IsFiniteSet(Things)
      /\ call.since = mark - OVERLAP /\ call.until <= now
  BY <1>1, AskingFacts, ThingsTyped
<1>3. met \in SUBSET Things /\ mine \in SUBSET met
  BY <1>2, CallTyped
<1>4. \A n : Leads(call, 1, n) => n \in met /\ kind \notin {"gmail", "m365", "slack"}
  BY <1>1, <1>2 DEF Leads
<1>5. call' = Ended(call, "error", <<>>)
      \/ call' = Done(call, [i \in DOMAIN SetToSeq(met \ ToSet(SetToSeq(mine))) |->
                               ItemOf(SetToSeq(met \ ToSet(SetToSeq(mine)))[i], FALSE)],
                      [i \in DOMAIN SetToSeq(mine) |-> R("get", "-", SetToSeq(mine)[i], "-")])
  BY DEF Merge
<1> HIDE DEF met, mine
<1>6. IsFiniteSet(mine) /\ mine \in SUBSET Things
  BY <1>2, <1>3, FS_Subset
<1>7. PICK first \in Seq(Things) : first = SetToSeq(mine) /\ \A n \in mine : \E i \in DOMAIN first : first[i] = n
  BY <1>6, SetListed, SeqMonotonic
<1>8. PICK rest \in SUBSET Things : rest = met \ ToSet(first) /\ IsFiniteSet(rest)
  <2>1. met \ ToSet(first) \in SUBSET Things
    BY <1>3
  <2>2. IsFiniteSet(met \ ToSet(first))
    BY <1>2, <2>1, FS_Subset
  <2> QED BY <2>1, <2>2
<1>9. PICK others \in Seq(Things) : others = SetToSeq(rest) /\ \A n \in rest : \E i \in DOMAIN others : others[i] = n
  BY <1>8, SetListed, SeqMonotonic
<1>10. PICK items \in Seq(Item) : items = [i \in DOMAIN others |-> ItemOf(others[i], FALSE)]
  <2>1. \A i \in DOMAIN others : others[i] \in Things
    BY ElementOfSeq
  <2>2. \A i \in DOMAIN others : ItemOf(others[i], FALSE) \in Item
    BY <1>2, <2>1, ItemTyped
  <2>3. [i \in DOMAIN others |-> ItemOf(others[i], FALSE)] \in [DOMAIN others -> Item]
    BY <2>2
  <2> QED BY <2>3, FunctionIsSeq
<1>11. PICK more \in Seq(Ask) : more = [i \in DOMAIN first |-> R("get", "-", first[i], "-")]
  <2>1. \A i \in DOMAIN first : first[i] \in Things
    BY ElementOfSeq
  <2>2. [i \in DOMAIN first |-> R("get", "-", first[i], "-")] \in [DOMAIN first -> Ask]
    BY <1>2, <2>1, GetAsks
  <2> QED BY <2>2, FunctionIsSeq
<1>12. PICK none \in Seq(Item) : none = <<>>
  BY EmptySeq
<1>13. call' = Ended(call, "error", none) \/ call' = Done(call, items, more)
  BY <1>5, <1>7, <1>8, <1>9, <1>10, <1>11, <1>12
<1>14. CASE call' = Ended(call, "error", none)
  <2>1. PICK d \in Asking : /\ d = Ended(call, "error", none) /\ d.pc = "answer" /\ d.since = call.since
                            /\ d.until = call.until /\ d.status = "error" /\ d.items = none /\ d.part = <<>>
    BY <1>2, EndedTyped DEF Status
  <2>2. Stays(d)
    BY <1>2, <1>12, <2>1 DEF Stays, Windowed, OnTheWay, Answered, Sound
  <2> QED BY <1>14, <2>1, <2>2, CallKeeps DEF Merge
<1>15. CASE call' = Done(call, items, more)
  <2>1. PICK d \in Asking : d = Done(call, items, more) /\ d.pc = "ask" /\ d.todo = more \o Tail(call.todo)
    BY <1>1, <1>2, DoneTyped
  <2>2. \A i \in DOMAIN items : Mine(items[i]) /\ items[i].thing = others[i]
    <3>1. \A i \in DOMAIN others : others[i] \in Things
      BY ElementOfSeq
    <3> QED BY <1>10, <3>1, ItemMine
  <2>3. \A i \in DOMAIN more : more[i] = R("get", "-", first[i], "-") /\ UnitFits(more[i])
    BY <1>11 DEF R, UnitFits
  <2>4. ASSUME NEW n, Leads(call, 1, n) PROVE Held(items, n) \/ Due(d, n)
    <3>1. n \in met /\ kind \notin {"gmail", "m365", "slack"}
      BY <1>4, <2>4
    <3>2. CASE n \in rest
      <4>1. PICK i \in DOMAIN others : others[i] = n
        BY <1>9, <3>2
      <4>2. i \in DOMAIN items /\ items[i].thing = n
        BY <1>10, <2>2, <4>1
      <4> QED BY <4>2 DEF Held
    <3>3. CASE n \in ToSet(first)
      <4>1. PICK i \in DOMAIN first : first[i] = n
        BY <3>3 DEF ToSet
      <4>2. i \in DOMAIN more /\ more[i] = R("get", "-", n, "-")
        BY <1>11, <4>1
      <4>3. i \in DOMAIN d.todo /\ d.todo[i] = more[i]
        BY <1>1, <1>2, <2>1, <4>2, QueueAfter DEF Follows
      <4>4. Leads(d, i, n)
        BY <3>1, <4>2, <4>3 DEF Leads, R
      <4> QED BY <4>3, <4>4 DEF Due
    <3> QED BY <1>8, <3>1, <3>2, <3>3
  <2>5. Stays(d)
    BY <1>1, <1>2, <2>1, <2>2, <2>3, <2>4, CallGoes, AnswerStays
  <2> QED BY <1>15, <2>1, <2>5, CallKeeps DEF Merge
<1> QED BY <1>13, <1>14, <1>15

LEMMA FinishStays ==
  ASSUME Typed, Promise, Finish
  PROVE  Promise'
<1>1. /\ kind \in Kinds /\ call \in Asking /\ call.pc = "ask" /\ call.todo = <<>> /\ call.items \in Seq(Item)
      /\ Result(call) \in Status /\ call' = Ended(call, Result(call), call.items)
  BY TypedFacts, CallTyped DEF Finish, Result, Status
<1>2. Windowed(call) /\ OnTheWay(call) /\ Sound(call)
  BY DEF Promise
<1>3. PICK d \in Asking : /\ d = Ended(call, Result(call), call.items) /\ d.pc = "answer" /\ d.since = call.since
                          /\ d.until = call.until /\ d.status = Result(call) /\ d.items = call.items /\ d.part = <<>>
                          /\ d.unread = call.unread
  BY <1>1, EndedTyped
<1>4. Answered(d)
  <2>1. SUFFICES ASSUME d.status = "ok", NEW n \in Sure(d) PROVE Held(d.items, n)
    BY DEF Answered
  <2>2. call.failed = 0
    BY <1>3, <2>1 DEF Result
  <2>3. Promised(call) /\ n \in Sure(call)
    BY <1>1, <1>2, <1>3, <2>1, <2>2, SureIs DEF OnTheWay
  <2>4. ~Due(call, n) /\ ~Held(call.part, n)
    BY <1>1, <2>3 DEF Promised, Due, Held
  <2> QED BY <1>3, <2>3, <2>4 DEF Promised, InHand
<1>5. Windowed(d) /\ OnTheWay(d) /\ Sound(d)
  BY <1>1, <1>2, <1>3 DEF Windowed, OnTheWay, Sound
<1>6. Stays(d) /\ call' = d
  BY <1>1, <1>3, <1>4, <1>5 DEF Stays
<1> QED BY <1>6, CallKeeps DEF Finish

LEMMA BreaksOffStays ==
  ASSUME Typed, Promise, BreaksOff
  PROVE  Promise'
<1>1. call.pc = "ask" /\ call.todo # <<>>
  BY DEF BreaksOff, Asks
<1>2. /\ kind \in Kinds /\ call \in Asking /\ call.since = mark - OVERLAP /\ call.until <= now /\ Sound(call)
      /\ call.items \in Seq(Item)
  BY <1>1, AskingFacts, CallTyped
<1>0. PICK c \in Asking : c = [call EXCEPT !.missed = Things] /\ c.since = call.since /\ c.until = call.until
                           /\ c.items = call.items
  BY <1>2, BrokenTyped DEF SameCall
<1>3. PICK none \in Seq(Item) : none = <<>>
  BY EmptySeq
<1>4. \A status \in {"error", "raised"}, items \in {none, call.items} : Stays(Ended(c, status, items))
  <2>1. SUFFICES ASSUME NEW status \in {"error", "raised"}, NEW items \in {none, call.items}
                 PROVE  Stays(Ended(c, status, items))
    OBVIOUS
  <2>2. items \in Seq(Item) /\ status \in Status
    BY <1>2, <1>3 DEF Status
  <2>3. PICK d \in Asking : /\ d = Ended(c, status, items) /\ d.pc = "answer" /\ d.since = c.since
                            /\ d.until = c.until /\ d.status = status /\ d.items = items /\ d.part = <<>>
    BY <1>2, <2>2, EndedTyped
  <2>4. Sound(d)
    BY <1>2, <1>3, <2>3 DEF Sound
  <2> QED BY <1>0, <1>2, <2>3, <2>4 DEF Stays, Windowed, OnTheWay, Answered
<1>5. PICK d : d = call' /\ Stays(d)
  BY <1>0, <1>3, <1>4 DEF BreaksOff
<1> QED BY <1>5, CallKeeps DEF BreaksOff

LEMMA RequestFailsStays ==
  ASSUME Typed, Promise, RequestFails
  PROVE  Promise'
<1>1. call.pc = "ask" /\ call.todo # <<>>
  BY DEF RequestFails, Asks
<1>2. call \in Asking /\ call.since = mark - OVERLAP /\ call.until <= now /\ Sound(call)
  BY <1>1, AskingFacts
<1>3. PICK d : d = Fails(call) /\ Stays(d)
  BY <1>1, <1>2, FailsStays
<1> QED BY <1>3, CallKeeps DEF RequestFails

-----------------------------------------------------------------------------
(* A listing shows what it leads to. *)

LEMMA ServiceFacts ==
  ASSUME kind \in Kinds
  PROVE  /\ \A n, m \in Things :
              /\ T(n).own = T(m).own
              /\ \/ kind \in {"gmail", "zoom"} \/ T(n).box = T(m).box
                 \/ kind = "m365" /\ ~InChat(n) /\ ~InChat(m)
              => n = m
         /\ kind \in {"m365", "slack"} =>
              \A n \in Things : T(n).form = "box" <=> T(n).box \in {"todo", "chat", "channels"}
         /\ \A a, b \in Of(kind, "chat") : a < b => T(b).at <= T(a).at
         /\ \A box : Of(kind, box) = {n \in Things : T(n).box = box}
BY ServiceAssumption DEF Things, T, InChat, Of

LEMMA SureFacts ==
  ASSUME Typed, NEW c \in Asking, c.since = mark - OVERLAP, c.until <= now, NEW n \in Sure(c)
  PROVE  /\ n \in Things /\ n \notin gone /\ T(n) \in Thing /\ T(n).form = "plain" /\ Listable(c, n)
         /\ T(n).at \in Nat /\ c.since \in Int /\ c.until \in Nat /\ now \in Nat
         /\ c.since < T(n).at /\ T(n).at < c.until /\ T(n).at <= now
<1>1. /\ n \in Things /\ n \notin gone /\ T(n).form = "plain" /\ Listable(c, n)
      /\ mark <= T(n).at /\ T(n).at < c.until
  BY DEF Vouched, Sure, Within
<1>2. /\ kind \in Kinds /\ mark \in Nat /\ now \in Nat /\ c.since \in Int /\ c.until \in Nat
      /\ OVERLAP \in Nat \ {0}
  BY TypedFacts, CallTyped, CollectorNumbers
<1>3. T(n) \in Thing
  BY <1>1, <1>2, ThingsTyped
<1>4. T(n).at \in Nat
  BY <1>1, <1>2, <1>3 DEF Thing, None
<1> QED BY <1>1, <1>2, <1>3, <1>4

LEMMA GmailLists ==
  ASSUME Typed, NEW c \in Asking, c.since = mark - OVERLAP, c.until <= now, NEW n \in Sure(c),
         kind = "gmail", NEW r, NEW obeyed
  PROVE  Lists(c, r, n, obeyed)
BY SureFacts DEF Lists, Within

LEMMA GraphLists ==
  ASSUME Typed, NEW c \in Asking, c.since = mark - OVERLAP, c.until <= now, NEW n \in Sure(c),
         kind = "m365", NEW r, r.box = T(n).box, NEW obeyed
  PROVE  Lists(c, r, n, obeyed) /\ Kept(c, n)
<1>1. /\ n \in Things /\ n \notin gone /\ T(n).form = "plain"
      /\ T(n).at \in Nat /\ c.since \in Int /\ c.until \in Nat /\ now \in Nat
      /\ c.since < T(n).at /\ T(n).at < c.until /\ T(n).at <= now
  BY SureFacts
<1>2. /\ Within(T(n).at, c.since, c.until) /\ Within(T(n).at, c.since + 1, c.until)
      /\ Within(T(n).at, c.since, c.until + 1) /\ T(n).at >= c.since
  BY <1>1 DEF Within
<1> QED BY <1>1, <1>2 DEF Lists, Kept

LEMMA GraphListsBox ==
  ASSUME Typed, BoxesStay, NEW c \in Asking, c.until <= now, kind = "m365", NEW b \in Things,
         T(b).box \in {"todo", "chat"}, T(b).at <= c.until, NEW r, r.box = T(b).box, UnitFits(r), NEW obeyed
  PROVE  Lists(c, r, b, obeyed)
<1>1. kind \in Kinds /\ c.until \in Nat /\ now \in Nat /\ T(b) \in Thing
  BY TypedFacts, CallTyped, CollectorNumbers, ThingsTyped
<1>2. T(b).form = "box" /\ b \notin gone
  BY <1>1, ServiceFacts DEF BoxesStay
<1>3. T(b).at <= now
  BY <1>1 DEF Thing, None
<1>4. r.unit \notin {"mail", "calendar"}
  BY DEF UnitFits
<1> QED BY <1>2, <1>3, <1>4 DEF Lists

LEMMA SlackLists ==
  ASSUME Typed, NEW c \in Asking, c.since = mark - OVERLAP, c.until <= now, NEW n \in Sure(c),
         kind = "slack", NEW r, r.box = T(n).box, r.of = T(n).under, NEW obeyed
  PROVE  Lists(c, r, n, obeyed) /\ Kept(c, n)
BY SureFacts DEF Lists, Kept

LEMMA SlackListsChannel ==
  ASSUME Typed, BoxesStay, NEW c \in Asking, c.until <= now, kind = "slack", NEW b \in Things,
         T(b).box = "channels", T(b).under = None, T(b).at <= c.until,
         NEW r, r.box = "channels", r.of = None, NEW obeyed
  PROVE  Lists(c, r, b, obeyed)
<1>1. kind \in Kinds /\ c.until \in Nat /\ now \in Nat /\ T(b) \in Thing
  BY TypedFacts, CallTyped, CollectorNumbers, ThingsTyped
<1>2. T(b).form = "box" /\ b \notin gone
  BY <1>1, ServiceFacts DEF BoxesStay
<1>3. T(b).at <= now
  BY <1>1 DEF Thing, None
<1> QED BY <1>2, <1>3 DEF Lists

LEMMA SlackListsParent ==
  ASSUME Typed, NEW c \in Asking, c.until <= now, kind = "slack", NEW p \in Things \ gone,
         T(p).under = None, Within(T(p).at, c.since + 1, c.until + 1),
         NEW r, r.box = T(p).box, r.of = None, NEW obeyed
  PROVE  Lists(c, r, p, obeyed)
<1>1. kind \in Kinds /\ c.since \in Int /\ c.until \in Nat /\ now \in Nat /\ T(p) \in Thing
  BY TypedFacts, CallTyped, CollectorNumbers, ThingsTyped
<1>2. T(p).at > c.since /\ T(p).at <= now
  BY <1>1 DEF Thing, None, Within
<1> QED BY <1>2 DEF Lists

LEMMA ZoomLists ==
  ASSUME Typed, NEW c \in Asking, c.since = mark - OVERLAP, c.until <= now, NEW n \in Sure(c),
         kind = "zoom", NEW r, r.box \in T(n).lists \ {"summaries"}, NEW obeyed
  PROVE  Lists(c, r, n, obeyed)
<1>1. /\ n \in Things /\ n \notin gone
      /\ T(n).at \in Nat /\ c.since \in Int /\ c.until \in Nat /\ now \in Nat
      /\ c.since < T(n).at /\ T(n).at < c.until /\ T(n).at <= now
  BY SureFacts
<1>2. From(c) \in Int /\ From(c) <= c.since
  BY <1>1, CollectorNumbers DEF From
<1>3. Within(T(n).at, From(c), c.until + 1)
  BY <1>1, <1>2 DEF Within
<1> QED BY <1>1, <1>3 DEF Lists

-----------------------------------------------------------------------------
(* A page more of a listing. *)

\* Where the rows of a page go: end of them, after the old ones.
Grown(c, rows, d, old, end) ==
  /\ old = Len(c.rows) /\ DOMAIN c.rows = 1 .. old
  /\ end = IF PAGE < Len(rows) THEN PAGE ELSE Len(rows)
  /\ \A j \in 1 .. end : j \in DOMAIN rows
  /\ Len(d.rows) = old + end /\ DOMAIN d.rows = 1 .. old + end
  /\ \A i \in 1 .. old : d.rows[i] = c.rows[i]
  /\ \A j \in 1 .. end : d.rows[old + j] = rows[j]

LEMMA PagedRows ==
  ASSUME kind \in Kinds, NEW c \in Asking, NEW rows \in Seq(Things), NEW d \in Asking, d = Paged(c, rows)
  PROVE  /\ d.page = c.page + 1 /\ d.todo = c.todo /\ d.since = c.since /\ d.until = c.until
         /\ \E old \in Nat, end \in Nat : Grown(c, rows, d, old, end)
<1>1. /\ d.todo = c.todo /\ d.page = c.page + 1 /\ d.since = c.since /\ d.until = c.until
      /\ d.rows = c.rows \o SubSeq(rows, 1, IF PAGE < Len(rows) THEN PAGE ELSE Len(rows))
  <2>1. PICK e \in Asking :
          /\ e = Paged(c, rows) /\ e.todo = c.todo /\ e.page = c.page + 1
          /\ e.since = c.since /\ e.until = c.until
          /\ e.rows = c.rows \o SubSeq(rows, 1, IF PAGE < Len(rows) THEN PAGE ELSE Len(rows))
    BY PagedTyped
  <2> QED BY <2>1
<1>2. c.rows \in Seq(Things)
  BY CallTyped
<1>3. PICK old \in Nat : old = Len(c.rows) /\ DOMAIN c.rows = 1 .. old
  BY <1>2, LenProperties
<1>4. PICK len \in Nat : len = Len(rows) /\ DOMAIN rows = 1 .. len
  BY LenProperties
<1>5. PICK end \in Nat : end = (IF PAGE < len THEN PAGE ELSE len) /\ end <= len
  BY PageAssumption
<1>6. \A j \in 1 .. end : j \in DOMAIN rows
  BY <1>4, <1>5
<1>7. \A j \in 1 .. end : rows[j] \in Things
  BY <1>4, <1>6, ElementOfSeq
<1>8. /\ SubSeq(rows, 1, end) \in Seq(Things)
      /\ Len(SubSeq(rows, 1, end)) = IF 1 <= end THEN end - 1 + 1 ELSE 0
      /\ \A j \in 1 .. end - 1 + 1 : SubSeq(rows, 1, end)[j] = rows[1 + j - 1]
  BY <1>7, SubSeqProperties
<1>9. PICK page \in Seq(Things) : page = SubSeq(rows, 1, end)
  BY <1>8
<1>10. Len(page) = end /\ \A j \in 1 .. end : page[j] = rows[j]
  <2>1. end - 1 + 1 = end /\ (~(1 <= end) => end = 0) /\ \A j \in 1 .. end : 1 + j - 1 = j
    OBVIOUS
  <2> QED BY <1>8, <1>9, <2>1
<1>11. PICK all \in Seq(Things) : all = c.rows \o page
  BY <1>2, ConcatProperties
<1>12. d.rows = all
  BY <1>1, <1>4, <1>5, <1>9, <1>11
<1>13. /\ Len(all) = old + end
       /\ \A i \in 1 .. old + end : all[i] = IF i <= old THEN c.rows[i] ELSE page[i - old]
  <2>1. /\ Len(c.rows \o page) = Len(c.rows) + Len(page)
        /\ \A i \in 1 .. Len(c.rows) + Len(page) :
             (c.rows \o page)[i] = IF i <= Len(c.rows) THEN c.rows[i] ELSE page[i - Len(c.rows)]
    BY <1>2, ConcatProperties
  <2> QED BY <1>3, <1>10, <1>11, <2>1
<1>14. DOMAIN all = 1 .. old + end
  BY <1>13, LenProperties
<1>15. \A i \in 1 .. old : all[i] = c.rows[i]
  BY <1>13
<1>16. ASSUME NEW j \in 1 .. end PROVE all[old + j] = rows[j]
  <2>1. PICK k : k = old + j
    OBVIOUS
  <2>2. k \in 1 .. old + end /\ ~(k <= old) /\ k - old = j
    BY <2>1
  <2> QED BY <1>10, <1>13, <2>1, <2>2
<1>17. Grown(c, rows, d, old, end)
  BY <1>3, <1>4, <1>5, <1>6, <1>12, <1>13, <1>14, <1>15, <1>16 DEF Grown
<1> QED BY <1>1, <1>17

LEMMA PageRead ==
  ASSUME Typed, BoxesStay, NEW c \in Asking, c.todo # <<>>, c.until <= now,
         RowsFit(c), InOrder(c), UnitFits(Head(c.todo)),
         NEW obeyed, NEW rows \in Seq(Things), rows = Rows(c, obeyed), NEW d \in Asking, d = Paged(c, rows)
  PROVE  /\ RowsOf(d) /\ InOrder(d) /\ (PAGE < Len(rows) => RowsFit(d))
         /\ ~(PAGE < Len(rows)) =>
              \A m \in Things : Lists(c, Head(c.todo), m, obeyed) => m \in ToSet(d.rows)
<1> DEFINE r == Head(c.todo)
<1>1. kind \in Kinds /\ c.page \in Nat /\ PAGE \in Nat /\ Things \in SUBSET Nat
  BY TypedFacts, CallTyped, PageAssumption, ThingsTyped
<1>2. /\ d.page = c.page + 1 /\ d.todo = c.todo /\ d.since = c.since /\ d.until = c.until
      /\ \E old \in Nat, end \in Nat : Grown(c, rows, d, old, end)
  BY <1>1, PagedRows
<1>3. PICK old \in Nat, end \in Nat :
        /\ old = Len(c.rows) /\ DOMAIN c.rows = 1 .. old
        /\ end = (IF PAGE < Len(rows) THEN PAGE ELSE Len(rows))
        /\ (\A j \in 1 .. end : j \in DOMAIN rows)
        /\ Len(d.rows) = old + end /\ DOMAIN d.rows = 1 .. old + end
        /\ (\A i \in 1 .. old : d.rows[i] = c.rows[i])
        /\ (\A j \in 1 .. end : d.rows[old + j] = rows[j])
  BY <1>2 DEF Grown
<1>4. \A k \in DOMAIN d.rows : \/ k \in 1 .. old /\ d.rows[k] = c.rows[k]
                               \/ \E j \in 1 .. end : k = old + j /\ d.rows[k] = rows[j]
  <2>1. ASSUME NEW k \in 1 .. old + end
        PROVE  \/ k \in 1 .. old /\ d.rows[k] = c.rows[k]
               \/ \E j \in 1 .. end : k = old + j /\ d.rows[k] = rows[j]
    <3>1. CASE k \in 1 .. old
      BY <1>3, <3>1
    <3>2. CASE k \notin 1 .. old
      <4>1. PICK j : j = k - old
        OBVIOUS
      <4>2. j \in 1 .. end /\ k = old + j
        BY <2>1, <3>2, <4>1
      <4>3. \A l \in 1 .. end : d.rows[old + l] = rows[l]
        BY <1>3
      <4>4. d.rows[k] = rows[j]
        BY <4>2, <4>3
      <4> QED BY <4>2, <4>4
    <3> QED BY <3>1, <3>2
  <2>2. DOMAIN d.rows = 1 .. old + end
    BY <1>3
  <2> QED BY <2>1, <2>2
<1>5. /\ \A n \in Things : Lists(c, r, n, obeyed) /\ n \notin ToSet(c.rows)
                             => \E i \in DOMAIN rows : rows[i] = n
      /\ \A i \in DOMAIN rows :
           /\ Lists(c, r, rows[i], obeyed) /\ rows[i] \notin ToSet(c.rows)
           /\ \A j \in DOMAIN rows : i < j => rows[i] < rows[j]
  BY <1>1, RowsListed
<1>6. \A i \in 1 .. old : c.rows[i] \in ToSet(c.rows)
  BY <1>2, <1>3 DEF ToSet
<1>7. DOMAIN rows = 1 .. Len(rows) /\ Len(rows) \in Nat /\ \A i \in DOMAIN rows : rows[i] \in Nat
  <2>1. \A i \in DOMAIN rows : rows[i] \in Things
    BY ElementOfSeq
  <2> QED BY <1>1, <2>1, LenProperties
<1> HIDE DEF r
<1>8. \A i, j \in DOMAIN d.rows : d.rows[i] = d.rows[j] => i = j
  <2>1. SUFFICES ASSUME NEW i \in DOMAIN d.rows, NEW j \in DOMAIN d.rows, d.rows[i] = d.rows[j]
                 PROVE  i = j
    OBVIOUS
  <2>2. CASE i \in 1 .. old /\ j \in 1 .. old
    <3>1. \A a, b \in DOMAIN c.rows : c.rows[a] = c.rows[b] => a = b
      BY DEF RowsFit, RowsOf
    <3>2. DOMAIN c.rows = 1 .. old /\ \A a \in 1 .. old : d.rows[a] = c.rows[a]
      BY <1>3
    <3> QED BY <2>1, <2>2, <3>1, <3>2
  <2>3. CASE i \notin 1 .. old /\ j \notin 1 .. old
    <3>1. PICK a \in 1 .. end, b \in 1 .. end : /\ i = old + a /\ d.rows[i] = rows[a]
                                                /\ j = old + b /\ d.rows[j] = rows[b]
      <4>1. \A k \in {i, j} : \E l \in 1 .. end : k = old + l /\ d.rows[k] = rows[l]
        BY <1>4, <2>1, <2>3
      <4> QED BY <4>1
    <3>2. rows[a] = rows[b] /\ rows[a] \in Nat /\ a \in DOMAIN rows /\ b \in DOMAIN rows
      BY <1>3, <1>7, <2>1, <3>1
    <3>3. ~(rows[a] < rows[b]) /\ ~(rows[b] < rows[a])
      BY <3>2
    <3>4. ~(a < b) /\ ~(b < a)
      BY <1>5, <3>2, <3>3
    <3> QED BY <3>1, <3>4
  <2>4. CASE i \in 1 .. old /\ j \notin 1 .. old
    <3>1. PICK b \in 1 .. end : d.rows[j] = rows[b]
      BY <1>4, <2>4
    <3>2. d.rows[i] \in ToSet(c.rows)
      BY <1>3, <1>6, <2>4
    <3>3. rows[b] \notin ToSet(c.rows)
      BY <1>3, <1>5
    <3> QED BY <2>1, <3>1, <3>2, <3>3
  <2>5. CASE i \notin 1 .. old /\ j \in 1 .. old
    <3>1. PICK a \in 1 .. end : d.rows[i] = rows[a]
      BY <1>4, <2>5
    <3>2. d.rows[j] \in ToSet(c.rows)
      BY <1>3, <1>6, <2>5
    <3>3. rows[a] \notin ToSet(c.rows)
      BY <1>3, <1>5
    <3> QED BY <2>1, <3>1, <3>2, <3>3
  <2> QED BY <2>2, <2>3, <2>4, <2>5
<1>9. ASSUME kind \in {"m365", "slack"}, NEW i \in DOMAIN d.rows
      PROVE  T(d.rows[i]).box = r.box /\ (kind = "slack" => T(d.rows[i]).under = r.of)
  <2>1. CASE i \in 1 .. old /\ d.rows[i] = c.rows[i]
    BY <1>2, <1>3, <1>9, <2>1 DEF RowsFit, RowsOf, r
  <2>2. CASE \E j \in 1 .. end : d.rows[i] = rows[j]
    <3>1. PICK j \in DOMAIN rows : d.rows[i] = rows[j] /\ Lists(c, r, rows[j], obeyed)
      BY <1>3, <1>5, <2>2
    <3> QED BY <1>9, <3>1 DEF Lists
  <2> QED BY <1>4, <2>1, <2>2
<1>10. RowsOf(d)
  <2>1. d.todo = c.todo
    BY <1>2
  <2> QED BY <1>8, <1>9, <2>1 DEF RowsOf, r
<1>11. ASSUME PAGE < Len(rows) PROVE RowsFit(d)
  <2>1. Len(c.rows) = c.page * PAGE
    BY DEF RowsFit
  <2>2. Len(d.rows) = c.page * PAGE + PAGE /\ d.page = c.page + 1
    BY <1>2, <1>3, <1>11, <2>1
  <2>3. c.page * PAGE + PAGE = (c.page + 1) * PAGE
    BY <1>1
  <2> QED BY <1>10, <2>2, <2>3 DEF RowsFit
<1>12. ASSUME ~(PAGE < Len(rows)), NEW m \in Things, Lists(c, r, m, obeyed) PROVE m \in ToSet(d.rows)
  <2>1. CASE m \in ToSet(c.rows)
    <3>1. PICK i \in 1 .. old : m = c.rows[i]
      BY <1>2, <1>3, <2>1 DEF ToSet
    <3>2. i \in 1 .. old + end
      OBVIOUS
    <3>3. i \in DOMAIN d.rows /\ d.rows[i] = m
      BY <1>3, <3>1, <3>2
    <3> QED BY <3>3 DEF ToSet
  <2>2. CASE m \notin ToSet(c.rows)
    <3>1. PICK i \in DOMAIN rows : rows[i] = m
      BY <1>5, <1>12, <2>2
    <3>2. i \in 1 .. end
      BY <1>3, <1>7, <1>12
    <3>3. old + i \in DOMAIN d.rows /\ d.rows[old + i] = m
      BY <1>3, <3>1, <3>2, SMTT(30)
    <3> QED BY <3>3 DEF ToSet
  <2> QED BY <2>1, <2>2
<1>13. InOrder(d)
  <2>1. SUFFICES ASSUME kind = "m365", r.box = "chat", NEW b \in Of(kind, "chat"), NEW k \in DOMAIN d.rows,
                        T(b).at <= c.until
                 PROVE  d.rows[k] < b \/ \E j \in 1 .. k : d.rows[j] = b
    BY <1>2, <1>3 DEF InOrder, r
  <2>2. b \in Things /\ T(b).box = "chat" /\ b \in Nat
    BY <1>1, <2>1, ServiceFacts
  <2>3. CASE k \in 1 .. old
    <3>1. c.rows[k] < b \/ \E j \in 1 .. k : c.rows[j] = b
      BY <1>2, <1>3, <2>1, <2>3 DEF InOrder, r
    <3>2. \A j \in 1 .. k : j \in 1 .. old
      BY <2>3
    <3> QED BY <1>2, <1>3, <2>3, <3>1, <3>2
  <2>4. CASE k \notin 1 .. old /\ b \in ToSet(c.rows)
    <3>1. PICK j \in 1 .. old : c.rows[j] = b
      BY <1>2, <1>3, <2>4 DEF ToSet
    <3>2. j \in 1 .. k /\ d.rows[j] = b
      BY <1>3, <2>4, <3>1
    <3> QED BY <3>2
  <2>5. CASE k \notin 1 .. old /\ b \notin ToSet(c.rows)
    <3>1. PICK a \in 1 .. end : k = old + a /\ d.rows[k] = rows[a]
      BY <1>4, <2>5
    <3>2. Lists(c, r, b, obeyed)
      BY <2>1, <2>2, GraphListsBox DEF r
    <3>3. PICK i \in DOMAIN rows : rows[i] = b
      BY <1>5, <2>2, <2>5, <3>2
    <3>4. a \in DOMAIN rows /\ a \in Nat /\ i \in Nat /\ i >= 1
      BY <1>2, <1>3
    <3>5. CASE a < i
      BY <1>5, <3>1, <3>3, <3>4, <3>5
    <3>6. CASE ~(a < i)
      <4>1. i \in 1 .. end /\ old + i \in 1 .. k
        BY <3>1, <3>4, <3>6
      <4> QED BY <1>2, <1>3, <3>3, <4>1
    <3> QED BY <3>5, <3>6
  <2> QED BY <2>3, <2>4, <2>5
<1> QED BY <1>10, <1>11, <1>12, <1>13 DEF r

-----------------------------------------------------------------------------
(* Which chats are looked into. *)

\* Things that are listed once are as many as their places.
LEMMA PlacesCount ==
  ASSUME kind \in Kinds, NEW s \in Seq(Things), \A i, j \in DOMAIN s : s[i] = s[j] => i = j,
         NEW places \in SUBSET DOMAIN s, NEW S \in SUBSET Things, \A j \in places : s[j] \in S
  PROVE  Cardinality(places) \in Nat /\ Cardinality(S) \in Nat /\ Cardinality(places) <= Cardinality(S)
<1>1. IsFiniteSet(S) /\ IsFiniteSet(places)
  BY ThingsTyped, FS_Subset, PlacesFinite
<1>2. PICK f : f = [j \in places |-> s[j]]
  OBVIOUS
<1>3. f \in [places -> S] /\ \A i, j \in places : f[i] = f[j] => i = j
  BY <1>2
<1>4. f \in Injection(places, S)
  BY <1>3 DEF Injection, IsInjective
<1> QED BY <1>1, <1>4, FS_Injection, FS_CardinalityType

LEMMA FewUnjudgeable ==
  ASSUME kind = "m365", kind \in Kinds, NEW c \in Asking, c.todo # <<>>, Head(c.todo).box = "chat", RowsOf(c),
         NEW i \in DOMAIN c.rows
  PROVE  /\ Unjudgeable(c, i) \in Nat /\ Cardinality({a \in Of(kind, "chat") : T(a).at = None}) \in Nat
         /\ Unjudgeable(c, i) <= Cardinality({a \in Of(kind, "chat") : T(a).at = None})
<1> DEFINE places == {j \in 1 .. i : T(c.rows[j]).at = None}
           S == {a \in Of(kind, "chat") : T(a).at = None}
<1>1. c.rows \in Seq(Things) /\ DOMAIN c.rows = 1 .. Len(c.rows) /\ Len(c.rows) \in Nat
  BY CallTyped, LenProperties
<1>2. places \in SUBSET DOMAIN c.rows
  BY <1>1
<1>3. S \in SUBSET Things /\ \A a \in Things : T(a).box = "chat" /\ T(a).at = None => a \in S
  BY ServiceFacts
<1>4. \A j \in places : c.rows[j] \in S
  <2>1. SUFFICES ASSUME NEW j \in places PROVE c.rows[j] \in S
    OBVIOUS
  <2>2. j \in DOMAIN c.rows /\ T(c.rows[j]).at = None
    BY <1>2, <2>1
  <2>3. c.rows[j] \in Things
    BY <1>1, <2>2, ElementOfSeq
  <2>4. T(c.rows[j]).box = "chat"
    BY <2>2 DEF RowsOf
  <2> QED BY <1>3, <2>2, <2>3, <2>4
<1>5. \A a, b \in DOMAIN c.rows : c.rows[a] = c.rows[b] => a = b
  BY DEF RowsOf
<1> HIDE DEF places, S
<1>6. Cardinality(places) \in Nat /\ Cardinality(S) \in Nat /\ Cardinality(places) <= Cardinality(S)
  BY <1>1, <1>2, <1>3, <1>4, <1>5, PlacesCount
<1> QED BY <1>6 DEF Unjudgeable, places, S

\* A list or chat that shows n and was listed is looked into.
LEMMA ScannedShows ==
  ASSUME kind = "m365", kind \in Kinds, NEW c \in Asking, c.todo # <<>>, RowsOf(c), InOrder(c), NEW n,
         NEW b \in ToSet(c.rows), Shows(c, b, n), T(b).box = Head(c.todo).box
  PROVE  \E i \in DOMAIN Scanned(c) : Scanned(c)[i] = b
<1> DEFINE stop == {i \in DOMAIN c.rows :
                      IF T(c.rows[i]).at = None THEN Unjudgeable(c, i) > MAX_UNJUDGEABLE
                      ELSE T(c.rows[i]).at < c.since - GRACE}
           first == CHOOSE i \in stop : \A j \in stop : i <= j
<1>1. c.rows \in Seq(Things) /\ DOMAIN c.rows = 1 .. Len(c.rows) /\ Len(c.rows) \in Nat
  BY CallTyped, LenProperties
<1>2. PICK k \in DOMAIN c.rows : c.rows[k] = b
  BY DEF ToSet
<1>3. CASE Head(c.todo).box # "chat" \/ stop = {}
  BY <1>2, <1>3 DEF Scanned
<1>4. CASE ~(Head(c.todo).box # "chat" \/ stop = {})
  <2>1. stop \in SUBSET Nat /\ stop # {} /\ stop \subseteq 1 .. Len(c.rows)
    BY <1>1, <1>4
  <2>2. Scanned(c) = SubSeq(c.rows, 1, first - 1)
    BY <1>4 DEF Scanned
  <2>3. \A i \in stop : IF T(c.rows[i]).at = None THEN Unjudgeable(c, i) > MAX_UNJUDGEABLE
                        ELSE T(c.rows[i]).at < c.since - GRACE
    OBVIOUS
  <2> HIDE DEF stop
  <2>4. \E i \in stop : \A j \in stop : i <= j
    BY <2>1, LeastNumber
  <2>5. first \in stop
    BY <2>4
  <2> HIDE DEF first
  <2>6. PICK a \in Things : a = c.rows[first] /\ T(a).box = "chat" /\ T(b).box = "chat" /\ b \in Things
    <3>1. first \in DOMAIN c.rows
      BY <1>1, <2>1, <2>5
    <3>2. T(c.rows[first]).box = Head(c.todo).box
      BY <3>1 DEF RowsOf
    <3> QED BY <1>1, <1>2, <1>4, <3>1, <3>2, ElementOfSeq
  <2>7. T(b).at <= c.until /\ T(b).at >= c.since - GRACE
        /\ (T(b).at = None => Cardinality({x \in Of(kind, "chat") : T(x).at = None}) <= MAX_UNJUDGEABLE)
    BY <2>6 DEF Shows
  <2>8. /\ T(a).at \in Nat \cup {None} /\ T(b).at \in Nat \cup {None} /\ a \in Nat /\ b \in Nat
        /\ c.since \in Int /\ GRACE \in Nat /\ MAX_UNJUDGEABLE \in Nat
    BY <2>6, ThingsTyped, CallTyped, CollectorNumbers DEF Thing
  <2>9. ASSUME ~(k < first) PROVE FALSE
    <3>1. first \in DOMAIN c.rows /\ b \in Of(kind, "chat") /\ a \in Of(kind, "chat")
      BY <1>1, <2>1, <2>5, <2>6, ServiceFacts
    <3>2. c.rows[first] < b \/ \E j \in 1 .. first : c.rows[j] = b
      BY <1>4, <2>7, <3>1 DEF InOrder
    <3>3. a < b \/ a = b
      <4>1. CASE \E j \in 1 .. first : c.rows[j] = b
        <5>1. PICK j \in 1 .. first : c.rows[j] = b
          BY <4>1
        <5>2. j \in DOMAIN c.rows
          BY <1>1, <3>1, <5>1
        <5>3. j = k
          BY <1>2, <5>1, <5>2 DEF RowsOf
        <5>4. k = first
          BY <1>1, <2>9, <3>1, <5>1, <5>3
        <5> QED BY <1>2, <2>6, <5>4
      <4> QED BY <2>6, <3>2, <4>1
    <3>4. T(b).at <= T(a).at
      BY <2>8, <3>1, <3>3, ServiceFacts DEF None
    <3>5. CASE T(a).at = None
      <4>1. T(b).at = None
        BY <2>8, <3>4, <3>5 DEF None
      <4>2. Unjudgeable(c, first) > MAX_UNJUDGEABLE
        BY <2>3, <2>5, <2>6, <3>5
      <4>3. /\ Unjudgeable(c, first) \in Nat /\ Cardinality({x \in Of(kind, "chat") : T(x).at = None}) \in Nat
            /\ Unjudgeable(c, first) <= Cardinality({x \in Of(kind, "chat") : T(x).at = None})
        BY <1>4, <3>1, FewUnjudgeable
      <4> QED BY <2>7, <2>8, <4>1, <4>2, <4>3
    <3>6. CASE T(a).at # None
      <4>1. T(a).at < c.since - GRACE
        BY <2>3, <2>5, <2>6, <3>6
      <4> QED BY <2>7, <2>8, <3>4, <4>1 DEF None
    <3> QED BY <3>5, <3>6
  <2>10. first - 1 \in Nat /\ k \in 1 .. first - 1 /\ \A i \in 1 .. first - 1 : i \in DOMAIN c.rows
    BY <1>1, <2>1, <2>5, <2>9
  <2>11. /\ SubSeq(c.rows, 1, first - 1) \in Seq(Things)
         /\ Len(SubSeq(c.rows, 1, first - 1)) = (IF 1 <= first - 1 THEN first - 1 - 1 + 1 ELSE 0)
         /\ \A i \in 1 .. first - 1 - 1 + 1 : SubSeq(c.rows, 1, first - 1)[i] = c.rows[1 + i - 1]
    <3>1. \A i \in 1 .. first - 1 : c.rows[i] \in Things
      BY <1>1, <2>10, ElementOfSeq
    <3> QED BY <2>10, <3>1, SubSeqProperties
  <2>12. PICK s \in Seq(Things) : s = SubSeq(c.rows, 1, first - 1)
    BY <2>11
  <2>13. Len(s) = first - 1 /\ s[k] = c.rows[k]
    <3>1. first - 1 - 1 + 1 = first - 1 /\ 1 + k - 1 = k /\ 1 <= first - 1
      BY <2>10
    <3> QED BY <2>10, <2>11, <2>12, <3>1
  <2>14. k \in DOMAIN s
    BY <2>10, <2>13, LenProperties
  <2> QED BY <1>2, <2>2, <2>12, <2>13, <2>14
<1> QED BY <1>3, <1>4

-----------------------------------------------------------------------------
(* A listing comes to its end. *)

\* The listing at the head has been read to its end, or to the page limit.
AllRead(c, obeyed) == \A m \in Things :
  Lists(c, Head(c.todo), m, obeyed) =>
    m \in ToSet(c.rows) \/ (kind \in {"slack", "zoom"} /\ m \in c.unread)
WellRead(c, obeyed) == c.failed = 0 => RowsOf(c) /\ InOrder(c) /\ AllRead(c, obeyed)

\* What an "ok" is sure of was not left unread, and neither was its channel or parent.
LEMMA SureRead ==
  ASSUME Typed, NEW c \in Asking, c.since = mark - OVERLAP, c.until <= now, NEW n \in Sure(c)
  PROVE  /\ kind \in {"slack", "zoom"} => n \notin c.unread
         /\ kind = "slack" => \A b \in c.unread : /\ T(b).holds # T(n).box
                                                 /\ ~(T(b).box = T(n).box /\ T(b).own = T(n).under)
<1>1. n \in Things /\ T(n).at < c.until
  BY SureFacts
<1>2. kind \in {"slack", "zoom"} => n \notin Behind(c)
  BY DEF Sure
<1> QED BY <1>1, <1>2 DEF Behind

LEMMA MoreLeads ==
  ASSUME NEW c \in Asking, c.todo # <<>>, NEW more \in Seq(Ask), NEW e, e.todo = more \o Tail(c.todo),
         NEW i \in DOMAIN more
  PROVE  i \in DOMAIN e.todo /\ e.todo[i] = more[i]
<1>1. Follows(c, more, e.todo)
  BY QueueAfter
<1> QED BY <1>1 DEF Follows

LEMMA NoItems == \E none \in Seq(Item) : none = <<>> /\ DOMAIN none = {}
<1>1. PICK none \in Seq(Item) : none = <<>>
  BY EmptySeq
<1>2. DOMAIN none = {}
  BY <1>1
<1> QED BY <1>1, <1>2

LEMMA MailListed ==
  ASSUME Typed, kind = "gmail", NEW c \in Asking, Going(c), Head(c.todo).op = "list",
         NEW obeyed, WellRead(c, obeyed)
  PROVE  Stays(Listed(c))
<1>1. /\ kind \in Kinds /\ c.todo # <<>> /\ c.since = mark - OVERLAP /\ c.until <= now /\ c.pc = "ask"
      /\ c.rows \in Seq(Things) /\ DOMAIN c.rows = 1 .. Len(c.rows) /\ Len(c.rows) \in Nat
  BY TypedFacts, CallTyped, LenProperties DEF Going
<1>2. PICK none \in Seq(Item) : none = <<>> /\ DOMAIN none = {}
  BY NoItems
<1>3. PICK more \in Seq(Ask) : more = [i \in DOMAIN c.rows |-> R("get", "-", c.rows[i], "-")]
  <2>1. \A i \in DOMAIN c.rows : R("get", "-", c.rows[i], "-") \in Ask
    BY <1>1, GetAsks, ElementOfSeq
  <2>2. [i \in DOMAIN c.rows |-> R("get", "-", c.rows[i], "-")] \in [DOMAIN c.rows -> Ask]
    BY <2>1
  <2> QED BY <1>1, <2>2, FunctionIsSeq
<1>4. PICK d \in Asking : d = Done(c, none, more) /\ d.pc = "ask" /\ d.todo = more \o Tail(c.todo)
  BY <1>1, DoneTyped
<1>5. PICK e \in Asking : e = Listed(c)
  BY <1>1, ListedTyped
<1>6. e = [d EXCEPT !.tried = Len(c.rows)]
  BY <1>2, <1>3, <1>4, <1>5 DEF Listed
<1>7. /\ e.todo = d.todo /\ e.part = d.part /\ e.items = d.items /\ e.page = d.page /\ e.rows = d.rows
      /\ e.since = d.since /\ e.until = d.until /\ e.met = d.met /\ e.pc = "ask" /\ e.failed = d.failed
      /\ e.unread = d.unread
  <2>1. d \in Call
    BY CallTyped
  <2> QED BY <1>4, <1>6, <2>1 DEF Call
<1>8. \A i \in DOMAIN more : UnitFits(more[i])
  BY DEF UnitFits
<1>9. ASSUME c.failed = 0, NEW n \in Sure(c) PROVE Due(e, n)
  <2>1. n \in Things /\ Lists(c, Head(c.todo), n, obeyed)
    BY <1>1, GmailLists, SureFacts
  <2>2. PICK i \in DOMAIN c.rows : c.rows[i] = n
    BY <1>9, <2>1 DEF WellRead, AllRead, ToSet
  <2>3. i \in DOMAIN more /\ more[i] = R("get", "-", n, "-")
    BY <1>3, <2>2
  <2>4. i \in DOMAIN e.todo /\ e.todo[i] = more[i]
    BY <1>1, <1>4, <1>7, <2>3, MoreLeads
  <2>5. Leads(e, i, n)
    BY <2>3, <2>4 DEF Leads, R
  <2> QED BY <2>4, <2>5 DEF Due
<1>10. /\ \A i \in DOMAIN none : Mine(none[i])
       /\ c.failed = 0 => \A i \in DOMAIN more : UnitFits(more[i])
       /\ c.failed = 0 => \A n \in Sure(c) : Leads(c, 1, n) => Held(none, n) \/ Due(e, n)
  BY <1>2, <1>8, <1>9
<1>11. Stays(e)
  BY <1>1, <1>4, <1>7, <1>10, AnswerStays
<1> QED BY <1>5, <1>11

LEMMA MeetingsListed ==
  ASSUME Typed, kind = "zoom", NEW c \in Asking, Going(c), Head(c.todo).op = "list",
         NEW obeyed, WellRead(c, obeyed)
  PROVE  Stays(Listed(c))
<1> DEFINE r == Head(c.todo)
<1>1. /\ kind \in Kinds /\ c.todo # <<>> /\ c.since = mark - OVERLAP /\ c.until <= now /\ c.pc = "ask"
      /\ c.rows \in Seq(Things) /\ r = c.todo[1] /\ 1 \in DOMAIN c.todo
  BY TypedFacts, CallTyped, HeadFirst DEF Going
<1>2. PICK none \in Seq(Item), no \in Seq(Ask) : none = <<>> /\ no = <<>>
  BY EmptySeq
<1>3. DOMAIN none = {} /\ DOMAIN no = {} /\ Len(no) = 0
  BY <1>2
<1>4. PICK d \in Asking : /\ d = Done(c, none, no) /\ d.pc = "ask" /\ d.todo = no \o Tail(c.todo) /\ d.met = c.met
                          /\ d.since = c.since /\ d.until = c.until
  BY <1>1, DoneTyped
<1>5. PICK e \in Asking : e = Listed(c)
  BY <1>1, ListedTyped
<1>6. e = [d EXCEPT !.met = @ \cup {<<r.box, n>> : n \in ToSet(c.rows)}]
  BY <1>2, <1>4, <1>5 DEF Listed
<1>7. /\ e.todo = d.todo /\ e.part = d.part /\ e.items = d.items /\ e.page = d.page /\ e.rows = d.rows
      /\ e.since = d.since /\ e.until = d.until /\ e.met = d.met \cup {<<r.box, n>> : n \in ToSet(c.rows)}
      /\ e.pc = "ask" /\ e.failed = d.failed /\ e.unread = d.unread
  <2>1. d \in Call
    BY CallTyped
  <2> QED BY <1>4, <1>6, <2>1 DEF Call
<1>8. ASSUME c.failed = 0, NEW n \in Sure(c), Leads(c, 1, n) PROVE Due(e, n)
  <2>1. r.box \in T(n).lists \ {"summaries"} /\ \E j \in DOMAIN c.todo : 1 < j /\ c.todo[j].op = "merge"
    BY <1>1, <1>8 DEF Leads
  <2>2. PICK j \in DOMAIN c.todo : 1 < j /\ c.todo[j].op = "merge"
    BY <2>1
  <2>3. n \in Things /\ Lists(c, r, n, obeyed)
    BY <1>1, <2>1, ZoomLists, SureFacts
  <2>4. n \in ToSet(c.rows)
    BY <1>1, <1>8, <2>3, SureRead DEF WellRead, AllRead
  <2>5. <<r.box, n>> \in e.met
    BY <1>7, <2>4
  <2>6. PICK m \in e.met : m[2] = n
    BY <2>5
  <2>7. Follows(c, no, e.todo)
    BY <1>1, <1>4, <1>7, QueueAfter
  <2>8. j \in Nat /\ j # 1 /\ 0 + j - 1 = j - 1
    BY <1>1, <2>2, HeadFirst
  <2>9. PICK k : k = j - 1
    OBVIOUS
  <2>10. k \in DOMAIN e.todo /\ e.todo[k] = c.todo[j]
    BY <1>3, <2>7, <2>8, <2>9 DEF Follows
  <2>11. Leads(e, k, n)
    BY <2>2, <2>6, <2>10 DEF Leads
  <2> QED BY <2>10, <2>11 DEF Due
<1> HIDE DEF r
<1>9. /\ \A i \in DOMAIN none : Mine(none[i])
      /\ c.failed = 0 => \A i \in DOMAIN no : UnitFits(no[i])
      /\ c.failed = 0 => \A n \in Sure(c) : Leads(c, 1, n) => Held(none, n) \/ Due(e, n)
  BY <1>3, <1>8
<1>10. d.met \subseteq e.met
  BY <1>7
<1>11. Stays(e)
  BY <1>1, <1>4, <1>7, <1>9, <1>10, AnswerStays
<1> QED BY <1>5, <1>11

LEMMA OpenedAsks ==
  ASSUME kind \in Kinds, NEW c \in Asking, c.todo # <<>>, NEW more \in Seq(Ask), more = Opened(c)
  PROVE  /\ \A i \in DOMAIN more : more[i].unit = Head(c.todo).unit
         /\ \A i \in DOMAIN Scanned(c) :
              i \in DOMAIN more /\ more[i] = R("list", T(Scanned(c)[i]).holds, None, Head(c.todo).unit)
BY DEF Opened, R

LEMMA BoxesListed ==
  ASSUME Typed, BoxesStay, kind \in {"m365", "slack"}, NEW c \in Asking, Going(c), Head(c.todo).op = "list",
         Head(c.todo).box \in {"todo", "chat", "channels"}, NEW obeyed, WellRead(c, obeyed)
  PROVE  Stays(Listed(c))
<1> DEFINE r == Head(c.todo)
<1>1. /\ kind \in Kinds /\ c.todo # <<>> /\ c.since = mark - OVERLAP /\ c.until <= now /\ c.pc = "ask"
      /\ c.rows \in Seq(Things) /\ r = c.todo[1] /\ 1 \in DOMAIN c.todo
  BY TypedFacts, CallTyped, HeadFirst DEF Going
<1>2. PICK none \in Seq(Item) : none = <<>> /\ DOMAIN none = {}
  BY NoItems
<1>3. PICK more \in Seq(Ask) : more = Opened(c)
  BY <1>1, OpenedTyped
<1>4. PICK e \in Asking : e = Done(c, none, more) /\ e.pc = "ask" /\ e.todo = more \o Tail(c.todo)
                          /\ e.since = c.since /\ e.until = c.until
  BY <1>1, DoneTyped
<1>5. Listed(c) = e
  BY <1>2, <1>3, <1>4 DEF Listed
<1>6. ASSUME c.failed = 0, NEW i \in DOMAIN more PROVE UnitFits(more[i])
  <2>1. UnitFits(r)
    BY <1>1, <1>6 DEF Going, Promised
  <2>2. more[i].unit = r.unit
    BY <1>1, <1>3, <1>6, OpenedAsks
  <2> QED BY <2>1, <2>2 DEF UnitFits
<1>7. ASSUME c.failed = 0, NEW n \in Sure(c), NEW b \in Things, T(b).holds = T(n).box,
             \E i \in DOMAIN Scanned(c) : Scanned(c)[i] = b
      PROVE  Due(e, n)
  <2>1. PICK i \in DOMAIN Scanned(c) : Scanned(c)[i] = b
    BY <1>7
  <2>2. i \in DOMAIN more /\ more[i] = R("list", T(n).box, None, r.unit)
    BY <1>1, <1>3, <1>7, <2>1, OpenedAsks
  <2>3. i \in DOMAIN e.todo /\ e.todo[i] = more[i]
    BY <1>1, <1>4, <2>2, MoreLeads
  <2>4. Leads(e, i, n)
    BY <2>2, <2>3 DEF Leads, R
  <2> QED BY <2>3, <2>4 DEF Due
<1>8. ASSUME c.failed = 0, NEW n \in Sure(c), Leads(c, 1, n) PROVE Due(e, n)
  <2>1. n \in Things /\ T(n).form = "plain" /\ Listable(c, n)
    BY <1>1, SureFacts
  <2>2. T(n).box \notin {"todo", "chat", "channels"}
    BY <1>1, <2>1, ServiceFacts
  <2>3. /\ RowsOf(c) /\ InOrder(c) /\ UnitFits(r)
        /\ \A m \in Things : Lists(c, r, m, obeyed) =>
             m \in ToSet(c.rows) \/ (kind \in {"slack", "zoom"} /\ m \in c.unread)
    BY <1>1, <1>8 DEF WellRead, AllRead, Going, Promised
  <2>4. CASE kind = "m365"
    <3>1. PICK b \in Things : Shows(c, b, n) /\ T(b).box = r.box
      BY <1>1, <1>8, <2>2, <2>4 DEF Leads
    <3>2. T(b).box \in {"todo", "chat"} /\ T(b).at <= c.until /\ T(b).holds = T(n).box
      BY <3>1 DEF Shows
    <3>3. Lists(c, r, b, obeyed)
      BY <1>1, <2>3, <2>4, <3>1, <3>2, GraphListsBox
    <3>4. b \in ToSet(c.rows)
      BY <2>3, <2>4, <3>3
    <3>5. \E i \in DOMAIN Scanned(c) : Scanned(c)[i] = b
      BY <1>1, <2>3, <2>4, <3>1, <3>4, ScannedShows
    <3> QED BY <1>7, <1>8, <3>2, <3>5
  <2>5. CASE kind = "slack"
    <3>1. r.box = "channels" /\ r.of = None
      BY <1>1, <1>8, <2>2, <2>5 DEF Leads
    <3>2. PICK b \in Things : /\ T(b).box = "channels" /\ T(b).holds = T(n).box
                              /\ T(b).under = None /\ T(b).at <= c.until
      BY <1>1, <2>1, <2>5, ServiceFacts DEF Listable
    <3>3. Lists(c, r, b, obeyed)
      BY <1>1, <2>5, <3>1, <3>2, SlackListsChannel
    <3>6. b \notin c.unread
      BY <1>1, <1>8, <2>5, <3>2, SureRead
    <3>4. PICK i \in DOMAIN c.rows : c.rows[i] = b
      BY <2>3, <3>3, <3>6 DEF ToSet
    <3>5. Scanned(c) = c.rows
      BY <3>1 DEF Scanned
    <3> QED BY <1>7, <1>8, <3>2, <3>4, <3>5
  <2> QED BY <2>4, <2>5
<1> HIDE DEF r
<1>9. Stays(e)
  BY <1>1, <1>2, <1>4, <1>6, <1>8, AnswerStays
<1> QED BY <1>5, <1>9

\* What the code keeps of a listing: an item each.
LEMMA KeptItems ==
  ASSUME kind \in Kinds, NEW c \in Asking
  PROVE  \E kept \in Seq(Things), items \in Seq(Item) :
           /\ kept = Only(c.rows, {i \in DOMAIN c.rows : Kept(c, c.rows[i])})
           /\ items = [i \in DOMAIN kept |-> ItemOf(kept[i], TRUE)]
           /\ \A i \in DOMAIN items : Mine(items[i])
           /\ \A n \in ToSet(c.rows) : Kept(c, n) => Held(items, n)
<1> DEFINE places == {i \in DOMAIN c.rows : Kept(c, c.rows[i])}
<1>1. c.rows \in Seq(Things) /\ places \in SUBSET DOMAIN c.rows
  BY CallTyped
<1>2. \A i \in DOMAIN c.rows : Kept(c, c.rows[i]) => i \in places
  OBVIOUS
<1> HIDE DEF places
<1>3. PICK kept \in Seq(Things) : /\ kept = Only(c.rows, places)
                                  /\ \A k \in places : \E i \in DOMAIN kept : kept[i] = c.rows[k]
  BY <1>1, OnlyKeeps
<1>4. \A i \in DOMAIN kept : kept[i] \in Things
  BY ElementOfSeq
<1>5. PICK items \in Seq(Item) : items = [i \in DOMAIN kept |-> ItemOf(kept[i], TRUE)]
  <2>1. \A i \in DOMAIN kept : ItemOf(kept[i], TRUE) \in Item
    BY <1>4, ItemTyped
  <2>2. [i \in DOMAIN kept |-> ItemOf(kept[i], TRUE)] \in [DOMAIN kept -> Item]
    BY <2>1
  <2> QED BY <2>2, FunctionIsSeq
<1>6. \A i \in DOMAIN kept : i \in DOMAIN items /\ Mine(items[i]) /\ items[i].thing = kept[i]
  BY <1>4, <1>5, ItemMine
<1>7. \A i \in DOMAIN items : Mine(items[i])
  BY <1>5, <1>6
<1>8. ASSUME NEW n \in ToSet(c.rows), Kept(c, n) PROVE Held(items, n)
  <2>1. PICK k \in places : c.rows[k] = n
    BY <1>2, <1>8 DEF ToSet
  <2>2. PICK i \in DOMAIN kept : kept[i] = n
    BY <1>3, <2>1
  <2> QED BY <1>6, <2>2 DEF Held
<1> QED BY <1>3, <1>5, <1>7, <1>8 DEF places

\* A parent that was listed and has a reply is asked for its replies.
LEMMA ThreadAsked ==
  ASSUME kind = "slack", kind \in Kinds, NEW c \in Asking, c.todo # <<>>, Head(c.todo).of = None,
         NEW more \in Seq(Ask), more = Threads(c), NEW p \in ToSet(c.rows), NEW m \in Things \ gone,
         T(m).box = T(p).box, T(m).under = T(p).own
  PROVE  \E i \in DOMAIN more : more[i] = R("list", Head(c.todo).box, T(m).under, "-")
<1> DEFINE places == {i \in DOMAIN c.rows : \E x \in Things \ gone :
                        T(x).box = T(c.rows[i]).box /\ T(x).under = T(c.rows[i]).own}
<1>1. c.rows \in Seq(Things) /\ places \in SUBSET DOMAIN c.rows
  BY CallTyped
<1>2. PICK k \in places : c.rows[k] = p
  BY DEF ToSet
<1>3. more = [i \in DOMAIN Only(c.rows, places) |->
                R("list", Head(c.todo).box, T(Only(c.rows, places)[i]).own, "-")]
  BY DEF Threads
<1> HIDE DEF places
<1>4. PICK s : s = Only(c.rows, places)
  OBVIOUS
<1>5. PICK i \in DOMAIN s : s[i] = p
  BY <1>1, <1>2, <1>4, OnlyKeeps
<1> QED BY <1>3, <1>4, <1>5

LEMMA ThingsListed ==
  ASSUME Typed, kind \in {"m365", "slack"}, NEW c \in Asking, Going(c), Head(c.todo).op = "list",
         Head(c.todo).box \notin {"todo", "chat", "channels"}, NEW obeyed, WellRead(c, obeyed)
  PROVE  Stays(Listed(c))
<1> DEFINE r == Head(c.todo)
<1>1. /\ kind \in Kinds /\ c.todo # <<>> /\ c.since = mark - OVERLAP /\ c.until <= now /\ c.pc = "ask"
      /\ c.rows \in Seq(Things) /\ r = c.todo[1] /\ 1 \in DOMAIN c.todo
  BY TypedFacts, CallTyped, HeadFirst DEF Going
<1>2. PICK kept \in Seq(Things), items \in Seq(Item) :
        /\ kept = Only(c.rows, {i \in DOMAIN c.rows : Kept(c, c.rows[i])})
        /\ items = [i \in DOMAIN kept |-> ItemOf(kept[i], TRUE)]
        /\ \A i \in DOMAIN items : Mine(items[i])
        /\ \A n \in ToSet(c.rows) : Kept(c, n) => Held(items, n)
  BY <1>1, KeptItems
<1>3. PICK more \in Seq(Ask) : more = Threads(c)
  BY <1>1, ThreadsTyped
<1>4. PICK e \in Asking : e = Done(c, items, more) /\ e.pc = "ask" /\ e.todo = more \o Tail(c.todo)
                          /\ e.since = c.since /\ e.until = c.until
  BY <1>1, DoneTyped
<1>5. Listed(c) = e
  BY <1>2, <1>3, <1>4 DEF Listed
<1>6. \A i \in DOMAIN more : UnitFits(more[i])
  <2>1. CASE kind = "m365"
    <3>1. more = <<>>
      BY <1>3, <2>1 DEF Threads
    <3> QED BY <3>1
  <2>2. CASE kind = "slack"
    BY <2>2 DEF UnitFits
  <2> QED BY <2>1, <2>2
<1>7. ASSUME c.failed = 0, NEW n \in Sure(c), Leads(c, 1, n) PROVE Held(items, n) \/ Due(e, n)
  <2>1. n \in Things /\ n \in Things \ gone /\ T(n).form = "plain" /\ Listable(c, n)
    BY <1>1, SureFacts
  <2>2. \A m \in Things : Lists(c, r, m, obeyed) =>
          m \in ToSet(c.rows) \/ (kind \in {"slack", "zoom"} /\ m \in c.unread)
    BY <1>7 DEF WellRead, AllRead
  <2>3. CASE kind = "m365"
    <3>1. r.box = T(n).box
      BY <1>1, <1>7, <2>3 DEF Leads, Shows
    <3>2. Lists(c, r, n, obeyed) /\ Kept(c, n)
      BY <1>1, <2>3, <3>1, GraphLists
    <3> QED BY <1>2, <2>1, <2>2, <2>3, <3>2
  <2>4. CASE kind = "slack"
    <3>1. r.box = T(n).box /\ r.of \in {None, T(n).under}
      BY <1>1, <1>7, <2>4 DEF Leads
    <3>2. CASE r.of = T(n).under
      <4>1. Lists(c, r, n, obeyed) /\ Kept(c, n)
        BY <1>1, <2>4, <3>1, <3>2, SlackLists
      <4>2. n \notin c.unread
        BY <1>1, <1>7, <2>4, SureRead
      <4> QED BY <1>2, <2>1, <2>2, <4>1, <4>2
    <3>3. CASE r.of = None /\ T(n).under # None
      <4>1. PICK p \in Things \ gone : T(p).box = T(n).box /\ T(p).own = T(n).under /\ T(p).under = None
                                       /\ Within(T(p).at, c.since + 1, c.until + 1)
        BY <2>1, <2>4, <3>3 DEF Listable
      <4>2. Lists(c, r, p, obeyed)
        BY <1>1, <2>4, <3>1, <3>3, <4>1, SlackListsParent
      <4>7. p \notin c.unread
        BY <1>1, <1>7, <2>4, <4>1, SureRead
      <4>3. p \in ToSet(c.rows)
        BY <2>2, <4>2, <4>7
      <4>4. PICK i \in DOMAIN more : more[i] = R("list", r.box, T(n).under, "-")
        BY <1>1, <1>3, <2>1, <2>4, <3>3, <4>1, <4>3, ThreadAsked
      <4>5. i \in DOMAIN e.todo /\ e.todo[i] = more[i]
        BY <1>1, <1>4, MoreLeads
      <4>6. Leads(e, i, n)
        BY <2>4, <3>1, <4>4, <4>5 DEF Leads, R
      <4> QED BY <4>5, <4>6 DEF Due
    <3> QED BY <3>1, <3>2, <3>3
  <2> QED BY <2>3, <2>4
<1> HIDE DEF r
<1>8. Stays(e)
  BY <1>1, <1>2, <1>4, <1>6, <1>7, AnswerStays
<1> QED BY <1>5, <1>8

LEMMA ListedStays ==
  ASSUME Typed, BoxesStay, NEW c \in Asking, Going(c), Head(c.todo).op = "list",
         NEW obeyed, WellRead(c, obeyed)
  PROVE  Stays(Listed(c))
<1>1. kind \in {"gmail", "m365", "slack", "zoom"}
  BY TypedFacts, WorldAssumption
<1> QED BY <1>1, MailListed, MeetingsListed, BoxesListed, ThingsListed

\* What is read of a listing changes nothing that was promised.
LEMMA SamePromise ==
  ASSUME NEW c \in Asking, NEW d \in Asking, Promised(c), d.todo = c.todo, d.part = c.part, d.items = c.items,
         d.met = c.met, d.since = c.since, d.until = c.until, c.unread \subseteq d.unread
  PROVE  Promised(d)
<1>1. \A b, n : Shows(c, b, n) <=> Shows(d, b, n)
  BY DEF Shows
<1>2. \A i, n : Leads(c, i, n) <=> Leads(d, i, n)
  BY <1>1 DEF Leads
<1>3. Sure(d) \subseteq Sure(c)
  BY SureIs
<1> QED BY <1>2, <1>3 DEF Promised, InHand, Due

LEMMA ListPageStays ==
  ASSUME Typed, Promise, ListPage
  PROVE  Promise'
<1>1. call.pc = "ask" /\ call.todo # <<>> /\ Head(call.todo).op = "list" /\ Asks("list")
  BY DEF ListPage, Asks
<1>2. /\ kind \in Kinds /\ call \in Asking /\ call.since = mark - OVERLAP /\ call.until <= now
      /\ Sound(call) /\ BoxesStay /\ call.todo[1] = Head(call.todo) /\ 1 \in DOMAIN call.todo
      /\ (call.failed = 0 => Promised(call) /\ RowsFit(call) /\ InOrder(call))
  BY <1>1, AskingFacts DEF Promise
<1>3. PICK obeyed \in BOOLEAN :
        LET rows == Rows(call, obeyed)
        IN call' = IF Len(rows) <= PAGE THEN Listed(Paged(call, rows))
                   ELSE IF Paged(call, rows).page < MAX_PAGES[kind] THEN Paged(call, rows)
                   ELSE TooManyPages(Paged(call, rows))
  BY DEF ListPage, Paged
<1>4. PICK rows \in Seq(Things) : rows = Rows(call, obeyed)
  BY <1>2, RowsListed
<1>5. PICK read \in Asking :
        /\ read = Paged(call, rows) /\ read.todo = call.todo /\ read.page = call.page + 1
        /\ read.part = call.part /\ read.items = call.items /\ read.met = call.met
        /\ read.pc = "ask" /\ read.since = call.since /\ read.until = call.until /\ read.failed = call.failed
        /\ read.unread = call.unread
  BY <1>1, <1>2, PagedTyped
<1>6. Sound(read)
  BY <1>2, <1>5 DEF Sound
<1>7. call.failed = 0 => Promised(read)
  BY <1>2, <1>5, SamePromise
<1>8. Going(read)
  BY <1>1, <1>2, <1>5, <1>6, <1>7 DEF Going
<1>9. call.failed = 0 =>
        /\ RowsOf(read) /\ InOrder(read) /\ (PAGE < Len(rows) => RowsFit(read))
        /\ ~(PAGE < Len(rows)) =>
             \A m \in Things : Lists(call, Head(call.todo), m, obeyed) => m \in ToSet(read.rows)
  <2>1. SUFFICES ASSUME call.failed = 0
                 PROVE  /\ RowsOf(read) /\ InOrder(read) /\ (PAGE < Len(rows) => RowsFit(read))
                        /\ ~(PAGE < Len(rows)) =>
                             \A m \in Things : Lists(call, Head(call.todo), m, obeyed) => m \in ToSet(read.rows)
    OBVIOUS
  <2>2. UnitFits(Head(call.todo)) /\ RowsFit(call) /\ InOrder(call)
    BY <1>2, <2>1 DEF Promised
  <2> QED BY <1>1, <1>2, <1>4, <1>5, <2>2, PageRead
<1>10. /\ Len(rows) \in Nat /\ PAGE \in Nat /\ read.page \in Nat /\ MAX_PAGES[kind] \in Nat
       /\ kind \in {"gmail", "m365", "slack", "zoom"}
  BY <1>2, PageAssumption, WorldAssumption, CallTyped, LenProperties
<1>11. CASE Len(rows) <= PAGE
  <2>1. \A m : Lists(read, Head(read.todo), m, obeyed) <=> Lists(call, Head(call.todo), m, obeyed)
    BY <1>5 DEF Lists, From
  <2>2. WellRead(read, obeyed)
    BY <1>5, <1>9, <1>10, <1>11, <2>1 DEF WellRead, AllRead
  <2>3. PICK d : d = Listed(read) /\ Stays(d)
    BY <1>1, <1>2, <1>5, <1>8, <2>2, ListedStays
  <2>4. call' = d
    BY <1>3, <1>4, <1>5, <1>11, <2>3
  <2> QED BY <2>3, <2>4, CallKeeps DEF ListPage
<1>12. CASE ~(Len(rows) <= PAGE) /\ read.page < MAX_PAGES[kind]
  <2>1. call' = read
    BY <1>3, <1>4, <1>5, <1>12
  <2>2. PAGE < Len(rows)
    BY <1>10, <1>12
  <2>3. Stays(read)
    BY <1>2, <1>5, <1>6, <1>7, <1>9, <2>2 DEF Stays, Windowed, OnTheWay, Answered
  <2> QED BY <2>1, <2>3, CallKeeps DEF ListPage
<1>13. CASE ~(Len(rows) <= PAGE) /\ ~(read.page < MAX_PAGES[kind])
  <2>1. CASE kind \in {"gmail", "m365"}
    <3>1. call' = Fails(read)
      BY <1>3, <1>4, <1>5, <1>13, <2>1 DEF TooManyPages
    <3>2. PICK d : d = Fails(read) /\ Stays(d)
      BY <1>1, <1>2, <1>5, <1>6, FailsStays
    <3> QED BY <3>1, <3>2, CallKeeps DEF ListPage
  <2>2. CASE kind \in {"slack", "zoom"}
    <3>1. PICK cut \in Asking : /\ cut = [read EXCEPT !.unread = @ \cup Rest(read, TRUE)] /\ SameCall(read, cut)
                                /\ cut.unread = read.unread \cup Rest(read, TRUE)
      BY <1>2, CutTyped
    <3>2. call' = Listed(cut)
      BY <1>3, <1>4, <1>5, <1>13, <2>2, <3>1 DEF TooManyPages
    <3>3. /\ cut.pc = read.pc /\ cut.since = read.since /\ cut.until = read.until /\ cut.todo = read.todo
          /\ cut.rows = read.rows /\ cut.failed = read.failed
      BY <3>1 DEF SameCall
    <3>4. Sound(cut) /\ (call.failed = 0 => Promised(cut))
      <4>1. Sound(cut)
        BY <1>6, <3>1 DEF SameCall, Sound
      <4>2. Promised(read) => Promised(cut)
        BY <3>1, SamePromise DEF SameCall
      <4> QED BY <1>7, <4>1, <4>2
    <3>5. Going(cut)
      <4>1. cut.failed = call.failed
        BY <1>5, <3>3
      <4>2. read.pc = "ask" /\ read.todo # <<>> /\ read.since = mark - OVERLAP /\ read.until <= now
        BY <1>8 DEF Going
      <4>3. cut.pc = "ask" /\ cut.todo # <<>> /\ cut.since = mark - OVERLAP /\ cut.until <= now
        BY <3>3, <4>2
      <4> QED BY <3>1, <3>4, <4>1, <4>3 DEF Going
    <3>6. call.failed = 0 => RowsOf(cut) /\ InOrder(cut)
      BY <1>9, <3>1 DEF SameCall, RowsOf, InOrder
    <3>7. AllRead(cut, TRUE)
      <4>1. \A m : Lists(cut, Head(cut.todo), m, TRUE) <=> Lists(read, Head(read.todo), m, TRUE)
        BY <3>3 DEF Lists, From
      <4> QED BY <2>2, <3>1, <3>3, <4>1 DEF AllRead, Rest
    <3>8. WellRead(cut, TRUE)
      BY <1>5, <3>3, <3>6, <3>7 DEF WellRead
    <3>9. PICK d : d = Listed(cut) /\ Stays(d)
      BY <1>1, <1>2, <1>5, <3>1, <3>3, <3>5, <3>8, ListedStays
    <3> QED BY <3>2, <3>9, CallKeeps DEF ListPage
  <2> QED BY <1>10, <2>1, <2>2
<1> QED BY <1>11, <1>12, <1>13

-----------------------------------------------------------------------------
(* A collection begins with listings that lead to all it may vouch for. *)

LEMMA GraphPlan ==
  ASSUME kind = "m365"
  PROVE  /\ \A box \in {"mail", "calendar", "todo", "chat"} :
              \E i \in DOMAIN Plan : Plan[i] = R("list", box, None, box)
         /\ \A i \in DOMAIN Plan : UnitFits(Plan[i])
<1> DEFINE four == <<"mail", "calendar", "todo", "chat">>
           lists == [i \in 1 .. 4 |-> R("list", four[i], None, four[i])]
           first == <<Alone("token")>>
<1>1. Plan = first \o lists
  BY DEF Plan
<1>2. /\ \A i \in 1 .. 4 : lists[i] = R("list", four[i], None, four[i]) /\ UnitFits(lists[i])
      /\ \A box \in {"mail", "calendar", "todo", "chat"} : \E i \in 1 .. 4 : lists[i] = R("list", box, None, box)
  BY DEF R, UnitFits
<1>3. UnitFits(first[1]) /\ Len(first) = 1
  BY DEF UnitFits, Alone, R
<1>4. /\ first \in Seq({Alone("token")}) /\ lists \in Seq({lists[i] : i \in 1 .. 4}) /\ Len(lists) = 4
  OBVIOUS
<1> DEFINE all == {Alone("token")} \cup {lists[i] : i \in 1 .. 4}
<1> HIDE DEF first, lists
<1>5. first \in Seq(all) /\ lists \in Seq(all)
  <2>1. {Alone("token")} \subseteq all /\ {lists[i] : i \in 1 .. 4} \subseteq all
    OBVIOUS
  <2> QED BY <1>4, <2>1, SeqMonotonic
<1> HIDE DEF all
<1>6. /\ first \o lists \in Seq(all) /\ Len(first \o lists) = 5
      /\ \A i \in 1 .. 5 : (first \o lists)[i] = IF i <= 1 THEN first[i] ELSE lists[i - 1]
  <2>1. /\ first \o lists \in Seq(all) /\ Len(first \o lists) = Len(first) + Len(lists)
        /\ \A i \in 1 .. Len(first) + Len(lists) :
             (first \o lists)[i] = IF i <= Len(first) THEN first[i] ELSE lists[i - Len(first)]
    BY <1>5, ConcatProperties
  <2>2. Len(first) + Len(lists) = 5
    BY <1>3, <1>4
  <2> QED BY <1>3, <2>1, <2>2
<1>7. PICK plan \in Seq(all) : plan = Plan
  BY <1>1, <1>6
<1>8. Len(plan) = 5 /\ plan[1] = first[1] /\ \A i \in 2 .. 5 : plan[i] = lists[i - 1]
  BY <1>1, <1>6, <1>7
<1>9. DOMAIN plan = 1 .. 5
  BY <1>8, LenProperties
<1>10. ASSUME NEW box \in {"mail", "calendar", "todo", "chat"}
       PROVE  \E i \in DOMAIN plan : plan[i] = R("list", box, None, box)
  <2>1. PICK k \in 1 .. 4 : lists[k] = R("list", box, None, box)
    BY <1>2
  <2>2. PICK i : i = k + 1
    OBVIOUS
  <2>3. i \in 2 .. 5 /\ i - 1 = k /\ i \in DOMAIN plan
    BY <1>9, <2>2
  <2> QED BY <1>8, <2>1, <2>3
<1>11. ASSUME NEW i \in DOMAIN plan PROVE UnitFits(plan[i])
  <2>1. CASE i = 1
    BY <1>3, <1>8, <2>1
  <2>2. CASE i # 1
    <3>1. i \in 2 .. 5 /\ i - 1 \in 1 .. 4
      BY <1>9, <2>2
    <3> QED BY <1>2, <1>8, <3>1
  <2> QED BY <2>1, <2>2
<1> QED BY <1>7, <1>10, <1>11

LEMMA ZoomPlan ==
  ASSUME kind = "zoom", kind \in Kinds
  PROVE  \E last \in DOMAIN Plan :
           /\ Plan[last].op = "merge" /\ 4 < last /\ 4 \in DOMAIN Plan /\ Plan[4] = Listing("previous")
           /\ S2S => 5 < last /\ 5 \in DOMAIN Plan /\ Plan[5] = Listing("report")
<1> DEFINE first == <<Alone("token"), Alone("me"), Listing("summaries"), Listing("previous")>>
           report == IF S2S THEN <<Listing("report")>> ELSE <<>>
           merge == <<Alone("merge")>>
<1>1. Plan = (first \o report) \o merge
  BY DEF Plan
<1>2. /\ Alone("token") \in Ask /\ Alone("me") \in Ask /\ Alone("merge") \in Ask
      /\ Listing("summaries") \in Ask /\ Listing("previous") \in Ask /\ Listing("report") \in Ask
  BY BoxAssumption, AloneAsks, ListingAsks DEF None
<1>3. /\ first \in Seq(Ask) /\ report \in Seq(Ask) /\ merge \in Seq(Ask)
      /\ Len(first) = 4 /\ Len(merge) = 1 /\ first[4] = Listing("previous") /\ merge[1].op = "merge"
      /\ (S2S => Len(report) = 1 /\ report[1] = Listing("report")) /\ (~S2S => Len(report) = 0)
  BY <1>2 DEF Alone, R
<1> HIDE DEF first, report, merge
<1>4. PICK size \in Nat : size = Len(report)
  BY <1>3, LenProperties
<1>5. PICK lists \in Seq(Ask) : lists = first \o report
  BY <1>3, ConcatProperties
<1>6. /\ Len(lists) = 4 + size
      /\ \A i \in 1 .. 4 + size : lists[i] = IF i <= 4 THEN first[i] ELSE report[i - 4]
  <2>1. /\ Len(first \o report) = Len(first) + Len(report)
        /\ \A i \in 1 .. Len(first) + Len(report) :
             (first \o report)[i] = IF i <= Len(first) THEN first[i] ELSE report[i - Len(first)]
    BY <1>3, ConcatProperties
  <2> QED BY <1>3, <1>4, <1>5, <2>1
<1>7. PICK plan \in Seq(Ask) : plan = lists \o merge
  BY <1>3, <1>5, ConcatProperties
<1>8. /\ Len(plan) = 5 + size
      /\ \A i \in 1 .. 5 + size : plan[i] = IF i <= 4 + size THEN lists[i] ELSE merge[i - (4 + size)]
  <2>1. /\ Len(lists \o merge) = Len(lists) + Len(merge)
        /\ \A i \in 1 .. Len(lists) + Len(merge) :
             (lists \o merge)[i] = IF i <= Len(lists) THEN lists[i] ELSE merge[i - Len(lists)]
    BY <1>3, ConcatProperties
  <2>2. Len(lists) + Len(merge) = 5 + size
    BY <1>3, <1>6
  <2> QED BY <1>6, <1>7, <2>1, <2>2
<1>9. DOMAIN plan = 1 .. 5 + size
  BY <1>8, LenProperties
<1>10. PICK last : last = 5 + size
  OBVIOUS
<1>11. last \in DOMAIN plan /\ plan[last].op = "merge" /\ 4 < last
  <2>1. last \in 1 .. 5 + size /\ ~(last <= 4 + size) /\ last - (4 + size) = 1 /\ 4 < last
    BY <1>10
  <2> QED BY <1>3, <1>8, <1>9, <2>1
<1>12. 4 \in DOMAIN plan /\ plan[4] = Listing("previous")
  BY <1>3, <1>6, <1>8, <1>9
<1>13. S2S => 5 < last /\ 5 \in DOMAIN plan /\ plan[5] = Listing("report")
  <2>1. SUFFICES ASSUME S2S PROVE 5 < last /\ 5 \in DOMAIN plan /\ plan[5] = Listing("report")
    OBVIOUS
  <2>2. size = 1 /\ report[1] = Listing("report")
    BY <1>3, <1>4, <2>1
  <2>3. 5 \in 1 .. 4 + size /\ 5 \in 1 .. 5 + size /\ 5 <= 4 + size /\ ~(5 <= 4) /\ 5 - 4 = 1
    BY <2>2
  <2> QED BY <1>6, <1>8, <1>9, <1>10, <2>2, <2>3
<1>14. plan = Plan
  BY <1>1, <1>5, <1>7
<1> QED BY <1>11, <1>12, <1>13, <1>14

LEMMA PlanLeads ==
  ASSUME kind \in Kinds, NEW c \in Asking, c.todo = Plan, NEW n \in Sure(c)
  PROVE  Due(c, n)
<1>1. Listable(c, n)
  BY DEF Vouched, Sure
<1>2. CASE kind = "gmail"
  <2>1. 2 \in DOMAIN c.todo /\ c.todo[2].op = "list"
    BY <1>2 DEF Plan, Listing, R
  <2>2. Leads(c, 2, n)
    BY <1>2, <2>1 DEF Leads
  <2> QED BY <2>1, <2>2 DEF Due
<1>3. CASE kind = "m365"
  <2>1. PICK box \in {"mail", "calendar", "todo", "chat"} :
          box = T(n).box \/ \E b \in Things : Shows(c, b, n) /\ T(b).box = box
    <3>1. CASE T(n).box \in {"mail", "calendar"}
      BY <3>1
    <3>2. CASE \E b \in Things : Shows(c, b, n)
      <4>1. PICK b \in Things : Shows(c, b, n)
        BY <3>2
      <4>2. T(b).box \in {"todo", "chat"}
        BY <4>1 DEF Shows
      <4> QED BY <4>1, <4>2
    <3> QED BY <1>1, <1>3, <3>1, <3>2 DEF Listable
  <2>2. PICK i \in DOMAIN c.todo : c.todo[i] = R("list", box, None, box)
    BY <1>3, GraphPlan
  <2>3. Leads(c, i, n)
    BY <1>3, <2>1, <2>2 DEF Leads, R
  <2> QED BY <2>2, <2>3 DEF Due
<1>4. CASE kind = "slack"
  <2>1. 1 \in DOMAIN c.todo /\ c.todo[1] = Listing("channels")
    BY <1>4 DEF Plan
  <2>2. Leads(c, 1, n)
    BY <1>4, <2>1 DEF Leads, Listing, R
  <2> QED BY <2>1, <2>2 DEF Due
<1>5. CASE kind = "zoom"
  <2>1. PICK last \in DOMAIN c.todo :
           /\ c.todo[last].op = "merge" /\ 4 < last /\ 4 \in DOMAIN c.todo /\ c.todo[4] = Listing("previous")
           /\ S2S => 5 < last /\ 5 \in DOMAIN c.todo /\ c.todo[5] = Listing("report")
    BY <1>5, ZoomPlan
  <2>2. "previous" \in T(n).lists \/ (S2S /\ "report" \in T(n).lists)
    BY <1>1, <1>5 DEF Listable
  <2>3. PICK i \in DOMAIN c.todo : i < last /\ \E box \in T(n).lists \ {"summaries"} : c.todo[i] = Listing(box)
    BY <2>1, <2>2
  <2>4. Leads(c, i, n)
    BY <1>5, <2>1, <2>3 DEF Leads, Listing, R
  <2> QED BY <2>4 DEF Due
<1> QED BY <1>2, <1>3, <1>4, <1>5, WorldAssumption

LEMMA BeginStays ==
  ASSUME Typed, Promise, Begin
  PROVE  Promise'
<1>1. kind \in Kinds /\ mark \in Nat /\ now \in Nat /\ NoCall \in Asking
  BY TypedFacts, NoCallTyped, CollectorNumbers
<1>2. PICK d \in Asking : d = call'
  BY SameKind, BeginTyped DEF Begin, service
<1>3. PICK no \in Asking : no = NoCall
  BY <1>1
<1>4. /\ d.pc = "ask" /\ d.since = mark - OVERLAP /\ d.until = now /\ d.todo = Plan
      /\ d.page = no.page /\ d.rows = no.rows /\ d.part = no.part /\ d.items = no.items
  <2>1. no \in Call
    BY CallTyped
  <2>2. d = [no EXCEPT !.pc = "ask", !.since = mark - OVERLAP, !.until = now, !.todo = Plan, !.tried = Units]
    BY <1>2, <1>3 DEF Begin
  <2> QED BY <2>1, <2>2 DEF Call
<1>5. no.page = 0 /\ no.rows = <<>> /\ no.part = <<>> /\ no.items = <<>>
  BY <1>3 DEF NoCall
<1>6. d.page = 0 /\ d.rows = <<>> /\ Len(d.rows) = 0 /\ DOMAIN d.rows = {}
      /\ DOMAIN d.part = {} /\ DOMAIN d.items = {} /\ d.part = <<>>
  BY <1>4, <1>5
<1>7. RowsFit(d) /\ InOrder(d)
  BY <1>6, PageAssumption DEF RowsFit, RowsOf, InOrder
<1>8. \A i \in DOMAIN d.todo : UnitFits(d.todo[i])
  <2>1. CASE kind = "m365"
    BY <1>4, <2>1, GraphPlan
  <2>2. CASE kind # "m365"
    BY <2>2 DEF UnitFits
  <2> QED BY <2>1, <2>2
<1>9. \A n \in Sure(d) : Due(d, n)
  BY <1>1, <1>4, PlanLeads
<1>10. Promised(d)
  BY <1>6, <1>8, <1>9 DEF Promised
<1>11. Stays(d)
  BY <1>1, <1>4, <1>6, <1>7, <1>10 DEF Stays, Windowed, OnTheWay, Answered, Sound
<1> QED BY <1>2, <1>11, CallKeeps DEF Begin

-----------------------------------------------------------------------------
(* A result is stored under keys that no other thing has. *)

LEMMA KeyOwn ==
  ASSUME kind \in Kinds, NEW n \in Things, NEW m \in Things, Key(n) = Key(m)
  PROVE  n = m
<1>1. T(n) \in Thing /\ T(m) \in Thing /\ kind \in {"gmail", "m365", "slack", "zoom"}
  BY ThingsTyped, WorldAssumption
<1>2. T(n).own = T(m).own /\ Key(n).scope = Key(m).scope
  BY DEF Key
<1>3. T(n).box # "-" /\ T(m).box # "-"
  BY <1>1, BoxAssumption DEF Thing
<1>4. CASE kind \in {"gmail", "zoom"}
  BY <1>2, <1>4, ServiceFacts
<1>5. CASE kind = "slack"
  <2>1. T(n).box = T(m).box
    BY <1>2, <1>5 DEF Key, Scoped
  <2> QED BY <1>2, <2>1, ServiceFacts
<1>6. CASE kind = "m365"
  <2>1. T(n).box = T(m).box \/ (~InChat(n) /\ ~InChat(m))
    BY <1>2, <1>3, <1>6 DEF Key, Scoped
  <2> QED BY <1>2, <1>6, <2>1, ServiceFacts
<1> QED BY <1>1, <1>4, <1>5, <1>6

\* The first item with n's key is stored, unless a row has it already.
LEMMA FreshHas ==
  ASSUME NEW items \in Seq(Item), NEW i \in DOMAIN items, \A row \in stored : row.key # items[i].key
  PROVE  \E j \in DOMAIN items : items[j] \in Fresh(items) /\ items[j].key = items[i].key
<1>1. DOMAIN items = 1 .. Len(items) /\ Len(items) \in Nat
  BY LenProperties
<1> DEFINE same == {j \in DOMAIN items : items[j].key = items[i].key}
<1>2. same \in SUBSET Nat /\ same # {}
  BY <1>1
<1>3. PICK j \in same : \A k \in same : j <= k
  BY <1>2, LeastNumber
<1>4. \A k \in 1 .. j - 1 : items[k].key # items[j].key
  BY <1>1, <1>3
<1>5. j \in DOMAIN items /\ items[j].key = items[i].key
  BY <1>3
<1>6. \A row \in stored : row.key # items[j].key
  BY <1>5
<1> HIDE DEF same
<1>7. items[j] \in Fresh(items)
  BY <1>4, <1>5, <1>6 DEF Fresh
<1> QED BY <1>5, <1>7

LEMMA PersistStays ==
  ASSUME Typed, Promise, Persist
  PROVE  Promise'
<1>1. /\ kind \in Kinds /\ call \in Asking /\ call.items \in Seq(Item) /\ call.pc = "answer"
      /\ Answered(call) /\ (\A i \in DOMAIN call.items : Mine(call.items[i]))
      /\ BoxesStay /\ RowsMine /\ OkIsStored
  BY TypedFacts, CallTyped DEF Persist, Promise, Sound
<1>2. /\ stored' = stored \cup Fresh(call.items) /\ call' = NoCall
      /\ kind' = kind /\ gone' = gone
      /\ \/ vouched' = vouched
         \/ call.status = "ok" /\ vouched' = vouched \cup Vouched(call) /\ behind' = behind \cup Behind(call)
      /\ behind \subseteq behind'
  BY DEF Persist, Moves, service
<1>3. \A item : Mine(item)' <=> Mine(item)
  BY <1>2 DEF Mine, Key, Scoped, InChat, Things, T
<1>4. \A row \in stored' : Mine(row)
  <2>1. \A row \in Fresh(call.items) : Mine(row)
    BY <1>1 DEF Fresh
  <2> QED BY <1>1, <1>2, <2>1 DEF RowsMine
<1>5. \A n \in vouched' : (\E row \in stored' : row.thing = n) \/ (kind \in {"slack", "zoom"} /\ n \in behind')
  <2>1. ASSUME NEW n \in vouched
        PROVE  (\E row \in stored' : row.thing = n) \/ (kind \in {"slack", "zoom"} /\ n \in behind')
    BY <1>1, <1>2, <2>1 DEF OkIsStored
  <2>2. ASSUME call.status = "ok", NEW n \in Sure(call) PROVE \E row \in stored' : row.thing = n
    <3>1. PICK i \in DOMAIN call.items : call.items[i].thing = n
      BY <1>1, <2>2 DEF Answered, Held
    <3>2. n \in Things /\ call.items[i].key = Key(n)
      BY <1>1, <3>1 DEF Mine
    <3>3. PICK row \in stored' : row.key = Key(n)
      <4>1. CASE \E row \in stored : row.key = Key(n)
        BY <1>2, <4>1
      <4>2. CASE \A row \in stored : row.key # call.items[i].key
        BY <1>1, <1>2, <3>2, <4>2, FreshHas
      <4> QED BY <3>2, <4>1, <4>2
    <3>4. row.thing \in Things /\ Key(row.thing) = Key(n)
      BY <1>4, <3>3 DEF Mine
    <3>5. row.thing = n
      BY <1>1, <3>2, <3>4, KeyOwn
    <3> QED BY <3>5
  <2>3. ASSUME behind' = behind \cup Behind(call), NEW n \in Vouched(call), n \notin Sure(call)
        PROVE  kind \in {"slack", "zoom"} /\ n \in behind'
    BY <2>3 DEF Sure
  <2> QED BY <1>2, <2>1, <2>2, <2>3
<1>6. OkIsStored' /\ RowsMine' /\ BoxesStay'
  BY <1>1, <1>2, <1>3, <1>4, <1>5 DEF OkIsStored, RowsMine, BoxesStay, T
<1>7. call'.pc = "idle" /\ call'.items = <<>> /\ call'.part = <<>>
  BY <1>2 DEF NoCall
<1>8. Windowed(call)' /\ OnTheWay(call)' /\ Answered(call)'
  BY <1>7 DEF Windowed, OnTheWay, Answered
<1>9. Sound(call)'
  BY <1>7 DEF Sound
<1> QED BY <1>6, <1>8, <1>9 DEF Promise

\* What the services do takes nothing from what is on the way.
LEMMA ServiceKeeps ==
  ASSUME Typed, Promise, kind' = kind, now' >= now, now' \in Nat, gone \subseteq gone', BoxesStay',
         UNCHANGED <<table, call>>
  PROVE  Promise'
<1>1. kind' = kind /\ mark' = mark /\ stored' = stored /\ vouched' = vouched /\ call' = call
      /\ behind' = behind
  BY DEF table
<1>2. Things' = Things /\ (\A n : T(n)' = T(n)) /\ \A n : (InChat(n)' <=> InChat(n))
  BY <1>1 DEF Things, T, InChat
<1>3. \A b, n : Shows(call, b, n)' <=> Shows(call, b, n)
  BY <1>1, <1>2 DEF Shows
<1>4. \A n : Listable(call, n)' => Listable(call, n)
  <2>1. Things \ gone' \subseteq Things \ gone
    OBVIOUS
  <2> QED BY <1>1, <1>2, <1>3, <2>1 DEF Listable
<1>5. Sure(call)' \subseteq Sure(call)
  <2>1. Vouched(call)' \subseteq Vouched(call)
    BY <1>1, <1>2, <1>4 DEF Vouched
  <2>2. Behind(call)' = Behind(call)
    BY <1>1, <1>2 DEF Behind
  <2> QED BY <1>1, <2>1, <2>2 DEF Sure
<1>6. \A i, n : Leads(call, i, n)' <=> Leads(call, i, n)
  BY <1>1, <1>2, <1>3 DEF Leads
<1>7. Promised(call) => Promised(call)'
  BY <1>1, <1>5, <1>6 DEF Promised, InHand, Due, UnitFits
<1>8. (RowsFit(call)' <=> RowsFit(call)) /\ (InOrder(call)' <=> InOrder(call))
  BY <1>1, <1>2 DEF RowsFit, RowsOf, InOrder
<1>9. \A item : Mine(item)' <=> Mine(item)
  BY <1>1, <1>2 DEF Mine, Key, Scoped
<1>10. Windowed(call)'
  <2>1. now \in Nat /\ call.until \in Nat
    BY TypedFacts, CallTyped, CollectorNumbers
  <2> QED BY <1>1, <2>1 DEF Promise, Windowed
<1>11. OnTheWay(call)' /\ Answered(call)' /\ Sound(call)'
  BY <1>1, <1>5, <1>7, <1>8, <1>9 DEF Promise, OnTheWay, Answered, Sound
<1>12. RowsMine' /\ OkIsStored'
  BY <1>1, <1>2, <1>9 DEF Promise, RowsMine, OkIsStored
<1> QED BY <1>10, <1>11, <1>12 DEF Promise

LEMMA ServiceStays ==
  ASSUME Typed, Promise, Tick \/ \E n \in Things : Delete(n) \/ Summarize(n)
  PROVE  Promise'
<1>1. now \in Nat /\ BoxesStay
  BY TypedFacts, CollectorNumbers DEF Promise
<1>2. CASE Tick
  <2>1. kind' = kind /\ gone' = gone /\ now' = now + 1 /\ UNCHANGED <<table, call>>
    BY <1>2 DEF Tick
  <2>2. BoxesStay' /\ now' >= now /\ now' \in Nat /\ gone \subseteq gone'
    BY <1>1, <2>1 DEF BoxesStay, T
  <2> QED BY <2>1, <2>2, ServiceKeeps
<1>3. ASSUME NEW n \in Things, Delete(n) PROVE Promise'
  <2>1. kind' = kind /\ gone' = gone \cup {n} /\ now' = now /\ UNCHANGED <<table, call>> /\ T(n).form # "box"
    BY <1>3 DEF Delete
  <2>2. BoxesStay' /\ now' >= now /\ now' \in Nat /\ gone \subseteq gone'
    BY <1>1, <2>1 DEF BoxesStay, T
  <2> QED BY <2>1, <2>2, ServiceKeeps
<1>4. ASSUME NEW n \in Things, Summarize(n) PROVE Promise'
  <2>1. kind' = kind /\ gone' = gone /\ now' = now /\ UNCHANGED <<table, call>>
    BY <1>4 DEF Summarize
  <2>2. BoxesStay' /\ now' >= now /\ now' \in Nat /\ gone \subseteq gone'
    BY <1>1, <2>1 DEF BoxesStay, T
  <2> QED BY <2>1, <2>2, ServiceKeeps
<1> QED BY <1>2, <1>3, <1>4

LEMMA InitPromise == Init => Promise
<1> SUFFICES ASSUME Init PROVE Promise
  OBVIOUS
<1>1. call = NoCall /\ gone = {} /\ stored = {} /\ vouched = {}
  BY DEF Init
<1>2. call.pc = "idle" /\ call.items = <<>> /\ call.part = <<>>
  BY <1>1 DEF NoCall
<1>3. Sound(call)
  BY <1>2 DEF Sound
<1> QED BY <1>1, <1>2, <1>3 DEF Promise, Windowed, OnTheWay, Answered, BoxesStay, RowsMine, OkIsStored

LEMMA NextPromise == Typed /\ Promise /\ [Next]_vars => Promise'
<1> SUFFICES ASSUME Typed, Promise, [Next]_vars PROVE Promise'
  OBVIOUS
<1>1. CASE Begin
  BY <1>1, BeginStays
<1>2. CASE Reach
  BY <1>2, ReachStays
<1>3. CASE ListPage
  BY <1>3, ListPageStays
<1>4. CASE GetMail \/ GetMeeting
  BY <1>4, GetStays
<1>5. CASE Merge
  BY <1>5, MergeStays
<1>6. CASE RequestFails
  BY <1>6, RequestFailsStays
<1>7. CASE BreaksOff
  BY <1>7, BreaksOffStays
<1>8. CASE Finish
  BY <1>8, FinishStays
<1>9. CASE Persist
  BY <1>9, PersistStays
<1>10. CASE Tick \/ \E n \in Things : Delete(n) \/ Summarize(n)
  BY <1>10, ServiceStays
<1>11. CASE UNCHANGED vars
  <2>1. UNCHANGED <<service, table>> /\ call' = call
    BY <1>11 DEF vars, service, table
  <2>2. PICK d : d = call' /\ Stays(d)
    BY <2>1 DEF Promise, Stays
  <2> QED BY <2>1, <2>2, CallKeeps
<1> QED BY <1>1, <1>2, <1>3, <1>4, <1>5, <1>6, <1>7, <1>8, <1>9, <1>10, <1>11 DEF Next, Collect

\* When a collection says "ok" and the runner moves the watermark past its window, all
\* that the listings of the window lead to is stored, each thing in a row of its own:
\* through paging, requests that fail, things deleted meanwhile and ids that two chats
\* share.  What Slack or Zoom has behind MAX_PAGES pages of a listing is the only part
\* of a window that an "ok" does not speak of.
THEOREM OkStoresEverything == Spec => []OkIsStored
<1>1. Promise => OkIsStored
  BY DEF Promise
<1> QED BY <1>1, InitTyped, NextTyped, InitPromise, NextPromise, PTL DEF Spec
=============================================================================

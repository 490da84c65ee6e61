-------------------------- MODULE JobBoardsProofs --------------------------
(* Theorems about JobBoards, for every set of sites, companies, threads and  *)
(* postings and every bound its assumptions allow.                           *)
EXTENDS JobBoards, FiniteSetTheorems, SequenceTheorems, WellFoundedInduction, TLAPS

-----------------------------------------------------------------------------
(* Row numbers in their order. *)

LEMMA RankBound ==
  ASSUME NEW S \in SUBSET Int, IsFiniteSet(S), NEW n \in S
  PROVE  Rank(S, n) \in 1..Cardinality(S)
<1> DEFINE below == {m \in S : m <= n}
<1>1. below \in SUBSET S /\ n \in below
  OBVIOUS
<1>2. IsFiniteSet(below) /\ Cardinality(below) <= Cardinality(S)
  BY <1>1, FS_Subset
<1>3. Cardinality({n}) = 1 /\ {n} \in SUBSET below
  BY <1>1, FS_Singleton
<1>4. Cardinality({n}) <= Cardinality(below)
  BY <1>2, <1>3, FS_Subset
<1>5. Cardinality(below) \in Nat /\ Cardinality(S) \in Nat
  BY <1>2, FS_CardinalityType
<1> HIDE DEF below
<1>6. Cardinality(below) \in 1..Cardinality(S)
  BY <1>2, <1>3, <1>4, <1>5
<1> QED
  BY <1>6 DEF Rank, below

LEMMA RankStrict ==
  ASSUME NEW S \in SUBSET Int, IsFiniteSet(S), NEW m \in S, NEW n \in S, m < n
  PROVE  Rank(S, m) < Rank(S, n)
<1> DEFINE lower == {k \in S : k <= m}
           upper == {k \in S : k <= n}
<1>1. /\ upper \in SUBSET S /\ n \in upper
      /\ lower \in SUBSET upper /\ n \notin lower
  <2>1. m \in Int /\ n \in Int /\ ~(n <= m) /\ \A k \in S : k \in Int /\ (k <= m => k <= n)
    OBVIOUS
  <2>2. upper \in SUBSET S /\ n \in upper
    BY <2>1
  <2>3. lower \in SUBSET upper
    BY <2>1
  <2>4. n \notin lower
    BY <2>1
  <2> QED
    BY <2>2, <2>3, <2>4
<1>2. IsFiniteSet(upper)
  BY <1>1, FS_Subset
<1>3. IsFiniteSet(lower) /\ Cardinality(lower) < Cardinality(upper)
  <2>1. IsFiniteSet(lower) /\ Cardinality(lower) <= Cardinality(upper)
    BY <1>1, <1>2, FS_Subset
  <2>2. Cardinality(lower) = Cardinality(upper) => lower = upper
    BY <1>1, <1>2, FS_Subset
  <2>3. lower # upper
    BY <1>1
  <2>4. Cardinality(lower) \in Nat /\ Cardinality(upper) \in Nat
    BY <1>2, <2>1, FS_CardinalityType
  <2> QED
    BY <2>1, <2>2, <2>3, <2>4
<1> QED
  BY <1>3 DEF Rank

\* Every place of Rows(S) is taken by a member of S.
LEMMA RowsTyped ==
  ASSUME NEW S \in SUBSET Int, IsFiniteSet(S)
  PROVE  /\ Cardinality(S) \in Nat
         /\ Rows(S) \in Seq(S)
         /\ Len(Rows(S)) = Cardinality(S)
         /\ DOMAIN Rows(S) = 1..Cardinality(S)
<1> DEFINE n == Cardinality(S)
           f == [x \in S |-> Rank(S, x)]
<1>1. n \in Nat
  BY FS_CardinalityType
<1>2. f \in [S -> 1..n]
  BY RankBound
<1>3. \A a, b \in S : f[a] = f[b] => a = b
  <2>1. SUFFICES ASSUME NEW a \in S, NEW b \in S, a # b
                 PROVE  f[a] # f[b]
    OBVIOUS
  <2>2. f[a] = Rank(S, a) /\ f[b] = Rank(S, b) /\ f[a] \in Int /\ f[b] \in Int
    BY <1>1, <1>2
  <2>3. CASE a < b
    BY <2>2, <2>3, RankStrict
  <2>4. CASE b < a
    BY <2>2, <2>4, RankStrict
  <2> QED
    BY <2>1, <2>3, <2>4
<1>4. f \in Injection(S, 1..n)
  BY <1>2, <1>3 DEF Injection, IsInjective
<1>5. IsFiniteSet(1..n) /\ Cardinality(1..n) = n
  BY <1>1, FS_Interval
<1>6. f \in Surjection(S, 1..n)
  BY <1>4, <1>5, FS_Injection
<1>7. \A i \in 1..n : \E x \in S : Rank(S, x) = i
  BY <1>6 DEF Surjection
<1>8. \A i \in 1..n : (CHOOSE x \in S : Rank(S, x) = i) \in S
  BY <1>7
<1>9. Rows(S) \in [1..n -> S]
  BY <1>8 DEF Rows
<1> HIDE DEF n
<1>10. Rows(S) \in Seq(S) /\ Len(Rows(S)) = n /\ DOMAIN Rows(S) = 1..n
  BY <1>1, <1>9
<1> QED
  BY <1>1, <1>10 DEF n

LEMMA OnlyTyped ==
  ASSUME NEW V, NEW s \in Seq(V), NEW S \in SUBSET DOMAIN s
  PROVE  /\ Only(s, S) \in Seq(V)
         /\ \A i \in DOMAIN Only(s, S) : \E k \in S : Only(s, S)[i] = s[k]
<1>1. S \in SUBSET Int /\ IsFiniteSet(S)
  <2>1. Len(s) \in Nat /\ DOMAIN s = 1..Len(s)
    BY LenProperties
  <2>2. IsFiniteSet(1..Len(s))
    BY <2>1, FS_Interval
  <2> QED
    BY <2>1, <2>2, FS_Subset
<1> DEFINE n == Cardinality(S)
<1>2. n \in Nat /\ Rows(S) \in Seq(S) /\ DOMAIN Rows(S) = 1..n
  BY <1>1, RowsTyped
<1>3. \A i \in 1..n : Rows(S)[i] \in S
  BY <1>2, ElementOfSeq
<1>4. \A k \in S : s[k] \in V
  BY ElementOfSeq
<1> HIDE DEF n
<1>5. Only(s, S) = [i \in 1..n |-> s[Rows(S)[i]]]
  BY DEF Only, n
<1>6. Only(s, S) \in [1..n -> V]
  BY <1>3, <1>4, <1>5
<1>7. Only(s, S) \in Seq(V) /\ DOMAIN Only(s, S) = 1..n
  BY <1>2, <1>6
<1> QED
  BY <1>3, <1>5, <1>7

-----------------------------------------------------------------------------
(* The resolver. *)

LEMMA MissFound == Miss \in Found
BY DEF Found

LEMMA LessOnNat == ASSUME NEW T \in SUBSET Nat, T # {}
  PROVE \E x \in T : \A y \in T : ~(y < x)
<1>1. IsWellFoundedOn(OpToRel(<, Nat), Nat)
  BY NatLessThanWellFounded
<1>2. \E x \in T : \A y \in T : ~(<<y, x>> \in OpToRel(<, Nat))
  BY <1>1, WFMin, Zenon
<1> QED
  BY <1>2 DEF OpToRel

LEMMA RegistrySure ==
  ASSUME NEW s \in Sites
  PROVE  /\ Adapter(s).sure \in Sure
         /\ Adapter(s).slug => \E k \in DOMAIN SlugOrder : SlugOrder[k] = Kind[s]
<1>1. Kind[s] \in {"greenhouse", "lever", "ashby", "workable", "workday", "smartrecruiters",
                   "rippling", "bamboohr", "recruitee", "personio", "jsonld"}
  BY EverySiteHasAnAdapter DEF Registry
<1>2. \E k \in DOMAIN SlugOrder :
        SlugOrder[k] = Kind[s] \/ Kind[s] \in {"workday", "bamboohr", "recruitee", "personio", "jsonld"}
  <2>1. DOMAIN SlugOrder = 1..6
    BY DEF SlugOrder
  <2>2. CASE Kind[s] = "greenhouse"
    BY <2>1, <2>2 DEF SlugOrder
  <2>3. CASE Kind[s] = "lever"
    BY <2>1, <2>3 DEF SlugOrder
  <2>4. CASE Kind[s] = "ashby"
    BY <2>1, <2>4 DEF SlugOrder
  <2>5. CASE Kind[s] = "workable"
    BY <2>1, <2>5 DEF SlugOrder
  <2>6. CASE Kind[s] = "smartrecruiters"
    BY <2>1, <2>6 DEF SlugOrder
  <2>7. CASE Kind[s] = "rippling"
    BY <2>1, <2>7 DEF SlugOrder
  <2>8. CASE Kind[s] \in {"workday", "bamboohr", "recruitee", "personio", "jsonld"}
    BY <2>1, <2>8
  <2> QED
    BY <1>1, <2>2, <2>3, <2>4, <2>5, <2>6, <2>7, <2>8
<1>3. Kind[s] \in {"workday", "bamboohr", "recruitee", "personio", "jsonld"} => Adapter(s).slug = FALSE
  BY DEF Adapter, Registry, Workday, BambooHR, Recruitee, Personio, JsonLd
<1>4. Adapter(s).sure \in {100, 60}
  <2>1. Adapter(s) \in {Registry[k] : k \in DOMAIN Registry}
    BY EverySiteHasAnAdapter DEF Adapter
  <2>2. \A k \in DOMAIN Registry : Registry[k] \in {Greenhouse, Lever, Ashby, Workable, Workday,
            SmartRecruiters, Rippling, BambooHR, Recruitee, Personio, JsonLd}
    <3>1. DOMAIN Registry = {"greenhouse", "lever", "ashby", "workable", "workday",
            "smartrecruiters", "rippling", "bamboohr", "recruitee", "personio", "jsonld"}
      BY DEF Registry
    <3>2. /\ Registry.greenhouse = Greenhouse /\ Registry.lever = Lever
          /\ Registry.ashby = Ashby /\ Registry.workable = Workable
          /\ Registry.workday = Workday /\ Registry.smartrecruiters = SmartRecruiters
          /\ Registry.rippling = Rippling /\ Registry.bamboohr = BambooHR
          /\ Registry.recruitee = Recruitee /\ Registry.personio = Personio
          /\ Registry.jsonld = JsonLd
      BY DEF Registry
    <3> QED
      BY <3>1, <3>2
  <2>3. \A a \in {Greenhouse, Lever, Ashby, Workable, Workday, SmartRecruiters, Rippling,
                  BambooHR, Recruitee, Personio, JsonLd} : a.sure \in {100, 60}
    BY DEF Greenhouse, Lever, Ashby, Workable, Workday, SmartRecruiters, Rippling, BambooHR,
           Recruitee, Personio, JsonLd
  <2> QED
    BY <2>1, <2>2, <2>3
<1> QED
  BY <1>2, <1>3, <1>4 DEF Sure

LEMMA PlaceTyped ==
  ASSUME NEW n \in Nat \ {0}, NEW s \in Sites, Adapter(s).slug
  PROVE  Place(n, s) \in Nat
<1>1. \E k \in DOMAIN SlugOrder : SlugOrder[k] = Kind[s]
  BY RegistrySure
<1> DEFINE k == CHOOSE k \in DOMAIN SlugOrder : SlugOrder[k] = Kind[s]
<1>2. k \in DOMAIN SlugOrder
  BY <1>1
<1>3. DOMAIN SlugOrder = 1..6 /\ Len(SlugOrder) = 6
  BY DEF SlugOrder
<1>4. Place(n, s) = (n - 1) * 6 + k
  BY <1>3 DEF Place
<1> HIDE DEF k
<1>5. (n - 1) * 6 + k \in Nat
  BY <1>2, <1>3
<1> QED
  BY <1>4, <1>5

\* The first accepted guess exists, and is a board.
LEMMA SlugHitTyped ==
  ASSUME NEW c, Describes(c), NEW reply, NEW shown
  PROVE  SlugHit(c, reply, shown) \in Found
<1> DEFINE guesses == {g \in (DOMAIN c.slugs) \X Sites : g[2] \in c.slugs[g[1]] /\ Adapter(g[2]).slug}
           hits == {g \in guesses : /\ Place(g[1], g[2]) <= MAX_SLUG_PROBES
                                    /\ Accepted(c, g[2], reply, shown)}
           IsFirst(g) == \A h \in hits : Place(g[1], g[2]) <= Place(h[1], h[2])
           first == CHOOSE g \in hits : IsFirst(g)
           places == {Place(g[1], g[2]) : g \in hits}
<1>1. DOMAIN c.slugs \subseteq Nat \ {0}
  BY LenProperties DEF Describes
<1>2. \A g \in hits : g[2] \in Sites /\ Place(g[1], g[2]) \in Nat
  BY <1>1, PlaceTyped
<1>3. CASE hits = {}
  BY <1>3, MissFound DEF SlugHit
<1>4. CASE hits # {}
  <2>1. places \in SUBSET Nat /\ places # {}
    BY <1>2, <1>4
  <2>2. PICK least \in places : \A y \in places : ~(y < least)
    BY <2>1, LessOnNat
  <2>3. PICK g \in hits : Place(g[1], g[2]) = least
    BY <2>2
  <2>4. \A h \in hits : Place(h[1], h[2]) \in places
    OBVIOUS
  <2> HIDE DEF places, hits
  <2>5. IsFirst(g)
    BY <1>2, <2>2, <2>3, <2>4
  <2>6. first \in hits
    BY <2>3, <2>5
  <2>7. first[2] \in Sites
    BY <1>2, <2>6
  <2>8. SlugHit(c, reply, shown) =
          [site |-> first[2], by |-> "slug_probe", sure |-> IF Adapter(first[2]).named THEN 90 ELSE 70]
    BY <1>4 DEF SlugHit, hits
  <2> HIDE DEF first
  <2> QED
    BY <2>7, <2>8 DEF Found, Provenance, Sure
<1> QED
  BY <1>3, <1>4

LEMMA LadderTyped ==
  ASSUME NEW c, Describes(c), NEW reply, NEW shown
  PROVE  Ladder(c, reply, shown) \in Found
<1>1. SlugHit(c, reply, shown) \in Found
  BY SlugHitTyped
<1>2. Fingerprint(c) \in Found
  BY MissFound DEF Fingerprint, Describes, Found, Provenance, Sure
<1>3. JsonLdHit(c, reply, shown) \in Found
  <2>1. CASE c.careers \in Sites
    BY <2>1, MissFound, RegistrySure DEF JsonLdHit, Found, Provenance
  <2>2. CASE c.careers = None
    BY <2>2, MissFound DEF JsonLdHit
  <2> QED
    BY <2>1, <2>2 DEF Describes
<1> DEFINE steps == <<SlugHit(c, reply, shown), Fingerprint(c), JsonLdHit(c, reply, shown)>>
           hits == {k \in DOMAIN steps : steps[k] # Miss}
           first == CHOOSE k \in hits : \A j \in hits : k <= j
<1>4. DOMAIN steps = 1..3 /\ \A k \in 1..3 : steps[k] \in Found
  BY <1>1, <1>2, <1>3
<1>5. hits # {} => \E k \in hits : \A j \in hits : k <= j
  <2>1. hits \in SUBSET {1, 2, 3}
    BY <1>4
  <2> HIDE DEF hits
  <2>2. CASE 1 \in hits
    BY <2>1, <2>2
  <2>3. CASE 1 \notin hits /\ 2 \in hits
    BY <2>1, <2>3
  <2>4. CASE 1 \notin hits /\ 2 \notin hits
    <3>1. hits = {} \/ hits = {3}
      BY <2>1, <2>4
    <3> QED
      BY <3>1
  <2> QED
    BY <2>2, <2>3, <2>4
<1>6. hits # {} => first \in hits
  BY <1>5
<1>7. Ladder(c, reply, shown) = IF hits = {} THEN Miss ELSE steps[first]
  BY DEF Ladder
<1>8. hits # {} => first \in 1..3
  BY <1>4, <1>6
<1> HIDE DEF hits, steps, first
<1> QED
  BY <1>4, <1>7, <1>8, MissFound

LEMMA LowestTyped ==
  ASSUME NEW S, NEW x \in S, NEW y \in S, NEW z \in S, S = {x, y, z}, S \subseteq Int
  PROVE  Lowest(S) \in S /\ \A m \in S : Lowest(S) <= m
<1>1. \E m \in S : \A n \in S : m <= n
  OBVIOUS
<1> QED
  BY <1>1 DEF Lowest

\* What the model says counts for no more than the ceiling.
LEMMA ResearchedTyped ==
  ASSUME NEW c, Describes(c), NEW answered, NEW reply, NEW shown
  PROVE  Researched(c, answered, reply, shown) \in Found
<1> DEFINE claim == Claimed(c, answered)
<1>1. claim \in {None} \cup [site : Sites, url : BOOLEAN, sure : Int]
  BY DEF Claimed, Describes
<1> HIDE DEF claim
<1>2. Researched(c, answered, reply, shown) = Verified(claim, reply, shown)
  BY DEF Researched, claim
<1>3. CASE claim = None
  BY <1>2, <1>3, MissFound DEF Verified
<1>4. CASE claim # None
  <2>1. claim.site \in Sites /\ claim.sure \in Int /\ LLM_CAP \in Int /\ LLM_CAP <= 100
    BY <1>1, <1>4, AtsNumbers
  <2>2. Lowest({claim.sure, LLM_CAP}) \in Sure
    <3>1. {claim.sure, LLM_CAP} = {claim.sure, LLM_CAP, LLM_CAP}
      OBVIOUS
    <3>2. Lowest({claim.sure, LLM_CAP}) \in {claim.sure, LLM_CAP} /\ Lowest({claim.sure, LLM_CAP}) <= LLM_CAP
      BY <2>1, <3>1, LowestTyped
    <3> QED
      BY <2>1, <3>2 DEF Sure
  <2>3. Lowest({claim.sure, Adapter(claim.site).sure, LLM_CAP}) \in Sure
    <3> DEFINE own == Adapter(claim.site).sure
    <3>1. own \in Int
      BY <2>1, RegistrySure DEF Sure
    <3> HIDE DEF own
    <3>2. Lowest({claim.sure, own, LLM_CAP}) \in {claim.sure, own, LLM_CAP}
          /\ Lowest({claim.sure, own, LLM_CAP}) <= LLM_CAP
      BY <2>1, <3>1, LowestTyped
    <3> QED
      BY <2>1, <3>1, <3>2 DEF Sure, own
  <2>4. \A sure \in Sure : [site |-> claim.site, by |-> "llm", sure |-> sure] \in Found
    BY <2>1 DEF Found, Provenance
  <2>5. \/ Verified(claim, reply, shown) = [site |-> claim.site, by |-> "llm",
                                            sure |-> Lowest({claim.sure, LLM_CAP})]
        \/ Verified(claim, reply, shown) =
             [site |-> claim.site, by |-> "llm",
              sure |-> Lowest({claim.sure, Adapter(claim.site).sure, LLM_CAP})]
        \/ Verified(claim, reply, shown) = Miss
    <3>1. CASE claim.url
      BY <1>4, <3>1 DEF Verified
    <3>2. CASE ~claim.url
      BY <1>4, <3>2 DEF Verified
    <3> QED
      BY <3>1, <3>2
  <2> QED
    BY <1>2, <2>2, <2>3, <2>4, <2>5, MissFound
<1> QED
  BY <1>3, <1>4

-----------------------------------------------------------------------------
(* The inductive invariant. *)

\* What a thread holds is still in the tables, and it looks at a listing that was
\* answered.
Fits(j) ==
  /\ j.pc \in {"resolve", "insert"} => \A i \in DOMAIN j.todo : j.todo[i] \in DOMAIN company
  /\ j.pc \in {"poll", "list", "upsert", "commit"} =>
       \A i \in DOMAIN j.todo : j.todo[i] \in DOMAIN board
  /\ j.pc \in {"insert", "list", "upsert", "commit"} => j.todo # <<>>
  /\ j.pc = "insert" => j.found # Miss
  /\ j.pc = "list" => j.site \in Sites
  /\ j.pc \in {"upsert", "commit"} => j.heard \in {"listing", "refusal"}
  /\ j.pc = "commit" => Len(j.snap) <= Len(posting)

\* missed_polls never runs ahead of the answered polls in a row that lacked the
\* posting, in a row (or in what a poll counts of it) that no poll wrote over.
Sane(row) ==
  ~row.raced => /\ row.missed <= row.absences + row.refusals
                /\ (row.closed => row.absences + row.refusals >= MISSED_TO_CLOSE)

Counted == \A k \in DOMAIN posting : Sane(posting[k])

IInv == TypeOK /\ Counted /\ \A t \in Threads : Fits(job[t])

\* No row is ever taken out of a table.
Grows ==
  /\ DOMAIN company \subseteq DOMAIN company'
  /\ DOMAIN board \subseteq DOMAIN board'
  /\ Len(posting) <= Len(posting')

LEMMA FitsKept ==
  ASSUME TypeOK, TypeOK', Grows, NEW j \in Job, Fits(j)
  PROVE  Fits(j)'
<1>1. ASSUME j.pc = "commit"
      PROVE  Len(j.snap) <= Len(posting')
  <2>1. j.snap \in Seq(PostingRow) /\ posting \in Seq(PostingRow) /\ posting' \in Seq(PostingRow)
    BY DEF Job, TypeOK
  <2>2. Len(j.snap) \in Nat /\ Len(posting) \in Nat /\ Len(posting') \in Nat
    BY <2>1, LenProperties
  <2> QED
    BY <1>1, <2>2 DEF Fits, Grows
<1> QED
  BY <1>1 DEF Fits, Grows

LEMMA JobTyped ==
  ASSUME NEW j \in Job
  PROVE  /\ j.of \in Nat /\ j.todo \in Seq(Nat) /\ j.llm \in 0..MAX_LLM /\ j.found \in Found
         /\ j.site \in Sites \cup {None} /\ j.pages \in Nat /\ j.got \in Seq(Ids)
         /\ j.heard \in {"nothing", "listing", "refusal"} /\ j.snap \in Seq(PostingRow)
BY DEF Job

LEMMA IdleTyped == Idle \in Job /\ Fits(Idle)
<1>1. <<>> \in Seq(Nat) /\ <<>> \in Seq(Ids) /\ <<>> \in Seq(PostingRow)
  BY EmptySeq
<1>2. 0 \in 0..MAX_LLM
  BY JobNumbers
<1> QED
  BY <1>1, <1>2, MissFound DEF Idle, Job, Fits

LEMMA TodoTail ==
  ASSUME NEW s \in Seq(Nat), s # <<>>
  PROVE  /\ Tail(s) \in Seq(Nat) /\ Head(s) \in Nat /\ 1 \in DOMAIN s /\ Head(s) = s[1]
         /\ \A S : (\A i \in DOMAIN s : s[i] \in S) => \A i \in DOMAIN Tail(s) : Tail(s)[i] \in S
<1>1. /\ Head(s) \in Nat /\ Tail(s) \in Seq(Nat) /\ Len(Tail(s)) = Len(s) - 1
      /\ \A i \in 1..Len(Tail(s)) : Tail(s)[i] = s[i + 1]
  BY HeadTailProperties
<1>2. Len(s) \in Nat /\ DOMAIN s = 1..Len(s) /\ DOMAIN Tail(s) = 1..Len(Tail(s)) /\ Len(s) # 0
  BY <1>1, LenProperties, EmptySeq
<1>3. \A i \in DOMAIN Tail(s) : i + 1 \in DOMAIN s /\ Tail(s)[i] = s[i + 1]
  BY <1>1, <1>2
<1>4. 1 \in DOMAIN s
  BY <1>2
<1>5. Head(s) = s[1]
  OBVIOUS
<1> QED
  BY <1>1, <1>3, <1>4, <1>5

-----------------------------------------------------------------------------
(* The steps of a thread, as they change what it is doing. *)

Started(pc, of, todo) == [Idle EXCEPT !.pc = pc, !.of = of, !.todo = todo]
Paid(j, n)            == [j EXCEPT !.llm = n]
Placed(j, hit)        == [j EXCEPT !.found = hit, !.pc = "insert"]
Queued(j, pc, todo)   == [j EXCEPT !.pc = pc, !.todo = todo]
AtList(j, s)          == [j EXCEPT !.pc = "list", !.site = s]
Refusal(j)            == [j EXCEPT !.pc = "upsert", !.heard = "refusal"]
Paged(j, got, pages)  == [j EXCEPT !.got = got, !.pages = pages, !.heard = "listing"]
Drained(j)            == [j EXCEPT !.pc = "upsert"]
Read(j, rows)         == [j EXCEPT !.pc = "commit", !.snap = rows]

LEMMA Starting ==
  ASSUME NEW pc \in {"resolve", "poll"}, NEW of \in Nat, NEW todo \in Seq(Nat)
  PROVE  Started(pc, of, todo) \in Job /\ Started(pc, of, todo).pc = pc /\ Started(pc, of, todo).todo = todo
BY IdleTyped DEF Job, Idle, Started

LEMMA Paying ==
  ASSUME NEW j \in Job, NEW n \in 0..MAX_LLM
  PROVE  Paid(j, n) \in Job /\ Paid(j, n).pc = j.pc /\ Paid(j, n).todo = j.todo
BY DEF Job, Paid

LEMMA Popping ==
  ASSUME NEW j \in Job, j.todo # <<>>
  PROVE  /\ Popped(j) \in Job /\ Popped(j).pc = j.pc /\ Popped(j).todo = Tail(j.todo)
         /\ [Popped(j) EXCEPT !.pc = "resolve"] \in Job
         /\ [Popped(j) EXCEPT !.pc = "resolve"].pc = "resolve"
         /\ [Popped(j) EXCEPT !.pc = "resolve"].todo = Tail(j.todo)
<1> DEFINE rest == Tail(j.todo)
<1>1. rest \in Seq(Nat)
  BY JobTyped, TodoTail
<1>2. Popped(j) = [j EXCEPT !.todo = rest, !.found = Miss]
  BY DEF Popped
<1> HIDE DEF rest
<1>3. /\ Popped(j) \in Job /\ Popped(j).pc = j.pc /\ Popped(j).todo = rest
      /\ [Popped(j) EXCEPT !.pc = "resolve"] \in Job
      /\ [Popped(j) EXCEPT !.pc = "resolve"].pc = "resolve"
      /\ [Popped(j) EXCEPT !.pc = "resolve"].todo = rest
  BY <1>1, <1>2, MissFound DEF Job
<1> QED
  BY <1>3 DEF rest

LEMMA Placing ==
  ASSUME NEW j \in Job, NEW hit \in Found
  PROVE  /\ Placed(j, hit) \in Job /\ Placed(j, hit).pc = "insert"
         /\ Placed(j, hit).todo = j.todo /\ Placed(j, hit).found = hit
BY DEF Job, Placed

LEMMA Queueing ==
  ASSUME NEW j \in Job, NEW pc \in {"poll", "batch"}, NEW todo \in Seq(Nat)
  PROVE  Queued(j, pc, todo) \in Job /\ Queued(j, pc, todo).pc = pc /\ Queued(j, pc, todo).todo = todo
BY DEF Job, Queued

LEMMA Listing ==
  ASSUME NEW j \in Job, NEW s \in Sites
  PROVE  /\ AtList(j, s) \in Job /\ AtList(j, s).pc = "list"
         /\ AtList(j, s).todo = j.todo /\ AtList(j, s).site = s
BY DEF Job, AtList

LEMMA Leaving ==
  ASSUME NEW j \in Job, j.todo # <<>>
  PROVE  NextBoard(j) \in Job /\ NextBoard(j).pc = "poll" /\ NextBoard(j).todo = Tail(j.todo)
<1>1. PICK rest \in Seq(Nat) : rest = Tail(j.todo)
  BY JobTyped, TodoTail
<1>2. PICK got \in Seq(Ids) : got = <<>>
  BY EmptySeq
<1>3. PICK rows \in Seq(PostingRow) : rows = <<>>
  BY EmptySeq
<1>4. NextBoard(j) = [j EXCEPT !.pc = "poll", !.todo = rest, !.site = None,
                               !.pages = 0, !.got = got, !.heard = "nothing", !.snap = rows]
  BY <1>1, <1>2, <1>3 DEF NextBoard
<1>5. NextBoard(j) \in Job /\ NextBoard(j).pc = "poll" /\ NextBoard(j).todo = rest
  <2>1. PICK r : r = NextBoard(j)
    OBVIOUS
  <2>2. r = [pc |-> "poll", of |-> j.of, todo |-> rest, llm |-> j.llm, found |-> j.found,
             site |-> None, pages |-> 0, got |-> got, heard |-> "nothing", snap |-> rows]
    BY <1>4, <2>1 DEF Job
  <2>3. r \in Job /\ r.pc = "poll" /\ r.todo = rest
    BY <2>2, JobTyped DEF Job
  <2> QED
    BY <2>1, <2>3
<1> QED
  BY <1>1, <1>5

LEMMA Refusing ==
  ASSUME NEW j \in Job
  PROVE  /\ Refusal(j) \in Job /\ Refusal(j).pc = "upsert"
         /\ Refusal(j).todo = j.todo /\ Refusal(j).heard = "refusal"
BY DEF Job, Refusal

LEMMA Paging ==
  ASSUME NEW j \in Job, NEW got \in Seq(Ids), NEW pages \in Nat
  PROVE  /\ Paged(j, got, pages) \in Job /\ Paged(j, got, pages).pc = j.pc
         /\ Paged(j, got, pages).todo = j.todo /\ Paged(j, got, pages).site = j.site
         /\ Paged(j, got, pages).heard = "listing"
BY DEF Job, Paged

LEMMA Draining ==
  ASSUME NEW j \in Job
  PROVE  /\ Drained(j) \in Job /\ Drained(j).pc = "upsert"
         /\ Drained(j).todo = j.todo /\ Drained(j).heard = j.heard
BY DEF Job, Drained

LEMMA Reading ==
  ASSUME NEW j \in Job, NEW rows \in Seq(PostingRow)
  PROVE  /\ Read(j, rows) \in Job /\ Read(j, rows).pc = "commit" /\ Read(j, rows).todo = j.todo
         /\ Read(j, rows).heard = j.heard /\ Read(j, rows).snap = rows
BY DEF Job, Read

LEMMA Scoring ==
  [Idle EXCEPT !.pc = "score"] \in Job /\ [Idle EXCEPT !.pc = "score"].pc = "score"
BY IdleTyped DEF Job, Idle

\* A step of one thread: the others only see the tables grow.
LEMMA ThreadStep ==
  ASSUME IInv, TypeOK', Counted', Grows,
         NEW t \in Threads, NEW j \in Job, job' = [job EXCEPT ![t] = j], Fits(j)
  PROVE  IInv'
<1>1. ASSUME NEW u \in Threads
      PROVE  Fits(job[u])'
  <2>1. TypeOK /\ job \in [Threads -> Job]
    BY DEF IInv, TypeOK
  <2>2. CASE u = t
    <3>1. job'[u] = j
      BY <2>1, <2>2
    <3>2. Fits(j)'
      BY <2>1, FitsKept
    <3> QED
      BY <3>1, <3>2 DEF Fits
  <2>3. CASE u # t
    <3>1. PICK r \in Job : r = job[u] /\ r = job'[u]
      BY <2>1, <2>3
    <3>2. Fits(r)
      BY <3>1 DEF IInv
    <3>3. Fits(r)'
      BY <2>1, <3>2, FitsKept
    <3> QED
      BY <3>1, <3>3 DEF Fits
  <2> QED
    BY <2>2, <2>3
<1> QED
  BY <1>1 DEF IInv

\* A step of nobody's.
LEMMA WorldStep ==
  ASSUME IInv, TypeOK', Counted', Grows, job' = job
  PROVE  IInv'
<1>1. ASSUME NEW u \in Threads
      PROVE  Fits(job[u])'
  <2>1. TypeOK /\ job \in [Threads -> Job]
    BY DEF IInv, TypeOK
  <2>2. PICK r \in Job : r = job[u] /\ r = job'[u]
    BY <2>1
  <2>3. Fits(r)'
    BY <2>1, <2>2, FitsKept DEF IInv
  <2> QED
    BY <2>2, <2>3 DEF Fits
<1> QED
  BY <1>1 DEF IInv

LEMMA SameTables ==
  ASSUME IInv, UNCHANGED posting, DOMAIN company \subseteq DOMAIN company',
         DOMAIN board \subseteq DOMAIN board'
  PROVE  Counted' /\ Grows
<1>1. Len(posting) \in Nat
  BY LenProperties DEF IInv, TypeOK
<1>2. posting' = posting
  OBVIOUS
<1>3. Grows
  BY <1>1, <1>2 DEF Grows
<1>4. Counted'
  BY <1>2 DEF IInv, Counted, Sane
<1> QED
  BY <1>3, <1>4

-----------------------------------------------------------------------------
(* The outside world and the forms. *)

LEMMA InitInv == Init => IInv
<1> SUFFICES ASSUME Init
             PROVE  IInv
  OBVIOUS
<1>1. ops \in 0..MaxOps /\ faults \in 0..MaxFaults
  BY JobNumbers DEF Init
<1>2. board \in Seq(BoardRow) /\ posting \in Seq(PostingRow)
  BY EmptySeq DEF Init
<1>3. job \in [Threads -> Job]
  BY IdleTyped DEF Init
<1>4. form \in [Forms -> Seq(Entries \X BOOLEAN)]
  BY EmptySeq DEF Init
<1>5. listed \in [Sites -> Seq(Ids)] /\ gone \subseteq Sites /\ company \in Seq(Entries)
  BY JobWorld DEF Init
<1>6. TypeOK
  BY <1>1, <1>2, <1>3, <1>4, <1>5 DEF TypeOK
<1>7. posting = <<>>
  BY DEF Init
<1>8. Counted
  BY <1>7 DEF Counted
<1>9. \A t \in Threads : job[t] = Idle
  BY DEF Init
<1> QED
  BY <1>6, <1>8, <1>9, IdleTyped DEF IInv

LEMMA OperatedTyped == ASSUME TypeOK, Operated PROVE ops' \in 0..MaxOps /\ faults' \in 0..MaxFaults
BY JobNumbers DEF TypeOK, Operated

LEMMA FaultedTyped == ASSUME TypeOK, Faulted PROVE faults' \in 0..MaxFaults
BY JobNumbers DEF TypeOK, Faulted

LEMMA PublishInv ==
  ASSUME IInv, NEW s \in Sites, NEW i \in Ids, Publish(s, i)
  PROVE  IInv'
<1>1. TypeOK /\ ops' \in 0..MaxOps /\ faults' \in 0..MaxFaults
  BY OperatedTyped DEF IInv, Publish
<1> DEFINE now == <<i>> \o listed[s]
<1>2. now \in Seq(Ids)
  BY <1>1, ConcatProperties DEF TypeOK
<1>3. listed' = [listed EXCEPT ![s] = now]
  BY DEF Publish
<1> HIDE DEF now
<1>4. listed' \in [Sites -> Seq(Ids)]
  BY <1>1, <1>2, <1>3 DEF TypeOK
<1>5. TypeOK'
  BY <1>1, <1>4 DEF TypeOK, Publish, Tables
<1>6. Counted' /\ Grows /\ job' = job
  BY SameTables DEF Publish, Tables
<1> QED
  BY <1>5, <1>6, WorldStep

LEMMA WithdrawInv ==
  ASSUME IInv, NEW s \in Sites, NEW k, Withdraw(s, k)
  PROVE  IInv'
<1>1. TypeOK /\ ops' \in 0..MaxOps /\ faults' \in 0..MaxFaults
  BY OperatedTyped DEF IInv, Withdraw
<1> DEFINE before == SubSeq(listed[s], 1, k - 1)
           after == SubSeq(listed[s], k + 1, Len(listed[s]))
<1>2. before \in Seq(Ids) /\ after \in Seq(Ids)
  <2>1. listed[s] \in Seq(Ids) /\ k \in DOMAIN listed[s]
    BY <1>1 DEF TypeOK, Withdraw
  <2>2. k \in 1..Len(listed[s]) /\ Len(listed[s]) \in Nat
    BY <2>1, LenProperties
  <2>3. \A i \in 1..(k - 1) : i \in 1..Len(listed[s])
    BY <2>2
  <2>4. \A i \in (k + 1)..Len(listed[s]) : i \in 1..Len(listed[s])
    BY <2>2
  <2>5. before \in Seq(Ids)
    BY <2>1, <2>2, <2>3, SubSeqProperties
  <2>6. after \in Seq(Ids)
    BY <2>1, <2>2, <2>4, SubSeqProperties
  <2> QED
    BY <2>5, <2>6
<1>3. listed' = [listed EXCEPT ![s] = before \o after]
  BY DEF Withdraw
<1> HIDE DEF before, after
<1>4. before \o after \in Seq(Ids)
  BY <1>2, ConcatProperties
<1>5. listed' \in [Sites -> Seq(Ids)]
  BY <1>1, <1>3, <1>4 DEF TypeOK
<1>6. TypeOK'
  BY <1>1, <1>5 DEF TypeOK, Withdraw, Tables
<1>7. Counted' /\ Grows /\ job' = job
  BY SameTables DEF Withdraw, Tables
<1> QED
  BY <1>6, <1>7, WorldStep

LEMMA MoveInv ==
  ASSUME IInv, NEW s \in Sites, Move(s)
  PROVE  IInv'
<1>1. TypeOK /\ ops' \in 0..MaxOps /\ faults' \in 0..MaxFaults
  BY OperatedTyped DEF IInv, Move
<1>2. gone' \subseteq Sites
  BY <1>1 DEF TypeOK, Move
<1>3. TypeOK'
  BY <1>1, <1>2 DEF TypeOK, Move, Tables
<1>4. Counted' /\ Grows /\ job' = job
  BY SameTables DEF Move, Tables
<1> QED
  BY <1>3, <1>4, WorldStep

LEMMA ArrivalsTyped == Arrivals \subseteq Seq(Entries)
<1>1. \A e \in Entries : <<e>> \in Seq(Entries)
  OBVIOUS
<1>2. \A e, f \in Entries : <<e, f>> \in Seq(Entries)
  OBVIOUS
<1>3. Csv \subseteq Seq(Entries) /\ Yc \subseteq Seq(Entries) /\ Hn \subseteq Seq(Entries)
  <2>1. Csv \subseteq Seq(Entries)
    <3>1. \A x \in Csv : (\E e \in Entries : x = <<e>>) \/ \E e, f \in Entries : x = <<e, f>>
      BY DEF Csv
    <3> QED
      BY <1>1, <1>2, <3>1
  <2>2. Yc \subseteq Seq(Entries) /\ Hn \subseteq Seq(Entries)
    BY <1>1 DEF Yc, Hn
  <2> QED
    BY <2>1, <2>2
<1>4. Inbox \subseteq Seq(Entries)
  <2>1. \A e \in Entries : Bare(e) \in Entries => <<Bare(e)>> \in Seq(Entries)
    BY <1>1
  <2> QED
    BY <2>1 DEF Inbox
<1> DEFINE Of(op) == CASE op = "manual" -> {<<e>> : e \in Entries}
                       [] op = "csv"    -> Csv
                       [] op = "yc"     -> Yc
                       [] op = "hn"     -> Hn
                       [] op = "inbox"  -> Inbox
                       [] OTHER         -> {}
<1>5. \A op : Of(op) \subseteq Seq(Entries)
  BY <1>1, <1>3, <1>4
<1>6. Arrivals = UNION {Of(op) : op \in Ops}
  BY DEF Arrivals
<1> HIDE DEF Of
<1> QED
  BY <1>5, <1>6

LEMMA AddReadInv ==
  ASSUME IInv, NEW f \in Forms, NEW entries \in Arrivals, AddRead(f, entries)
  PROVE  IInv'
<1>1. TypeOK /\ ops' \in 0..MaxOps /\ faults' \in 0..MaxFaults
  BY OperatedTyped DEF IInv, AddRead
<1>2. entries \in Seq(Entries)
  BY ArrivalsTyped
<1> DEFINE Known(k) == \/ \E c \in DOMAIN company : SameCompany(entries[k], company[c])
                       \/ \E j \in 1..(k - 1) : SameCompany(entries[k], entries[j])
           read == [k \in DOMAIN entries |-> <<entries[k], Known(k)>>]
<1>3. form' = [form EXCEPT ![f] = read]
  BY DEF AddRead
<1>4. DOMAIN entries = 1..Len(entries) /\ Len(entries) \in Nat
  BY <1>2, LenProperties
<1>5. \A k : Known(k) \in BOOLEAN
  OBVIOUS
<1> HIDE DEF Known
<1>6. \A k \in DOMAIN entries : entries[k] \in Entries
  BY <1>2, ElementOfSeq
<1>7. \A k \in DOMAIN entries : <<entries[k], Known(k)>> \in Entries \X BOOLEAN
  BY <1>5, <1>6
<1>8. read \in Seq(Entries \X BOOLEAN)
  BY <1>7, <1>4
<1> HIDE DEF read
<1>9. form' \in [Forms -> Seq(Entries \X BOOLEAN)]
  BY <1>1, <1>3, <1>8 DEF TypeOK
<1>10. TypeOK'
  BY <1>1, <1>9 DEF TypeOK, AddRead, World, Tables
<1>11. Counted' /\ Grows /\ job' = job
  BY SameTables DEF AddRead, Tables
<1> QED
  BY <1>10, <1>11, WorldStep

LEMMA AddCommitInv ==
  ASSUME IInv, NEW f \in Forms, AddCommit(f)
  PROVE  IInv'
<1>1. TypeOK /\ form[f] \in Seq(Entries \X BOOLEAN)
  BY DEF IInv, TypeOK
<1> DEFINE new == Only(form[f], {k \in DOMAIN form[f] : ~form[f][k][2]})
           rows == [k \in DOMAIN new |-> new[k][1]]
<1>2. company' = company \o rows /\ form' = [form EXCEPT ![f] = <<>>]
  BY DEF AddCommit
<1>3. new \in Seq(Entries \X BOOLEAN)
  BY <1>1, OnlyTyped
<1> HIDE DEF new
<1>4. \A k \in DOMAIN new : new[k][1] \in Entries
  BY <1>3, ElementOfSeq
<1>5. DOMAIN new = 1..Len(new) /\ Len(new) \in Nat
  BY <1>3, LenProperties
<1>6. rows \in Seq(Entries)
  BY <1>4, <1>5
<1> HIDE DEF rows
<1>7. company' \in Seq(Entries) /\ DOMAIN company \subseteq DOMAIN company'
  <2>1. /\ company \o rows \in Seq(Entries)
        /\ Len(company \o rows) = Len(company) + Len(rows)
    BY <1>1, <1>6, ConcatProperties DEF TypeOK
  <2>2. Len(company) \in Nat /\ Len(rows) \in Nat /\ DOMAIN company = 1..Len(company)
    BY <1>1, <1>6, LenProperties DEF TypeOK
  <2>3. DOMAIN (company \o rows) = 1..(Len(company) + Len(rows))
    BY <2>1, LenProperties
  <2> QED
    BY <1>2, <2>1, <2>2, <2>3
<1>8. form' \in [Forms -> Seq(Entries \X BOOLEAN)]
  <2>1. <<>> \in Seq(Entries \X BOOLEAN)
    BY EmptySeq
  <2> QED
    BY <1>1, <1>2, <2>1 DEF TypeOK
<1>9. TypeOK'
  BY <1>1, <1>7, <1>8 DEF TypeOK, AddCommit, World
<1>10. Counted' /\ Grows /\ job' = job
  BY <1>7, SameTables DEF AddCommit
<1> QED
  BY <1>9, <1>10, WorldStep

-----------------------------------------------------------------------------
(* A thread, from its start to the resolved boards. *)

LEMMA RowsOf ==
  ASSUME NEW V, NEW s \in Seq(V), NEW S \in SUBSET DOMAIN s
  PROVE  /\ Rows(S) \in Seq(Nat)
         /\ \A i \in DOMAIN Rows(S) : Rows(S)[i] \in S
<1>1. Len(s) \in Nat /\ DOMAIN s = 1..Len(s)
  BY LenProperties
<1>2. IsFiniteSet(1..Len(s)) /\ S \in SUBSET (1..Len(s))
  BY <1>1, FS_Interval
<1>3. IsFiniteSet(S)
  BY <1>2, FS_Subset
<1>4. S \in SUBSET Int /\ S \in SUBSET Nat
  BY <1>1
<1>5. Rows(S) \in Seq(S)
  BY <1>3, <1>4, RowsTyped
<1>6. \A i \in DOMAIN Rows(S) : Rows(S)[i] \in S
  BY <1>5, ElementOfSeq
<1>7. Rows(S) \in Seq(Nat)
  BY <1>4, <1>5, SeqMonotonic
<1> QED
  BY <1>6, <1>7

LEMMA CronThread == Cron \in Threads
BY DEF Threads

LEMMA TickInv ==
  ASSUME IInv, Tick
  PROVE  IInv'
<1>1. TypeOK /\ Cron \in Threads
  BY CronThread DEF IInv
<1>2. PICK todo \in Seq(Nat) : todo = Rows(Pending)
  BY <1>1, RowsOf DEF TypeOK, Pending
<1>3. \A i \in DOMAIN todo : todo[i] \in DOMAIN company
  BY <1>1, <1>2, RowsOf, SMTT(30) DEF TypeOK, Pending
<1>4. Started("resolve", 0, todo) = [Idle EXCEPT !.pc = "resolve", !.todo = todo]
  <2>1. PICK i \in Job : i = Idle /\ i.of = 0
    BY IdleTyped DEF Idle
  <2>2. [i EXCEPT !.pc = "resolve", !.of = 0, !.todo = todo] = [i EXCEPT !.pc = "resolve", !.todo = todo]
    BY <2>1 DEF Job
  <2> QED
    BY <2>1, <2>2 DEF Started
<1>5. PICK j \in Job : j = Started("resolve", 0, todo) /\ j.pc = "resolve" /\ j.todo = todo
  BY Starting
<1>6. Fits(j)
  BY <1>3, <1>5 DEF Fits
<1>7. job' = [job EXCEPT ![Cron] = j]
  BY <1>2, <1>4, <1>5 DEF Tick, Do
<1>8. TypeOK'
  BY <1>1, <1>7 DEF TypeOK, Tick, World, Tables
<1>9. Counted' /\ Grows
  BY SameTables DEF Tick, Tables
<1> QED
  BY <1>1, <1>6, <1>7, <1>8, <1>9, ThreadStep

LEMMA RescanInv ==
  ASSUME IInv, NEW t \in Threads, NEW c \in DOMAIN company, Rescan(t, c)
  PROVE  IInv'
<1>1. TypeOK /\ ops' \in 0..MaxOps /\ faults' \in 0..MaxFaults
  BY OperatedTyped DEF IInv, Rescan
<1>2. c \in Nat
  <2>1. company \in Seq(Entries)
    BY <1>1 DEF TypeOK
  <2> QED
    BY <2>1, LenProperties
<1>3. \E j \in Job : job' = [job EXCEPT ![t] = j] /\ Fits(j)
  <2>1. CASE BoardsOf(c) = {}
    <3>1. PICK todo \in Seq(Nat) : todo = <<c>>
      <4>1. <<c>> \in Seq(Nat)
        BY <1>2
      <4> QED
        BY <4>1
    <3>2. \A i \in DOMAIN todo : todo[i] \in DOMAIN company
      BY <3>1
    <3>3. PICK j \in Job : j = Started("resolve", c, todo) /\ j.pc = "resolve" /\ j.todo = todo
      BY <1>2, Starting
    <3>4. Fits(j)
      BY <3>2, <3>3 DEF Fits
    <3>5. job' = [job EXCEPT ![t] = j]
      BY <2>1, <3>1, <3>3 DEF Rescan, Do, Started
    <3> QED
      BY <3>4, <3>5
  <2>2. CASE BoardsOf(c) # {}
    <3>1. PICK todo \in Seq(Nat) : todo = Rows(BoardsOf(c))
      BY <1>1, RowsOf DEF TypeOK, BoardsOf
    <3>2. \A i \in DOMAIN todo : todo[i] \in DOMAIN board
      BY <1>1, <3>1, RowsOf, SMTT(30) DEF TypeOK, BoardsOf
    <3>3. PICK j \in Job : j = Started("poll", c, todo) /\ j.pc = "poll" /\ j.todo = todo
      BY <1>2, Starting
    <3>4. Fits(j)
      BY <3>2, <3>3 DEF Fits
    <3>5. job' = [job EXCEPT ![t] = j]
      BY <2>2, <3>1, <3>3 DEF Rescan, Do, Started
    <3> QED
      BY <3>4, <3>5
  <2> QED
    BY <2>1, <2>2
<1>4. TypeOK'
  BY <1>1, <1>3 DEF TypeOK, Rescan, World, Tables
<1>5. Counted' /\ Grows
  BY SameTables DEF Rescan, Tables
<1> QED
  BY <1>3, <1>4, <1>5, ThreadStep

LEMMA ResolveInv ==
  ASSUME IInv, NEW t \in Threads, Resolve(t)
  PROVE  IInv'
<1>1. TypeOK /\ job[t] \in Job /\ Fits(job[t])
  BY DEF IInv, TypeOK
<1>2. PICK bad \in Sites, reply \in UpOutcomes, answered \in BOOLEAN :
        LET c       == company[Head(job[t].todo)]
            replies == [s \in Sites |-> IF s = bad THEN reply ELSE Answer(s)]
            free    == Ladder(c, replies, listed)
            paid    == free = Miss /\ MayResearch(t)
            hit     == IF paid THEN Researched(c, answered, replies, listed) ELSE free
            j       == [job[t] EXCEPT !.llm = IF paid /\ t = Cron THEN @ + 1 ELSE @]
        IN  /\ reply \in Answers(bad)
            /\ IF reply = Answer(bad) /\ answered THEN UNCHANGED faults ELSE Faulted
            /\ Do(t, IF hit = Miss THEN Popped(j) ELSE [j EXCEPT !.found = hit, !.pc = "insert"])
  BY DEF Resolve
<1> DEFINE c == company[Head(job[t].todo)]
           replies == [s \in Sites |-> IF s = bad THEN reply ELSE Answer(s)]
           free == Ladder(c, replies, listed)
           paid == free = Miss /\ MayResearch(t)
           hit == IF paid THEN Researched(c, answered, replies, listed) ELSE free
           llm == IF paid /\ t = Cron THEN job[t].llm + 1 ELSE job[t].llm
<1>3. /\ faults' \in 0..MaxFaults
      /\ job' = [job EXCEPT ![t] = IF hit = Miss THEN Popped([job[t] EXCEPT !.llm = llm])
                                   ELSE [[job[t] EXCEPT !.llm = llm] EXCEPT !.found = hit, !.pc = "insert"]]
  <2>1. IF reply = Answer(bad) /\ answered THEN UNCHANGED faults ELSE Faulted
    BY <1>2
  <2>2. faults' \in 0..MaxFaults
    BY <1>1, <2>1, FaultedTyped DEF TypeOK
  <2>3. Do(t, IF hit = Miss THEN Popped([job[t] EXCEPT !.llm = llm])
              ELSE [[job[t] EXCEPT !.llm = llm] EXCEPT !.found = hit, !.pc = "insert"])
    BY <1>2
  <2> QED
    BY <2>2, <2>3 DEF Do
<1>4. job[t].pc = "resolve" /\ job[t].todo # <<>> /\ job[t].todo \in Seq(Nat)
  BY <1>1, JobTyped DEF Resolve
<1>5. Describes(c)
  <2>1. Head(job[t].todo) \in DOMAIN company
    BY <1>1, <1>4, TodoTail DEF Fits
  <2>2. c \in Entries
    BY <1>1, <2>1, ElementOfSeq DEF TypeOK
  <2> QED
    BY <2>2, JobWorld
<1>6. free \in Found /\ hit \in Found
  BY <1>5, LadderTyped, ResearchedTyped
<1>7. llm \in 0..MAX_LLM
  <2>1. job[t].llm \in 0..MAX_LLM
    BY <1>1, JobTyped
  <2>2. paid /\ t = Cron => job[t].llm < MAX_LLM
    BY DEF MayResearch
  <2> HIDE DEF paid
  <2> QED
    BY <2>1, <2>2, JobNumbers
<1> HIDE DEF c, replies, free, paid, hit, llm
<1>8. PICK h \in Found : h = hit
  BY <1>6
<1>9. PICK j \in Job : j = Paid(job[t], llm) /\ j.pc = "resolve" /\ j.todo = job[t].todo
  BY <1>1, <1>4, <1>7, Paying
<1>10. \E n \in Job : job' = [job EXCEPT ![t] = n] /\ Fits(n)
  <2>1. CASE h = Miss
    <3>1. PICK n \in Job : n = Popped(j) /\ n.pc = "resolve" /\ n.todo = Tail(j.todo)
      BY <1>4, <1>9, Popping, ZenonT(40)
    <3>2. \A i \in DOMAIN Tail(j.todo) : Tail(j.todo)[i] \in DOMAIN company
      BY <1>1, <1>4, <1>9, TodoTail DEF Fits
    <3>3. Fits(n)
      BY <3>1, <3>2 DEF Fits
    <3>4. job' = [job EXCEPT ![t] = n]
      BY <1>3, <1>8, <1>9, <2>1, <3>1 DEF Paid
    <3> QED
      BY <3>3, <3>4
  <2>2. CASE h # Miss
    <3>1. PICK n \in Job : /\ n = Placed(j, h)
                           /\ n.pc = "insert" /\ n.todo = j.todo /\ n.found = h
      BY Placing
    <3>2. Fits(n)
      BY <1>1, <1>4, <1>9, <2>2, <3>1 DEF Fits
    <3>3. job' = [job EXCEPT ![t] = n]
      BY <1>3, <1>8, <1>9, <2>2, <3>1 DEF Paid, Placed
    <3> QED
      BY <3>2, <3>3
  <2> QED
    BY <2>1, <2>2
<1>11. TypeOK'
  BY <1>1, <1>3, <1>10 DEF TypeOK, Resolve, World, Tables
<1>12. Counted' /\ Grows
  BY SameTables DEF Resolve, Tables
<1> QED
  BY <1>10, <1>11, <1>12, ThreadStep

LEMMA InsertInv ==
  ASSUME IInv, NEW t \in Threads, Insert(t)
  PROVE  IInv'
<1>1. TypeOK /\ job[t] \in Job /\ Fits(job[t]) /\ job[t].pc = "insert"
  BY DEF IInv, TypeOK, Insert
<1> DEFINE found == job[t].found
           row == [owner |-> Head(job[t].todo), site |-> found.site, by |-> found.by,
                   sure |-> found.sure, error |-> FALSE]
<1>2. IF Taken(found.site)
      THEN Do(t, Idle) /\ UNCHANGED board
      ELSE Do(t, [Popped(job[t]) EXCEPT !.pc = "resolve"]) /\ board' = Append(board, row)
  BY DEF Insert
<1>3. job[t].todo # <<>> /\ job[t].todo \in Seq(Nat)
  BY <1>1, JobTyped DEF Fits
<1>4. row \in BoardRow
  <2>1. found \in [site : Sites, by : Provenance, sure : Sure]
    BY <1>1, JobTyped DEF Fits, Found
  <2>2. Head(job[t].todo) \in Nat
    BY <1>3, TodoTail
  <2> HIDE DEF found
  <2> QED
    BY <2>1, <2>2 DEF BoardRow
<1> HIDE DEF row
<1>5. board' \in Seq(BoardRow) /\ DOMAIN board \subseteq DOMAIN board'
  <2>1. CASE Taken(found.site)
    BY <1>1, <1>2, <2>1 DEF TypeOK
  <2>2. CASE ~Taken(found.site)
    <3>1. board \in Seq(BoardRow) /\ board' = Append(board, row)
      BY <1>1, <1>2, <2>2 DEF TypeOK
    <3>2. board' \in Seq(BoardRow) /\ Len(board') = Len(board) + 1
      BY <1>4, <3>1, AppendProperties
    <3> QED
      BY <3>1, <3>2, LenProperties
  <2> QED
    BY <2>1, <2>2
<1>6. \E n \in Job : job' = [job EXCEPT ![t] = n] /\ Fits(n)
  <2>1. CASE Taken(found.site)
    BY <1>2, <2>1, IdleTyped DEF Do
  <2>2. CASE ~Taken(found.site)
    <3>1. PICK n \in Job : /\ n = [Popped(job[t]) EXCEPT !.pc = "resolve"]
                           /\ n.pc = "resolve" /\ n.todo = Tail(job[t].todo)
      BY <1>1, <1>3, Popping
    <3>2. \A i \in DOMAIN Tail(job[t].todo) : Tail(job[t].todo)[i] \in DOMAIN company
      BY <1>1, <1>3, TodoTail DEF Fits
    <3>3. Fits(n)
      BY <3>1, <3>2 DEF Fits
    <3>4. job' = [job EXCEPT ![t] = n]
      BY <1>2, <2>2, <3>1 DEF Do
    <3> QED
      BY <3>3, <3>4
  <2> QED
    BY <2>1, <2>2
<1>7. TypeOK'
  BY <1>1, <1>5, <1>6 DEF TypeOK, Insert, World
<1>8. Counted' /\ Grows
  BY <1>5, SameTables DEF Insert
<1> QED
  BY <1>6, <1>7, <1>8, ThreadStep

LEMMA ResolvedInv ==
  ASSUME IInv, NEW t \in Threads, Resolved(t)
  PROVE  IInv'
<1>1. TypeOK /\ job[t] \in Job
  BY DEF IInv, TypeOK
<1> DEFINE rows == IF t = Cron THEN DOMAIN board ELSE BoardsOf(job[t].of)
<1>2. rows \in SUBSET DOMAIN board
  BY DEF BoardsOf
<1>3. job' = [job EXCEPT ![t] = [job[t] EXCEPT !.pc = "poll", !.todo = Rows(rows)]]
  BY DEF Resolved, Do
<1> HIDE DEF rows
<1>4. PICK todo \in Seq(Nat) : todo = Rows(rows)
  BY <1>1, <1>2, RowsOf DEF TypeOK
<1>5. \A i \in DOMAIN todo : todo[i] \in DOMAIN board
  BY <1>1, <1>2, <1>4, RowsOf DEF TypeOK
<1>6. PICK n \in Job : /\ n = Queued(job[t], "poll", todo)
                       /\ n.pc = "poll" /\ n.todo = todo
  BY <1>1, Queueing
<1>7. Fits(n)
  BY <1>5, <1>6 DEF Fits
<1>8. job' = [job EXCEPT ![t] = n]
  BY <1>3, <1>4, <1>6 DEF Queued
<1>9. TypeOK'
  BY <1>1, <1>8 DEF TypeOK, Resolved, World, Tables
<1>10. Counted' /\ Grows
  BY SameTables DEF Resolved, Tables
<1> QED
  BY <1>7, <1>8, <1>9, <1>10, ThreadStep

-----------------------------------------------------------------------------
(* A thread at the boards. *)

LEMMA BeginListInv ==
  ASSUME IInv, NEW t \in Threads, BeginList(t)
  PROVE  IInv'
<1>1. /\ TypeOK /\ job[t] \in Job /\ Fits(job[t])
      /\ job[t].pc = "poll" /\ job[t].todo # <<>> /\ job[t].todo \in Seq(Nat)
  BY JobTyped DEF IInv, TypeOK, BeginList
<1>2. Head(job[t].todo) \in DOMAIN board
  BY <1>1, TodoTail DEF Fits
<1>3. PICK s \in Sites : s = board[Head(job[t].todo)].site
  <2>1. board[Head(job[t].todo)] \in BoardRow
    BY <1>1, <1>2, ElementOfSeq DEF TypeOK
  <2> QED
    BY <2>1 DEF BoardRow
<1>4. PICK n \in Job : n = AtList(job[t], s) /\ n.pc = "list" /\ n.todo = job[t].todo /\ n.site = s
  BY <1>1, Listing
<1>5. Fits(n)
  BY <1>1, <1>4 DEF Fits
<1>6. job' = [job EXCEPT ![t] = n]
  BY <1>3, <1>4 DEF BeginList, Do, AtList
<1>7. TypeOK'
  BY <1>1, <1>6 DEF TypeOK, BeginList, World, Tables
<1>8. Counted' /\ Grows
  BY SameTables DEF BeginList, Tables
<1> QED
  BY <1>5, <1>6, <1>7, <1>8, ThreadStep

LEMMA FlagTyped ==
  ASSUME TypeOK, NEW b, NEW up \in BOOLEAN, Flag(b, up)
  PROVE  board' \in Seq(BoardRow) /\ DOMAIN board' = DOMAIN board
<1>1. board \in Seq(BoardRow) /\ board' = [board EXCEPT ![b].error = up]
  BY DEF TypeOK, Flag
<1>2. Len(board) \in Nat /\ DOMAIN board = 1..Len(board)
  BY <1>1, LenProperties
<1>3. \A k \in 1..Len(board) : board[k] \in BoardRow
  BY <1>1, ElementOfSeq
<1>4. DOMAIN board' = 1..Len(board)
  BY <1>1, <1>2
<1>5. ASSUME NEW k \in 1..Len(board)
      PROVE  board'[k] \in BoardRow
  <2>1. board'[k] = board[k] \/ board'[k] = [board[k] EXCEPT !.error = up]
    BY <1>1, <1>2
  <2>2. PICK r \in BoardRow : r = board[k]
    BY <1>3
  <2>3. [r EXCEPT !.error = up] \in BoardRow
    BY DEF BoardRow
  <2> QED
    BY <2>1, <2>2, <2>3
<1>6. board' = [k \in 1..Len(board) |-> board'[k]]
  BY <1>1, <1>2
<1> QED
  BY <1>2, <1>4, <1>5, <1>6

LEMMA AnswersTyped ==
  ASSUME NEW s, NEW reply \in Answers(s)
  PROVE  reply \in {"ok", "error", "unavailable"}
<1>1. \A tries : Fetch(tries) \in {"ok", "error", "unavailable"}
  BY DEF Fetch
<1> QED
  BY <1>1 DEF Answers, UpOutcomes, GoneOutcomes, Outcomes

LEMMA PageTyped ==
  ASSUME NEW s \in Sites, NEW rows \in Seq(Ids), NEW offset \in Nat
  PROVE  Page(s, rows, offset) \in Seq(Ids)
<1> DEFINE last == IF offset + PAGE < Len(rows) THEN offset + PAGE ELSE Len(rows)
<1>1. Len(rows) \in Nat /\ PAGE \in Nat
  BY LenProperties, AtsNumbers
<1>2. last \in Int /\ last <= Len(rows)
  BY <1>1
<1>3. Page(s, rows, offset) = rows \/ Page(s, rows, offset) = SubSeq(rows, offset + 1, last)
  BY DEF Page
<1> HIDE DEF last
<1>4. \A i \in (offset + 1)..last : i \in 1..Len(rows)
  BY <1>1, <1>2
<1>5. SubSeq(rows, offset + 1, last) \in Seq(Ids)
  BY <1>2, <1>4, SubSeqProperties
<1> QED
  BY <1>3, <1>5

LEMMA ListPageInv ==
  ASSUME IInv, NEW t \in Threads, ListPage(t)
  PROVE  IInv'
<1>1. /\ TypeOK /\ job[t] \in Job /\ Fits(job[t]) /\ job[t].pc = "list"
      /\ job[t].todo # <<>> /\ job[t].todo \in Seq(Nat) /\ job[t].site \in Sites
      /\ job[t].pages \in Nat /\ job[t].got \in Seq(Ids)
  <2>1. TypeOK /\ job[t] \in Job /\ Fits(job[t]) /\ job[t].pc = "list"
    BY DEF IInv, TypeOK, ListPage
  <2> QED
    BY <2>1, JobTyped DEF Fits
<1> DEFINE s == job[t].site
           offset == job[t].pages * PAGE
           page == Page(s, listed[s], offset)
           more == [job[t] EXCEPT !.got = @ \o page, !.pages = @ + 1, !.heard = "listing"]
<1>2. PICK reply \in Answers(job[t].site) :
        /\ Reply(s, reply)
        /\ CASE reply = "unavailable" -> Do(t, NextBoard(job[t])) /\ Flag(Head(job[t].todo), TRUE)
             [] reply = "error" ->
                  Do(t, [job[t] EXCEPT !.pc = "upsert", !.heard = "refusal"]) /\ UNCHANGED board
             [] reply = "ok" ->
                  /\ Do(t, IF page = <<>> \/ LastPage(s, listed[s], offset)
                           THEN [more EXCEPT !.pc = "upsert"] ELSE more)
                  /\ UNCHANGED board
  BY DEF ListPage
<1>3. faults' \in 0..MaxFaults
  BY <1>1, <1>2, FaultedTyped DEF TypeOK, Reply
<1>4. PICK got \in Seq(Ids) : got = job[t].got \o page
  <2>1. offset \in Nat
    BY <1>1, AtsNumbers
  <2> HIDE DEF offset
  <2>2. page \in Seq(Ids)
    BY <1>1, <2>1, PageTyped DEF TypeOK
  <2> QED
    BY <1>1, <2>2, ConcatProperties
<1>5. PICK pages \in Nat : pages = job[t].pages + 1
  BY <1>1
<1>6. PICK before \in Job : before = job[t]
  BY <1>1
<1>7. PICK p \in Job : /\ p = Paged(job[t], got, pages) /\ p.pc = "list" /\ p.heard = "listing"
                       /\ p.todo = job[t].todo /\ p.site = job[t].site
  <2>1. /\ Paged(before, got, pages) \in Job /\ Paged(before, got, pages).pc = before.pc
        /\ Paged(before, got, pages).todo = before.todo /\ Paged(before, got, pages).site = before.site
        /\ Paged(before, got, pages).heard = "listing"
    BY Paging
  <2> QED
    BY <1>1, <1>6, <2>1
<1>8. p = more
  BY <1>4, <1>7, <1>5 DEF Paged
<1> HIDE DEF more, page, offset
<1>9. /\ \E n \in Job : job' = [job EXCEPT ![t] = n] /\ Fits(n)
      /\ board' \in Seq(BoardRow) /\ DOMAIN board' = DOMAIN board
  <2>1. CASE reply = "unavailable"
    <3>1. Do(t, NextBoard(job[t])) /\ Flag(Head(job[t].todo), TRUE)
      BY <1>2, <2>1
    <3>2. PICK n \in Job : n = NextBoard(job[t]) /\ n.pc = "poll" /\ n.todo = Tail(job[t].todo)
      BY <1>1, Leaving
    <3>3. \A i \in DOMAIN Tail(job[t].todo) : Tail(job[t].todo)[i] \in DOMAIN board
      BY <1>1, TodoTail DEF Fits
    <3>4. Fits(n)
      BY <3>2, <3>3 DEF Fits
    <3> QED
      BY <1>1, <3>1, <3>2, <3>4, FlagTyped DEF Do
  <2>2. CASE reply = "error"
    <3>1. Do(t, [job[t] EXCEPT !.pc = "upsert", !.heard = "refusal"]) /\ UNCHANGED board
      BY <1>2, <2>2
    <3>2. PICK n \in Job : n = Refusal(job[t]) /\ n.pc = "upsert" /\ n.todo = job[t].todo /\ n.heard = "refusal"
      BY <1>1, Refusing
    <3>3. Fits(n)
      BY <1>1, <3>2 DEF Fits
    <3>4. board' \in Seq(BoardRow) /\ DOMAIN board' = DOMAIN board
      BY <1>1, <3>1 DEF TypeOK
    <3>5. job' = [job EXCEPT ![t] = n]
      BY <3>1, <3>2 DEF Do, Refusal
    <3> QED
      BY <3>3, <3>4, <3>5
  <2>3. CASE reply = "ok"
    <3>1. /\ Do(t, IF page = <<>> \/ LastPage(s, listed[s], offset) THEN [p EXCEPT !.pc = "upsert"] ELSE p)
          /\ UNCHANGED board
      BY <1>2, <1>8, <2>3
    <3>2. board' \in Seq(BoardRow) /\ DOMAIN board' = DOMAIN board
      BY <1>1, <3>1 DEF TypeOK
    <3>3. PICK n \in Job : n = Drained(p) /\ n.pc = "upsert" /\ n.todo = p.todo /\ n.heard = p.heard
      BY Draining
    <3>4. Fits(n)
      BY <1>1, <1>7, <3>3 DEF Fits
    <3>5. Fits(p)
      BY <1>1, <1>7 DEF Fits
    <3>6. job' = [job EXCEPT ![t] = n] \/ job' = [job EXCEPT ![t] = p]
      BY <3>1, <3>3 DEF Do, Drained
    <3> QED
      BY <3>2, <3>4, <3>5, <3>6
  <2> QED
    BY <2>1, <2>2, <2>3, AnswersTyped
<1>10. TypeOK'
  BY <1>1, <1>3, <1>9 DEF TypeOK, ListPage, World
<1>11. Counted' /\ Grows
  BY <1>9, SameTables DEF ListPage
<1> QED
  BY <1>9, <1>10, <1>11, ThreadStep

LEMMA SnapshotInv ==
  ASSUME IInv, NEW t \in Threads, Snapshot(t)
  PROVE  IInv'
<1>1. /\ TypeOK /\ job[t] \in Job /\ Fits(job[t]) /\ job[t].pc = "upsert" /\ posting \in Seq(PostingRow)
  BY DEF IInv, TypeOK, Snapshot
<1>2. PICK rows \in Seq(PostingRow) : rows = posting
  BY <1>1
<1>3. PICK n \in Job : /\ n = Read(job[t], rows) /\ n.pc = "commit" /\ n.todo = job[t].todo
                       /\ n.heard = job[t].heard /\ n.snap = rows
  BY <1>1, Reading
<1>4. Len(rows) <= Len(posting)
  BY <1>2, LenProperties
<1>6. Fits(n)
  BY <1>1, <1>3, <1>4 DEF Fits
<1>7. job' = [job EXCEPT ![t] = n]
  BY <1>2, <1>3 DEF Snapshot, Do, Read
<1>8. TypeOK'
  BY <1>1, <1>7 DEF TypeOK, Snapshot, World, Tables
<1>9. Counted' /\ Grows
  BY SameTables DEF Snapshot, Tables
<1> QED
  BY <1>6, <1>7, <1>8, <1>9, ThreadStep

LEMMA PolledInv ==
  ASSUME IInv, NEW t \in Threads, Polled(t)
  PROVE  IInv'
<1>1. TypeOK
  BY DEF IInv
<1>2. PICK n \in Job : job' = [job EXCEPT ![t] = n] /\ (n = Idle \/ n.pc = "score")
  <2>1. PICK n \in Job : n = [Idle EXCEPT !.pc = "score"] /\ n.pc = "score"
    BY Scoring
  <2> QED
    BY <2>1, IdleTyped DEF Polled, Do
<1>3. Fits(n)
  <2>1. CASE n = Idle
    BY <2>1, IdleTyped
  <2>2. CASE n.pc = "score"
    BY <2>2 DEF Fits
  <2> QED
    BY <1>2, <2>1, <2>2
<1>4. TypeOK'
  BY <1>1, <1>2 DEF TypeOK, Polled, World, Tables
<1>5. Counted' /\ Grows
  BY SameTables DEF Polled, Tables
<1> QED
  BY <1>2, <1>3, <1>4, <1>5, ThreadStep

-----------------------------------------------------------------------------
(* What a commit makes of a posting. *)

\* The columns that a poll writes, and the observers.
Tally == [missed : 0..MISSED_TO_CLOSE, closed : BOOLEAN, absences : 0..MISSED_TO_CLOSE,
          refusals : 0..MISSED_TO_CLOSE, raced : BOOLEAN]

Changed(row, v) == [row EXCEPT !.missed = v.missed, !.closed = v.closed,
                               !.absences = v.absences, !.refusals = v.refusals,
                               !.raced = v.raced]

LEMMA RowChanged ==
  ASSUME NEW row \in PostingRow, NEW v \in Tally, Sane(v)
  PROVE  Changed(row, v) \in PostingRow /\ Sane(Changed(row, v))
<1>1. PICK r : r = Changed(row, v)
  OBVIOUS
<1>2. /\ r \in PostingRow /\ r.missed = v.missed /\ r.closed = v.closed
      /\ r.absences = v.absences /\ r.refusals = v.refusals /\ r.raced = v.raced
  BY <1>1 DEF PostingRow, Tally, Changed
<1> QED
  BY <1>1, <1>2 DEF Sane

\* A poll that lists the posting starts the count again, unless it leaves the
\* columns as another poll wrote them; one that does not list it counts on from
\* what it read, which is no more than the row holds unless it is said to race.
LEMMA TouchedSane ==
  ASSUME NEW read \in PostingRow, NEW now \in PostingRow, NEW seen,
         NEW heard \in {"listing", "refusal"}, Sane(now)
  PROVE  Touched(read, now, seen, heard) \in PostingRow /\ Sane(Touched(read, now, seen, heard))
<1>1. /\ read.missed \in 0..MISSED_TO_CLOSE /\ read.closed \in BOOLEAN
      /\ now.missed \in 0..MISSED_TO_CLOSE /\ now.closed \in BOOLEAN
      /\ now.absences \in 0..MISSED_TO_CLOSE /\ now.refusals \in 0..MISSED_TO_CLOSE
      /\ now.raced \in BOOLEAN /\ MISSED_TO_CLOSE \in Nat
  BY JobNumbers DEF PostingRow
<1>2. CASE seen
  <2> DEFINE m == IF read.missed # 0 THEN 0 ELSE now.missed
             c == ~read.closed /\ now.closed
             x == m # 0 \/ c
             v == [missed |-> m, closed |-> c, absences |-> 0, refusals |-> 0, raced |-> x]
  <2>1. Touched(read, now, seen, heard) = Changed(now, v)
    BY <1>2 DEF Touched, Changed
  <2>2. m \in 0..MISSED_TO_CLOSE /\ c \in BOOLEAN /\ x \in BOOLEAN /\ 0 \in 0..MISSED_TO_CLOSE
    BY <1>1
  <2>3. ~x => m = 0 /\ ~c
    OBVIOUS
  <2> HIDE DEF m, c, x
  <2>4. v \in Tally
    BY <2>2 DEF Tally
  <2>5. Sane(v)
    BY <2>3 DEF Sane
  <2> HIDE DEF v
  <2> QED
    BY <2>1, <2>4, <2>5, RowChanged
<1>3. CASE ~seen /\ read.closed
  BY <1>3 DEF Touched
<1>4. CASE ~seen /\ ~read.closed
  <2> DEFINE m == Capped(read.missed + 1)
             c == read.missed + 1 >= MISSED_TO_CLOSE \/ now.closed
             a == IF heard = "listing" THEN Capped(now.absences + 1) ELSE now.absences
             f == IF heard = "refusal" THEN Capped(now.refusals + 1) ELSE now.refusals
             x == now.raced \/ read.missed > now.missed
             v == [missed |-> m, closed |-> c, absences |-> a, refusals |-> f, raced |-> x]
  <2>1. Touched(read, now, seen, heard) = Changed(now, v)
    BY <1>4 DEF Touched, Changed
  <2>2. m \in 0..MISSED_TO_CLOSE /\ a \in 0..MISSED_TO_CLOSE /\ f \in 0..MISSED_TO_CLOSE
    BY <1>1 DEF Capped
  <2>3. c \in BOOLEAN /\ x \in BOOLEAN
    BY <1>1
  <2>4. a + f >= MISSED_TO_CLOSE \/ a + f = now.absences + now.refusals + 1
    BY <1>1 DEF Capped
  <2>5. a + f >= now.absences + now.refusals \/ a + f >= MISSED_TO_CLOSE
    BY <1>1, <2>4, <2>2
  <2>6. ASSUME ~x
        PROVE  m <= a + f /\ (c => a + f >= MISSED_TO_CLOSE)
    <3>1. /\ read.missed <= now.missed /\ now.missed <= now.absences + now.refusals
          /\ (now.closed => now.absences + now.refusals >= MISSED_TO_CLOSE)
      BY <1>1, <2>6 DEF Sane
    <3>2. m <= read.missed + 1 /\ m <= MISSED_TO_CLOSE
      BY <1>1 DEF Capped
    <3>3. PICK e \in Int : e = a + f
      BY <2>2
    <3>4. PICK w \in Int : w = now.absences + now.refusals
      BY <1>1
    <3>5. c => read.missed + 1 >= MISSED_TO_CLOSE \/ now.closed
      OBVIOUS
    <3> HIDE DEF m, c, a, f, x, v
    <3>6. m \in Int /\ read.missed \in Int /\ now.missed \in Int
      BY <1>1, <2>2
    <3>7. e >= MISSED_TO_CLOSE \/ e = w + 1
      BY <2>4, <3>3, <3>4
    <3>8. m <= e
      BY <1>1, <3>1, <3>2, <3>4, <3>6, <3>7
    <3>9. c => e >= MISSED_TO_CLOSE
      BY <1>1, <3>1, <3>4, <3>5, <3>6, <3>7
    <3> QED
      BY <3>3, <3>8, <3>9
  <2> HIDE DEF m, c, a, f, x
  <2>7. v \in Tally
    BY <2>2, <2>3 DEF Tally
  <2>8. Sane(v)
    BY <2>6 DEF Sane
  <2> HIDE DEF v
  <2> QED
    BY <2>1, <2>7, <2>8, RowChanged
<1> QED
  BY <1>2, <1>3, <1>4

LEMMA NewRowSane ==
  ASSUME NEW b \in Nat, NEW id \in Ids
  PROVE  NewRow(b, id) \in PostingRow /\ Sane(NewRow(b, id))
<1>1. 0 \in 0..MISSED_TO_CLOSE
  BY JobNumbers
<1> QED
  BY <1>1 DEF NewRow, PostingRow, Sane

\* The postings after a commit: the old ones, touched, and the new ones.
LEMMA Committed ==
  ASSUME TypeOK, Counted, NEW upd, NEW adds \in Seq(PostingRow),
         DOMAIN upd = DOMAIN posting, upd = [k \in DOMAIN posting |-> upd[k]],
         \A k \in DOMAIN posting : upd[k] \in PostingRow /\ Sane(upd[k]),
         \A k \in DOMAIN adds : Sane(adds[k]),
         posting' = upd \o adds
  PROVE  /\ posting' \in Seq(PostingRow) /\ Counted'
         /\ Len(posting) <= Len(posting')
<1>1. posting \in Seq(PostingRow) /\ Len(posting) \in Nat /\ DOMAIN posting = 1..Len(posting)
  BY LenProperties DEF TypeOK
<1>2. upd \in Seq(PostingRow) /\ Len(upd) = Len(posting)
  BY <1>1
<1>3. Len(adds) \in Nat /\ DOMAIN adds = 1..Len(adds)
  BY LenProperties
<1>4. /\ posting' \in Seq(PostingRow) /\ Len(posting') = Len(upd) + Len(adds)
      /\ \A i \in 1..Len(upd) + Len(adds) :
           posting'[i] = IF i <= Len(upd) THEN upd[i] ELSE adds[i - Len(upd)]
  BY <1>2, ConcatProperties
<1>5. DOMAIN posting' = 1..Len(posting) + Len(adds)
  BY <1>2, <1>4, LenProperties
<1>6. \A k \in 1..Len(posting) : posting'[k] = upd[k]
  BY <1>1, <1>2, <1>3, <1>4
<1>7. ASSUME NEW k \in DOMAIN posting'
      PROVE  Sane(posting'[k])
  <2>1. CASE k \in 1..Len(posting)
    BY <1>1, <1>6, <2>1
  <2>2. CASE k \notin 1..Len(posting)
    <3>1. k - Len(posting) \in DOMAIN adds /\ posting'[k] = adds[k - Len(posting)]
      BY <1>1, <1>2, <1>3, <1>4, <1>5, <2>2
    <3> QED
      BY <3>1
  <2> QED
    BY <2>1, <2>2
<1>8. Counted'
  BY <1>7 DEF Counted, Sane
<1> QED
  BY <1>1, <1>2, <1>3, <1>4, <1>6, <1>8

LEMMA CommitInv ==
  ASSUME IInv, NEW t \in Threads, Commit(t)
  PROVE  IInv'
<1> DEFINE j == job[t]
           b == Head(j.todo)
           new == Inserted(j, b)
<1>1. /\ TypeOK /\ Counted /\ j \in Job /\ Fits(j) /\ j.pc = "commit" /\ j.todo # <<>>
      /\ j.todo \in Seq(Nat) /\ j.got \in Seq(Ids)
      /\ j.heard \in {"listing", "refusal"} /\ j.snap \in Seq(PostingRow)
  <2>1. TypeOK /\ Counted /\ j \in Job /\ Fits(j) /\ j.pc = "commit"
    BY DEF IInv, TypeOK, Commit
  <2> QED
    BY <2>1, JobTyped DEF Fits
<1>2. posting \in Seq(PostingRow) /\ Len(posting) \in Nat /\ DOMAIN posting = 1..Len(posting)
  BY <1>1, LenProperties DEF TypeOK
<1>3. CASE Clashes(j, b)
  <2>1. job' = [job EXCEPT ![t] = Idle] /\ UNCHANGED <<board, posting>>
    BY <1>3 DEF Commit, Do
  <2>2. TypeOK'
    BY <1>1, <2>1, IdleTyped DEF TypeOK, Commit, World
  <2>3. Counted' /\ Grows
    BY <2>1, SameTables DEF Commit
  <2> QED
    BY <2>1, <2>2, <2>3, IdleTyped, ThreadStep
<1>4. CASE ~Clashes(j, b)
  <2> DEFINE Now(k) == IF k \in DOMAIN j.snap /\ posting[k].row = b
                       THEN Touched(j.snap[k], posting[k], Seen(j, posting[k].id), j.heard)
                       ELSE posting[k]
             upd == [k \in DOMAIN posting |-> Now(k)]
             adds == [k \in DOMAIN new |-> NewRow(b, new[k])]
  <2>1. posting' = upd \o adds /\ Flag(b, FALSE) /\ Do(t, NextBoard(j))
    BY <1>4 DEF Commit
  <2>2. b \in Nat
    BY <1>1, TodoTail
  <2>3. new \in Seq(Ids)
    <3>1. {k \in DOMAIN j.got : ~Holds(j.snap, b, j.got[k])} \in SUBSET DOMAIN j.got
      OBVIOUS
    <3> QED
      BY <1>1, <3>1, OnlyTyped DEF Inserted
  <2>4. adds \in Seq(PostingRow) /\ \A k \in DOMAIN adds : Sane(adds[k])
    <3> HIDE DEF new, b
    <3>1. DOMAIN new = 1..Len(new) /\ Len(new) \in Nat /\ \A k \in DOMAIN new : new[k] \in Ids
      BY <2>3, LenProperties, ElementOfSeq
    <3>2. \A k \in DOMAIN new : NewRow(b, new[k]) \in PostingRow /\ Sane(NewRow(b, new[k]))
      BY <2>2, <3>1, NewRowSane
    <3> QED
      BY <3>1, <3>2
  <2>5. ASSUME NEW k \in DOMAIN posting
        PROVE  Now(k) \in PostingRow /\ Sane(Now(k))
    <3>1. PICK row \in PostingRow : row = posting[k]
      BY <1>2, ElementOfSeq
    <3>2. Sane(row)
      BY <1>1, <3>1 DEF Counted
    <3>3. CASE k \in DOMAIN j.snap /\ posting[k].row = b
      <4>1. PICK read \in PostingRow : read = j.snap[k]
        BY <1>1, <3>3, ElementOfSeq
      <4>3. PICK seen : seen = Seen(j, posting[k].id)
        OBVIOUS
      <4>4. /\ Touched(read, row, seen, j.heard) \in PostingRow
            /\ Sane(Touched(read, row, seen, j.heard))
        BY <1>1, <3>2, TouchedSane
      <4>5. Now(k) = Touched(read, row, seen, j.heard)
        BY <3>1, <3>3, <4>1, <4>3
      <4> HIDE DEF Now
      <4> QED
        BY <3>1, <4>4, <4>5
    <3>4. CASE ~(k \in DOMAIN j.snap /\ posting[k].row = b)
      <4>1. Now(k) = row
        BY <3>1, <3>4
      <4> HIDE DEF Now
      <4> QED
        BY <3>1, <3>2, <4>1
    <3> QED
      BY <3>3, <3>4
  <2>6. DOMAIN upd = DOMAIN posting /\ \A k \in DOMAIN posting : upd[k] = Now(k)
    OBVIOUS
  <2>7. PICK first : first = upd
    OBVIOUS
  <2>8. PICK last \in Seq(PostingRow) : last = adds
    BY <2>4
  <2>9. /\ DOMAIN first = DOMAIN posting /\ first = [k \in DOMAIN posting |-> first[k]]
        /\ \A k \in DOMAIN posting : first[k] \in PostingRow /\ Sane(first[k])
    <3>1. DOMAIN first = DOMAIN posting /\ first = [k \in DOMAIN posting |-> first[k]]
      BY <2>7
    <3>2. \A k \in DOMAIN posting : first[k] = Now(k)
      BY <2>6, <2>7
    <3> HIDE DEF Now, upd
    <3> QED
      BY <2>5, <3>1, <3>2
  <2>10. posting' = first \o last /\ \A k \in DOMAIN last : Sane(last[k])
    BY <2>1, <2>4, <2>7, <2>8
  <2> HIDE DEF upd, adds, new, Now
  <2>11. /\ posting' \in Seq(PostingRow) /\ Counted'
         /\ Len(posting) <= Len(posting')
    BY <1>1, <2>9, <2>10, Committed
  <2>12. board' \in Seq(BoardRow) /\ DOMAIN board' = DOMAIN board
    BY <1>1, <2>1, FlagTyped
  <2>13. PICK n \in Job : n = NextBoard(j) /\ n.pc = "poll" /\ n.todo = Tail(j.todo)
    BY <1>1, Leaving
  <2>14. \A i \in DOMAIN Tail(j.todo) : Tail(j.todo)[i] \in DOMAIN board
    BY <1>1, TodoTail DEF Fits
  <2>15. Fits(n)
    BY <2>13, <2>14 DEF Fits
  <2>16. job' = [job EXCEPT ![t] = n]
    BY <2>1, <2>13 DEF Do
  <2>17. TypeOK'
    BY <1>1, <2>11, <2>12, <2>16 DEF TypeOK, Commit, World
  <2>18. Grows
    BY <2>11, <2>12 DEF Grows, Commit
  <2> QED
    BY <2>11, <2>15, <2>16, <2>17, <2>18, ThreadStep
<1> QED
  BY <1>3, <1>4

LEMMA OverrideInv ==
  ASSUME IInv, NEW b \in DOMAIN board, NEW s \in Spare, Override(b, s)
  PROVE  IInv'
<1>1. TypeOK /\ ops' \in 0..MaxOps /\ faults' \in 0..MaxFaults
  BY OperatedTyped DEF IInv, Override
<1>2. board \in Seq(BoardRow) /\ s \in Sites
  BY <1>1, JobWorld DEF TypeOK
<1>3. PICK row \in BoardRow : row = board[b]
  BY <1>2, ElementOfSeq
<1>4. PICK new : new = [row EXCEPT !.site = s, !.by = "manual", !.sure = 100]
  OBVIOUS
<1>5. new \in BoardRow
  <2>1. "manual" \in Provenance /\ 100 \in Sure
    BY DEF Provenance, Sure
  <2> QED
    BY <1>2, <1>4, <2>1 DEF BoardRow
<1>6. board' = [board EXCEPT ![b] = new]
  BY <1>3, <1>4 DEF Override
<1>7. board' \in Seq(BoardRow) /\ DOMAIN board' = DOMAIN board
  BY <1>2, <1>5, <1>6, ExceptSeq
<1>8. TypeOK'
  BY <1>1, <1>7 DEF TypeOK, Override, World
<1>9. Counted' /\ Grows /\ job' = job
  BY <1>7, SameTables DEF Override
<1> QED
  BY <1>8, <1>9, WorldStep

-----------------------------------------------------------------------------
(* Scoring, and the end. *)

LEMMA ScoreKept ==
  ASSUME NEW row \in PostingRow, NEW score \in {"filtered", "scored"}, NEW r,
         r = row \/ r = [row EXCEPT !.score = score]
  PROVE  r \in PostingRow /\ (Sane(row) => Sane(r))
<1>1. CASE r = row
  BY <1>1
<1>2. CASE r = [row EXCEPT !.score = score]
  <2>1. /\ r \in PostingRow /\ r.missed = row.missed /\ r.closed = row.closed
        /\ r.absences = row.absences /\ r.refusals = row.refusals /\ r.raced = row.raced
    BY <1>2 DEF PostingRow
  <2> QED
    BY <2>1 DEF Sane
<1> QED
  BY <1>1, <1>2

\* Scoring leaves what the polls count alone.
LEMMA Scored ==
  ASSUME TypeOK, Counted, NEW S, NEW score \in {"filtered", "scored"},
         posting' = [k \in DOMAIN posting |->
                       IF k \in S THEN [posting[k] EXCEPT !.score = score] ELSE posting[k]]
  PROVE  /\ posting' \in Seq(PostingRow) /\ Counted'
         /\ Len(posting) <= Len(posting')
<1>1. posting \in Seq(PostingRow) /\ Len(posting) \in Nat /\ DOMAIN posting = 1..Len(posting)
  BY LenProperties DEF TypeOK
<1>2. ASSUME NEW k \in DOMAIN posting
      PROVE  posting'[k] \in PostingRow /\ Sane(posting'[k])
  <2>1. PICK row \in PostingRow : row = posting[k]
    BY <1>1, ElementOfSeq
  <2>2. PICK r : r = posting'[k]
    OBVIOUS
  <2>3. r = row \/ r = [row EXCEPT !.score = score]
    BY <2>1, <2>2
  <2>4. r \in PostingRow /\ Sane(r)
    BY <2>1, <2>3, ScoreKept DEF Counted
  <2> QED
    BY <2>1, <2>2, <2>4
<1>3. DOMAIN posting' = DOMAIN posting /\ posting' = [k \in DOMAIN posting |-> posting'[k]]
  OBVIOUS
<1>4. posting' \in Seq(PostingRow) /\ Len(posting') = Len(posting)
  BY <1>1, <1>2, <1>3
<1>5. Counted'
  BY <1>2, <1>3 DEF Counted, Sane
<1> QED
  BY <1>1, <1>4, <1>5

LEMMA FirstTyped ==
  ASSUME NEW n \in Nat, NEW s \in Seq(Nat)
  PROVE  First(n, s) \in Seq(Nat) /\ Len(First(n, s)) \in Nat
<1> DEFINE last == IF n < Len(s) THEN n ELSE Len(s)
<1>1. Len(s) \in Nat
  BY LenProperties
<1>2. last \in Nat /\ last <= Len(s)
  BY <1>1
<1>3. First(n, s) = SubSeq(s, 1, last)
  BY DEF First
<1> HIDE DEF last
<1>4. \A i \in 1..last : i \in 1..Len(s)
  BY <1>1, <1>2
<1>5. SubSeq(s, 1, last) \in Seq(Nat)
  BY <1>2, <1>4, SubSeqProperties
<1> QED
  BY <1>3, <1>5, LenProperties

LEMMA PrefilterInv ==
  ASSUME IInv, Prefilter
  PROVE  IInv'
<1>1. TypeOK /\ Counted /\ Cron \in Threads /\ job[Cron] \in Job
  BY CronThread DEF IInv, TypeOK
<1> DEFINE off == {k \in Candidates : posting[k].id \in OffTarget}
           rows == Candidates \ off
<1>2. /\ posting' = [k \in DOMAIN posting |-> IF k \in off THEN [posting[k] EXCEPT !.score = "filtered"]
                                               ELSE posting[k]]
      /\ job' = [job EXCEPT ![Cron] = [job[Cron] EXCEPT !.pc = "batch",
                                         !.todo = First(MAX_SCORE, Rows(rows))]]
  BY DEF Prefilter, Do
<1>3. rows \in SUBSET DOMAIN posting
  BY DEF Candidates
<1> HIDE DEF off, rows
<1>4. PICK todo \in Seq(Nat) : todo = First(MAX_SCORE, Rows(rows))
  <2>1. Rows(rows) \in Seq(Nat)
    BY <1>1, <1>3, RowsOf DEF TypeOK
  <2> QED
    BY <2>1, FirstTyped, JobNumbers
<1>5. PICK n \in Job : n = Queued(job[Cron], "batch", todo) /\ n.pc = "batch" /\ n.todo = todo
  BY <1>1, Queueing
<1>6. Fits(n)
  BY <1>5 DEF Fits
<1>7. job' = [job EXCEPT ![Cron] = n]
  BY <1>2, <1>4, <1>5 DEF Queued
<1>8. /\ posting' \in Seq(PostingRow) /\ Counted'
      /\ Len(posting) <= Len(posting')
  BY <1>1, <1>2, Scored
<1>9. TypeOK'
  BY <1>1, <1>7, <1>8 DEF TypeOK, Prefilter, World
<1>10. Grows
  BY <1>8 DEF Grows, Prefilter
<1> QED
  BY <1>1, <1>6, <1>7, <1>8, <1>9, <1>10, ThreadStep

LEMMA ScoreBatchInv ==
  ASSUME IInv, ScoreBatch
  PROVE  IInv'
<1>1. /\ TypeOK /\ Counted /\ Cron \in Threads /\ job[Cron] \in Job /\ job[Cron].pc = "batch"
      /\ job[Cron].todo \in Seq(Nat)
  BY CronThread, JobTyped DEF IInv, TypeOK, ScoreBatch
<1> DEFINE batch == First(BATCH, job[Cron].todo)
           rest == SubSeq(job[Cron].todo, Len(batch) + 1, Len(job[Cron].todo))
<1>2. PICK answered :
        /\ UNCHANGED faults \/ Faulted
        /\ posting' = [k \in DOMAIN posting |->
                         IF k \in answered THEN [posting[k] EXCEPT !.score = "scored"] ELSE posting[k]]
        /\ job' = [job EXCEPT ![Cron] = [job[Cron] EXCEPT !.todo = rest]]
  BY DEF ScoreBatch, Do
<1>3. faults' \in 0..MaxFaults
  BY <1>1, <1>2, FaultedTyped DEF TypeOK
<1>4. PICK todo \in Seq(Nat) : todo = rest
  <2>1. Len(batch) \in Nat /\ Len(job[Cron].todo) \in Nat
    BY <1>1, FirstTyped, JobNumbers, LenProperties
  <2> HIDE DEF batch
  <2>2. PICK from \in Nat \ {0} : from = Len(batch) + 1
    BY <2>1
  <2>3. PICK s \in Seq(Nat) : s = job[Cron].todo
    BY <1>1
  <2>4. Len(s) \in Nat /\ \A i \in from..Len(s) : i \in 1..Len(s)
    BY <2>1, <2>2, <2>3
  <2>5. SubSeq(s, from, Len(s)) \in Seq(Nat)
    BY <2>2, <2>4, SubSeqProperties
  <2> QED
    BY <2>2, <2>3, <2>5
<1> HIDE DEF batch, rest
<1>5. PICK n \in Job : n = Queued(job[Cron], "batch", todo) /\ n.pc = "batch" /\ n.todo = todo
  BY <1>1, Queueing, ZenonT(40)
<1>6. Fits(n)
  BY <1>5 DEF Fits
<1>7. job' = [job EXCEPT ![Cron] = n]
  <2>1. Queued(job[Cron], "batch", todo) = [job[Cron] EXCEPT !.todo = todo]
    BY <1>1 DEF Queued, Job
  <2> QED
    BY <1>2, <1>4, <1>5, <2>1
<1>8. /\ posting' \in Seq(PostingRow) /\ Counted'
      /\ Len(posting) <= Len(posting')
  BY <1>1, <1>2, Scored
<1>9. TypeOK'
  BY <1>1, <1>3, <1>7, <1>8 DEF TypeOK, ScoreBatch, World
<1>10. Grows
  BY <1>8 DEF Grows, ScoreBatch
<1> QED
  BY <1>1, <1>6, <1>7, <1>8, <1>9, <1>10, ThreadStep

LEMMA ScoreDoneInv ==
  ASSUME IInv, ScoreDone
  PROVE  IInv'
<1>1. TypeOK /\ Cron \in Threads
  BY CronThread DEF IInv
<1>2. job' = [job EXCEPT ![Cron] = Idle]
  BY DEF ScoreDone, Do
<1>3. TypeOK'
  BY <1>1, <1>2, IdleTyped DEF TypeOK, ScoreDone, World, Tables
<1>4. Counted' /\ Grows
  BY SameTables DEF ScoreDone, Tables
<1> QED
  BY <1>1, <1>2, <1>3, <1>4, IdleTyped, ThreadStep

LEMMA CrashInv ==
  ASSUME IInv, Crash
  PROVE  IInv'
<1>1. TypeOK /\ faults' \in 0..MaxFaults
  BY FaultedTyped DEF IInv, Crash
<1>2. job' = [t \in Threads |-> Idle] /\ form' = [f \in Forms |-> <<>>]
  BY DEF Crash
<1>3. form' \in [Forms -> Seq(Entries \X BOOLEAN)]
  BY <1>2, EmptySeq
<1>4. job' \in [Threads -> Job]
  BY <1>2, IdleTyped
<1>5. TypeOK'
  BY <1>1, <1>3, <1>4 DEF TypeOK, Crash, World, Tables
<1>6. Counted' /\ Grows
  BY SameTables DEF Crash, Tables
<1>7. PICK idle \in Job : idle = Idle
  BY IdleTyped
<1>8. Fits(idle)'
  BY <1>1, <1>5, <1>6, <1>7, IdleTyped, FitsKept
<1>9. \A t \in Threads : job'[t] = idle
  BY <1>2, <1>7
<1>10. (\A t \in Threads : Fits(job[t]))'
  BY <1>8, <1>9 DEF Fits
<1> QED
  BY <1>5, <1>6, <1>10 DEF IInv

LEMMA StepInv ==
  ASSUME IInv, NEW t \in Threads, Step(t)
  PROVE  IInv'
BY ResolveInv, InsertInv, ResolvedInv, BeginListInv, ListPageInv, SnapshotInv, CommitInv, PolledInv DEF Step

LEMMA NextInv == IInv /\ [Next]_vars => IInv'
<1> SUFFICES ASSUME IInv, [Next]_vars
             PROVE  IInv'
  OBVIOUS
<1>1. CASE \E s \in Sites, i \in Ids : Publish(s, i)
  BY <1>1, PublishInv
<1>2. CASE \E s \in Sites, k \in 1..MaxListed : Withdraw(s, k)
  BY <1>2, WithdrawInv
<1>3. CASE \E s \in Sites : Move(s)
  BY <1>3, MoveInv
<1>4. CASE \E f \in Forms, entries \in Arrivals : AddRead(f, entries)
  BY <1>4, AddReadInv
<1>5. CASE \E f \in Forms : AddCommit(f)
  BY <1>5, AddCommitInv
<1>6. CASE \E t \in Rescans, c \in DOMAIN company : Rescan(t, c)
  BY <1>6, RescanInv DEF Threads
<1>7. CASE \E b \in DOMAIN board, s \in Spare : Override(b, s)
  BY <1>7, OverrideInv
<1>8. CASE Tick
  BY <1>8, TickInv
<1>9. CASE Refresh
  BY <1>9, CronThread, StepInv, PrefilterInv, ScoreBatchInv, ScoreDoneInv DEF Refresh
<1>10. CASE \E t \in Rescans : Step(t)
  BY <1>10, StepInv DEF Threads
<1>11. CASE Crash
  BY <1>11, CrashInv
<1>12. CASE UNCHANGED vars
  <2>1. TypeOK'
    <3>1. TypeOK /\ vars' = vars
      BY <1>12 DEF IInv
    <3> QED
      BY <3>1 DEF TypeOK, vars
  <2>2. Counted' /\ Grows /\ job' = job
    BY <1>12, SameTables DEF vars
  <2> QED
    BY <2>1, <2>2, WorldStep
<1> QED
  BY <1>1, <1>2, <1>3, <1>4, <1>5, <1>6, <1>7, <1>8, <1>9, <1>10, <1>11, <1>12 DEF Next

-----------------------------------------------------------------------------
(* The results. *)

\* Types, counted absences and fitting threads hold at every step.
LEMMA Inductive == Spec => []IInv
<1>1. Init => IInv
  BY InitInv
<1>2. IInv /\ [Next]_vars => IInv'
  BY NextInv
<1> QED
  BY <1>1, <1>2, PTL DEF Spec

\* Whatever the refresh, the rescans, the forms and the network do, the tables and
\* what the threads hold of them stay well formed (pipeline/jobs/inventory.py).
THEOREM JobsTyped == Spec => []TypeOK
<1>1. IInv => TypeOK
  BY DEF IInv
<1> QED
  BY <1>1, Inductive, PTL

\* A posting is closed only after MISSED_TO_CLOSE polls in a row that the board
\* answered without listing it, for any number of threads and any outages, unless
\* two polls overlapped so that the count outlived a listing with the posting
\* (_upsert_postings).
THEOREM ClosingTakesAbsences == Spec => []ClosedIsAbsent
<1>1. IInv => ClosedIsAbsent
  BY DEF IInv, Counted, Sane, ClosedIsAbsent
<1> QED
  BY <1>1, Inductive, PTL
=============================================================================

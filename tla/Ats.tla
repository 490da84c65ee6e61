-------------------------------- MODULE Ats --------------------------------
(***************************************************************************)
(* The job-board adapters (pipeline/jobs/ats/) and the resolver that       *)
(* chooses one of them for a company (pipeline/jobs/resolve.py and         *)
(* research.py), as operators.                                             *)
(*                                                                         *)
(* A board is one site of one adapter kind.  Its answer to a request is    *)
(* "ok", "error" (a final 4xx or a body that does not parse) or            *)
(* "unavailable" (every attempt failed), and an adapter is the record of   *)
(* what its probe() and list_postings() make of the three.                 *)
(***************************************************************************)
EXTENDS Integers, Sequences, FiniteSets

CONSTANTS
  Sites,      \* boards of the outside world
  Kind,       \* [Sites -> kind]: the adapter that serves each
  Owners,     \* [Sites -> set of names]: company names the board's own name matches
  MAX_ATTEMPTS, \* attempts of one request
  MAX_SLUG_PROBES, \* guesses of slugs tried for one company
  PAGE,       \* postings on one page of a paged listing
  LLM_CAP,    \* ceiling of a researched board's confidence, in percent
  None

ASSUME AtsNumbers == /\ MAX_ATTEMPTS \in Nat \ {0} /\ MAX_SLUG_PROBES \in Nat
                     /\ PAGE \in Nat \ {0}
                     /\ LLM_CAP \in 0..100
ASSUME NoneIsNoSite == None \notin Sites

(***************************************************************************)
(* The adapters.                                                           *)
(*   slug   its boards are found by guessing a slug                        *)
(*   named  its probe answers with the company's name                      *)
(*   empty  its probe accepts a board that lists nothing                   *)
(*   pages  how a listing ends: "one" request, until the "total", or at    *)
(*          the first "short" page                                         *)
(*   twins  two openings can come out under one external id                *)
(*   sure   the confidence its probe reports, in percent                   *)
(***************************************************************************)
Greenhouse == [slug |-> TRUE, named |-> FALSE, empty |-> TRUE,
               pages |-> "one", twins |-> FALSE, sure |-> 100]

Lever == [slug |-> TRUE, named |-> FALSE, empty |-> TRUE,
          pages |-> "one", twins |-> FALSE, sure |-> 100]

Ashby == [slug |-> TRUE, named |-> TRUE, empty |-> TRUE,
          pages |-> "one", twins |-> FALSE, sure |-> 100]

Workable == [slug |-> TRUE, named |-> TRUE, empty |-> TRUE,
             pages |-> "one", twins |-> FALSE, sure |-> 100]

\* The requisition number is cut out of the path, so that the copies of one
\* requisition (R-1, R-1-1) share an id.
Workday == [slug |-> FALSE, named |-> FALSE, empty |-> TRUE,
            pages |-> "total", twins |-> TRUE, sure |-> 100]

\* An unknown company answers 200 with nothing found, so that an empty board
\* does not exist.
SmartRecruiters == [slug |-> TRUE, named |-> TRUE, empty |-> FALSE,
                    pages |-> "short", twins |-> FALSE, sure |-> 100]

Rippling == [slug |-> TRUE, named |-> FALSE, empty |-> TRUE,
             pages |-> "one", twins |-> FALSE, sure |-> 100]

BambooHR == [slug |-> FALSE, named |-> FALSE, empty |-> TRUE,
             pages |-> "one", twins |-> FALSE, sure |-> 100]

Recruitee == [slug |-> FALSE, named |-> FALSE, empty |-> TRUE,
              pages |-> "one", twins |-> FALSE, sure |-> 100]

Personio == [slug |-> FALSE, named |-> FALSE, empty |-> TRUE,
             pages |-> "one", twins |-> FALSE, sure |-> 100]

\* A careers page repeats a JobPosting node as often as it likes.
JsonLd == [slug |-> FALSE, named |-> FALSE, empty |-> FALSE,
           pages |-> "one", twins |-> TRUE, sure |-> 60]

Registry == [greenhouse |-> Greenhouse, lever |-> Lever, ashby |-> Ashby,
             workable |-> Workable, workday |-> Workday,
             smartrecruiters |-> SmartRecruiters, rippling |-> Rippling,
             bamboohr |-> BambooHR, recruitee |-> Recruitee,
             personio |-> Personio, jsonld |-> JsonLd]

ASSUME EverySiteHasAnAdapter == Kind \in [Sites -> DOMAIN Registry]

Adapter(s) == Registry[Kind[s]]

\* The order in which a slug is tried on the kinds that accept one.
SlugOrder == <<"greenhouse", "lever", "ashby", "workable", "smartrecruiters",
               "rippling">>

----------------------------------------------------------------------------
(***************************************************************************)
(* Requests.                                                               *)
(***************************************************************************)
Attempt == {"ok", "garbled", "refused", "flaky"}

\* A flaky attempt (429, 5xx, no connection) is repeated, anything else is
\* final.
Fetch(tries) ==
  LET final == {i \in 1..MAX_ATTEMPTS : tries[i] # "flaky"}
      first == CHOOSE i \in final : \A j \in final : i <= j
  IN  IF final = {} THEN "unavailable"
      ELSE IF tries[first] = "ok" THEN "ok" ELSE "error"

\* probe(): TRUE when the board is confirmed.  An unavailable board raises,
\* and every caller here takes that for a miss.
Probe(s, reply, listed) ==
  reply = "ok" /\ (Adapter(s).empty \/ listed # <<>>)

\* One page of list_postings() at an offset, and whether it is the last one.
Page(s, listed, offset) ==
  IF Adapter(s).pages = "one" THEN listed
  ELSE SubSeq(listed, offset + 1,
              IF offset + PAGE < Len(listed) THEN offset + PAGE ELSE Len(listed))

LastPage(s, listed, offset) ==
  CASE Adapter(s).pages = "one"   -> TRUE
    [] Adapter(s).pages = "total" -> offset + PAGE >= Len(listed)
    [] Adapter(s).pages = "short" -> Len(Page(s, listed, offset)) < PAGE

----------------------------------------------------------------------------
(***************************************************************************)
(* The resolver.  A company is [name, domain, slugs, html, careers,        *)
(* claim]: the sites each of its slugs would hit, the site its pages link  *)
(* to, its own page with JSON-LD on it, and the [site, url, sure] the      *)
(* model would claim.  reply[s] is how each site answers while it runs.    *)
(***************************************************************************)
Miss == [site |-> None, by |-> "miss", sure |-> 0]

Provenance == {"slug_probe", "html", "jsonld", "llm", "manual"}

\* A confidence is clamped down to the ceilings, never up: what the model says
\* may be below 0.
Sure  == {n \in Int : n <= 100}
Found == {Miss} \cup [site : Sites, by : Provenance, sure : Sure]

Describes(c) ==
  /\ c.slugs \in Seq(SUBSET Sites)
  /\ {c.html, c.careers} \subseteq Sites \cup {None}
  /\ c.claim \in {None} \cup [site : Sites, url : BOOLEAN, sure : Int]

\* probe_slugs(): a board that names another company is passed over, one
\* that names none is accepted with less confidence.
Accepted(c, s, reply, listed) ==
  /\ Probe(s, reply[s], listed[s])
  /\ Adapter(s).named => c.name \in Owners[s]

\* The slugs are tried one after the other, each on every kind.
Place(n, s) ==
  (n - 1) * Len(SlugOrder) + (CHOOSE k \in DOMAIN SlugOrder : SlugOrder[k] = Kind[s])

SlugHit(c, reply, listed) ==
  LET guesses == {g \in (DOMAIN c.slugs) \X Sites : g[2] \in c.slugs[g[1]] /\ Adapter(g[2]).slug}
      hits    == {g \in guesses : /\ Place(g[1], g[2]) <= MAX_SLUG_PROBES
                                  /\ Accepted(c, g[2], reply, listed)}
      first   == CHOOSE g \in hits : \A h \in hits : Place(g[1], g[2]) <= Place(h[1], h[2])
  IN  IF hits = {} THEN Miss
      ELSE [site |-> first[2], by |-> "slug_probe",
            sure |-> IF Adapter(first[2]).named THEN 90 ELSE 70]

\* A link to a known host on the homepage or one page deeper.  Nothing is
\* asked of the board itself.
Fingerprint(c) ==
  IF c.domain = None \/ c.html = None THEN Miss
  ELSE [site |-> c.html, by |-> "html", sure |-> 85]

JsonLdHit(c, reply, listed) ==
  IF c.domain = None \/ c.careers = None THEN Miss
  ELSE IF Probe(c.careers, reply[c.careers], listed[c.careers])
  THEN [site |-> c.careers, by |-> "jsonld", sure |-> Adapter(c.careers).sure]
  ELSE Miss

\* resolve_company(): first hit wins.
Ladder(c, reply, listed) ==
  LET steps == <<SlugHit(c, reply, listed), Fingerprint(c), JsonLdHit(c, reply, listed)>>
      hits  == {k \in DOMAIN steps : steps[k] # Miss}
  IN  IF hits = {} THEN Miss
      ELSE steps[CHOOSE k \in hits : \A j \in hits : k <= j]

Lowest(S) == CHOOSE x \in S : \A y \in S : x <= y

\* verify_llm_result(): a claimed board must answer its own probe, a claimed
\* address must be one of a known host.
Verified(claim, reply, listed) ==
  IF claim = None THEN Miss
  ELSE IF claim.url
  THEN [site |-> claim.site, by |-> "llm", sure |-> Lowest({claim.sure, LLM_CAP})]
  ELSE IF Probe(claim.site, reply[claim.site], listed[claim.site])
  THEN [site |-> claim.site, by |-> "llm",
        sure |-> Lowest({claim.sure, Adapter(claim.site).sure, LLM_CAP})]
  ELSE Miss

\* llm_resolve(): the model's claim, or none when no key is configured, the
\* call raised, or the answer was refused, cut off or empty.
Claimed(c, answered) == IF answered THEN c.claim ELSE None

\* research_company(): a claim is worth what verifying it confirms.
Researched(c, answered, reply, listed) == Verified(Claimed(c, answered), reply, listed)
=============================================================================

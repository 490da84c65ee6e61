------------------------------- MODULE Autofill -------------------------------
(***************************************************************************)
(* What one fill of a page writes: the fields the extractor found          *)
(* (assist/extract.py), the value the server proposes for each             *)
(* (assist/mapping.py: profile rules, then the answer bank, then one model *)
(* call), the files the desktop has downloaded (__main__.py) and what      *)
(* apply_proposals types into the page (assist/fill.py).                   *)
(*                                                                         *)
(* A label is what its regular expressions recognize in it; a value is     *)
(* where it comes from.  Proposals are kept by field id, which two fields  *)
(* of a page may share (inputs without an id are known by their name).     *)
(***************************************************************************)
EXTENDS Integers, Sequences

CONSTANTS
  Page,     \* the fields of a page, in document order
  Profile,  \* what the profile holds
  Bank,     \* the questions the answer bank has an answer to
  Replies,  \* what the model may answer: ids to proposals, first record each
  Shared    \* the runner is on the server's machine and sees its files

Types == {"text", "textarea", "email", "tel", "url", "select", "checkbox", "radio", "file"}
Marks == {"attest", "captcha", "email", "phone", "name", "other_name", "resume",
          "cover", "linkedin", "github", "portfolio", "eeo"}
Values == {"none", "profile", "decline", "path", "answer", "reply", "local"}

Proposal == [value : Values, user : BOOLEAN]
Offered(value) == [value |-> value, user |-> FALSE]
NeedsUser == [value |-> "none", user |-> TRUE]

\* A page's field: the label's marks, the id's, and the question it asks.
Field == [id : STRING, type : Types, says : SUBSET Marks, hints : SUBSET Marks, asks : STRING]
Blank(f) == f.asks = ""

ASSUME PageAssumption ==
  /\ Page \in Seq(Field)
  /\ \A reply \in Replies : \A id \in DOMAIN reply : reply[id] \in Proposal

-----------------------------------------------------------------------------
(* propose_values *)

Forced(f) == f.says \cap {"attest", "captcha"} # {}

\* _deterministic_match: the rules in the order it tries them.
Rules == <<"email", "phone", "name", "resume", "cover", "linkedin", "github", "portfolio", "eeo">>

Reads(f) == f.says \cup f.hints

Recognizes(rule, f) ==
  CASE rule = "email" -> rule \in Reads(f) \/ f.type = "email"
    [] rule = "phone" -> rule \in Reads(f) \/ f.type = "tel"
    [] rule = "name" -> rule \in Reads(f) /\ "other_name" \notin Reads(f)
    [] rule \in {"resume", "cover"} -> rule \in Reads(f) /\ f.type = "file"
    [] rule = "portfolio" -> rule \in Reads(f) \/ f.type = "url"
    [] rule = "eeo" -> rule \in f.says
    [] OTHER -> rule \in Reads(f)

Matching(f) == {i \in DOMAIN Rules : Recognizes(Rules[i], f)}
Rule(f) == Rules[CHOOSE i \in Matching(f) : \A j \in Matching(f) : i <= j]

\* A cover letter is offered without a value: the runner finds the file.
FromProfile(rule) ==
  CASE rule = "cover" -> Offered("none")
    [] rule = "eeo" -> Offered(IF rule \in Profile THEN "profile" ELSE "decline")
    [] rule = "resume" -> IF rule \in Profile THEN Offered("path") ELSE NeedsUser
    [] OTHER -> IF rule \in Profile THEN Offered("profile") ELSE NeedsUser

\* A field the model left out, or was not asked because the call failed, is the user's.
Generated(f, reply) == IF f.id \in DOMAIN reply THEN reply[f.id] ELSE NeedsUser

Banked(f) == ~Blank(f) /\ f.asks \in Bank

Answered(f, reply) ==
  IF Blank(f) THEN NeedsUser
  ELSE IF Banked(f) THEN Offered("answer") ELSE Generated(f, reply)

\* Mutant of Ladder: what the profile knows needs no person.
ProfileFirst(f, reply) ==
  IF Matching(f) # {} THEN FromProfile(Rule(f))
  ELSE IF Forced(f) THEN NeedsUser ELSE Answered(f, reply)

Ladder(f, reply) ==
  IF Forced(f) THEN NeedsUser
  ELSE IF Matching(f) # {} THEN FromProfile(Rule(f)) ELSE Answered(f, reply)

\* The pass of propose_values that proposes for the field.
Pass(f) == IF Forced(f) \/ Matching(f) # {} THEN 1 ELSE IF Blank(f) \/ Banked(f) THEN 2 ELSE 3

\* Of the fields with an id, the one whose proposal is written last.
SameId(i) == {j \in DOMAIN Page : Page[j].id = Page[i].id}
Winner(i) ==
  CHOOSE j \in SameId(i) : \A k \in SameId(i) :
    Pass(Page[k]) < Pass(Page[j]) \/ (Pass(Page[k]) = Pass(Page[j]) /\ k <= j)

Proposed(i, reply) == Ladder(Page[Winner(i)], reply)

-----------------------------------------------------------------------------
(* The runner: its own copies of the files, then the page *)

\* fields_by_id keeps the last field of an id.
Target(i) == CHOOSE j \in SameId(i) : \A k \in SameId(i) : k <= j

WantsLetter(f) == f.type = "file" /\ "cover" \in Reads(f)
LetterWanted == \E i \in DOMAIN Page : WantsLetter(Page[Target(i)])

\* _localize_file_proposals.  No code sets an application's resume_path: the
\* server has no resume to send, and the field is the user's.
Localized(f, p, found) ==
  IF f.type # "file" \/ (Shared /\ p.value = "path") THEN p
  ELSE IF WantsLetter(f) THEN (IF found THEN Offered("local") ELSE NeedsUser)
  ELSE IF "resume" \in Reads(f) THEN NeedsUser ELSE p

\* _fill_field: a file input takes only a file, and a radio button no text.  A
\* proposal without a value empties the field.
Fills(f, p) ==
  /\ ~p.user
  /\ f.type # "radio"
  /\ f.type = "file" => p.value \in {"path", "local"}

FieldWrite == [field : DOMAIN Page, value : Values]

Proposals(found, reply) ==
  [i \in DOMAIN Page |-> Localized(Page[Target(i)], Proposed(i, reply), found)]

\* apply_proposals: each proposal on its own, whatever became of the others.
Filled(proposals) ==
  {[field |-> Target(i), value |-> proposals[i].value] :
     i \in {j \in DOMAIN Page : Fills(Page[Target(j)], proposals[j])}}

\* What a fill may write, with and without the letter found.
PageFills ==
  {[found |-> found, writes |-> Filled(Proposals(found, reply))] :
     found \in BOOLEAN, reply \in Replies}
=============================================================================

------------------------------- MODULE MCAssist -------------------------------
(* Apply assist on small instances. *)
EXTENDS Assist

\* A form step, a step of the user's and the review.
ShortPlaybook == <<W(FALSE), W(TRUE), ReviewStep>>
AllOps == Kinds
AllButtons == {"pause", "fill", "next"}

\* A page with a field for every rung of the ladder.  The signature asks for a
\* name, and the consent has been answered before.  A file input asks for a
\* signed cover letter.  Boxes of one name are a question with a stored answer
\* between two certifications, and two that are both the user's.
F(id, type, says, asks) == [id |-> id, type |-> type, says |-> says, hints |-> {}, asks |-> asks]
FullPage ==
  <<F("email", "text", {"email"}, "email"),
    F("sign", "text", {"attest", "name"}, "signature"),
    F("agree", "checkbox", {"attest"}, "consent"),
    F("human", "text", {"captcha"}, "human"),
    F("phone", "tel", {}, "reach"),
    F("cv", "file", {"resume"}, "cv"),
    F("letter", "file", {"cover"}, "letter"),
    F("signed", "file", {"attest", "cover"}, "signed letter"),
    F("terms", "checkbox", {"attest"}, "terms"),
    F("terms", "checkbox", {}, "salary"),
    F("terms", "checkbox", {"attest"}, "terms"),
    F("both", "checkbox", {"attest"}, "both"),
    F("both", "checkbox", {"captcha"}, "both"),
    F("gender", "select", {"eeo"}, "gender"),
    F("why", "textarea", {}, "why"),
    F("when", "text", {}, "start"),
    F("bare", "text", {}, "")>>
KnownFacts == {"email", "name", "resume"}
KnownAnswers == {"salary", "consent"}

\* The model answers what it was not asked, and leaves one question out.
Reply == [id \in {Page[i].id : i \in DOMAIN Page} \ {"when"} |-> Offered("reply")]
OneReply == {Reply}
=============================================================================

---------------------------- MODULE MCJobBoards ----------------------------
EXTENDS JobBoards, TLC
CONSTANTS s1, s2, s3, acme, bolt, cog

Kinds == s1 :> "greenhouse" @@ s2 :> "smartrecruiters" @@ s3 :> "lever"
BoardOwners == s1 :> {acme} @@ s2 :> {bolt} @@ s3 :> {}

Named(n) == [name |-> n, domain |-> None, slugs |-> <<>>, html |-> None,
             careers |-> None, claim |-> None]

Acme == [Named(acme) EXCEPT !.slugs = <<{s1}>>]
Bolt == [Named(bolt) EXCEPT !.domain = bolt, !.html = s2,
                            !.claim = [site |-> s2, url |-> FALSE, sure |-> 90]]

\* A company whose guessed slug is Acme's board.
Cog  == [Named(cog) EXCEPT !.slugs = <<{s1}>>]

GuardEntries == {Acme, Bolt, Cog}
GuardWatched == <<Acme>>
GuardOpening == {s1 :> <<1>> @@ s2 :> <<1, 2>> @@ s3 :> <<1>>}
=============================================================================

----------------------------- MODULE MCPackages -----------------------------
(* Packages on small instances for TLC. *)
EXTENDS Packages, TLC

CONSTANTS c1, c2, n1, n2, o1

Mailed(ships, signal) == [ships |-> ships, signal |-> signal]
Parcel(carrier, number) == [carrier |-> carrier, number |-> number, order |-> o1]

\* Order confirmed, its carrier named or not; shipped under a number; delivered;
\* one mail about two parcels.
Ordered == Mailed(<<Parcel(c2, None)>>, "pending")
Cued == Mailed(<<Parcel(c1, None)>>, "pending")
Shipped == Mailed(<<Parcel(c1, n1)>>, "in_transit")
Arrived == Mailed(<<Parcel(c1, n1)>>, "delivered")
Split == Mailed(<<Parcel(c1, n1), Parcel(c1, n2)>>, None)

GuardContents == {Ordered, Cued, Shipped}
ScanContents == {Ordered, Split}
TerminalContents == {Shipped, Arrived}

Symmetry == Permutations(Scanners)

=============================================================================

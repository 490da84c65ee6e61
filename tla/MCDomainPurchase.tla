-------------------------- MODULE MCDomainPurchase --------------------------
(* DomainPurchase on small instances for TLC. *)
EXTENDS DomainPurchase

\* A standard name with a dearer renewal, a registrar bug (no price), and a name
\* whose dearer renewal the registrar does not state.
StandardOffers ==
  {[price |-> 1, renewal |-> 2, owed |-> 2, premium |-> FALSE],
   [price |-> 0, renewal |-> 1, owed |-> 1, premium |-> FALSE],
   [price |-> 1, renewal |-> Unquoted, owed |-> 3, premium |-> FALSE]}

=============================================================================

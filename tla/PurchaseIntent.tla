---------------------------- MODULE PurchaseIntent ----------------------------
(***************************************************************************)
(* What a purchase row promises the owner who reads it: an attempt for a   *)
(* quote is recorded before the registrar hears of it, gets one answer,    *)
(* and only the answer "unknown" may later be corrected, to "succeeded".   *)
(***************************************************************************)
CONSTANT Intents

VARIABLE status

Init == status = [q \in Intents |-> "none"]

Submit(q) ==
  /\ status[q] = "none"
  /\ status' = [status EXCEPT ![q] = "pending"]

Answer(q) ==
  /\ status[q] = "pending"
  /\ \E s \in {"succeeded", "failed", "unknown"} : status' = [status EXCEPT ![q] = s]

\* One reconciliation may resolve several intents.
Resolve ==
  \E Q \in SUBSET {q \in Intents : status[q] = "unknown"} :
    status' = [q \in Intents |-> IF q \in Q THEN "succeeded" ELSE status[q]]

Next == Resolve \/ \E q \in Intents : Submit(q) \/ Answer(q)

Spec == Init /\ [][Next]_status

=============================================================================

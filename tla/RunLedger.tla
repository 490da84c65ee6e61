------------------------------ MODULE RunLedger ------------------------------
(***************************************************************************)
(* What the run table promises its readers (the dashboard, the history     *)
(* page, the 409 of a second trigger): runs are opened one at a time, each *)
(* opened run is closed exactly once, and a closed run stays closed.       *)
(***************************************************************************)
VARIABLES
  open,     \* runs in flight
  closed    \* runs with a terminal status

ledger == <<open, closed>>

Init == open = {} /\ closed = {}

\* Nothing may be opened while something is open.
Open ==
  /\ open = {}
  /\ \E i \in open' : i \notin closed /\ open' = {i}
  /\ UNCHANGED closed

Close ==
  \E i \in open :
    /\ open' = open \ {i}
    /\ closed' = closed \cup {i}

Next == Open \/ Close

Spec == Init /\ [][Next]_ledger

=============================================================================

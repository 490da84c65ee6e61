--------------------------- MODULE MCConnections ---------------------------
(* Connections on small instances for TLC. *)
EXTENDS Connections

AllOps == {"create", "delete", "update", "page", "run", "rotate"}
CreateOps == {"create", "run"}

=============================================================================

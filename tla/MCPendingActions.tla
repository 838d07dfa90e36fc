-------------------------- MODULE MCPendingActions --------------------------
(***************************************************************************)
(* Two actions, so that a handler can meet another entry in the same file  *)
(* and a blocking turn can run beside a parked proposal.                   *)
(***************************************************************************)
EXTENDS PendingActions
=============================================================================

----------------------------- MODULE MCMngrSend -----------------------------
(* Three turns on one agent, with one entry of narration before an answer. *)
EXTENDS MngrSend
=============================================================================

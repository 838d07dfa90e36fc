---------------------------- MODULE MCServiceOps ----------------------------
(***************************************************************************)
(* Two services, the first of them deployed in container 1.                *)
(***************************************************************************)
EXTENDS ServiceOps

CONSTANTS web, jobs

MCIds == {web, jobs}
MCInitial == [i \in MCIds |-> IF i = web THEN 1 ELSE None]
=============================================================================

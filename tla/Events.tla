------------------------------- MODULE Events -------------------------------
(***************************************************************************)
(* What happens in the environment of the hosts: calls, deployments,       *)
(* changes of the cluster, faults and crashes, counted up to a bound.      *)
(***************************************************************************)
EXTENDS Naturals

CONSTANTS None, MaxEvents

ASSUME EventsAssumption == MaxEvents \in Nat

VARIABLE events

Event == events < MaxEvents /\ events' = events + 1
=============================================================================

---------------------------- MODULE MCPrincipals ----------------------------
(* Two conversations and two overlapping spawn calls over three records and *)
(* two agents, with a cap of two.                                            *)
EXTENDS Principals, TLC

CONSTANTS n1, n2, c1, c2, s1, s2

MCNatives == {n1, n2}
MCConvs == {c1, c2}
MCSpawns == {s1, s2}
MCLiveness == BOOLEAN

Symmetry == Permutations(MCNatives) \cup Permutations(MCConvs) \cup Permutations(MCSpawns)
=============================================================================

------------------------------- MODULE MCRooms -------------------------------
(***************************************************************************)
(* Small instances of Rooms: two draft keys (one of them stands for the    *)
(* shared pending key), sessions from disk and sessions still to be        *)
(* created, and enough turns for two rooms to overlap and be reused.       *)
(***************************************************************************)
EXTENDS Rooms

CONSTANTS d1, d2, s0, s1, s2

MCKeys == {d1, d2, s0, s1, s2}
MCDrafts == {d1, d2}
MCSessions == {s0, s1, s2}
MCOnDisk == {s0}

\* Every session known from the start: the ids a colliding report may name.
SmallKeys == {d1, d2, s0, s1}
SmallSessions == {s0, s1}
=============================================================================

----------------------------- MODULE SerialTurns -----------------------------
(***************************************************************************)
(* What POST /messages promises, without lanes, aliases or session maps:   *)
(* every room has one line of turns.  The turn at its front is the only    *)
(* one that writes, and it writes the session of the room it stands in.    *)
(*                                                                         *)
(* A room is called by a draft key until its first turn has created a      *)
(* session, and by that session from then on.  When its line runs out the  *)
(* room is closed, and a draft key that led to it is free for a new room.  *)
(* The constants are those of Rooms, whose assumptions they satisfy.       *)
(***************************************************************************)
EXTENDS Naturals, Sequences

CONSTANTS Turns, Drafts, Sessions, OnDisk, NoTurn, NoSession

Names == Drafts \cup Sessions

VARIABLES front,    \* room -> the turn that runs, or NoTurn when it is closed
          behind,   \* room -> the turns behind it
          room,     \* name -> the room that turns posted under it go to
          writes,   \* turn -> the session it writes
          known,    \* sessions that exist
          accepted, \* turns posted
          done      \* turns settled

serialVars == <<front, behind, room, writes, known, accepted, done>>

\* The session a turn at the front of room r writes as it starts.
sessionOf(r) == IF r \in Sessions THEN r ELSE NoSession

Init ==
    /\ front = [r \in Names |-> NoTurn]
    /\ behind = [r \in Names |-> <<>>]
    /\ room = [n \in Names |-> n]
    /\ writes = [t \in Turns |-> NoSession]
    /\ known = OnDisk
    /\ accepted = {}
    /\ done = {}

\* A turn is posted, and runs at once when its room is closed.
Post(t, n) ==
    /\ t \notin accepted
    /\ n \in Drafts \cup known
    /\ accepted' = accepted \cup {t}
    /\ \/ /\ front[room[n]] = NoTurn
          /\ front' = [front EXCEPT ![room[n]] = t]
          /\ writes' = [writes EXCEPT ![t] = sessionOf(room[n])]
          /\ UNCHANGED behind
       \/ /\ front[room[n]] # NoTurn
          /\ behind' = [behind EXCEPT ![room[n]] = Append(@, t)]
          /\ UNCHANGED <<front, writes>>
    /\ UNCHANGED <<room, known, done>>

\* The turn at the front of a draft room has created session s.
Name(d, s) ==
    /\ front[d] # NoTurn
    /\ s \notin known
    /\ known' = known \cup {s}
    /\ front' = [front EXCEPT ![s] = front[d], ![d] = NoTurn]
    /\ behind' = [behind EXCEPT ![s] = behind[d], ![d] = <<>>]
    /\ room' = [room EXCEPT ![d] = s]
    /\ writes' = [writes EXCEPT ![front[d]] = s]
    /\ UNCHANGED <<accepted, done>>

\* The turn at the front settles, and the one behind it runs in the same room.
Finish(r) ==
    /\ front[r] # NoTurn
    /\ done' = done \cup {front[r]}
    /\ \/ /\ behind[r] # <<>>
          /\ front' = [front EXCEPT ![r] = Head(behind[r])]
          /\ behind' = [behind EXCEPT ![r] = Tail(@)]
          /\ writes' = [writes EXCEPT ![Head(behind[r])] = sessionOf(r)]
          /\ UNCHANGED room
       \/ /\ behind[r] = <<>>
          /\ front' = [front EXCEPT ![r] = NoTurn]
          /\ room' = [n \in Names |-> IF room[n] = r THEN n ELSE room[n]]
          /\ UNCHANGED <<behind, writes>>
    /\ UNCHANGED <<known, accepted>>

Next ==
    \/ \E t \in Turns, n \in Names : Post(t, n)
    \/ \E d \in Drafts, s \in Sessions : Name(d, s)
    \/ \E r \in Names : Finish(r)

Spec == Init /\ [][Next]_serialVars
=============================================================================

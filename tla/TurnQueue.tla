------------------------------ MODULE TurnQueue ------------------------------
(***************************************************************************)
(* The per-session FIFO of agent-host/src/queue.ts.                        *)
(*                                                                         *)
(* A lane holds the turns waiting under one key and the turn it executes.  *)
(* JavaScript runs every handler below without interruption: the only      *)
(* await is the one inside a turn, so a turn is in flight between the      *)
(* action that starts it and the Settle that ends it.                      *)
(*                                                                         *)
(* The two Maps are total functions here.  A lane that is absent from      *)
(* `lanes` has no items and runs nothing; a key that is absent from        *)
(* `alias` is mapped to itself.                                            *)
(***************************************************************************)
EXTENDS Naturals, Sequences

CONSTANTS Turns,   \* the turns that may be posted, numbered as they arrive
          Keys,    \* lane keys: draft room keys and session ids
          NoTurn,  \* the lane is idle
          NoKey    \* the turn has not been posted

ASSUME TurnQueueAssumption ==
    /\ Turns \subseteq Nat
    /\ NoTurn \notin Turns
    /\ NoKey \notin Keys

VARIABLES items,     \* key -> turns waiting on the lane
          running,   \* key -> the turn the lane executes, or NoTurn
          alias,     \* key -> canonical key (single hop)
          drainKey,  \* turn -> the key `k` its drain() call captured
          postedAs,  \* turn -> the key it was enqueued under
          done       \* turns whose promise has settled

queueVars == <<items, running, alias, drainKey, postedAs, done>>

\* Mutant: aliases are never consulted.
canonForgetsAlias(k) == k

canon(k) == alias[k]

Busy(l) == items[l] # <<>> \/ running[l] # NoTurn

\* Mutant: the newest turn first (pop for shift).
drainNewestFirst(l, q) ==
    \/ /\ q # <<>>
       /\ items' = [items EXCEPT ![l] = SubSeq(q, 1, Len(q) - 1)]
       /\ running' = [running EXCEPT ![l] = q[Len(q)]]
       /\ drainKey' = [drainKey EXCEPT ![q[Len(q)]] = l]
       /\ UNCHANGED alias
    \/ /\ q = <<>>
       /\ running' = [running EXCEPT ![l] = NoTurn]
       /\ alias' = [k \in Keys |-> IF alias[k] = l THEN k ELSE alias[k]]
       /\ UNCHANGED <<items, drainKey>>

\* Mutant: the lane is dropped and its aliases stay.
drainKeepsAliases(l, q) ==
    \/ /\ q # <<>>
       /\ items' = [items EXCEPT ![l] = Tail(q)]
       /\ running' = [running EXCEPT ![l] = Head(q)]
       /\ drainKey' = [drainKey EXCEPT ![Head(q)] = l]
       /\ UNCHANGED alias
    \/ /\ q = <<>>
       /\ running' = [running EXCEPT ![l] = NoTurn]
       /\ UNCHANGED <<items, alias, drainKey>>

\* The rest of drain() once the lane at key l has been found idle, with its
\* items equal to q: start the head of q, or drop the lane and every alias
\* that points at it.
drain(l, q) ==
    \/ /\ q # <<>>
       /\ items' = [items EXCEPT ![l] = Tail(q)]
       /\ running' = [running EXCEPT ![l] = Head(q)]
       /\ drainKey' = [drainKey EXCEPT ![Head(q)] = l]
       /\ UNCHANGED alias
    \/ /\ q = <<>>
       /\ running' = [running EXCEPT ![l] = NoTurn]
       /\ alias' = [k \in Keys |-> IF alias[k] = l THEN k ELSE alias[k]]
       /\ UNCHANGED <<items, drainKey>>

QueueInit ==
    /\ items = [k \in Keys |-> <<>>]
    /\ running = [k \in Keys |-> NoTurn]
    /\ alias = [k \in Keys |-> k]
    /\ drainKey = [t \in Turns |-> NoKey]
    /\ postedAs = [t \in Turns |-> NoKey]
    /\ done = {}

\* enqueue(key, run): append to the canonical lane and drain it, which starts
\* the turn at once when the lane was idle.
enqueue(t, k) ==
    /\ postedAs[t] = NoKey
    /\ \A u \in Turns : u < t => postedAs[u] # NoKey
    /\ postedAs' = [postedAs EXCEPT ![t] = k]
    /\ UNCHANGED done
    /\ LET l == canon(k) IN
       \/ /\ running[l] # NoTurn
          /\ items' = [items EXCEPT ![l] = Append(@, t)]
          /\ UNCHANGED <<running, alias, drainKey>>
       \/ /\ running[l] = NoTurn
          /\ drain(l, Append(items[l], t))

\* Mutant: a busy destination does not stop the move.
rekeyNeverRefused(f, t) == FALSE

\* Both lanes exist and one of them executes a turn: the move is refused.
rekeyRefused(f, t) == Busy(f) /\ Busy(t) /\ (running[f] # NoTurn \/ running[t] # NoTurn)

\* rekey(from, to).  When both lanes exist and one of them executes a turn the
\* call does nothing at all; otherwise the lane object moves (its waiting turns
\* go in front of those of an idle destination) and every alias of the old key
\* follows it.  The drain(t) at the end of the code finds the moved lane running,
\* or no lane, because a lane that holds turns always executes one.
rekey(from, to) ==
    LET f == canon(from)
        t == canon(to)
    IN IF f = t \/ rekeyRefused(f, t)
       THEN UNCHANGED <<items, running, alias>>
       ELSE /\ items' = [items EXCEPT ![t] = items[f] \o @, ![f] = <<>>]
            /\ running' = [running EXCEPT ![t] = IF running[f] = NoTurn THEN @ ELSE running[f],
                                          ![f] = NoTurn]
            /\ alias' = [k \in Keys |-> IF alias[k] = f THEN t ELSE alias[k]]

\* Mutant: the finally block does not go on with the next turn.
settleWithoutDrain(l) ==
    /\ running[l] # NoTurn
    /\ done' = done \cup {running[l]}
    /\ running' = [running EXCEPT ![l] = NoTurn]
    /\ UNCHANGED <<items, alias, drainKey, postedAs>>

\* The finally block of drain(): the turn of lane l has settled.  The flag is
\* cleared on the Lane object (l), but the next drain() looks its lane up again
\* through the key the call captured when it started (drainKey), so a lane is
\* wedged the moment the aliases lead that key anywhere else.
settle(l) ==
    /\ running[l] # NoTurn
    /\ done' = done \cup {running[l]}
    /\ UNCHANGED postedAs
    /\ IF canon(drainKey[running[l]]) = l
       THEN drain(l, items[l])
       ELSE /\ running' = [running EXCEPT ![l] = NoTurn]
            /\ UNCHANGED <<items, alias, drainKey>>

-----------------------------------------------------------------------------

RunningTurns == {running[l] : l \in Keys} \ {NoTurn}

Started == done \cup RunningTurns

QueueTypeOK ==
    /\ items \in [Keys -> Seq(Turns)]
    /\ running \in [Keys -> Turns \cup {NoTurn}]
    /\ alias \in [Keys -> Keys]
    /\ drainKey \in [Turns -> Keys \cup {NoKey}]
    /\ postedAs \in [Turns -> Keys \cup {NoKey}]
    /\ done \subseteq Turns

\* Aliases are single-hop and never shadow a lane: a key that is redirected
\* holds no lane of its own (a lane under it could not be reached any more),
\* and the key it leads to is not redirected again.
AliasesReachLanes ==
    \A k \in Keys : alias[k] # k => ~Busy(k) /\ alias[alias[k]] = alias[k] /\ Busy(alias[k])

\* Turns posted under one key start in the order in which they arrived,
\* whatever lane the key has been moved to in between.
ArrivalOrder ==
    \A t, u \in Turns :
        t < u /\ u \in Started /\ postedAs[t] = postedAs[u] => t \in Started

\* A lane with turns waiting is executing one, so nothing waits behind a lane
\* that no settlement will ever drain (the wedge of queue.ts:126-132).
NoWedgedLane == \A l \in Keys : items[l] # <<>> => running[l] # NoTurn
=============================================================================

----------------------------- MODULE RoomsProofs -----------------------------
(***************************************************************************)
(* Proofs about rooms, for every set of turns, draft keys and sessions.    *)
(* What the queue promises holds whatever the backend reports; what a room *)
(* promises needs a backend that reports sessions as "stable" says.        *)
(*                                                                         *)
(* First, what the queue's operations preserve, whoever calls them with    *)
(* whatever keys; then the rooms that call them; last, the refinement.     *)
(***************************************************************************)
EXTENDS Rooms, SequenceTheorems, TLAPS

\* The key a turn was posted under leads to the lane the turn waits or runs in.
TurnsKnowTheirLane ==
    \A l \in Keys :
        /\ running[l] # NoTurn => /\ postedAs[running[l]] \in Keys
                                  /\ alias[postedAs[running[l]]] = l
        /\ \A i \in 1..Len(items[l]) : /\ postedAs[items[l][i]] \in Keys
                                       /\ alias[postedAs[items[l][i]]] = l

\* The key a drain captured leads to the lane object whose flag it will clear.
DrainsKnowTheirLane ==
    \A l \in Keys : running[l] # NoTurn => /\ drainKey[running[l]] \in Keys
                                           /\ alias[drainKey[running[l]]] = l

QInv ==
    /\ QueueTypeOK
    /\ NoWedgedLane
    /\ AliasesReachLanes
    /\ TurnsKnowTheirLane
    /\ DrainsKnowTheirLane

\* A turn is in one place: no lane holds it twice, none holds one that is done.
TurnsAreDistinct ==
    /\ \A t \in done : postedAs[t] # NoKey
    /\ \A l \in Keys :
          /\ running[l] \notin done
          /\ \A i \in 1..Len(items[l]) :
                /\ items[l][i] \notin done
                /\ items[l][i] # running[l]
                /\ \A j \in 1..Len(items[l]) : items[l][i] = items[l][j] => i = j

-----------------------------------------------------------------------------

LEMMA IdleLane ==
  ASSUME QInv, NEW l \in Keys, running[l] = NoTurn
  PROVE  items[l] = <<>> /\ ~Busy(l)
  BY DEF QInv, NoWedgedLane, Busy

LEMMA CanonIsFixed ==
  ASSUME QInv, NEW k \in Keys
  PROVE  /\ canon(k) \in Keys
         /\ alias[canon(k)] = canon(k)
         /\ ~Busy(canon(k)) => canon(k) = k
  BY DEF QInv, QueueTypeOK, AliasesReachLanes, canon

LEMMA BusyIsFixed ==
  ASSUME QInv, NEW l \in Keys, Busy(l)
  PROVE  alias[l] = l
  BY DEF QInv, AliasesReachLanes

LEMMA RunningIsTurn ==
  ASSUME QInv, NEW l \in Keys, running[l] # NoTurn
  PROVE  running[l] \in Turns /\ Busy(l)
  BY DEF QInv, QueueTypeOK, Busy

LEMMA ItemsAreTurns ==
  ASSUME QInv, NEW l \in Keys
  PROVE  /\ items[l] \in Seq(Turns)
         /\ Len(items[l]) \in Nat
         /\ \A i \in 1..Len(items[l]) : items[l][i] \in Turns
  BY LenProperties DEF QInv, QueueTypeOK

\* A turn runs in one lane only.
LEMMA OneLanePerTurn ==
  ASSUME QInv, NEW l \in Keys, NEW m \in Keys, running[l] = running[m], running[l] # NoTurn
  PROVE  l = m
  BY DEF QInv, TurnsKnowTheirLane

-----------------------------------------------------------------------------
(* What each operation amounts to in a state that satisfies the invariant. *)

Appended(t, l) ==
    /\ running[l] # NoTurn
    /\ items' = [items EXCEPT ![l] = Append(@, t)]
    /\ UNCHANGED <<running, alias, drainKey>>

StartedAtOnce(t, l) ==
    /\ running[l] = NoTurn
    /\ running' = [running EXCEPT ![l] = t]
    /\ drainKey' = [drainKey EXCEPT ![t] = l]
    /\ UNCHANGED <<items, alias>>

LEMMA EnqueueCases ==
  ASSUME QInv, NEW t \in Turns, NEW k \in Keys, enqueue(t, k)
  PROVE  Appended(t, canon(k)) \/ StartedAtOnce(t, canon(k))
<1> DEFINE l == canon(k)
<1>1. l \in Keys
  BY CanonIsFixed
<1>2. CASE running[l] # NoTurn
  BY <1>2 DEF enqueue, Appended
<1>3. CASE running[l] = NoTurn
  <2>1. items[l] = <<>>
    BY <1>1, <1>3, IdleLane
  <2>2. /\ Append(items[l], t) = <<t>> /\ <<t>> # <<>>
        /\ Head(<<t>>) = t /\ Tail(<<t>>) = <<>>
    BY <2>1
  <2>3. drain(l, <<t>>)
    BY <1>3, <2>2 DEF enqueue
  <2>4. items' = [items EXCEPT ![l] = <<>>]
    BY <2>2, <2>3 DEF drain
  <2>5. items' = items
    BY <2>1, <2>4, <1>1 DEF QInv, QueueTypeOK
  <2> QED
    BY <1>3, <2>2, <2>3, <2>5 DEF drain, StartedAtOnce
<1> QED
  BY <1>2, <1>3

MovesOn(l) ==
    /\ items[l] # <<>>
    /\ items' = [items EXCEPT ![l] = Tail(@)]
    /\ running' = [running EXCEPT ![l] = Head(items[l])]
    /\ drainKey' = [drainKey EXCEPT ![Head(items[l])] = l]
    /\ UNCHANGED alias

Dropped(l) ==
    /\ items[l] = <<>>
    /\ running' = [running EXCEPT ![l] = NoTurn]
    /\ alias' = [k \in Keys |-> IF alias[k] = l THEN k ELSE alias[k]]
    /\ UNCHANGED <<items, drainKey>>

\* A turn that settles finds its own lane again: the other branch of settle(),
\* which would wedge the lane, is dead.
LEMMA SettleCases ==
  ASSUME QInv, NEW l \in Keys, settle(l)
  PROVE  /\ canon(drainKey[running[l]]) = l
         /\ MovesOn(l) \/ Dropped(l)
  BY DEF QInv, DrainsKnowTheirLane, settle, canon, drain, MovesOn, Dropped

Moved(f, t) ==
    /\ Busy(f) /\ ~Busy(t) /\ f # t
    /\ items' = [items EXCEPT ![t] = items[f], ![f] = <<>>]
    /\ running' = [running EXCEPT ![t] = running[f], ![f] = NoTurn]
    /\ alias' = [k \in Keys |-> IF alias[k] = f THEN t ELSE alias[k]]

\* The lane of the running turn moves to a key that is not in use, or nothing
\* happens.
LEMMA RekeyCases ==
  ASSUME QInv, NEW l \in Keys, NEW to \in Keys, running[l] # NoTurn,
         rekey(postedAs[running[l]], to)
  PROVE  \/ UNCHANGED <<items, running, alias>>
         \/ Moved(l, to) /\ alias[to] = to
<1> DEFINE t == canon(to)
<1>1. canon(postedAs[running[l]]) = l
  BY DEF QInv, TurnsKnowTheirLane, canon
<1>2. t \in Keys /\ (~Busy(t) => t = to) /\ alias[t] = t
  BY CanonIsFixed
<1>3. Busy(l)
  BY RunningIsTurn
<1>4. CASE l = t \/ Busy(t)
  BY <1>1, <1>3, <1>4 DEF rekey, rekeyRefused
<1>5. CASE l # t /\ ~Busy(t)
  <2>1. items[t] = <<>>
    BY <1>5 DEF Busy
  <2>2. items[l] \o items[t] = items[l]
    BY <2>1, ItemsAreTurns, ConcatEmptySeq
  <2>3. ~rekeyRefused(l, t)
    BY <1>5 DEF rekeyRefused
  <2>4. /\ items' = [items EXCEPT ![t] = items[l] \o @, ![l] = <<>>]
        /\ running' = [running EXCEPT ![t] = IF running[l] = NoTurn THEN @ ELSE running[l],
                                      ![l] = NoTurn]
        /\ alias' = [k \in Keys |-> IF alias[k] = l THEN t ELSE alias[k]]
    BY <1>1, <1>5, <2>3 DEF rekey
  <2>5. items' = [items EXCEPT ![t] = items[l], ![l] = <<>>]
    BY <2>2, <2>4, <1>2 DEF QInv, QueueTypeOK
  <2>6. running' = [running EXCEPT ![t] = running[l], ![l] = NoTurn]
    BY <2>4, <1>2 DEF QInv, QueueTypeOK
  <2> QED
    BY <1>2, <1>3, <1>5, <2>4, <2>5, <2>6 DEF Moved
<1> QED
  BY <1>4, <1>5

-----------------------------------------------------------------------------
(* Every operation preserves the invariant. *)

LEMMA TailOfLane ==
  ASSUME QInv, NEW l \in Keys, items[l] # <<>>
  PROVE  /\ Head(items[l]) \in Turns
         /\ Head(items[l]) = items[l][1]
         /\ Tail(items[l]) \in Seq(Turns)
         /\ Len(items[l]) >= 1
         /\ Len(Tail(items[l])) = Len(items[l]) - 1
         /\ \A i \in 1..Len(Tail(items[l])) : Tail(items[l])[i] = items[l][i + 1]
  BY ItemsAreTurns, HeadTailProperties, EmptySeq

LEMMA EnqueueQ ==
  ASSUME QInv, NEW t \in Turns, NEW k \in Keys, enqueue(t, k)
  PROVE  QInv'
<1>0. PICK l \in Keys : l = canon(k)
  BY CanonIsFixed
<1>1. /\ alias[k] = l /\ alias[l] = l
      /\ postedAs[t] = NoKey /\ postedAs' = [postedAs EXCEPT ![t] = k] /\ done' = done
  BY <1>0, CanonIsFixed DEF enqueue, canon
<1>2. k # NoKey /\ t # NoTurn /\ NoKey \notin Keys
  BY TurnQueueAssumption
<1>3. CASE Appended(t, l)
  <2> USE DEF Appended
  <2> DEFINE s == Append(items[l], t)
  <2>1. /\ s \in Seq(Turns) /\ s # <<>> /\ Len(s) = Len(items[l]) + 1 /\ Len(items[l]) \in Nat
        /\ \A i \in 1..Len(items[l]) : s[i] = items[l][i]
        /\ s[Len(items[l]) + 1] = t
    BY <1>1, ItemsAreTurns, AppendProperties
  <2>2. items'[l] = s /\ \A m \in Keys \ {l} : items'[m] = items[m]
    BY <1>1, <1>3 DEF QInv, QueueTypeOK
  <2>3. \A m \in Keys : Busy(m)' <=> Busy(m)
    BY <1>1, <1>3, <2>1, <2>2 DEF Busy
  <2>4. QueueTypeOK'
    BY <1>1, <1>3, <2>1 DEF QInv, QueueTypeOK
  <2>5. NoWedgedLane' /\ DrainsKnowTheirLane'
    BY <1>3, <2>2 DEF QInv, NoWedgedLane, DrainsKnowTheirLane
  <2>6. AliasesReachLanes'
    BY <1>3, <2>3 DEF QInv, AliasesReachLanes, QueueTypeOK
  <2>7. TurnsKnowTheirLane'
    <3> SUFFICES ASSUME NEW m \in Keys
                 PROVE /\ running[m] # NoTurn => postedAs'[running[m]] \in Keys /\ alias[postedAs'[running[m]]] = m
                       /\ \A i \in 1..Len(items'[m]) : postedAs'[items'[m][i]] \in Keys
                                                      /\ alias[postedAs'[items'[m][i]]] = m
      BY <1>3 DEF TurnsKnowTheirLane
    <3>1. running[m] # NoTurn => postedAs'[running[m]] \in Keys /\ alias[postedAs'[running[m]]] = m
      BY <1>1, <1>2 DEF QInv, QueueTypeOK, TurnsKnowTheirLane
    <3>2. ASSUME NEW i \in 1..Len(items[m])
          PROVE  postedAs'[items[m][i]] \in Keys /\ alias[postedAs'[items[m][i]]] = m
      BY <1>1, <1>2, ItemsAreTurns DEF QInv, QueueTypeOK, TurnsKnowTheirLane
    <3>3. CASE m # l
      BY <2>2, <3>1, <3>2, <3>3
    <3>4. CASE m = l
      <4>1. postedAs'[t] = k
        BY <1>1 DEF QInv, QueueTypeOK
      <4>2. ASSUME NEW i \in 1..Len(items'[m])
            PROVE  postedAs'[items'[m][i]] \in Keys /\ alias[postedAs'[items'[m][i]]] = m
        <5> HIDE DEF s
        <5>1. items'[m] = s
          BY <2>2, <3>4
        <5>2. i = Len(items[l]) + 1 \/ i \in 1..Len(items[l])
          BY <2>1, <5>1
        <5>3. CASE i = Len(items[l]) + 1
          BY <1>1, <2>1, <3>4, <4>1, <5>1, <5>3
        <5>4. CASE i \in 1..Len(items[l])
          BY <2>1, <3>2, <3>4, <5>1, <5>4
        <5> QED
          BY <5>2, <5>3, <5>4
      <4> QED
        BY <3>1, <4>2
    <3> QED
      BY <3>3, <3>4
  <2> QED
    BY <2>4, <2>5, <2>6, <2>7 DEF QInv
<1>4. CASE StartedAtOnce(t, l)
  <2> USE DEF StartedAtOnce
  <2>1. items[l] = <<>> /\ ~Busy(l)
    BY <1>1, <1>4, IdleLane
  <2>2. l = k
    BY <1>0, <2>1, CanonIsFixed
  <2>3. running'[l] = t /\ \A m \in Keys \ {l} : running'[m] = running[m]
    BY <1>1, <1>4 DEF QInv, QueueTypeOK
  <2>4. Busy(l)' /\ \A m \in Keys \ {l} : Busy(m)' <=> Busy(m)
    BY <1>1, <1>2, <1>4, <2>3 DEF Busy
  <2>5. QueueTypeOK'
    BY <1>1, <1>4 DEF QInv, QueueTypeOK
  <2>6. NoWedgedLane'
    BY <1>4, <2>1, <2>3 DEF QInv, NoWedgedLane
  <2>7. AliasesReachLanes'
    BY <1>1, <1>4, <2>1, <2>4 DEF QInv, AliasesReachLanes, QueueTypeOK
  <2>8. DrainsKnowTheirLane'
    BY <1>1, <1>2, <1>4, <2>3 DEF QInv, DrainsKnowTheirLane, TurnsKnowTheirLane, QueueTypeOK
  <2>9. TurnsKnowTheirLane'
    <3> SUFFICES ASSUME NEW m \in Keys
                 PROVE /\ running'[m] # NoTurn => postedAs'[running'[m]] \in Keys /\ alias[postedAs'[running'[m]]] = m
                       /\ \A i \in 1..Len(items[m]) : postedAs'[items[m][i]] \in Keys
                                                      /\ alias[postedAs'[items[m][i]]] = m
      BY <1>4 DEF TurnsKnowTheirLane
    <3>1. running'[m] # NoTurn => postedAs'[running'[m]] \in Keys /\ alias[postedAs'[running'[m]]] = m
      <4>1. CASE m = l
        BY <1>1, <2>3, <4>1 DEF QInv, QueueTypeOK
      <4>2. CASE m # l
        BY <1>1, <1>2, <2>3, <4>2 DEF QInv, QueueTypeOK, TurnsKnowTheirLane
      <4> QED
        BY <4>1, <4>2
    <3>2. ASSUME NEW i \in 1..Len(items[m])
          PROVE  postedAs'[items[m][i]] \in Keys /\ alias[postedAs'[items[m][i]]] = m
      BY <1>1, <1>2, ItemsAreTurns DEF QInv, QueueTypeOK, TurnsKnowTheirLane
    <3> QED
      BY <3>1, <3>2
  <2> QED
    BY <2>5, <2>6, <2>7, <2>8, <2>9 DEF QInv
<1> QED
  BY <1>0, <1>3, <1>4, EnqueueCases

LEMMA SettleQ ==
  ASSUME QInv, NEW l \in Keys, settle(l)
  PROVE  QInv'
<1>1. /\ running[l] # NoTurn /\ running[l] \in Turns /\ Busy(l) /\ alias[l] = l
      /\ done' = done \cup {running[l]} /\ postedAs' = postedAs
  BY RunningIsTurn, BusyIsFixed DEF settle
<1>2. NoTurn \notin Turns
  BY TurnQueueAssumption
<1>3. CASE MovesOn(l)
  <2> USE DEF MovesOn
  <2> DEFINE h == Head(items[l])
  <2>1. /\ items'[l] = Tail(items[l]) /\ running'[l] = h
        /\ \A m \in Keys \ {l} : items'[m] = items[m] /\ running'[m] = running[m]
    BY <1>3 DEF QInv, QueueTypeOK
  <2>2. \A m \in Keys : Busy(m)' <=> Busy(m)
    BY <1>1, <1>2, <1>3, <2>1, TailOfLane DEF Busy
  <2>3. QueueTypeOK'
    BY <1>1, <1>3, TailOfLane DEF QInv, QueueTypeOK
  <2>4. NoWedgedLane'
    BY <1>2, <1>3, <2>1, TailOfLane DEF QInv, NoWedgedLane
  <2>5. AliasesReachLanes'
    BY <1>3, <2>2 DEF QInv, AliasesReachLanes, QueueTypeOK
  <2>6. h = items[l][1] /\ 1 \in 1..Len(items[l])
    BY <1>3, TailOfLane, ItemsAreTurns
  <2>7. postedAs[h] \in Keys /\ alias[postedAs[h]] = l
    BY <2>6 DEF QInv, TurnsKnowTheirLane
  <2>8. \A m \in Keys \ {l} : running[m] # NoTurn => running[m] # h
    BY <2>7 DEF QInv, TurnsKnowTheirLane
  <2>9. DrainsKnowTheirLane'
    BY <1>1, <1>3, <2>1, <2>8, TailOfLane DEF QInv, DrainsKnowTheirLane, QueueTypeOK
  <2>10. TurnsKnowTheirLane'
    <3> SUFFICES ASSUME NEW m \in Keys
                 PROVE /\ running'[m] # NoTurn => postedAs[running'[m]] \in Keys /\ alias[postedAs[running'[m]]] = m
                       /\ \A i \in 1..Len(items'[m]) : postedAs[items'[m][i]] \in Keys
                                                       /\ alias[postedAs[items'[m][i]]] = m
      BY <1>1, <1>3 DEF TurnsKnowTheirLane
    <3>1. CASE m # l
      BY <2>1, <3>1 DEF QInv, TurnsKnowTheirLane
    <3>2. CASE m = l
      <4>1. ASSUME NEW i \in 1..Len(items'[l])
            PROVE postedAs[items'[l][i]] \in Keys /\ alias[postedAs[items'[l][i]]] = l
        <5>1. i + 1 \in 1..Len(items[l]) /\ items'[l][i] = items[l][i + 1]
          <6>1. /\ Len(items[l]) \in Nat /\ i \in 1..Len(Tail(items[l]))
                /\ Len(Tail(items[l])) = Len(items[l]) - 1
            BY <1>3, <2>1, TailOfLane, ItemsAreTurns
          <6>2. Tail(items[l])[i] = items[l][i + 1]
            BY <1>3, <6>1, TailOfLane
          <6> QED
            BY <2>1, <6>1, <6>2
        <5> QED
          BY <5>1 DEF QInv, TurnsKnowTheirLane
      <4> QED
        BY <2>1, <2>7, <3>2, <4>1
    <3> QED
      BY <3>1, <3>2
  <2> QED
    BY <2>3, <2>4, <2>5, <2>9, <2>10 DEF QInv
<1>4. CASE Dropped(l)
  <2> USE DEF Dropped
  <2>1. running'[l] = NoTurn /\ \A m \in Keys \ {l} : running'[m] = running[m]
    BY <1>4 DEF QInv, QueueTypeOK
  <2>2. /\ ~Busy(l)'
        /\ \A m \in Keys \ {l} : Busy(m)' <=> Busy(m)
    BY <1>4, <2>1 DEF Busy
  <2>3. \A k \in Keys : alias'[k] = IF alias[k] = l THEN k ELSE alias[k]
    BY <1>4
  <2>4. QueueTypeOK'
    BY <1>1, <1>4 DEF QInv, QueueTypeOK
  <2>5. NoWedgedLane'
    BY <1>4, <2>1 DEF QInv, NoWedgedLane
  <2>6. AliasesReachLanes'
    BY <2>2, <2>3 DEF QInv, AliasesReachLanes, QueueTypeOK
  <2>7. DrainsKnowTheirLane'
    BY <1>4, <2>1, <2>3 DEF QInv, DrainsKnowTheirLane, QueueTypeOK
  <2>8. TurnsKnowTheirLane'
    <3> SUFFICES ASSUME NEW m \in Keys
                 PROVE /\ running'[m] # NoTurn => postedAs[running'[m]] \in Keys /\ alias'[postedAs[running'[m]]] = m
                       /\ \A i \in 1..Len(items[m]) : postedAs[items[m][i]] \in Keys
                                                      /\ alias'[postedAs[items[m][i]]] = m
      BY <1>1, <1>4 DEF TurnsKnowTheirLane
    <3>1. CASE m # l
      BY <2>1, <2>3, <3>1 DEF QInv, TurnsKnowTheirLane
    <3>2. CASE m = l
      BY <1>4, <2>1, <3>2, EmptySeq
    <3> QED
      BY <3>1, <3>2
  <2> QED
    BY <2>4, <2>5, <2>6, <2>7, <2>8 DEF QInv
<1> QED
  BY <1>3, <1>4, SettleCases

LEMMA RekeyQ ==
  ASSUME QInv, NEW l \in Keys, NEW to \in Keys, running[l] # NoTurn,
         rekey(postedAs[running[l]], to), UNCHANGED <<drainKey, postedAs, done>>
  PROVE  QInv'
<1>1. CASE UNCHANGED <<items, running, alias>>
  BY <1>1 DEF QInv, QueueTypeOK, NoWedgedLane, AliasesReachLanes, Busy, TurnsKnowTheirLane,
              DrainsKnowTheirLane
<1>2. CASE Moved(l, to) /\ alias[to] = to
  <2> USE DEF Moved
  <2>1. /\ items'[to] = items[l] /\ running'[to] = running[l]
        /\ items'[l] = <<>> /\ running'[l] = NoTurn
        /\ \A m \in Keys \ {l, to} : items'[m] = items[m] /\ running'[m] = running[m]
    BY <1>2 DEF QInv, QueueTypeOK
  <2>2. /\ Busy(to)' /\ ~Busy(l)'
        /\ \A m \in Keys \ {l, to} : Busy(m)' <=> Busy(m)
    BY <1>2, <2>1 DEF Busy
  <2>3. \A k \in Keys : alias'[k] = IF alias[k] = l THEN to ELSE alias[k]
    BY <1>2
  <2>4. QueueTypeOK'
    <3>1. <<>> \in Seq(Turns)
      BY EmptySeq
    <3> QED
      BY <1>2, <3>1 DEF QInv, QueueTypeOK
  <2>5. NoWedgedLane'
    BY <2>1 DEF QInv, NoWedgedLane
  <2>6. alias[l] = l
    BY <1>2, BusyIsFixed
  <2>7. AliasesReachLanes'
    <3> SUFFICES ASSUME NEW k \in Keys, alias'[k] # k
                 PROVE (~Busy(k) /\ alias[alias[k]] = alias[k] /\ Busy(alias[k]))'
      BY DEF AliasesReachLanes
    <3>1. CASE alias[k] = l
      <4>1. alias'[k] = to /\ alias'[to] = to /\ k # to
        BY <1>2, <2>3, <2>6, <3>1
      <4>2. ~Busy(k)'
        BY <2>1, <2>2, <2>6, <3>1, <4>1 DEF QInv, AliasesReachLanes, Busy
      <4> QED
        BY <2>1, <2>2, <4>1, <4>2 DEF Busy
    <3>2. CASE alias[k] # l
      <4>1. /\ alias'[k] = alias[k] /\ alias[k] # k /\ alias[k] \in Keys
            /\ ~Busy(k) /\ Busy(alias[k]) /\ alias[alias[k]] = alias[k]
        BY <2>3, <3>2 DEF QInv, AliasesReachLanes, QueueTypeOK
      <4>2. alias[k] # to /\ k # to /\ k # l
        BY <1>2, <4>1, <2>6
      <4>3. alias[k] # l /\ alias'[alias[k]] = alias[k]
        BY <2>3, <3>2, <4>1
      <4> QED
        BY <2>1, <4>1, <4>2, <4>3 DEF Busy
    <3> QED
      BY <3>1, <3>2
  <2>8. ASSUME NEW m \in Keys \ {l, to}, NEW k \in Keys, alias[k] = m
        PROVE alias'[k] = m
    BY <2>3, <2>8
  <2>9. DrainsKnowTheirLane'
    <3> SUFFICES ASSUME NEW m \in Keys, running'[m] # NoTurn
                 PROVE drainKey[running'[m]] \in Keys /\ alias'[drainKey[running'[m]]] = m
      BY DEF DrainsKnowTheirLane
    <3>1. CASE m \notin {l, to}
      BY <2>1, <2>8, <3>1 DEF QInv, DrainsKnowTheirLane
    <3>2. CASE m = to
      BY <2>1, <2>3, <3>2 DEF QInv, DrainsKnowTheirLane
    <3> QED
      BY <2>1, <3>1, <3>2
  <2>10. TurnsKnowTheirLane'
    <3> SUFFICES ASSUME NEW m \in Keys
                 PROVE /\ running'[m] # NoTurn => postedAs[running'[m]] \in Keys /\ alias'[postedAs[running'[m]]] = m
                       /\ \A i \in 1..Len(items'[m]) : postedAs[items'[m][i]] \in Keys
                                                       /\ alias'[postedAs[items'[m][i]]] = m
      BY DEF TurnsKnowTheirLane
    <3>1. CASE m \notin {l, to}
      BY <2>1, <2>8, <3>1 DEF QInv, TurnsKnowTheirLane
    <3>2. CASE m = to
      BY <2>1, <2>3, <3>2 DEF QInv, TurnsKnowTheirLane
    <3>3. CASE m = l
      BY <1>2, <2>1, <3>3, EmptySeq
    <3> QED
      BY <3>1, <3>2, <3>3
  <2> QED
    BY <2>4, <2>5, <2>7, <2>9, <2>10 DEF QInv
<1> QED
  BY <1>1, <1>2, RekeyCases

-----------------------------------------------------------------------------
(* Every operation keeps the turns distinct. *)

\* A turn that has not been posted is nowhere.
LEMMA UnpostedIsNowhere ==
  ASSUME QInv, TurnsAreDistinct, NEW t \in Turns, postedAs[t] = NoKey
  PROVE  /\ t \notin done
         /\ \A m \in Keys : running[m] # t /\ \A i \in 1..Len(items[m]) : items[m][i] # t
  BY TurnQueueAssumption DEF QInv, TurnsKnowTheirLane, TurnsAreDistinct

LEMMA EnqueueD ==
  ASSUME QInv, TurnsAreDistinct, NEW t \in Turns, NEW k \in Keys, enqueue(t, k)
  PROVE  TurnsAreDistinct'
<1>0. PICK l \in Keys : l = canon(k)
  BY CanonIsFixed
<1>1. /\ postedAs[t] = NoKey /\ postedAs' = [postedAs EXCEPT ![t] = k] /\ done' = done
      /\ t # NoTurn /\ k # NoKey
  BY TurnQueueAssumption DEF enqueue
<1>2. \A u \in done' : postedAs'[u] # NoKey
  BY <1>1 DEF QInv, QueueTypeOK, TurnsAreDistinct
<1>3. CASE Appended(t, l)
  <2> USE DEF Appended
  <2> DEFINE s == Append(items[l], t)
  <2>1. /\ Len(s) = Len(items[l]) + 1 /\ Len(items[l]) \in Nat
        /\ \A i \in 1..Len(items[l]) : s[i] = items[l][i]
        /\ s[Len(items[l]) + 1] = t
    BY ItemsAreTurns, AppendProperties
  <2>2. items'[l] = s /\ \A m \in Keys \ {l} : items'[m] = items[m]
    BY <1>3 DEF QInv, QueueTypeOK
  <2> SUFFICES ASSUME NEW m \in Keys
               PROVE  /\ running[m] \notin done
                      /\ \A i \in 1..Len(items'[m]) :
                            /\ items'[m][i] \notin done
                            /\ items'[m][i] # running[m]
                            /\ \A j \in 1..Len(items'[m]) : items'[m][i] = items'[m][j] => i = j
    BY <1>1, <1>2, <1>3 DEF TurnsAreDistinct
  <2>3. CASE m # l
    BY <2>2, <2>3 DEF TurnsAreDistinct
  <2>4. CASE m = l
    <3>1. /\ t \notin done /\ running[l] # t
          /\ \A i \in 1..Len(items[l]) : items[l][i] # t
      BY <1>1, UnpostedIsNowhere
    <3>2. \A i \in 1..Len(s) : i \in 1..Len(items[l]) \/ i = Len(items[l]) + 1
      BY <2>1
    <3> QED
      BY <2>1, <2>2, <2>4, <3>1, <3>2 DEF TurnsAreDistinct
  <2> QED
    BY <2>3, <2>4
<1>4. CASE StartedAtOnce(t, l)
  <2> USE DEF StartedAtOnce
  <2>1. running'[l] = t /\ \A m \in Keys \ {l} : running'[m] = running[m]
    BY <1>4 DEF QInv, QueueTypeOK
  <2>2. /\ t \notin done
        /\ \A m \in Keys : \A i \in 1..Len(items[m]) : items[m][i] # t
    BY <1>1, UnpostedIsNowhere
  <2> QED
    BY <1>1, <1>2, <1>4, <2>1, <2>2 DEF TurnsAreDistinct
<1> QED
  BY <1>0, <1>3, <1>4, EnqueueCases

LEMMA SettleD ==
  ASSUME QInv, TurnsAreDistinct, NEW l \in Keys, settle(l)
  PROVE  TurnsAreDistinct'
<1>1. /\ running[l] # NoTurn /\ running[l] \in Turns
      /\ done' = done \cup {running[l]} /\ postedAs' = postedAs
      /\ postedAs[running[l]] \in Keys /\ alias[postedAs[running[l]]] = l
      /\ NoTurn \notin Turns /\ NoKey \notin Keys
  BY RunningIsTurn, TurnQueueAssumption DEF settle, QInv, TurnsKnowTheirLane
<1>2. \A u \in done' : postedAs'[u] # NoKey
  BY <1>1 DEF TurnsAreDistinct
<1>3. \A m \in Keys \ {l} : /\ running[m] # running[l]
                           /\ \A i \in 1..Len(items[m]) : items[m][i] # running[l]
  BY <1>1 DEF QInv, TurnsKnowTheirLane
<1>4. NoTurn \notin done'
  BY <1>1 DEF QInv, QueueTypeOK
<1>5. CASE MovesOn(l)
  <2> USE DEF MovesOn
  <2>1. /\ items'[l] = Tail(items[l]) /\ running'[l] = items[l][1]
        /\ \A m \in Keys \ {l} : items'[m] = items[m] /\ running'[m] = running[m]
    BY <1>5, TailOfLane DEF QInv, QueueTypeOK
  <2>2. /\ Len(items[l]) \in Nat /\ Len(items[l]) >= 1
        /\ Len(Tail(items[l])) = Len(items[l]) - 1
        /\ \A i \in 1..Len(Tail(items[l])) : Tail(items[l])[i] = items[l][i + 1]
    BY <1>5, TailOfLane, ItemsAreTurns
  <2>3. /\ running'[l] \notin done'
        /\ \A i \in 1..Len(items'[l]) :
              /\ items'[l][i] \notin done'
              /\ items'[l][i] # running'[l]
              /\ \A j \in 1..Len(items'[l]) : items'[l][i] = items'[l][j] => i = j
    <3>1. \A i \in 1..Len(items'[l]) : i + 1 \in 1..Len(items[l]) /\ i + 1 # 1
      BY <2>1, <2>2
    <3>2. 1 \in 1..Len(items[l])
      BY <2>2
    <3>3. \A i \in 1..Len(items'[l]) : items'[l][i] = items[l][i + 1]
      BY <2>1, <2>2
    <3>4. \A i \in 1..Len(items[l]) : items[l][i] \notin done'
      BY <1>1 DEF TurnsAreDistinct
    <3>5. ASSUME NEW i \in 1..Len(items[l]), NEW j \in 1..Len(items[l]), items[l][i] = items[l][j]
          PROVE  i = j
      BY <3>5 DEF TurnsAreDistinct
    <3>6. ASSUME NEW i \in 1..Len(items'[l]), NEW j \in 1..Len(items'[l]),
                 items'[l][i] = items'[l][j]
          PROVE  i = j
      <4>1. i + 1 = j + 1
        BY <3>1, <3>3, <3>5, <3>6
      <4> QED
        BY <4>1
    <3> QED
      BY <2>1, <3>1, <3>2, <3>3, <3>4, <3>5, <3>6
  <2>4. ASSUME NEW m \in Keys \ {l}
        PROVE  /\ running'[m] \notin done'
               /\ \A i \in 1..Len(items'[m]) :
                     /\ items'[m][i] \notin done'
                     /\ items'[m][i] # running'[m]
                     /\ \A j \in 1..Len(items'[m]) : items'[m][i] = items'[m][j] => i = j
    BY <1>1, <1>3, <2>1 DEF TurnsAreDistinct
  <2> QED
    BY <1>2, <2>3, <2>4 DEF TurnsAreDistinct
<1>6. CASE Dropped(l)
  <2> USE DEF Dropped
  <2>1. /\ running'[l] = NoTurn /\ items'[l] = <<>> /\ Len(<<>>) = 0
        /\ \A m \in Keys \ {l} : items'[m] = items[m] /\ running'[m] = running[m]
    BY <1>6 DEF QInv, QueueTypeOK
  <2>2. ASSUME NEW m \in Keys \ {l}
        PROVE  /\ running'[m] \notin done'
               /\ \A i \in 1..Len(items'[m]) :
                     /\ items'[m][i] \notin done'
                     /\ items'[m][i] # running'[m]
                     /\ \A j \in 1..Len(items'[m]) : items'[m][i] = items'[m][j] => i = j
    BY <1>1, <1>3, <2>1 DEF TurnsAreDistinct
  <2> QED
    BY <1>2, <1>4, <2>1, <2>2 DEF TurnsAreDistinct
<1> QED
  BY <1>5, <1>6, SettleCases

LEMMA RekeyD ==
  ASSUME QInv, TurnsAreDistinct, NEW l \in Keys, NEW to \in Keys, running[l] # NoTurn,
         rekey(postedAs[running[l]], to), UNCHANGED <<drainKey, postedAs, done>>
  PROVE  TurnsAreDistinct'
<1>1. CASE UNCHANGED <<items, running, alias>>
  BY <1>1 DEF TurnsAreDistinct
<1>2. CASE Moved(l, to)
  <2> USE DEF Moved
  <2>1. /\ items'[to] = items[l] /\ running'[to] = running[l]
        /\ items'[l] = <<>> /\ running'[l] = NoTurn /\ Len(<<>>) = 0
        /\ \A m \in Keys \ {l, to} : items'[m] = items[m] /\ running'[m] = running[m]
    BY <1>2 DEF QInv, QueueTypeOK
  <2>2. NoTurn \notin done
    BY TurnQueueAssumption DEF QInv, QueueTypeOK
  <2> QED
    BY <2>1, <2>2 DEF TurnsAreDistinct
<1> QED
  BY <1>1, <1>2, RekeyCases

-----------------------------------------------------------------------------
(* The order in which turns start *)

\* An accepted turn has started or waits in a lane.
TurnsArePlaced ==
    \A t \in Turns : postedAs[t] # NoKey =>
        t \in Started \/ \E l \in Keys : \E i \in 1..Len(items[l]) : items[l][i] = t

\* Turns are accepted in the order of their numbers.
PostedInTurn ==
    \A t, u \in Turns : t < u /\ postedAs[u] # NoKey => postedAs[t] # NoKey

\* A lane holds its turns in the order in which they arrived.
LanesInOrder ==
    \A l \in Keys : \A i, j \in 1..Len(items[l]) : i < j => items[l][i] < items[l][j]

StartedWerePosted == \A t \in Turns : t \in Started => postedAs[t] # NoKey

OrderInv == TurnsArePlaced /\ PostedInTurn /\ LanesInOrder /\ StartedWerePosted /\ ArrivalOrder

LEMMA QueueInitO == QueueInit => OrderInv
<1> SUFFICES ASSUME QueueInit PROVE OrderInv
  OBVIOUS
<1>1. \A t \in Turns : postedAs[t] = NoKey /\ t \notin Started
  BY DEF QueueInit, Started, RunningTurns
<1>2. \A l \in Keys : items[l] = <<>> /\ Len(<<>>) = 0
  BY DEF QueueInit
<1> QED
  BY <1>1, <1>2 DEF OrderInv, TurnsArePlaced, PostedInTurn, LanesInOrder, StartedWerePosted, ArrivalOrder

LEMMA EnqueueO ==
  ASSUME QInv, OrderInv, NEW t \in Turns, NEW k \in Keys, enqueue(t, k)
  PROVE  OrderInv'
<1> USE DEF OrderInv
<1>0. PICK l \in Keys : l = canon(k)
  BY CanonIsFixed
<1>1. /\ postedAs[t] = NoKey /\ postedAs' = [postedAs EXCEPT ![t] = k] /\ done' = done
      /\ \A u \in Turns : u < t => postedAs[u] # NoKey
      /\ t # NoTurn /\ k # NoKey
  BY TurnQueueAssumption DEF enqueue
<1>2. \A u \in Turns : postedAs'[u] = IF u = t THEN k ELSE postedAs[u]
  BY <1>1 DEF QInv, QueueTypeOK
<1>n. \A u \in Turns : u \in Nat
  BY TurnQueueAssumption
<1>3. \A u \in Turns : postedAs[u] # NoKey => u < t
  <2> SUFFICES ASSUME NEW u \in Turns, postedAs[u] # NoKey PROVE u < t
    OBVIOUS
  <2>1. u # t /\ ~(t < u)
    BY <1>1 DEF PostedInTurn
  <2> QED
    BY <2>1, <1>n
<1>4. PostedInTurn'
  BY <1>1, <1>2, <1>3, <1>n DEF PostedInTurn
<1>5. CASE Appended(t, l)
  <2> USE DEF Appended
  <2> DEFINE s == Append(items[l], t)
  <2>1. /\ Len(s) = Len(items[l]) + 1 /\ Len(items[l]) \in Nat
        /\ \A i \in 1..Len(items[l]) : s[i] = items[l][i]
        /\ s[Len(items[l]) + 1] = t
    BY ItemsAreTurns, AppendProperties
  <2>2. items'[l] = s /\ \A m \in Keys \ {l} : items'[m] = items[m]
    BY <1>5 DEF QInv, QueueTypeOK
  <2>3. Started' = Started
    BY <1>1, <1>5 DEF Started, RunningTurns
  <2>4. StartedWerePosted' /\ ArrivalOrder'
    BY <1>1, <1>2, <2>3 DEF StartedWerePosted, ArrivalOrder, PostedInTurn
  <2>5. TurnsArePlaced'
    <3> SUFFICES ASSUME NEW u \in Turns, postedAs'[u] # NoKey, u \notin Started
                 PROVE  \E m \in Keys : \E i \in 1..Len(items'[m]) : items'[m][i] = u
      BY <2>3 DEF TurnsArePlaced
    <3>1. CASE u = t
      BY <2>1, <2>2, <3>1
    <3>2. CASE u # t
      <4>1. PICK m \in Keys : \E i \in 1..Len(items[m]) : items[m][i] = u
        BY <1>2, <3>2 DEF TurnsArePlaced
      <4>2. PICK i \in 1..Len(items[m]) : items[m][i] = u
        BY <4>1
      <4>3. i \in 1..Len(items'[m]) /\ items'[m][i] = u
        BY <2>1, <2>2, <4>2
      <4> QED
        BY <4>3
    <3> QED
      BY <3>1, <3>2
  <2>6. LanesInOrder'
    <3> SUFFICES ASSUME NEW m \in Keys, NEW i \in 1..Len(items'[m]), NEW j \in 1..Len(items'[m]), i < j
                 PROVE  items'[m][i] < items'[m][j]
      BY DEF LanesInOrder
    <3>1. CASE m # l
      BY <2>2, <3>1 DEF LanesInOrder
    <3>2. CASE m = l /\ j # Len(items[l]) + 1
      <4>1. i \in 1..Len(items[l]) /\ j \in 1..Len(items[l])
        BY <2>1, <2>2, <3>2
      <4> QED
        BY <2>1, <2>2, <3>2, <4>1 DEF LanesInOrder
    <3>3. CASE m = l /\ j = Len(items[l]) + 1
      <4>1. i \in 1..Len(items[l])
        BY <2>1, <2>2, <3>3
      <4>2. items[l][i] \in Turns /\ postedAs[items[l][i]] # NoKey
        BY <4>1, ItemsAreTurns, TurnQueueAssumption DEF QInv, TurnsKnowTheirLane
      <4> QED
        BY <1>3, <2>1, <2>2, <3>3, <4>1, <4>2
    <3> QED
      BY <3>1, <3>2, <3>3
  <2> QED
    BY <1>4, <2>4, <2>5, <2>6
<1>6. CASE StartedAtOnce(t, l)
  <2> USE DEF StartedAtOnce
  <2>1. running'[l] = t /\ \A m \in Keys \ {l} : running'[m] = running[m]
    BY <1>6 DEF QInv, QueueTypeOK
  <2>2. items' = items /\ items[l] = <<>> /\ Len(<<>>) = 0
    BY <1>6, IdleLane
  <2>3. \A u : u \in Started' <=> u \in Started \/ u = t
    BY <1>1, <1>6, <2>1 DEF Started, RunningTurns
  <2>4. StartedWerePosted' /\ TurnsArePlaced' /\ LanesInOrder'
    BY <1>1, <1>2, <2>2, <2>3 DEF StartedWerePosted, TurnsArePlaced, LanesInOrder
  <2>5. ArrivalOrder'
    <3> SUFFICES ASSUME NEW v \in Turns, NEW u \in Turns, v < u, u \in Started',
                        postedAs'[v] = postedAs'[u], v \notin Started'
                 PROVE  FALSE
      BY DEF ArrivalOrder
    <3>1. CASE u = t
      <4>1. v # t /\ v \notin Started /\ postedAs[v] = k
        BY <1>2, <1>n, <2>3, <3>1
      <4>2. PICK m \in Keys : \E i \in 1..Len(items[m]) : items[m][i] = v
        BY <1>1, <4>1 DEF TurnsArePlaced
      <4>3. m = l
        BY <1>0, <4>1, <4>2 DEF QInv, TurnsKnowTheirLane, canon
      <4> QED
        BY <2>2, <4>2, <4>3
    <3>2. CASE u # t
      <4>1. u \in Started /\ postedAs[u] # NoKey
        BY <2>3, <3>2 DEF StartedWerePosted
      <4>2. v # t
        BY <1>1, <4>1 DEF PostedInTurn
      <4> QED
        BY <1>2, <2>3, <3>2, <4>1, <4>2 DEF ArrivalOrder
    <3> QED
      BY <3>1, <3>2
  <2> QED
    BY <1>4, <2>4, <2>5
<1> QED
  BY <1>0, <1>5, <1>6, EnqueueCases

LEMMA SettleO ==
  ASSUME QInv, OrderInv, NEW l \in Keys, settle(l)
  PROVE  OrderInv'
<1> USE DEF OrderInv
<1>1. /\ running[l] # NoTurn /\ running[l] \in Turns
      /\ done' = done \cup {running[l]} /\ postedAs' = postedAs
      /\ NoTurn \notin Turns /\ NoKey \notin Keys
  BY RunningIsTurn, TurnQueueAssumption DEF settle
<1>2. PostedInTurn'
  BY <1>1 DEF PostedInTurn
<1>n. \A u \in Turns : u \in Nat
  BY TurnQueueAssumption
<1>3. CASE MovesOn(l)
  <2> USE DEF MovesOn
  <2>1. PICK h \in Turns : h = items[l][1]
    BY <1>3, TailOfLane
  <2>2. /\ items'[l] = Tail(items[l]) /\ running'[l] = h
        /\ \A m \in Keys \ {l} : items'[m] = items[m] /\ running'[m] = running[m]
    BY <1>3, <2>1, TailOfLane DEF QInv, QueueTypeOK
  <2>3. /\ Len(items[l]) \in Nat /\ Len(items[l]) >= 1
        /\ Len(Tail(items[l])) = Len(items[l]) - 1
        /\ \A i \in 1..Len(Tail(items[l])) : Tail(items[l])[i] = items[l][i + 1]
    BY <1>3, TailOfLane, ItemsAreTurns
  <2>4. \A u : u \in Started' <=> u \in Started \/ u = h
    BY <1>1, <2>1, <2>2 DEF Started, RunningTurns
  <2>5. postedAs[h] \in Keys /\ alias[postedAs[h]] = l
    BY <2>1, <2>3 DEF QInv, TurnsKnowTheirLane
  <2>6. StartedWerePosted'
    BY <1>1, <2>4, <2>5 DEF StartedWerePosted
  <2>7. TurnsArePlaced'
    <3> SUFFICES ASSUME NEW u \in Turns, postedAs[u] # NoKey, u \notin Started, u # h
                 PROVE  \E m \in Keys : \E i \in 1..Len(items'[m]) : items'[m][i] = u
      BY <1>1, <2>4 DEF TurnsArePlaced
    <3>1. PICK m \in Keys : \E i \in 1..Len(items[m]) : items[m][i] = u
      BY DEF TurnsArePlaced
    <3>2. PICK i \in 1..Len(items[m]) : items[m][i] = u
      BY <3>1
    <3>3. CASE m # l
      BY <2>2, <3>2, <3>3
    <3>4. CASE m = l
      <4>1. i # 1
        BY <2>1, <3>2, <3>4
      <4>2. i - 1 \in 1..Len(Tail(items[l])) /\ (i - 1) + 1 = i
        BY <2>3, <3>2, <3>4, <4>1
      <4>3. Tail(items[l])[i - 1] = u
        BY <2>3, <3>2, <3>4, <4>2
      <4> QED
        BY <2>2, <4>2, <4>3
    <3> QED
      BY <3>3, <3>4
  <2>8. LanesInOrder'
    <3> SUFFICES ASSUME NEW m \in Keys, NEW i \in 1..Len(items'[m]), NEW j \in 1..Len(items'[m]), i < j
                 PROVE  items'[m][i] < items'[m][j]
      BY DEF LanesInOrder
    <3>1. CASE m # l
      BY <2>2, <3>1 DEF LanesInOrder
    <3>2. CASE m = l
      <4>1. i \in 1..Len(Tail(items[l])) /\ j \in 1..Len(Tail(items[l]))
        BY <2>2, <3>2
      <4>2. i + 1 \in 1..Len(items[l]) /\ j + 1 \in 1..Len(items[l]) /\ i + 1 < j + 1
        BY <2>3, <4>1
      <4>3. items'[m][i] = items[l][i + 1] /\ items'[m][j] = items[l][j + 1]
        BY <2>2, <2>3, <3>2, <4>1
      <4> QED
        BY <4>2, <4>3 DEF LanesInOrder
    <3> QED
      BY <3>1, <3>2
  <2>9. ArrivalOrder'
    <3> SUFFICES ASSUME NEW v \in Turns, NEW u \in Turns, v < u, u \in Started',
                        postedAs[v] = postedAs[u], v \notin Started'
                 PROVE  FALSE
      BY <1>1 DEF ArrivalOrder
    <3>1. CASE u \in Started
      BY <2>4, <3>1 DEF ArrivalOrder
    <3>2. CASE u = h
      <4>1. v \notin Started /\ v # h
        BY <2>4
      <4>2. PICK m \in Keys : \E i \in 1..Len(items[m]) : items[m][i] = v
        BY <1>1, <2>5, <3>2, <4>1 DEF TurnsArePlaced
      <4>3. PICK i \in 1..Len(items[m]) : items[m][i] = v
        BY <4>2
      <4>4. m = l
        BY <2>5, <3>2, <4>3 DEF QInv, TurnsKnowTheirLane
      <4>5. i # 1 /\ 1 < i /\ 1 \in 1..Len(items[l]) /\ i \in 1..Len(items[l])
        BY <2>1, <2>3, <4>1, <4>3, <4>4
      <4>6. items[l][1] < items[l][i]
        BY <4>5 DEF LanesInOrder
      <4> QED
        BY <1>n, <2>1, <3>2, <4>3, <4>4, <4>6
    <3> QED
      BY <2>4, <3>1, <3>2
  <2> QED
    BY <1>2, <2>6, <2>7, <2>8, <2>9
<1>4. CASE Dropped(l)
  <2> USE DEF Dropped
  <2>1. running'[l] = NoTurn /\ \A m \in Keys \ {l} : running'[m] = running[m]
    BY <1>4 DEF QInv, QueueTypeOK
  <2>2. Started' = Started
    BY <1>1, <2>1 DEF Started, RunningTurns
  <2> QED
    BY <1>1, <1>2, <1>4, <2>2 DEF TurnsArePlaced, LanesInOrder, StartedWerePosted, ArrivalOrder
<1> QED
  BY <1>3, <1>4, SettleCases

LEMMA RekeyO ==
  ASSUME QInv, OrderInv, NEW l \in Keys, NEW to \in Keys, running[l] # NoTurn,
         rekey(postedAs[running[l]], to), UNCHANGED <<drainKey, postedAs, done>>
  PROVE  OrderInv'
<1> USE DEF OrderInv
<1>1. CASE UNCHANGED <<items, running, alias>>
  <2>1. Started' = Started
    BY <1>1 DEF Started, RunningTurns
  <2> QED
    BY <1>1, <2>1 DEF TurnsArePlaced, PostedInTurn, LanesInOrder, StartedWerePosted, ArrivalOrder
<1>2. CASE Moved(l, to)
  <2> USE DEF Moved
  <2>1. /\ items'[to] = items[l] /\ running'[to] = running[l]
        /\ items'[l] = <<>> /\ running'[l] = NoTurn /\ Len(<<>>) = 0
        /\ \A m \in Keys \ {l, to} : items'[m] = items[m] /\ running'[m] = running[m]
        /\ items[to] = <<>> /\ running[to] = NoTurn
    BY <1>2 DEF QInv, QueueTypeOK, Busy
  <2>2. Started' = Started
    <3>1. \A u : u # NoTurn => ((\E m \in Keys : running'[m] = u) <=> (\E m \in Keys : running[m] = u))
      BY <2>1
    <3>2. RunningTurns' = RunningTurns
      BY <3>1 DEF RunningTurns
    <3> QED
      BY <3>2 DEF Started
  <2>3. TurnsArePlaced'
    BY <2>1, <2>2 DEF TurnsArePlaced
  <2>4. LanesInOrder'
    BY <2>1 DEF LanesInOrder
  <2> QED
    BY <2>2, <2>3, <2>4 DEF PostedInTurn, StartedWerePosted, ArrivalOrder
<1> QED
  BY <1>1, <1>2, RekeyCases

-----------------------------------------------------------------------------
(* Rooms.                                                                  *)

BaseInv == TypeOK /\ QInv /\ TurnsAreDistinct

LEMMA KeysAreRooms ==
  /\ Sessions \subseteq Keys /\ Drafts \subseteq Keys
  /\ \A k \in Keys : k \in Sessions <=> k \notin Drafts
  /\ NoSession \notin Sessions
  BY RoomsAssumption

LEMMA BaseInit == Init => BaseInv
<1> SUFFICES ASSUME Init PROVE BaseInv
  OBVIOUS
<1>1. \A l \in Keys : items[l] = <<>> /\ running[l] = NoTurn /\ alias[l] = l
  BY DEF Init, QueueInit
<1>2. Len(<<>>) = 0 /\ <<>> \in Seq(Turns)
  BY EmptySeq
<1>3. TypeOK
  BY <1>2, RoomsAssumption DEF Init, QueueInit, TypeOK, QueueTypeOK
<1>4. done = {} /\ NoTurn \notin done
  BY DEF Init, QueueInit
<1> QED
  BY <1>1, <1>2, <1>3, <1>4 DEF BaseInv, TypeOK, QInv, NoWedgedLane, AliasesReachLanes,
                                TurnsKnowTheirLane, DrainsKnowTheirLane, TurnsAreDistinct

-----------------------------------------------------------------------------
(* Types *)

LEMMA ResolveType ==
  ASSUME TypeOK, laneSession' \in [Keys -> Sessions \cup {NoSession}],
         postedAs' \in [Turns -> Keys \cup {NoKey}],
         \A m \in Keys : running'[m] \in Started \/ running'[m] = NoTurn
                         \/ postedAs'[running'[m]] \in Keys,
         ResolveStarted
  PROVE  /\ resume' \in [Turns -> Sessions \cup {NoSession}]
         /\ targetId' \in [Turns -> Sessions \cup {NoSession}]
<1> DEFINE startedNow == {running'[l] : l \in Keys} \ (Started \cup {NoTurn})
           resolved(t) == resumeFor(postedAs'[t], laneSession')
<1>1. /\ resume' = [t \in Turns |-> IF t \in startedNow THEN resolved(t) ELSE resume[t]]
      /\ targetId' = [t \in Turns |-> IF t \in startedNow THEN resolved(t) ELSE targetId[t]]
  BY DEF ResolveStarted
<1>2. \A t \in Turns : t \in startedNow => resolved(t) \in Sessions \cup {NoSession}
  BY DEF resumeFor
<1>3. resume \in [Turns -> Sessions \cup {NoSession}] /\ targetId \in [Turns -> Sessions \cup {NoSession}]
  BY DEF TypeOK
<1> HIDE DEF startedNow, resolved
<1> QED
  BY <1>1, <1>2, <1>3

\* What ResolveStarted does to a turn that was running already, and to one
\* that starts in this step.
LEMMA Resolution ==
  ASSUME ResolveStarted, NEW t \in Turns
  PROVE  /\ t \in Started => resume'[t] = resume[t] /\ targetId'[t] = targetId[t]
         /\ \A l \in Keys : running'[l] = t /\ t \notin Started /\ t # NoTurn =>
               /\ resume'[t] = resumeFor(postedAs'[t], laneSession')
               /\ targetId'[t] = resumeFor(postedAs'[t], laneSession')
  BY DEF ResolveStarted

\* The turn that waits first has been posted under a key of its lane and has
\* not started.
LEMMA NextInLine ==
  ASSUME BaseInv, NEW l \in Keys, items[l] # <<>>
  PROVE  /\ Head(items[l]) \in Turns /\ Head(items[l]) # NoTurn
         /\ postedAs[Head(items[l])] \in Keys /\ alias[postedAs[Head(items[l])]] = l
         /\ Head(items[l]) \notin Started
<1> USE DEF BaseInv
<1> DEFINE h == Head(items[l])
<1>1. h \in Turns /\ h = items[l][1] /\ 1 \in 1..Len(items[l]) /\ h # NoTurn
  BY TailOfLane, ItemsAreTurns, TurnQueueAssumption
<1>2. postedAs[h] \in Keys /\ alias[postedAs[h]] = l
  BY <1>1 DEF QInv, TurnsKnowTheirLane
<1>3. h \notin done /\ h # running[l]
  BY <1>1 DEF TurnsAreDistinct
<1>4. \A m \in Keys \ {l} : running[m] # h
  BY <1>1, <1>2 DEF QInv, TurnsKnowTheirLane
<1> QED
  BY <1>1, <1>2, <1>3, <1>4 DEF Started, RunningTurns

\* Only a turn hangs.
LEMMA HungAreTurns ==
  ASSUME TypeOK, [Next]_vars
  PROVE  hung' \subseteq Turns
  BY DEF TypeOK, Next, PostMessage, AdoptSession, Hangs, Settle, vars

LEMMA BaseStep == BaseInv /\ [Next]_vars => BaseInv'
<1> SUFFICES ASSUME BaseInv, [Next]_vars PROVE BaseInv'
  OBVIOUS
<1> USE DEF BaseInv
<1>1. ASSUME NEW t \in Turns, NEW k \in Keys, PostMessage(t, k) PROVE BaseInv'
  <2>1. QInv' /\ TurnsAreDistinct'
    BY <1>1, EnqueueQ, EnqueueD DEF PostMessage
  <2>2. \A m \in Keys : running'[m] # NoTurn => postedAs'[running'[m]] \in Keys
    BY <2>1 DEF QInv, TurnsKnowTheirLane
  <2>3. /\ resume' \in [Turns -> Sessions \cup {NoSession}]
        /\ targetId' \in [Turns -> Sessions \cup {NoSession}]
    <3>1. laneSession' \in [Keys -> Sessions \cup {NoSession}]
      BY <1>1 DEF TypeOK, PostMessage
    <3> QED
      BY <1>1, <2>1, <2>2, <3>1, ResolveType DEF QInv, QueueTypeOK, PostMessage
  <2> QED
    BY <1>1, <2>1, <2>3 DEF QInv, TypeOK, PostMessage
<1>2. ASSUME NEW t \in Turns, NEW id \in Sessions, AdoptSession(t, id) PROVE BaseInv'
  <2>1. PICK l \in Keys : running[l] = t /\ t # NoTurn
    BY <1>2 DEF AdoptSession, RunningTurns
  <2>2. QInv' /\ TurnsAreDistinct'
    BY <1>2, <2>1, KeysAreRooms, RekeyQ, RekeyD DEF AdoptSession
  <2> QED
    BY <1>2, <2>2 DEF QInv, QueueTypeOK, TypeOK, AdoptSession
<1>3. ASSUME NEW l \in Keys, Settle(l) PROVE BaseInv'
  <2>1. QInv' /\ TurnsAreDistinct'
    BY <1>3, SettleQ, SettleD DEF Settle
  <2>2. laneSession' \in [Keys -> Sessions \cup {NoSession}]
    BY <1>3 DEF Settle, forgetLaneSession, TypeOK
  <2>3. \A m \in Keys : running'[m] # NoTurn => postedAs'[running'[m]] \in Keys
    BY <2>1 DEF QInv, TurnsKnowTheirLane
  <2>4. /\ resume' \in [Turns -> Sessions \cup {NoSession}]
        /\ targetId' \in [Turns -> Sessions \cup {NoSession}]
    BY <1>3, <2>1, <2>2, <2>3, ResolveType DEF QInv, QueueTypeOK, Settle
  <2> QED
    BY <1>3, <2>1, <2>2, <2>4 DEF QInv, TypeOK, Settle
<1>4. CASE UNCHANGED <<queueVars, roomVars>>
  <2>1. hung' \subseteq Turns
    BY <1>4, HungAreTurns DEF TypeOK
  <2> QED
    BY <1>4, <2>1 DEF queueVars, roomVars, TypeOK, QInv, QueueTypeOK, NoWedgedLane,
              AliasesReachLanes, Busy, TurnsKnowTheirLane, DrainsKnowTheirLane, TurnsAreDistinct
<1> QED
  BY <1>1, <1>2, <1>3, <1>4 DEF Next, Hangs, vars

LEMMA BaseInvariance == Spec => []BaseInv
  BY BaseInit, BaseStep, PTL DEF Spec

\* Types of the queue's and the server's maps, whatever the backend reports.
THEOREM TypeCorrect == Spec => []TypeOK
<1>1. BaseInv => TypeOK
  BY DEF BaseInv
<1> QED
  BY <1>1, BaseInvariance, PTL

\* Aliases are single-hop and lead to live lanes, whatever the backend reports.
THEOREM AliasesAlwaysReachLanes == Spec => []AliasesReachLanes
<1>1. BaseInv => AliasesReachLanes
  BY DEF BaseInv, QInv
<1> QED
  BY <1>1, BaseInvariance, PTL

\* A lane with turns waiting executes one, whatever the backend reports.
THEOREM NeverWedged == Spec => []NoWedgedLane
<1>1. BaseInv => NoWedgedLane
  BY DEF BaseInv, QInv
<1> QED
  BY <1>1, BaseInvariance, PTL

LEMMA OrderStep == BaseInv /\ OrderInv /\ [Next]_vars => OrderInv'
<1> SUFFICES ASSUME BaseInv, OrderInv, [Next]_vars PROVE OrderInv'
  OBVIOUS
<1> USE DEF BaseInv
<1>1. ASSUME NEW t \in Turns, NEW k \in Keys, PostMessage(t, k) PROVE OrderInv'
  BY <1>1, EnqueueO DEF PostMessage
<1>2. ASSUME NEW t \in Turns, NEW id \in Sessions, AdoptSession(t, id) PROVE OrderInv'
  <2>1. PICK l \in Keys : running[l] = t /\ t # NoTurn
    BY <1>2 DEF AdoptSession, RunningTurns
  <2> QED
    BY <1>2, <2>1, KeysAreRooms, RekeyO DEF AdoptSession
<1>3. ASSUME NEW l \in Keys, Settle(l) PROVE OrderInv'
  BY <1>3, SettleO DEF Settle
<1>4. CASE UNCHANGED <<queueVars, roomVars>>
  BY <1>4 DEF queueVars, OrderInv, TurnsArePlaced, PostedInTurn, LanesInOrder,
              StartedWerePosted, ArrivalOrder, Started, RunningTurns
<1> QED
  BY <1>1, <1>2, <1>3, <1>4 DEF Next, Hangs, vars

\* Turns posted under one key start in the order in which they arrived, whatever
\* sessions the backend reports and whatever lanes the key is moved to meanwhile
\* (queue.ts:1-5, rekey).
THEOREM TurnsStartInOrder == Spec => []ArrivalOrder
<1>1. Init => OrderInv
  BY QueueInitO DEF Init
<1>2. OrderInv => ArrivalOrder
  BY DEF OrderInv
<1> QED
  BY <1>1, <1>2, BaseInvariance, OrderStep, PTL DEF Spec

-----------------------------------------------------------------------------
(* Rooms over a stable backend.  None of the four properties is inductive: *)
(* each needs the other map, and the lane a running turn is on.            *)

\* Sessions are never redirected, and nothing is remembered about them.
SessionsStay == \A s \in Sessions : alias[s] = s /\ laneSession[s] = NoSession

\* A draft key leads to the session it resumes.
DraftsFollow ==
    \A d \in Drafts : \/ alias[d] = d /\ laneSession[d] = NoSession
                      \/ alias[d] \in Sessions /\ laneSession[d] = alias[d]

\* A turn runs on the lane of its session, or on a draft lane while it has none.
RunsOnItsLane(l) ==
    running[l] # NoTurn =>
        \/ /\ l \in Drafts
           /\ resume[running[l]] = NoSession /\ targetId[running[l]] = NoSession
        \/ /\ l \in Sessions
           /\ resume[running[l]] \in {NoSession, l} /\ targetId[running[l]] = l

\* Only a session that exists has a lane.
LanesAreUsed == \A s \in Sessions : Busy(s) => s \in used

StableInv ==
    /\ BaseInv
    /\ SessionsStay
    /\ DraftsFollow
    /\ \A l \in Keys : RunsOnItsLane(l)
    /\ LanesAreUsed

LEMMA StableInit == Init => StableInv
<1> SUFFICES ASSUME Init PROVE StableInv
  OBVIOUS
<1>1. \A l \in Keys : /\ items[l] = <<>> /\ running[l] = NoTurn /\ alias[l] = l
                      /\ laneSession[l] = NoSession
  BY DEF Init, QueueInit
<1> QED
  BY <1>1, BaseInit, KeysAreRooms
     DEF StableInv, SessionsStay, DraftsFollow, RunsOnItsLane, LanesAreUsed, Busy

\* A turn that starts on lane l resumes l if l is a session, and nothing if l
\* is a draft key: the two maps lead its key to the same place.
LEMMA StartsOnItsLane ==
  ASSUME SessionsStay, DraftsFollow, NEW k \in Keys, NEW l \in Keys, alias[k] = l
  PROVE  resumeFor(k, laneSession) = IF l \in Sessions THEN l ELSE NoSession
<1>1. CASE k \in Sessions
  BY <1>1 DEF SessionsStay, resumeFor
<1>2. CASE k \notin Sessions
  BY <1>2, KeysAreRooms DEF DraftsFollow, resumeFor
<1> QED
  BY <1>1, <1>2

\* What a turn that starts on lane l, in this step, will write to.
LEMMA StartedRunsOnItsLane ==
  ASSUME ResolveStarted, NEW l \in Keys, running'[l] \in Turns, running'[l] \notin Started,
         running'[l] # NoTurn,
         resumeFor(postedAs'[running'[l]], laneSession') = IF l \in Sessions THEN l ELSE NoSession
  PROVE  RunsOnItsLane(l)'
<1>1. /\ resume'[running'[l]] = IF l \in Sessions THEN l ELSE NoSession
      /\ targetId'[running'[l]] = IF l \in Sessions THEN l ELSE NoSession
  BY Resolution
<1> QED
  BY <1>1, KeysAreRooms DEF RunsOnItsLane

LEMMA RunningKeepsItsLane ==
  ASSUME StableInv, ResolveStarted, NEW m \in Keys, running'[m] = running[m]
  PROVE  RunsOnItsLane(m)'
<1>1. CASE running[m] = NoTurn
  BY <1>1 DEF RunsOnItsLane
<1>2. CASE running[m] # NoTurn
  <2>1. running[m] \in Turns /\ running[m] \in Started
    BY <1>2, RunningIsTurn DEF StableInv, BaseInv, Started, RunningTurns
  <2>2. resume'[running[m]] = resume[running[m]] /\ targetId'[running[m]] = targetId[running[m]]
    BY <2>1, Resolution
  <2> QED
    BY <1>2, <2>2 DEF StableInv, RunsOnItsLane
<1> QED
  BY <1>1, <1>2

LEMMA PostStable ==
  ASSUME StableInv, NEW t \in Turns, NEW k \in Keys, PostMessage(t, k), BaseInv'
  PROVE  StableInv'
<1> USE DEF StableInv, BaseInv
<1>0. PICK l \in Keys : l = canon(k) /\ alias[k] = l /\ alias[l] = l
  BY CanonIsFixed DEF canon
<1>1. /\ alias' = alias /\ laneSession' = laneSession /\ used' = used
      /\ Appended(t, l) \/ StartedAtOnce(t, l)
  BY <1>0, EnqueueCases DEF PostMessage, Appended, StartedAtOnce
<1>2. SessionsStay' /\ DraftsFollow'
  BY <1>1 DEF SessionsStay, DraftsFollow
<1>3. LanesAreUsed'
  <2>1. \A m \in Keys \ {l} : Busy(m)' <=> Busy(m)
    BY <1>1 DEF QInv, QueueTypeOK, Appended, StartedAtOnce, Busy
  <2>2. CASE Busy(l)
    BY <1>1, <2>1, <2>2, KeysAreRooms DEF LanesAreUsed
  <2>3. CASE ~Busy(l)
    <3>1. l = k
      BY <1>0, <2>3, CanonIsFixed
    <3>2. l \in Sessions => l \in used
      BY <3>1, KeysAreRooms DEF PostMessage
    <3> QED
      BY <1>1, <2>1, <3>2, KeysAreRooms DEF LanesAreUsed
  <2> QED
    BY <2>2, <2>3
<1>4. ASSUME NEW m \in Keys PROVE RunsOnItsLane(m)'
  <2>1. CASE Appended(t, l) \/ m # l
    <3>1. running'[m] = running[m]
      BY <1>1, <2>1 DEF QInv, QueueTypeOK, Appended, StartedAtOnce
    <3> QED
      BY <3>1, RunningKeepsItsLane DEF PostMessage
  <2>2. CASE StartedAtOnce(t, l) /\ m = l
    <3>1. running'[l] = t /\ t # NoTurn
      BY <2>2, TurnQueueAssumption DEF QInv, QueueTypeOK, StartedAtOnce
    <3>2. postedAs[t] = NoKey /\ postedAs'[t] = k
      BY DEF QInv, QueueTypeOK, PostMessage, enqueue
    <3>3. t \notin Started
      BY <3>2, UnpostedIsNowhere DEF Started, RunningTurns
    <3>4. resumeFor(k, laneSession) = IF l \in Sessions THEN l ELSE NoSession
      BY <1>0, StartsOnItsLane
    <3> QED
      BY <1>1, <2>2, <3>1, <3>2, <3>3, <3>4, StartedRunsOnItsLane DEF PostMessage
  <2> QED
    BY <1>1, <2>1, <2>2
<1> QED
  BY <1>2, <1>3, <1>4

\* The lane of a draft room moves to the session its turn has created; the lane
\* key is then the very key its turn was posted under.
AdoptedFrom(l, t, id) ==
    /\ running[l] = t /\ t # NoTurn
    /\ resume[t] = NoSession /\ postedAs[t] = l
    /\ id \notin used /\ ~Busy(id) /\ id # l /\ alias[id] = id
    /\ Moved(l, id)
    /\ laneSession' = [laneSession EXCEPT ![l] = id] /\ targetId' = [targetId EXCEPT ![t] = id]
    /\ used' = used \cup {id} /\ resume' = resume
    /\ \A k \in Keys : alias'[k] = IF alias[k] = l THEN id ELSE alias[k]
    /\ items'[id] = items[l] /\ running'[id] = t /\ items'[l] = <<>> /\ running'[l] = NoTurn
    /\ \A m \in Keys \ {l, id} : items'[m] = items[m] /\ running'[m] = running[m]

LEMMA AdoptCases ==
  ASSUME Reports = "stable", StableInv, NEW t \in Turns, NEW id \in Sessions,
         AdoptSession(t, id)
  PROVE  \E l \in Drafts : AdoptedFrom(l, t, id)
<1> USE DEF StableInv, BaseInv
<1>1. PICK l \in Keys : running[l] = t /\ t # NoTurn
  BY DEF AdoptSession, RunningTurns
<1>2. targetId[t] = NoSession /\ id \notin used
  BY DEF AdoptSession, Reportable
<1>3. l \in Drafts /\ resume[t] = NoSession
  BY <1>1, <1>2, KeysAreRooms DEF RunsOnItsLane
<1>4. postedAs[t] = l
  BY <1>1, <1>3, KeysAreRooms DEF QInv, TurnsKnowTheirLane, SessionsStay, DraftsFollow
<1>5. id \in Keys /\ ~Busy(id) /\ id # l /\ alias[id] = id
  BY <1>2, <1>3, KeysAreRooms DEF LanesAreUsed, SessionsStay
<1>6. Moved(l, id)
  <2>1. alias[l] = l /\ Busy(l)
    BY <1>1, BusyIsFixed, RunningIsTurn
  <2>2. ~(UNCHANGED <<items, running, alias>>)
    <3>1. canon(l) = l /\ canon(id) = id /\ ~rekeyRefused(l, id)
      BY <1>5, <2>1 DEF canon, rekeyRefused
    <3>2. running' = [running EXCEPT ![id] = IF running[l] = NoTurn THEN @ ELSE running[l],
                                     ![l] = NoTurn]
      BY <1>4, <1>5, <3>1 DEF AdoptSession, rekey
    <3>3. running'[l] = NoTurn
      BY <1>5, <3>2 DEF QInv, QueueTypeOK
    <3> QED
      BY <1>1, <3>3
  <2> QED
    BY <1>1, <1>5, <2>2, RekeyCases DEF AdoptSession
<1>7. /\ laneSession' = [laneSession EXCEPT ![l] = id] /\ targetId' = [targetId EXCEPT ![t] = id]
      /\ used' = used \cup {id} /\ resume' = resume
      /\ \A k \in Keys : alias'[k] = IF alias[k] = l THEN id ELSE alias[k]
  BY <1>4, <1>6 DEF AdoptSession, Moved
<1>8. /\ items'[id] = items[l] /\ running'[id] = t /\ items'[l] = <<>> /\ running'[l] = NoTurn
      /\ \A m \in Keys \ {l, id} : items'[m] = items[m] /\ running'[m] = running[m]
  BY <1>1, <1>5, <1>6 DEF QInv, QueueTypeOK, Moved
<1> QED
  BY <1>1, <1>2, <1>3, <1>4, <1>5, <1>6, <1>7, <1>8 DEF AdoptedFrom

LEMMA AdoptStable ==
  ASSUME Reports = "stable", StableInv, NEW t \in Turns, NEW id \in Sessions,
         AdoptSession(t, id), BaseInv'
  PROVE  StableInv'
<1> USE DEF StableInv, BaseInv
<1>1. PICK l \in Drafts : AdoptedFrom(l, t, id)
  BY AdoptCases
<1>2. l \in Keys /\ id \in Keys /\ running[l] = t /\ t # NoTurn /\ resume[t] = NoSession
  BY <1>1, KeysAreRooms DEF AdoptedFrom
<1>3. /\ laneSession' = [laneSession EXCEPT ![l] = id] /\ targetId' = [targetId EXCEPT ![t] = id]
      /\ used' = used \cup {id} /\ resume' = resume
      /\ \A k \in Keys : alias'[k] = IF alias[k] = l THEN id ELSE alias[k]
  BY <1>1 DEF AdoptedFrom
<1>4. /\ items'[id] = items[l] /\ running'[id] = t /\ items'[l] = <<>> /\ running'[l] = NoTurn
      /\ \A m \in Keys \ {l, id} : items'[m] = items[m] /\ running'[m] = running[m]
  BY <1>1 DEF AdoptedFrom
<1>5. SessionsStay'
  BY <1>2, <1>3, KeysAreRooms DEF SessionsStay, TypeOK
<1>6. DraftsFollow'
  <2> SUFFICES ASSUME NEW d \in Drafts
               PROVE \/ alias'[d] = d /\ laneSession'[d] = NoSession
                     \/ alias'[d] \in Sessions /\ laneSession'[d] = alias'[d]
    BY DEF DraftsFollow
  <2>1. CASE d = l
    BY <1>2, <1>3, <2>1, KeysAreRooms, BusyIsFixed, RunningIsTurn DEF TypeOK
  <2>2. CASE d # l
    <3>1. alias[d] # l
      BY <1>2, <2>2, KeysAreRooms DEF DraftsFollow
    <3> QED
      BY <1>3, <2>2, <3>1, KeysAreRooms DEF DraftsFollow, TypeOK
  <2> QED
    BY <2>1, <2>2
<1>7. ASSUME NEW m \in Keys PROVE RunsOnItsLane(m)'
  <2>1. CASE m = id
    BY <1>2, <1>3, <1>4, <2>1 DEF TypeOK, RunsOnItsLane
  <2>2. CASE m = l
    BY <1>4, <2>2 DEF RunsOnItsLane
  <2>3. CASE m \notin {l, id}
    <3>1. running[m] = NoTurn \/ running[m] # t
      BY <1>2, <2>3, OneLanePerTurn
    <3>2. running'[m] = running[m]
      BY <1>4, <2>3
    <3>3. CASE running[m] = NoTurn
      BY <3>2, <3>3 DEF RunsOnItsLane
    <3>4. CASE running[m] # NoTurn
      <4>1. running[m] \in Turns
        BY <3>4 DEF QInv, QueueTypeOK
      <4>2. targetId'[running[m]] = targetId[running[m]] /\ resume'[running[m]] = resume[running[m]]
        BY <1>3, <3>1, <3>4, <4>1 DEF TypeOK
      <4> QED
        BY <3>2, <3>4, <4>2 DEF RunsOnItsLane
    <3> QED
      BY <3>3, <3>4
  <2> QED
    BY <2>1, <2>2, <2>3
<1>8. LanesAreUsed'
  BY <1>3, <1>4, KeysAreRooms DEF LanesAreUsed, Busy
<1> QED
  BY <1>5, <1>6, <1>7, <1>8

\* A lane that goes on resolves its next turn from the maps as they are; a lane
\* that is dropped takes what either map says about it along.
LEMMA SettleStable ==
  ASSUME StableInv, NEW l \in Keys, Settle(l), BaseInv'
  PROVE  StableInv'
<1> USE DEF StableInv, BaseInv
<1>1. /\ settle(l) /\ used' = used /\ ResolveStarted /\ running[l] # NoTurn
      /\ canon(drainKey[running[l]]) = l
      /\ MovesOn(l) \/ Dropped(l)
  BY SettleCases DEF Settle, settle
<1>2. \A m \in Keys \ {l} : items'[m] = items[m] /\ running'[m] = running[m]
  BY <1>1 DEF QInv, QueueTypeOK, MovesOn, Dropped
<1>3. LanesAreUsed'
  BY <1>1, <1>2, KeysAreRooms, RunningIsTurn DEF LanesAreUsed, Busy
<1>4. ASSUME NEW m \in Keys \ {l} PROVE RunsOnItsLane(m)'
  BY <1>1, <1>2, <1>4, RunningKeepsItsLane
<1>5. CASE MovesOn(l)
  <2> DEFINE h == Head(items[l])
  <2>1. /\ items[l] # <<>> /\ alias' = alias /\ laneSession' = laneSession /\ postedAs' = postedAs
        /\ running'[l] = h
    BY <1>1, <1>5 DEF QInv, QueueTypeOK, MovesOn, Settle, settle
  <2>2. /\ h \in Turns /\ h # NoTurn /\ h \notin Started
        /\ postedAs[h] \in Keys /\ alias[postedAs[h]] = l
    BY <2>1, NextInLine
  <2>3. resumeFor(postedAs[h], laneSession) = IF l \in Sessions THEN l ELSE NoSession
    BY <2>2, StartsOnItsLane
  <2>4. RunsOnItsLane(l)'
    BY <1>1, <2>1, <2>2, <2>3, StartedRunsOnItsLane
  <2>5. SessionsStay' /\ DraftsFollow'
    BY <2>1 DEF SessionsStay, DraftsFollow
  <2> QED
    BY <1>3, <1>4, <2>4, <2>5
<1>6. CASE Dropped(l)
  <2>1. /\ running'[l] = NoTurn
        /\ \A k \in Keys : alias'[k] = IF alias[k] = l THEN k ELSE alias[k]
    BY <1>6 DEF QInv, QueueTypeOK, Dropped
  <2>2. \A k \in Keys : laneSession'[k] = IF laneSession[k] = l \/ k = l
                                          THEN NoSession ELSE laneSession[k]
    <3>1. laneSession' = [k \in Keys |-> IF \/ laneSession[k] = canon(drainKey[running[l]])
                                            \/ k = canon(drainKey[running[l]])
                                         THEN NoSession ELSE laneSession[k]]
      BY <1>6 DEF Dropped, Settle, forgetLaneSession
    <3> QED
      BY <1>1, <3>1
  <2>3. RunsOnItsLane(l)'
    BY <2>1 DEF RunsOnItsLane
  <2>4. SessionsStay'
    BY <2>1, <2>2, KeysAreRooms DEF SessionsStay
  <2>5. DraftsFollow'
    <3> SUFFICES ASSUME NEW d \in Drafts
                 PROVE \/ alias'[d] = d /\ laneSession'[d] = NoSession
                       \/ alias'[d] \in Sessions /\ laneSession'[d] = alias'[d]
      BY DEF DraftsFollow
    <3>1. d \in Keys /\ d \notin Sessions
      BY KeysAreRooms
    <3>2. CASE alias[d] = d /\ laneSession[d] = NoSession
      BY <2>1, <2>2, <3>1, <3>2
    <3>3. CASE alias[d] \in Sessions /\ laneSession[d] = alias[d]
      <4>1. CASE alias[d] = l
        BY <2>1, <2>2, <3>1, <3>3, <4>1
      <4>2. CASE alias[d] # l
        <5>1. d # l
          BY <1>1, <3>1, <3>3, BusyIsFixed, RunningIsTurn
        <5> QED
          BY <2>1, <2>2, <3>1, <3>3, <4>2, <5>1
      <4> QED
        BY <4>1, <4>2
    <3> QED
      BY <3>2, <3>3 DEF DraftsFollow
  <2> QED
    BY <1>3, <1>4, <2>3, <2>4, <2>5
<1> QED
  BY <1>1, <1>5, <1>6

LEMMA StableStep ==
  ASSUME Reports = "stable"
  PROVE  StableInv /\ [Next]_vars => StableInv'
<1> SUFFICES ASSUME StableInv, [Next]_vars PROVE StableInv'
  OBVIOUS
<1>1. BaseInv'
  BY BaseStep DEF StableInv
<1>2. CASE UNCHANGED <<queueVars, roomVars>>
  BY <1>1, <1>2 DEF queueVars, roomVars, StableInv, SessionsStay, DraftsFollow,
                    RunsOnItsLane, LanesAreUsed, Busy
<1>3. CASE \E t \in Turns : (\E k \in Keys : PostMessage(t, k)) \/ \E id \in Sessions : AdoptSession(t, id)
  BY <1>1, <1>3, PostStable, AdoptStable
<1>4. CASE \E l \in Keys : Settle(l)
  BY <1>1, <1>4, SettleStable
<1> QED
  BY <1>2, <1>3, <1>4 DEF Next, Hangs, vars

LEMMA StableInvariance ==
  ASSUME Reports = "stable"
  PROVE  Spec => []StableInv
  BY StableInit, StableStep, PTL DEF Spec

\* No transcript fork: two runs in flight never write to one session.
THEOREM NoTranscriptFork ==
  ASSUME Reports = "stable"
  PROVE  Spec => []OneTurnPerSession
<1>1. StableInv => OneTurnPerSession
  <2> SUFFICES ASSUME StableInv, NEW l \in Keys, NEW m \in Keys,
                      running[l] # NoTurn, running[m] # NoTurn, running[l] # running[m]
               PROVE  Writes(running[l]) \cap Writes(running[m]) = {}
    BY DEF OneTurnPerSession, RunningTurns
  <2>1. Writes(running[l]) \subseteq {l} /\ Writes(running[m]) \subseteq {m}
    BY DEF StableInv, RunsOnItsLane, Writes
  <2> QED
    BY <2>1
<1> QED
  BY <1>1, StableInvariance, PTL

\* The queue's alias map and the server's laneSession map agree.
THEOREM MapsAlwaysAgree ==
  ASSUME Reports = "stable"
  PROVE  Spec => []MapsAgree
<1>1. StableInv => MapsAgree
  BY KeysAreRooms DEF StableInv, DraftsFollow, MapsAgree
<1> QED
  BY <1>1, StableInvariance, PTL

\* The first turn of a new room starts a new session.
THEOREM NewRoomsStartFresh ==
  ASSUME Reports = "stable"
  PROVE  Spec => NewRoomStartsFresh
<1>1. StableInv /\ StableInv' /\ [Next]_vars =>
        [\A t \in Turns, d \in Drafts :
          postedAs[t] = NoKey /\ postedAs'[t] = d /\ ~Busy(canon(d)) => resume'[t] = NoSession]_vars
  <2> SUFFICES ASSUME StableInv, StableInv', [Next]_vars, NEW t \in Turns, NEW d \in Drafts,
                      postedAs[t] = NoKey, postedAs'[t] = d, ~Busy(canon(d))
               PROVE  resume'[t] = NoSession
    OBVIOUS
  <2>1. d \in Keys /\ d # NoKey
    BY KeysAreRooms, TurnQueueAssumption
  <2>2. PostMessage(t, d)
    <3>1. ASSUME NEW u \in Turns, NEW k \in Keys, PostMessage(u, k) PROVE u = t /\ k = d
      BY <2>1, <3>1 DEF PostMessage, enqueue, StableInv, BaseInv, QInv, QueueTypeOK
    <3>2. ASSUME UNCHANGED postedAs PROVE FALSE
      BY <2>1, <3>2
    <3> QED
      BY <3>1, <3>2 DEF Next, AdoptSession, Hangs, Settle, settle, vars, queueVars
  <2>3. canon(d) = d /\ alias[d] = d
    BY <2>1, CanonIsFixed DEF StableInv, BaseInv, canon
  <2>4. StartedAtOnce(t, d)
    BY <2>1, <2>2, <2>3, EnqueueCases, RunningIsTurn DEF StableInv, BaseInv, PostMessage, Appended
  <2>5. running'[d] = t /\ t # NoTurn
    BY <2>1, <2>4, TurnQueueAssumption DEF StableInv, BaseInv, QInv, QueueTypeOK, StartedAtOnce
  <2>6. t \notin Started
    BY UnpostedIsNowhere DEF StableInv, BaseInv, Started, RunningTurns
  <2>7. resumeFor(d, laneSession') = NoSession
    BY <2>1, <2>2, <2>3, KeysAreRooms DEF PostMessage, StableInv, DraftsFollow, resumeFor
  <2> QED
    BY <2>1, <2>2, <2>5, <2>6, <2>7, Resolution DEF PostMessage
<1> QED
  BY <1>1, StableInvariance, PTL DEF Spec, NewRoomStartsFresh

\* The turn behind a settling turn continues the session that turn ended up in.
THEOREM QueuedTurnsContinue ==
  ASSUME Reports = "stable"
  PROVE  Spec => QueuedTurnContinuesRoom
<1>1. StableInv /\ StableInv' /\ [Next]_vars =>
        [\A l \in Keys :
          /\ items[l] # <<>> /\ running[l] \in done' \ done
          /\ targetId[running[l]] # NoSession
          => resume'[Head(items[l])] = targetId[running[l]]]_vars
  <2> SUFFICES ASSUME StableInv, StableInv', [Next]_vars, NEW l \in Keys,
                      items[l] # <<>>, running[l] \in done' \ done, targetId[running[l]] # NoSession
               PROVE  resume'[Head(items[l])] = targetId[running[l]]
    OBVIOUS
  <2> DEFINE h == Head(items[l])
  <2> USE DEF StableInv, BaseInv
  <2>1. running[l] # NoTurn
    BY TurnQueueAssumption DEF QInv, QueueTypeOK
  <2>2. Settle(l)
    <3>1. ASSUME NEW m \in Keys, Settle(m) PROVE m = l
      <4>1. running[m] = running[l]
        BY <3>1 DEF Settle, settle
      <4> QED
        BY <2>1, <4>1, OneLanePerTurn
    <3>2. ASSUME UNCHANGED done PROVE FALSE
      BY <3>2
    <3> QED
      BY <3>1, <3>2 DEF Next, PostMessage, enqueue, AdoptSession, Hangs, vars, queueVars
  <2>3. /\ MovesOn(l) /\ laneSession' = laneSession /\ postedAs' = postedAs /\ ResolveStarted
        /\ running'[l] = h
    <3>1. MovesOn(l)
      BY <2>2, SettleCases DEF Settle, Dropped
    <3> QED
      BY <2>2, <3>1 DEF Settle, settle, MovesOn, QInv, QueueTypeOK
  <2>4. l \in Sessions /\ targetId[running[l]] = l
    BY <2>1 DEF RunsOnItsLane
  <2>5. /\ h \in Turns /\ h # NoTurn /\ h \notin Started
        /\ postedAs[h] \in Keys /\ alias[postedAs[h]] = l
    BY NextInLine
  <2>6. resumeFor(postedAs[h], laneSession) = l
    BY <2>4, <2>5, StartsOnItsLane
  <2> QED
    BY <2>3, <2>4, <2>5, <2>6, Resolution
<1> QED
  BY <1>1, StableInvariance, PTL DEF Spec, QueuedTurnContinuesRoom

-----------------------------------------------------------------------------
(* Refinement: over a stable backend every step of Rooms is a step of      *)
(* SerialTurns, or leaves its variables alone.                             *)

LEMMA InitRefines == Init => Serial!Init
  BY RoomsAssumption DEF Init, QueueInit, Serial!Init, Serial!Names

\* A turn that is resolved in this step, on lane l, writes what SerialTurns says.
LEMMA StartWrites ==
  ASSUME StableInv, ResolveStarted, NEW l \in Keys, NEW t \in Turns, t \notin Started, t # NoTurn,
         running' = [running EXCEPT ![l] = t],
         resumeFor(postedAs'[t], laneSession') = Serial!sessionOf(l)
  PROVE  targetId' = [targetId EXCEPT ![t] = Serial!sessionOf(l)]
<1>1. \A m \in Keys : running'[m] = IF m = l THEN t ELSE running[m]
  BY DEF StableInv, BaseInv, QInv, QueueTypeOK
<1>2. {running'[m] : m \in Keys} \ (Started \cup {NoTurn}) = {t}
  BY <1>1 DEF Started, RunningTurns
<1>3. targetId' = [u \in Turns |-> IF u = t THEN resumeFor(postedAs'[u], laneSession') ELSE targetId[u]]
  BY <1>2 DEF ResolveStarted
<1> QED
  BY <1>3 DEF StableInv, BaseInv, TypeOK

\* A step that starts nothing leaves every turn's session alone.
LEMMA NoStartWrites ==
  ASSUME StableInv, ResolveStarted, \A m \in Keys : running'[m] \in {running[m], NoTurn}
  PROVE  targetId' = targetId
<1>1. {running'[m] : m \in Keys} \ (Started \cup {NoTurn}) = {}
  BY DEF Started, RunningTurns
<1>2. targetId' = [u \in Turns |-> targetId[u]]
  BY <1>1 DEF ResolveStarted
<1> QED
  BY <1>2 DEF StableInv, BaseInv, TypeOK

LEMMA PostRefines ==
  ASSUME StableInv, NEW t \in Turns, NEW k \in Keys, PostMessage(t, k)
  PROVE  Serial!Post(t, k)
<1> USE DEF StableInv, BaseInv
<1>1. PICK l \in Keys : l = canon(k) /\ alias[k] = l
  BY CanonIsFixed DEF canon
<1>2. /\ t \notin {u \in Turns : postedAs[u] # NoKey}
      /\ {u \in Turns : postedAs'[u] # NoKey} = {u \in Turns : postedAs[u] # NoKey} \cup {t}
  <2>1. k # NoKey /\ postedAs[t] = NoKey /\ postedAs' = [postedAs EXCEPT ![t] = k]
    BY TurnQueueAssumption DEF PostMessage, enqueue
  <2>2. \A u \in Turns : postedAs'[u] = IF u = t THEN k ELSE postedAs[u]
    BY <2>1 DEF QInv, QueueTypeOK
  <2> QED
    BY <2>1, <2>2
<1>3. /\ k \in Drafts \cup used /\ alias' = alias /\ used' = used /\ done' = done
      /\ Appended(t, l) \/ StartedAtOnce(t, l)
  <2>1. /\ k \in Drafts \cup used /\ used' = used /\ done' = done
        /\ enqueue(t, k)
    BY DEF PostMessage, enqueue
  <2>2. Appended(t, l) \/ StartedAtOnce(t, l)
    BY <1>1, <2>1, EnqueueCases
  <2> QED
    BY <2>1, <2>2 DEF Appended, StartedAtOnce
<1>4. CASE StartedAtOnce(t, l)
  <2>1. t \notin Started /\ t # NoTurn
    BY UnpostedIsNowhere, TurnQueueAssumption DEF PostMessage, enqueue, Started, RunningTurns
  <2>2. resumeFor(postedAs'[t], laneSession') = Serial!sessionOf(l)
    <3>1. postedAs'[t] = k /\ laneSession' = laneSession
      BY DEF PostMessage, enqueue, QInv, QueueTypeOK
    <3> QED
      BY <1>1, <3>1, StartsOnItsLane DEF Serial!sessionOf
  <2>3. targetId' = [targetId EXCEPT ![t] = Serial!sessionOf(l)]
    BY <1>4, <2>1, <2>2, StartWrites DEF PostMessage, StartedAtOnce
  <2> QED
    BY <1>1, <1>2, <1>3, <1>4, <2>3 DEF Serial!Post, StartedAtOnce
<1>5. CASE Appended(t, l)
  <2>1. targetId' = targetId
    BY <1>5, NoStartWrites DEF PostMessage, Appended
  <2> QED
    BY <1>1, <1>2, <1>3, <1>5, <2>1 DEF Serial!Post, Appended
<1> QED
  BY <1>3, <1>4, <1>5

LEMMA AdoptRefines ==
  ASSUME Reports = "stable", StableInv, NEW t \in Turns, NEW id \in Sessions, AdoptSession(t, id)
  PROVE  \E d \in Drafts : Serial!Name(d, id)
<1> USE DEF StableInv, BaseInv
<1>1. PICK d \in Drafts : AdoptedFrom(d, t, id)
  BY AdoptCases
<1>2. d \in Keys /\ id \in Keys
  BY KeysAreRooms
<1>3. alias' = [alias EXCEPT ![d] = id]
  <2>1. \A k \in Keys : alias[k] = d => k = d
    BY <1>1, <1>2, KeysAreRooms DEF SessionsStay, DraftsFollow, AdoptedFrom
  <2>2. alias[d] = d
    BY <1>1, <1>2, BusyIsFixed DEF AdoptedFrom, Moved
  <2> QED
    BY <1>1, <1>2, <2>1, <2>2 DEF AdoptedFrom, Moved, QInv, QueueTypeOK
<1>4. UNCHANGED {u \in Turns : postedAs[u] # NoKey} /\ UNCHANGED done
  BY DEF AdoptSession
<1> QED
  BY <1>1, <1>3, <1>4 DEF Serial!Name, AdoptedFrom, Moved

LEMMA SettleRefines ==
  ASSUME StableInv, StableInv', NEW l \in Keys, Settle(l)
  PROVE  Serial!Finish(l)
<1> USE DEF StableInv, BaseInv
<1>1. /\ running[l] # NoTurn /\ done' = done \cup {running[l]} /\ used' = used
      /\ ResolveStarted /\ postedAs' = postedAs
      /\ MovesOn(l) \/ Dropped(l)
  BY SettleCases DEF Settle, settle
<1>2. UNCHANGED {u \in Turns : postedAs[u] # NoKey}
  BY <1>1
<1>3. CASE MovesOn(l)
  <2> DEFINE h == Head(items[l])
  <2>1. /\ h \in Turns /\ h # NoTurn /\ h \notin Started
        /\ postedAs[h] \in Keys /\ alias[postedAs[h]] = l
    BY <1>3, NextInLine DEF MovesOn
  <2>2. laneSession' = laneSession
    BY <1>3 DEF MovesOn, Settle
  <2>3. resumeFor(postedAs'[h], laneSession') = Serial!sessionOf(l)
    BY <1>1, <2>1, <2>2, StartsOnItsLane DEF Serial!sessionOf
  <2>4. targetId' = [targetId EXCEPT ![h] = Serial!sessionOf(l)]
    BY <1>1, <1>3, <2>1, <2>3, StartWrites DEF MovesOn
  <2> QED
    BY <1>1, <1>2, <1>3, <2>4 DEF Serial!Finish, MovesOn
<1>4. CASE Dropped(l)
  <2>1. targetId' = targetId
    <3>1. \A m \in Keys : running'[m] \in {running[m], NoTurn}
      BY <1>4 DEF Dropped, QInv, QueueTypeOK
    <3> QED
      BY <1>1, <3>1, NoStartWrites
  <2> QED
    BY <1>1, <1>2, <1>4, <2>1, RoomsAssumption DEF Serial!Finish, Serial!Names, Dropped
<1> QED
  BY <1>1, <1>3, <1>4

\* Over a backend that keeps session ids, rooms behave as one serial line of
\* turns each, whose front turn alone writes, and writes its room's session.
THEOREM RoomsAreSerial ==
  ASSUME Reports = "stable"
  PROVE  Spec => ImplementsSerialTurns
<1>1. StableInv /\ StableInv' /\ [Next]_vars => [Serial!Next]_(Serial!serialVars)
  <2> SUFFICES ASSUME StableInv, StableInv', [Next]_vars
               PROVE  [Serial!Next]_(Serial!serialVars)
    OBVIOUS
  <2>1. ASSUME NEW t \in Turns, NEW k \in Keys, PostMessage(t, k) PROVE Serial!Next
    BY <2>1, PostRefines, RoomsAssumption DEF Serial!Next, Serial!Names
  <2>2. ASSUME NEW t \in Turns, NEW id \in Sessions, AdoptSession(t, id) PROVE Serial!Next
    BY <2>2, AdoptRefines DEF Serial!Next
  <2>3. ASSUME NEW l \in Keys, Settle(l) PROVE Serial!Next
    BY <2>3, SettleRefines, RoomsAssumption DEF Serial!Next, Serial!Names
  <2>4. CASE UNCHANGED <<queueVars, roomVars>>
    BY <2>4 DEF queueVars, roomVars, Serial!serialVars
  <2> QED
    BY <2>1, <2>2, <2>3, <2>4 DEF Next, Hangs, vars
<1> QED
  BY <1>1, InitRefines, StableInvariance, PTL DEF Spec, Serial!Spec, ImplementsSerialTurns
=============================================================================

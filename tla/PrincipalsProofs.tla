-------------------------- MODULE PrincipalsProofs --------------------------
(***************************************************************************)
(* Proofs about Principals: whatever dies, races or restarts, two turns    *)
(* never share a principal, an agent stays with the principal it was made  *)
(* for, and no conversation starts in a transcript that has prompts.       *)
(***************************************************************************)
EXTENDS Principals, FiniteSetTheorems, TLAPS

Principal(c) == rec[ens[c].p]

\* A live agent was made for a principal, and is the only live one made for it.
OneAgentEach ==
    \A n \in alive : /\ label[n] \in Principals
                     /\ \A m \in alive : label[m] = label[n] => m = n

\* Agents are made for records that exist.
LabelsHaveRecords ==
    \A n \in Natives : label[n] # None => rec[label[n]].status # "absent"

\* A running turn has claimed its principal, whose record is no child's.
TurnsHoldPrincipals ==
    \A c \in Running : /\ ens[c].p \in inFlight
                       /\ Principal(c).status # "absent"
                       /\ Principal(c).depth = 0

\* A dispatch works for the child it is named after.
DispatchesHoldChildren ==
    \A p \in Principals : ens[p].pc # "idle" =>
        /\ ens[p].p = p
        /\ rec[p].status # "absent"
        /\ rec[p].depth = 1

Holding == {"liveness", "ready", "sending", "answering"}

\* A caller that has an agent has the one its record is bound to.
CallersHoldBindings ==
    \A c \in Callers : ens[c].pc \in Holding =>
        ens[c].n # None /\ Principal(c).native = ens[c].n

\* A session that a client knows is in the lane of the turn that runs on it.
LanesCoverSessions ==
    \A c \in Running : Principal(c).native \in handed => Principal(c).native \in ens[c].lane

\* A session that a client knows belongs to an operator's record, and is what
\* that is bound to, unless its agent is dead.
SessionsAreBound ==
    \A n \in handed : /\ label[n] \in Principals
                      /\ rec[label[n]].depth = 0
                      /\ rec[label[n]].native = n \/ n \notin alive

Inv ==
    /\ TypeOK
    /\ OneAgentEach /\ LabelsHaveRecords /\ BindingFollowsLabel
    /\ TurnsHoldPrincipals /\ DispatchesHoldChildren /\ OneTurnPerPrincipal
    /\ CallersHoldBindings /\ LanesCoverSessions /\ SessionsAreBound
    /\ FreshConversationsAreFresh

USE NumAssumption, NoneAssumption, ConvsAssumption, CapsAssumption

LEMMA InitInv == Init => Inv
  BY DEF Init, Inv, TypeOK, AgentInit, AgentTypeOK, AgentRecord, Caller, Steps, Idle, NoSpawn,
         OneAgentEach, LabelsHaveRecords, BindingFollowsLabel, TurnsHoldPrincipals,
         DispatchesHoldChildren, OneTurnPerPrincipal, CallersHoldBindings, LanesCoverSessions,
         SessionsAreBound, FreshConversationsAreFresh, Running, Callers, Principals, Holding

-----------------------------------------------------------------------------
(* What the parts of the actions do.                                       *)

LEMMA GotoEffect ==
  ASSUME ens \in [Callers -> Caller], NEW c \in Callers, NEW x \in Steps, Goto(c, x)
  PROVE  /\ ens' \in [Callers -> Caller]
         /\ \A d \in Callers : /\ ens'[d].p = ens[d].p /\ ens'[d].n = ens[d].n
                               /\ ens'[d].lane = ens[d].lane
                               /\ ens'[d].pc = IF d = c THEN x ELSE ens[d].pc
  BY DEF Goto, Caller

\* A caller that is busy has a principal with a record, and has it alone.
LEMMA Alone ==
  ASSUME Inv, NEW c \in Callers, ens[c].pc # "idle"
  PROVE  /\ ens[c].p \in Principals
         /\ rec[ens[c].p].status # "absent"
         /\ \A d \in Callers \ {c} : ens[d].pc # "idle" => ens[d].p # ens[c].p
<1>1. CASE c \in Convs
  BY <1>1 DEF Inv, TypeOK, TurnsHoldPrincipals, DispatchesHoldChildren, OneTurnPerPrincipal,
             Running, Callers, Principal
<1>2. CASE c \in Principals
  BY <1>2 DEF Inv, TypeOK, TurnsHoldPrincipals, DispatchesHoldChildren, Running, Callers, Principal
<1> QED  BY <1>1, <1>2 DEF Callers

\* Callers move on with what they have, and agents die.
LEMMA MoveOn ==
  ASSUME Inv, TypeOK', alive' \subseteq alive,
         UNCHANGED <<rec, label, inFlight, handed, messaged>>,
         \A d \in Callers : /\ ens'[d].p = ens[d].p /\ ens'[d].n = ens[d].n
                            /\ ens'[d].lane = ens[d].lane
                            /\ ens[d].pc = "idle" => ens'[d].pc = "idle"
                            /\ ens'[d].pc \in Holding => ens[d].pc \in Holding
  PROVE  Inv'
<1>1. OneAgentEach' /\ LabelsHaveRecords' /\ BindingFollowsLabel' /\ FreshConversationsAreFresh'
  BY DEF Inv, OneAgentEach, LabelsHaveRecords, BindingFollowsLabel, FreshConversationsAreFresh
<1>2. TurnsHoldPrincipals' /\ DispatchesHoldChildren'
  BY DEF Inv, TurnsHoldPrincipals, DispatchesHoldChildren, Running, Principal, Callers
<1>3. OneTurnPerPrincipal'
  BY DEF Inv, OneTurnPerPrincipal, Running, Callers
<1>4. CallersHoldBindings'
  BY DEF Inv, CallersHoldBindings, Principal
<1>5. LanesCoverSessions'
  BY DEF Inv, LanesCoverSessions, Running, Principal, Callers
<1>6. SessionsAreBound'
  BY DEF Inv, SessionsAreBound
<1> QED  BY <1>1, <1>2, <1>3, <1>4, <1>5, <1>6 DEF Inv

\* bindIfUnclaimed with an agent that was found by its label.
LEMMA Bind ==
  ASSUME Inv, NEW c \in Callers, NEW n \in Labelled(ens[c].p),
         ens[c].pc \in {"resolve", "confirm"}, BindIfUnclaimed(c, n),
         UNCHANGED <<label, alive, terminal, messaged, mode, inFlight, handed, spawn, aged>>
  PROVE  Inv'
<1> DEFINE p == ens[c].p
<1>1. p \in Principals /\ rec[p].status # "absent" /\ n \in Natives /\ n \in alive /\ label[n] = p
      /\ n # None /\ \A d \in Callers \ {c} : ens[d].pc # "idle" => ens[d].p # p
  BY Alone DEF Inv, TypeOK, AgentTypeOK, Labelled
<1>t. ens \in [Callers -> Caller] /\ rec \in [Principals -> AgentRecord]
  BY DEF Inv, TypeOK, AgentTypeOK
<1>2. CASE ClaimedElsewhere(p, n)
  <2>1. Goto(c, "failed") /\ UNCHANGED rec
    BY <1>2 DEF BindIfUnclaimed
  <2>2. TypeOK'
    BY <2>1, <1>t, GotoEffect DEF Inv, TypeOK, AgentTypeOK, Steps
  <2> QED  BY <2>1, <2>2, <1>t, GotoEffect, MoveOn DEF Steps, Holding
<1>3. CASE ~ClaimedElsewhere(p, n)
  <2>1. rec' = [rec EXCEPT ![p].native = n] /\ ens' = [ens EXCEPT ![c].pc = "ready", ![c].n = n]
    BY <1>3 DEF BindIfUnclaimed
  <2>2. /\ \A q \in Principals : /\ rec'[q].status = rec[q].status /\ rec'[q].depth = rec[q].depth
                                 /\ rec'[q].native = IF q = p THEN n ELSE rec[q].native
        /\ rec' \in [Principals -> AgentRecord]
    BY <2>1, <1>1, <1>t DEF AgentRecord
  <2>3. /\ \A d \in Callers : /\ ens'[d].p = ens[d].p /\ ens'[d].lane = ens[d].lane
                              /\ ens'[d].pc = IF d = c THEN "ready" ELSE ens[d].pc
                              /\ ens'[d].n = IF d = c THEN n ELSE ens[d].n
        /\ ens' \in [Callers -> Caller]
    BY <2>1, <1>1, <1>t DEF Caller, Steps
  <2>4. \A d \in Callers : ens[d].pc # "idle" => ens[d].p \in Principals
    BY Alone
  <2>5. TypeOK'
    BY <2>2, <2>3 DEF Inv, TypeOK, AgentTypeOK
  <2>6. OneAgentEach' /\ LabelsHaveRecords'
    BY <2>2, <1>1 DEF Inv, TypeOK, AgentTypeOK, OneAgentEach, LabelsHaveRecords
  <2>7. BindingFollowsLabel'
    BY <2>2, <1>1 DEF Inv, BindingFollowsLabel
  <2>8. TurnsHoldPrincipals' /\ DispatchesHoldChildren'
    BY <2>2, <2>3, <2>4 DEF Inv, TurnsHoldPrincipals, DispatchesHoldChildren, Running, Principal, Callers
  <2>9. OneTurnPerPrincipal'
    BY <2>3 DEF Inv, OneTurnPerPrincipal, Running, Callers
  <2>10. CallersHoldBindings'
    BY <2>2, <2>3, <2>4, <1>1 DEF Inv, CallersHoldBindings, Principal, Holding
  <2>11. n \in handed => rec[p].native = n
    BY <1>1 DEF Inv, SessionsAreBound
  <2>12. LanesCoverSessions'
    BY <2>2, <2>3, <2>4, <2>11, <1>1 DEF Inv, LanesCoverSessions, Running, Principal, Callers
  <2>13. SessionsAreBound'
    BY <2>2, <1>1 DEF Inv, SessionsAreBound, OneAgentEach
  <2>14. FreshConversationsAreFresh'
    BY <2>2, <1>1 DEF Inv, FreshConversationsAreFresh
  <2> QED  BY <2>5, <2>6, <2>7, <2>8, <2>9, <2>10, <2>12, <2>13, <2>14 DEF Inv
<1> QED  BY <1>2, <1>3

\* `mngr create` makes an agent for a record that exists.
LEMMA Made ==
  ASSUME Inv, NEW p \in Principals, NEW n \in Natives, rec[p].status # "absent",
         MakeAgent(p, n), UNCHANGED <<rec, messaged, handed>>
  PROVE  /\ OneAgentEach' /\ LabelsHaveRecords' /\ BindingFollowsLabel'
         /\ SessionsAreBound' /\ FreshConversationsAreFresh'
         /\ label' \in [Natives -> Principals \cup {None}] /\ alive' \subseteq Natives
<1>1. /\ label' \in [Natives -> Principals \cup {None}] /\ alive' = alive \cup {n}
      /\ \A m \in Natives : label'[m] = IF m = n THEN p ELSE label[m]
      /\ label[n] = None /\ alive' \subseteq Natives
      /\ \A m \in alive : label[m] # p
  BY DEF MakeAgent, Labelled, Inv, TypeOK, AgentTypeOK
<1>2. OneAgentEach' /\ LabelsHaveRecords'
  BY <1>1 DEF Inv, TypeOK, AgentTypeOK, OneAgentEach, LabelsHaveRecords
<1>3. BindingFollowsLabel'
  BY <1>1 DEF Inv, TypeOK, AgentTypeOK, AgentRecord, BindingFollowsLabel
<1>4. SessionsAreBound' /\ FreshConversationsAreFresh'
  BY <1>1 DEF Inv, TypeOK, AgentTypeOK, SessionsAreBound, FreshConversationsAreFresh
<1> QED  BY <1>1, <1>2, <1>3, <1>4

-----------------------------------------------------------------------------
(* The steps of ensureAgent.                                               *)

LEMMA EnsureStep ==
  ASSUME Inv, NEW c \in Callers, EnsureAgent(c), UNCHANGED <<mode, inFlight, handed, spawn, aged>>
  PROVE  Inv'
<1>t. ens \in [Callers -> Caller] /\ rec \in [Principals -> AgentRecord]
  BY DEF Inv, TypeOK, AgentTypeOK
<1>m. ASSUME NEW x \in Steps, Goto(c, x), UNCHANGED <<rec, label, alive, terminal, messaged>>,
             ens[c].pc # "idle", x \in Holding => ens[c].pc \in Holding
      PROVE  Inv'
  <2>1. TypeOK'
    BY <1>m, <1>t, GotoEffect DEF Inv, TypeOK, AgentTypeOK
  <2> QED  BY <1>m, <2>1, <1>t, GotoEffect, MoveOn
<1>1. CASE Liveness(c)
  BY <1>1, <1>m DEF Liveness, Steps, Holding
<1>2. CASE Resolve(c)
  <2>1. CASE Goto(c, "create") /\ UNCHANGED rec
    BY <1>2, <2>1, <1>m DEF Resolve, Steps, Holding
  <2>2. CASE \E n \in Labelled(ens[c].p) : BindIfUnclaimed(c, n)
    BY <1>2, <2>2, Bind DEF Resolve
  <2> QED  BY <1>2, <2>1, <2>2 DEF Resolve
<1>3. CASE Create(c)
  <2>1. ens[c].pc = "create" /\ UNCHANGED <<rec, terminal, messaged>>
    BY <1>3 DEF Create
  <2>2. CASE Goto(c, "failed") /\ UNCHANGED <<label, alive>>
    BY <2>1, <2>2, <1>m DEF Steps, Holding
  <2>3. CASE /\ \E n \in Natives : MakeAgent(ens[c].p, n)
             /\ \E pc \in {"confirm", "failed"} : Goto(c, pc)
    <3>1. PICK n \in Natives : MakeAgent(ens[c].p, n)
      BY <2>3
    <3>2. PICK pc \in {"confirm", "failed"} : Goto(c, pc)
      BY <2>3
    <3>3. ens[c].p \in Principals /\ rec[ens[c].p].status # "absent"
      BY <2>1, Alone
    <3>4. /\ OneAgentEach' /\ LabelsHaveRecords' /\ BindingFollowsLabel'
          /\ SessionsAreBound' /\ FreshConversationsAreFresh'
          /\ label' \in [Natives -> Principals \cup {None}] /\ alive' \subseteq Natives
      BY <2>1, <3>1, <3>3, Made
    <3>5. /\ ens' \in [Callers -> Caller]
          /\ \A d \in Callers : /\ ens'[d].p = ens[d].p /\ ens'[d].n = ens[d].n
                                /\ ens'[d].lane = ens[d].lane
                                /\ ens'[d].pc = IF d = c THEN pc ELSE ens[d].pc
      BY <3>2, <1>t, GotoEffect DEF Steps
    <3>6. TypeOK'
      BY <2>1, <3>4, <3>5 DEF Inv, TypeOK, AgentTypeOK
    <3>7. TurnsHoldPrincipals' /\ DispatchesHoldChildren'
      BY <2>1, <3>5 DEF Inv, TurnsHoldPrincipals, DispatchesHoldChildren, Running, Principal, Callers
    <3>8. OneTurnPerPrincipal' /\ CallersHoldBindings' /\ LanesCoverSessions'
      BY <2>1, <3>5 DEF Inv, OneTurnPerPrincipal, CallersHoldBindings, LanesCoverSessions,
                        Running, Principal, Callers, Holding
    <3> QED  BY <3>4, <3>6, <3>7, <3>8 DEF Inv
  <2> QED  BY <1>3, <2>2, <2>3 DEF Create
<1>4. CASE Confirm(c)
  <2>1. CASE Goto(c, "failed") /\ UNCHANGED rec
    BY <1>4, <2>1, <1>m DEF Confirm, Steps, Holding
  <2>2. CASE \E n \in Labelled(ens[c].p) : BindIfUnclaimed(c, n)
    BY <1>4, <2>2, Bind DEF Confirm
  <2> QED  BY <1>4, <2>1, <2>2 DEF Confirm
<1> QED  BY <1>1, <1>2, <1>3, <1>4 DEF EnsureAgent

-----------------------------------------------------------------------------
(* An operator's turn.                                                     *)

LEMMA StartStep ==
  ASSUME Inv, NEW c \in Convs, NEW sid \in handed \cup {None}, StartTurn(c, sid)
  PROVE  Inv'
<1>1. PICK p \in Principals :
        /\ \/ p \in BoundTo(sid) /\ rec' = rec
           \/ p \in Reusable /\ rec' = rec
           \/ NextRecords({p}) /\ rec' = Created({p}, 0)
        /\ inFlight' = inFlight \cup {p}
        /\ ens' = [ens EXCEPT ![c] = Ensuring(p, rec', {sid} \ {None})]
  BY DEF StartTurn
<1>2. /\ UNCHANGED <<label, alive, terminal, messaged, mode, handed, spawn, aged>>
      /\ ens[c].pc = "idle" /\ \A d \in Running : sid \notin ens[d].lane
  BY DEF StartTurn
<1>t. /\ ens \in [Callers -> Caller] /\ rec \in [Principals -> AgentRecord]
      /\ c \in Callers /\ handed \subseteq Natives /\ inFlight \subseteq Principals
  BY DEF Inv, TypeOK, AgentTypeOK, Callers
\* The record: unclaimed, an operator's, and the one that sid is bound to or a free one.
<1>3. /\ rec' \in [Principals -> AgentRecord]
      /\ rec'[p].depth = 0 /\ rec'[p].status # "absent"
      /\ \A q \in Principals \ {p} : rec'[q] = rec[q]
      /\ rec'[p].native = None \/ rec'[p].native = sid
      /\ rec'[p] = rec[p] \/ (rec[p].status = "absent" /\ rec'[p].native = None)
  <2>1. CASE p \in BoundTo(sid) /\ rec' = rec
    <3>1. sid \in Natives /\ sid \in handed /\ rec[p].native = sid /\ label[sid] = p
      BY <2>1, <1>t DEF BoundTo, Inv, BindingFollowsLabel
    <3> QED  BY <2>1, <3>1, <1>t, <1>2 DEF Inv, SessionsAreBound, LabelsHaveRecords
  <2>2. CASE p \in Reusable /\ rec' = rec
    BY <2>2, <1>t DEF Reusable, Active
  <2>3. CASE NextRecords({p}) /\ rec' = Created({p}, 0)
    BY <2>3, <1>t DEF NextRecords, Created, Absent, AgentRecord
  <2> QED  BY <1>1, <2>1, <2>2, <2>3
<1>4. \A d \in Running : ens[d].p # p
  <2>1. CASE p \in BoundTo(sid) /\ rec' = rec
    BY <2>1, <1>2, <1>t DEF BoundTo, Inv, LanesCoverSessions, Principal
  <2>2. CASE p \in Reusable /\ rec' = rec
    BY <2>2 DEF Reusable, Inv, TurnsHoldPrincipals
  <2>3. CASE NextRecords({p}) /\ rec' = Created({p}, 0)
    BY <2>3 DEF NextRecords, Absent, Inv, TurnsHoldPrincipals, Principal
  <2> QED  BY <1>1, <2>1, <2>2, <2>3
<1>5. \A d \in Principals : ens[d].pc # "idle" => d # p
  BY <1>3 DEF Inv, DispatchesHoldChildren
<1>6. /\ \A d \in Callers \ {c} : ens'[d] = ens[d]
      /\ ens'[c].pc # "idle" /\ ens'[c].p = p /\ ens'[c].n = rec'[p].native
      /\ ens'[c].lane = {sid} \ {None}
      /\ ens'[c].pc \in Holding => rec'[p].native # None
      /\ ens' \in [Callers -> Caller]
  <2>1. Ensuring(p, rec', {sid} \ {None}) \in Caller
    BY <1>3, <1>t DEF Ensuring, Caller, Steps, AgentRecord
  <2> QED  BY <1>1, <2>1, <1>t DEF Ensuring, Holding
<1>7. \A d \in Callers : ens[d].pc # "idle" => ens[d].p \in Principals /\ ens[d].p # p
  BY <1>4, <1>5, Alone DEF Callers, Running, Inv, DispatchesHoldChildren
<1>8. TypeOK'
  BY <1>1, <1>2, <1>3, <1>6 DEF Inv, TypeOK, AgentTypeOK
<1>9. OneAgentEach' /\ BindingFollowsLabel'
  BY <1>2, <1>3 DEF Inv, OneAgentEach, BindingFollowsLabel
<1>10. TurnsHoldPrincipals'
  BY <1>1, <1>3, <1>6, <1>7 DEF Inv, TurnsHoldPrincipals, Running, Principal, Callers
<1>16. DispatchesHoldChildren'
  BY <1>3, <1>5, <1>6 DEF Inv, DispatchesHoldChildren, Callers
<1>11. OneTurnPerPrincipal'
  BY <1>6, <1>4 DEF Inv, OneTurnPerPrincipal, Running, Callers
<1>12. CallersHoldBindings'
  BY <1>3, <1>6, <1>7 DEF Inv, CallersHoldBindings, Principal, Holding
<1>13. LanesCoverSessions'
  BY <1>2, <1>3, <1>6, <1>7, <1>t DEF Inv, LanesCoverSessions, Running, Principal, Callers
<1>14. \A n \in Natives : label[n] # None => label[n] \in Principals /\ rec'[label[n]] = rec[label[n]]
  BY <1>3 DEF Inv, LabelsHaveRecords, TypeOK, AgentTypeOK
<1>15. LabelsHaveRecords' /\ SessionsAreBound' /\ FreshConversationsAreFresh'
  BY <1>2, <1>14, <1>t DEF Inv, LabelsHaveRecords, SessionsAreBound, FreshConversationsAreFresh,
                           TypeOK, AgentTypeOK
<1> QED  BY <1>8, <1>9, <1>10, <1>11, <1>12, <1>13, <1>15, <1>16 DEF Inv

LEMMA SessionStep ==
  ASSUME Inv, NEW c \in Convs, SessionEvent(c)
  PROVE  Inv'
<1>t. /\ ens \in [Callers -> Caller] /\ c \in Callers /\ rec \in [Principals -> AgentRecord]
      /\ UNCHANGED <<rec, label, alive, terminal, messaged, mode, inFlight, spawn, aged>>
  BY DEF Inv, TypeOK, AgentTypeOK, Callers, SessionEvent
<1> DEFINE n == ens[c].n
<1>1. /\ ens[c].pc = "ready" /\ handed' = handed \cup {n}
      /\ \A d \in Callers : /\ ens'[d].p = ens[d].p /\ ens'[d].n = ens[d].n
                            /\ ens'[d].pc = IF d = c THEN "sending" ELSE ens[d].pc
                            /\ ens'[d].lane = IF d = c THEN ens[d].lane \cup {n} ELSE ens[d].lane
  BY <1>t DEF SessionEvent, Caller
<1>2. /\ ens[c].p \in Principals /\ n \in Natives /\ rec[ens[c].p].native = n
      /\ label[n] = ens[c].p /\ rec[ens[c].p].depth = 0
  BY <1>1, <1>t, Alone DEF Inv, CallersHoldBindings, Holding, Principal, BindingFollowsLabel, Caller,
                          TurnsHoldPrincipals, Running
<1>3. ens' \in [Callers -> Caller]
  <2>1. ens[c] \in Caller /\ ens[c].lane \cup {n} \in SUBSET Natives
    BY <1>t, <1>2 DEF Caller
  <2>2. [ens[c] EXCEPT !.pc = "sending", !.lane = ens[c].lane \cup {n}] \in Caller
    BY <2>1 DEF Caller, Steps
  <2> QED  BY <1>t, <2>2 DEF SessionEvent
<1>4. TypeOK'
  BY <1>1, <1>2, <1>3, <1>t DEF Inv, TypeOK, AgentTypeOK
<1>5. OneAgentEach' /\ LabelsHaveRecords' /\ BindingFollowsLabel' /\ FreshConversationsAreFresh'
  BY <1>t DEF Inv, OneAgentEach, LabelsHaveRecords, BindingFollowsLabel, FreshConversationsAreFresh
<1>6. Running' = Running
  BY <1>1 DEF Running, Callers
<1>12. TurnsHoldPrincipals'
  BY <1>1, <1>6, <1>t DEF Inv, TurnsHoldPrincipals, Running, Principal, Callers
<1>13. OneTurnPerPrincipal'
  <2>1. \A d, e \in Running : d # e => ens[d].p # ens[e].p
    BY DEF Inv, OneTurnPerPrincipal
  <2>2. \A d \in Running : ens'[d].p = ens[d].p
    BY <1>1 DEF Running, Callers
  <2> QED  BY <2>1, <2>2, <1>6 DEF OneTurnPerPrincipal
<1>11. DispatchesHoldChildren'
  BY <1>1, <1>t DEF Inv, DispatchesHoldChildren, Callers
<1>7. CallersHoldBindings'
  BY <1>1, <1>t DEF Inv, CallersHoldBindings, Principal, Holding
<1>8. \A d \in Running \ {c} : Principal(d).native # n
  BY <1>1, <1>2, Alone DEF Inv, BindingFollowsLabel, Running, Principal, Callers, OneTurnPerPrincipal
<1>9. LanesCoverSessions'
  BY <1>1, <1>2, <1>8, <1>t DEF Inv, LanesCoverSessions, Running, Principal, Callers
<1>10. SessionsAreBound'
  BY <1>1, <1>2, <1>t DEF Inv, SessionsAreBound
<1> QED  BY <1>4, <1>5, <1>7, <1>9, <1>10, <1>11, <1>12, <1>13 DEF Inv

LEMMA MessageStep ==
  ASSUME Inv, NEW c \in Callers, Message(c)
  PROVE  Inv'
<1>t. /\ ens \in [Callers -> Caller]
      /\ UNCHANGED <<rec, label, alive, terminal, mode, inFlight, handed, spawn, aged>>
      /\ ens[c].pc = "sending" /\ messaged' = messaged \cup {ens[c].n}
  BY DEF Inv, TypeOK, AgentTypeOK, Message
<1>1. /\ ens' \in [Callers -> Caller]
      /\ \A d \in Callers : /\ ens'[d].p = ens[d].p /\ ens'[d].n = ens[d].n
                            /\ ens'[d].lane = ens[d].lane
                            /\ ens'[d].pc = IF d = c THEN "answering" ELSE ens[d].pc
  BY <1>t, GotoEffect DEF Message, Steps
<1>2. /\ ens[c].p \in Principals /\ ens[c].n \in Natives /\ rec[ens[c].p].native = ens[c].n
      /\ label[ens[c].n] = ens[c].p
  BY <1>t, Alone DEF Inv, CallersHoldBindings, Holding, Principal, BindingFollowsLabel, Caller
<1>3. TypeOK'
  BY <1>1, <1>2, <1>t DEF Inv, TypeOK, AgentTypeOK
<1>4. FreshConversationsAreFresh'
  BY <1>2, <1>t DEF Inv, FreshConversationsAreFresh
<1>5. OneAgentEach' /\ LabelsHaveRecords' /\ BindingFollowsLabel' /\ SessionsAreBound'
  BY <1>t DEF Inv, OneAgentEach, LabelsHaveRecords, BindingFollowsLabel, SessionsAreBound
<1>6. TurnsHoldPrincipals' /\ DispatchesHoldChildren' /\ OneTurnPerPrincipal'
  BY <1>1, <1>t DEF Inv, TurnsHoldPrincipals, DispatchesHoldChildren, OneTurnPerPrincipal, Running,
                    Principal, Callers
<1>7. CallersHoldBindings' /\ LanesCoverSessions'
  BY <1>1, <1>t DEF Inv, CallersHoldBindings, LanesCoverSessions, Principal, Holding, Running, Callers
<1> QED  BY <1>3, <1>4, <1>5, <1>6, <1>7 DEF Inv

LEMMA EndStep ==
  ASSUME Inv, NEW c \in Callers, EndTurn(c) \/ EndDispatch(c)
  PROVE  Inv'
<1>t. /\ ens \in [Callers -> Caller] /\ ens' = [ens EXCEPT ![c] = Idle] /\ Idle \in Caller
      /\ UNCHANGED <<rec, label, alive, terminal, messaged, mode, handed, spawn, aged>>
      /\ ens[c].pc # "idle"
  BY DEF Inv, TypeOK, AgentTypeOK, EndTurn, EndDispatch, Idle, Caller, Steps
<1>1. /\ \A d \in Callers \ {c} : ens'[d] = ens[d]
      /\ ens'[c].pc = "idle" /\ ens' \in [Callers -> Caller]
  BY <1>t DEF Idle
<1>2. /\ inFlight' \subseteq inFlight
      /\ \A d \in Running \ {c} : ens[d].p \in inFlight'
  BY Alone, <1>t DEF EndTurn, EndDispatch, Inv, TurnsHoldPrincipals, Running, Callers
<1>3. TypeOK'
  BY <1>t, <1>1, <1>2 DEF Inv, TypeOK, AgentTypeOK
<1>4. /\ OneAgentEach' /\ LabelsHaveRecords' /\ BindingFollowsLabel' /\ SessionsAreBound'
      /\ FreshConversationsAreFresh'
  BY <1>t DEF Inv, OneAgentEach, LabelsHaveRecords, BindingFollowsLabel, SessionsAreBound,
              FreshConversationsAreFresh
<1>5. TurnsHoldPrincipals' /\ DispatchesHoldChildren'
  BY <1>t, <1>1, <1>2 DEF Inv, TurnsHoldPrincipals, DispatchesHoldChildren, Running, Principal, Callers
<1>6. OneTurnPerPrincipal' /\ CallersHoldBindings' /\ LanesCoverSessions'
  BY <1>t, <1>1 DEF Inv, OneTurnPerPrincipal, CallersHoldBindings, LanesCoverSessions, Principal,
                    Running, Callers, Holding
<1> QED  BY <1>3, <1>4, <1>5, <1>6 DEF Inv

-----------------------------------------------------------------------------
(* The fleet.                                                              *)

LEMMA CountStep ==
  ASSUME Inv, NEW s \in Spawns, (\E req \in 1 .. MaxRequest : CallSpawn(s, req)) \/ BeginCount(s)
  PROVE  Inv'
<1>1. UNCHANGED <<agentVars, mode, inFlight, handed, aged>>
  BY DEF CallSpawn, BeginCount
<1> DEFINE Spawning == [pc : {"idle", "waiting", "counting"}, req : 0 .. MaxRequest,
                        seen : SUBSET Principals, unbound : SUBSET Principals]
<1>2. spawn \in [Spawns -> Spawning]
  BY DEF Inv, TypeOK
<1>3. spawn' \in [Spawns -> Spawning]
  <2>1. ASSUME NEW req \in 1 .. MaxRequest, CallSpawn(s, req) PROVE spawn' \in [Spawns -> Spawning]
    <3>1. req \in 0 .. MaxRequest /\ {} \in SUBSET Principals
      OBVIOUS
    <3>2. NoSpawn \in Spawning
      BY DEF NoSpawn
    <3>3. \A x \in Spawning : [x EXCEPT !.pc = "waiting", !.req = req] \in Spawning
      BY <3>1
    <3>4. [NoSpawn EXCEPT !.pc = "waiting", !.req = req] \in Spawning
      BY <3>2, <3>3
    <3> QED  BY <2>1, <3>4, <1>2 DEF CallSpawn
  <2>2. CASE BeginCount(s)
    <3>1. /\ Active \in SUBSET Principals
          /\ {p \in Active : rec[p].native = None} \in SUBSET Principals
      BY DEF Active
    <3>2. [spawn[s] EXCEPT !.pc = "counting", !.seen = Active,
                           !.unbound = {p \in Active : rec[p].native = None}] \in Spawning
      BY <3>1, <1>2
    <3> QED  BY <2>2, <3>2, <1>2 DEF BeginCount
  <2> QED  BY <2>1, <2>2
<1>4. TypeOK'
  BY <1>1, <1>3 DEF Inv, TypeOK, AgentTypeOK, agentVars
<1> QED  BY <1>1, <1>4, MoveOn DEF agentVars, Inv, TypeOK

LEMMA AgeStep ==
  ASSUME Inv, NEW p \in Principals, GrowOld(p)
  PROVE  Inv'
<1>1. UNCHANGED <<agentVars, mode, inFlight, handed, spawn>> /\ aged' = aged \cup {p}
  BY DEF GrowOld
<1>2. TypeOK'
  BY <1>1 DEF Inv, TypeOK, AgentTypeOK, agentVars
<1> QED  BY <1>1, <1>2, MoveOn DEF agentVars, Inv, TypeOK

LEMMA MintStep ==
  ASSUME Inv, NEW s \in Spawns, CheckAndMint(s)
  PROVE  Inv'
<1>t. /\ ens \in [Callers -> Caller] /\ rec \in [Principals -> AgentRecord]
      /\ UNCHANGED <<label, alive, terminal, messaged, mode, inFlight, handed, aged>>
      /\ spawn' = [spawn EXCEPT ![s] = NoSpawn]
  BY DEF Inv, TypeOK, AgentTypeOK, CheckAndMint
<1>s. spawn' \in [Spawns -> [pc : {"idle", "waiting", "counting"}, req : 0 .. MaxRequest,
                             seen : SUBSET Principals, unbound : SUBSET Principals]]
  BY <1>t DEF Inv, TypeOK, NoSpawn
<1>1. CASE UNCHANGED <<rec, ens>>
  BY <1>1, <1>t, <1>s, MoveOn DEF Inv, TypeOK, AgentTypeOK
<1>2. ASSUME NEW S \in SUBSET Principals, NextRecords(S), rec' = Created(S, 1),
             ens' = [c \in Callers |-> IF c \in S THEN Ensuring(c, rec', {}) ELSE ens[c]]
      PROVE  Inv'
  <2>1. /\ rec' \in [Principals -> AgentRecord]
        /\ \A p \in S : /\ rec[p].status = "absent"
                        /\ rec'[p] = [status |-> "active", native |-> None, depth |-> 1]
        /\ \A p \in Principals \ S : rec'[p] = rec[p]
    BY <1>2, <1>t DEF NextRecords, Created, Absent, AgentRecord
  <2>2. \A c \in Callers : ens[c].pc # "idle" => ens[c].p \in Principals /\ ens[c].p \notin S
    BY <2>1, Alone
  <2>3. /\ \A c \in Callers \ S : ens'[c] = ens[c]
        /\ \A p \in S : p \in Callers /\ ens'[p].p = p /\ ens'[p].pc = "resolve"
    BY <1>2, <2>1 DEF Ensuring, Callers
  <2>4. \A p \in S : Ensuring(p, rec', {}) \in Caller
    BY <2>1 DEF Ensuring, Caller, Steps
  <2>5. ens' \in [Callers -> Caller]
    BY <1>2, <1>t, <2>4
  <2>6. TypeOK'
    BY <1>t, <1>s, <2>1, <2>5 DEF Inv, TypeOK, AgentTypeOK
  <2>7. \A n \in Natives : label[n] # None => label[n] \in Principals /\ rec'[label[n]] = rec[label[n]]
    BY <2>1 DEF Inv, LabelsHaveRecords, TypeOK, AgentTypeOK
  <2>8. OneAgentEach' /\ LabelsHaveRecords'
    BY <1>t, <2>7 DEF Inv, OneAgentEach, LabelsHaveRecords
  <2>9. BindingFollowsLabel'
    BY <1>t, <2>1 DEF Inv, BindingFollowsLabel
  <2>10. TurnsHoldPrincipals'
    BY <1>t, <2>1, <2>2, <2>3 DEF Inv, TurnsHoldPrincipals, Running, Principal, Callers
  <2>11. DispatchesHoldChildren'
    BY <2>1, <2>3 DEF Inv, DispatchesHoldChildren, Callers
  <2>12. OneTurnPerPrincipal'
    BY <2>3 DEF Inv, OneTurnPerPrincipal, Running, Callers
  <2>13. CallersHoldBindings'
    BY <2>1, <2>2, <2>3 DEF Inv, CallersHoldBindings, Principal, Holding
  <2>14. LanesCoverSessions'
    BY <1>t, <2>1, <2>2, <2>3 DEF Inv, LanesCoverSessions, Running, Principal, Callers
  <2>15. SessionsAreBound' /\ FreshConversationsAreFresh'
    BY <1>t, <2>7 DEF Inv, SessionsAreBound, FreshConversationsAreFresh, TypeOK, AgentTypeOK
  <2> QED  BY <2>6, <2>8, <2>9, <2>10, <2>11, <2>12, <2>13, <2>14, <2>15 DEF Inv
<1> QED  BY <1>1, <1>2 DEF CheckAndMint

\* A dispatch sends its prompt, or its agent is stopped.
LEMMA DispatchStep ==
  ASSUME Inv, NEW p \in Principals, Dispatch(p) \/ FailAfterEnsure(p)
  PROVE  Inv'
<1>t. /\ ens \in [Callers -> Caller] /\ rec \in [Principals -> AgentRecord] /\ p \in Callers
      /\ UNCHANGED <<label, messaged, mode, inFlight, handed, spawn, aged>>
      /\ ens[p].pc = "ready"
  BY DEF Inv, TypeOK, AgentTypeOK, Callers, Dispatch, FailAfterEnsure
<1>1. PICK x \in {"sending", "failed"} : Goto(p, x)
  BY DEF Dispatch, FailAfterEnsure
<1>2. /\ ens' \in [Callers -> Caller]
      /\ \A d \in Callers : /\ ens'[d].p = ens[d].p /\ ens'[d].n = ens[d].n
                            /\ ens'[d].lane = ens[d].lane
                            /\ ens'[d].pc = IF d = p THEN x ELSE ens[d].pc
  BY <1>1, <1>t, GotoEffect DEF Steps
<1>3. ens[p].n \in Natives
  BY <1>t DEF Inv, CallersHoldBindings, Holding, Caller
<1>4. /\ alive' \subseteq alive /\ terminal' \subseteq Natives
      /\ rec' \in [Principals -> AgentRecord]
      /\ \A q \in Principals : /\ rec'[q].native = rec[q].native /\ rec'[q].depth = rec[q].depth
                               /\ rec[q].status # "absent" => rec'[q].status # "absent"
  BY <1>3, <1>t DEF Dispatch, FailAfterEnsure, StopAgent, AgentRecord, Inv, TypeOK, AgentTypeOK
<1>5. \A d \in Callers : ens[d].pc # "idle" => ens[d].p \in Principals
  BY Alone
<1>6. TypeOK'
  BY <1>t, <1>2, <1>4 DEF Inv, TypeOK, AgentTypeOK
<1>7. OneAgentEach' /\ BindingFollowsLabel'
  BY <1>t, <1>4 DEF Inv, OneAgentEach, BindingFollowsLabel
<1>8. LabelsHaveRecords' /\ SessionsAreBound' /\ FreshConversationsAreFresh'
  BY <1>t, <1>4 DEF Inv, LabelsHaveRecords, SessionsAreBound, FreshConversationsAreFresh,
                    TypeOK, AgentTypeOK
<1>9. TurnsHoldPrincipals' /\ DispatchesHoldChildren'
  BY <1>t, <1>2, <1>4, <1>5 DEF Inv, TurnsHoldPrincipals, DispatchesHoldChildren, Running, Principal, Callers
<1>10. OneTurnPerPrincipal'
  BY <1>t, <1>2 DEF Inv, OneTurnPerPrincipal, Running, Callers
<1>11. CallersHoldBindings' /\ LanesCoverSessions'
  BY <1>t, <1>2, <1>4, <1>5 DEF Inv, CallersHoldBindings, LanesCoverSessions, Running, Principal,
                                Callers, Holding
<1> QED  BY <1>6, <1>7, <1>8, <1>9, <1>10, <1>11 DEF Inv

-----------------------------------------------------------------------------
(* Agents that end, and the host's restart.                                *)

LEMMA AgentStep ==
  ASSUME Inv, NEW n \in Natives, AgentDies(n) \/ AgentDone(n),
         UNCHANGED <<mode, inFlight, handed, spawn, aged>>
  PROVE  Inv'
<1>1. alive' \subseteq alive /\ UNCHANGED <<rec, label, messaged, ens>>
  BY DEF AgentDies, AgentDone
<1>2. TypeOK'
  BY <1>1 DEF AgentDies, AgentDone, Inv, TypeOK, AgentTypeOK
<1> QED  BY <1>1, <1>2, MoveOn

LEMMA RestartStep ==
  ASSUME Inv, Restart
  PROVE  Inv'
<1>1. /\ mode' \in {"sdk", "mngr"} /\ inFlight' = {} /\ ens' = [c \in Callers |-> Idle]
      /\ spawn' = [s \in Spawns |-> NoSpawn]
      /\ UNCHANGED <<rec, terminal, messaged, handed, aged>>
  BY DEF Restart
<1>2. /\ OneAgentEach' /\ LabelsHaveRecords' /\ BindingFollowsLabel'
      /\ SessionsAreBound' /\ FreshConversationsAreFresh'
      /\ label' \in [Natives -> Principals \cup {None}] /\ alive' \subseteq Natives
  <2>1. CASE UNCHANGED <<label, alive>>
    BY <1>1, <2>1 DEF Inv, TypeOK, AgentTypeOK, OneAgentEach, LabelsHaveRecords, BindingFollowsLabel,
                      SessionsAreBound, FreshConversationsAreFresh
  <2>2. ASSUME NEW c \in Callers, NEW n \in Natives, ens[c].pc = "create", MakeAgent(ens[c].p, n)
        PROVE  /\ OneAgentEach' /\ LabelsHaveRecords' /\ BindingFollowsLabel'
               /\ SessionsAreBound' /\ FreshConversationsAreFresh'
               /\ label' \in [Natives -> Principals \cup {None}] /\ alive' \subseteq Natives
    BY <1>1, <2>2, Alone, Made
  <2> QED  BY <2>1, <2>2 DEF Restart
<1>3. \A c \in Callers : ens'[c].pc = "idle"
  BY <1>1 DEF Idle
<1>4. TypeOK'
  BY <1>1, <1>2 DEF Inv, TypeOK, AgentTypeOK, Idle, Caller, Steps, NoSpawn
<1>5. /\ TurnsHoldPrincipals' /\ DispatchesHoldChildren' /\ OneTurnPerPrincipal'
      /\ CallersHoldBindings' /\ LanesCoverSessions'
  BY <1>3 DEF TurnsHoldPrincipals, DispatchesHoldChildren, OneTurnPerPrincipal, CallersHoldBindings,
              LanesCoverSessions, Running, Callers, Holding
<1> QED  BY <1>2, <1>4, <1>5 DEF Inv

-----------------------------------------------------------------------------
(* The theorems.                                                           *)

LEMMA InvInductive == Inv /\ [Next]_vars => Inv'
<1> SUFFICES ASSUME Inv, [Next]_vars PROVE Inv'
  OBVIOUS
<1>1. CASE UNCHANGED vars
  BY <1>1, MoveOn DEF vars, agentVars, Inv, TypeOK, AgentTypeOK
<1>2. ASSUME NEW c \in Convs, NEW sid \in handed \cup {None}, StartTurn(c, sid) PROVE Inv'
  BY <1>2, StartStep
<1>3. ASSUME NEW c \in Callers,
             \/ EnsureAgent(c) /\ UNCHANGED <<mode, inFlight, handed, spawn, aged>>
             \/ SessionEvent(c) \/ Message(c) \/ EndTurn(c)
             \/ Dispatch(c) \/ FailAfterEnsure(c) \/ EndDispatch(c)
      PROVE  Inv'
  <2>1. SessionEvent(c) => c \in Convs
    BY DEF SessionEvent
  <2>2. Dispatch(c) \/ FailAfterEnsure(c) => c \in Principals
    BY DEF Dispatch, FailAfterEnsure
  <2> QED  BY <1>3, <2>1, <2>2, EnsureStep, SessionStep, MessageStep, EndStep, DispatchStep
<1>4. ASSUME NEW s \in Spawns,
             \/ \E req \in 1 .. MaxRequest : CallSpawn(s, req)
             \/ BeginCount(s) \/ CheckAndMint(s)
      PROVE  Inv'
  BY <1>4, CountStep, MintStep
<1>5. ASSUME NEW p \in Principals, GrowOld(p) PROVE Inv'
  BY <1>5, AgeStep
<1>6. ASSUME NEW n \in Natives, AgentDies(n) \/ AgentDone(n),
             UNCHANGED <<mode, inFlight, handed, spawn, aged>>
      PROVE  Inv'
  BY <1>6, AgentStep
<1>7. CASE Restart
  BY <1>7, RestartStep
<1> QED  BY <1>1, <1>2, <1>3, <1>4, <1>5, <1>6, <1>7 DEF Next

LEMMA InvAlways == Spec => []Inv
  BY InitInv, InvInductive, PTL DEF Spec

\* Every variable keeps its type.
THEOREM TypeCorrect == Spec => []TypeOK
  BY InvAlways, PTL DEF Inv

\* Two turns that run at once have two principals, hence two transcripts.
THEOREM NoSharedPrincipal == Spec => []OneTurnPerPrincipal
  BY InvAlways, PTL DEF Inv

\* A record is bound to an agent that was made for it.
THEOREM BindingsFollowLabels == Spec => []BindingFollowsLabel
  BY InvAlways, PTL DEF Inv

\* An agent that has been prompted is the agent of a bound record.
THEOREM NothingIsInherited == Spec => []FreshConversationsAreFresh
  BY InvAlways, PTL DEF Inv

\* No operator's turn takes over a fleet child.
THEOREM ChildrenAreLeftAlone == Spec => []TurnsLeaveChildrenAlone
<1>1. Inv => TurnsLeaveChildrenAlone
  BY DEF Inv, TurnsHoldPrincipals, TurnsLeaveChildrenAlone, Principal
<1> QED  BY <1>1, InvAlways, PTL

-----------------------------------------------------------------------------
(* The cap on the fleet.  A count is taken from a listing that may be old   *)
(* by the time of the check; the argument is that it still covers every     *)
(* child that works or is launched, since only the mutex's holder adds any. *)
\* A dispatch that has not sent its prompt yet.
Launching == {"liveness", "resolve", "create", "confirm", "ready", "sending"}

\* The mutex of the fleet: one call counts at a time.
OneCounts ==
    \A s, t \in Spawns : spawn[s].pc = "counting" /\ spawn[t].pc = "counting" => s = t

\* What a counting call has read covers every child that works or is launched.
CountCoversFleet ==
    \A s \in Spawns : spawn[s].pc = "counting" => Occupied \subseteq spawn[s].seen

\* A record past its dispatch window has no dispatch, and a child's no agent.
AgedAreIdle ==
    \A p \in aged : /\ rec[p].status # "absent" /\ ens[p].pc = "idle"
                    /\ rec[p].depth = 1 => rec[p].native = None

\* An agent of a child that is being launched has not been sent a prompt, and
\* is not over.
LaunchedAreFresh ==
    \A p \in Principals : ens[p].pc \in Launching =>
        \A n \in Natives : label[n] = p => n \notin messaged \cup terminal

TerminalHaveLabels == \A n \in terminal : label[n] \in Principals

FleetInv ==
    /\ OneCounts /\ CountCoversFleet /\ AgedAreIdle /\ LaunchedAreFresh /\ TerminalHaveLabels
    /\ FleetWithinCap

LEMMA OccupiedIsFinite ==
  /\ IsFiniteSet(Occupied) /\ Cardinality(Occupied) \in Nat
  /\ \A S \in SUBSET Principals : IsFiniteSet(S) /\ Cardinality(S) \in Nat
<1>1. IsFiniteSet(Principals)
  BY FS_Interval DEF Principals
<1>2. \A S \in SUBSET Principals : IsFiniteSet(S) /\ Cardinality(S) \in Nat
  BY <1>1, FS_Subset, FS_CardinalityType
<1>3. Occupied \in SUBSET Principals
  BY DEF Occupied, Active
<1> QED  BY <1>2, <1>3

\* A child that loses its claim to the fleet's capacity is all that a step may
\* bring about when it starts no dispatch: the hypotheses say what that takes.
LEMMA FleetMovesOn ==
  ASSUME Inv, FleetInv, TypeOK',
         \A s \in Spawns : spawn'[s].pc = "counting" => spawn'[s] = spawn[s],
         aged' = aged, terminal \subseteq terminal',
         \A p \in Principals : /\ ens'[p].pc \in Launching => ens[p].pc \in Launching
                               /\ ens[p].pc = "idle" => ens'[p].pc = "idle",
         \A p \in Principals : rec'[p].status = "active" /\ rec'[p].depth = 1 =>
                                  rec[p].status = "active" /\ rec[p].depth = 1,
         \A p \in Principals : rec[p].status # "absent" =>
                                  /\ rec'[p].status # "absent" /\ rec'[p].depth = rec[p].depth
                                  /\ \/ rec'[p].native = rec[p].native
                                     \/ rec[p].depth = 0 \/ ens[p].pc \in Launching,
         \A n \in alive' \ alive : label[n] = None,
         \A n \in Natives : label'[n] = label[n] \/ label[n] = None,
         \A n \in messaged' \cup terminal' :
            \/ n \in messaged \cup terminal
            \/ label[n] \in Principals /\ ens'[label[n]].pc \notin Launching
  PROVE  FleetInv'
<1>1. Occupied' \subseteq Occupied
  <2> SUFFICES ASSUME NEW p \in Occupied' PROVE p \in Occupied
    OBVIOUS
  <2>1. p \in Principals /\ rec'[p].status = "active" /\ rec'[p].depth = 1
    BY DEF Occupied, Active
  <2>2. rec[p].status = "active" /\ rec[p].depth = 1
    BY <2>1
  <2>3. CASE ens'[p].pc \notin {"idle", "answering", "failed"}
    <3>1. ens'[p] \in Caller
      BY <2>1 DEF TypeOK, AgentTypeOK, Callers
    <3>2. ens'[p].pc \in Launching
      BY <2>3, <3>1 DEF Caller, Steps, Launching
    <3> QED  BY <2>1, <2>2, <3>2 DEF Occupied, Active, Launching
  <2>4. CASE rec'[p].native \in alive' \ terminal'
    <3>1. CASE ens[p].pc \in Launching
      BY <2>1, <2>2, <3>1 DEF Occupied, Active, Launching
    <3>2. CASE rec'[p].native = rec[p].native
      <4>1. rec[p].native \in Natives
        BY <2>4, <3>2 DEF TypeOK, AgentTypeOK
      <4>2. label[rec[p].native] = p
        BY <2>1, <4>1 DEF Inv, BindingFollowsLabel
      <4>3. rec[p].native \in alive \ terminal
        BY <2>1, <2>4, <3>2, <4>2
      <4> QED  BY <2>1, <2>2, <4>3 DEF Occupied, Active
    <3> QED  BY <2>1, <2>2, <3>1, <3>2
  <2> QED  BY <2>3, <2>4 DEF Occupied
<1>2. FleetWithinCap'
  <2>1. Occupied' \in SUBSET Occupied /\ Occupied' \in SUBSET Principals
    BY <1>1 DEF Occupied, Active
  <2>2. Cardinality(Occupied') <= Cardinality(Occupied) /\ Cardinality(Occupied') \in Nat
    BY <2>1, OccupiedIsFinite, FS_Subset
  <2>3. Cardinality(Occupied) <= MaxConcurrent /\ Cardinality(Occupied) \in Nat
    BY OccupiedIsFinite DEF FleetInv, FleetWithinCap
  <2> QED  BY <2>2, <2>3 DEF FleetWithinCap
<1>3. OneCounts' /\ CountCoversFleet'
  BY <1>1 DEF FleetInv, OneCounts, CountCoversFleet
<1>4. AgedAreIdle'
  BY DEF FleetInv, AgedAreIdle, Inv, TypeOK, Launching
<1>5. \A n \in messaged \cup terminal : label[n] \in Principals /\ label'[n] = label[n]
  BY DEF FleetInv, TerminalHaveLabels, Inv, FreshConversationsAreFresh, TypeOK, AgentTypeOK
<1>6. TerminalHaveLabels'
  BY <1>5 DEF TerminalHaveLabels, TypeOK, AgentTypeOK
<1>7. LaunchedAreFresh'
  <2> SUFFICES ASSUME NEW p \in Principals, ens'[p].pc \in Launching,
                      NEW n \in Natives, label'[n] = p, n \in messaged' \cup terminal'
               PROVE  FALSE
    BY DEF LaunchedAreFresh
  <2>1. CASE n \in messaged \cup terminal
    BY <1>5, <2>1 DEF FleetInv, LaunchedAreFresh
  <2>2. CASE label[n] \in Principals /\ ens'[label[n]].pc \notin Launching
    BY <2>2
  <2> QED  BY <2>1, <2>2
<1> QED  BY <1>2, <1>3, <1>4, <1>6, <1>7 DEF FleetInv

LEMMA FleetInit == Init => FleetInv
<1> SUFFICES ASSUME Init PROVE FleetInv
  OBVIOUS
<1>1. Occupied = {}
  BY DEF Init, AgentInit, Occupied, Active
<1>2. FleetWithinCap
  BY <1>1, FS_EmptySet DEF FleetWithinCap
<1>3. /\ \A s \in Spawns : spawn[s].pc = "idle"
      /\ \A p \in Principals : ens[p].pc = "idle"
  BY DEF Init, AgentInit, NoSpawn, Idle, Callers
<1> QED
  BY <1>2, <1>3 DEF Init, AgentInit, FleetInv, OneCounts, CountCoversFleet, AgedAreIdle,
                    LaunchedAreFresh, TerminalHaveLabels, Launching

\* The operator's turns start no dispatch and touch no child's record.
LEMMA TurnFleetStep ==
  ASSUME Inv, FleetInv, TypeOK',
         NEW c \in Convs, NEW sid \in handed \cup {None}, StartTurn(c, sid)
  PROVE  FleetInv'
<1>1. PICK p \in Principals :
        /\ rec' = rec \/ (NextRecords({p}) /\ rec' = Created({p}, 0))
        /\ ens' = [ens EXCEPT ![c] = Ensuring(p, rec', {sid} \ {None})]
        /\ UNCHANGED <<label, alive, terminal, messaged, spawn, aged>>
  BY DEF StartTurn
<1>2. \A q \in Principals : ens'[q] = ens[q]
  BY <1>1 DEF Inv, TypeOK, AgentTypeOK, Callers
<1>3. \A q \in Principals :
        rec'[q] = rec[q] \/ (rec[q].status = "absent" /\ rec'[q].depth = 0)
  BY <1>1 DEF NextRecords, Created, Absent
<1> QED  BY <1>1, <1>2, <1>3, FleetMovesOn

\* What changes where a caller is, and nothing else of the registry.
LEMMA CallerFleetStep ==
  ASSUME Inv, FleetInv, TypeOK', NEW c \in Callers, NEW x \in Steps, Goto(c, x),
         ens[c].pc # "idle", x \in Launching => ens[c].pc \in Launching,
         UNCHANGED <<rec, label, alive, terminal, messaged, spawn, aged>>
  PROVE  FleetInv'
<1>1. \A d \in Callers : ens'[d].pc = IF d = c THEN x ELSE ens[d].pc
  BY GotoEffect DEF Inv, TypeOK, AgentTypeOK
<1> QED  BY <1>1, FleetMovesOn DEF Callers

LEMMA BindFleetStep ==
  ASSUME Inv, FleetInv, TypeOK', NEW c \in Callers, NEW n \in Labelled(ens[c].p),
         ens[c].pc \in {"resolve", "confirm"}, BindIfUnclaimed(c, n),
         UNCHANGED <<label, alive, terminal, messaged, spawn, aged>>
  PROVE  FleetInv'
<1>1. CASE Goto(c, "failed") /\ UNCHANGED rec
  BY <1>1, CallerFleetStep DEF Steps, Launching
<1>2. CASE /\ rec' = [rec EXCEPT ![ens[c].p].native = n]
           /\ ens' = [ens EXCEPT ![c].pc = "ready", ![c].n = n]
  <2>1. \A d \in Callers : ens'[d].pc = IF d = c THEN "ready" ELSE ens[d].pc
    BY <1>2 DEF Inv, TypeOK, AgentTypeOK, Caller
  <2>2. \A q \in Principals : /\ rec'[q].status = rec[q].status /\ rec'[q].depth = rec[q].depth
                              /\ q # ens[c].p => rec'[q].native = rec[q].native
    BY <1>2 DEF Inv, TypeOK, AgentTypeOK, AgentRecord
  <2>3. ens[c].p \in Principals => rec[ens[c].p].depth = 0 \/ ens[ens[c].p].pc \in Launching
    BY DEF Inv, TurnsHoldPrincipals, DispatchesHoldChildren, Running, Principal, Callers, Launching
  <2> QED  BY <1>2, <2>1, <2>2, <2>3, FleetMovesOn DEF Callers, Launching
<1> QED  BY <1>1, <1>2 DEF BindIfUnclaimed

LEMMA EnsureFleetStep ==
  ASSUME Inv, FleetInv, TypeOK', NEW c \in Callers, EnsureAgent(c), UNCHANGED <<spawn, aged>>
  PROVE  FleetInv'
<1>1. CASE Liveness(c)
  BY <1>1, CallerFleetStep DEF Liveness, Steps, Launching
<1>2. CASE Resolve(c)
  <2>1. CASE Goto(c, "create") /\ UNCHANGED rec
    BY <1>2, <2>1, CallerFleetStep DEF Resolve, Steps, Launching
  <2>2. CASE \E n \in Labelled(ens[c].p) : BindIfUnclaimed(c, n)
    BY <1>2, <2>2, BindFleetStep DEF Resolve
  <2> QED  BY <1>2, <2>1, <2>2 DEF Resolve
<1>3. CASE Create(c)
  <2>1. ens[c].pc = "create" /\ UNCHANGED <<rec, terminal, messaged>>
    BY <1>3 DEF Create
  <2>2. PICK x \in {"confirm", "failed"} : Goto(c, x)
    BY <1>3 DEF Create
  <2>3. \A d \in Callers : ens'[d].pc = IF d = c THEN x ELSE ens[d].pc
    BY <2>2, GotoEffect DEF Inv, TypeOK, AgentTypeOK, Steps
  <2>4. /\ \A n \in alive' \ alive : label[n] = None
        /\ \A n \in Natives : label'[n] = label[n] \/ label[n] = None
    BY <1>3 DEF Create, MakeAgent, Inv, TypeOK, AgentTypeOK
  <2> QED  BY <2>1, <2>3, <2>4, FleetMovesOn DEF Callers, Launching
<1>4. CASE Confirm(c)
  <2>1. CASE Goto(c, "failed") /\ UNCHANGED rec
    BY <1>4, <2>1, CallerFleetStep DEF Confirm, Steps, Launching
  <2>2. CASE \E n \in Labelled(ens[c].p) : BindIfUnclaimed(c, n)
    BY <1>4, <2>2, BindFleetStep DEF Confirm
  <2> QED  BY <1>4, <2>1, <2>2 DEF Confirm
<1> QED  BY <1>1, <1>2, <1>3, <1>4 DEF EnsureAgent

\* A prompt goes to the agent of the caller's own principal, whose launch it
\* ends; an operator's principal has no launch.
LEMMA SendFleetStep ==
  ASSUME Inv, FleetInv, TypeOK', NEW c \in Callers, Message(c)
  PROVE  FleetInv'
<1>1. /\ ens[c].pc = "sending" /\ messaged' = messaged \cup {ens[c].n}
      /\ Goto(c, "answering") /\ UNCHANGED <<rec, label, alive, terminal, spawn, aged>>
  BY DEF Message
<1>2. \A d \in Callers : ens'[d].pc = IF d = c THEN "answering" ELSE ens[d].pc
  BY <1>1, GotoEffect DEF Inv, TypeOK, AgentTypeOK, Steps
<1>3. ens[c].p \in Principals /\ label[ens[c].n] = ens[c].p
  BY <1>1, Alone DEF Inv, CallersHoldBindings, Holding, Principal, BindingFollowsLabel
<1>4. ens'[ens[c].p].pc \notin Launching
  BY <1>1, <1>2, <1>3 DEF Inv, TurnsHoldPrincipals, DispatchesHoldChildren, Running, Principal,
                          Callers, Launching
<1> QED  BY <1>1, <1>2, <1>3, <1>4, FleetMovesOn DEF Callers, Launching

LEMMA FailFleetStep ==
  ASSUME Inv, FleetInv, TypeOK', NEW p \in Principals, FailAfterEnsure(p)
  PROVE  FleetInv'
<1>1. /\ ens[p].pc = "ready" /\ StopAgent(p, ens[p].n) /\ Goto(p, "failed")
      /\ UNCHANGED <<label, messaged, spawn, aged>>
  BY DEF FailAfterEnsure
<1>3. p \in Callers /\ ens[p].p = p
  BY <1>1 DEF Callers, Inv, DispatchesHoldChildren
<1>2. \A d \in Callers : ens'[d].pc = IF d = p THEN "failed" ELSE ens[d].pc
  BY <1>1, <1>3, GotoEffect DEF Inv, TypeOK, AgentTypeOK, Steps
<1>4. label[ens[p].n] = p
  BY <1>1, <1>3 DEF Inv, CallersHoldBindings, Holding, Principal, BindingFollowsLabel
<1>5. /\ alive' \subseteq alive /\ terminal \subseteq terminal'
      /\ terminal' \subseteq terminal \cup {ens[p].n}
      /\ \A q \in Principals :
            /\ rec'[q].native = rec[q].native /\ rec'[q].depth = rec[q].depth
            /\ rec'[q].status = rec[q].status \/ rec'[q].status = "stopped"
  BY <1>1 DEF StopAgent, Inv, TypeOK, AgentTypeOK, AgentRecord
<1>6. /\ \A q \in Principals : /\ ens'[q].pc \in Launching => ens[q].pc \in Launching
                               /\ ens[q].pc = "idle" => ens'[q].pc = "idle"
      /\ ens'[p].pc \notin Launching
  BY <1>1, <1>2 DEF Callers, Launching
<1>7. \A n \in messaged' \cup terminal' :
         \/ n \in messaged \cup terminal
         \/ label[n] \in Principals /\ ens'[label[n]].pc \notin Launching
  BY <1>1, <1>4, <1>5, <1>6
<1>8. \A q \in Principals : rec'[q].status = "active" /\ rec'[q].depth = 1 =>
                               rec[q].status = "active" /\ rec[q].depth = 1
  BY <1>5
<1>9. \A q \in Principals : rec[q].status # "absent" =>
                               /\ rec'[q].status # "absent" /\ rec'[q].depth = rec[q].depth
                               /\ \/ rec'[q].native = rec[q].native
                                  \/ rec[q].depth = 0 \/ ens[q].pc \in Launching
  BY <1>5
<1>10. /\ \A n \in alive' \ alive : label[n] = None
       /\ \A n \in Natives : label'[n] = label[n] \/ label[n] = None
       /\ \A s \in Spawns : spawn'[s].pc = "counting" => spawn'[s] = spawn[s]
       /\ aged' = aged /\ terminal \subseteq terminal'
  BY <1>1, <1>5
<1> QED  BY <1>6, <1>7, <1>8, <1>9, <1>10, FleetMovesOn

LEMMA EndFleetStep ==
  ASSUME Inv, FleetInv, TypeOK', NEW c \in Callers,
         ens' = [ens EXCEPT ![c] = Idle],
         UNCHANGED <<rec, label, alive, terminal, messaged, spawn, aged>>
  PROVE  FleetInv'
<1>1. \A d \in Callers : ens'[d] = IF d = c THEN Idle ELSE ens[d]
  BY DEF Inv, TypeOK, AgentTypeOK
<1> QED  BY <1>1, FleetMovesOn DEF Callers, Idle, Launching

LEMMA CountFleetStep ==
  ASSUME Inv, FleetInv, TypeOK', NEW s \in Spawns, BeginCount(s)
  PROVE  FleetInv'
<1>1. /\ UNCHANGED <<rec, label, alive, terminal, messaged, ens, aged>>
      /\ \A t \in Spawns : spawn[t].pc # "counting"
  BY DEF BeginCount, MutexFree, agentVars
<1>2. /\ \A t \in Spawns \ {s} : spawn'[t] = spawn[t]
      /\ spawn'[s].seen = Active
  BY DEF BeginCount, Inv, TypeOK
<1>3. Occupied' = Occupied
  BY <1>1 DEF Occupied, Active
<1>4. OneCounts' /\ CountCoversFleet'
  BY <1>1, <1>2, <1>3 DEF OneCounts, CountCoversFleet, Occupied
<1>5. AgedAreIdle' /\ LaunchedAreFresh' /\ TerminalHaveLabels' /\ FleetWithinCap'
  BY <1>1, <1>3 DEF FleetInv, AgedAreIdle, LaunchedAreFresh, TerminalHaveLabels, FleetWithinCap
<1> QED  BY <1>4, <1>5 DEF FleetInv

\* What the check counts is at least what works or is launched, although some
\* of it was read before: a child is left out of the count only when its
\* window has passed or its agent is over, and both are for good.
LEMMA CountIsSafe ==
  ASSUME Inv, FleetInv, NEW s \in Spawns, spawn[s].pc = "counting", NEW known \in BOOLEAN
  PROVE  LiveCount(s, known) \in Nat /\ Cardinality(Occupied) <= LiveCount(s, known)
<1> DEFINE over(p) == IF p \in spawn[s].unbound THEN p \in aged
                      ELSE rec[p].native \in alive \cap terminal
           Counted == {p \in spawn[s].seen : ~known \/ ~over(p)}
<1>1. spawn[s].seen \in SUBSET Principals
  BY DEF Inv, TypeOK
<1>2. ASSUME NEW p \in Occupied PROVE ~over(p)
  <2>1. p \in Principals /\ rec[p].depth = 1 /\ p \in Callers
    BY DEF Occupied, Active, Callers
  <2>2. p \notin aged
    <3>1. p \in aged => ens[p].pc = "idle" /\ rec[p].native = None
      BY <2>1 DEF FleetInv, AgedAreIdle
    <3>2. None \notin alive
      BY DEF Inv, TypeOK, AgentTypeOK
    <3> QED  BY <3>1, <3>2 DEF Occupied
  <2>3. ASSUME rec[p].native \in alive \cap terminal PROVE FALSE
    <3>1. rec[p].native \in Natives /\ label[rec[p].native] = p
      BY <2>1, <2>3 DEF Inv, TypeOK, AgentTypeOK, BindingFollowsLabel
    <3>2. ens[p].pc \notin {"idle", "answering", "failed"}
      BY <2>3 DEF Occupied
    <3>3. ens[p].pc \in Launching
      BY <2>1, <3>2 DEF Inv, TypeOK, AgentTypeOK, Caller, Steps, Launching
    <3> QED  BY <2>1, <2>3, <3>1, <3>3 DEF FleetInv, LaunchedAreFresh
  <2> QED  BY <2>2, <2>3
<1>3. Occupied \subseteq Counted
  BY <1>2 DEF FleetInv, CountCoversFleet
<1>4. IsFiniteSet(Counted) /\ Cardinality(Counted) \in Nat
  <2>1. Counted \in SUBSET Principals
    BY <1>1
  <2> QED  BY <2>1, OccupiedIsFinite
<1>5. Cardinality(Occupied) <= Cardinality(Counted)
  BY <1>3, <1>4, FS_Subset
<1> QED  BY <1>4, <1>5 DEF LiveCount

LEMMA MintFleetStep ==
  ASSUME Inv, FleetInv, TypeOK', NEW s \in Spawns, CheckAndMint(s)
  PROVE  FleetInv'
<1>1. /\ spawn[s].pc = "counting" /\ spawn' = [spawn EXCEPT ![s] = NoSpawn]
      /\ UNCHANGED <<label, alive, terminal, messaged, aged>>
  BY DEF CheckAndMint
<1>2. \A t \in Spawns : spawn'[t] = IF t = s THEN NoSpawn ELSE spawn[t]
  BY <1>1 DEF Inv, TypeOK
<1>3. \A t \in Spawns : spawn'[t].pc # "counting"
  BY <1>1, <1>2 DEF FleetInv, OneCounts, NoSpawn
<1>4. CASE UNCHANGED <<rec, ens>>
  BY <1>1, <1>3, <1>4, FleetMovesOn
<1>5. ASSUME NEW known \in BOOLEAN, NEW S \in SUBSET Principals,
             Admitted(spawn[s].req, LiveCount(s, known)), Cardinality(S) = spawn[s].req,
             NextRecords(S), rec' = Created(S, 1),
             ens' = [c \in Callers |-> IF c \in S THEN Ensuring(c, rec', {}) ELSE ens[c]]
      PROVE  FleetInv'
  <2>1. \A p \in S : rec[p].status = "absent"
    BY <1>5 DEF NextRecords, Absent
  <2>2. \A p \in Principals \ S : rec'[p] = rec[p] /\ ens'[p] = ens[p]
    BY <1>5 DEF Created, Callers
  <2>3. Occupied' \subseteq Occupied \cup S
    BY <1>1, <2>2 DEF Occupied, Active
  <2>4. FleetWithinCap'
    <3>1. /\ IsFiniteSet(S) /\ IsFiniteSet(Occupied) /\ IsFiniteSet(Occupied \cup S)
          /\ Cardinality(Occupied) \in Nat
          /\ Cardinality(Occupied \cup S) <= Cardinality(Occupied) + Cardinality(S)
      <4>1. IsFiniteSet(S) /\ IsFiniteSet(Occupied) /\ Cardinality(S) \in Nat /\ Cardinality(Occupied) \in Nat
        BY OccupiedIsFinite
      <4>2. Occupied \cap S \in SUBSET Principals
        BY DEF Occupied, Active
      <4>3. Cardinality(Occupied \cap S) \in Nat
        BY <4>2, OccupiedIsFinite
      <4>4. /\ IsFiniteSet(Occupied \cup S)
            /\ Cardinality(Occupied \cup S)
                  = Cardinality(Occupied) + Cardinality(S) - Cardinality(Occupied \cap S)
        BY <4>1, FS_Union, Zenon
      <4> QED  BY <4>1, <4>3, <4>4
    <3>2. Cardinality(Occupied') \in Nat /\ Cardinality(Occupied') <= Cardinality(Occupied \cup S)
      <4>1. Occupied' \in SUBSET Principals
        BY DEF Occupied, Active
      <4>2. Cardinality(Occupied') \in Nat
        BY <4>1, OccupiedIsFinite
      <4> QED  BY <2>3, <3>1, <4>2, FS_Subset
    <3>3. LiveCount(s, known) + Cardinality(S) <= MaxConcurrent
      BY <1>5 DEF Admitted
    <3>4. LiveCount(s, known) \in Nat /\ Cardinality(Occupied) <= LiveCount(s, known)
      BY <1>1, CountIsSafe
    <3>5. Cardinality(S) \in Nat /\ Cardinality(Occupied \cup S) \in Nat
      BY <3>1, FS_CardinalityType
    <3> QED  BY <3>1, <3>2, <3>3, <3>4, <3>5 DEF FleetWithinCap
  <2>5. OneCounts' /\ CountCoversFleet'
    BY <1>3 DEF OneCounts, CountCoversFleet
  <2>6. AgedAreIdle'
    BY <1>1, <2>1, <2>2 DEF FleetInv, AgedAreIdle, Inv, TypeOK
  <2>7. LaunchedAreFresh'
    <3>1. \A p \in S, n \in Natives : label[n] # p
      BY <2>1 DEF Inv, LabelsHaveRecords
    <3> QED  BY <1>1, <2>2, <3>1 DEF FleetInv, LaunchedAreFresh
  <2>8. TerminalHaveLabels'
    BY <1>1 DEF FleetInv, TerminalHaveLabels
  <2> QED  BY <2>4, <2>5, <2>6, <2>7, <2>8 DEF FleetInv
<1>6. LivenessKnown \subseteq BOOLEAN
  BY CapsAssumption
<1> QED  BY <1>4, <1>5, <1>6 DEF CheckAndMint

\* A record grows old when it has no dispatch and no agent.
LEMMA AgeFleetStep ==
  ASSUME Inv, FleetInv, TypeOK', NEW p \in Principals, GrowOld(p)
  PROVE  FleetInv'
<1>1. /\ UNCHANGED <<rec, label, alive, terminal, messaged, ens, spawn>>
      /\ aged' = aged \cup {p}
      /\ rec[p].status = "active" /\ ens[p].pc = "idle" /\ rec[p].native = None
  BY DEF GrowOld, agentVars, Active
<1>2. Occupied' = Occupied
  BY <1>1 DEF Occupied, Active
<1>3. AgedAreIdle'
  BY <1>1 DEF FleetInv, AgedAreIdle
<1>4. OneCounts' /\ CountCoversFleet' /\ LaunchedAreFresh' /\ TerminalHaveLabels' /\ FleetWithinCap'
  BY <1>1, <1>2 DEF FleetInv, OneCounts, CountCoversFleet, LaunchedAreFresh, TerminalHaveLabels,
                    FleetWithinCap
<1> QED  BY <1>3, <1>4 DEF FleetInv

LEMMA AgentFleetStep ==
  ASSUME Inv, FleetInv, TypeOK', NEW n \in Natives, AgentDies(n) \/ AgentDone(n),
         UNCHANGED <<spawn, aged>>
  PROVE  FleetInv'
<1>1. alive' \subseteq alive /\ UNCHANGED <<rec, label, messaged, ens>>
  BY DEF AgentDies, AgentDone
<1>2. terminal' = terminal \/ (n \in messaged /\ terminal' = terminal \cup {n})
  BY DEF AgentDies, AgentDone
<1>3. n \in messaged => label[n] \in Principals /\ ens[label[n]].pc \notin Launching
  BY DEF FleetInv, LaunchedAreFresh, Inv, FreshConversationsAreFresh
<1> QED  BY <1>1, <1>2, <1>3, FleetMovesOn

LEMMA RestartFleetStep ==
  ASSUME Inv, FleetInv, TypeOK', Restart
  PROVE  FleetInv'
<1>1. /\ \A s \in Spawns : spawn'[s].pc = "idle"
      /\ \A p \in Principals : ens'[p].pc = "idle"
      /\ UNCHANGED <<rec, terminal, messaged, aged>>
  BY DEF Restart, Idle, NoSpawn, Callers
<1>2. /\ \A n \in alive' \ alive : label[n] = None
      /\ \A n \in Natives : label'[n] = label[n] \/ label[n] = None
  BY DEF Restart, MakeAgent, Inv, TypeOK, AgentTypeOK
<1> QED  BY <1>1, <1>2, FleetMovesOn DEF Launching

LEMMA FleetInductive == Inv /\ FleetInv /\ [Next]_vars => FleetInv'
<1> SUFFICES ASSUME Inv, FleetInv, [Next]_vars PROVE FleetInv'
  OBVIOUS
<1>0. TypeOK'
  BY InvInductive DEF Inv
<1>1. CASE UNCHANGED vars
  BY <1>0, <1>1, FleetMovesOn DEF vars, agentVars
<1>2. ASSUME NEW c \in Convs, NEW sid \in handed \cup {None}, StartTurn(c, sid) PROVE FleetInv'
  BY <1>0, <1>2, TurnFleetStep
<1>3. ASSUME NEW c \in Callers, EnsureAgent(c), UNCHANGED <<mode, inFlight, handed, spawn, aged>>
      PROVE  FleetInv'
  BY <1>0, <1>3, EnsureFleetStep
<1>4. ASSUME NEW c \in Callers, SessionEvent(c) PROVE FleetInv'
  <2>1. \A d \in Principals : ens'[d] = ens[d]
    BY <1>4 DEF SessionEvent, Inv, TypeOK, AgentTypeOK, Callers
  <2> QED  BY <1>0, <1>4, <2>1, FleetMovesOn DEF SessionEvent
<1>5. ASSUME NEW c \in Callers, Message(c) PROVE FleetInv'
  BY <1>0, <1>5, SendFleetStep
<1>6. ASSUME NEW c \in Callers, EndTurn(c) \/ EndDispatch(c) PROVE FleetInv'
  BY <1>0, <1>6, EndFleetStep DEF EndTurn, EndDispatch
<1>7. ASSUME NEW c \in Callers, Dispatch(c) PROVE FleetInv'
  BY <1>0, <1>7, CallerFleetStep DEF Dispatch, Steps, Launching
<1>8. ASSUME NEW c \in Callers, FailAfterEnsure(c) PROVE FleetInv'
  BY <1>0, <1>8, FailFleetStep DEF FailAfterEnsure
<1>9. ASSUME NEW s \in Spawns, NEW req \in 1 .. MaxRequest, CallSpawn(s, req) PROVE FleetInv'
  <2>1. \A t \in Spawns : spawn'[t].pc = "counting" => spawn'[t] = spawn[t]
    BY <1>9 DEF CallSpawn, NoSpawn, Inv, TypeOK
  <2> QED  BY <1>0, <1>9, <2>1, FleetMovesOn DEF CallSpawn, agentVars
<1>10. ASSUME NEW s \in Spawns, BeginCount(s) \/ CheckAndMint(s) PROVE FleetInv'
  BY <1>0, <1>10, CountFleetStep, MintFleetStep
<1>11. ASSUME NEW p \in Principals, GrowOld(p) PROVE FleetInv'
  BY <1>0, <1>11, AgeFleetStep
<1>12. ASSUME NEW n \in Natives, AgentDies(n) \/ AgentDone(n),
              UNCHANGED <<mode, inFlight, handed, spawn, aged>>
       PROVE  FleetInv'
  BY <1>0, <1>12, AgentFleetStep
<1>13. CASE Restart
  BY <1>0, <1>13, RestartFleetStep
<1> QED
  BY <1>1, <1>2, <1>3, <1>4, <1>5, <1>6, <1>7, <1>8, <1>9, <1>10, <1>11, <1>12, <1>13 DEF Next

\* However many spawn calls overlap, and whatever dies, restarts or is misread,
\* the children that work or are being launched stay within the cap
\* (fleet/ops.ts: checkCaps inside the mutex, liveCount).
THEOREM CapHolds == Spec => []FleetWithinCap
<1>1. FleetInv => FleetWithinCap
  BY DEF FleetInv
<1> QED  BY <1>1, FleetInit, FleetInductive, InvAlways, PTL DEF Spec
=============================================================================

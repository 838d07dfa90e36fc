----------------------------- MODULE MngrAgents -----------------------------
(***************************************************************************)
(* The agent registry (agent-host/src/agents.ts) and the part of the mngr  *)
(* backend that finds, creates and binds an agent for a principal          *)
(* (ensureAgent in agent-host/src/backends/mngr.ts).                       *)
(*                                                                         *)
(* A principal is Rhumb's durable name for an agent; a native id is mngr's *)
(* disposable one.  ensureAgent awaits a mngr process at every step, so a  *)
(* caller is somewhere between two of them: it asks whether the bound      *)
(* agent lives, looks for an agent with the principal's label, creates one *)
(* and looks again.  A listing may be unknowable, `mngr create` may fail   *)
(* after it has made the agent, agents die, and mngr refuses a name that a *)
(* live agent carries (names are minted per principal).                    *)
(*                                                                         *)
(* Callers are the operator's turns and, for a fleet child, the child's    *)
(* own dispatch: module Principals says when they start.                   *)
(***************************************************************************)
EXTENDS Naturals, FiniteSets

CONSTANTS NumPrincipals,   \* bound: records the registry may ever hold
          Natives,         \* bound: agents mngr may ever create
          Convs,           \* operator turns that may run at once
          None             \* no native id, no principal

Principals == 1 .. NumPrincipals
Callers == Convs \cup Principals

ASSUME NumAssumption == NumPrincipals \in Nat \ {0}
ASSUME NoneAssumption == None \notin Natives \cup Principals
ASSUME ConvsAssumption == Convs \cap Principals = {}

VARIABLES
    rec,        \* agents.json: the record of each principal
    label,      \* the principal an agent was created for; None: not created
    alive,      \* the agents `mngr list` shows
    terminal,   \* those of them mngr reports DONE, STOPPED or REPLACED
    messaged,   \* history: agents that were ever sent a prompt
    ens         \* where each caller is

agentVars == <<rec, label, alive, terminal, messaged, ens>>

Steps == {"idle", "liveness", "resolve", "create", "confirm",
          "ready", "sending", "answering", "failed"}

AgentRecord == [status : {"absent", "active", "stopped"},
                native : Natives \cup {None}, depth : {0, 1}]

Caller == [pc : Steps, p : Principals \cup {None}, n : Natives \cup {None},
           lane : SUBSET Natives]

Idle == [pc |-> "idle", p |-> None, n |-> None, lane |-> {}]

AgentTypeOK ==
    /\ rec \in [Principals -> AgentRecord]
    /\ label \in [Natives -> Principals \cup {None}]
    /\ alive \subseteq Natives
    /\ terminal \subseteq Natives
    /\ messaged \subseteq Natives
    /\ ens \in [Callers -> Caller]

AgentInit ==
    /\ rec = [p \in Principals |->
                 [status |-> "absent", native |-> None, depth |-> 0]]
    /\ label = [n \in Natives |-> None]
    /\ alive = {}
    /\ terminal = {}
    /\ messaged = {}
    /\ ens = [c \in Callers |-> Idle]

-----------------------------------------------------------------------------
(* The registry.  Every mutation rewrites agents.json before it returns.   *)

Absent == {p \in Principals : rec[p].status = "absent"}

Active == {p \in Principals : rec[p].status = "active"}

(* create: S are the next records, in the order of the principals' numbers, *)
(* which is the order of createdAt.                                         *)
NextRecords(S) == S \subseteq Absent /\ \A p \in S, q \in Absent \ S : p < q

Created(S, depth) ==
    [p \in Principals |->
        IF p \in S THEN [status |-> "active", native |-> None, depth |-> depth]
                   ELSE rec[p]]

-----------------------------------------------------------------------------
(* ensureAgent.                                                            *)

\* How the synchronous prefix of ensureAgent leaves a caller: a stopped
\* principal is refused, a bound one has its agent's liveness asked first.
Ensuring(p, r, lane) ==
    [pc |-> CASE r[p].status = "stopped" -> "failed"
              [] r[p].status # "stopped" /\ r[p].native # None -> "liveness"
              [] OTHER -> "resolve",
     p |-> p, n |-> r[p].native, lane |-> lane]

Goto(c, pc) == ens' = [ens EXCEPT ![c].pc = pc]

\* The bound agent is used unless a trustworthy listing does not show it.
Liveness(c) ==
    /\ ens[c].pc = "liveness"
    /\ \/ ens[c].n \in alive /\ Goto(c, "ready")
       \/ Goto(c, "ready")                        \* the listing is unknowable
       \/ ens[c].n \notin alive /\ Goto(c, "resolve")
    /\ UNCHANGED <<rec, label, alive, terminal, messaged>>

LabelledAnyone(p) == alive \* (mutant: adopts whatever agent there is)

\* Agents a trustworthy listing shows with this principal's label.
Labelled(p) == {n \in alive : label[n] = p}

ClaimedElsewhere(p, n) ==
    \E q \in Principals \ {p} : rec[q].status = "active" /\ rec[q].native = n

\* (mutant: the binding is reported, not recorded)
BindUnrecorded(c, n) == /\ ens' = [ens EXCEPT ![c].pc = "ready", ![c].n = n]
                        /\ UNCHANGED rec

\* bindIfUnclaimed: refuse an agent another record holds, otherwise bind it.
BindIfUnclaimed(c, n) ==
    LET p == ens[c].p IN
    IF ClaimedElsewhere(p, n)
    THEN Goto(c, "failed") /\ UNCHANGED rec
    ELSE /\ rec' = [rec EXCEPT ![p].native = n]
         /\ ens' = [ens EXCEPT ![c].pc = "ready", ![c].n = n]

\* Resolve before create: adopt the agent that carries the label.  Absent or
\* unknowable, the next step creates.
Resolve(c) ==
    /\ ens[c].pc = "resolve"
    /\ \/ \E n \in Labelled(ens[c].p) : BindIfUnclaimed(c, n)
       \/ Labelled(ens[c].p) = {} /\ Goto(c, "create") /\ UNCHANGED rec
       \/ Goto(c, "create") /\ UNCHANGED rec      \* the listing is unknowable
    /\ UNCHANGED <<label, alive, terminal, messaged>>

\* mngr makes an agent: it refuses the name of a live one.
MakeAgent(p, n) ==
    /\ Labelled(p) = {}
    /\ label[n] = None
    /\ label' = [label EXCEPT ![n] = p]
    /\ alive' = alive \cup {n}

\* `mngr create`: it makes the agent and says so, fails, or makes the agent
\* and exits non-zero all the same (a time-out kills the CLI).
Create(c) ==
    /\ ens[c].pc = "create"
    /\ \/ /\ \E n \in Natives : MakeAgent(ens[c].p, n)
          /\ \E pc \in {"confirm", "failed"} : Goto(c, pc)
       \/ Goto(c, "failed") /\ UNCHANGED <<label, alive>>
    /\ UNCHANGED <<rec, terminal, messaged>>

\* The id is looked up by label, never read off create's output.
Confirm(c) ==
    /\ ens[c].pc = "confirm"
    /\ \/ \E n \in Labelled(ens[c].p) : BindIfUnclaimed(c, n)
       \/ Goto(c, "failed") /\ UNCHANGED rec  \* unconfirmed, or not found
    /\ UNCHANGED <<label, alive, terminal, messaged>>

EnsureAgent(c) == Liveness(c) \/ Resolve(c) \/ Create(c) \/ Confirm(c)

\* stop: `mngr stop`, then markStopped.  If mngr refuses, nothing is recorded;
\* a stopped agent may stay in the listing.
StopAgent(p, n) ==
    \/ /\ rec' = [rec EXCEPT ![p].status = "stopped"]
       /\ \/ terminal' = terminal \cup {n} /\ UNCHANGED alive
          \/ alive' = alive \ {n} /\ UNCHANGED terminal
    \/ UNCHANGED <<rec, alive, terminal>>

-----------------------------------------------------------------------------
(* The box: an agent dies, or mngr reports that it is done.                *)

AgentDies(n) ==
    /\ n \in alive
    /\ alive' = alive \ {n}
    /\ UNCHANGED <<rec, label, terminal, messaged, ens>>

AgentDone(n) ==
    /\ n \in alive \cap messaged
    /\ n \notin terminal
    /\ terminal' = terminal \cup {n}
    /\ UNCHANGED <<rec, label, alive, messaged, ens>>
=============================================================================

----------------------------- MODULE Principals -----------------------------
(***************************************************************************)
(* Who talks to which agent: the resolver that gives an operator's turn    *)
(* its principal (createMngrAgentIdResolver in agent-host/src/index.ts),   *)
(* the session manager that releases it, and the fleet that spawns         *)
(* children through the same registry (agent-host/src/fleet/ops.ts), over  *)
(* module MngrAgents.                                                      *)
(*                                                                         *)
(* The host runs its conversations on the sdk backend, and then the fleet  *)
(* is within the model's reach, or on the mngr backend, and then it is     *)
(* not; agents.json outlives the process, so each meets what the other     *)
(* left.  Turns of one session are serialized before they get here         *)
(* (module Rooms): a turn may not be posted on a session whose turn runs.  *)
(***************************************************************************)
EXTENDS MngrAgents

CONSTANTS Spawns,          \* calls of fleet.spawn that may overlap
          MaxPerSpawn, MaxConcurrent,             \* the caps
          MaxRequest,      \* bound: tasks a call may ask for
          LivenessKnown    \* {FALSE} as index.ts wires it; TRUE: a real map

ASSUME CapsAssumption == /\ MaxPerSpawn \in Nat /\ MaxConcurrent \in Nat
                         /\ MaxRequest \in Nat /\ LivenessKnown \subseteq BOOLEAN

VARIABLES
    mode,       \* the backend of the running process' conversations
    inFlight,   \* inFlightMngrAgentIds
    handed,     \* session ids that clients were ever given
    spawn,      \* each spawn call: waiting for the mutex, counting
    aged        \* records older than the never-bound dispatch window

vars == <<agentVars, mode, inFlight, handed, spawn, aged>>

NoSpawn == [pc |-> "idle", req |-> 0, seen |-> {}, unbound |-> {}]

TypeOK ==
    /\ AgentTypeOK
    /\ mode \in {"sdk", "mngr"}
    /\ inFlight \subseteq Principals
    /\ handed \subseteq Natives
    /\ spawn \in [Spawns -> [pc : {"idle", "waiting", "counting"},
                             req : 0 .. MaxRequest,
                             seen : SUBSET Principals,
                             unbound : SUBSET Principals]]
    /\ aged \subseteq Principals

Init ==
    /\ AgentInit
    /\ mode \in {"sdk", "mngr"}
    /\ inFlight = {}
    /\ handed = {}
    /\ spawn = [s \in Spawns |-> NoSpawn]
    /\ aged = {}

-----------------------------------------------------------------------------
(* An operator's turn.                                                     *)

Running == {c \in Convs : ens[c].pc # "idle"}

BoundTo(sid) == {p \in Principals : sid # None /\ rec[p].native = sid}

\* (mutants: in-flight records too; fleet children too)
ReusableInFlight == {p \in Active : rec[p].native = None /\ rec[p].depth = 0}
ReusableChildren == {p \in Active : rec[p].native = None /\ p \notin inFlight}

\* Records a turn without a known session may take over: its newest.
Reusable == {p \in Active : /\ rec[p].native = None
                            /\ p \notin inFlight
                            /\ rec[p].depth = 0}

\* resolveAgentId and the synchronous start of ensureAgent: the principal the
\* session is bound to, else the newest reusable one, else a new one.
StartTurn(c, sid) ==
    /\ mode = "mngr"
    /\ ens[c].pc = "idle"
    /\ \A d \in Running : sid \notin ens[d].lane
    /\ \E p \in Principals :
          /\ \/ p \in BoundTo(sid) /\ rec' = rec
             \/ /\ BoundTo(sid) = {}
                /\ p \in Reusable /\ \A q \in Reusable : q <= p
                /\ rec' = rec
             \/ /\ BoundTo(sid) = {} /\ Reusable = {}
                /\ NextRecords({p}) /\ rec' = Created({p}, 0)
          /\ inFlight' = inFlight \cup {p}
          /\ ens' = [ens EXCEPT ![c] =
                        Ensuring(p, rec', {sid} \ {None})]
    /\ UNCHANGED <<label, alive, terminal, messaged, mode, handed, spawn, aged>>

\* send: the session event goes out, and the room moves to the session.
SessionEvent(c) ==
    /\ c \in Convs
    /\ ens[c].pc = "ready"
    /\ handed' = handed \cup {ens[c].n}
    /\ ens' = [ens EXCEPT ![c].pc = "sending", ![c].lane = @ \cup {ens[c].n}]
    /\ UNCHANGED <<rec, label, alive, terminal, messaged, mode, inFlight, spawn, aged>>

\* `mngr message`; what the agent answers is in module MngrSend.
Message(c) ==
    /\ ens[c].pc = "sending"
    /\ messaged' = messaged \cup {ens[c].n}
    /\ Goto(c, "answering")
    /\ UNCHANGED <<rec, label, alive, terminal, mode, inFlight, handed, spawn, aged>>

\* run's finally: however the turn ended, its principal is released.
EndTurn(c) ==
    /\ c \in Convs
    /\ ens[c].pc \in {"answering", "failed"}
    /\ inFlight' = inFlight \ {ens[c].p}
    /\ ens' = [ens EXCEPT ![c] = Idle]
    /\ UNCHANGED <<rec, label, alive, terminal, messaged, mode, handed, spawn, aged>>

-----------------------------------------------------------------------------
(* The fleet.                                                              *)

CallSpawn(s, req) ==
    /\ mode = "sdk"
    /\ spawn[s].pc = "idle"
    /\ spawn' = [spawn EXCEPT ![s] = [NoSpawn EXCEPT !.pc = "waiting", !.req = req]]
    /\ UNCHANGED <<agentVars, mode, inFlight, handed, aged>>

MutexIgnored == TRUE \* (mutant: no mutex)

MutexFree == \A s \in Spawns : spawn[s].pc # "counting"

\* liveCount reads the registry, then awaits the liveness of what it read.
BeginCount(s) ==
    /\ spawn[s].pc = "waiting"
    /\ MutexFree
    /\ spawn' = [spawn EXCEPT
                    ![s].pc = "counting",
                    ![s].seen = Active,
                    ![s].unbound = {p \in Active : rec[p].native = None}]
    /\ UNCHANGED <<agentVars, mode, inFlight, handed, aged>>

\* Only what is positively known to be over is left out of the count: an agent
\* that is absent from the listing counts, and so does a young unbound record.
LiveCount(s, known) ==
    LET over(p) == IF p \in spawn[s].unbound
                   THEN p \in aged
                   ELSE rec[p].native \in alive \cap terminal
    IN  Cardinality({p \in spawn[s].seen : ~known \/ ~over(p)})

\* checkCaps at depth 0, which the depth cap always admits.
Admitted(req, live) == req <= MaxPerSpawn /\ live + req <= MaxConcurrent

\* The check and the minting are one step of the mutex; a breach refuses the
\* whole batch.  The dispatches start outside of it.
CheckAndMint(s) ==
    /\ spawn[s].pc = "counting"
    /\ spawn' = [spawn EXCEPT ![s] = NoSpawn]
    /\ \E known \in LivenessKnown, S \in SUBSET Principals :
          IF Admitted(spawn[s].req, LiveCount(s, known))
          THEN /\ Cardinality(S) = spawn[s].req
               /\ NextRecords(S)
               /\ rec' = Created(S, 1)
               /\ ens' = [c \in Callers |->
                             IF c \in S THEN Ensuring(c, rec', {}) ELSE ens[c]]
          ELSE S = {} /\ UNCHANGED <<rec, ens>>
    /\ UNCHANGED <<label, alive, terminal, messaged, mode, inFlight, handed, aged>>

\* dispatchSend: the prompt is sent without waiting for the answer.
Dispatch(p) ==
    /\ p \in Principals
    /\ ens[p].pc = "ready"
    /\ Goto(p, "sending")
    /\ UNCHANGED <<rec, label, alive, terminal, messaged, mode, inFlight, handed, spawn, aged>>

\* send throws before it starts: the agent is stopped.
FailAfterEnsure(p) ==
    /\ p \in Principals
    /\ ens[p].pc = "ready"
    /\ StopAgent(p, ens[p].n)
    /\ Goto(p, "failed")
    /\ UNCHANGED <<label, messaged, mode, inFlight, handed, spawn, aged>>

\* A failed dispatch leaves the record active and unbound, a sent one active.
EndDispatch(p) ==
    /\ p \in Principals
    /\ ens[p].pc \in {"answering", "failed"}
    /\ ens' = [ens EXCEPT ![p] = Idle]
    /\ UNCHANGED <<rec, label, alive, terminal, messaged, mode, inFlight, handed, spawn, aged>>

\* The dispatch window outlasts every chain of mngr calls an ensure makes; the
\* age of a bound record is never looked at.
GrowOld(p) ==
    /\ p \in Active \ aged
    /\ ens[p].pc = "idle" /\ rec[p].native = None
    /\ aged' = aged \cup {p}
    /\ UNCHANGED <<agentVars, mode, inFlight, handed, spawn>>

-----------------------------------------------------------------------------
\* The process dies and starts again, perhaps with the other backend.  The
\* registry and the agents stay; a `mngr create` under way may still land.
Restart ==
    /\ mode' \in {"sdk", "mngr"}
    /\ inFlight' = {}
    /\ ens' = [c \in Callers |-> Idle]
    /\ spawn' = [s \in Spawns |-> NoSpawn]
    /\ \/ \E c \in Callers, n \in Natives :
             ens[c].pc = "create" /\ MakeAgent(ens[c].p, n)
       \/ UNCHANGED <<label, alive>>
    /\ UNCHANGED <<rec, terminal, messaged, handed, aged>>

Next ==
    \/ \E c \in Convs, sid \in handed \cup {None} : StartTurn(c, sid)
    \/ \E c \in Callers : \/ EnsureAgent(c) /\ UNCHANGED <<mode, inFlight, handed, spawn, aged>>
                          \/ SessionEvent(c) \/ Message(c) \/ EndTurn(c)
                          \/ Dispatch(c) \/ FailAfterEnsure(c) \/ EndDispatch(c)
    \/ \E s \in Spawns : \/ \E req \in 1 .. MaxRequest : CallSpawn(s, req)
                         \/ BeginCount(s) \/ CheckAndMint(s)
    \/ \E p \in Principals : GrowOld(p)
    \/ \E n \in Natives : (AgentDies(n) \/ AgentDone(n))
                             /\ UNCHANGED <<mode, inFlight, handed, spawn, aged>>
    \/ Restart

Spec == Init /\ [][Next]_vars

-----------------------------------------------------------------------------
(* Properties.                                                             *)

\* Two turns that run at once never share a principal, so two conversations
\* never land in one transcript (the in-flight set of the resolver).
OneTurnPerPrincipal ==
    \A c, d \in Running : c # d => ens[c].p # ens[d].p

\* A record is bound only to the agent that was created for it: no two records
\* share an agent, whatever raced, died or was recreated.
BindingFollowsLabel ==
    \A p \in Principals : rec[p].native # None => label[rec[p].native] = p

\* An agent that was ever sent a prompt stays the agent of a bound record, so
\* a conversation that starts afresh, which takes an unbound one, never
\* continues in a transcript that holds somebody's prompts.
FreshConversationsAreFresh ==
    \A n \in messaged : label[n] \in Principals /\ rec[label[n]].native # None

\* An operator's turn never adopts a child that the fleet spawned for another
\* task, not even one a dead process left unbound.
TurnsLeaveChildrenAlone ==
    \A c \in Running : rec[ens[c].p].depth = 0

\* The children that work or are being launched never exceed the cap,
\* however many spawn calls overlap.
Occupied == {p \in Active : /\ rec[p].depth = 1
                            /\ \/ ens[p].pc \notin {"idle", "answering", "failed"}
                               \/ rec[p].native \in alive \ terminal}

FleetWithinCap == Cardinality(Occupied) <= MaxConcurrent
=============================================================================

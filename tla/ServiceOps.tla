----------------------------- MODULE ServiceOps -----------------------------
(***************************************************************************)
(* Service deployments: agent-host/src/services/ops.ts (spawn, redeploy,   *)
(* stop, start, destroy), its registry file services/registry.ts and the   *)
(* container API services/lxc.ts.                                          *)
(*                                                                         *)
(* A call is split at its awaits.  What it reads of the registry it reads  *)
(* once, as it begins; the registry is read and written again, without an  *)
(* await in between, when the new container has passed its health gate.    *)
(* Calls of several turns and of approved parked actions run concurrently. *)
(*                                                                         *)
(* Proxmox is outside the repository: a container is absent, stopped or    *)
(* running, a running one cannot be deleted, and the id of a deleted one   *)
(* is handed out again (GET /cluster/nextid gives the lowest free id).     *)
(***************************************************************************)
EXTENDS Naturals, FiniteSets

CONSTANTS Ids,          \* service ids
          Calls,        \* operations called, each once
          Ops,          \* which operations these are
          MaxContainer, \* bound on container ids
          Initial,      \* service id -> container it was deployed in, or 0
          OneOperator,  \* no two calls on one service overlap (ops.ts:154-157)
          MaxFaults     \* bound on failing Proxmox calls, failing writes and crashes

None == 0
Containers == 1..MaxContainer

ASSUME ServiceOpsAssumption ==
    /\ Ops \subseteq {"spawn", "redeploy", "destroy", "stop", "start"}
    /\ MaxContainer \in Nat /\ MaxFaults \in Nat
    /\ OneOperator \in BOOLEAN
    /\ Initial \in [Ids -> Containers \cup {None}]
    /\ \A i, j \in Ids : i # j /\ Initial[i] # None => Initial[i] # Initial[j]

VARIABLES pc,        \* call -> where it is
          op,        \* call -> the operation
          svc,       \* call -> the service
          old,       \* call -> container of the entry it read as it began
          new,       \* call -> container it provisions
          ctr,       \* container -> "absent", "stopped" or "running"
          registry,  \* service -> container of its entry, or None
          warned,    \* containers a redeploy's warning has named
          abandoned, \* containers left by a failed teardown or by a crash
          cutOff,    \* services whose container a destroy deleted without
                     \* getting to remove the entry
          faults

vars == <<pc, op, svc, old, new, ctr, registry, warned, abandoned, cutOff, faults>>

Init ==
    /\ pc = [c \in Calls |-> "idle"]
    /\ op \in [Calls -> Ops]
    /\ svc \in [Calls -> Ids]
    /\ old = [c \in Calls |-> None]
    /\ new = [c \in Calls |-> None]
    /\ ctr = [n \in Containers |-> IF \E i \in Ids : Initial[i] = n THEN "running" ELSE "absent"]
    /\ registry = Initial
    /\ warned = {}
    /\ abandoned = {}
    /\ cutOff = {}
    /\ faults = 0

InFlight(c) == pc[c] \notin {"idle", "over"}

Goto(c, l) == pc' = [pc EXCEPT ![c] = l]

\* A Proxmox call or a write that fails, or a crash, up to the bound.
Fault == faults < MaxFaults /\ faults' = faults + 1

-----------------------------------------------------------------------------

\* spawn wants no entry, every other operation wants one.
admits(o, i) == (registry[i] = None) <=> (o = "spawn")

firstStep(o) == CASE o \in {"spawn", "redeploy"} -> "nextid"
                  [] o = "destroy" -> "stop"
                  [] o \in {"stop", "start"} -> "act"

\* An operation is called and reads the entry.  A call that is turned away, or
\* whose manifest or data sources are invalid, changes nothing.
Begin(c) ==
    /\ pc[c] = "idle"
    /\ OneOperator => \A b \in Calls : svc[b] = svc[c] => ~InFlight(b)
    /\ admits(op[c], svc[c])
    /\ old' = [old EXCEPT ![c] = registry[svc[c]]]
    /\ Goto(c, firstStep(op[c]))
    /\ UNCHANGED <<op, svc, new, ctr, registry, warned, abandoned, cutOff, faults>>

-----------------------------------------------------------------------------
(* provisionHealthy *)

Free == {n \in Containers : ctr[n] = "absent"}

\* lxc.create, first half: ask for the next free id.
NextId(c) ==
    /\ pc[c] = "nextid"
    /\ \E n \in Free :
          /\ \A m \in Free : n <= m
          /\ new' = [new EXCEPT ![c] = n]
    /\ Goto(c, "create")
    /\ UNCHANGED <<op, svc, old, ctr, registry, warned, abandoned, cutOff, faults>>

\* Mutant: create runs inside the try block that tears down.
afterTakenRollsBack == "teardown"

\* The id has been taken meanwhile, or the call fails: create throws before
\* there is anything to roll back.
afterTaken == "over"

\* lxc.create, second half.
Create(c) ==
    /\ pc[c] = "create"
    /\ \/ /\ ctr[new[c]] = "absent"
          /\ ctr' = [ctr EXCEPT ![new[c]] = "stopped"]
          /\ warned' = warned \ {new[c]}
          /\ abandoned' = abandoned \ {new[c]}
          /\ Goto(c, "provision")
          /\ UNCHANGED faults
       \/ /\ IF ctr[new[c]] = "absent" THEN Fault ELSE UNCHANGED faults
          /\ Goto(c, afterTaken)
          /\ UNCHANGED <<ctr, warned, abandoned>>
    /\ UNCHANGED <<op, svc, old, new, registry, cutOff>>

StartContainer(c) ==
    /\ pc[c] = "provision"
    /\ ctr' = [ctr EXCEPT ![new[c]] = IF @ = "stopped" THEN "running" ELSE @]
    /\ Goto(c, "gating")
    /\ UNCHANGED <<op, svc, old, new, registry, warned, abandoned, cutOff, faults>>

\* The container does not start, reports no address, cannot be deployed to, or
\* does not pass the health gate in time.
ProvisionFails(c) ==
    /\ pc[c] \in {"provision", "gating"}
    /\ Goto(c, "teardown")
    /\ UNCHANGED <<op, svc, old, new, ctr, registry, warned, abandoned, cutOff, faults>>

\* lxc.stop and waitStopped, on a container that may not be running.
halted(n) == [ctr EXCEPT ![n] = IF @ = "running" THEN "stopped" ELSE @]

\* teardown: stop and destroy, each of whose errors is swallowed.
Teardown(c) ==
    /\ pc[c] = "teardown"
    /\ Goto(c, "over")
    /\ \/ /\ ctr' = [ctr EXCEPT ![new[c]] = "absent"]
          /\ UNCHANGED <<abandoned, faults>>
       \/ /\ Fault
          /\ abandoned' = abandoned \cup {new[c]}
          /\ ctr' \in {ctr, halted(new[c])}
    /\ UNCHANGED <<op, svc, old, new, registry, warned, cutOff>>

-----------------------------------------------------------------------------

\* appendService refuses a registered id, replaceService an unregistered one.
registers(c) == admits(op[c], svc[c])

\* The gate has passed: write the entry, or roll the container back.  A spawn
\* is over then, a redeploy goes on to retire the container it replaced.
Commit(c) ==
    /\ pc[c] = "gating"
    /\ \/ /\ registers(c)
          /\ registry' = [registry EXCEPT ![svc[c]] = new[c]]
          /\ Goto(c, IF op[c] = "redeploy" THEN "stop" ELSE "over")
          /\ UNCHANGED faults
       \/ /\ IF registers(c) THEN Fault ELSE UNCHANGED faults
          /\ Goto(c, "teardown")
          /\ UNCHANGED registry
    /\ UNCHANGED <<op, svc, old, new, ctr, warned, abandoned, cutOff>>

\* Mutant: the entry is read again.
retiredFresh(c) == IF registry[svc[c]] = None THEN old[c] ELSE registry[svc[c]]

\* The container that a redeploy replaced or that a destroy is to delete.
retired(c) == old[c]

\* lxc.stop, whose error is swallowed, and waitStopped.
StopOld(c) ==
    /\ pc[c] = "stop"
    /\ Goto(c, "delete")
    /\ \/ /\ ctr' = halted(retired(c))
          /\ UNCHANGED faults
       \/ Fault /\ UNCHANGED ctr
    /\ UNCHANGED <<op, svc, old, new, registry, warned, abandoned, cutOff>>

\* Mutant: the destroyed service keeps its entry.
afterDeleteOver(o) == "over"

afterDelete(o) == IF o = "destroy" THEN "unregister" ELSE "over"

\* Mutant: the orphan is not named.
warnNever(c) == UNCHANGED warned

\* A redeploy reports the container it could not delete; a destroy throws.
warn(c) == warned' = warned \cup (IF op[c] = "redeploy" THEN {retired(c)} ELSE {})

\* lxc.destroy, which Proxmox refuses for a running or an absent container.
DeleteOld(c) ==
    /\ pc[c] = "delete"
    /\ \/ /\ ctr[retired(c)] = "stopped"
          /\ ctr' = [ctr EXCEPT ![retired(c)] = "absent"]
          /\ Goto(c, afterDelete(op[c]))
          /\ UNCHANGED <<warned, faults>>
       \/ /\ IF ctr[retired(c)] = "stopped" THEN Fault ELSE UNCHANGED faults
          /\ warn(c)
          /\ Goto(c, "over")
          /\ UNCHANGED ctr
    /\ UNCHANGED <<op, svc, old, new, registry, abandoned, cutOff>>

\* destroy goes on to removeService, by id: whatever entry is there now.  When
\* the write fails the entry stays, and no later destroy gets past DeleteOld.
Unregister(c) ==
    /\ pc[c] = "unregister"
    /\ Goto(c, "over")
    /\ \/ /\ registry' = [registry EXCEPT ![svc[c]] = None]
          /\ UNCHANGED <<cutOff, faults>>
       \/ /\ Fault
          /\ cutOff' = cutOff \cup {svc[c]}
          /\ UNCHANGED registry
    /\ UNCHANGED <<op, svc, old, new, ctr, warned, abandoned>>

\* stop and start, on the container of the entry read at the beginning.  A call
\* that fails changes nothing, like one on a container already so.
Act(c) ==
    /\ pc[c] = "act"
    /\ Goto(c, "over")
    /\ \/ ctr' = [ctr EXCEPT ![old[c]] =
                  CASE op[c] = "stop" /\ @ = "running" -> "stopped"
                    [] op[c] = "start" /\ @ = "stopped" -> "running"
                    [] OTHER -> @]
       \/ UNCHANGED ctr
    /\ UNCHANGED <<op, svc, old, new, registry, warned, abandoned, cutOff, faults>>

\* The host dies with every call in flight.  Nothing on disk says how far they
\* had got: the registry file is all that the next process knows.
Crash ==
    LET at(where) == {c \in Calls : pc[c] \in where}
    IN /\ Fault
       /\ pc' = [c \in Calls |-> IF InFlight(c) THEN "over" ELSE pc[c]]
       /\ abandoned' = abandoned
             \cup {new[c] : c \in at({"provision", "gating", "teardown"})}
             \cup {old[c] : c \in {b \in at({"stop", "delete"}) : op[b] = "redeploy"}}
       /\ cutOff' = cutOff \cup {svc[c] : c \in at({"unregister"})}
       /\ UNCHANGED <<op, svc, old, new, ctr, registry, warned>>

Next ==
    \/ Crash
    \/ \E c \in Calls :
        \/ Begin(c) \/ NextId(c) \/ Create(c) \/ StartContainer(c) \/ ProvisionFails(c)
        \/ Teardown(c) \/ Commit(c) \/ StopOld(c) \/ DeleteOld(c) \/ Unregister(c) \/ Act(c)

Spec == Init /\ [][Next]_vars

-----------------------------------------------------------------------------

\* A call past its first await knows the containers it works on.
TypeOK ==
    /\ pc \in [Calls -> {"idle", "nextid", "create", "provision", "gating", "teardown",
                         "stop", "delete", "unregister", "act", "over"}]
    /\ op \in [Calls -> Ops]
    /\ svc \in [Calls -> Ids]
    /\ old \in [Calls -> Containers \cup {None}]
    /\ new \in [Calls -> Containers \cup {None}]
    /\ ctr \in [Containers -> {"absent", "stopped", "running"}]
    /\ registry \in [Ids -> Containers \cup {None}]
    /\ warned \subseteq Containers
    /\ abandoned \subseteq Containers
    /\ cutOff \subseteq Ids
    /\ faults \in 0..MaxFaults
    /\ \A c \in Calls :
          /\ pc[c] \in {"create", "provision", "gating", "teardown"} => new[c] # None
          /\ pc[c] \in {"stop", "delete", "act"} => old[c] # None

\* The services a container is registered to or is being provisioned for.
UsedBy(n) ==
    {i \in Ids : registry[i] = n} \cup
    {svc[c] : c \in {b \in Calls : new[b] = n /\ pc[b] \in {"provision", "gating", "teardown"}}}

Retiring(n) == \E c \in Calls : old[c] = n /\ pc[c] \in {"stop", "delete"}

\* No path leaves a running container silently unregistered (ops.ts:161-162):
\* a running container is used, or a call is about to delete it, or a redeploy
\* has named it.  The exceptions are a rollback that itself failed and a crash.
NoSilentOrphan ==
    \A n \in Containers :
        ctr[n] = "running" => UsedBy(n) # {} \/ Retiring(n) \/ n \in warned \cup abandoned

\* A destroy has deleted the container and is about to drop the entry.
Leaving(i) == \E c \in Calls : svc[c] = i /\ pc[c] = "unregister"

\* The entry of a service names a container that exists and that no other
\* service uses, although ids of deleted containers are handed out again.  An
\* entry whose destroy was cut off is stale for good, so this and the two
\* properties below hold until that happens.
EntriesNameLiveContainers ==
    cutOff = {} => \A i \in Ids : registry[i] # None /\ ~Leaving(i) =>
        /\ ctr[registry[i]] # "absent"
        /\ \A j \in UsedBy(registry[i]) : j = i \/ Leaving(j)

\* A container in use is deleted only by a call on the service that uses it:
\* neither a rollback nor the retirement of an old container hits another one.
DeletesOnlyItsOwn ==
    [][cutOff = {} => \A n \in Containers : ctr[n] # "absent" /\ ctr'[n] = "absent" =>
          \A i \in UsedBy(n) :
              Leaving(i) \/ \E c \in Calls : svc[c] = i /\ pc'[c] # pc[c]]_vars

\* Blue-green: a redeploy or a spawn, whether it succeeds or fails, never takes
\* down the container that the registry sends traffic to (ops.ts:149-152).
ServiceStaysUp ==
    [][cutOff = {} =>
       \A i \in Ids : registry[i] # None /\ ~Leaving(i) /\ ctr[registry[i]] = "running" =>
          \/ ctr'[registry[i]] = "running"
          \/ \E c \in Calls :
                svc[c] = i /\ op[c] \in {"stop", "destroy"} /\ pc'[c] # pc[c]]_vars
=============================================================================

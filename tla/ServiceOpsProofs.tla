-------------------------- MODULE ServiceOpsProofs --------------------------
(***************************************************************************)
(* Proofs about service deployments, for every set of services, calls and  *)
(* containers and any number of faults.  Types need no assumption on how   *)
(* calls overlap; the rest is about calls that do not overlap on one       *)
(* service, which ops.ts:154-157 takes for granted.                        *)
(*                                                                         *)
(* A container is claimed by the service whose entry names it, by the call *)
(* that provisions it, or by the redeploy that has replaced it and has not *)
(* deleted it yet.  The argument is that no container has two claims, that *)
(* a claimed container exists, and that a call deletes what it claims.     *)
(***************************************************************************)
EXTENDS ServiceOps, TLAPS

\* The operation decides where a call may be.  A redeploy has read an entry.
AtWork(c) ==
    /\ pc[c] \in {"nextid", "create", "provision", "gating", "teardown"} =>
          /\ op[c] \in {"spawn", "redeploy"}
          /\ op[c] = "redeploy" => old[c] # None
    /\ pc[c] \in {"stop", "delete"} => op[c] \in {"redeploy", "destroy"}
    /\ pc[c] = "unregister" => op[c] = "destroy"
    /\ pc[c] = "act" => op[c] \in {"stop", "start"}

BaseInv == TypeOK /\ \A c \in Calls : AtWork(c)

\* One call at a time works on a service.
Alone == \A b, c \in Calls : svc[b] = svc[c] /\ InFlight(b) /\ InFlight(c) => b = c

\* What a call has read of the registry is still so, until it commits.
ReadHolds(c) ==
    InFlight(c) /\ ~(op[c] = "redeploy" /\ pc[c] \in {"stop", "delete"})
        => registry[svc[c]] = old[c]

\* The containers claimed by a service, by a call that provisions, and by a
\* redeploy that retires what it replaced.
entry(i) == IF Leaving(i) THEN None ELSE registry[i]
fresh(c) == IF pc[c] \in {"provision", "gating", "teardown"} THEN new[c] ELSE None
spare(c) == IF op[c] = "redeploy" /\ pc[c] \in {"stop", "delete"} THEN old[c] ELSE None

Live(n) == n # None => ctr[n] # "absent"

ClaimsAreLive ==
    /\ \A i \in Ids : Live(entry(i))
    /\ \A c \in Calls : Live(fresh(c)) /\ Live(spare(c))

ClaimsAreDistinct ==
    /\ \A i, j \in Ids : i # j /\ entry(i) # None => entry(i) # entry(j)
    /\ \A b, c \in Calls : b # c /\ fresh(b) # None => fresh(b) # fresh(c)
    /\ \A b, c \in Calls : b # c /\ spare(b) # None => spare(b) # spare(c)
    /\ \A i \in Ids, c \in Calls : entry(i) # None => entry(i) # fresh(c) /\ entry(i) # spare(c)
    /\ \A b, c \in Calls : fresh(b) # None => fresh(b) # spare(c)

Claims == cutOff = {} => ClaimsAreLive /\ ClaimsAreDistinct

\* A running container is claimed, or it is known to have been left behind.
Accounted(n) ==
    \/ \E i \in Ids : entry(i) = n
    \/ \E c \in Calls : fresh(c) = n \/ spare(c) = n
    \/ n \in warned \cup abandoned

RunningIsAccounted == \A n \in Containers : ctr[n] = "running" => Accounted(n)

OpsInv ==
    /\ BaseInv
    /\ Alone
    /\ \A c \in Calls : ReadHolds(c)
    /\ Claims
    /\ RunningIsAccounted

-----------------------------------------------------------------------------
(* Types *)

LEMMA BaseInit == Init => BaseInv
<1> SUFFICES ASSUME Init PROVE BaseInv
  OBVIOUS
<1>1. TypeOK
  <2>1. ctr \in [Containers -> {"absent", "stopped", "running"}]
    BY DEF Init
  <2> QED
    BY <2>1, ServiceOpsAssumption DEF Init, TypeOK
<1>2. \A c \in Calls : AtWork(c)
  BY DEF Init, AtWork
<1> QED
  BY <1>1, <1>2 DEF BaseInv

\* Of what a call has provisioned or replaced, a crash leaves containers only.
LEMMA CrashTypes == ASSUME BaseInv, Crash PROVE TypeOK'
<1> USE DEF BaseInv
<1>1. pc' \in [Calls -> {"idle", "nextid", "create", "provision", "gating", "teardown",
                         "stop", "delete", "unregister", "act", "over"}]
  BY DEF Crash, TypeOK
<1>2. abandoned' \subseteq Containers
  BY DEF Crash, TypeOK, Containers, None
<1>3. cutOff' \subseteq Ids
  BY DEF Crash, TypeOK
<1>4. faults' \in 0..MaxFaults
  BY ServiceOpsAssumption DEF Crash, Fault, TypeOK
<1>5. \A c \in Calls : pc'[c] \in {"idle", "over"}
  BY DEF Crash, InFlight, TypeOK
<1> QED
  BY <1>1, <1>2, <1>3, <1>4, <1>5 DEF Crash, TypeOK

LEMMA BaseStep == BaseInv /\ [Next]_vars => BaseInv'
<1> SUFFICES ASSUME BaseInv, [Next]_vars PROVE BaseInv'
  OBVIOUS
<1> USE ServiceOpsAssumption DEF BaseInv
<1>1. CASE Crash
  <2>1. \A c \in Calls : pc'[c] \in {"idle", "over"}
    BY <1>1 DEF Crash, InFlight, TypeOK
  <2> QED
    BY <1>1, <2>1, CrashTypes DEF AtWork
<1>2. ASSUME NEW c \in Calls, Begin(c) PROVE BaseInv'
  <2>1. op[c] \in {"spawn", "redeploy", "destroy", "stop", "start"}
    BY DEF TypeOK
  <2>2. registry[svc[c]] \in Containers \cup {None} /\ (registry[svc[c]] = None <=> op[c] = "spawn")
    BY <1>2 DEF TypeOK, Begin, admits
  <2>3. /\ pc' = [pc EXCEPT ![c] = firstStep(op[c])]
        /\ old' = [old EXCEPT ![c] = registry[svc[c]]]
        /\ op' = op
    BY <1>2 DEF Begin, Goto
  <2>4. firstStep(op[c]) = IF op[c] \in {"spawn", "redeploy"} THEN "nextid"
                           ELSE IF op[c] = "destroy" THEN "stop" ELSE "act"
    BY <2>1 DEF firstStep
  <2>5. TypeOK'
    BY <1>2, <2>1, <2>2, <2>3, <2>4 DEF TypeOK, Begin
  <2>6. \A b \in Calls : AtWork(b)'
    BY <2>1, <2>2, <2>3, <2>4 DEF AtWork, TypeOK
  <2> QED
    BY <2>5, <2>6
<1>3. ASSUME NEW c \in Calls, NextId(c) PROVE BaseInv'
  BY <1>3 DEF NextId, Goto, Free, TypeOK, AtWork, Containers, None
<1>4. ASSUME NEW c \in Calls, Create(c) PROVE BaseInv'
  <2>1. new[c] \in Containers
    BY <1>4 DEF Create, TypeOK
  <2>2. /\ ctr' \in [Containers -> {"absent", "stopped", "running"}]
        /\ warned' \subseteq Containers /\ abandoned' \subseteq Containers
        /\ faults' \in 0..MaxFaults
    BY <1>4, <2>1 DEF Create, Fault, TypeOK
  <2>3. pc' = [pc EXCEPT ![c] = "provision"] \/ pc' = [pc EXCEPT ![c] = "over"]
    BY <1>4 DEF Create, Goto, afterTaken
  <2> QED
    BY <1>4, <2>1, <2>2, <2>3 DEF Create, TypeOK, AtWork
<1>5. ASSUME NEW c \in Calls, StartContainer(c) PROVE BaseInv'
  BY <1>5 DEF StartContainer, Goto, TypeOK, AtWork, Containers, None
<1>6. ASSUME NEW c \in Calls, ProvisionFails(c) PROVE BaseInv'
  BY <1>6 DEF ProvisionFails, Goto, TypeOK, AtWork
<1>7. ASSUME NEW c \in Calls, Teardown(c) PROVE BaseInv'
  <2>1. new[c] \in Containers
    BY <1>7 DEF Teardown, TypeOK
  <2>2. /\ ctr' \in [Containers -> {"absent", "stopped", "running"}]
        /\ abandoned' \subseteq Containers
        /\ faults' \in 0..MaxFaults
    BY <1>7, <2>1 DEF Teardown, halted, Fault, TypeOK
  <2> QED
    BY <1>7, <2>2 DEF Teardown, Goto, TypeOK, AtWork
<1>8. ASSUME NEW c \in Calls, Commit(c) PROVE BaseInv'
  BY <1>8 DEF Commit, Goto, Fault, TypeOK, AtWork
<1>9. ASSUME NEW c \in Calls, StopOld(c) PROVE BaseInv'
  BY <1>9 DEF StopOld, retired, halted, Goto, Fault, TypeOK, AtWork, Containers, None
<1>10. ASSUME NEW c \in Calls, DeleteOld(c) PROVE BaseInv'
  <2>1. old[c] \in Containers /\ op[c] \in {"redeploy", "destroy"}
    BY <1>10 DEF DeleteOld, AtWork, TypeOK
  <2>2. /\ ctr' \in [Containers -> {"absent", "stopped", "running"}]
        /\ warned' \subseteq Containers
        /\ faults' \in 0..MaxFaults
    BY <1>10, <2>1 DEF DeleteOld, retired, warn, Fault, TypeOK
  <2>3. \/ pc' = [pc EXCEPT ![c] = "over"]
        \/ op[c] = "destroy" /\ pc' = [pc EXCEPT ![c] = "unregister"]
    BY <1>10 DEF DeleteOld, Goto, afterDelete
  <2> QED
    BY <1>10, <2>2, <2>3 DEF DeleteOld, TypeOK, AtWork
<1>11. ASSUME NEW c \in Calls, Unregister(c) PROVE BaseInv'
  BY <1>11 DEF Unregister, Goto, Fault, TypeOK, AtWork
<1>12. ASSUME NEW c \in Calls, Act(c) PROVE BaseInv'
  <2>1. old[c] \in Containers /\ op[c] \in {"stop", "start"}
    BY <1>12 DEF Act, AtWork, TypeOK
  <2>2. ctr' = ctr \/ ctr' = [ctr EXCEPT ![old[c]] = "stopped"]
                   \/ ctr' = [ctr EXCEPT ![old[c]] = "running"]
    BY <1>12, <2>1 DEF Act, TypeOK
  <2>3. ctr' \in [Containers -> {"absent", "stopped", "running"}]
    BY <2>1, <2>2 DEF TypeOK
  <2> QED
    BY <1>12, <2>3 DEF Act, Goto, TypeOK, AtWork
<1>13. CASE UNCHANGED vars
  BY <1>13 DEF vars, TypeOK, AtWork
<1> QED
  BY <1>1, <1>2, <1>3, <1>4, <1>5, <1>6, <1>7, <1>8, <1>9, <1>10, <1>11, <1>12, <1>13 DEF Next

\* A call past its first await knows the containers it works on: a redeploy
\* that retires what it replaced and a destroy that deletes have an old one,
\* every call that starts, gates or rolls back has a new one (ops.ts:86-212).
THEOREM TypeCorrect == Spec => []TypeOK
<1>1. BaseInv => TypeOK
  BY DEF BaseInv
<1> QED
  BY BaseInit, BaseStep, <1>1, PTL DEF Spec

-----------------------------------------------------------------------------
(* What a step of a call leaves alone *)

Step(c) ==
    \/ Begin(c) \/ NextId(c) \/ Create(c) \/ StartContainer(c) \/ ProvisionFails(c)
    \/ Teardown(c) \/ Commit(c) \/ StopOld(c) \/ DeleteOld(c) \/ Unregister(c) \/ Act(c)

LEMMA Frame ==
  ASSUME BaseInv, NEW c \in Calls, Step(c)
  PROVE  /\ svc' = svc /\ op' = op
         /\ pc'[c] # pc[c]
         /\ \A d \in Calls \ {c} : pc'[d] = pc[d] /\ new'[d] = new[d] /\ old'[d] = old[d]
         /\ \A i \in Ids \ {svc[c]} : registry'[i] = registry[i]
<1> USE DEF BaseInv, TypeOK
<1>0. op[c] \in {"spawn", "redeploy", "destroy", "stop", "start"}
  BY ServiceOpsAssumption
<1>1. CASE Begin(c)
  <2>1. firstStep(op[c]) \in {"nextid", "stop", "act"}
    BY <1>0 DEF firstStep
  <2> QED
    BY <1>1, <2>1 DEF Begin, Goto
<1>2. CASE NextId(c)
  BY <1>2 DEF NextId, Goto
<1>3. CASE Create(c)
  BY <1>3 DEF Create, Goto, afterTaken
<1>4. CASE StartContainer(c) \/ ProvisionFails(c) \/ Teardown(c) \/ StopOld(c) \/ Act(c)
  BY <1>4 DEF StartContainer, ProvisionFails, Teardown, StopOld, Act, Goto
<1>5. CASE Commit(c)
  BY <1>5 DEF Commit, Goto
<1>6. CASE DeleteOld(c)
  BY <1>6 DEF DeleteOld, Goto, afterDelete
<1>7. CASE Unregister(c)
  BY <1>7 DEF Unregister, Goto
<1> QED
  BY <1>1, <1>2, <1>3, <1>4, <1>5, <1>6, <1>7 DEF Step

\* Of the claims, a step can change those of its call and of its service only.
LEMMA FrameClaims ==
  ASSUME BaseInv, NEW c \in Calls, Step(c)
  PROVE  /\ \A d \in Calls \ {c} : fresh(d)' = fresh(d) /\ spare(d)' = spare(d)
         /\ \A i \in Ids \ {svc[c]} : entry(i)' = entry(i)
<1>1. \A d \in Calls \ {c} : fresh(d)' = fresh(d) /\ spare(d)' = spare(d)
  BY Frame DEF fresh, spare
<1>2. \A i \in Ids \ {svc[c]} : Leaving(i)' <=> Leaving(i)
  BY Frame DEF Leaving
<1> QED
  BY <1>1, <1>2, Frame DEF entry

\* A call begins or it has begun before.
LEMMA Begun ==
  ASSUME BaseInv, NEW c \in Calls, Step(c)
  PROVE  Begin(c) \/ InFlight(c)
BY DEF Step, InFlight, NextId, Create, StartContainer, ProvisionFails, Teardown, Commit,
       StopOld, DeleteOld, Unregister, Act

LEMMA AloneStep ==
  ASSUME OneOperator, BaseInv, Alone, NEW c \in Calls, Step(c)
  PROVE  /\ Alone'
         /\ \A d \in Calls \ {c} : svc[d] = svc[c] => ~InFlight(d) /\ ~InFlight(d)'
<1>1. \A d \in Calls \ {c} : svc[d] = svc[c] => ~InFlight(d)
  BY Begun DEF Begin, Alone
<1>2. \A d \in Calls \ {c} : InFlight(d)' <=> InFlight(d)
  BY Frame DEF InFlight
<1> QED
  BY <1>1, <1>2, Frame DEF Alone

\* With nobody else on its service, a call knows whether the entry is leaving.
LEMMA OwnEntry ==
  ASSUME OneOperator, BaseInv, Alone, NEW c \in Calls, Step(c)
  PROVE  /\ entry(svc[c]) = IF pc[c] = "unregister" THEN None ELSE registry[svc[c]]
         /\ entry(svc[c])' = IF pc'[c] = "unregister" THEN None ELSE registry'[svc[c]]
<1>1. Leaving(svc[c]) <=> pc[c] = "unregister"
  BY AloneStep DEF Leaving, InFlight
<1>2. Leaving(svc[c])' <=> pc'[c] = "unregister"
  BY AloneStep, Frame DEF Leaving, InFlight
<1> QED
  BY <1>1, <1>2, Frame DEF entry

LEMMA ReadStep ==
  ASSUME OneOperator, BaseInv, Alone, \A d \in Calls : ReadHolds(d), NEW c \in Calls, Step(c)
  PROVE  \A d \in Calls : ReadHolds(d)'
<1> USE DEF BaseInv, TypeOK
<1>1. ASSUME NEW d \in Calls \ {c} PROVE ReadHolds(d)'
  BY <1>1, Frame, AloneStep DEF ReadHolds, InFlight
<1>2. ReadHolds(c)'
  <2>1. CASE Begin(c)
    BY <2>1 DEF Begin, ReadHolds
  <2>2. CASE Commit(c)
    BY <2>2 DEF Commit, Goto, ReadHolds, InFlight
  <2>3. CASE Unregister(c)
    BY <2>3 DEF Unregister, Goto, ReadHolds, InFlight
  <2>4. CASE NextId(c) \/ Create(c) \/ StartContainer(c) \/ ProvisionFails(c) \/ Teardown(c)
    BY <2>4 DEF NextId, Create, StartContainer, ProvisionFails, Teardown, Goto, ReadHolds, InFlight,
                afterTaken
  <2>5. CASE StopOld(c) \/ DeleteOld(c) \/ Act(c)
    BY <2>5 DEF StopOld, DeleteOld, Act, Goto, ReadHolds, InFlight, afterDelete
  <2> QED
    BY <2>1, <2>2, <2>3, <2>4, <2>5 DEF Step
<1> QED
  BY <1>1, <1>2

-----------------------------------------------------------------------------
(* How the claims of a call c and of its service i move *)

\* The step drops some of its claims, and deletes what it drops at most.
Drops(c, i) ==
    /\ entry(i)' \in {entry(i), None}
    /\ fresh(c)' \in {fresh(c), None}
    /\ spare(c)' \in {spare(c), None}
    /\ \A n \in Containers : ctr[n] # "absent" /\ ctr'[n] = "absent" =>
          \/ n = entry(i) /\ entry(i)' = None
          \/ n = fresh(c) /\ fresh(c)' = None
          \/ n = spare(c) /\ spare(c)' = None

\* The step takes an absent container and creates it.
Takes(c, i) ==
    /\ entry(i)' = entry(i) /\ spare(c)' = spare(c)
    /\ fresh(c) = None /\ fresh(c)' \in Containers
    /\ ctr[fresh(c)'] = "absent"
    /\ ctr' = [ctr EXCEPT ![fresh(c)'] = "stopped"]

\* The step registers what it provisioned; what was registered may be spare.
Switches(c, i) ==
    /\ entry(i)' = fresh(c) /\ fresh(c)' = None
    /\ spare(c) = None /\ spare(c)' \in {None, entry(i)}
    /\ ctr' = ctr

LEMMA Moves ==
  ASSUME OneOperator, BaseInv, Alone, NEW c \in Calls, NEW i \in Ids, i = svc[c],
         ReadHolds(c), Step(c), cutOff' = {}
  PROVE  Drops(c, i) \/ Takes(c, i) \/ Switches(c, i)
<1> USE DEF BaseInv
<1>e. /\ entry(i) = IF pc[c] = "unregister" THEN None ELSE registry[i]
      /\ entry(i)' = IF pc'[c] = "unregister" THEN None ELSE registry'[i]
  BY OwnEntry, Frame
<1>op. op[c] \in {"spawn", "redeploy", "destroy", "stop", "start"}
  BY ServiceOpsAssumption DEF TypeOK
<1>pc. pc \in [Calls -> {"idle", "nextid", "create", "provision", "gating", "teardown",
                         "stop", "delete", "unregister", "act", "over"}]
  BY DEF TypeOK
<1>ctr. ctr \in [Containers -> {"absent", "stopped", "running"}]
  BY DEF TypeOK
<1>1. CASE Begin(c)
  <2>1. pc'[c] \in {"nextid", "stop", "act"} /\ (pc'[c] = "stop" => op[c] # "redeploy")
    BY <1>1, <1>op, <1>pc DEF Begin, Goto, firstStep
  <2> QED
    BY <1>1, <1>e, <2>1 DEF Begin, Drops, fresh, spare
<1>2. CASE NextId(c)
  BY <1>2, <1>e, <1>pc DEF NextId, Goto, Drops, fresh, spare
<1>3. CASE Create(c)
  <2>1. new[c] \in Containers
    BY <1>3 DEF Create, TypeOK
  <2>2. CASE pc' = [pc EXCEPT ![c] = "over"] /\ ctr' = ctr
    BY <1>3, <2>2, <1>e, <1>pc DEF Create, Drops, fresh, spare
  <2>3. CASE /\ pc' = [pc EXCEPT ![c] = "provision"]
             /\ ctr[new[c]] = "absent" /\ ctr' = [ctr EXCEPT ![new[c]] = "stopped"]
    BY <1>3, <2>1, <2>3, <1>e, <1>pc DEF Create, Takes, fresh, spare
  <2> QED
    BY <1>3, <2>2, <2>3 DEF Create, Goto, afterTaken
<1>4. CASE StartContainer(c)
  <2>1. \A n \in Containers : ctr'[n] = "absent" => ctr[n] = "absent"
    BY <1>4, <1>ctr DEF StartContainer
  <2> QED
    BY <1>4, <1>e, <1>pc, <2>1 DEF StartContainer, Goto, Drops, fresh, spare
<1>5. CASE ProvisionFails(c)
  BY <1>5, <1>e, <1>pc DEF ProvisionFails, Goto, Drops, fresh, spare
<1>6. CASE Teardown(c)
  <2>1. \A n \in Containers : ctr'[n] = "absent" => ctr[n] = "absent" \/ n = new[c]
    BY <1>6, <1>ctr DEF Teardown, halted
  <2> QED
    BY <1>6, <1>e, <1>pc, <2>1 DEF Teardown, Goto, Drops, fresh, spare
<1>7. CASE Commit(c)
  <2>1. CASE registry' = registry /\ pc' = [pc EXCEPT ![c] = "teardown"]
    BY <1>7, <1>e, <1>pc, <2>1 DEF Commit, Drops, fresh, spare
  <2>2. CASE /\ registry' = [registry EXCEPT ![i] = new[c]]
             /\ pc' = [pc EXCEPT ![c] = IF op[c] = "redeploy" THEN "stop" ELSE "over"]
    <3>1. registry[i] = old[c] /\ registry'[i] = new[c]
      BY <1>7, <2>2 DEF Commit, ReadHolds, InFlight, TypeOK
    <3>2. pc'[c] = IF op[c] = "redeploy" THEN "stop" ELSE "over"
      BY <2>2, <1>pc
    <3>3. /\ pc[c] = "gating" /\ op' = op /\ old' = old /\ new' = new /\ ctr' = ctr
      BY <1>7 DEF Commit
    <3> QED
      BY <1>e, <3>1, <3>2, <3>3 DEF Switches, fresh, spare
  <2> QED
    BY <1>7, <2>1, <2>2 DEF Commit, Goto
<1>8. CASE StopOld(c)
  <2>1. \A n \in Containers : ctr'[n] = "absent" => ctr[n] = "absent"
    BY <1>8, <1>ctr DEF StopOld, halted
  <2> QED
    BY <1>8, <1>e, <1>pc, <2>1 DEF StopOld, Goto, Drops, fresh, spare
<1>9. CASE DeleteOld(c)
  <2>1. pc[c] = "delete" /\ op' = op /\ old' = old /\ new' = new /\ registry' = registry
    BY <1>9 DEF DeleteOld
  <2>2. op[c] \in {"redeploy", "destroy"} /\ (op[c] = "destroy" => registry[i] = old[c])
    BY <2>1 DEF AtWork, ReadHolds, InFlight
  <2>3. CASE ctr' = ctr /\ pc' = [pc EXCEPT ![c] = "over"]
    BY <1>e, <1>pc, <2>1, <2>2, <2>3 DEF Drops, fresh, spare
  <2>4. CASE /\ ctr' = [ctr EXCEPT ![old[c]] = "absent"]
             /\ pc' = [pc EXCEPT ![c] = afterDelete(op[c])]
    <3>1. \A n \in Containers : ctr'[n] = "absent" => ctr[n] = "absent" \/ n = old[c]
      BY <1>ctr, <2>4
    <3>2. pc'[c] = IF op[c] = "destroy" THEN "unregister" ELSE "over"
      BY <1>pc, <2>4 DEF afterDelete
    <3> QED
      BY <1>e, <2>1, <2>2, <3>1, <3>2 DEF Drops, fresh, spare
  <2> QED
    BY <1>9, <2>3, <2>4 DEF DeleteOld, Goto, retired
<1>10. CASE Unregister(c)
  <2>1. registry' = [registry EXCEPT ![i] = None]
    BY <1>10 DEF Unregister
  <2>2. registry'[i] = None
    BY <2>1 DEF TypeOK
  <2> QED
    BY <1>10, <1>e, <1>pc, <2>2 DEF Unregister, Goto, Drops, fresh, spare
<1>11. CASE Act(c)
  <2>1. \A n \in Containers : ctr'[n] = "absent" => ctr[n] = "absent"
    <3>1. op[c] \in {"stop", "start"}
      BY <1>11 DEF Act, AtWork
    <3> QED
      BY <1>11, <1>ctr, <3>1 DEF Act
  <2> QED
    BY <1>11, <1>e, <1>pc, <2>1 DEF Act, Goto, Drops, fresh, spare
<1> QED
  BY <1>1, <1>2, <1>3, <1>4, <1>5, <1>6, <1>7, <1>8, <1>9, <1>10, <1>11 DEF Step

LEMMA ClaimTypes ==
  ASSUME BaseInv
  PROVE  /\ \A i \in Ids : entry(i) \in Containers \cup {None}
         /\ \A c \in Calls : fresh(c) \in Containers \cup {None} /\ spare(c) \in Containers \cup {None}
BY DEF BaseInv, TypeOK, entry, fresh, spare

LEMMA NoneIsNoContainer == None \notin Containers
BY DEF None, Containers

\* Whatever way the claims move, they stay distinct and live.
LEMMA MovesKeepClaims ==
  ASSUME BaseInv, NEW c \in Calls, NEW e \in Ids, e = svc[c], Step(c),
         ClaimsAreLive, ClaimsAreDistinct,
         Drops(c, e) \/ Takes(c, e) \/ Switches(c, e)
  PROVE  ClaimsAreLive' /\ ClaimsAreDistinct'
<1>1. /\ \A d \in Calls : d # c => fresh(d)' = fresh(d) /\ spare(d)' = spare(d)
      /\ \A i \in Ids : i # e => entry(i)' = entry(i)
  BY FrameClaims
<1>2. ctr \in [Containers -> {"absent", "stopped", "running"}]
  BY DEF BaseInv, TypeOK
<1>3. CASE Drops(c, e)
  <2>1. /\ \A i \in Ids : entry(i)' \in {entry(i), None}
        /\ \A d \in Calls : fresh(d)' \in {fresh(d), None} /\ spare(d)' \in {spare(d), None}
    BY <1>1, <1>3 DEF Drops
  <2>2. ClaimsAreDistinct'
    <3>1. \A i, j \in Ids : i # j /\ entry(i)' # None => entry(i)' # entry(j)'
      BY <2>1 DEF ClaimsAreDistinct
    <3>2. \A b, d \in Calls : b # d /\ fresh(b)' # None => fresh(b)' # fresh(d)'
      BY <2>1 DEF ClaimsAreDistinct
    <3>3. \A b, d \in Calls : b # d /\ spare(b)' # None => spare(b)' # spare(d)'
      BY <2>1 DEF ClaimsAreDistinct
    <3>4. \A i \in Ids, d \in Calls : entry(i)' # None => entry(i)' # fresh(d)' /\ entry(i)' # spare(d)'
      BY <2>1 DEF ClaimsAreDistinct
    <3>5. \A b, d \in Calls : fresh(b)' # None => fresh(b)' # spare(d)'
      BY <2>1 DEF ClaimsAreDistinct
    <3> QED
      BY <3>1, <3>2, <3>3, <3>4, <3>5 DEF ClaimsAreDistinct
  <2>3. \A n \in Containers : ctr[n] # "absent" /\ ctr'[n] = "absent" =>
             \/ n = entry(e) /\ entry(e)' = None
             \/ n = fresh(c) /\ fresh(c)' = None
             \/ n = spare(c) /\ spare(c)' = None
    BY <1>3 DEF Drops
  <2>4. ASSUME NEW i \in Ids PROVE Live(entry(i))'
    <3>1. entry(i)' # None => entry(i) \in Containers /\ entry(i)' = entry(i)
      BY <2>1, ClaimTypes
    <3> QED
      BY <2>3, <3>1 DEF ClaimsAreLive, ClaimsAreDistinct, Live
  <2>5. ASSUME NEW d \in Calls PROVE Live(fresh(d))' /\ Live(spare(d))'
    <3>1. /\ fresh(d)' # None => fresh(d) \in Containers /\ fresh(d)' = fresh(d)
          /\ spare(d)' # None => spare(d) \in Containers /\ spare(d)' = spare(d)
      BY <2>1, ClaimTypes
    <3>2. Live(fresh(d))'
      BY <2>3, <3>1 DEF ClaimsAreLive, ClaimsAreDistinct, Live
    <3>3. Live(spare(d))'
      BY <2>3, <3>1 DEF ClaimsAreLive, ClaimsAreDistinct, Live
    <3> QED
      BY <3>2, <3>3
  <2> QED
    BY <2>2, <2>4, <2>5 DEF ClaimsAreLive
<1>4. CASE Takes(c, e)
  <2> DEFINE n == fresh(c)'
  <2>1. /\ \A i \in Ids : entry(i)' = entry(i)
        /\ \A d \in Calls : spare(d)' = spare(d)
        /\ \A d \in Calls : fresh(d)' = IF d = c THEN n ELSE fresh(d)
    BY <1>1, <1>4 DEF Takes
  <2>2. n \in Containers /\ ctr[n] = "absent" /\ n # None
    BY <1>4, NoneIsNoContainer DEF Takes
  <2>3. \A m \in Containers : ctr'[m] = "absent" => ctr[m] = "absent" /\ m # n
    BY <1>2, <1>4, <2>2 DEF Takes
  <2> HIDE DEF n
  <2>4. /\ \A i \in Ids : entry(i) # n
        /\ \A d \in Calls : fresh(d) # n /\ spare(d) # n
    BY <2>2 DEF ClaimsAreLive, Live
  <2>5. ClaimsAreDistinct'
    BY <2>1, <2>4 DEF ClaimsAreDistinct
  <2>6. ClaimsAreLive'
    BY <2>1, <2>2, <2>3, ClaimTypes DEF ClaimsAreLive, Live
  <2> QED
    BY <2>5, <2>6
<1>5. CASE Switches(c, e)
  <2>1. /\ \A i \in Ids : entry(i)' = IF i = e THEN fresh(c) ELSE entry(i)
        /\ \A d \in Calls : fresh(d)' = IF d = c THEN None ELSE fresh(d)
        /\ \A d \in Calls : d # c => spare(d)' = spare(d)
        /\ spare(c)' \in {None, entry(e)} /\ ctr' = ctr
    BY <1>1, <1>5 DEF Switches
  <2>2. ClaimsAreDistinct'
    <3>1. \A i, j \in Ids : i # j /\ entry(i)' # None => entry(i)' # entry(j)'
      BY <2>1 DEF ClaimsAreDistinct
    <3>2. \A b, d \in Calls : b # d /\ fresh(b)' # None => fresh(b)' # fresh(d)'
      BY <2>1 DEF ClaimsAreDistinct
    <3>3. \A b, d \in Calls : b # d /\ spare(b)' # None => spare(b)' # spare(d)'
      BY <2>1 DEF ClaimsAreDistinct
    <3>4. \A i \in Ids, d \in Calls : entry(i)' # None => entry(i)' # fresh(d)' /\ entry(i)' # spare(d)'
      BY <2>1 DEF ClaimsAreDistinct
    <3>5. \A b, d \in Calls : fresh(b)' # None => fresh(b)' # spare(d)'
      BY <2>1 DEF ClaimsAreDistinct
    <3> QED
      BY <3>1, <3>2, <3>3, <3>4, <3>5 DEF ClaimsAreDistinct
  <2>3. ClaimsAreLive'
    BY <2>1 DEF ClaimsAreLive, Live
  <2> QED
    BY <2>2, <2>3
<1> QED
  BY <1>3, <1>4, <1>5

\* A crash ends every call.  What it cuts off has no claim left, unless a
\* destroy was between its two writes.
LEMMA CrashKeepsClaims == ASSUME BaseInv, Claims, Crash PROVE Claims'
<1> SUFFICES ASSUME cutOff' = {} PROVE ClaimsAreLive' /\ ClaimsAreDistinct'
  BY DEF Claims
<1>1. cutOff = {} /\ \A c \in Calls : pc[c] # "unregister"
  BY DEF Crash
<1>2. \A c \in Calls : pc'[c] \in {"idle", "over"}
  BY DEF Crash, InFlight, BaseInv, TypeOK
<1>3. \A i \in Ids : entry(i)' = entry(i)
  BY <1>1, <1>2 DEF entry, Leaving, Crash
<1>4. \A c \in Calls : fresh(c)' = None /\ spare(c)' = None
  BY <1>2 DEF fresh, spare
<1>5. ctr' = ctr
  BY DEF Crash
<1>6. ClaimsAreLive'
  BY <1>1, <1>3, <1>4, <1>5 DEF Claims, ClaimsAreLive, Live
<1>7. ClaimsAreDistinct'
  BY <1>1, <1>3, <1>4 DEF Claims, ClaimsAreDistinct
<1> QED
  BY <1>6, <1>7

LEMMA ClaimsStep ==
  ASSUME OneOperator, BaseInv, Alone, \A d \in Calls : ReadHolds(d), Claims,
         NEW c \in Calls, Step(c)
  PROVE  Claims'
<1> SUFFICES ASSUME cutOff' = {} PROVE ClaimsAreLive' /\ ClaimsAreDistinct'
  BY DEF Claims
<1>1. cutOff = {}
  BY DEF Step, Begin, NextId, Create, StartContainer, ProvisionFails, Teardown, Commit,
         StopOld, DeleteOld, Unregister, Act
<1>2. PICK i \in Ids : i = svc[c]
  BY DEF BaseInv, TypeOK
<1>3. Drops(c, i) \/ Takes(c, i) \/ Switches(c, i)
  BY <1>2, Moves
<1> QED
  BY <1>1, <1>2, <1>3, MovesKeepClaims DEF Claims

-----------------------------------------------------------------------------
(* Who accounts for a running container *)

\* A container that loses a claim of the call c or of its service i gets
\* another one, is named, is recorded as abandoned, or runs no longer; and a
\* container that starts to run is claimed.
Accounts(c, i, n) ==
    /\ ctr'[n] = "running" => ctr[n] = "running" \/ n = fresh(c)' \/ n = entry(i)'
    /\ n = entry(i) => n = entry(i)' \/ n = spare(c)' \/ ctr'[n] # "running"
    /\ n = fresh(c) => n = fresh(c)' \/ n = entry(i)' \/ n \in abandoned' \/ ctr'[n] # "running"
    /\ n = spare(c) => n = spare(c)' \/ n \in warned' \/ ctr'[n] # "running"
    /\ n \in warned \cup abandoned => n \in warned' \cup abandoned' \/ n = fresh(c)'

LEMMA StepAccounts ==
  ASSUME OneOperator, BaseInv, Alone, NEW c \in Calls, NEW i \in Ids, i = svc[c],
         ReadHolds(c), Step(c), NEW n \in Containers
  PROVE  Accounts(c, i, n)
<1> USE DEF BaseInv
<1>e. /\ entry(i) = IF pc[c] = "unregister" THEN None ELSE registry[i]
      /\ entry(i)' = IF pc'[c] = "unregister" THEN None ELSE registry'[i]
  BY OwnEntry, Frame
<1>n. n # None
  BY NoneIsNoContainer
<1>op. op[c] \in {"spawn", "redeploy", "destroy", "stop", "start"}
  BY ServiceOpsAssumption DEF TypeOK
<1>pc. pc \in [Calls -> {"idle", "nextid", "create", "provision", "gating", "teardown",
                         "stop", "delete", "unregister", "act", "over"}]
  BY DEF TypeOK
<1>ctr. ctr \in [Containers -> {"absent", "stopped", "running"}]
  BY DEF TypeOK
<1>1. CASE Begin(c)
  <2>1. pc[c] = "idle" /\ pc'[c] \in {"nextid", "stop", "act"}
    BY <1>1, <1>op, <1>pc DEF Begin, Goto, firstStep
  <2> QED
    BY <1>1, <1>e, <1>n, <2>1 DEF Begin, Accounts, fresh, spare
<1>2. CASE NextId(c)
  BY <1>2, <1>e, <1>n, <1>pc DEF NextId, Goto, Accounts, fresh, spare
<1>3. CASE Create(c)
  <2>1. pc[c] = "create" /\ registry' = registry /\ pc'[c] \in {"provision", "over"}
    BY <1>3, <1>pc DEF Create, Goto, afterTaken
  <2>2. ctr'[n] = "running" => ctr[n] = "running"
    BY <1>3, <1>ctr DEF Create
  <2>3. n \in warned \cup abandoned => n \in warned' \cup abandoned' \/ n = fresh(c)'
    BY <1>3, <1>pc DEF Create, Goto, fresh
  <2> QED
    BY <1>e, <1>n, <2>1, <2>2, <2>3 DEF Accounts, fresh, spare
<1>4. CASE StartContainer(c)
  <2>1. ctr'[n] = "running" => ctr[n] = "running" \/ n = new[c]
    BY <1>4, <1>ctr DEF StartContainer
  <2> QED
    BY <1>4, <1>e, <1>n, <1>pc, <2>1 DEF StartContainer, Goto, Accounts, fresh, spare
<1>5. CASE ProvisionFails(c)
  BY <1>5, <1>e, <1>n, <1>pc DEF ProvisionFails, Goto, Accounts, fresh, spare
<1>6. CASE Teardown(c)
  <2>1. /\ ctr'[n] = "running" => ctr[n] = "running"
        /\ n = new[c] => n \in abandoned' \/ ctr'[n] # "running"
        /\ n \in abandoned => n \in abandoned'
    BY <1>6, <1>ctr DEF Teardown, halted
  <2> QED
    BY <1>6, <1>e, <1>n, <1>pc, <2>1 DEF Teardown, Goto, Accounts, fresh, spare
<1>7. CASE Commit(c)
  <2>1. CASE registry' = registry /\ pc' = [pc EXCEPT ![c] = "teardown"]
    BY <1>7, <1>e, <1>n, <1>pc, <2>1 DEF Commit, Accounts, fresh, spare
  <2>2. CASE /\ registry' = [registry EXCEPT ![i] = new[c]]
             /\ pc' = [pc EXCEPT ![c] = IF op[c] = "redeploy" THEN "stop" ELSE "over"]
             /\ registers(c)
    <3>1. registry[i] = old[c] /\ registry'[i] = new[c]
      BY <1>7, <2>2 DEF Commit, ReadHolds, InFlight, TypeOK
    <3>2. pc'[c] = IF op[c] = "redeploy" THEN "stop" ELSE "over"
      BY <2>2, <1>pc
    <3>3. /\ pc[c] = "gating" /\ op' = op /\ old' = old /\ new' = new /\ ctr' = ctr
          /\ warned' = warned /\ abandoned' = abandoned
      BY <1>7 DEF Commit
    <3>4. op[c] \in {"spawn", "redeploy"} /\ (op[c] = "spawn" => registry[i] = None)
      BY <2>2, <3>3 DEF AtWork, registers, admits
    <3> QED
      BY <1>e, <1>n, <3>1, <3>2, <3>3, <3>4 DEF Accounts, fresh, spare
  <2> QED
    BY <1>7, <2>1, <2>2 DEF Commit, Goto
<1>8. CASE StopOld(c)
  <2>1. ctr'[n] = "running" => ctr[n] = "running"
    BY <1>8, <1>ctr DEF StopOld, halted
  <2> QED
    BY <1>8, <1>e, <1>n, <1>pc, <2>1 DEF StopOld, Goto, Accounts, fresh, spare
<1>9. CASE DeleteOld(c)
  <2>1. /\ pc[c] = "delete" /\ op' = op /\ old' = old /\ new' = new /\ registry' = registry
        /\ abandoned' = abandoned
    BY <1>9 DEF DeleteOld
  <2>2. op[c] \in {"redeploy", "destroy"} /\ (op[c] = "destroy" => registry[i] = old[c])
    BY <2>1 DEF AtWork, ReadHolds, InFlight
  <2>3. CASE ctr' = ctr /\ pc' = [pc EXCEPT ![c] = "over"] /\ warn(c)
    <3>1. warned \subseteq warned' /\ (op[c] = "redeploy" => old[c] \in warned')
      BY <2>3 DEF warn, retired
    <3> QED
      BY <1>e, <1>n, <1>pc, <2>1, <2>2, <2>3, <3>1 DEF Accounts, fresh, spare
  <2>4. CASE /\ ctr' = [ctr EXCEPT ![old[c]] = "absent"] /\ warned' = warned
             /\ pc' = [pc EXCEPT ![c] = afterDelete(op[c])]
    <3>1. (ctr'[n] = "running" => ctr[n] = "running") /\ (n = old[c] => ctr'[n] # "running")
      BY <1>ctr, <2>4
    <3>2. pc'[c] = IF op[c] = "destroy" THEN "unregister" ELSE "over"
      BY <1>pc, <2>4 DEF afterDelete
    <3> QED
      BY <1>e, <1>n, <2>1, <2>2, <2>4, <3>1, <3>2 DEF Accounts, fresh, spare
  <2> QED
    BY <1>9, <2>3, <2>4 DEF DeleteOld, Goto, retired
<1>10. CASE Unregister(c)
  BY <1>10, <1>e, <1>n, <1>pc DEF Unregister, Goto, Accounts, fresh, spare
<1>11. CASE Act(c)
  <2>1. pc[c] = "act" /\ registry[i] = old[c] /\ registry' = registry
    BY <1>11 DEF Act, ReadHolds, InFlight
  <2>2. op[c] \in {"stop", "start"}
    BY <2>1 DEF AtWork
  <2>3. ctr'[n] = "running" => ctr[n] = "running" \/ n = old[c]
    BY <1>11, <1>ctr, <2>2 DEF Act
  <2> QED
    BY <1>11, <1>e, <1>n, <1>pc, <2>1, <2>3 DEF Act, Goto, Accounts, fresh, spare
<1> QED
  BY <1>1, <1>2, <1>3, <1>4, <1>5, <1>6, <1>7, <1>8, <1>9, <1>10, <1>11 DEF Step

LEMMA RunningStep ==
  ASSUME OneOperator, BaseInv, Alone, \A d \in Calls : ReadHolds(d), RunningIsAccounted,
         NEW c \in Calls, Step(c)
  PROVE  RunningIsAccounted'
<1> SUFFICES ASSUME NEW n \in Containers, ctr'[n] = "running" PROVE Accounted(n)'
  BY DEF RunningIsAccounted
<1>1. PICK i \in Ids : i = svc[c]
  BY DEF BaseInv, TypeOK
<1>2. Accounts(c, i, n)
  BY <1>1, StepAccounts
<1>3. /\ \A d \in Calls : d # c => fresh(d)' = fresh(d) /\ spare(d)' = spare(d)
      /\ \A j \in Ids : j # i => entry(j)' = entry(j)
  BY <1>1, FrameClaims
<1>4. CASE ctr[n] # "running"
  BY <1>2, <1>4 DEF Accounts, Accounted
<1>5. CASE ctr[n] = "running"
  <2>1. Accounted(n)
    BY <1>5 DEF RunningIsAccounted
  <2>2. ASSUME NEW j \in Ids, entry(j) = n PROVE Accounted(n)'
    BY <1>2, <1>3, <2>2 DEF Accounts, Accounted
  <2>3. ASSUME NEW d \in Calls, fresh(d) = n \/ spare(d) = n PROVE Accounted(n)'
    BY <1>2, <1>3, <2>3 DEF Accounts, Accounted
  <2>4. ASSUME n \in warned \cup abandoned PROVE Accounted(n)'
    BY <1>2, <2>4 DEF Accounts, Accounted
  <2> QED
    BY <2>1, <2>2, <2>3, <2>4 DEF Accounted
<1> QED
  BY <1>4, <1>5

\* A crash records what the calls it ends had provisioned or replaced, and an
\* entry whose removal it prevents is an entry again.
LEMMA CrashAccounts == ASSUME BaseInv, RunningIsAccounted, Crash PROVE RunningIsAccounted'
<1> SUFFICES ASSUME NEW n \in Containers, ctr[n] = "running" PROVE Accounted(n)'
  BY DEF RunningIsAccounted, Crash
<1>0. n # None
  BY NoneIsNoContainer
<1>1. \A c \in Calls : pc'[c] \in {"idle", "over"}
  BY DEF Crash, InFlight, BaseInv, TypeOK
<1>2. warned' = warned /\ abandoned \subseteq abandoned' /\ registry' = registry
  BY DEF Crash
<1>3. ASSUME NEW i \in Ids, entry(i) = n PROVE entry(i)' = n
  BY <1>0, <1>1, <1>2, <1>3 DEF entry, Leaving
<1>4. ASSUME NEW c \in Calls, fresh(c) = n \/ spare(c) = n PROVE n \in abandoned'
  BY <1>0, <1>4 DEF Crash, fresh, spare
<1>5. Accounted(n)
  BY DEF RunningIsAccounted
<1> QED
  BY <1>2, <1>3, <1>4, <1>5 DEF Accounted

-----------------------------------------------------------------------------
(* The inductive invariant *)

LEMMA OpsInit == Init => OpsInv
<1> SUFFICES ASSUME Init PROVE OpsInv
  OBVIOUS
<1>0. BaseInv
  BY BaseInit
<1>1. \A c \in Calls : pc[c] = "idle" /\ ~InFlight(c)
  BY DEF Init, InFlight
<1>2. Alone /\ \A c \in Calls : ReadHolds(c)
  BY <1>1 DEF Alone, ReadHolds
<1>3. /\ \A i \in Ids : entry(i) = Initial[i]
      /\ \A c \in Calls : fresh(c) = None /\ spare(c) = None
  BY <1>1 DEF Init, entry, fresh, spare, Leaving
<1>4. \A n \in Containers : ctr[n] = IF \E i \in Ids : Initial[i] = n THEN "running" ELSE "absent"
  BY DEF Init
<1>5. Claims
  <2>1. ClaimsAreDistinct
    BY <1>3, ServiceOpsAssumption DEF ClaimsAreDistinct
  <2>2. ClaimsAreLive
    BY <1>3, <1>4, ServiceOpsAssumption DEF ClaimsAreLive, Live
  <2> QED
    BY <2>1, <2>2 DEF Claims
<1>6. RunningIsAccounted
  BY <1>3, <1>4 DEF RunningIsAccounted, Accounted
<1> QED
  BY <1>0, <1>2, <1>5, <1>6 DEF OpsInv

LEMMA OpsStep == ASSUME OneOperator, OpsInv, [Next]_vars PROVE OpsInv'
<1> USE DEF OpsInv
<1>0. BaseInv'
  BY BaseStep
<1>1. CASE Crash
  <2>1. \A c \in Calls : ~InFlight(c)'
    BY <1>1 DEF Crash, InFlight, BaseInv, TypeOK
  <2>2. Alone' /\ \A c \in Calls : ReadHolds(c)'
    BY <2>1 DEF Alone, ReadHolds
  <2> QED
    BY <1>0, <1>1, <2>2, CrashKeepsClaims, CrashAccounts
<1>2. ASSUME NEW c \in Calls, Step(c) PROVE OpsInv'
  BY <1>0, <1>2, AloneStep, ReadStep, ClaimsStep, RunningStep
<1>3. CASE UNCHANGED vars
  <2>1. Alone' /\ \A c \in Calls : ReadHolds(c)'
    BY <1>3 DEF vars, Alone, InFlight, ReadHolds
  <2>2. /\ \A i \in Ids : entry(i)' = entry(i)
        /\ \A c \in Calls : fresh(c)' = fresh(c) /\ spare(c)' = spare(c)
    BY <1>3 DEF vars, entry, fresh, spare, Leaving
  <2>3. Claims'
    BY <1>3, <2>2 DEF vars, Claims, ClaimsAreLive, ClaimsAreDistinct, Live
  <2>4. RunningIsAccounted'
    BY <1>3, <2>2 DEF vars, RunningIsAccounted, Accounted
  <2> QED
    BY <1>0, <2>1, <2>3, <2>4
<1> QED
  BY <1>1, <1>2, <1>3 DEF Next, Step

LEMMA OpsInvariant == ASSUME OneOperator PROVE Spec => []OpsInv
BY OpsInit, OpsStep, PTL DEF Spec

-----------------------------------------------------------------------------
(* What a deployment promises *)

\* No path leaves a running container silently unregistered: it is used, about
\* to be deleted, named by a redeploy's warning, or left by a rollback that
\* failed or by a crash (ops.ts:154-162).
THEOREM NoOrphans == ASSUME OneOperator PROVE Spec => []NoSilentOrphan
<1>1. OpsInv => NoSilentOrphan
  <2> SUFFICES ASSUME OpsInv, NEW n \in Containers, ctr[n] = "running"
               PROVE  UsedBy(n) # {} \/ Retiring(n) \/ n \in warned \cup abandoned
    BY DEF NoSilentOrphan
  <2>0. n # None
    BY NoneIsNoContainer
  <2>1. ASSUME NEW i \in Ids, entry(i) = n PROVE i \in UsedBy(n)
    BY <2>0, <2>1 DEF entry, UsedBy
  <2>2. ASSUME NEW c \in Calls, fresh(c) = n PROVE svc[c] \in UsedBy(n)
    BY <2>0, <2>2 DEF fresh, UsedBy
  <2>3. ASSUME NEW c \in Calls, spare(c) = n PROVE Retiring(n)
    BY <2>0, <2>3 DEF spare, Retiring
  <2> QED
    BY <2>1, <2>2, <2>3 DEF OpsInv, RunningIsAccounted, Accounted
<1> QED
  BY <1>1, OpsInvariant, PTL

\* The entry of a service names a container that exists and that no other
\* service uses, although Proxmox hands the ids of deleted containers out again
\* (lxc.ts), until a destroy is cut off before it drops its entry.
THEOREM EntriesStayLive == ASSUME OneOperator PROVE Spec => []EntriesNameLiveContainers
<1>1. OpsInv => EntriesNameLiveContainers
  <2> SUFFICES ASSUME OpsInv, cutOff = {}, NEW i \in Ids, registry[i] # None, ~Leaving(i)
               PROVE  /\ ctr[registry[i]] # "absent"
                      /\ \A j \in UsedBy(registry[i]) : j = i \/ Leaving(j)
    BY DEF EntriesNameLiveContainers
  <2>0. entry(i) = registry[i] /\ ClaimsAreLive /\ ClaimsAreDistinct
    BY DEF entry, OpsInv, Claims
  <2>1. ctr[registry[i]] # "absent"
    BY <2>0 DEF ClaimsAreLive, Live
  <2>2. ASSUME NEW j \in Ids, registry[j] = registry[i] PROVE j = i \/ Leaving(j)
    BY <2>0, <2>2 DEF ClaimsAreDistinct, entry
  <2>3. ASSUME NEW c \in Calls, new[c] = registry[i], pc[c] \in {"provision", "gating", "teardown"}
        PROVE  FALSE
    BY <2>0, <2>3 DEF ClaimsAreDistinct, fresh
  <2> QED
    BY <2>1, <2>2, <2>3 DEF UsedBy
<1> QED
  BY <1>1, OpsInvariant, PTL

\* The containers a step deletes are claimed by its call or by its service.
LEMMA DeletesClaimed ==
  ASSUME OneOperator, BaseInv, Alone, NEW c \in Calls, NEW i \in Ids, i = svc[c],
         ReadHolds(c), Step(c), cutOff = {},
         NEW n \in Containers, ctr[n] # "absent", ctr'[n] = "absent"
  PROVE  n \in {entry(i), fresh(c), spare(c)}
<1>1. CASE Unregister(c)
  BY <1>1 DEF Unregister
<1>2. CASE ~Unregister(c)
  <2>1. cutOff' = {}
    BY <1>2 DEF Step, Begin, NextId, Create, StartContainer, ProvisionFails, Teardown, Commit,
                StopOld, DeleteOld, Act
  <2>2. ctr \in [Containers -> {"absent", "stopped", "running"}]
    BY DEF BaseInv, TypeOK
  <2> QED
    BY <2>1, <2>2, Moves DEF Drops, Takes, Switches
<1> QED
  BY <1>1, <1>2

\* A rollback and the retirement of an old container delete no container that
\* another service uses (ops.ts:102-117, 165-175).
THEOREM NoForeignDelete == ASSUME OneOperator PROVE Spec => DeletesOnlyItsOwn
<1>1. OpsInv /\ [Next]_vars =>
        [cutOff = {} => \A n \in Containers : ctr[n] # "absent" /\ ctr'[n] = "absent" =>
            \A i \in UsedBy(n) :
                Leaving(i) \/ \E c \in Calls : svc[c] = i /\ pc'[c] # pc[c]]_vars
  <2> SUFFICES ASSUME OpsInv, Next, cutOff = {},
                      NEW n \in Containers, ctr[n] # "absent", ctr'[n] = "absent",
                      NEW i \in UsedBy(n)
               PROVE  Leaving(i) \/ \E c \in Calls : svc[c] = i /\ pc'[c] # pc[c]
    OBVIOUS
  <2>0. ClaimsAreDistinct /\ n # None
    BY NoneIsNoContainer DEF OpsInv, Claims
  <2>1. ~Crash
    BY DEF Crash
  <2>2. PICK c \in Calls : Step(c)
    BY <2>1 DEF Next, Step
  <2>3. PICK k \in Ids : k = svc[c]
    BY DEF OpsInv, BaseInv, TypeOK
  <2>4. n \in {entry(k), fresh(c), spare(c)}
    BY <2>2, <2>3, DeletesClaimed DEF OpsInv
  <2>5. pc'[c] # pc[c]
    BY <2>2, Frame DEF OpsInv
  <2>6. CASE registry[i] = n /\ i \in Ids
    <3>1. Leaving(i) \/ entry(i) = n
      BY <2>6 DEF entry
    <3>2. entry(i) = n => i = k
      BY <2>0, <2>4, <2>6 DEF ClaimsAreDistinct
    <3> QED
      BY <2>3, <2>5, <3>1, <3>2
  <2>7. ASSUME NEW b \in Calls, svc[b] = i, new[b] = n, pc[b] \in {"provision", "gating", "teardown"}
        PROVE  b = c
    <3>1. fresh(b) = n
      BY <2>7 DEF fresh
    <3> QED
      BY <2>0, <2>4, <3>1 DEF ClaimsAreDistinct
  <2> QED
    BY <2>5, <2>6, <2>7 DEF UsedBy
<1> QED
  BY <1>1, OpsInvariant, PTL DEF Spec, DeletesOnlyItsOwn

\* A step that stops or deletes the container of an entry is a step of a stop
\* or a destroy of that service.
LEMMA HaltsClaimed ==
  ASSUME OneOperator, BaseInv, Alone, NEW c \in Calls, NEW i \in Ids, i = svc[c],
         ReadHolds(c), Step(c),
         NEW n \in Containers, ctr[n] = "running", ctr'[n] # "running"
  PROVE  n = fresh(c) \/ n = spare(c) \/ (n = entry(i) /\ op[c] \in {"stop", "destroy"})
<1> USE DEF BaseInv
<1>e. entry(i) = IF pc[c] = "unregister" THEN None ELSE registry[i]
  BY OwnEntry
<1>ctr. ctr \in [Containers -> {"absent", "stopped", "running"}]
  BY DEF TypeOK
<1>1. CASE Create(c)
  BY <1>1, <1>ctr DEF Create
<1>2. CASE StartContainer(c)
  BY <1>2, <1>ctr DEF StartContainer
<1>3. CASE Teardown(c)
  BY <1>3, <1>ctr DEF Teardown, halted, fresh
<1>4. CASE StopOld(c) \/ DeleteOld(c)
  <2>1. pc[c] \in {"stop", "delete"} /\ n = old[c]
    BY <1>4, <1>ctr DEF StopOld, DeleteOld, halted, retired
  <2>2. op[c] = "redeploy" => spare(c) = n
    BY <2>1 DEF spare
  <2>3. op[c] = "destroy" => entry(i) = n
    BY <1>e, <2>1 DEF ReadHolds, InFlight
  <2> QED
    BY <2>1, <2>2, <2>3 DEF AtWork
<1>5. CASE Act(c)
  <2>1. pc[c] = "act" /\ registry[i] = old[c] /\ op[c] \in {"stop", "start"}
    BY <1>5 DEF Act, ReadHolds, InFlight, AtWork
  <2>2. n = old[c] /\ op[c] # "start"
    BY <1>5, <1>ctr, <2>1 DEF Act
  <2> QED
    BY <1>e, <2>1, <2>2
<1>6. CASE Begin(c) \/ NextId(c) \/ ProvisionFails(c) \/ Commit(c) \/ Unregister(c)
  BY <1>6 DEF Begin, NextId, ProvisionFails, Commit, Unregister
<1> QED
  BY <1>1, <1>2, <1>3, <1>4, <1>5, <1>6 DEF Step

\* Blue-green: whether it succeeds or fails, a spawn or a redeploy, of this or
\* of another service, never takes down the container that the registry sends
\* a service's traffic to (ops.ts:149-152).
THEOREM ServiceKeepsRunning == ASSUME OneOperator PROVE Spec => ServiceStaysUp
<1>1. OpsInv /\ [Next]_vars =>
        [cutOff = {} =>
           \A i \in Ids : registry[i] # None /\ ~Leaving(i) /\ ctr[registry[i]] = "running" =>
              \/ ctr'[registry[i]] = "running"
              \/ \E c \in Calls :
                    svc[c] = i /\ op[c] \in {"stop", "destroy"} /\ pc'[c] # pc[c]]_vars
  <2> SUFFICES ASSUME OpsInv, Next, cutOff = {},
                      NEW i \in Ids, registry[i] # None, ~Leaving(i), ctr[registry[i]] = "running",
                      ctr'[registry[i]] # "running"
               PROVE  \E c \in Calls : svc[c] = i /\ op[c] \in {"stop", "destroy"} /\ pc'[c] # pc[c]
    OBVIOUS
  <2>0. ClaimsAreDistinct /\ registry[i] \in Containers /\ entry(i) = registry[i]
    BY DEF OpsInv, Claims, BaseInv, TypeOK, entry
  <2>1. ~Crash
    BY DEF Crash
  <2>2. PICK c \in Calls : Step(c)
    BY <2>1 DEF Next, Step
  <2>3. PICK k \in Ids : k = svc[c]
    BY DEF OpsInv, BaseInv, TypeOK
  <2>4. \/ registry[i] = fresh(c) \/ registry[i] = spare(c)
        \/ registry[i] = entry(k) /\ op[c] \in {"stop", "destroy"}
    BY <2>0, <2>2, <2>3, HaltsClaimed DEF OpsInv
  <2>5. k = i /\ op[c] \in {"stop", "destroy"}
    BY <2>0, <2>4 DEF ClaimsAreDistinct
  <2>6. pc'[c] # pc[c]
    BY <2>2, Frame DEF OpsInv
  <2> QED
    BY <2>3, <2>5, <2>6
<1> QED
  BY <1>1, OpsInvariant, PTL DEF Spec, ServiceStaysUp
=============================================================================

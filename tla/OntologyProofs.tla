--------------------------- MODULE OntologyProofs ---------------------------
(***************************************************************************)
(* Proofs about the files that the hosts share and the nodes that are      *)
(* projected from them, for any number of calls, services, hosts, rounds   *)
(* and refreshes: a registered data source can be used, an entry survives  *)
(* the dashboard's probes, a sync leaves no dangling edge, and a reader of *)
(* the graph sees no placement from before its request.                    *)
(***************************************************************************)
EXTENDS Ontology, FiniteSetTheorems, TLAPS

USE ProvisioningAssumption

-----------------------------------------------------------------------------
(* Provisioning.  A call that has come past a statement owns what that     *)
(* statement created; nothing ever takes it away again.                    *)

Steps == {"idle", "role", "database", "grant", "audit", "register", "over"}

ProvisionTypeOK ==
    /\ call \in [Calls -> [pc : Steps, name : Names \cup {None}]]
    /\ role \in [Names -> Calls \cup {None}]
    /\ sources \in [Names -> Calls \cup {None}]
    /\ databases \subseteq Names /\ audited \subseteq Names

\* What the call c has done by now.
CallsOwnWhatTheyMade ==
    \A c \in Calls :
        /\ Running(c) => call[c].name \in Names
        /\ call[c].pc \in {"database", "grant", "audit", "register"} => role[call[c].name] = c
        /\ call[c].pc \in {"grant", "audit", "register"} => call[c].name \in databases
        /\ call[c].pc = "register" => call[c].name \in audited

ProvisionInv == ProvisionTypeOK /\ CallsOwnWhatTheyMade /\ SourceIsUsable

ProvisionNext ==
    \/ \E c \in Calls : \/ \E n \in Names : Provision(c, n)
                        \/ Statement(c) \/ StatementFails(c) \/ Register(c)
    \/ ProvisionCrash

LEMMA ProvisionSteps == [Next]_vars => [ProvisionNext]_provisionVars
<1> SUFFICES ASSUME [Next]_vars PROVE [ProvisionNext]_provisionVars
  OBVIOUS
<1>1. CASE UNCHANGED vars
  BY <1>1 DEF vars
<1>2. CASE Deployment
  BY <1>2 DEF Deployment, HostWritesAndSyncs
<1>3. CASE AgentHost
  BY <1>3 DEF AgentHost, ProvisionStep, SyncTool, Reply, Mutated, Request, Registers, HostCrash,
              ProvisionNext
<1>4. CASE DashboardHost \/ Environment \/ RefreshStep
  BY <1>4 DEF DashboardHost, Dashboard, Environment, RefreshStep
<1> QED  BY <1>1, <1>2, <1>3, <1>4 DEF Next

LEMMA StatementStep ==
  ASSUME ProvisionInv, NEW c \in Calls, Statement(c)
  PROVE  ProvisionInv'
<1> DEFINE n == call[c].name
<1>t. /\ call \in [Calls -> [pc : Steps, name : Names \cup {None}]]
      /\ role \in [Names -> Calls \cup {None}]
  BY DEF ProvisionInv, ProvisionTypeOK
<1>1. /\ call[c].pc \in {"role", "database", "grant", "audit"}
      /\ n \in Names
  BY DEF Statement, Effect, CreateRole, CreateDatabase, Grant, EnsureDdlAudit, At, Running,
         ProvisionInv, CallsOwnWhatTheyMade
<1>2. \E s \in {after(call[c].pc), "over"} : Goto(c, s)
  BY DEF Statement
<1>3. PICK s \in {after(call[c].pc), "over"} : Goto(c, s)
  BY <1>2
<1>4. s \in {"database", "grant", "audit", "register", "over"}
  BY <1>1, <1>3 DEF after
<1>5. /\ call' \in [Calls -> [pc : Steps, name : Names \cup {None}]]
      /\ \A d \in Calls : /\ call'[d].name = call[d].name
                          /\ call'[d].pc = IF d = c THEN s ELSE call[d].pc
  BY <1>3, <1>4, <1>t DEF Goto, Steps
<1>6. \A d \in Calls : Running(d)' => call[d].name \in Names
  BY <1>1, <1>5 DEF Running, ProvisionInv, CallsOwnWhatTheyMade
<1>7. CASE CreateRole(c, n)
  <2>1. /\ call[c].pc = "role" /\ role[n] = None
        /\ role' = [role EXCEPT ![n] = c] /\ UNCHANGED <<databases, audited, sources>>
    BY <1>7 DEF CreateRole, At
  <2>2. s \in {"database", "over"}
    BY <1>3, <2>1 DEF after
  <2>3. ProvisionTypeOK'
    BY <1>5, <1>t, <2>1 DEF ProvisionInv, ProvisionTypeOK
  <2>4. CallsOwnWhatTheyMade'
    BY <1>1, <1>5, <1>6, <1>t, <2>1, <2>2 DEF ProvisionInv, CallsOwnWhatTheyMade
  <2>5. SourceIsUsable'
    BY <1>1, <1>t, <2>1 DEF ProvisionInv, SourceIsUsable
  <2> QED  BY <2>3, <2>4, <2>5 DEF ProvisionInv
<1>8. CASE CreateDatabase(c, n)
  <2>1. /\ call[c].pc = "database" /\ databases' = databases \cup {n}
        /\ UNCHANGED <<role, audited, sources>>
    BY <1>8 DEF CreateDatabase, At
  <2>2. s \in {"grant", "over"}
    BY <1>3, <2>1 DEF after
  <2>3. ProvisionTypeOK'
    BY <1>1, <1>5, <2>1 DEF ProvisionInv, ProvisionTypeOK
  <2>4. CallsOwnWhatTheyMade'
    BY <1>5, <1>6, <2>1, <2>2 DEF ProvisionInv, CallsOwnWhatTheyMade
  <2>5. SourceIsUsable'
    BY <2>1 DEF ProvisionInv, SourceIsUsable
  <2> QED  BY <2>3, <2>4, <2>5 DEF ProvisionInv
<1>9. CASE Grant(c) \/ EnsureDdlAudit(c, n)
  <2>1. /\ UNCHANGED <<role, databases, sources>>
        /\ \/ call[c].pc = "grant" /\ audited' = audited
           \/ call[c].pc = "audit" /\ audited' = audited \cup {n}
    BY <1>9 DEF Grant, EnsureDdlAudit, At
  <2>2. \/ s = "over"
        \/ call[c].pc = "grant" /\ s = "audit"
        \/ call[c].pc = "audit" /\ s = "register"
    BY <1>3, <2>1 DEF after
  <2>3. ProvisionTypeOK'
    BY <1>1, <1>5, <2>1 DEF ProvisionInv, ProvisionTypeOK
  <2>4. CallsOwnWhatTheyMade'
    BY <1>5, <1>6, <2>1, <2>2 DEF ProvisionInv, CallsOwnWhatTheyMade
  <2>5. SourceIsUsable'
    BY <2>1 DEF ProvisionInv, SourceIsUsable
  <2> QED  BY <2>3, <2>4, <2>5 DEF ProvisionInv
<1> QED  BY <1>7, <1>8, <1>9 DEF Statement, Effect

LEMMA OtherProvisionStep ==
  ASSUME ProvisionInv,
         \/ \E c \in Calls : StatementFails(c) \/ \E n \in Names : Provision(c, n)
         \/ ProvisionCrash
  PROVE  ProvisionInv'
<1>t. call \in [Calls -> [pc : Steps, name : Names \cup {None}]]
  BY DEF ProvisionInv, ProvisionTypeOK
<1>1. UNCHANGED <<role, databases, audited, sources>>
  BY DEF Provision, StatementFails, ProvisionCrash
<1>2. /\ call' \in [Calls -> [pc : Steps, name : Names \cup {None}]]
      /\ \A d \in Calls : \/ call'[d] = call[d]
                          \/ call'[d].pc = "role" /\ call'[d].name \in Names
                          \/ call'[d].pc = "over"
  <2>1. ASSUME NEW c \in Calls, NEW n \in Names, Provision(c, n) PROVE <1>2!:
    BY <2>1, <1>t DEF Provision, Steps
  <2>2. ASSUME NEW c \in Calls, StatementFails(c) PROVE <1>2!:
    BY <2>2, <1>t DEF StatementFails, Goto, Steps
  <2>3. CASE ProvisionCrash
    BY <2>3, <1>t DEF ProvisionCrash, Steps
  <2> QED  BY <2>1, <2>2, <2>3
<1>3. CallsOwnWhatTheyMade'
  BY <1>1, <1>2 DEF ProvisionInv, CallsOwnWhatTheyMade, Running
<1> QED  BY <1>1, <1>2, <1>3 DEF ProvisionInv, ProvisionTypeOK, SourceIsUsable

LEMMA RegisterStep ==
  ASSUME ProvisionInv, NEW c \in Calls, Register(c)
  PROVE  ProvisionInv'
<1> DEFINE n == call[c].name
<1>t. /\ call \in [Calls -> [pc : Steps, name : Names \cup {None}]]
      /\ sources \in [Names -> Calls \cup {None}]
  BY DEF ProvisionInv, ProvisionTypeOK
<1>1. /\ call[c].pc = "register" /\ n \in Names /\ role[n] = c /\ n \in databases /\ n \in audited
  BY DEF Register, At, Running, ProvisionInv, CallsOwnWhatTheyMade
<1>2. /\ UNCHANGED <<role, databases, audited>>
      /\ sources' = IF sources[n] = None THEN [sources EXCEPT ![n] = c] ELSE sources
  BY DEF Register
<1>3. /\ call' \in [Calls -> [pc : Steps, name : Names \cup {None}]]
      /\ \A d \in Calls : call'[d] = call[d] \/ call'[d].pc = "over"
  BY <1>t DEF Register, Goto, Steps
<1>4. CallsOwnWhatTheyMade'
  BY <1>2, <1>3 DEF ProvisionInv, CallsOwnWhatTheyMade, Running
<1>5. ProvisionTypeOK'
  BY <1>1, <1>2, <1>3, <1>t DEF ProvisionInv, ProvisionTypeOK
<1>6. SourceIsUsable'
  BY <1>1, <1>2, <1>t DEF ProvisionInv, SourceIsUsable
<1> QED  BY <1>4, <1>5, <1>6 DEF ProvisionInv

LEMMA ProvisionInvAlways == Spec => []ProvisionInv
<1>1. Init => ProvisionInv
  BY DEF Init, ProvisionInit, ProvisionInv, ProvisionTypeOK, CallsOwnWhatTheyMade, SourceIsUsable,
         Running, Steps
<1>2. ProvisionInv /\ [ProvisionNext]_provisionVars => ProvisionInv'
  <2> SUFFICES ASSUME ProvisionInv, [ProvisionNext]_provisionVars PROVE ProvisionInv'
    OBVIOUS
  <2>1. CASE UNCHANGED provisionVars
    BY <2>1 DEF provisionVars, ProvisionInv, ProvisionTypeOK, CallsOwnWhatTheyMade, SourceIsUsable,
                Running
  <2>2. CASE ProvisionNext
    BY <2>2, StatementStep, OtherProvisionStep, RegisterStep DEF ProvisionNext
  <2> QED  BY <2>1, <2>2
<1> QED  BY <1>1, <1>2, ProvisionSteps, PTL DEF Spec

\* A data source in data-sources.json has its database, its audit and its
\* role, with the password of the entry, however calls overlap and fail.
THEOREM RegisteredSourcesAreUsable == Spec => []SourceIsUsable
  BY ProvisionInvAlways, PTL DEF ProvisionInv

-----------------------------------------------------------------------------
(* services.json.  Until one process has fallen into the other's write, a  *)
(* list that is about to be written has the containers that are registered *)
(* and the change that its writer makes.                                   *)

Lists == [Services -> Entries \cup {None}]

HostOps == [list : Lists, svc : Services, now : Containers \cup {None}, syncs : BOOLEAN]

StatusTypeOK ==
    /\ file \in Lists
    /\ registered \in [Services -> Containers \cup {None}]
    /\ hostOp # None => hostOp \in HostOps
    /\ writer # None => writer \in [open : BOOLEAN, list : Lists]
    /\ torn \in BOOLEAN /\ raced \in BOOLEAN

\* The agent host's change is one of the registered list.
HostOpIsCurrent ==
    ~raced /\ hostOp # None =>
        Containered(hostOp.list) = [registered EXCEPT ![hostOp.svc] = hostOp.now]

\* The dashboard tears only the file it has opened, and a list it may still
\* write has the registered containers.
WriterIsCurrent ==
    writer # None =>
        /\ ~writer.open => ~torn
        /\ ~raced /\ (writer.open => torn) => Containered(writer.list) = registered

StatusInv == StatusTypeOK /\ EntriesSurviveProbes /\ HostOpIsCurrent /\ WriterIsCurrent

\* The agent host's death as services.json sees it.
HostForgets ==
    /\ hostOp' = None
    /\ UNCHANGED <<file, torn, rounds, writer, healthy, registered, raced>>

StatusNext ==
    \/ HostReads \/ HostWrites \/ HostWriteFails \/ HostForgets
    \/ DashboardStep \/ DashboardCrash \/ HealthChanges

LEMMA StatusSteps == [Next]_vars => [StatusNext]_statusVars
<1> SUFFICES ASSUME [Next]_vars PROVE [StatusNext]_statusVars
  OBVIOUS
<1>1. CASE UNCHANGED vars
  BY <1>1 DEF vars
<1>2. CASE Deployment
  BY <1>2 DEF Deployment, HostWritesAndSyncs, StatusNext
<1>3. CASE HostCrash
  BY <1>3 DEF HostCrash, HostForgets, StatusNext
<1>4. CASE AgentHost /\ ~HostCrash
  BY <1>4 DEF AgentHost, ProvisionStep, SyncTool, Reply, Mutated, Request, Registers
<1>5. CASE DashboardHost
  BY <1>5 DEF DashboardHost, Dashboard, StatusNext
<1>6. CASE Environment \/ RefreshStep
  BY <1>6 DEF Environment, RefreshStep
<1> QED  BY <1>1, <1>2, <1>3, <1>4, <1>5, <1>6 DEF Next

LEMMA EntryIsSomething ==
  ASSUME NEW k \in Containers, NEW status \in {"healthy", "unhealthy"}
  PROVE  /\ Entry(k, status) \in Entries
         /\ Entry(k, status) # None
         /\ Entry(k, status).ct = k
  BY EntriesAssumption DEF Entry, Entries

\* An entry that is added or replaced changes one container, an entry that is
\* removed takes its container away, and a new status changes none.
LEMMA EntrySet ==
  ASSUME NEW list \in Lists, NEW s \in Services, NEW k \in Containers
  PROVE  /\ [list EXCEPT ![s] = Entry(k, "healthy")] \in Lists
         /\ Containered([list EXCEPT ![s] = Entry(k, "healthy")]) = [Containered(list) EXCEPT ![s] = k]
  BY EntryIsSomething DEF Lists, Containered

LEMMA EntryGone ==
  ASSUME NEW list \in Lists, NEW s \in Services
  PROVE  /\ [list EXCEPT ![s] = None] \in Lists
         /\ Containered([list EXCEPT ![s] = None]) = [Containered(list) EXCEPT ![s] = None]
  BY DEF Lists, Containered

LEMMA StatusSet ==
  ASSUME NEW list \in Lists, NEW s \in Services, list[s] # None,
         NEW status \in {"healthy", "unhealthy"}
  PROVE  /\ [list EXCEPT ![s].status = status] \in Lists
         /\ Containered([list EXCEPT ![s].status = status]) = Containered(list)
<1>1. list[s] \in Entries
  BY DEF Lists
<1>2. /\ [list[s] EXCEPT !.status = status] \in Entries
      /\ [list[s] EXCEPT !.status = status].ct = list[s].ct
  BY <1>1 DEF Entries
<1>3. [list EXCEPT ![s].status = status] = [list EXCEPT ![s] = [list[s] EXCEPT !.status = status]]
  BY DEF Lists
<1> QED  BY <1>2, <1>3, EntriesAssumption DEF Lists, Containered

LEMMA HostReadsStep ==
  ASSUME StatusInv, HostReads
  PROVE  StatusInv'
<1>1. /\ UNCHANGED <<file, torn, writer, registered>>
      /\ raced' = (raced \/ torn) /\ raced' \in BOOLEAN
  BY DEF HostReads, StatusInv, StatusTypeOK
<1>2. Loaded \in Lists /\ (~raced' => Containered(Loaded) = registered)
  BY <1>1 DEF Loaded, NoEntry, Lists, StatusInv, StatusTypeOK, EntriesSurviveProbes
<1>3. /\ hostOp' \in HostOps
      /\ Containered(hostOp.list)' = [Containered(Loaded) EXCEPT ![hostOp'.svc] = hostOp'.now]
  <2>1. PICK s \in Services, k \in Containers :
           hostOp' \in {[list |-> l, svc |-> s, now |-> k, syncs |-> TRUE] : l \in Appended(s, k)}
                 \cup {[list |-> l, svc |-> s, now |-> k, syncs |-> FALSE] : l \in Replaced(s, k)}
                 \cup {[list |-> l, svc |-> s, now |-> None, syncs |-> TRUE] : l \in Removed(s)}
    BY DEF HostReads
  <2>2. \E syncs \in BOOLEAN :
           \/ hostOp' = [list |-> [Loaded EXCEPT ![s] = Entry(k, "healthy")],
                         svc |-> s, now |-> k, syncs |-> syncs]
           \/ hostOp' = [list |-> [Loaded EXCEPT ![s] = None], svc |-> s, now |-> None, syncs |-> syncs]
    BY <2>1 DEF Appended, Replaced, Removed
  <2> DEFINE set == [Loaded EXCEPT ![s] = Entry(k, "healthy")]
             gone == [Loaded EXCEPT ![s] = None]
  <2>3. /\ set \in Lists /\ Containered(set) = [Containered(Loaded) EXCEPT ![s] = k]
        /\ gone \in Lists /\ Containered(gone) = [Containered(Loaded) EXCEPT ![s] = None]
    <3>1. set \in Lists /\ Containered(set) = [Containered(Loaded) EXCEPT ![s] = k]
      BY <1>2, EntrySet
    <3>2. gone \in Lists /\ Containered(gone) = [Containered(Loaded) EXCEPT ![s] = None]
      BY <1>2, EntryGone
    <3> QED  BY <3>1, <3>2
  <2>4. \E syncs \in BOOLEAN :
           \/ hostOp' = [list |-> set, svc |-> s, now |-> k, syncs |-> syncs]
           \/ hostOp' = [list |-> gone, svc |-> s, now |-> None, syncs |-> syncs]
    BY <2>2
  <2> HIDE DEF set, gone
  <2>5. /\ hostOp' \in HostOps
        /\ \/ hostOp'.list = set /\ hostOp'.svc = s /\ hostOp'.now = k
           \/ hostOp'.list = gone /\ hostOp'.svc = s /\ hostOp'.now = None
    BY <2>3, <2>4 DEF HostOps
  <2>6. Containered(hostOp'.list) = [Containered(Loaded) EXCEPT ![hostOp'.svc] = hostOp'.now]
    BY <2>3, <2>5
  <2> QED  BY <2>5, <2>6 DEF Containered
<1>4. StatusTypeOK'
  BY <1>1, <1>3 DEF StatusInv, StatusTypeOK
<1>5. HostOpIsCurrent'
  BY <1>1, <1>2, <1>3 DEF HostOpIsCurrent
<1> QED  BY <1>1, <1>4, <1>5 DEF StatusInv, EntriesSurviveProbes, WriterIsCurrent, StatusTypeOK

LEMMA HostWritesStep ==
  ASSUME StatusInv, HostWrites
  PROVE  StatusInv'
<1>1. /\ hostOp # None /\ hostOp \in HostOps
      /\ file' = hostOp.list /\ torn' = FALSE /\ writer' = writer
      /\ registered' = [registered EXCEPT ![hostOp.svc] = hostOp.now]
      /\ raced' = (raced \/ (writer # None /\ ~writer.open))
      /\ hostOp' = None
  BY DEF HostWrites, StatusInv, StatusTypeOK
<1>2. StatusTypeOK'
  BY <1>1 DEF StatusInv, StatusTypeOK, HostOps
<1>3. EntriesSurviveProbes'
  BY <1>1 DEF StatusInv, EntriesSurviveProbes, HostOpIsCurrent, Containered
<1>4. WriterIsCurrent'
  BY <1>1 DEF StatusInv, StatusTypeOK, WriterIsCurrent
<1> QED  BY <1>1, <1>2, <1>3, <1>4 DEF StatusInv, HostOpIsCurrent

LEMMA StatusReadsStep ==
  ASSUME StatusInv, NEW r \in Rounds, StatusReads(r)
  PROVE  StatusInv'
<1>1. /\ UNCHANGED <<file, torn, hostOp, registered, raced>>
      /\ file \in Lists /\ torn \in BOOLEAN
  BY DEF StatusReads, StatusInv, StatusTypeOK
<1>2. CASE torn
  <2>1. writer' = None
    BY <1>2 DEF StatusReads
  <2> QED  BY <2>1, <1>1 DEF StatusInv, StatusTypeOK, EntriesSurviveProbes, HostOpIsCurrent,
                             WriterIsCurrent
<1>3. CASE ~torn
  <2>1. PICK s \in Services :
           writer' = [open |-> FALSE, list |-> IF file[s] = None THEN file
                        ELSE [file EXCEPT ![s].status = probed(r, s, @)]]
    BY <1>3 DEF StatusReads, Probing, statusList, Loaded
  <2>2. probed(r, s, file[s].status) \in {"healthy", "unhealthy"}
    BY DEF probed
  <2>3. [file EXCEPT ![s].status = probed(r, s, @)]
           = [file EXCEPT ![s].status = probed(r, s, file[s].status)]
    BY DEF probed
  <2>4. /\ writer' \in [open : BOOLEAN, list : Lists]
        /\ writer'.open = FALSE
        /\ Containered(writer.list)' = Containered(file)
    <3>1. CASE file[s] = None
      BY <3>1, <2>1, <1>1 DEF Containered
    <3>2. CASE file[s] # None
      <4> DEFINE list == [file EXCEPT ![s].status = probed(r, s, file[s].status)]
      <4>1. list \in Lists /\ Containered(list) = Containered(file)
        BY <3>2, <2>2, <1>1, StatusSet
      <4>2. writer' = [open |-> FALSE, list |-> list]
        BY <3>2, <2>1, <2>3
      <4> HIDE DEF list
      <4>3. writer'.list = list /\ writer'.open = FALSE /\ writer' \in [open : BOOLEAN, list : Lists]
        BY <4>1, <4>2
      <4> QED  BY <4>1, <4>3 DEF Containered
    <3> QED  BY <3>1, <3>2
  <2>5. StatusTypeOK'
    BY <1>1, <2>4 DEF StatusInv, StatusTypeOK
  <2>6. WriterIsCurrent'
    BY <1>1, <1>3, <2>4 DEF StatusInv, EntriesSurviveProbes, WriterIsCurrent
  <2> QED  BY <1>1, <2>5, <2>6 DEF StatusInv, EntriesSurviveProbes, HostOpIsCurrent
<1> QED  BY <1>2, <1>3, <1>1

LEMMA StatusOpensStep ==
  ASSUME StatusInv, StatusOpens
  PROVE  StatusInv'
<1>1. /\ writer # None /\ ~writer.open /\ ~torn /\ torn' = TRUE
      /\ writer' = [writer EXCEPT !.open = TRUE]
      /\ writer \in [open : BOOLEAN, list : Lists]
      /\ UNCHANGED <<file, hostOp, registered, raced>>
  BY DEF StatusOpens, StatusInv, StatusTypeOK, WriterIsCurrent
<1>2. /\ writer' \in [open : BOOLEAN, list : Lists]
      /\ writer'.open = TRUE /\ writer'.list = writer.list
  BY <1>1
<1>3. StatusTypeOK'
  BY <1>1, <1>2 DEF StatusInv, StatusTypeOK
<1>4. WriterIsCurrent'
  BY <1>1, <1>2 DEF StatusInv, WriterIsCurrent, Containered
<1> QED  BY <1>1, <1>3, <1>4 DEF StatusInv, EntriesSurviveProbes, HostOpIsCurrent

LEMMA StatusWritesStep ==
  ASSUME StatusInv, StatusWrites
  PROVE  StatusInv'
<1>1. /\ writer # None /\ writer.open /\ writer' = None /\ torn' = FALSE
      /\ file' = (IF torn THEN writer.list ELSE file)
      /\ writer \in [open : BOOLEAN, list : Lists]
      /\ UNCHANGED <<hostOp, registered, raced>>
  BY DEF StatusWrites, StatusInv, StatusTypeOK
<1>2. StatusTypeOK'
  BY <1>1 DEF StatusInv, StatusTypeOK
<1>3. EntriesSurviveProbes'
  BY <1>1 DEF StatusInv, EntriesSurviveProbes, WriterIsCurrent, Containered
<1> QED  BY <1>1, <1>2, <1>3 DEF StatusInv, HostOpIsCurrent, WriterIsCurrent

LEMMA OtherStatusStep ==
  ASSUME StatusInv,
         \/ HostWriteFails \/ HostForgets \/ DashboardCrash \/ HealthChanges
         \/ \E r \in Rounds : StartRound(r)
         \/ UNCHANGED statusVars
  PROVE  StatusInv'
<1>1. /\ UNCHANGED <<file, torn, registered, raced>>
      /\ hostOp' = hostOp \/ hostOp' = None
      /\ writer' = writer \/ writer' = None
  BY DEF HostWriteFails, HostForgets, DashboardCrash, HealthChanges, StartRound, statusVars
<1> QED  BY <1>1 DEF StatusInv, StatusTypeOK, EntriesSurviveProbes, HostOpIsCurrent, WriterIsCurrent

LEMMA StatusInvAlways == Spec => []StatusInv
<1>1. Init => StatusInv
  <2> SUFFICES ASSUME Init PROVE StatusInv
    OBVIOUS
  <2>1. PICK s \in Services, k \in Containers :
           /\ file = [NoEntry EXCEPT ![s] = Entry(k, "healthy")]
           /\ registered = [NoEntry EXCEPT ![s] = k]
    BY DEF Init, StatusInit
  <2>2. torn = FALSE /\ raced = FALSE /\ hostOp = None /\ writer = None
    BY DEF Init, StatusInit
  <2>3. NoEntry \in Lists /\ Containered(NoEntry) = NoEntry
    BY DEF NoEntry, Lists, Containered
  <2>4. /\ file \in Lists /\ Containered(file) = registered
        /\ registered \in [Services -> Containers \cup {None}]
    <3>1. /\ [NoEntry EXCEPT ![s] = Entry(k, "healthy")] \in Lists
          /\ Containered([NoEntry EXCEPT ![s] = Entry(k, "healthy")]) = [Containered(NoEntry) EXCEPT ![s] = k]
      BY <2>3, EntrySet
    <3>2. [NoEntry EXCEPT ![s] = k] \in [Services -> Containers \cup {None}]
      BY DEF NoEntry
    <3> QED  BY <2>1, <2>3, <3>1, <3>2
  <2> QED  BY <2>2, <2>4 DEF StatusInv, StatusTypeOK, EntriesSurviveProbes, HostOpIsCurrent,
                             WriterIsCurrent
<1>2. StatusInv /\ [StatusNext]_statusVars => StatusInv'
  BY HostReadsStep, HostWritesStep, StatusReadsStep, StatusOpensStep, StatusWritesStep,
     OtherStatusStep DEF StatusNext, DashboardStep
<1> QED  BY <1>1, <1>2, StatusSteps, PTL DEF Spec

\* The list of services keeps every entry that the agent host registered and
\* no other, whatever rounds of probes overlap its writes, unless one process
\* reads or renames the file within the other's write.
THEOREM EntriesSurvive == Spec => []EntriesSurviveProbes
  BY StatusInvAlways, PTL DEF StatusInv

-----------------------------------------------------------------------------
(* The projection.                                                         *)

Resolved == \A e \in vault.edges : e[3] \in vault.nodes

\* No projection has an edge to a node that it has not.
LEMMA DesiredResolves ==
  \A srcs, svcs : \A e \in Desired(srcs, svcs).edges : e[3] \in Desired(srcs, svcs).nodes
<1> SUFFICES ASSUME NEW srcs, NEW svcs, NEW e \in Desired(srcs, svcs).edges
             PROVE  e[3] \in Desired(srcs, svcs).nodes
  OBVIOUS
<1> DEFINE known == {n \in Names : srcs[n] # None}
           deployed == {s \in Services : svcs[s] # None}
           containers == {svcs[s].ct : s \in deployed}
<1>1. Desired(srcs, svcs).nodes
        = ({"node"} \X facts.hosts) \cup ({"datasource"} \X known) \cup ({"service"} \X deployed)
             \cup ({"container"} \X containers) \cup ({"dashboard"} \X surfaces)
  BY DEF Desired
<1>2. \/ \E k \in containers : \E h \in placedOn(k) : e[3] = <<"node", h>>
      \/ \E k \in containers : e[3] = <<"container", k>>
      \/ \E n \in known : e[3] = <<"datasource", n>>
  BY DEF Desired
<1>3. \A k : placedOn(k) \subseteq facts.hosts
  BY DEF placedOn
<1> QED  BY <1>1, <1>2, <1>3

LEMMA SyncStep ==
  ASSUME NEW srcs, NEW svcs, Sync(srcs, svcs)
  PROVE  ~intact' \/ Resolved'
  BY DesiredResolves DEF Sync, Resolved

LEMMA VaultStep == [Next]_vars => ~intact' \/ Resolved' \/ UNCHANGED <<vault, intact>>
<1> SUFFICES ASSUME [Next]_vars PROVE ~intact' \/ Resolved' \/ UNCHANGED <<vault, intact>>
  OBVIOUS
<1>1. CASE UNCHANGED vars
  BY <1>1 DEF vars, ontologyVars
<1>2. CASE Deployment
  <2>1. CASE HostWritesAndSyncs /\ hostOp.syncs
    BY <2>1, DesiredResolves DEF HostWritesAndSyncs, OnMutate, Sync, Resolved
  <2> QED  BY <1>2, <2>1 DEF Deployment, HostWritesAndSyncs, ontologyVars
<1>3. CASE AgentHost
  <2>1. CASE \E c \in Calls : Registers(c)
    BY <2>1, DesiredResolves DEF Registers, OnMutate, Sync, Resolved
  <2>2. CASE SyncTool \/ Reply \/ Mutated
    BY <2>2, SyncStep DEF SyncTool, Reply, Mutated, OnMutate
  <2>3. CASE ProvisionStep \/ \E r \in Refreshes : Request(r)
    BY <2>3 DEF ProvisionStep, ontologyVars, Request
  <2>4. CASE HostCrash
    BY <2>4 DEF HostCrash
  <2> QED  BY <1>3, <2>1, <2>2, <2>3, <2>4 DEF AgentHost
<1>4. CASE DashboardHost \/ Environment
  BY <1>4 DEF DashboardHost, Dashboard, Environment, ontologyVars
<1>5. CASE RefreshStep
  BY <1>5 DEF RefreshStep, ReadHosts, ReadPlacements, RefreshFails
<1> QED  BY <1>1, <1>2, <1>3, <1>4, <1>5 DEF Next

\* A sync that did not fail leaves no edge to a node that is not there.
THEOREM EdgesAlwaysResolve == Spec => []EdgesResolve
<1>1. Init => EdgesResolve
  BY DEF Init, EdgesResolve
<1>2. EdgesResolve /\ [Next]_vars => EdgesResolve'
  BY VaultStep DEF EdgesResolve, Resolved
<1> QED  BY <1>1, <1>2, PTL DEF Spec

-----------------------------------------------------------------------------
(* GET /ontology.  A refresh that starts with the request or after it has  *)
(* read hosts among which is one that each container has had since, so     *)
(* that also the guess of placedOn, the only host there is, is not older   *)
(* than the request.                                                       *)

ReaderTypeOK ==
    reader # None =>
        reader \in [slot : Refreshes \cup {None}, since : [Containers -> SUBSET Hosts],
                    alone : BOOLEAN]

ReadTypeOK ==
    /\ members \subseteq Hosts
    /\ home \in [Containers -> Hosts]
    /\ facts \in [hosts : SUBSET Hosts, home : [Containers -> Hosts \cup {None}]]
    /\ refresh \in [Refreshes -> [pc : {"idle", "nodes", "placements"}, hosts : SUBSET Hosts]]
    /\ ReaderTypeOK

HomesAreMembers == \A k \in Containers : home[k] \in members

SinceCoversHome == reader # None => \A k \in Containers : home[k] \in reader.since[k]

\* What a refresh has read while a reader with no older refresh beside it waits.
RefreshesAreRecent ==
    reader # None /\ reader.alone =>
        \A r \in Refreshes : refresh[r].pc = "placements" =>
            \A k \in Containers : refresh[r].hosts \cap reader.since[k] # {}

\* What is on disk when the refresh of such a reader has ended.
FactsAreRecent ==
    reader # None /\ reader.alone /\ reader.slot = None =>
        \A k \in Containers : /\ facts.home[k] \in reader.since[k] \cup {None}
                              /\ facts.hosts \cap reader.since[k] # {}

ReadInv ==
    /\ ReadTypeOK /\ HomesAreMembers /\ SinceCoversHome
    /\ RefreshesAreRecent /\ FactsAreRecent

readVars == <<members, home, facts, refresh, reader>>

\* The steps as the cluster, the refreshes and the reader see them.
ClusterChanges == (MembersChange \/ ContainerMoves) /\ UNCHANGED <<facts, refresh>>

RefreshStarts ==
    /\ \E r \in Refreshes : StartRefresh(r)
    /\ UNCHANGED <<members, home, facts, reader>>

ReaderLeaves == reader' = None /\ UNCHANGED <<members, home, facts, refresh>>

HostRestarts ==
    /\ refresh' = [r \in Refreshes |-> NoRefresh] /\ reader' = None
    /\ UNCHANGED <<members, home, facts>>

ReadNext ==
    \/ ClusterChanges \/ RefreshStarts \/ ReaderLeaves \/ HostRestarts
    \/ \E r \in Refreshes : Request(r) \/ ReadHosts(r) \/ ReadPlacements(r) \/ RefreshFails(r)

LEMMA ReadSteps == [Next]_vars => [ReadNext]_readVars
<1> SUFFICES ASSUME [Next]_vars PROVE [ReadNext]_readVars
  OBVIOUS
<1>1. CASE UNCHANGED vars
  BY <1>1 DEF vars, ontologyVars, readVars
<1>2. CASE Deployment
  BY <1>2 DEF Deployment, HostWritesAndSyncs, OnMutate, ontologyVars, ReadNext, RefreshStarts,
              readVars
<1>3. CASE AgentHost
  <2>1. CASE Mutated \/ \E c \in Calls : Registers(c)
    BY <2>1 DEF Mutated, Registers, OnMutate, ReadNext, RefreshStarts
  <2>2. CASE ProvisionStep \/ SyncTool \/ Reply
    BY <2>2 DEF ProvisionStep, SyncTool, Reply, ontologyVars, ReadNext, ReaderLeaves, readVars
  <2>3. CASE HostCrash
    BY <2>3 DEF HostCrash, ReadNext, HostRestarts
  <2>4. CASE \E r \in Refreshes : Request(r)
    BY <2>4 DEF ReadNext
  <2> QED  BY <1>3, <2>1, <2>2, <2>3, <2>4 DEF AgentHost
<1>4. CASE DashboardHost
  BY <1>4 DEF DashboardHost, Dashboard, ontologyVars, readVars
<1>5. CASE Environment
  BY <1>5 DEF Environment, SurfacesChange, DataOp, ReadNext, ClusterChanges, readVars
<1>6. CASE RefreshStep
  BY <1>6 DEF RefreshStep, ReadNext
<1> QED  BY <1>1, <1>2, <1>3, <1>4, <1>5, <1>6 DEF Next

LEMMA ClusterStep ==
  ASSUME ReadInv, ClusterChanges
  PROVE  ReadInv'
<1>t. ReadTypeOK /\ HomesAreMembers /\ SinceCoversHome /\ RefreshesAreRecent /\ FactsAreRecent
  BY DEF ReadInv
<1>u. facts' = facts /\ refresh' = refresh
  BY DEF ClusterChanges
<1>1. CASE MembersChange
  <2>1. /\ home' = home /\ reader' = reader
        /\ members' \subseteq Hosts /\ \A k \in Containers : home[k] \in members'
    BY <1>1, <1>t DEF MembersChange, ReadTypeOK, HomesAreMembers
  <2> QED  BY <1>t, <1>u, <2>1 DEF ReadInv, ReadTypeOK, ReaderTypeOK, HomesAreMembers, SinceCoversHome,
                                   RefreshesAreRecent, FactsAreRecent
<1>2. CASE ContainerMoves
  <2>1. PICK k \in Containers, h \in members : home' = [home EXCEPT ![k] = h]
    BY <1>2 DEF ContainerMoves
  <2>2. /\ members' = members /\ home' \in [Containers -> Hosts]
        /\ \A j \in Containers : home'[j] \in members
    BY <1>2, <1>t, <2>1 DEF ContainerMoves, ReadTypeOK, HomesAreMembers
  <2>3. CASE reader = None
    BY <1>2, <1>t, <1>u, <2>2, <2>3 DEF ContainerMoves, ReadInv, ReadTypeOK, ReaderTypeOK,
          HomesAreMembers, SinceCoversHome, RefreshesAreRecent, FactsAreRecent
  <2>4. CASE reader # None
    <3>1. reader' = [reader EXCEPT !.since = [j \in Containers |-> reader.since[j] \cup {home'[j]}]]
      BY <1>2, <2>4 DEF ContainerMoves
    <3>2. reader \in [slot : Refreshes \cup {None}, since : [Containers -> SUBSET Hosts],
                      alone : BOOLEAN]
      BY <1>t, <2>4 DEF ReadTypeOK, ReaderTypeOK
    <3> DEFINE more == [j \in Containers |-> reader.since[j] \cup {home'[j]}]
    <3>3. more \in [Containers -> SUBSET Hosts]
      BY <2>2, <3>2
    <3>4. /\ reader' \in [slot : Refreshes \cup {None}, since : [Containers -> SUBSET Hosts],
                          alone : BOOLEAN]
          /\ reader'.slot = reader.slot /\ reader'.alone = reader.alone /\ reader'.since = more
      <4> HIDE DEF more
      <4>1. reader' = [reader EXCEPT !.since = more]
        BY <3>1 DEF more
      <4> QED  BY <3>2, <3>3, <4>1
    <3>5. \A j \in Containers : /\ reader.since[j] \subseteq reader'.since[j]
                                /\ home'[j] \in reader'.since[j]
      BY <3>4
    <3>6. ReadTypeOK' /\ HomesAreMembers' /\ SinceCoversHome'
      BY <1>t, <1>u, <2>2, <3>4, <3>5 DEF ReadTypeOK, ReaderTypeOK, HomesAreMembers, SinceCoversHome
    <3>7. RefreshesAreRecent'
      BY <1>t, <1>u, <2>4, <3>4, <3>5 DEF RefreshesAreRecent
    <3>8. FactsAreRecent'
      BY <1>t, <1>u, <2>4, <3>4, <3>5 DEF FactsAreRecent
    <3> QED  BY <3>6, <3>7, <3>8 DEF ReadInv
  <2> QED  BY <2>3, <2>4
<1> QED  BY <1>1, <1>2 DEF ClusterChanges

LEMMA RefreshStartsStep ==
  ASSUME ReadInv, RefreshStarts
  PROVE  ReadInv'
<1>1. PICK r \in Refreshes : StartRefresh(r)
  BY DEF RefreshStarts
<1>2. /\ refresh' \in [Refreshes -> [pc : {"idle", "nodes", "placements"}, hosts : SUBSET Hosts]]
      /\ \A q \in Refreshes : refresh'[q].pc = "placements" => refresh'[q] = refresh[q]
  BY <1>1 DEF StartRefresh, ReadInv, ReadTypeOK
<1>3. UNCHANGED <<members, home, facts, reader>>
  BY DEF RefreshStarts
<1> QED  BY <1>2, <1>3 DEF ReadInv, ReadTypeOK, ReaderTypeOK, HomesAreMembers, SinceCoversHome,
                           RefreshesAreRecent, FactsAreRecent

LEMMA RequestStep ==
  ASSUME ReadInv, NEW r \in Refreshes, Request(r)
  PROVE  ReadInv'
<1>t. ReadTypeOK /\ HomesAreMembers
  BY DEF ReadInv
<1>1. /\ refresh' \in [Refreshes -> [pc : {"idle", "nodes", "placements"}, hosts : SUBSET Hosts]]
      /\ \A q \in Refreshes : q # r => refresh'[q] = refresh[q]
      /\ refresh'[r].pc = "nodes"
  BY <1>t DEF Request, StartRefresh, ReadTypeOK
<1>2. UNCHANGED <<members, home, facts>>
  BY DEF Request
<1> DEFINE since == [k \in Containers |-> {home[k]}]
           alone == \A q \in Refreshes : refresh[q].pc = "idle"
<1>3. reader' = [slot |-> r, since |-> since, alone |-> alone]
  BY DEF Request
<1>4. since \in [Containers -> SUBSET Hosts] /\ \A k \in Containers : since[k] = {home[k]}
  BY <1>t DEF ReadTypeOK
<1>5. alone \in BOOLEAN
  OBVIOUS
<1>6. alone => \A q \in Refreshes : refresh'[q].pc # "placements"
  BY <1>1
<1> HIDE DEF since, alone
<1>7. /\ reader'.slot = r /\ reader'.since = since /\ reader'.alone = alone
      /\ reader' \in [slot : Refreshes \cup {None}, since : [Containers -> SUBSET Hosts],
                      alone : BOOLEAN]
  BY <1>3, <1>4, <1>5
<1>8. ReadTypeOK' /\ HomesAreMembers' /\ SinceCoversHome'
  BY <1>t, <1>1, <1>2, <1>4, <1>7 DEF ReadTypeOK, ReaderTypeOK, HomesAreMembers, SinceCoversHome
<1>9. RefreshesAreRecent' /\ FactsAreRecent'
  BY <1>6, <1>7, OntologyAssumption DEF RefreshesAreRecent, FactsAreRecent
<1> QED  BY <1>8, <1>9 DEF ReadInv

LEMMA ReadHostsStep ==
  ASSUME ReadInv, NEW r \in Refreshes, ReadHosts(r)
  PROVE  ReadInv'
<1>t. ReadTypeOK /\ HomesAreMembers /\ SinceCoversHome /\ RefreshesAreRecent
  BY DEF ReadInv
<1>1. /\ refresh' \in [Refreshes -> [pc : {"idle", "nodes", "placements"}, hosts : SUBSET Hosts]]
      /\ \A q \in Refreshes : refresh'[q] = refresh[q] \/ refresh'[q].hosts = members
  BY <1>t DEF ReadHosts, ReadTypeOK
<1>2. UNCHANGED <<members, home, facts, reader>>
  BY DEF ReadHosts
<1>3. reader # None => \A k \in Containers : members \cap reader.since[k] # {}
  BY <1>t DEF HomesAreMembers, SinceCoversHome
<1>4. RefreshesAreRecent'
  BY <1>t, <1>1, <1>2, <1>3 DEF RefreshesAreRecent
<1> QED  BY <1>1, <1>2, <1>4 DEF ReadInv, ReadTypeOK, ReaderTypeOK, HomesAreMembers, SinceCoversHome,
                                 FactsAreRecent

\* The end of a wait changes neither what the reader may see nor, for the
\* worse, that it was alone.
LEMMA AwaitedReader ==
  ASSUME ReadTypeOK, NEW r, NEW ok \in BOOLEAN, reader' = Awaited(r, ok)
  PROVE  /\ ReaderTypeOK'
         /\ reader' # None => reader # None
         /\ reader # None => /\ reader'.since = reader.since
                             /\ reader'.alone => reader.alone
                             /\ reader'.slot = reader.slot \/ (reader'.slot = None /\ reader.slot = r)
                             /\ reader'.alone /\ reader.slot = r => ok
<1>1. CASE reader # None /\ reader.slot = r
  <2>1. reader \in [slot : Refreshes \cup {None}, since : [Containers -> SUBSET Hosts],
                    alone : BOOLEAN]
    BY <1>1 DEF ReadTypeOK, ReaderTypeOK
  <2>2. reader' = [reader EXCEPT !.slot = None, !.alone = reader.alone /\ ok]
    BY <1>1 DEF Awaited
  <2>3. (reader.alone /\ ok) \in BOOLEAN
    OBVIOUS
  <2>4. /\ reader'.slot = None /\ reader'.since = reader.since
        /\ reader'.alone = (reader.alone /\ ok)
        /\ reader' \in [slot : Refreshes \cup {None}, since : [Containers -> SUBSET Hosts],
                        alone : BOOLEAN]
    BY <2>1, <2>2, <2>3
  <2>5. reader'.alone => reader.alone /\ ok
    BY <2>4, Zenon
  <2>6. ReaderTypeOK'
    BY <2>4 DEF ReaderTypeOK
  <2> QED  BY <1>1, <2>4, <2>5, <2>6
<1>2. CASE ~(reader # None /\ reader.slot = r)
  <2>1. reader' = reader
    BY <1>2 DEF Awaited
  <2>2. ReaderTypeOK'
    BY <2>1 DEF ReadTypeOK, ReaderTypeOK
  <2> QED  BY <1>2, <2>1, <2>2
<1> QED  BY <1>1, <1>2

LEMMA ReadPlacementsStep ==
  ASSUME ReadInv, NEW r \in Refreshes, ReadPlacements(r)
  PROVE  ReadInv'
<1>t. ReadTypeOK /\ HomesAreMembers /\ SinceCoversHome /\ RefreshesAreRecent /\ FactsAreRecent
  BY DEF ReadInv
<1>1. /\ refresh[r].pc = "placements" /\ refresh[r].hosts \subseteq Hosts
      /\ refresh' \in [Refreshes -> [pc : {"idle", "nodes", "placements"}, hosts : SUBSET Hosts]]
      /\ \A q \in Refreshes : refresh'[q].pc = "placements" => refresh'[q] = refresh[q]
  BY <1>t DEF ReadPlacements, NoRefresh, ReadTypeOK
<1>2. UNCHANGED <<members, home>> /\ reader' = Awaited(r, TRUE)
  BY DEF ReadPlacements
<1>3. /\ ReaderTypeOK'
      /\ reader' # None => reader # None
      /\ reader # None => /\ reader'.since = reader.since
                          /\ reader'.alone => reader.alone
  BY <1>t, <1>2, AwaitedReader
<1>4. /\ facts' \in [hosts : SUBSET Hosts, home : [Containers -> Hosts \cup {None}]]
      /\ facts'.hosts = refresh[r].hosts
      /\ \A k \in Containers : facts'.home[k] \in {home[k], None}
  BY <1>t, <1>1 DEF ReadPlacements, ReadTypeOK
<1>5. ReadTypeOK' /\ HomesAreMembers' /\ SinceCoversHome'
  BY <1>t, <1>1, <1>2, <1>3, <1>4 DEF ReadTypeOK, HomesAreMembers, SinceCoversHome
<1>6. RefreshesAreRecent'
  BY <1>t, <1>1, <1>3 DEF RefreshesAreRecent
<1>7. FactsAreRecent'
  BY <1>t, <1>1, <1>3, <1>4 DEF SinceCoversHome, RefreshesAreRecent, FactsAreRecent
<1> QED  BY <1>5, <1>6, <1>7 DEF ReadInv

LEMMA RefreshFailsStep ==
  ASSUME ReadInv, NEW r \in Refreshes, RefreshFails(r)
  PROVE  ReadInv'
<1>t. ReadTypeOK /\ HomesAreMembers /\ SinceCoversHome /\ RefreshesAreRecent /\ FactsAreRecent
  BY DEF ReadInv
<1>1. /\ refresh' \in [Refreshes -> [pc : {"idle", "nodes", "placements"}, hosts : SUBSET Hosts]]
      /\ \A q \in Refreshes : refresh'[q].pc = "placements" => refresh'[q] = refresh[q]
  BY <1>t DEF RefreshFails, NoRefresh, ReadTypeOK
<1>2. UNCHANGED <<members, home, facts>> /\ reader' = Awaited(r, FALSE)
  BY DEF RefreshFails
<1>3. /\ ReaderTypeOK'
      /\ reader' # None => reader # None
      /\ reader # None => /\ reader'.since = reader.since
                          /\ reader'.alone => reader.alone
                          /\ reader'.slot = reader.slot \/ (reader'.slot = None /\ reader.slot = r)
                          /\ ~(reader'.alone /\ reader.slot = r)
  BY <1>t, <1>2, AwaitedReader
<1>4. ReadTypeOK' /\ HomesAreMembers' /\ SinceCoversHome'
  BY <1>t, <1>1, <1>2, <1>3 DEF ReadTypeOK, HomesAreMembers, SinceCoversHome
<1>5. RefreshesAreRecent'
  BY <1>t, <1>1, <1>3 DEF RefreshesAreRecent
<1>6. FactsAreRecent'
  BY <1>t, <1>2, <1>3 DEF FactsAreRecent
<1> QED  BY <1>4, <1>5, <1>6 DEF ReadInv

LEMMA ReaderGoneStep ==
  ASSUME ReadInv, ReaderLeaves \/ HostRestarts
  PROVE  ReadInv'
<1>1. /\ reader' = None /\ UNCHANGED <<members, home, facts>>
      /\ refresh' \in [Refreshes -> [pc : {"idle", "nodes", "placements"}, hosts : SUBSET Hosts]]
  BY DEF ReaderLeaves, HostRestarts, NoRefresh, ReadInv, ReadTypeOK
<1> QED  BY <1>1 DEF ReadInv, ReadTypeOK, ReaderTypeOK, HomesAreMembers, SinceCoversHome,
                     RefreshesAreRecent, FactsAreRecent

LEMMA ReadInvAlways == Spec => []ReadInv
<1>1. Init => ReadInv
  BY DEF Init, NoRefresh, ReadInv, ReadTypeOK, ReaderTypeOK, HomesAreMembers, SinceCoversHome,
         RefreshesAreRecent, FactsAreRecent
<1>2. ReadInv /\ [ReadNext]_readVars => ReadInv'
  <2> SUFFICES ASSUME ReadInv, [ReadNext]_readVars PROVE ReadInv'
    OBVIOUS
  <2>1. CASE UNCHANGED readVars
    BY <2>1 DEF readVars, ReadInv, ReadTypeOK, ReaderTypeOK, HomesAreMembers, SinceCoversHome,
                RefreshesAreRecent, FactsAreRecent
  <2>2. CASE ReadNext
    BY <2>2, ClusterStep, RefreshStartsStep, RequestStep, ReadHostsStep, ReadPlacementsStep,
       RefreshFailsStep, ReaderGoneStep DEF ReadNext
  <2> QED  BY <2>1, <2>2
<1> QED  BY <1>1, <1>2, ReadSteps, PTL DEF Spec

\* The placement that a sync projects for a container is the one the facts
\* name, if they list that host, or their only host.
LEMMA ProjectedPlacement ==
  ASSUME NEW srcs, NEW svcs, NEW k \in Containers, NEW h \in Hosts,
         <<<<"container", k>>, "runs-on", <<"node", h>>>> \in Desired(srcs, svcs).edges
  PROVE  h \in placedOn(k)
  BY DEF Desired

LEMMA PlacedSince ==
  ASSUME ReadInv, reader # None, reader.alone, reader.slot = None,
         NEW k \in Containers, NEW h \in placedOn(k)
  PROVE  h \in reader.since[k]
<1>1. /\ facts.home[k] \in reader.since[k] \cup {None}
      /\ facts.hosts \cap reader.since[k] # {}
      /\ facts.hosts \subseteq Hosts
  BY DEF ReadInv, ReadTypeOK, FactsAreRecent
<1>2. CASE facts.home[k] \in facts.hosts
  BY <1>1, <1>2, OntologyAssumption DEF placedOn
<1>3. CASE facts.home[k] \notin facts.hosts
  <2>1. Cardinality(facts.hosts) = 1 /\ h \in facts.hosts
    BY <1>3 DEF placedOn
  <2>2. IsFiniteSet(facts.hosts)
    BY <1>1, OntologyAssumption, FS_Subset
  <2>3. \E x : facts.hosts = {x}
    BY <2>1, <2>2, FS_Singleton
  <2> QED  BY <1>1, <2>1, <2>3
<1> QED  BY <1>2, <1>3

\* A reader of the graph sees no placement older than its request, if its
\* refresh and its sync worked and no refresh was under way before it: not
\* when containers move, hosts come and go or other refreshes overlap its own.
THEOREM ReadersAreCurrent == Spec => ReaderIsCurrent
<1>1. ReadInv /\ [Next]_vars =>
        [Reply /\ intact' /\ reader.alone =>
            \A k \in Containers, h \in Hosts :
               <<<<"container", k>>, "runs-on", <<"node", h>>>> \in vault'.edges =>
                  h \in reader.since[k]]_vars
  <2> SUFFICES ASSUME ReadInv, Reply, intact', reader.alone,
                      NEW k \in Containers, NEW h \in Hosts,
                      <<<<"container", k>>, "runs-on", <<"node", h>>>> \in vault'.edges
               PROVE  h \in reader.since[k]
    OBVIOUS
  <2>1. vault' = Desired(sources, Loaded) /\ reader # None /\ reader.slot = None
    BY DEF Reply, Sync, refreshed
  <2> QED  BY <2>1, ProjectedPlacement, PlacedSince
<1> QED  BY <1>1, ReadInvAlways, PTL DEF Spec, ReaderIsCurrent
=============================================================================

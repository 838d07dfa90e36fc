------------------------------ MODULE Ontology ------------------------------
(***************************************************************************)
(* The system layer of the ontology: Markdown nodes that agent-host/src/   *)
(* ontology/projector.ts projects from files which others write, among     *)
(* them data-sources.json (module Provisioning), services.json (module     *)
(* ServiceStatus), the surfaces' directories, the dashboard's audit log    *)
(* and the facts of the cluster that infra/nodeFacts.ts fetches.           *)
(*                                                                         *)
(* Files are read and nodes written within one callback.  A refresh of the *)
(* facts is split at its calls of Proxmox, which is outside the            *)
(* repository; refreshes overlap, and all but a reader's are not awaited.  *)
(* The vm and domain layers, the nodes' text and the edges to the agent,   *)
(* which has no node, are left out.                                        *)
(***************************************************************************)
EXTENDS Provisioning, ServiceStatus

CONSTANTS Surfaces,
          Hosts,      \* nodes of the Proxmox cluster
          Refreshes   \* bound: refreshes under way at once

ASSUME OntologyAssumption == IsFiniteSet(Hosts) /\ None \notin Hosts \cup Refreshes

VARIABLES surfaces,   \* directories under surfaces/
          log,        \* the data audit: surface, edge, data source
          members,    \* hosts in the cluster
          home,       \* each container's host
          facts,      \* node-facts.json: the hosts, and the host of each container
          refresh,    \* each refresh: where it is, and the hosts it has read
          vault,      \* the system layer: nodes and edges
          intact,     \* no sync has failed since the last one that did not
          reader      \* GET /ontology: its refresh, the hosts each container had
                      \* since the request, and whether the refresh was alone

ontologyVars == <<surfaces, log, members, home, facts, refresh, vault, intact, reader>>
vars == <<provisionVars, statusVars, ontologyVars, events>>

Nodes ==
    ({"datasource"} \X Names) \cup ({"service"} \X Services) \cup ({"container"} \X Containers)
    \cup ({"dashboard"} \X Surfaces) \cup ({"node"} \X Hosts)

NoRefresh == [pc |-> "idle", hosts |-> {}]

Init ==
    /\ ProvisionInit /\ StatusInit
    /\ surfaces = {} /\ log = {}
    /\ \E h \in Hosts : members = {h} /\ home = [k \in Containers |-> h]
    /\ facts = [hosts |-> {}, home |-> [k \in Containers |-> None]]
    /\ refresh = [r \in Refreshes |-> NoRefresh]
    /\ vault = [nodes |-> {}, edges |-> {}]
    /\ intact = TRUE
    /\ reader = None
    /\ events = 0

-----------------------------------------------------------------------------
(* syncSystem                                                              *)

\* (mutant: a placement is taken as it comes)
placedOnUnchecked(k) == IF facts.home[k] # None THEN {facts.home[k]} ELSE {}

\* placedOn: the host the facts name, if they list it, or the only host.
placedOn(k) ==
    IF facts.home[k] \in facts.hosts THEN {facts.home[k]}
    ELSE IF Cardinality(facts.hosts) = 1 THEN facts.hosts ELSE {}

\* The projection of the data sources srcs, the services svcs and of the other
\* files as they are.
Desired(srcs, svcs) ==
    LET known == {n \in Names : srcs[n] # None}
        deployed == {s \in Services : svcs[s] # None}
        containers == {svcs[s].ct : s \in deployed}
    IN [nodes |-> ({"node"} \X facts.hosts) \cup ({"datasource"} \X known)
                  \cup ({"service"} \X deployed) \cup ({"container"} \X containers)
                  \cup ({"dashboard"} \X surfaces),
        edges |-> {<<<<"container", p[1]>>, "runs-on", <<"node", p[2]>>>> :
                       p \in {q \in containers \X Hosts : q[2] \in placedOn(q[1])}}
                  \cup {<<<<"service", s>>, "runs-on", <<"container", svcs[s].ct>>>> : s \in deployed}
                  \cup {<<<<"dashboard", a.surface>>, a.edge, <<"datasource", a.source>>>> :
                       a \in {b \in log : b.surface \in surfaces /\ b.source \in known}}]

\* The nodes of W have been written and the old ones not yet removed.
Written(d, W) ==
    [nodes |-> vault.nodes \cup W,
     edges |-> {e \in vault.edges : e[1] \notin W} \cup {e \in d.edges : e[1] \in W}]

\* A sync rewrites every node and removes the others; or a write fails.
Sync(srcs, svcs) ==
    LET d == Desired(srcs, svcs) IN
    \/ vault' = d /\ intact' = TRUE /\ UNCHANGED events
    \/ /\ Event
       /\ \E W \in SUBSET d.nodes : vault' = Written(d, W)
       /\ intact' = FALSE

\* The ontology's sync tool.
SyncTool ==
    /\ Sync(sources, Loaded)
    /\ UNCHANGED <<provisionVars, statusVars, surfaces, log, members, home, facts, refresh, reader>>

-----------------------------------------------------------------------------
(* Facts of the cluster.                                                   *)

StartRefresh(r) ==
    /\ refresh[r].pc = "idle"
    /\ refresh' = [refresh EXCEPT ![r].pc = "nodes"]

\* The reader whose refresh r is ends its wait; a failure shows in its reply.
Awaited(r, ok) ==
    IF reader # None /\ reader.slot = r
    THEN [reader EXCEPT !.slot = None, !.alone = @ /\ ok] ELSE reader

ReadHosts(r) ==
    /\ refresh[r].pc = "nodes"
    /\ refresh' = [refresh EXCEPT ![r] = [pc |-> "placements", hosts |-> members]]
    /\ UNCHANGED <<surfaces, log, members, home, facts, vault, intact, reader, events>>

\* The placements, which may fail by themselves, and the write of the facts.
ReadPlacements(r) ==
    /\ refresh[r].pc = "placements"
    /\ refresh' = [refresh EXCEPT ![r] = NoRefresh]
    /\ \/ /\ facts' = [hosts |-> refresh[r].hosts, home |-> home]
          /\ UNCHANGED events
       \/ /\ facts' = [hosts |-> refresh[r].hosts, home |-> [k \in Containers |-> None]]
          /\ Event
    /\ reader' = Awaited(r, TRUE)
    /\ UNCHANGED <<surfaces, log, members, home, vault, intact>>

RefreshFails(r) ==
    /\ Event /\ refresh[r].pc # "idle"
    /\ refresh' = [refresh EXCEPT ![r] = NoRefresh]
    /\ reader' = Awaited(r, FALSE)
    /\ UNCHANGED <<surfaces, log, members, home, facts, vault, intact>>

-----------------------------------------------------------------------------
(* GET /ontology and onMutate.                                             *)

Request(r) ==
    /\ reader = None /\ StartRefresh(r)
    /\ reader' = [slot |-> r, since |-> [k \in Containers |-> {home[k]}],
                  alone |-> \A q \in Refreshes : refresh[q].pc = "idle"]
    /\ UNCHANGED <<provisionVars, statusVars, surfaces, log, members, home, facts, vault, intact, events>>

\* (mutant: the refresh is not awaited)
refreshedAnyway == TRUE

refreshed == reader.slot = None

\* Sync-on-read; a sync that fails leaves what is on disk.
Reply ==
    /\ reader # None /\ refreshed
    /\ reader' = None
    /\ Sync(sources, Loaded)
    /\ UNCHANGED <<provisionVars, statusVars, surfaces, log, members, home, facts, refresh>>

\* onMutate: the refresh is not awaited, the sync is done at once.
OnMutate(srcs, svcs) ==
    /\ \E r \in Refreshes : StartRefresh(r)
    /\ Sync(srcs, svcs)
    /\ UNCHANGED <<surfaces, log, members, home, facts, reader>>

Mutated == OnMutate(sources, Loaded) /\ UNCHANGED <<provisionVars, statusVars>>

Registers(c) == Register(c) /\ OnMutate(sources', Loaded) /\ UNCHANGED statusVars

\* A redeploy has still to retire the old container before it is Mutated.
HostWritesAndSyncs ==
    /\ HostWrites
    /\ IF hostOp.syncs THEN OnMutate(sources, file') ELSE UNCHANGED <<ontologyVars, events>>
    /\ UNCHANGED provisionVars

-----------------------------------------------------------------------------
(* What the other files and the cluster become.                            *)

SurfacesChange ==
    /\ \E d \in Surfaces : surfaces' = IF d \in surfaces THEN surfaces \ {d} ELSE surfaces \cup {d}
    /\ UNCHANGED <<log, members, home, reader>>

\* A query or a write of a surface is logged by the dashboard.
DataOp ==
    /\ \E d \in surfaces, n \in {m \in Names : sources[m] # None}, e \in {"reads-from", "writes-to"} :
          log' = log \cup {[surface |-> d, edge |-> e, source |-> n]}
    /\ UNCHANGED <<surfaces, members, home, reader>>

MembersChange ==
    /\ \/ \E h \in Hosts : members' = members \cup {h}
       \/ \E h \in members : /\ \A k \in Containers : home[k] # h
                             /\ members' = members \ {h}
    /\ UNCHANGED <<surfaces, log, home, reader>>

ContainerMoves ==
    /\ \E k \in Containers, h \in members : home' = [home EXCEPT ![k] = h]
    /\ reader' = IF reader = None THEN None
                 ELSE [reader EXCEPT !.since = [k \in Containers |-> @[k] \cup {home'[k]}]]
    /\ UNCHANGED <<surfaces, log, members>>

Environment ==
    /\ Event
    /\ SurfacesChange \/ DataOp \/ MembersChange \/ ContainerMoves
    /\ UNCHANGED <<provisionVars, statusVars, facts, refresh, vault, intact>>

\* The agent host dies, perhaps during a sync, and starts again.
HostCrash ==
    /\ Event /\ ProvisionCrash
    /\ hostOp' = None
    /\ refresh' = [r \in Refreshes |-> NoRefresh] /\ reader' = None
    /\ \/ UNCHANGED <<vault, intact>>
       \/ LET d == Desired(sources, Loaded) IN
             \E W \in SUBSET d.nodes : vault' = Written(d, W) /\ intact' = FALSE
    /\ UNCHANGED <<file, torn, rounds, writer, healthy, registered, raced,
                   surfaces, log, members, home, facts>>

-----------------------------------------------------------------------------
ProvisionStep ==
    /\ \/ \E c \in Calls, n \in Names : Provision(c, n)
       \/ \E c \in Calls : Statement(c) \/ StatementFails(c)
    /\ UNCHANGED <<statusVars, ontologyVars>>

RefreshStep ==
    /\ \E r \in Refreshes : ReadHosts(r) \/ ReadPlacements(r) \/ RefreshFails(r)
    /\ UNCHANGED <<provisionVars, statusVars>>

Dashboard == DashboardStep /\ UNCHANGED <<provisionVars, ontologyVars>>

\* The agent host does nothing else while it writes services.json.
Deployment ==
    \/ hostOp = None /\ HostReads /\ UNCHANGED <<provisionVars, ontologyVars>>
    \/ HostWritesAndSyncs
    \/ HostWriteFails /\ UNCHANGED <<provisionVars, ontologyVars>>

AgentHost ==
    \/ /\ hostOp = None
       /\ \/ ProvisionStep \/ SyncTool \/ Reply \/ Mutated
          \/ \E r \in Refreshes : Request(r)
          \/ \E c \in Calls : Registers(c)
    \/ HostCrash

DashboardHost ==
    \/ Dashboard
    \/ (DashboardCrash \/ HealthChanges) /\ UNCHANGED <<provisionVars, ontologyVars>>

Next ==
    \/ Deployment \/ AgentHost \/ DashboardHost \/ Environment
    \/ hostOp = None /\ RefreshStep

\* The dashboard's timer fires, its probes time out and its callbacks return.
Spec == Init /\ [][Next]_vars /\ WF_vars(Dashboard)

-----------------------------------------------------------------------------
\* A sync that did not fail leaves no edge to a node that is not there, though
\* the files it reads are written at different times by different processes,
\* and the facts of one refresh are of two moments.
EdgesResolve == intact => \A e \in vault.edges : e[3] \in vault.nodes

\* What the comment on the route says of a reader: it sees no placement older
\* than its request, if its refresh and its sync worked and no refresh was
\* under way before it.
ReaderIsCurrent ==
    [][Reply /\ intact' /\ reader.alone =>
          \A k \in Containers, h \in Hosts :
             <<<<"container", k>>, "runs-on", <<"node", h>>>> \in vault'.edges =>
                h \in reader.since[k]]_vars
=============================================================================

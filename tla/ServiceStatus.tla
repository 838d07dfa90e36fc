---------------------------- MODULE ServiceStatus ----------------------------
(***************************************************************************)
(* services.json, which two processes write: the agent host when a service *)
(* is deployed, redeployed or destroyed (agent-host/src/services/          *)
(* registry.ts), and the dashboard host, whose probe sets the status of    *)
(* every entry (dashboard-host/src/services/probe.ts).                     *)
(*                                                                         *)
(* Each process reads, changes and writes the file within one callback, so *)
(* neither does anything else in between; the other one may.  The agent    *)
(* host replaces the file by a rename, the dashboard truncates it and      *)
(* writes: a file that is torn reads as empty, and what is written to a    *)
(* file that was replaced meanwhile is lost with it.                       *)
(***************************************************************************)
EXTENDS Events, FiniteSets

CONSTANTS Services, Containers,
          Rounds     \* bound: probe rounds under way at once

Entries == [ct : Containers, status : {"healthy", "unhealthy"}]

ASSUME EntriesAssumption == None \notin Entries

VARIABLES file,       \* service -> its entry, or None
          torn,       \* the file is truncated
          hostOp,     \* the agent host's write under way: the new list, or None
          rounds,     \* each round: services left and the container each had
          writer,     \* the dashboard's write under way, or None
          healthy,    \* containers that answer the probe
          registered, \* history: the container the agent host registered
          raced       \* history: a write of one process fell into the other's

statusVars == <<file, torn, hostOp, rounds, writer, healthy, registered, raced>>

NoEntry == [s \in Services |-> None]

Entry(k, status) == [ct |-> k, status |-> status]

\* One service is deployed.
StatusInit ==
    /\ \E s \in Services, k \in Containers :
          /\ file = [NoEntry EXCEPT ![s] = Entry(k, "healthy")]
          /\ registered = [NoEntry EXCEPT ![s] = k]
          /\ healthy = {k}
    /\ torn = FALSE /\ raced = FALSE
    /\ hostOp = None /\ writer = None
    /\ rounds = [r \in Rounds |-> NoEntry]

\* loadServices, in either process.
Loaded == IF torn THEN NoEntry ELSE file

Containered(entries) == [s \in Services |-> IF entries[s] = None THEN None ELSE entries[s].ct]

-----------------------------------------------------------------------------
(* The agent host.                                                         *)

\* appendService, replaceService and removeService: the list they write.
Appended(s, k) ==
    IF Loaded[s] = None THEN {[Loaded EXCEPT ![s] = Entry(k, "healthy")]} ELSE {}

Replaced(s, k) ==
    IF Loaded[s] # None THEN {[Loaded EXCEPT ![s] = Entry(k, "healthy")]} ELSE {}

Removed(s) == {[Loaded EXCEPT ![s] = None]}

\* The health gate of a container that is registered has passed.
HostReads ==
    /\ Event /\ hostOp = None
    /\ \E s \in Services, k \in Containers :
          \/ /\ \A t \in Services : registered[t] # k
             /\ hostOp' \in {[list |-> l, svc |-> s, now |-> k, syncs |-> TRUE] : l \in Appended(s, k)}
                      \cup {[list |-> l, svc |-> s, now |-> k, syncs |-> FALSE] : l \in Replaced(s, k)}
             /\ healthy' = healthy \cup {k}
          \/ /\ registered[s] # None
             /\ hostOp' \in {[list |-> l, svc |-> s, now |-> None, syncs |-> TRUE] : l \in Removed(s)}
             /\ UNCHANGED healthy
    /\ raced' = (raced \/ torn)
    /\ UNCHANGED <<file, torn, rounds, writer, registered>>

\* The rename; or the write fails and the old file stays.  (A sync follows the
\* rename of a new or a removed entry: module Ontology.)
HostWrites ==
    /\ hostOp # None /\ hostOp' = None
    /\ file' = hostOp.list /\ torn' = FALSE
    /\ registered' = [registered EXCEPT ![hostOp.svc] = hostOp.now]
    /\ raced' = (raced \/ (writer # None /\ ~writer.open))
    /\ UNCHANGED <<rounds, writer, healthy>>

HostWriteFails ==
    /\ Event
    /\ hostOp # None /\ hostOp' = None
    /\ UNCHANGED <<file, torn, rounds, writer, healthy, registered, raced>>

-----------------------------------------------------------------------------
(* The dashboard host.                                                     *)

Probing(r) == {s \in Services : rounds[r][s] # None}

\* The interval's timer fires, whether or not the last round is over.
StartRound(r) ==
    /\ writer = None /\ Probing(r) = {}
    /\ Loaded # NoEntry
    /\ rounds' = [rounds EXCEPT ![r] = Containered(Loaded)]
    /\ UNCHANGED <<file, torn, hostOp, writer, healthy, registered, raced, events>>

\* (mutant: a service that answers keeps the status it has)
probedKept(r, s, status) == IF rounds[r][s] \in healthy THEN status ELSE "unhealthy"

probed(r, s, status) == IF rounds[r][s] \in healthy THEN "healthy" ELSE "unhealthy"

\* (mutant: the list is the one the round began with)
statusListStale(r) == [s \in Services |-> IF rounds[r][s] = None THEN None ELSE Entry(rounds[r][s], "healthy")]

\* makeStatusWriter reads the list again.
statusList(r) == Loaded

\* A probe is answered, or times out, and the status writer reads the file; it
\* gives up when the file cannot be parsed.
StatusReads(r) ==
    /\ writer = None
    /\ \E s \in Probing(r) :
          /\ rounds' = [rounds EXCEPT ![r][s] = None]
          /\ LET list == statusList(r) IN
                writer' = IF torn THEN None
                          ELSE [open |-> FALSE, list |->
                                IF list[s] = None THEN list
                                ELSE [list EXCEPT ![s].status = probed(r, s, @)]]
    /\ UNCHANGED <<file, torn, hostOp, healthy, registered, raced, events>>

StatusOpens ==
    /\ writer # None /\ ~writer.open
    /\ writer' = [writer EXCEPT !.open = TRUE]
    /\ torn' = TRUE
    /\ UNCHANGED <<file, hostOp, rounds, healthy, registered, raced, events>>

StatusWrites ==
    /\ writer # None /\ writer.open
    /\ writer' = None
    /\ file' = IF torn THEN writer.list ELSE file
    /\ torn' = FALSE
    /\ UNCHANGED <<hostOp, rounds, healthy, registered, raced, events>>

\* The dashboard dies and starts again; a file it had truncated stays so.
DashboardCrash ==
    /\ Event
    /\ rounds' = [r \in Rounds |-> NoEntry] /\ writer' = None
    /\ UNCHANGED <<file, torn, hostOp, healthy, registered, raced>>

HealthChanges ==
    /\ Event
    /\ \E k \in Containers :
          healthy' = IF k \in healthy THEN healthy \ {k} ELSE healthy \cup {k}
    /\ UNCHANGED <<file, torn, hostOp, rounds, writer, registered, raced>>

DashboardStep ==
    \/ \E r \in Rounds : StartRound(r) \/ StatusReads(r)
    \/ StatusOpens \/ StatusWrites

-----------------------------------------------------------------------------
\* Rounds that overlap registrations, removals and one another bring no entry
\* back and lose none, unless one process writes in the moment in which the
\* other has the file half-read.
EntriesSurviveProbes ==
    ~raced /\ ~torn => Containered(file) = registered

\* Once nothing changes any more, every entry shows the health of its own
\* container, however late the rounds that began before a redeploy are; unless
\* a crash left the file torn.
StatusConverges ==
    <>[](torn \/ \A s \in Services : file[s] # None =>
                    (file[s].status = "healthy") = (file[s].ct \in healthy))
=============================================================================

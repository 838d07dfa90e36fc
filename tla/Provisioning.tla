---------------------------- MODULE Provisioning ----------------------------
(***************************************************************************)
(* Provisioning of databases (agent-host/src/infra/provision.ts): a role,  *)
(* a database, its grants and its DDL audit (infra/ddlAudit.ts) are        *)
(* created by one statement after another, with nothing rolled back when   *)
(* one fails, and the database is entered in data-sources.json last.       *)
(*                                                                         *)
(* A call is split at its awaits; calls of turns and of approved parked    *)
(* actions overlap.  A password is named by the call that generated it.    *)
(* PostgreSQL is outside the repository: a statement that creates what     *)
(* exists fails, and one whose connection breaks may have been executed.   *)
(***************************************************************************)
EXTENDS Events

CONSTANTS Names,     \* databases; a role has its database's name
          Calls      \* calls of provision_database

ASSUME ProvisioningAssumption == None \notin Calls

VARIABLES call,      \* each call: its next step and the name it provisions
          role,      \* the password of each name's role, or None
          databases, \* databases created
          audited,   \* databases with the DDL audit installed
          sources    \* data-sources.json: the password each entry connects with

provisionVars == <<call, role, databases, audited, sources>>

ProvisionInit ==
    /\ call = [c \in Calls |-> [pc |-> "idle", name |-> None]]
    /\ role = [n \in Names |-> None]
    /\ databases = {} /\ audited = {}
    /\ sources = [n \in Names |-> None]

At(c, step) == call[c].pc = step

Running(c) == call[c].pc \notin {"idle", "over"}

Goto(c, step) == call' = [call EXCEPT ![c].pc = step]

Provision(c, n) ==
    /\ Event /\ At(c, "idle")
    /\ call' = [call EXCEPT ![c] = [pc |-> "role", name |-> n]]
    /\ UNCHANGED <<role, databases, audited, sources>>

CreateRole(c, n) ==
    /\ At(c, "role") /\ role[n] = None
    /\ role' = [role EXCEPT ![n] = c]
    /\ UNCHANGED <<databases, audited, sources>>

CreateDatabase(c, n) ==
    /\ At(c, "database") /\ n \notin databases
    /\ databases' = databases \cup {n}
    /\ UNCHANGED <<role, audited, sources>>

\* GRANT, which repeats harmlessly.
Grant(c) == At(c, "grant") /\ UNCHANGED <<role, databases, audited, sources>>

\* The statements of the audit, which repeat harmlessly, as one.
EnsureDdlAudit(c, n) ==
    /\ At(c, "audit")
    /\ audited' = audited \cup {n}
    /\ UNCHANGED <<role, databases, sources>>

\* (mutant: the entry is written before the audit is installed)
afterEarly(step) ==
    CASE step = "role" -> "database" [] step = "database" -> "grant"
      [] step = "grant" -> "register" [] OTHER -> "over"

after(step) ==
    CASE step = "role" -> "database" [] step = "database" -> "grant"
      [] step = "grant" -> "audit" [] step = "audit" -> "register" [] OTHER -> "over"

Effect(c, n) == CreateRole(c, n) \/ CreateDatabase(c, n) \/ Grant(c) \/ EnsureDdlAudit(c, n)

\* A statement succeeds; or its connection breaks and the call ends, the
\* statement executed all the same.
Statement(c) ==
    /\ Effect(c, call[c].name)
    /\ \/ Goto(c, after(call[c].pc)) /\ UNCHANGED events
       \/ Goto(c, "over") /\ Event

\* What the statement creates exists, or the statement or the file's write
\* fails: the call ends, and what it has created stays.
StatementFails(c) ==
    /\ Running(c)
    /\ Goto(c, "over")
    /\ \/ Event
       \/ /\ \/ At(c, "role") /\ role[call[c].name] # None
             \/ At(c, "database") /\ call[c].name \in databases
          /\ UNCHANGED events
    /\ UNCHANGED <<role, databases, audited, sources>>

\* appendDataSource: an entry that is there stays as it is.  (A sync follows in
\* the same callback: module Ontology.)
Register(c) ==
    /\ At(c, "register") /\ Goto(c, "over")
    /\ LET n == call[c].name IN
          sources' = IF sources[n] = None THEN [sources EXCEPT ![n] = c] ELSE sources
    /\ UNCHANGED <<role, databases, audited>>

\* The host dies, and its calls with it.
ProvisionCrash ==
    /\ call' = [c \in Calls |-> IF Running(c) THEN [call[c] EXCEPT !.pc = "over"] ELSE call[c]]
    /\ UNCHANGED <<role, databases, audited, sources>>

\* A data source that the host has registered can be used: its database
\* exists with the audit installed, and its role has the password of the entry.
\* Overlapping calls, retries and failures half-way do not produce another.
SourceIsUsable ==
    \A n \in Names : sources[n] # None =>
        role[n] = sources[n] /\ n \in databases /\ n \in audited
=============================================================================

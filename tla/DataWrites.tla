----------------------------- MODULE DataWrites -----------------------------
(***************************************************************************)
(* Data writes of agent-built surfaces: dashboard-host/src/data/writes.ts  *)
(* (the queue of pending writes and executeWrite), router.ts (the routes   *)
(* that submit and resolve them) and trust.ts (surfaces whose writes skip  *)
(* the queue).                                                             *)
(*                                                                         *)
(* Queue and statuses live in memory; the trust file, the audit log and    *)
(* the database outlive the process.  A write of a file may throw, and the *)
(* process may die: Node ends it when the router's handler rejects, which  *)
(* Express 4 does not catch.  One source: a trusted pair is its surface.   *)
(***************************************************************************)
EXTENDS Naturals, FiniteSets

CONSTANTS Writes,     \* write requests; each is submitted once
          Surfaces,   \* surfaces with a token
          Operators,  \* logins of the operators
          NoSurface,  \* the request carried no valid surface token
          NoOne,      \* no operator
          MaxFaults,  \* bound on file writes that throw
          MaxCrashes  \* bound on crashes

ASSUME DataAssumption ==
    /\ NoSurface \notin Surfaces /\ NoOne \notin Operators
    /\ MaxFaults \in Nat /\ MaxCrashes \in Nat

VARIABLES up,       \* the host process is running
          op,       \* write -> what it asks for, "none" before it is submitted
          surface,  \* write -> the surface its token named
          auth,     \* write -> on whose authority it was run last
          status,   \* write -> PendingQueue's status
          actor,    \* write -> who decided it, by that status
          wish,     \* write -> the winning approval asked to trust the surface
          awaited,  \* writes whose statement this process awaits
          stmt,     \* write -> its statement in the database
          runs,     \* write -> how often it was handed to the database
          trust,    \* the trust file: surface -> who granted it, or NoOne
          log,      \* write -> its lines in the audit log (those of grants left out)
          told,     \* write -> who a losing operator was told had decided it
          panel,    \* writes that a connected operator's panel shows
          watching, \* the panel's stream is connected
          faults, crashes

vars == <<up, op, surface, auth, status, actor, wish, awaited, stmt, runs,
          trust, log, told, panel, watching, faults, crashes>>

Fault(f) == IF f = "none" THEN UNCHANGED faults
                          ELSE faults < MaxFaults /\ faults' = faults + 1

Pending == {w \in Writes : status[w] = "pending"}

appendAudit(w, line) == log' = [log EXCEPT ![w] = @ \cup {line}]

\* The listeners of the queue, that is the streams of the connected panels.
added(w) == panel' = IF watching THEN panel \cup {w} ELSE panel
resolved(w) == panel' = panel \ {w}

Init ==
    /\ up = TRUE
    /\ op = [w \in Writes |-> "none"]
    /\ surface = [w \in Writes |-> NoSurface]
    /\ auth = [w \in Writes |-> "none"]
    /\ status = [w \in Writes |-> "absent"]
    /\ actor = [w \in Writes |-> NoOne]
    /\ wish = [w \in Writes |-> FALSE]
    /\ awaited = {}
    /\ stmt = [w \in Writes |-> "none"]
    /\ runs = [w \in Writes |-> 0]
    /\ trust = [s \in Surfaces |-> NoOne]
    /\ log = [w \in Writes |-> {}]
    /\ told = [w \in Writes |-> {}]
    /\ panel = {}
    /\ watching = FALSE
    /\ faults = 0
    /\ crashes = 0

-----------------------------------------------------------------------------
(* executeWrite, up to its await.                                          *)

hand(w, a) ==
    /\ auth' = [auth EXCEPT ![w] = a]
    /\ awaited' = awaited \cup {w}
    /\ stmt' = [stmt EXCEPT ![w] = "sent"]
    /\ runs' = [runs EXCEPT ![w] = @ + 1]

(* POST /:source/write.  A deletion always waits for an operator.          *)

\* Mutant: trust covers deletions too.
isTrustedForAll(s, k) == s \in Surfaces /\ trust[s] # NoOne

isTrusted(s, k) == k # "delete" /\ s \in Surfaces /\ trust[s] # NoOne

Submit(w, s, k) ==
    /\ up /\ op[w] = "none"
    /\ op' = [op EXCEPT ![w] = k]
    /\ surface' = [surface EXCEPT ![w] = s]
    /\ \/ /\ isTrusted(s, k)
          /\ hand(w, "trust")
          /\ UNCHANGED <<status, panel>>
       \/ /\ ~isTrusted(s, k)
          /\ status' = [status EXCEPT ![w] = "pending"]
          /\ added(w)
          /\ UNCHANGED <<auth, awaited, stmt, runs>>
    /\ UNCHANGED <<up, actor, wish, trust, log, told, watching, faults, crashes>>

-----------------------------------------------------------------------------
(* POST /pending/:id/resolve.  An approval leaves "pending" before the     *)
(* await of the database, and names its operator.                          *)

\* Mutant: the write stays open for decisions while the database works.
openWhileExecuting(w) == status[w] \in {"pending", "executing"}

open(w) == status[w] = "pending"

decidedBy(w, o) == actor' = [actor EXCEPT ![w] = o]

Approve(w, o, t) ==
    /\ up /\ open(w)
    /\ status' = [status EXCEPT ![w] = "executing"]
    /\ decidedBy(w, o)
    /\ wish' = [wish EXCEPT ![w] = t]
    /\ hand(w, "approval")
    /\ UNCHANGED <<up, op, surface, trust, log, told, panel, watching, faults, crashes>>

\* When the log cannot be written the status has changed already and the
\* panels are not told.
Deny(w, o, f) ==
    /\ up /\ open(w)
    /\ f \in {"none", "audit"} /\ Fault(f)
    /\ status' = [status EXCEPT ![w] = "denied"]
    /\ decidedBy(w, o)
    /\ IF f = "none" THEN appendAudit(w, <<"denied", o>>) /\ resolved(w)
                     ELSE UNCHANGED <<log, panel>>
    /\ UNCHANGED <<up, op, surface, auth, wish, awaited, stmt, runs, trust, told, watching, crashes>>

\* Mutant: the checkbox of an approval that lost the race counts.
lateGrantCounts(w, o, t) ==
    trust' = [s \in Surfaces |-> IF t /\ s = surface[w] /\ trust[s] = NoOne THEN o ELSE trust[s]]

\* An approval that lost the race grants nothing.
lateGrant(w, o, t) == UNCHANGED trust

\* The card of a decision that came too late is spent: it goes, if the panel is
\* the one the decision was taken on.
spent(w) == panel' \in {panel, panel \ {w}}

\* A second decision is answered 409 with the name of the first operator.
TooLate(w, o, t) ==
    /\ up /\ status[w] # "absent" /\ ~open(w)
    /\ told' = [told EXCEPT ![w] = @ \cup {actor[w]}]
    /\ lateGrant(w, o, t)
    /\ spent(w)
    /\ UNCHANGED <<up, op, surface, auth, status, actor, wish, awaited, stmt, runs,
                   log, watching, faults, crashes>>

-----------------------------------------------------------------------------
(* The database, and what the process does when it answers.                *)

\* The database commits the statement, whether or not its client still lives.
DbCommits(w) ==
    /\ stmt[w] = "sent"
    /\ stmt' = [stmt EXCEPT ![w] = "committed"]
    /\ UNCHANGED <<up, op, surface, auth, status, actor, wish, awaited, runs, trust,
                   log, told, panel, watching, faults, crashes>>

\* The process ends: queue, promises and streams are gone.
Dies ==
    /\ up' = FALSE
    /\ status' = [w \in Writes |-> "absent"]
    /\ actor' = [w \in Writes |-> NoOne]
    /\ awaited' = {}
    /\ panel' = {}
    /\ watching' = FALSE

by(w) == IF auth[w] = "approval" THEN actor[w] ELSE NoOne

Grants(w) == auth[w] = "approval" /\ wish[w] /\ surface[w] \in Surfaces

\* addTrust: a pair that is there keeps its granter.
addTrust(w) ==
    trust' = [trust EXCEPT ![surface[w]] = IF @ = NoOne THEN actor[w] ELSE @]

\* Mutant: only a success is told to the panels.
settledQuietly(w, st) ==
    IF auth[w] = "approval"
    THEN /\ status' = [status EXCEPT ![w] = st]
         /\ IF st = "executed" THEN resolved(w) ELSE UNCHANGED panel
    ELSE UNCHANGED <<status, panel>>

\* The status of a queued write, and the word to the panels; a trusted write
\* has neither.
settled(w, st) ==
    IF auth[w] = "approval" THEN status' = [status EXCEPT ![w] = st] /\ resolved(w)
                            ELSE UNCHANGED <<status, panel>>

\* The statement succeeded and the log shows it; then the trust that the
\* winning approval asked for.
RunSucceeds(w) ==
    /\ up /\ w \in awaited /\ stmt[w] = "committed"
    /\ awaited' = awaited \ {w}
    /\ appendAudit(w, <<"executed", by(w)>>)
    /\ settled(w, "executed")
    /\ IF Grants(w) THEN addTrust(w) ELSE UNCHANGED trust
    /\ UNCHANGED <<up, op, surface, auth, actor, wish, stmt, runs, told, watching, faults, crashes>>

\* The statement succeeded, and the trust file or the line "trust-granted"
\* could not be written.  A plain writeFileSync that fails may leave an empty
\* file, which loads as no trust at all.
GrantFails(w, f) ==
    /\ up /\ w \in awaited /\ stmt[w] = "committed" /\ Grants(w)
    /\ f \in {"trust", "audit"} /\ Fault(f)
    /\ appendAudit(w, <<"executed", by(w)>>)
    /\ \/ f = "audit" /\ addTrust(w)
       \/ f = "trust" /\ trust[surface[w]] = NoOne
                      /\ trust' \in {trust, [s \in Surfaces |-> NoOne]}
    /\ Dies
    /\ UNCHANGED <<op, surface, auth, wish, stmt, runs, told, crashes>>

\* The statement failed, or it succeeded and the line "executed" could not be
\* written, or the connection broke and nobody knows: executeWrite logs "error"
\* and throws.
RunFails(w, f) ==
    /\ up /\ w \in awaited
    /\ f \in {"none", "audit"} /\ Fault(f)
    /\ awaited' = awaited \ {w}
    /\ \/ stmt[w] = "sent" /\ stmt' = [stmt EXCEPT ![w] = "failed"]
       \/ UNCHANGED stmt
    /\ IF f = "none" THEN appendAudit(w, <<"error", NoOne>>) ELSE UNCHANGED log
    /\ settled(w, "failed")
    /\ UNCHANGED <<up, op, surface, auth, actor, wish, runs, trust, told, watching, crashes>>

-----------------------------------------------------------------------------
(* Panels come and go, and so does the process.                            *)

\* GET /pending/stream: the snapshot and the subscription are one step.
Connect ==
    /\ up /\ ~watching
    /\ watching' = TRUE
    /\ panel' = Pending
    /\ UNCHANGED <<up, op, surface, auth, status, actor, wish, awaited, stmt, runs,
                   trust, log, told, faults, crashes>>

Disconnect ==
    /\ watching
    /\ watching' = FALSE
    /\ panel' = {}
    /\ UNCHANGED <<up, op, surface, auth, status, actor, wish, awaited, stmt, runs,
                   trust, log, told, faults, crashes>>

Crash ==
    /\ up /\ crashes < MaxCrashes
    /\ crashes' = crashes + 1
    /\ Dies
    /\ UNCHANGED <<op, surface, auth, wish, stmt, runs, trust, log, told, faults>>

Boot ==
    /\ ~up
    /\ up' = TRUE
    /\ UNCHANGED <<op, surface, auth, status, actor, wish, awaited, stmt, runs,
                   trust, log, told, panel, watching, faults, crashes>>

Next ==
    \/ \E w \in Writes, s \in Surfaces \cup {NoSurface}, k \in {"edit", "delete"} : Submit(w, s, k)
    \/ \E w \in Writes, o \in Operators, t \in BOOLEAN : Approve(w, o, t)
    \/ \E w \in Writes, o \in Operators, f \in {"none", "audit"} : Deny(w, o, f)
    \/ \E w \in Writes, o \in Operators, t \in BOOLEAN : TooLate(w, o, t)
    \/ \E w \in Writes : DbCommits(w)
    \/ \E w \in Writes : RunSucceeds(w)
    \/ \E w \in Writes, f \in {"trust", "audit"} : GrantFails(w, f)
    \/ \E w \in Writes, f \in {"none", "audit"} : RunFails(w, f)
    \/ Connect
    \/ Disconnect
    \/ Crash
    \/ Boot

Spec == Init /\ [][Next]_vars

-----------------------------------------------------------------------------

Lines == {"executed", "denied", "error"} \X (Operators \cup {NoOne})

TypeOK ==
    /\ up \in BOOLEAN
    /\ op \in [Writes -> {"none", "edit", "delete"}]
    /\ surface \in [Writes -> Surfaces \cup {NoSurface}]
    /\ auth \in [Writes -> {"none", "approval", "trust"}]
    /\ status \in [Writes -> {"absent", "pending", "executing", "executed", "denied", "failed"}]
    /\ actor \in [Writes -> Operators \cup {NoOne}]
    /\ wish \in [Writes -> BOOLEAN]
    /\ awaited \in SUBSET Writes
    /\ stmt \in [Writes -> {"none", "sent", "committed", "failed"}]
    /\ runs \in [Writes -> Nat]
    /\ trust \in [Surfaces -> Operators \cup {NoOne}]
    /\ log \in [Writes -> SUBSET Lines]
    /\ told \in [Writes -> SUBSET (Operators \cup {NoOne})]
    /\ panel \in SUBSET Writes
    /\ watching \in BOOLEAN
    /\ faults \in 0..MaxFaults
    /\ crashes \in 0..MaxCrashes

\* A write is handed to the database at most once, however many operators press
\* approve together and whatever fails after the first (writes.ts:79-89).
RunsAtMostOnce == \A w \in Writes : runs[w] <= 1

\* Operator o approved a write of surface s, asked for trust, and it executed.
VouchedFor(s, o) ==
    \E w \in Writes : surface[w] = s /\ wish[w] /\ <<"executed", o>> \in log[w]

\* A standing rule rides on an approval that won and executed, and names the
\* operator who gave it (router.ts:112-115); what runs under such a rule
\* is never a deletion (router.ts:52-54).
TrustRidesOnApproval ==
    /\ \A s \in Surfaces : trust[s] # NoOne => VouchedFor(s, trust[s])
    /\ \A w \in Writes : auth[w] = "trust" =>
          op[w] = "edit" /\ \E o \in Operators : VouchedFor(surface[w], o)

\* The operators who came too late are told the one name that the audit log
\* holds against the write (router.ts:106-121, writes.ts:87-89).
LoserLearnsWinner ==
    \A w \in Writes : \A o \in told[w] :
        /\ o # NoOne
        /\ \A line \in log[w] : line[2] \in {o, NoOne}
        /\ status[w] # "absent" => actor[w] = o

\* The audit log does not claim an execution that did not happen, calls nothing
\* denied that reached the database, has one line per write, and misses a
\* change of the database only after a crash or a failed write of the log.
LogMatchesDatabase ==
    \A w \in Writes :
        /\ Cardinality(log[w]) <= 1
        /\ \A line \in log[w] :
              /\ line[1] = "executed" => stmt[w] = "committed"
              /\ line[1] = "denied" => runs[w] = 0
        /\ stmt[w] = "committed" /\ w \notin awaited /\ faults = 0 /\ crashes = 0 => log[w] # {}

\* A connected panel shows every write that waits for a decision, and no write
\* that is past one and past its execution, while no file write has failed.
PanelIsCurrent ==
    watching /\ faults = 0 =>
        /\ Pending \subseteq panel
        /\ \A w \in panel : status[w] \in {"pending", "executing"}
=============================================================================

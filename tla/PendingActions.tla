--------------------------- MODULE PendingActions ---------------------------
(***************************************************************************)
(* The approval queue of gated infrastructure actions:                     *)
(* agent-host/src/infra/pending.ts (the queue and its file), router.ts     *)
(* (the operator's decision), server.ts (the gates that propose) and       *)
(* executeParked in index.ts (the background run of an approved proposal). *)
(*                                                                         *)
(* A blocking proposal holds the turn that made it: its gate awaits the    *)
(* decision and the tool then runs inside the turn.  A parked proposal     *)
(* returns at once and is run by the router when it is approved.           *)
(*                                                                         *)
(* Every write of the queue's file or of the audit log may throw (MaxFaults*)
(* times, and not twice in one handler), and the host may crash and boot   *)
(* again (MaxCrashes times).  The file is replaced by a rename, so a failed*)
(* write leaves the old one.                                               *)
(***************************************************************************)
EXTENDS Naturals, FiniteSets

CONSTANTS Actions,    \* pendingIds; each is minted once (a UUID)
          MaxFaults,  \* bound on writes that throw
          MaxCrashes  \* bound on crashes

ASSUME PendingAssumption == MaxFaults \in Nat /\ MaxCrashes \in Nat

Modes == {"blocking", "parked"}
Status == {"pending", "approved", "denied", "executed", "failed", "expired"}

VARIABLES up,        \* the host process is running
          mode,      \* action -> how it was proposed, "none" before that
          mem,       \* action -> status of its entry in memory
          disk,      \* action -> status of its entry in the file
          gate,      \* blocking: where the turn that proposed it is
          exec,      \* the gated executor is at work on it in this process
          hung,      \* actions whose executor in this process will never answer
          effects,   \* how often its effect has been started, ever
          outcome,   \* what the executor's promise said
          decision,  \* the decision last accepted from an operator
          audit,     \* the decisions in the audit log
          faults, crashes

vars == <<up, mode, mem, disk, gate, exec, hung, effects, outcome, decision, audit, faults, crashes>>

-----------------------------------------------------------------------------
(* What may go wrong with the writes of one handler: which of them throws. *)

Failing(f) == IF f = "none" THEN UNCHANGED faults
                            ELSE faults < MaxFaults /\ faults' = faults + 1

\* save(): the whole map replaces the file, unless the write throws.
save(f) == disk' = IF f = "save" THEN disk ELSE mem'

appendAudit(a, d) == audit' = [audit EXCEPT ![a] = @ \cup {d}]

startEffect(a) == /\ effects' = [effects EXCEPT ![a] = @ + 1]
                  /\ exec' = [exec EXCEPT ![a] = TRUE]

Init ==
    /\ up = TRUE
    /\ mode = [a \in Actions |-> "none"]
    /\ mem = [a \in Actions |-> "absent"]
    /\ disk = [a \in Actions |-> "absent"]
    /\ gate = [a \in Actions |-> "none"]
    /\ exec = [a \in Actions |-> FALSE]
    /\ hung = {}
    /\ effects = [a \in Actions |-> 0]
    /\ outcome = [a \in Actions |-> "none"]
    /\ decision = [a \in Actions |-> "none"]
    /\ audit = [a \in Actions |-> {}]
    /\ faults = 0
    /\ crashes = 0

-----------------------------------------------------------------------------
(* makeCanUseTool: a gated tool is called.  The entry is in the map before *)
(* save() can throw, so a proposal whose save failed is still listed and   *)
(* can be approved, though its caller was handed the error.                *)

ProposeBlocking(a, f) ==
    /\ up /\ mode[a] = "none"
    /\ f \in {"none", "save"} /\ Failing(f)
    /\ mode' = [mode EXCEPT ![a] = "blocking"]
    /\ mem' = [mem EXCEPT ![a] = "pending"]
    /\ save(f)
    /\ gate' = [gate EXCEPT ![a] = IF f = "none" THEN "waiting" ELSE "refused"]
    /\ UNCHANGED <<up, exec, hung, effects, outcome, decision, audit, crashes>>

ProposeParked(a, f) ==
    /\ up /\ mode[a] = "none"
    /\ f \in {"none", "save", "audit"} /\ Failing(f)
    /\ mode' = [mode EXCEPT ![a] = "parked"]
    /\ mem' = [mem EXCEPT ![a] = "pending"]
    /\ save(f)
    /\ IF f = "none" THEN appendAudit(a, "parked") ELSE UNCHANGED audit
    /\ UNCHANGED <<up, gate, exec, hung, effects, outcome, decision, crashes>>

-----------------------------------------------------------------------------
(* POST /pending/:id/resolve.  A settled entry answers 409 and changes     *)
(* nothing.  The awaiting gate is released before save() can throw; the    *)
(* audit line and the background run come after it.                        *)

\* Mutant: a settled entry is not turned away.
stillPendingUnlessDenied(a) == mem[a] \in {"pending", "approved", "executed"}

stillPending(a) == mem[a] = "pending"

Resolve(a, d, f) ==
    /\ up /\ stillPending(a)
    /\ f \in {"none", "save"} \cup (IF mode[a] = "parked" THEN {"audit"} ELSE {})
    /\ Failing(f)
    /\ decision' = [decision EXCEPT ![a] = d]
    /\ mem' = [mem EXCEPT ![a] = IF d = "approve" THEN "approved" ELSE "denied"]
    /\ gate' = [gate EXCEPT ![a] = IF @ = "waiting" THEN d ELSE @]
    /\ save(f)
    /\ IF mode[a] = "parked" /\ f = "none"
       THEN /\ appendAudit(a, mem'[a])
            /\ IF d = "approve" THEN startEffect(a) ELSE UNCHANGED <<effects, exec>>
       ELSE UNCHANGED <<audit, effects, exec>>
    /\ UNCHANGED <<up, mode, hung, outcome, crashes>>

\* Mutant: an audit log that cannot be written does not stop the call.
verdictIgnoresLog(d, f) == IF d = "approve" THEN "allowed" ELSE "refused"

verdict(d, f) == IF d = "approve" /\ f = "none" THEN "allowed" ELSE "refused"

\* The gate resumes with the decision, writes it to the audit log and allows or
\* denies the call.  When the log cannot be written the call is not allowed.
GateContinues(a, f) ==
    /\ up /\ gate[a] \in {"approve", "deny"}
    /\ f \in {"none", "audit"} /\ Failing(f)
    /\ gate' = [gate EXCEPT ![a] = verdict(@, f)]
    /\ IF f = "none" THEN appendAudit(a, IF gate[a] = "approve" THEN "approved" ELSE "denied")
                     ELSE UNCHANGED audit
    /\ UNCHANGED <<up, mode, mem, disk, exec, hung, effects, outcome, decision, crashes>>

\* The executor awaits pool.query and the ssh of a deployment without a time-out:
\* it may be waiting for an answer that never comes.
Hangs(a) ==
    /\ up /\ exec[a] /\ a \notin hung
    /\ hung' = hung \cup {a}
    /\ UNCHANGED <<up, mode, mem, disk, gate, exec, effects, outcome, decision, audit,
                   faults, crashes>>

Answers(a) == exec[a] /\ a \notin hung

\* The turn calls the tool it was allowed to call, once.
RunTool(a) ==
    /\ up /\ gate[a] = "allowed"
    /\ gate' = [gate EXCEPT ![a] = "called"]
    /\ startEffect(a)
    /\ UNCHANGED <<up, mode, mem, disk, hung, outcome, decision, audit, faults, crashes>>

ToolReturns(a, r) ==
    /\ up /\ Answers(a) /\ mode[a] = "blocking"
    /\ exec' = [exec EXCEPT ![a] = FALSE]
    /\ outcome' = [outcome EXCEPT ![a] = r]
    /\ UNCHANGED <<up, mode, mem, disk, gate, hung, effects, decision, audit, faults, crashes>>

-----------------------------------------------------------------------------
(* executeParked: the executor's promise settles.                          *)

\* recordOutcome: only an approved entry takes an outcome.
recordOutcome(a, o) == mem' = IF mem[a] = "approved" THEN [mem EXCEPT ![a] = o] ELSE mem

\* A failure to record or to audit "executed" lands in the catch block: the
\* entry has left "approved", so "failed" is not recorded, but the log says
\* "error".
ParkedSucceeds(a, f) ==
    /\ up /\ Answers(a) /\ mode[a] = "parked"
    /\ f \in {"none", "save", "audit"} /\ Failing(f)
    /\ exec' = [exec EXCEPT ![a] = FALSE]
    /\ outcome' = [outcome EXCEPT ![a] = "ok"]
    /\ recordOutcome(a, "executed")
    /\ save(f)
    /\ appendAudit(a, IF f = "none" THEN "executed" ELSE "error")
    /\ UNCHANGED <<up, mode, gate, hung, effects, decision, crashes>>

\* A failure inside the catch block rejects a promise nobody awaits: Node ends
\* the process.
ParkedFails(a, f) ==
    /\ up /\ Answers(a) /\ mode[a] = "parked"
    /\ f \in {"none", "save", "audit"} /\ Failing(f)
    /\ outcome' = [outcome EXCEPT ![a] = "error"]
    /\ recordOutcome(a, "failed")
    /\ save(f)
    /\ IF f = "none"
       THEN /\ appendAudit(a, "error")
            /\ exec' = [exec EXCEPT ![a] = FALSE]
            /\ UNCHANGED <<up, gate, hung>>
       ELSE /\ up' = FALSE
            /\ exec' = [b \in Actions |-> FALSE]
            /\ hung' = {}
            /\ gate' = [b \in Actions |-> "none"]
            /\ UNCHANGED audit
    /\ UNCHANGED <<mode, effects, decision, crashes>>

-----------------------------------------------------------------------------
(* The process dies with its promises and its map; load() reads the file.  *)

Crash ==
    /\ up /\ crashes < MaxCrashes
    /\ crashes' = crashes + 1
    /\ up' = FALSE
    /\ exec' = [a \in Actions |-> FALSE]
    /\ hung' = {}
    /\ gate' = [a \in Actions |-> "none"]
    /\ UNCHANGED <<mode, mem, disk, effects, outcome, decision, audit, faults>>

\* Mutant: an approved parked entry is offered for approval again.
loadedRetries(a) ==
    CASE disk[a] = "pending" /\ mode[a] = "blocking" -> "expired"
      [] disk[a] = "approved" /\ mode[a] = "parked" -> "pending"
      [] OTHER -> disk[a]

\* Mutant: an approved parked entry is taken to have run.
loadedAssumesDone(a) ==
    CASE disk[a] = "pending" /\ mode[a] = "blocking" -> "expired"
      [] disk[a] = "approved" /\ mode[a] = "parked" -> "executed"
      [] OTHER -> disk[a]

\* Mutant: a blocking entry survives the turn that awaits it, and an approved
\* parked one is left as it is.
loadedVerbatim(a) == disk[a]

\* What load() makes of an entry: a blocking proposal lost its turn, and a
\* parked one that was approved but not completed is never run again.
loaded(a) ==
    CASE disk[a] = "pending" /\ mode[a] = "blocking" -> "expired"
      [] disk[a] = "approved" /\ mode[a] = "parked" -> "failed"
      [] OTHER -> disk[a]

Boot ==
    /\ ~up
    /\ up' = TRUE
    /\ mem' = [a \in Actions |-> loaded(a)]
    /\ disk' = mem'
    /\ UNCHANGED <<mode, gate, exec, hung, effects, outcome, decision, audit, faults, crashes>>

Faults == {"none", "save", "audit"}

Next ==
    \/ \E a \in Actions, f \in Faults : ProposeBlocking(a, f)
    \/ \E a \in Actions, f \in Faults : ProposeParked(a, f)
    \/ \E a \in Actions, d \in {"approve", "deny"}, f \in Faults : Resolve(a, d, f)
    \/ \E a \in Actions, f \in Faults : GateContinues(a, f)
    \/ \E a \in Actions : RunTool(a) \/ Hangs(a)
    \/ \E a \in Actions, r \in {"ok", "error"} : ToolReturns(a, r)
    \/ \E a \in Actions, f \in Faults : ParkedSucceeds(a, f)
    \/ \E a \in Actions, f \in Faults : ParkedFails(a, f)
    \/ Crash
    \/ Boot

Spec == Init /\ [][Next]_vars

\* systemd restarts the host, and an executor that does not hang settles one way
\* or the other.  That executors answer at all is not assumed, and operators,
\* turns and their gates owe nothing.
Fairness ==
    /\ WF_vars(Boot)
    /\ \A a \in Actions : WF_vars(\E f \in Faults : ParkedSucceeds(a, f) \/ ParkedFails(a, f))

FairSpec == Spec /\ Fairness

-----------------------------------------------------------------------------

TypeOK ==
    /\ up \in BOOLEAN
    /\ mode \in [Actions -> Modes \cup {"none"}]
    /\ mem \in [Actions -> Status \cup {"absent"}]
    /\ disk \in [Actions -> Status \cup {"absent"}]
    /\ gate \in [Actions -> {"none", "waiting", "approve", "deny", "allowed", "refused", "called"}]
    /\ exec \in [Actions -> BOOLEAN]
    /\ hung \subseteq Actions
    /\ effects \in [Actions -> Nat]
    /\ outcome \in [Actions -> {"none", "ok", "error"}]
    /\ decision \in [Actions -> {"none", "approve", "deny"}]
    /\ audit \in [Actions -> SUBSET {"parked", "approved", "denied", "executed", "error"}]
    /\ faults \in 0..MaxFaults
    /\ crashes \in 0..MaxCrashes

\* An action's effect is started at most once, over every crash, every failed
\* write and every pair of operators who press approve together.
AtMostOneRun == \A a \in Actions : effects[a] <= 1

\* An action that has been started is not offered for approval again, by this
\* process or by the one that would boot from the file as it is now.
RunIsNeverOfferedAgain ==
    \A a \in Actions : effects[a] > 0 =>
        /\ up => mem[a] # "pending"
        /\ loaded(a) # "pending"

\* An effect starts only after an operator's approval was the last decision
\* taken, and after the audit log shows it.
RunsOnlyApproved ==
    [][\A a \in Actions : effects'[a] > effects[a] =>
          /\ decision'[a] = "approve"
          /\ "approved" \in audit'[a]]_vars

\* What the file says of a finished action is final: no boot, no late outcome
\* and no second decision changes it.
TerminalIsFinal ==
    [][\A a \in Actions :
          disk[a] \in {"denied", "executed", "failed", "expired"} => disk'[a] = disk[a]]_vars

\* While no write fails, the queue does not report a run that succeeded as
\* failed, nor one that failed or was cut off as executed.
StatusMatchesOutcome ==
    faults = 0 => \A a \in Actions :
        /\ mem[a] = "executed" => outcome[a] = "ok"
        /\ mem[a] = "failed" => outcome[a] # "ok"

\* An approved parked action ends up executed or failed, unless a write fails or
\* its executor hangs and the host is never restarted: nothing else keeps it
\* approved, and a restart ends also the one that hangs.
ApprovedParkedCompletes ==
    \A a \in Actions :
        (mode[a] = "parked" /\ mem[a] = "approved") ~>
        (mem[a] \in {"executed", "failed"} \/ faults > 0 \/ [](a \in hung))
=============================================================================

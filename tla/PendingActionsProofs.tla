------------------------ MODULE PendingActionsProofs ------------------------
(***************************************************************************)
(* Proofs about the approval queue, for every set of actions and every     *)
(* bound on failed writes and crashes.                                     *)
(***************************************************************************)
EXTENDS PendingActions, TLAPS

-----------------------------------------------------------------------------

LEMMA TypeInit == Init => TypeOK
  BY PendingAssumption DEF Init, TypeOK, Modes, Status

LEMMA LoadedType ==
  ASSUME TypeOK, NEW a \in Actions
  PROVE  loaded(a) \in Status \cup {"absent"}
  BY DEF TypeOK, loaded, Status

LEMMA FailingType ==
  ASSUME TypeOK, NEW f, Failing(f)
  PROVE  faults' \in 0..MaxFaults
  BY PendingAssumption DEF TypeOK, Failing

\* Every step preserves the types: one step of the proof per action.
LEMMA TypeStep == TypeOK /\ [Next]_vars => TypeOK'
<1> SUFFICES ASSUME TypeOK, [Next]_vars PROVE TypeOK'
  OBVIOUS
<1> USE DEF Modes, Status
<1>1. CASE UNCHANGED vars
  BY <1>1 DEF TypeOK, vars
<1>2. ASSUME NEW a \in Actions, NEW f \in Faults, ProposeBlocking(a, f) PROVE TypeOK'
  <2>1. faults' \in 0..MaxFaults
    BY <1>2, FailingType DEF ProposeBlocking
  <2> QED
    BY <1>2, <2>1 DEF TypeOK, ProposeBlocking, save
<1>3. ASSUME NEW a \in Actions, NEW f \in Faults, ProposeParked(a, f) PROVE TypeOK'
  <2>1. faults' \in 0..MaxFaults
    BY <1>3, FailingType DEF ProposeParked
  <2> QED
    BY <1>3, <2>1 DEF TypeOK, ProposeParked, save, appendAudit
<1>4. ASSUME NEW a \in Actions, NEW d \in {"approve", "deny"}, NEW f \in Faults, Resolve(a, d, f)
      PROVE TypeOK'
  <2>1. faults' \in 0..MaxFaults
    BY <1>4, FailingType DEF Resolve
  <2>2. mem'[a] \in {"approved", "denied"}
    BY <1>4 DEF TypeOK, Resolve
  <2>3. CASE mode[a] = "parked" /\ f = "none"
    <3>1. exec' \in [Actions -> BOOLEAN]
      BY <1>4, <2>3 DEF TypeOK, Resolve, startEffect
    <3>2. effects' \in [Actions -> Nat]
      BY <1>4, <2>3 DEF TypeOK, Resolve, startEffect
    <3>3. audit' \in [Actions -> SUBSET {"parked", "approved", "denied", "executed", "error"}]
      BY <1>4, <2>2, <2>3 DEF TypeOK, Resolve, appendAudit
    <3> QED
      BY <1>4, <2>1, <2>3, <3>1, <3>2, <3>3 DEF TypeOK, Resolve, save
  <2>4. CASE ~(mode[a] = "parked" /\ f = "none")
    BY <1>4, <2>1, <2>4 DEF TypeOK, Resolve, save
  <2> QED
    BY <2>3, <2>4
<1>5. ASSUME NEW a \in Actions, NEW f \in Faults, GateContinues(a, f) PROVE TypeOK'
  <2>1. faults' \in 0..MaxFaults
    BY <1>5, FailingType DEF GateContinues
  <2> QED
    BY <1>5, <2>1 DEF TypeOK, GateContinues, appendAudit, verdict
<1>6. ASSUME NEW a \in Actions, RunTool(a) PROVE TypeOK'
  BY <1>6 DEF TypeOK, RunTool, startEffect
<1>7. ASSUME NEW a \in Actions, NEW r \in {"ok", "error"}, ToolReturns(a, r) PROVE TypeOK'
  BY <1>7 DEF TypeOK, ToolReturns
<1>8. ASSUME NEW a \in Actions, NEW f \in Faults, ParkedSucceeds(a, f) PROVE TypeOK'
  <2>1. faults' \in 0..MaxFaults
    BY <1>8, FailingType DEF ParkedSucceeds
  <2> QED
    BY <1>8, <2>1 DEF TypeOK, ParkedSucceeds, recordOutcome, save, appendAudit
<1>9. ASSUME NEW a \in Actions, NEW f \in Faults, ParkedFails(a, f) PROVE TypeOK'
  <2>1. faults' \in 0..MaxFaults
    BY <1>9, FailingType DEF ParkedFails
  <2>2. CASE f = "none"
    <3>1. exec' \in [Actions -> BOOLEAN]
      BY <1>9, <2>2 DEF TypeOK, ParkedFails
    <3> QED
      BY <1>9, <2>1, <2>2, <3>1 DEF TypeOK, ParkedFails, recordOutcome, save, appendAudit
  <2>3. CASE f # "none"
    <3>1. exec' \in [Actions -> BOOLEAN]
      BY <1>9, <2>3 DEF ParkedFails
    <3> QED
      BY <1>9, <2>1, <2>3, <3>1 DEF TypeOK, ParkedFails, recordOutcome, save
  <2> QED
    BY <2>2, <2>3
<1>10. CASE Crash
  <2>1. crashes' \in 0..MaxCrashes
    BY <1>10, PendingAssumption DEF TypeOK, Crash
  <2>2. exec' \in [Actions -> BOOLEAN]
    BY <1>10 DEF Crash
  <2> QED
    BY <1>10, <2>1, <2>2 DEF TypeOK, Crash
<1>11. CASE Boot
  BY <1>11, LoadedType DEF TypeOK, Boot
<1>12. ASSUME NEW a \in Actions, Hangs(a) PROVE TypeOK'
  BY <1>12 DEF TypeOK, Hangs
<1> QED
  BY <1>1, <1>2, <1>3, <1>4, <1>5, <1>6, <1>7, <1>8, <1>9, <1>10, <1>11, <1>12
  DEF Next

\* Types: the statuses in memory and on disk, the gates and the counters stay
\* in their ranges in every reachable state.
THEOREM TypeCorrect == Spec => []TypeOK
  BY TypeInit, TypeStep, PTL DEF Spec

-----------------------------------------------------------------------------
(* AtMostOneRun is not inductive: what keeps a second run away is spread   *)
(* over the gate of a blocking turn, the map and the file.                 *)

\* Only a live blocking turn has a gate.
GateIsBlocking(a) == gate[a] # "none" => up /\ mode[a] = "blocking"

\* A gate past its decision cannot be decided again.
GateIsDecided(a) == gate[a] \in {"approve", "deny", "allowed"} => mem[a] # "pending"

\* A gate that may still lead to the tool has not led to it yet.
GateNotYetRun(a) == gate[a] \in {"waiting", "approve", "deny", "allowed"} => effects[a] = 0

\* A gate that may lead to the tool carries the operator's approval; once it is
\* allowed the log shows it.
GateIsApproved(a) ==
    /\ gate[a] \in {"approve", "allowed"} => decision[a] = "approve"
    /\ gate[a] = "allowed" => "approved" \in audit[a]

\* A started action is pending neither in memory nor, when no turn would be
\* lost with the process, in the file.
StartedIsSettled(a) ==
    effects[a] # 0 =>
        /\ effects[a] = 1
        /\ mode[a] # "none"
        /\ mem[a] # "pending"
        /\ mode[a] = "parked" => disk[a] # "pending"

RunInv(a) ==
    /\ GateIsBlocking(a)
    /\ GateIsDecided(a)
    /\ GateNotYetRun(a)
    /\ GateIsApproved(a)
    /\ StartedIsSettled(a)

Inv == TypeOK /\ \A a \in Actions : RunInv(a)

LEMMA InvInit == Init => Inv
  BY TypeInit DEF Init, Inv, RunInv, GateIsBlocking, GateIsDecided, GateNotYetRun,
                  GateIsApproved, StartedIsSettled

\* What load() makes of an entry whose effect has been started is never
\* pending.
LEMMA StartedIsNotLoadedPending ==
  ASSUME Inv, NEW a \in Actions, effects[a] # 0
  PROVE  loaded(a) # "pending"
  BY DEF Inv, TypeOK, RunInv, StartedIsSettled, loaded, Modes

LEMMA InvStep == Inv /\ [Next]_vars => Inv'
<1> SUFFICES ASSUME Inv, [Next]_vars, NEW b \in Actions PROVE RunInv(b)'
  BY TypeStep DEF Inv
<1> USE DEF Inv, TypeOK, RunInv, GateIsBlocking, GateIsDecided, GateNotYetRun,
            GateIsApproved, StartedIsSettled
<1>0. RunInv(b)
  OBVIOUS
<1>1. CASE UNCHANGED vars
  BY <1>0, <1>1 DEF vars
<1>2. ASSUME NEW a \in Actions, NEW f \in Faults, ProposeBlocking(a, f) PROVE RunInv(b)'
  BY <1>0, <1>2 DEF ProposeBlocking, save
<1>3. ASSUME NEW a \in Actions, NEW f \in Faults, ProposeParked(a, f) PROVE RunInv(b)'
  BY <1>0, <1>3 DEF ProposeParked, save, appendAudit
<1>4. ASSUME NEW a \in Actions, NEW d \in {"approve", "deny"}, NEW f \in Faults, Resolve(a, d, f)
      PROVE RunInv(b)'
  <2>1. effects[a] = 0
    BY <1>4 DEF Resolve, stillPending
  <2>2. CASE mode[a] = "parked" /\ f = "none"
    BY <1>0, <1>4, <2>1, <2>2 DEF Resolve, stillPending, save, appendAudit, startEffect
  <2>3. CASE ~(mode[a] = "parked" /\ f = "none")
    BY <1>0, <1>4, <2>1, <2>3 DEF Resolve, stillPending, save
  <2> QED
    BY <2>2, <2>3
<1>5. ASSUME NEW a \in Actions, NEW f \in Faults, GateContinues(a, f) PROVE RunInv(b)'
  BY <1>0, <1>5 DEF GateContinues, appendAudit, verdict
<1>6. ASSUME NEW a \in Actions, RunTool(a) PROVE RunInv(b)'
  BY <1>0, <1>6 DEF RunTool, startEffect
<1>7. ASSUME NEW a \in Actions, NEW r \in {"ok", "error"}, ToolReturns(a, r) PROVE RunInv(b)'
  BY <1>0, <1>7 DEF ToolReturns
<1>8. ASSUME NEW a \in Actions, NEW f \in Faults, ParkedSucceeds(a, f) PROVE RunInv(b)'
  BY <1>0, <1>8 DEF ParkedSucceeds, recordOutcome, save, appendAudit
<1>9. ASSUME NEW a \in Actions, NEW f \in Faults, ParkedFails(a, f) PROVE RunInv(b)'
  <2>1. CASE f = "none"
    BY <1>0, <1>9, <2>1 DEF ParkedFails, recordOutcome, save, appendAudit
  <2>2. CASE f # "none"
    BY <1>0, <1>9, <2>2 DEF ParkedFails, recordOutcome, save
  <2> QED
    BY <2>1, <2>2
<1>10. CASE Crash
  BY <1>0, <1>10 DEF Crash
<1>11. CASE Boot
  BY <1>0, <1>11, StartedIsNotLoadedPending DEF Boot
<1>12. ASSUME NEW a \in Actions, Hangs(a) PROVE RunInv(b)'
  BY <1>0, <1>12 DEF Hangs
<1> QED
  BY <1>1, <1>2, <1>3, <1>4, <1>5, <1>6, <1>7, <1>8, <1>9, <1>10, <1>11, <1>12
  DEF Next

LEMMA Invariance == Spec => []Inv
  BY InvInit, InvStep, PTL DEF Spec

\* No effect is started twice, over any number of crashes, failed writes and
\* operators deciding at once.
THEOREM RunsAtMostOnce == Spec => []AtMostOneRun
<1>1. Inv => AtMostOneRun
  BY DEF Inv, RunInv, StartedIsSettled, AtMostOneRun, TypeOK
<1> QED
  BY <1>1, Invariance, PTL

\* Nothing that has been started is ever up for approval again, in memory or
\* after a boot from the file.
THEOREM NeverOfferedAgain == Spec => []RunIsNeverOfferedAgain
<1>1. Inv => RunIsNeverOfferedAgain
  BY StartedIsNotLoadedPending
     DEF Inv, RunInv, StartedIsSettled, RunIsNeverOfferedAgain, TypeOK
<1> QED
  BY <1>1, Invariance, PTL

\* An effect starts in two places only, and behind both stands the operator's
\* approval, in the log as well.
LEMMA StartIsApproved ==
  ASSUME Inv, [Next]_vars, NEW b \in Actions, effects'[b] > effects[b]
  PROVE  decision'[b] = "approve" /\ "approved" \in audit'[b]
<1> USE DEF Inv, TypeOK
<1>1. ASSUME NEW a \in Actions, NEW d \in {"approve", "deny"}, NEW f \in Faults, Resolve(a, d, f)
      PROVE decision'[b] = "approve" /\ "approved" \in audit'[b]
  <2>1. mode[a] = "parked" /\ f = "none" /\ d = "approve" /\ a = b
    BY <1>1 DEF Resolve, startEffect
  <2>2. mem'[b] = "approved"
    BY <1>1, <2>1 DEF Resolve
  <2> QED
    BY <1>1, <2>1, <2>2 DEF Resolve, appendAudit
<1>2. ASSUME NEW a \in Actions, RunTool(a)
      PROVE decision'[b] = "approve" /\ "approved" \in audit'[b]
  <2>1. a = b
    BY <1>2 DEF RunTool, startEffect
  <2> QED
    BY <1>2, <2>1 DEF RunTool, RunInv, GateIsApproved
<1>3. ASSUME UNCHANGED effects PROVE FALSE
  BY <1>3
<1>4. ASSUME NEW a \in Actions, NEW f \in Faults,
             \/ ProposeBlocking(a, f) \/ ProposeParked(a, f) \/ GateContinues(a, f)
             \/ ParkedSucceeds(a, f) \/ ParkedFails(a, f)
      PROVE UNCHANGED effects
  BY <1>4 DEF ProposeBlocking, ProposeParked, GateContinues, ParkedSucceeds, ParkedFails
<1>5. ASSUME NEW a \in Actions, NEW r \in {"ok", "error"}, ToolReturns(a, r)
      PROVE UNCHANGED effects
  BY <1>5 DEF ToolReturns
<1>6. ASSUME NEW a \in Actions, Hangs(a) PROVE UNCHANGED effects
  BY <1>6 DEF Hangs
<1>7. ASSUME Crash \/ Boot \/ UNCHANGED vars PROVE UNCHANGED effects
  BY <1>7 DEF Crash, Boot, vars
<1> QED
  BY <1>1, <1>2, <1>3, <1>4, <1>5, <1>6, <1>7 DEF Next

\* No effect is started unless an operator approved it and the log shows it.
THEOREM OnlyApprovedRuns == Spec => RunsOnlyApproved
<1>1. Inv /\ [Next]_vars =>
        [\A a \in Actions : effects'[a] > effects[a] =>
            /\ decision'[a] = "approve"
            /\ "approved" \in audit'[a]]_vars
  BY StartIsApproved
<1> QED
  BY <1>1, Invariance, PTL DEF Spec, RunsOnlyApproved

-----------------------------------------------------------------------------
(* What the file says.                                                     *)

Terminal == {"denied", "executed", "failed", "expired"}

\* An action nobody has proposed has no entry, no executor and no outcome.
Unproposed(a) ==
    mode[a] = "none" =>
        mem[a] = "absent" /\ disk[a] = "absent" /\ ~exec[a] /\ outcome[a] = "none"

\* The map never lags behind a final entry of the file, which a write that
\* throws may leave behind the map.
FinalInMemory(a) == disk[a] \in Terminal => mem[a] = disk[a]

\* While no write has failed the file is the map, an executor at work has an
\* approved entry, and an entry without an outcome has not been run to its end.
Unfailed(a) ==
    faults = 0 =>
        /\ disk[a] = mem[a]
        /\ mode[a] = "blocking" => mem[a] \notin {"executed", "failed"}
        /\ mode[a] = "parked" =>
              /\ exec[a] => mem[a] = "approved"
              /\ mem[a] \in {"pending", "approved"} => outcome[a] = "none"
        /\ mem[a] = "executed" => outcome[a] = "ok"
        /\ mem[a] = "failed" => outcome[a] # "ok"

\* The executors die with the process.
ExecutorIsLive(a) == exec[a] => up

EntryInv(a) == ExecutorIsLive(a) /\ Unproposed(a) /\ FinalInMemory(a) /\ Unfailed(a)

Entries == \A a \in Actions : EntryInv(a)

LEMMA EntriesInit == Init => Entries
  BY DEF Init, Entries, EntryInv, ExecutorIsLive, Unproposed, FinalInMemory, Unfailed, Terminal

\* A handler whose writes all succeed leaves no fault behind, one that fails
\* leaves one.
LEMMA FailingCounts ==
  ASSUME TypeOK, NEW f, Failing(f), faults' = 0
  PROVE  f = "none" /\ faults = 0
  BY PendingAssumption DEF TypeOK, Failing

LEMMA EntriesStep == Inv /\ Entries /\ [Next]_vars => Entries'
<1> SUFFICES ASSUME Inv, TypeOK, Entries, [Next]_vars, NEW b \in Actions PROVE EntryInv(b)'
  BY DEF Entries, Inv
<1> USE DEF EntryInv, ExecutorIsLive, Unproposed, FinalInMemory, Unfailed, Terminal, Modes
<1>0. EntryInv(b)
  BY DEF Entries
<1>1. CASE UNCHANGED vars
  BY <1>0, <1>1 DEF vars
<1>2. ASSUME NEW a \in Actions, NEW f \in Faults, ProposeBlocking(a, f) PROVE EntryInv(b)'
  <2>1. faults' = 0 => f = "none" /\ faults = 0
    BY <1>2, FailingCounts DEF ProposeBlocking
  <2> QED
    BY <1>0, <1>2, <2>1 DEF ProposeBlocking, save, TypeOK
<1>3. ASSUME NEW a \in Actions, NEW f \in Faults, ProposeParked(a, f) PROVE EntryInv(b)'
  <2>1. faults' = 0 => f = "none" /\ faults = 0
    BY <1>3, FailingCounts DEF ProposeParked
  <2> QED
    BY <1>0, <1>3, <2>1 DEF ProposeParked, save, TypeOK
<1>4. ASSUME NEW a \in Actions, NEW d \in {"approve", "deny"}, NEW f \in Faults, Resolve(a, d, f)
      PROVE EntryInv(b)'
  <2>1. faults' = 0 => f = "none" /\ faults = 0
    BY <1>4, FailingCounts DEF Resolve
  <2>2. /\ mem[a] = "pending" /\ mem'[a] \in {"approved", "denied"}
        /\ \A c \in Actions : c # a => mem'[c] = mem[c]
        /\ \/ disk' = mem'
           \/ /\ f = "save"
              /\ disk' = disk
        /\ mode' = mode /\ outcome' = outcome
    BY <1>4 DEF Resolve, stillPending, save, TypeOK
  <2>3. /\ \A c \in Actions : c # a => exec'[c] = exec[c]
        /\ (mode[a] = "parked" /\ exec'[a]) => (exec[a] \/ mem'[a] = "approved")
        /\ up' = up /\ up
        /\ mode[a] = "none" => exec' = exec
    <3>1. CASE mode[a] = "parked" /\ f = "none" /\ d = "approve"
      BY <1>4, <3>1 DEF Resolve, startEffect, TypeOK
    <3>2. CASE ~(mode[a] = "parked" /\ f = "none" /\ d = "approve")
      BY <1>4, <3>2 DEF Resolve
    <3> QED
      BY <3>1, <3>2
  <2>4. CASE a = b
    <3>1. ExecutorIsLive(b)' /\ Unproposed(b)' /\ FinalInMemory(b)'
      BY <1>0, <2>2, <2>3, <2>4 DEF TypeOK
    <3>2. Unfailed(b)'
      BY <1>0, <2>1, <2>2, <2>3, <2>4 DEF TypeOK
    <3> QED
      BY <3>1, <3>2
  <2>5. CASE a # b
    BY <1>0, <2>1, <2>2, <2>3, <2>5 DEF TypeOK
  <2> QED
    BY <2>4, <2>5
<1>5. ASSUME NEW a \in Actions, NEW f \in Faults, GateContinues(a, f) PROVE EntryInv(b)'
  <2>1. faults' = 0 => f = "none" /\ faults = 0
    BY <1>5, FailingCounts DEF GateContinues
  <2> QED
    BY <1>0, <1>5, <2>1 DEF GateContinues
<1>6. ASSUME NEW a \in Actions, RunTool(a) PROVE EntryInv(b)'
  <2>1. mode[a] = "blocking"
    BY <1>6 DEF RunTool, Inv, RunInv, GateIsBlocking
  <2> QED
    BY <1>0, <1>6, <2>1 DEF RunTool, startEffect, TypeOK
<1>7. ASSUME NEW a \in Actions, NEW r \in {"ok", "error"}, ToolReturns(a, r) PROVE EntryInv(b)'
  BY <1>0, <1>7 DEF ToolReturns, Answers, TypeOK
<1>8. ASSUME NEW a \in Actions, NEW f \in Faults, ParkedSucceeds(a, f) PROVE EntryInv(b)'
  <2>1. faults' = 0 => f = "none" /\ faults = 0
    BY <1>8, FailingCounts DEF ParkedSucceeds
  <2> QED
    BY <1>0, <1>8, <2>1 DEF ParkedSucceeds, Answers, recordOutcome, save, TypeOK
<1>9. ASSUME NEW a \in Actions, NEW f \in Faults, ParkedFails(a, f) PROVE EntryInv(b)'
  <2>1. faults' = 0 => f = "none" /\ faults = 0
    BY <1>9, FailingCounts DEF ParkedFails
  <2>2. CASE f = "none"
    BY <1>0, <1>9, <2>1, <2>2 DEF ParkedFails, Answers, recordOutcome, save, TypeOK
  <2>3. CASE f # "none"
    BY <1>0, <1>9, <2>1, <2>3 DEF ParkedFails, Answers, recordOutcome, save, TypeOK
  <2> QED
    BY <2>2, <2>3
<1>10. CASE Crash
  BY <1>0, <1>10 DEF Crash
<1>11. CASE Boot
  <2>1. mem'[b] = loaded(b) /\ disk'[b] = loaded(b)
    BY <1>11 DEF Boot
  <2>2. ~up /\ up' /\ mode' = mode /\ exec' = exec /\ outcome' = outcome /\ faults' = faults
    BY <1>11 DEF Boot
  <2>3. \/ disk[b] = "pending" /\ mode[b] = "blocking" /\ loaded(b) = "expired"
        \/ disk[b] = "approved" /\ mode[b] = "parked" /\ loaded(b) = "failed"
        \/ loaded(b) = disk[b]
    BY DEF loaded
  <2> QED
    BY <1>0, <2>1, <2>2, <2>3 DEF TypeOK
<1>12. ASSUME NEW a \in Actions, Hangs(a) PROVE EntryInv(b)'
  BY <1>0, <1>12 DEF Hangs
<1> QED
  BY <1>1, <1>2, <1>3, <1>4, <1>5, <1>6, <1>7, <1>8, <1>9, <1>10, <1>11, <1>12
  DEF Next

LEMMA EntriesHold == Spec => []Entries
  BY EntriesInit, EntriesStep, Invariance, PTL DEF Spec

\* Unless a write failed, an entry that says executed ran to its end without an
\* error and one that says failed did not, across crashes and boots.
THEOREM StatusIsTrue == Spec => []StatusMatchesOutcome
<1>1. Entries => StatusMatchesOutcome
  BY DEF Entries, EntryInv, Unfailed, StatusMatchesOutcome
<1> QED
  BY <1>1, EntriesHold, PTL

\* Nothing rewrites a final entry: the map agrees with it, no handler changes
\* such an entry in the map, and load() takes it as it is.
LEMMA FinalStays ==
  ASSUME TypeOK, Entries, [Next]_vars, NEW b \in Actions, disk[b] \in Terminal
  PROVE  disk'[b] = disk[b]
<1> USE DEF Terminal, TypeOK
<1>1. mem[b] = disk[b] /\ mode[b] # "none"
  BY DEF Entries, EntryInv, FinalInMemory, Unproposed
<1>2. ASSUME mem'[b] = mem[b], NEW f, save(f) PROVE disk'[b] = disk[b]
  BY <1>1, <1>2 DEF save
<1>3. ASSUME NEW a \in Actions, NEW f \in Faults, ProposeBlocking(a, f) \/ ProposeParked(a, f)
      PROVE disk'[b] = disk[b]
  BY <1>1, <1>2, <1>3 DEF ProposeBlocking, ProposeParked
<1>4. ASSUME NEW a \in Actions, NEW d \in {"approve", "deny"}, NEW f \in Faults, Resolve(a, d, f)
      PROVE disk'[b] = disk[b]
  BY <1>1, <1>2, <1>4 DEF Resolve, stillPending
<1>5. ASSUME NEW a \in Actions, NEW f \in Faults, ParkedSucceeds(a, f) \/ ParkedFails(a, f)
      PROVE disk'[b] = disk[b]
  BY <1>1, <1>2, <1>5 DEF ParkedSucceeds, ParkedFails, recordOutcome
<1>6. CASE Boot
  BY <1>1, <1>6 DEF Boot, loaded
<1>7. CASE UNCHANGED disk
  BY <1>7
<1> QED
  BY <1>3, <1>4, <1>5, <1>6, <1>7 DEF Next, vars, GateContinues, RunTool, Hangs, ToolReturns, Crash

\* A final entry of the file is never changed, by no boot, no late outcome and
\* no second decision.
THEOREM FinalIsFinal == Spec => TerminalIsFinal
<1>1. TypeOK /\ Entries /\ [Next]_vars =>
        [\A a \in Actions :
            disk[a] \in {"denied", "executed", "failed", "expired"} => disk'[a] = disk[a]]_vars
  BY FinalStays DEF Terminal
<1> QED
  BY <1>1, EntriesHold, TypeCorrect, PTL DEF Spec, TerminalIsFinal
=============================================================================

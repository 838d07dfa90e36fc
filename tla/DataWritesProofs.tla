-------------------------- MODULE DataWritesProofs --------------------------
(***************************************************************************)
(* Theorems about DataWrites, for any number of writes, surfaces,          *)
(* operators, failed file writes and crashes.                              *)
(***************************************************************************)
EXTENDS DataWrites, FiniteSetTheorems, TLAPS

\* What the phases of one write have to do with each other.
Unsubmitted(w) ==
    op[w] = "none" =>
        status[w] = "absent" /\ auth[w] = "none" /\ runs[w] = 0 /\ log[w] = {} /\ told[w] = {}

Undecided(w) ==
    status[w] = "pending" =>
        /\ op[w] # "none" /\ auth[w] = "none"
        /\ runs[w] = 0 /\ log[w] = {} /\ told[w] = {}

Decided(w) ==
    status[w] \notin {"absent", "pending"} =>
        /\ op[w] # "none" /\ auth[w] # "trust" /\ actor[w] \in Operators
        /\ told[w] \subseteq {actor[w]}
        /\ \A line \in log[w] : line[2] \in {actor[w], NoOne}

Running(w) ==
    w \in awaited =>
        /\ op[w] # "none"
        /\ auth[w] = "approval" => status[w] = "executing"
        /\ auth[w] # "none"

\* A trusted write never had a status.
Trusted(w) == auth[w] = "trust" => status[w] = "absent" /\ told[w] = {}

Phases == \A w \in Writes : Unsubmitted(w) /\ Undecided(w) /\ Decided(w) /\ Running(w) /\ Trusted(w)

Inv == TypeOK /\ Phases /\ RunsAtMostOnce /\ TrustRidesOnApproval /\ LoserLearnsWinner
-----------------------------------------------------------------------------
(* Types.                                                                  *)

LEMMA TypeInit == Init => TypeOK
<1> SUFFICES ASSUME Init PROVE TypeOK
  OBVIOUS
<1>1. wish \in [Writes -> BOOLEAN] /\ watching \in BOOLEAN /\ up \in BOOLEAN
  BY DEF Init
<1>2. log \in [Writes -> SUBSET Lines] /\ told \in [Writes -> SUBSET (Operators \cup {NoOne})]
  BY DEF Init
<1>3. /\ awaited \in SUBSET Writes /\ panel \in SUBSET Writes
      /\ faults \in 0..MaxFaults /\ crashes \in 0..MaxCrashes
  BY DataAssumption DEF Init
<1>4. /\ op \in [Writes -> {"none", "edit", "delete"}]
      /\ surface \in [Writes -> Surfaces \cup {NoSurface}]
      /\ auth \in [Writes -> {"none", "approval", "trust"}]
      /\ status \in [Writes -> {"absent", "pending", "executing", "executed", "denied", "failed"}]
      /\ actor \in [Writes -> Operators \cup {NoOne}]
      /\ stmt \in [Writes -> {"none", "sent", "committed", "failed"}]
      /\ runs \in [Writes -> Nat]
      /\ trust \in [Surfaces -> Operators \cup {NoOne}]
  BY DEF Init
<1> QED BY <1>1, <1>2, <1>3, <1>4 DEF TypeOK

\* A failed write is counted within its bound.
LEMMA FaultType == ASSUME TypeOK, NEW f, Fault(f) PROVE faults' \in 0..MaxFaults
BY DataAssumption DEF Fault, TypeOK

LEMMA TypeStep == TypeOK /\ [Next]_vars => TypeOK'
<1> SUFFICES ASSUME TypeOK, [Next]_vars PROVE TypeOK'
  OBVIOUS
<1> USE DataAssumption
<1>1. ASSUME NEW w \in Writes, NEW s \in Surfaces \cup {NoSurface},
             NEW k \in {"edit", "delete"}, Submit(w, s, k)
      PROVE  TypeOK'
  <2>1. CASE isTrusted(s, k) /\ hand(w, "trust") /\ UNCHANGED <<status, panel>>
    <3>1. runs' \in [Writes -> Nat]
      BY <2>1 DEF hand, TypeOK
    <3> QED BY <1>1, <2>1, <3>1 DEF Submit, hand, TypeOK
  <2>2. CASE /\ status' = [status EXCEPT ![w] = "pending"] /\ added(w)
             /\ UNCHANGED <<auth, awaited, stmt, runs>>
    BY <1>1, <2>2 DEF Submit, added, TypeOK
  <2> QED BY <1>1, <2>1, <2>2 DEF Submit
<1>2. ASSUME NEW w \in Writes, NEW o \in Operators, NEW t \in BOOLEAN, Approve(w, o, t)
      PROVE  TypeOK'
  <2>1. wish' \in [Writes -> BOOLEAN]
    BY <1>2 DEF Approve, TypeOK
  <2>2. runs' \in [Writes -> Nat]
    BY <1>2 DEF Approve, hand, TypeOK
  <2> QED BY <1>2, <2>1, <2>2 DEF Approve, hand, decidedBy, TypeOK
<1>3. ASSUME NEW w \in Writes, NEW o \in Operators, NEW f \in {"none", "audit"}, Deny(w, o, f)
      PROVE  TypeOK'
  <2>1. panel' \in SUBSET Writes
    BY <1>3 DEF Deny, resolved, TypeOK
  <2>2. log' \in [Writes -> SUBSET Lines]
    <3>1. <<"denied", o>> \in Lines
      BY DEF Lines
    <3> QED BY <1>3, <3>1 DEF Deny, appendAudit, TypeOK
  <2>3. faults' \in 0..MaxFaults
    BY <1>3, FaultType DEF Deny
  <2> QED BY <1>3, <2>1, <2>2, <2>3 DEF Deny, decidedBy, TypeOK
<1>4. ASSUME NEW w \in Writes, NEW o \in Operators, NEW t \in BOOLEAN, TooLate(w, o, t)
      PROVE  TypeOK'
  <2>1. told' \in [Writes -> SUBSET (Operators \cup {NoOne})]
    <3>1. actor[w] \in Operators \cup {NoOne}
      BY DEF TypeOK
    <3> QED BY <1>4, <3>1 DEF TooLate, TypeOK
  <2> QED BY <1>4, <2>1 DEF TooLate, lateGrant, spent, TypeOK
<1>5. ASSUME NEW w \in Writes, DbCommits(w) PROVE TypeOK'
  BY <1>5 DEF DbCommits, TypeOK
<1>6. ASSUME NEW w \in Writes, TypeOK PROVE
          /\ <<"executed", by(w)>> \in Lines
          /\ <<"error", NoOne>> \in Lines
  BY <1>6 DEF by, Lines, TypeOK
<1>7. ASSUME NEW w \in Writes, NEW st \in {"executed", "failed"}, settled(w, st)
      PROVE  /\ status' \in [Writes -> {"absent", "pending", "executing", "executed", "denied", "failed"}]
             /\ panel' \in SUBSET Writes
  BY <1>7 DEF settled, resolved, TypeOK
<1>8. ASSUME NEW w \in Writes, addTrust(w)
      PROVE  trust' \in [Surfaces -> Operators \cup {NoOne}]
  BY <1>8 DEF addTrust, TypeOK
<1>9. ASSUME NEW w \in Writes, RunSucceeds(w) PROVE TypeOK'
  <2>1. log' \in [Writes -> SUBSET Lines]
    BY <1>6, <1>9 DEF RunSucceeds, appendAudit, TypeOK
  <2>2. trust' \in [Surfaces -> Operators \cup {NoOne}]
    BY <1>8, <1>9 DEF RunSucceeds, TypeOK
  <2>3. /\ status' \in [Writes -> {"absent", "pending", "executing", "executed", "denied", "failed"}]
        /\ panel' \in SUBSET Writes
    BY <1>7, <1>9 DEF RunSucceeds
  <2> QED BY <1>9, <2>1, <2>2, <2>3 DEF RunSucceeds, TypeOK
<1>10. ASSUME NEW w \in Writes, NEW f \in {"trust", "audit"}, GrantFails(w, f) PROVE TypeOK'
  <2>1. log' \in [Writes -> SUBSET Lines]
    <3>1. appendAudit(w, <<"executed", by(w)>>)
      BY <1>10 DEF GrantFails
    <3> QED BY <1>6, <3>1 DEF appendAudit, TypeOK
  <2>2. trust' \in [Surfaces -> Operators \cup {NoOne}]
    BY <1>8, <1>10 DEF GrantFails, TypeOK
  <2>3. faults' \in 0..MaxFaults
    BY <1>10, FaultType DEF GrantFails
  <2> QED BY <1>10, <2>1, <2>2, <2>3 DEF GrantFails, Dies, TypeOK
<1>11. ASSUME NEW w \in Writes, NEW f \in {"none", "audit"}, RunFails(w, f) PROVE TypeOK'
  <2>1. log' \in [Writes -> SUBSET Lines]
    <3>1. CASE f = "none"
      <4>1. appendAudit(w, <<"error", NoOne>>)
        BY <1>11, <3>1 DEF RunFails
      <4> QED BY <1>6, <4>1 DEF appendAudit, TypeOK
    <3>2. CASE f # "none"
      BY <1>11, <3>2 DEF RunFails, TypeOK
    <3> QED BY <3>1, <3>2
  <2>2. /\ status' \in [Writes -> {"absent", "pending", "executing", "executed", "denied", "failed"}]
        /\ panel' \in SUBSET Writes
    BY <1>7, <1>11 DEF RunFails
  <2>3. stmt' \in [Writes -> {"none", "sent", "committed", "failed"}]
    BY <1>11 DEF RunFails, TypeOK
  <2>4. faults' \in 0..MaxFaults
    BY <1>11, FaultType DEF RunFails
  <2> QED BY <1>11, <2>1, <2>2, <2>3, <2>4 DEF RunFails, TypeOK
<1>12. CASE Connect
  <2>1. panel' \in SUBSET Writes /\ watching' \in BOOLEAN
    BY <1>12 DEF Connect, Pending
  <2> QED BY <1>12, <2>1 DEF Connect, TypeOK
<1>13. CASE Disconnect
  BY <1>13 DEF Disconnect, TypeOK
<1>14. CASE Crash
  <2>1. crashes' \in 0..MaxCrashes
    BY <1>14 DEF Crash, TypeOK
  <2> QED BY <1>14, <2>1 DEF Crash, Dies, TypeOK
<1>15. CASE Boot
  BY <1>15 DEF Boot, TypeOK
<1>16. CASE UNCHANGED vars
  BY <1>16 DEF vars, TypeOK
<1> QED BY <1>1, <1>2, <1>3, <1>4, <1>5, <1>9, <1>10, <1>11, <1>12, <1>13, <1>14, <1>15, <1>16 DEF Next

\* Every value stays in its type, whatever fails.
THEOREM TypeCorrect == Spec => []TypeOK
BY TypeInit, TypeStep, PTL DEF Spec

-----------------------------------------------------------------------------
(* One write: its phases, its single run, and what a late operator is told.*)

OneWrite(w) ==
    /\ Unsubmitted(w) /\ Undecided(w) /\ Decided(w) /\ Running(w) /\ Trusted(w)
    /\ runs[w] <= 1
    /\ \A o \in told[w] :
          /\ o # NoOne
          /\ \A line \in log[w] : line[2] \in {o, NoOne}
          /\ status[w] # "absent" => actor[w] = o

LEMMA OneWriteDefs ==
    (\A w \in Writes : OneWrite(w)) <=> (Phases /\ RunsAtMostOnce /\ LoserLearnsWinner)
BY DEF OneWrite, Phases, RunsAtMostOnce, LoserLearnsWinner

\* The variables that OneWrite looks at, for one write.
Same(w) ==
    /\ op'[w] = op[w] /\ auth'[w] = auth[w] /\ status'[w] = status[w] /\ actor'[w] = actor[w]
    /\ (w \in awaited' => w \in awaited)
    /\ runs'[w] = runs[w] /\ log'[w] = log[w] /\ told'[w] = told[w]

LEMMA SameKeeps == ASSUME NEW w \in Writes, OneWrite(w), Same(w) PROVE OneWrite(w)'
BY DEF OneWrite, Unsubmitted, Undecided, Decided, Running, Trusted, Same

\* A write whose process has died.
LEMMA DeathKeeps ==
    ASSUME TypeOK, NEW w \in Writes, OneWrite(w), Dies,
           op' = op, auth' = auth, runs' = runs, told' = told,
           \/ log'[w] = log[w]
           \/ w \in awaited /\ log'[w] = log[w] \cup {<<"executed", by(w)>>}
    PROVE  OneWrite(w)'
<1>1. status'[w] = "absent" /\ w \notin awaited'
  BY DEF Dies
<1>2. CASE log'[w] = log[w]
  BY <1>1, <1>2 DEF OneWrite, Unsubmitted, Undecided, Decided, Running, Trusted
<1>3. CASE w \in awaited /\ log'[w] = log[w] \cup {<<"executed", by(w)>>}
  <2>1. op[w] # "none"
    BY <1>3 DEF OneWrite, Running
  <2>2. \A o \in told[w] : by(w) \in {o, NoOne}
    BY <1>3 DEF OneWrite, Running, Trusted, Decided, by, TypeOK
  <2> QED BY <1>1, <1>3, <2>1, <2>2 DEF OneWrite, Unsubmitted, Undecided, Decided, Running, Trusted
<1> QED BY <1>2, <1>3

LEMMA OneWriteStep ==
    ASSUME TypeOK, \A w \in Writes : OneWrite(w), [Next]_vars, NEW v \in Writes
    PROVE  OneWrite(v)'
<1> USE DataAssumption
<1>a. OneWrite(v)
  OBVIOUS
<1>1. ASSUME NEW w \in Writes, NEW s \in Surfaces \cup {NoSurface},
             NEW k \in {"edit", "delete"}, Submit(w, s, k) PROVE OneWrite(v)'
  <2>1. CASE v # w
    BY <1>1, <2>1, SameKeeps DEF Same, Submit, hand, added, TypeOK
  <2>2. CASE v = w
    BY <1>1, <2>2 DEF OneWrite, Unsubmitted, Undecided, Decided, Running, Trusted, Submit, hand, added, TypeOK
  <2> QED BY <2>1, <2>2
<1>2. ASSUME NEW w \in Writes, NEW o \in Operators, NEW t \in BOOLEAN, Approve(w, o, t) PROVE OneWrite(v)'
  <2>1. CASE v # w
    BY <1>2, <2>1, SameKeeps DEF Same, Approve, open, hand, decidedBy, TypeOK
  <2>2. CASE v = w
    BY <1>2, <2>2 DEF OneWrite, Unsubmitted, Undecided, Decided, Running, Trusted, Approve, open, hand, decidedBy, TypeOK
  <2> QED BY <2>1, <2>2
<1>3. ASSUME NEW w \in Writes, NEW o \in Operators, NEW f \in {"none", "audit"}, Deny(w, o, f) PROVE OneWrite(v)'
  <2>1. CASE v # w
    BY <1>3, <2>1, SameKeeps DEF Same, Deny, open, decidedBy, appendAudit, resolved, TypeOK
  <2>2. CASE v = w
    BY <1>3, <2>2 DEF OneWrite, Unsubmitted, Undecided, Decided, Running, Trusted, Deny, open, decidedBy, appendAudit, resolved, TypeOK
  <2> QED BY <2>1, <2>2
<1>4. ASSUME NEW w \in Writes, NEW o \in Operators, NEW t \in BOOLEAN, TooLate(w, o, t) PROVE OneWrite(v)'
  <2>1. CASE v # w
    BY <1>4, <2>1, SameKeeps DEF Same, TooLate, open, lateGrant, TypeOK
  <2>2. CASE v = w
    BY <1>4, <2>2 DEF OneWrite, Unsubmitted, Undecided, Decided, Running, Trusted, TooLate, open, lateGrant, TypeOK
  <2> QED BY <2>1, <2>2
<1>5. ASSUME NEW w \in Writes, DbCommits(w) PROVE OneWrite(v)'
  BY <1>5, <1>a, SameKeeps DEF Same, DbCommits
<1>6. ASSUME NEW w \in Writes, RunSucceeds(w) PROVE OneWrite(v)'
  <2>1. CASE v # w
    BY <1>6, <2>1, SameKeeps DEF Same, RunSucceeds, appendAudit, settled, resolved, by, TypeOK
  <2>2. CASE v = w
    BY <1>6, <2>2 DEF OneWrite, Unsubmitted, Undecided, Decided, Running, Trusted, RunSucceeds, appendAudit, settled, resolved, by, TypeOK
  <2> QED BY <2>1, <2>2
<1>7. ASSUME NEW w \in Writes, NEW f \in {"trust", "audit"}, GrantFails(w, f) PROVE OneWrite(v)'
  <2>1. \/ log'[v] = log[v]
        \/ v \in awaited /\ log'[v] = log[v] \cup {<<"executed", by(v)>>}
    BY <1>7 DEF GrantFails, appendAudit, TypeOK
  <2> QED BY <1>7, <1>a, <2>1, DeathKeeps DEF GrantFails
<1>8. ASSUME NEW w \in Writes, NEW f \in {"none", "audit"}, RunFails(w, f) PROVE OneWrite(v)'
  <2>1. CASE v # w
    BY <1>8, <2>1, SameKeeps DEF Same, RunFails, appendAudit, settled, resolved, TypeOK
  <2>2. CASE v = w
    BY <1>8, <2>2 DEF OneWrite, Unsubmitted, Undecided, Decided, Running, Trusted, RunFails, appendAudit, settled, resolved, TypeOK
  <2> QED BY <2>1, <2>2
<1>9. CASE Connect \/ Disconnect \/ Boot \/ UNCHANGED vars
  BY <1>9, <1>a, SameKeeps DEF Same, Connect, Disconnect, Boot, vars
<1>10. CASE Crash
  BY <1>10, <1>a, DeathKeeps DEF Crash
<1> QED BY <1>1, <1>2, <1>3, <1>4, <1>5, <1>6, <1>7, <1>8, <1>9, <1>10 DEF Next

-----------------------------------------------------------------------------
(* Trust.                                                                  *)

\* What a write vouches for stays: its lines stay, and a write with a line
\* never changes its surface or its wish.
LEMMA VouchersStay ==
    ASSUME TypeOK, \A w \in Writes : OneWrite(w), [Next]_vars, NEW s, NEW o, VouchedFor(s, o)
    PROVE  VouchedFor(s, o)'
<1>1. PICK v \in Writes : surface[v] = s /\ wish[v] /\ <<"executed", o>> \in log[v]
  BY DEF VouchedFor
<1>2. log[v] # {} /\ op[v] # "none" /\ status[v] # "pending"
  BY <1>1 DEF OneWrite, Unsubmitted, Undecided
<1> DEFINE Kept == surface'[v] = surface[v] /\ wish'[v] = wish[v] /\ log[v] \subseteq log'[v]
<1>3. Kept
  <2>1. ASSUME NEW w \in Writes, NEW t \in Surfaces \cup {NoSurface},
               NEW k \in {"edit", "delete"}, Submit(w, t, k)
        PROVE  Kept
    BY <1>2, <2>1 DEF Submit, TypeOK
  <2>2. ASSUME NEW w \in Writes, NEW q \in Operators, NEW t \in BOOLEAN, Approve(w, q, t)
        PROVE  Kept
    BY <1>2, <2>2 DEF Approve, open, TypeOK
  <2>3. CASE \/ \E w \in Writes, q \in Operators, f \in {"none", "audit"} : Deny(w, q, f)
             \/ \E w \in Writes : RunSucceeds(w)
             \/ \E w \in Writes, f \in {"trust", "audit"} : GrantFails(w, f)
             \/ \E w \in Writes, f \in {"none", "audit"} : RunFails(w, f)
    BY <2>3 DEF Deny, RunSucceeds, GrantFails, RunFails, appendAudit, TypeOK
  <2>4. CASE \/ \E w \in Writes, q \in Operators, t \in BOOLEAN : TooLate(w, q, t)
             \/ \E w \in Writes : DbCommits(w)
             \/ Connect \/ Disconnect \/ Crash \/ Boot \/ UNCHANGED vars
    BY <2>4 DEF TooLate, DbCommits, Connect, Disconnect, Crash, Boot, vars
  <2> QED BY <2>1, <2>2, <2>3, <2>4 DEF Next
<1> QED BY <1>1, <1>3 DEF VouchedFor

\* A step that adds a rule adds the one its own approval vouches for.
LEMMA GrantIsVouched ==
    ASSUME TypeOK, \A w \in Writes : OneWrite(w), NEW w \in Writes, w \in awaited,
           Grants(w), addTrust(w), appendAudit(w, <<"executed", by(w)>>),
           surface' = surface, wish' = wish,
           NEW s \in Surfaces, NEW o, trust'[s] = o, trust[s] # o
    PROVE  VouchedFor(s, o)'
<1>1. s = surface[w] /\ o = actor[w]
  BY DEF addTrust, Grants, TypeOK
<1>2. <<"executed", o>> \in log'[w]
  BY <1>1 DEF appendAudit, by, Grants, TypeOK
<1> QED BY <1>1, <1>2 DEF VouchedFor, Grants

LEMMA RulesStep ==
    ASSUME TypeOK, \A w \in Writes : OneWrite(w), TrustRidesOnApproval, [Next]_vars,
           NEW s \in Surfaces, NEW o, trust'[s] = o, o # NoOne
    PROVE  VouchedFor(s, o)'
<1>1. CASE trust[s] = o
  <2>1. VouchedFor(s, o)
    BY <1>1 DEF TrustRidesOnApproval
  <2> QED BY <2>1, VouchersStay
<1>2. CASE trust[s] # o
  <2>1. ASSUME NEW w \in Writes, RunSucceeds(w) PROVE VouchedFor(s, o)'
    <3>1. Grants(w) /\ addTrust(w)
      BY <1>2, <2>1 DEF RunSucceeds
    <3> QED BY <1>2, <2>1, <3>1, GrantIsVouched DEF RunSucceeds
  <2>2. ASSUME NEW w \in Writes, NEW f \in {"trust", "audit"}, GrantFails(w, f)
        PROVE  VouchedFor(s, o)'
    <3>1. addTrust(w)
      BY <1>2, <2>2 DEF GrantFails
    <3> QED BY <1>2, <2>2, <3>1, GrantIsVouched DEF GrantFails
  <2>3. CASE trust' = trust
    BY <1>2, <2>3
  <2> QED BY <2>1, <2>2, <2>3 DEF Next, vars, Submit, Approve, Deny, TooLate, lateGrant, DbCommits,
             RunFails, Connect, Disconnect, Crash, Boot
<1> QED BY <1>1, <1>2

\* A write that runs under trust is an edit, when it is submitted and later.
LEMMA UnattendedStep ==
    ASSUME TypeOK, \A w \in Writes : OneWrite(w), TrustRidesOnApproval, [Next]_vars,
           NEW v \in Writes, auth'[v] = "trust", NEW s, surface'[v] = s
    PROVE  op'[v] = "edit" /\ \E o \in Operators : VouchedFor(s, o)'
<1>1. ASSUME NEW w \in Writes, NEW t \in Surfaces \cup {NoSurface},
             NEW k \in {"edit", "delete"}, Submit(w, t, k), auth[v] # "trust"
      PROVE  op'[v] = "edit" /\ \E o \in Operators : VouchedFor(s, o)'
  <2>1. v = w /\ isTrusted(t, k)
    BY <1>1 DEF Submit, hand, TypeOK
  <2>2. op'[v] = "edit" /\ t = s /\ s \in Surfaces /\ trust[s] # NoOne
    BY <1>1, <2>1 DEF Submit, isTrusted, TypeOK
  <2>3. PICK o \in Operators : trust[s] = o
    BY <2>2 DEF TypeOK
  <2>4. VouchedFor(s, o)
    BY <2>2, <2>3 DEF TrustRidesOnApproval
  <2> QED BY <2>2, <2>4, VouchersStay
<1>2. CASE auth[v] = "trust"
  <2>1. op[v] = "edit"
    BY <1>2 DEF TrustRidesOnApproval
  <2>2. op'[v] = op[v] /\ surface'[v] = surface[v]
    BY <2>1 DEF Next, vars, Submit, Approve, Deny, TooLate, DbCommits, RunSucceeds, GrantFails,
       RunFails, Connect, Disconnect, Crash, Boot, TypeOK
  <2>3. PICK o \in Operators : VouchedFor(s, o)
    BY <1>2, <2>2 DEF TrustRidesOnApproval
  <2> QED BY <2>1, <2>2, <2>3, VouchersStay
<1>3. CASE auth[v] # "trust" /\ ~\E w \in Writes, t \in Surfaces \cup {NoSurface},
             k \in {"edit", "delete"} : Submit(w, t, k)
  BY <1>3 DEF Next, vars, Approve, hand, Deny, TooLate, DbCommits, RunSucceeds, GrantFails,
     RunFails, Connect, Disconnect, Crash, Boot, TypeOK
<1> QED BY <1>1, <1>2, <1>3

-----------------------------------------------------------------------------
(* The audit log and the database.                                         *)

\* The statement of a write, its line in the log and the call that awaits it.
\* While nothing has failed, a statement that nobody awaits any more is logged.
Logged(w) ==
    /\ op[w] = "none" \/ status[w] = "pending" => stmt[w] = "none"
    /\ w \in awaited => log[w] = {}
    /\ log[w] # {} => \E line \in Lines : log[w] = {line}
    /\ \A line \in log[w] :
          /\ line[1] = "executed" => stmt[w] = "committed"
          /\ line[1] = "denied" => runs[w] = 0
    /\ stmt[w] # "none" /\ w \notin awaited /\ faults = 0 /\ crashes = 0 => log[w] # {}

AllLogged == \A w \in Writes : Logged(w)

\* The variables that Logged looks at, for one write; nothing that has failed
\* is forgotten.
SameLog(w) ==
    /\ op'[w] = op[w] /\ stmt'[w] = stmt[w] /\ log'[w] = log[w] /\ runs'[w] = runs[w]
    /\ status'[w] = "pending" => status[w] = "pending"
    /\ w \in awaited' => w \in awaited
    /\ w \in awaited => w \in awaited' \/ faults' # 0 \/ crashes' # 0

LEMMA BoundsGrow ==
    ASSUME TypeOK, [Next]_vars
    PROVE  faults' >= faults /\ crashes' >= crashes
<1> USE DataAssumption
<1>1. ASSUME NEW f, Fault(f) PROVE faults' >= faults
  BY <1>1 DEF Fault, TypeOK
<1>2. faults' = faults \/ \E f : Fault(f)
  BY DEF Next, vars, Submit, Approve, Deny, TooLate, DbCommits, RunSucceeds, GrantFails, RunFails,
     Connect, Disconnect, Crash, Boot
<1>3. crashes' = crashes \/ crashes' = crashes + 1
  BY DEF Next, vars, Submit, Approve, Deny, TooLate, DbCommits, RunSucceeds, GrantFails, RunFails,
     Connect, Disconnect, Crash, Boot
<1> QED BY <1>1, <1>2, <1>3 DEF TypeOK

LEMMA SameLogKeeps ==
    ASSUME NEW w \in Writes, TypeOK, [Next]_vars, Logged(w), SameLog(w) PROVE Logged(w)'
<1>1. faults' = 0 /\ crashes' = 0 => faults = 0 /\ crashes = 0
  BY BoundsGrow DEF TypeOK
<1> QED BY <1>1 DEF Logged, SameLog

LEMMA AwaitedIsUnderWay ==
    ASSUME NEW w \in Writes, TypeOK, OneWrite(w), w \in awaited
    PROVE  op[w] # "none" /\ status[w] # "pending"
BY DEF OneWrite, Running, Trusted, TypeOK

\* A write whose outcome this process hears is logged, or a fault is counted.
LEMMA OutcomeLogged ==
    ASSUME NEW w \in Writes, TypeOK, OneWrite(w), Logged(w), w \in awaited, w \notin awaited',
           op'[w] = op[w], status'[w] # "pending",
           \/ log'[w] = log[w] \cup {<<"executed", by(w)>>} /\ stmt'[w] = "committed"
           \/ log'[w] = log[w] \cup {<<"error", NoOne>>}
           \/ log'[w] = log[w] /\ faults' # 0
    PROVE  Logged(w)'
<1>1. log[w] = {} /\ op'[w] # "none"
  BY AwaitedIsUnderWay DEF Logged
<1>2. by(w) \in Operators \cup {NoOne}
  BY DEF by, TypeOK
<1>3. <<"executed", by(w)>> \in Lines /\ <<"error", NoOne>> \in Lines
  BY <1>2 DEF Lines
<1>4. CASE log'[w] = {<<"executed", by(w)>>} /\ stmt'[w] = "committed"
  BY <1>1, <1>3, <1>4 DEF Logged
<1>5. CASE log'[w] = {<<"error", NoOne>>}
  BY <1>1, <1>3, <1>5 DEF Logged
<1>6. CASE log'[w] = {} /\ faults' # 0
  BY <1>1, <1>6 DEF Logged
<1> QED BY <1>1, <1>4, <1>5, <1>6

LEMMA LoggedStep ==
    ASSUME TypeOK, \A w \in Writes : OneWrite(w), [Next]_vars, NEW v \in Writes, Logged(v)
    PROVE  Logged(v)'
<1> USE DataAssumption
<1>1. ASSUME NEW w \in Writes, NEW s \in Surfaces \cup {NoSurface},
             NEW k \in {"edit", "delete"}, Submit(w, s, k) PROVE Logged(v)'
  <2>1. CASE v # w
    BY <1>1, <2>1, SameLogKeeps DEF SameLog, Submit, hand, added, TypeOK
  <2>2. CASE v = w
    <3>1. op[v] = "none" /\ log'[v] = {} /\ stmt[v] = "none" /\ op'[v] # "none"
      BY <1>1, <2>2 DEF Submit, OneWrite, Unsubmitted, Logged, TypeOK
    <3>2. CASE hand(v, "trust") /\ UNCHANGED <<status, panel>>
      <4>1. v \in awaited' /\ status'[v] # "pending"
        BY <3>1, <3>2 DEF hand, OneWrite, Unsubmitted
      <4> QED BY <3>1, <4>1 DEF Logged
    <3>3. CASE UNCHANGED <<auth, awaited, stmt, runs>>
      BY <3>1, <3>3 DEF Logged
    <3>4. \/ hand(v, "trust") /\ UNCHANGED <<status, panel>>
          \/ UNCHANGED <<auth, awaited, stmt, runs>>
      BY <1>1, <2>2 DEF Submit
    <3> QED BY <3>2, <3>3, <3>4
  <2> QED BY <2>1, <2>2
<1>2. ASSUME NEW w \in Writes, NEW o \in Operators, NEW t \in BOOLEAN, Approve(w, o, t) PROVE Logged(v)'
  <2>1. CASE v # w
    BY <1>2, <2>1, SameLogKeeps DEF SameLog, Approve, open, hand, TypeOK
  <2>2. CASE v = w
    <3>1. log'[v] = {} /\ op'[v] # "none" /\ status'[v] # "pending" /\ v \in awaited'
      BY <1>2, <2>2 DEF Approve, open, hand, OneWrite, Undecided, TypeOK
    <3> QED BY <3>1 DEF Logged
  <2> QED BY <2>1, <2>2
<1>3. ASSUME NEW w \in Writes, NEW o \in Operators, NEW f \in {"none", "audit"}, Deny(w, o, f) PROVE Logged(v)'
  <2>1. CASE v # w
    BY <1>3, <2>1, SameLogKeeps DEF SameLog, Deny, open, appendAudit, resolved, TypeOK
  <2>2. CASE v = w
    <3>1. /\ op[v] # "none" /\ log[v] = {} /\ runs[v] = 0 /\ stmt[v] = "none"
          /\ v \notin awaited
      BY <1>3, <2>2 DEF Deny, open, OneWrite, Undecided, Running, Logged, TypeOK
    <3>2. log'[v] = {<<"denied", o>>} \/ log'[v] = {}
      <4>1. CASE f = "none"
        BY <1>3, <2>2, <3>1, <4>1 DEF Deny, appendAudit, TypeOK
      <4>2. CASE f # "none"
        BY <1>3, <2>2, <3>1, <4>2 DEF Deny
      <4> QED BY <4>1, <4>2
    <3>3. op'[v] = op[v] /\ runs'[v] = runs[v] /\ stmt'[v] = stmt[v] /\ awaited' = awaited
      BY <1>3 DEF Deny
    <3>4. <<"denied", o>> \in Lines
      BY DEF Lines
    <3> QED BY <3>1, <3>2, <3>3, <3>4 DEF Logged
  <2> QED BY <2>1, <2>2
<1>4. ASSUME NEW w \in Writes, NEW o \in Operators, NEW t \in BOOLEAN, TooLate(w, o, t) PROVE Logged(v)'
  BY <1>4, SameLogKeeps DEF SameLog, TooLate
<1>5. ASSUME NEW w \in Writes, DbCommits(w) PROVE Logged(v)'
  <2>1. CASE v # w
    BY <1>5, <2>1, SameLogKeeps DEF SameLog, DbCommits, TypeOK
  <2>2. CASE v = w
    BY <1>5, <2>2 DEF Logged, DbCommits, TypeOK
  <2> QED BY <2>1, <2>2
<1>6. ASSUME NEW w \in Writes, RunSucceeds(w) PROVE Logged(v)'
  <2>1. CASE v # w
    BY <1>6, <2>1, SameLogKeeps DEF SameLog, RunSucceeds, appendAudit, settled, resolved, TypeOK
  <2>2. CASE v = w
    <3>1. log'[v] = log[v] \cup {<<"executed", by(v)>>}
      BY <1>6, <2>2 DEF RunSucceeds, appendAudit, TypeOK
    <3>2. v \in awaited /\ v \notin awaited' /\ op'[v] = op[v] /\ stmt'[v] = "committed"
      BY <1>6, <2>2 DEF RunSucceeds
    <3>3. status'[v] # "pending"
      BY <1>6, <2>2, <3>2, AwaitedIsUnderWay DEF RunSucceeds, settled, TypeOK
    <3> QED BY <3>1, <3>2, <3>3, OutcomeLogged
  <2> QED BY <2>1, <2>2
<1>7. ASSUME NEW w \in Writes, NEW f \in {"trust", "audit"}, GrantFails(w, f) PROVE Logged(v)'
  <2>1. faults' # 0 /\ op' = op /\ stmt' = stmt /\ runs' = runs /\ awaited' = {} /\ status'[v] # "pending"
    BY <1>7 DEF GrantFails, Dies, Fault, TypeOK
  <2>2. CASE v # w
    <3>1. log'[v] = log[v]
      BY <1>7, <2>2 DEF GrantFails, appendAudit, TypeOK
    <3> QED BY <2>1, <3>1, SameLogKeeps DEF SameLog
  <2>3. CASE v = w
    <3>1. v \in awaited /\ stmt[v] = "committed" /\ log'[v] = log[v] \cup {<<"executed", by(v)>>}
      BY <1>7, <2>3 DEF GrantFails, appendAudit, TypeOK
    <3> QED BY <2>1, <3>1, OutcomeLogged
  <2> QED BY <2>2, <2>3
<1>8. ASSUME NEW w \in Writes, NEW f \in {"none", "audit"}, RunFails(w, f) PROVE Logged(v)'
  <2>1. CASE v # w
    BY <1>8, <2>1, SameLogKeeps DEF SameLog, RunFails, appendAudit, settled, resolved, TypeOK
  <2>2. CASE v = w
    <3>1. \/ log'[v] = log[v] \cup {<<"error", NoOne>>}
          \/ log'[v] = log[v] /\ faults' # 0
      BY <1>8, <2>2 DEF RunFails, Fault, appendAudit, TypeOK
    <3>2. v \in awaited /\ v \notin awaited' /\ op'[v] = op[v]
      BY <1>8, <2>2 DEF RunFails
    <3>3. status'[v] # "pending"
      BY <1>8, <2>2, <3>2, AwaitedIsUnderWay DEF RunFails, settled, TypeOK
    <3> QED BY <3>1, <3>2, <3>3, OutcomeLogged
  <2> QED BY <2>1, <2>2
<1>9. CASE Connect \/ Disconnect \/ Boot \/ UNCHANGED vars
  BY <1>9, SameLogKeeps DEF SameLog, Connect, Disconnect, Boot, vars
<1>10. CASE Crash
  <2>1. /\ crashes' # 0 /\ op' = op /\ stmt' = stmt /\ runs' = runs /\ log' = log
        /\ awaited' = {} /\ status'[v] # "pending"
    BY <1>10 DEF Crash, Dies, TypeOK
  <2> QED BY <2>1, SameLogKeeps DEF SameLog
<1> QED BY <1>1, <1>2, <1>3, <1>4, <1>5, <1>6, <1>7, <1>8, <1>9, <1>10 DEF Next

-----------------------------------------------------------------------------
(* The panel.                                                              *)

\* Whatever leaves "pending" or "executing" leaves the panel in the same step,
\* or a fault is counted.
LEMMA PanelStep ==
    ASSUME TypeOK, \A w \in Writes : OneWrite(w), PanelIsCurrent, [Next]_vars
    PROVE  PanelIsCurrent'
<1> DEFINE Current(W, p, st) ==
        /\ \A v \in W : st[v] = "pending" => v \in p
        /\ \A v \in p : st[v] \in {"pending", "executing"}
<1> USE DataAssumption
<1> SUFFICES ASSUME watching', faults' = 0 PROVE Current(Writes, panel', status')
  BY DEF PanelIsCurrent, Pending
<1>a. faults = 0
  BY BoundsGrow DEF TypeOK
<1>b. watching => Current(Writes, panel, status)
  BY <1>a DEF PanelIsCurrent, Pending
<1>1. ASSUME NEW w \in Writes, NEW s \in Surfaces \cup {NoSurface},
             NEW k \in {"edit", "delete"}, Submit(w, s, k) PROVE Current(Writes, panel', status')
  BY <1>1, <1>b DEF Submit, added, TypeOK
<1>2. ASSUME NEW w \in Writes, NEW o \in Operators, NEW t \in BOOLEAN, Approve(w, o, t)
      PROVE  Current(Writes, panel', status')
  BY <1>2, <1>b DEF Approve, open, TypeOK
<1>3. ASSUME NEW w \in Writes, NEW o \in Operators, NEW f \in {"none", "audit"}, Deny(w, o, f)
      PROVE  Current(Writes, panel', status')
  <2>1. f = "none"
    BY <1>3 DEF Deny, Fault, TypeOK
  <2> QED BY <1>3, <2>1, <1>b DEF Deny, resolved, TypeOK
<1>4. ASSUME NEW w \in Writes, NEW o \in Operators, NEW t \in BOOLEAN, TooLate(w, o, t)
      PROVE  Current(Writes, panel', status')
  BY <1>4, <1>b DEF TooLate, open, spent, TypeOK
<1>5. ASSUME NEW w \in Writes, w \in awaited, NEW st \in {"executed", "failed"}, settled(w, st),
             watching' = watching
      PROVE  Current(Writes, panel', status')
  <2>1. auth[w] # "approval" => status' = status /\ panel' = panel
    BY <1>5 DEF settled
  <2>2. auth[w] = "approval" => status' = [status EXCEPT ![w] = st] /\ panel' = panel \ {w}
    BY <1>5 DEF settled, resolved
  <2> QED BY <1>5, <1>b, <2>1, <2>2 DEF TypeOK
<1>6. CASE \/ \E w \in Writes, f \in {"trust", "audit"} : GrantFails(w, f)
           \/ Crash
  BY <1>6 DEF GrantFails, Crash, Dies
<1>7. CASE (\E w \in Writes : DbCommits(w)) \/ Disconnect \/ Boot \/ UNCHANGED vars
  BY <1>7, <1>b DEF DbCommits, Disconnect, Boot, vars
<1>8. CASE Connect
  BY <1>8 DEF Connect, Pending
<1> QED BY <1>1, <1>2, <1>3, <1>4, <1>5, <1>6, <1>7, <1>8 DEF Next, RunSucceeds, RunFails

-----------------------------------------------------------------------------

LEMMA InvInit == Init => Inv
<1> SUFFICES ASSUME Init PROVE Inv
  OBVIOUS
<1>1. \A w \in Writes : OneWrite(w)
  BY DEF Init, OneWrite, Unsubmitted, Undecided, Decided, Running, Trusted
<1>2. TrustRidesOnApproval
  BY DEF Init, TrustRidesOnApproval
<1> QED BY <1>1, <1>2, TypeInit, OneWriteDefs DEF Inv

LEMMA InvStep == Inv /\ [Next]_vars => Inv'
<1> SUFFICES ASSUME Inv, [Next]_vars PROVE Inv'
  OBVIOUS
<1>1. TypeOK /\ (\A w \in Writes : OneWrite(w)) /\ TrustRidesOnApproval
  BY OneWriteDefs DEF Inv
<1>2. TypeOK'
  BY <1>1, TypeStep
<1>3. \A w \in Writes : OneWrite(w)'
  BY <1>1, OneWriteStep
<1>4. Phases' /\ RunsAtMostOnce' /\ LoserLearnsWinner'
  BY <1>3 DEF OneWrite, Phases, RunsAtMostOnce, LoserLearnsWinner
<1>5. TrustRidesOnApproval'
  <2>1. ASSUME NEW s \in Surfaces, NEW o, trust'[s] = o, o # NoOne PROVE VouchedFor(s, o)'
    BY <1>1, <2>1, RulesStep
  <2>2. ASSUME NEW v \in Writes, auth'[v] = "trust", NEW s, surface'[v] = s
        PROVE  op'[v] = "edit" /\ \E o \in Operators : VouchedFor(s, o)'
    BY <1>1, <2>2, UnattendedStep
  <2> QED BY <2>1, <2>2 DEF TrustRidesOnApproval, VouchedFor
<1> QED BY <1>2, <1>4, <1>5 DEF Inv

LEMMA InvHolds == Spec => []Inv
BY InvInit, InvStep, PTL DEF Spec

\* No write reaches the database twice, over any number of racing operators,
\* failed file writes and crashes.
THEOREM OneRunPerWrite == Spec => []RunsAtMostOnce
BY InvHolds, PTL DEF Inv

\* Every standing rule, and every write that ran without an operator, goes back
\* to an approval that won, asked for trust and executed; no deletion does.
THEOREM TrustIsEarned == Spec => []TrustRidesOnApproval
BY InvHolds, PTL DEF Inv

LEMMA LoggedInit == Init => AllLogged
BY DEF Init, Logged, AllLogged

LEMMA LoggedHolds == Spec => []AllLogged
<1>1. Inv /\ AllLogged /\ [Next]_vars => AllLogged'
  BY LoggedStep, OneWriteDefs DEF Inv, AllLogged
<1> QED BY <1>1, LoggedInit, InvHolds, PTL DEF Spec

\* The audit log says of every write what became of it, once, whatever fails and
\* whenever the process dies; without a failure it misses nothing.
THEOREM LogIsTruthful == Spec => []LogMatchesDatabase
<1>1. ASSUME NEW w \in Writes, Logged(w) PROVE Cardinality(log[w]) <= 1
  <2>1. log[w] = {} \/ \E line : log[w] = {line}
    BY <1>1 DEF Logged
  <2>2. Cardinality(log[w]) \in {0, 1}
    BY <2>1, FS_EmptySet, FS_Singleton
  <2> QED BY <2>2
<1>2. AllLogged => LogMatchesDatabase
  BY <1>1 DEF Logged, LogMatchesDatabase, AllLogged
<1> QED BY <1>2, LoggedHolds, PTL

\* While no file write has failed, a connected panel shows the open writes, each
\* until it is decided and done, whichever panel decides and however late.
THEOREM PanelsAreCurrent == Spec => []PanelIsCurrent
<1>1. Init => PanelIsCurrent
  BY DEF Init, PanelIsCurrent, Pending
<1>2. Inv /\ PanelIsCurrent /\ [Next]_vars => PanelIsCurrent'
  BY PanelStep, OneWriteDefs DEF Inv
<1> QED BY <1>1, <1>2, InvHolds, PTL DEF Spec

\* Every operator who came too late was told who decided.
THEOREM LosersAreTold == Spec => []LoserLearnsWinner
BY InvHolds, PTL DEF Inv
=============================================================================

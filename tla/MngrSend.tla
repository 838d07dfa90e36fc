------------------------------ MODULE MngrSend ------------------------------
(***************************************************************************)
(* A prompt and its answer over the mngr CLI: send() in                    *)
(* agent-host/src/backends/mngr.ts, and the fleet's check and collect      *)
(* (agent-host/src/fleet/ops.ts, fleet/status.ts) on a spawned child.      *)
(*                                                                         *)
(* `mngr message` returns on submission, so the answer is read off the     *)
(* agent's transcript: an entry that was not there before the prompt and   *)
(* that ends a turn.  The CLI may exit non-zero on a prompt it delivered,  *)
(* a read may fail, the prompt may reach the transcript late, and the      *)
(* deadline may pass before the answer comes.  Turns of one agent do not   *)
(* overlap (module Principals).                                            *)
(*                                                                         *)
(* An agent answers its prompts in any order, each with narration first if *)
(* it likes.  Texts are abstracted to whose prompt they answer; an empty   *)
(* answer is reported like any other.  A fleet child is sent one prompt.   *)
(* collect's wait and its polls are the choice of when it reads; index.ts  *)
(* wires a liveness that is always unknowable, which is one of the answers *)
(* MngrReports has here.                                                   *)
(***************************************************************************)
EXTENDS Integers, Sequences

CONSTANTS NumPrompts,   \* bound: turns on the agent
          MaxNarration  \* bound: entries of narration before an answer

ASSUME NumPromptsAssumption == NumPrompts \in Nat

Prompts == 1 .. NumPrompts
Unreadable == -1

VARIABLES
    child,       \* is the agent a fleet child, or an operator's
    transcript,  \* the agent's common transcript
    inbox,       \* submitted prompts that are not in the transcript yet
    turn,        \* the running turn: where it is, and its baseline
    sent,        \* the number of turns that have begun
    clean,       \* history: turns that began with nothing outstanding
    answer,      \* history: the entry each turn reported, 0 for none
    collector,   \* a collect call: what it has read so far
    collected    \* history: what collect gave as a final answer

vars == <<child, transcript, inbox, turn, sent, clean, answer, collector, collected>>

turnVars == <<turn, sent, clean, answer>>
collectVars == <<collector, collected>>

NoTurn == [pc |-> "idle", before |-> Unreadable]
NoCollect == [pc |-> "idle", mngr |-> "unknown", last |-> "nothing"]

Init ==
    /\ child \in BOOLEAN
    /\ transcript = <<>> /\ inbox = {}
    /\ turn = NoTurn /\ sent = 0 /\ clean = {}
    /\ answer = [q \in Prompts |-> 0]
    /\ collector = NoCollect /\ collected = {}

-----------------------------------------------------------------------------
(* The agent.                                                              *)

Entries(kind) == {i \in DOMAIN transcript : transcript[i].kind = kind}

PromptsOf(kind) == {transcript[i].by : i \in Entries(kind)}

Unanswered == PromptsOf("user") \ PromptsOf("final")

Outstanding == inbox \cup Unanswered

AppendEntry(q, kind) == transcript' = Append(transcript, [by |-> q, kind |-> kind])

AgentStep ==
    /\ \/ \E q \in inbox : AppendEntry(q, "user") /\ inbox' = inbox \ {q}
       \/ \E q \in Unanswered :
             /\ \/ AppendEntry(q, "final")
                \/ /\ AppendEntry(q, "narration")
                   /\ Len(SelectSeq(transcript, LAMBDA e : e = [by |-> q, kind |-> "narration"]))
                         < MaxNarration
             /\ UNCHANGED inbox
    /\ UNCHANGED <<child, turnVars, collectVars>>

-----------------------------------------------------------------------------
(* send.                                                                   *)

Begin ==
    /\ turn.pc = "idle" /\ sent < NumPrompts
    /\ child => sent = 0
    /\ turn' = [NoTurn EXCEPT !.pc = "baseline"]
    /\ sent' = sent + 1
    /\ clean' = IF Outstanding = {} THEN clean \cup {sent'} ELSE clean
    /\ UNCHANGED <<child, transcript, inbox, answer, collectVars>>

\* The transcript before the prompt, unless it cannot be read.  An agent that
\* has produced nothing yet counts as an empty transcript.
ReadBefore ==
    /\ turn.pc = "baseline"
    /\ \E n \in {Len(transcript), Unreadable} :
          turn' = [turn EXCEPT !.pc = "message", !.before = n]
    /\ UNCHANGED <<child, transcript, inbox, sent, clean, answer, collectVars>>

End == turn' = NoTurn

\* `mngr message`: submitted and exit 0, submitted and exit 1, or not
\* submitted.  Without a baseline a clean exit ends the turn with an error.
Submit ==
    /\ turn.pc = "message"
    /\ \/ /\ inbox' = inbox \cup {sent}
          /\ IF turn.before = Unreadable THEN End ELSE turn' = [turn EXCEPT !.pc = "poll"]
       \/ /\ inbox' \in {inbox, inbox \cup {sent}}
          /\ turn' = [turn EXCEPT !.pc = "reconcile"]
    /\ UNCHANGED <<child, transcript, sent, clean, answer, collectVars>>

\* (mutants: the newest entry whatever it ends; no baseline)
NewestText == {i \in DOMAIN transcript : i > turn.before /\ transcript[i].kind # "user"}
NewestFinal == Entries("final")

\* newAssistantReply's candidates: entries past the baseline that end a turn.
NewReplies == {i \in Entries("final") : i > turn.before}

Newest(i, S) == i \in S /\ \A j \in S : j <= i

Report == /\ \E i \in NewReplies : /\ Newest(i, NewReplies)
                                  /\ answer' = [answer EXCEPT ![sent] = i]
          /\ End

\* After a non-zero exit: the prompt was delivered if both reads worked and
\* the transcript grew.  Then the turn waits for its answer like any other.
Reconcile ==
    /\ turn.pc = "reconcile"
    /\ \/ End /\ UNCHANGED answer                       \* an unreadable read
       \/ /\ turn.before # Unreadable
          /\ Len(transcript) > turn.before
          /\ IF NewReplies # {} THEN Report
             ELSE turn' = [turn EXCEPT !.pc = "poll"] /\ UNCHANGED answer
       \/ /\ turn.before # Unreadable
          /\ Len(transcript) <= turn.before
          /\ End /\ UNCHANGED answer
    /\ UNCHANGED <<child, transcript, inbox, sent, clean, collectVars>>

\* A poll finds a reply, or it finds none, or fails, at the deadline.
PollFinds ==
    /\ turn.pc = "poll" /\ NewReplies # {}
    /\ Report
    /\ UNCHANGED <<child, transcript, inbox, sent, clean, collectVars>>

PollForever == FALSE \* (mutant: the deadline never passes)

PollGivesUp ==
    /\ turn.pc = "poll"
    /\ End
    /\ UNCHANGED <<child, transcript, inbox, sent, clean, answer, collectVars>>

Send == Begin \/ ReadBefore \/ Submit \/ Reconcile \/ PollFinds \/ PollGivesUp

-----------------------------------------------------------------------------
(* check and collect.                                                      *)

\* What mngr may say of the agent.  It says DONE only when nothing is left to
\* do; its END_OF_TURN may be ahead of the model.
MngrReports ==
    {"unknown", "running", "permissions", "end_of_turn", "waiting", "stopped"}
       \cup IF Outstanding = {} /\ transcript # <<>> THEN {"done"} ELSE {}

LastText == {i \in DOMAIN transcript : transcript[i].kind # "user"}

LastKind == IF LastText = {} THEN "nothing"
            ELSE transcript[CHOOSE i \in LastText : Newest(i, LastText)].kind

\* (mutant: END_OF_TURN is believed)
StatusTrusting(mngr, terminal) ==
    IF mngr \in {"done", "end_of_turn"} THEN "done" ELSE "working"

\* deriveAgentStatus: an idle agent is done only if its last text says so too.
deriveAgentStatus(mngr, terminal) ==
    CASE mngr = "unknown" -> "unknown"
      [] mngr = "done" -> "done"
      [] mngr = "permissions" -> "blocked"
      [] mngr \in {"end_of_turn", "waiting"} -> IF terminal THEN "done" ELSE "working"
      [] mngr = "running" -> "working"
      [] mngr = "stopped" -> "stopped"

Collecting(pc) == collector.pc = pc /\ UNCHANGED <<child, transcript, inbox, turnVars>>

ReadLiveness ==
    /\ child /\ Collecting("idle")
    /\ \E m \in MngrReports :
          collector' = [NoCollect EXCEPT !.pc = "liveness", !.mngr = m]
    /\ UNCHANGED collected

ReadStatus ==
    /\ Collecting("liveness")
    /\ collector' =
          IF deriveAgentStatus(collector.mngr, LastKind = "final") = "done"
          THEN [collector EXCEPT !.pc = "transcript"] ELSE NoCollect
    /\ UNCHANGED collected

ReadTranscript ==
    /\ Collecting("transcript")
    /\ collector' \in {NoCollect, [collector EXCEPT !.pc = "reason", !.last = LastKind]}
    /\ UNCHANGED collected

\* resultFor: the last text that was read, if the last reason is terminal now.
ReadReason ==
    /\ Collecting("reason")
    /\ collector' = NoCollect
    /\ collected' = IF LastKind = "final" THEN collected \cup {collector.last} ELSE collected

Collect == ReadLiveness \/ ReadStatus \/ ReadTranscript \/ ReadReason

-----------------------------------------------------------------------------
Next == AgentStep \/ Send \/ Collect

\* Every exec is killed at its time-out and the poll has a deadline, so a turn
\* moves; nothing is assumed of the agent.
Spec == Init /\ [][Next]_vars /\ WF_vars(Send)

-----------------------------------------------------------------------------
(* Properties.                                                             *)

TypeOK ==
    /\ transcript \in Seq([by : Prompts, kind : {"user", "narration", "final"}])
    /\ turn.pc \in {"idle", "baseline", "message", "reconcile", "poll"}
    /\ turn.before \in Nat \cup {Unreadable}
    /\ sent \in 0 .. NumPrompts /\ clean \subseteq 1 .. sent
    /\ \A q \in Prompts : answer[q] \in 0 .. Len(transcript)

\* No entry of the transcript is reported as the answer of two turns, and an
\* answer is the end of a turn of the model, never narration or a prompt.
AnswersAreReportedOnce ==
    \A q, r \in Prompts :
        answer[q] # 0 => /\ q # r => answer[q] # answer[r]
                         /\ transcript[answer[q]].kind = "final"

\* A turn that begins when the agent owes no answer reports the answer to its
\* own prompt; after a time-out the next turn may report the late one.
AnswersItsOwnPrompt ==
    \A q \in clean : answer[q] # 0 => transcript[answer[q]].by = q

\* What collect hands to the model as a child's result is its final answer,
\* however the agent moves between collect's four reads.
CollectedIsFinal == collected \subseteq {"final"}

\* Every turn ends, whatever the CLI and the agent do.
TurnsEnd == turn.pc # "idle" ~> turn.pc = "idle"
=============================================================================

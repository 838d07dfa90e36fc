--------------------------- MODULE MngrSendProofs ---------------------------
(***************************************************************************)
(* Proofs about MngrSend, for any number of turns on an agent and any      *)
(* amount of narration: no answer is reported twice, a turn that begins    *)
(* when nothing is outstanding reports its own, and what is collected from *)
(* a fleet child is its final answer.                                      *)
(***************************************************************************)
EXTENDS MngrSend, TLAPS

USE NumPromptsAssumption

Kinds == {"user", "narration", "final"}
Entry == [by : Prompts, kind : Kinds]
Reports == {"unknown", "running", "permissions", "end_of_turn", "waiting", "stopped", "done"}

Types ==
    /\ child \in BOOLEAN
    /\ transcript \in Seq(Entry)
    /\ inbox \subseteq 1 .. sent
    /\ turn \in [pc : {"idle", "baseline", "message", "reconcile", "poll"},
                 before : Nat \cup {Unreadable}]
    /\ sent \in 0 .. NumPrompts /\ clean \subseteq 1 .. sent
    /\ answer \in [Prompts -> Nat]
    /\ collector \in [pc : {"idle", "liveness", "transcript", "reason"},
                      mngr : Reports, last : Kinds \cup {"nothing"}]

\* A prompt enters the transcript once, before its narration and its answer,
\* and nothing of it comes after its answer.
TranscriptInOrder ==
    /\ \A i \in DOMAIN transcript : transcript[i].by <= sent
    /\ \A i \in DOMAIN transcript : transcript[i].by \in PromptsOf("user")
    /\ inbox \cap PromptsOf("user") = {}
    /\ turn.pc \in {"baseline", "message"} => sent \notin inbox \cup PromptsOf("user")
    /\ \A i, j \in DOMAIN transcript :
          transcript[i].kind = "final" /\ transcript[i].by = transcript[j].by => j <= i

HasBaseline == turn.pc \in {"message", "reconcile", "poll"} /\ turn.before # Unreadable

\* Whatever was reported was there when the running turn took its baseline.
AnswersPrecedeBaseline ==
    /\ turn.pc # "idle" => sent >= 1
    /\ turn.pc = "poll" => turn.before # Unreadable
    /\ HasBaseline => turn.before <= Len(transcript) /\ \A q \in Prompts : answer[q] <= turn.before
    /\ \A q \in Prompts : answer[q] # 0 => /\ q <= sent
                                          /\ answer[q] \in DOMAIN transcript

\* While a turn that began with nothing outstanding runs, only its own prompt
\* can be outstanding, and only its own entries come after its baseline.
CleanTurnIsAlone ==
    sent \in clean =>
        /\ turn.pc \in {"baseline", "message"} => Outstanding = {}
        /\ turn.pc \in {"reconcile", "poll"} => Outstanding \subseteq {sent}
        /\ HasBaseline => \A i \in DOMAIN transcript :
                              i > turn.before => transcript[i].by = sent

Answered == PromptsOf("final") # {}

\* A child has one prompt, which comes first in its transcript; once collect
\* believes that the child is done, the answer is there.
ChildHasOnePrompt ==
    /\ child => /\ sent <= 1
                /\ \A i \in DOMAIN transcript : transcript[i].kind = "user" => i = 1
    /\ collector.pc # "idle" => child
    /\ collector.pc = "liveness" /\ collector.mngr = "done" => Answered
    /\ collector.pc \in {"transcript", "reason"} => Answered
    /\ collector.pc = "reason" => collector.last = "final"

Inv ==
    /\ Types /\ TranscriptInOrder /\ AnswersPrecedeBaseline /\ CleanTurnIsAlone
    /\ ChildHasOnePrompt
    /\ AnswersAreReportedOnce /\ AnswersItsOwnPrompt /\ CollectedIsFinal

LEMMA InitInv == Init => Inv
<1> SUFFICES ASSUME Init PROVE Inv
  OBVIOUS
<1>1. /\ DOMAIN transcript = {} /\ Len(transcript) = 0 /\ transcript \in Seq(Entry)
      /\ \A q \in Prompts : answer[q] = 0
  BY DEF Init
<1>2. Types
  BY <1>1 DEF Init, Types, NoTurn, NoCollect, Reports
<1>3. TranscriptInOrder /\ ChildHasOnePrompt /\ CleanTurnIsAlone
  BY <1>1 DEF Init, TranscriptInOrder, PromptsOf, Entries, ChildHasOnePrompt, CleanTurnIsAlone, NoTurn, NoCollect
<1>4. AnswersPrecedeBaseline /\ AnswersAreReportedOnce /\ AnswersItsOwnPrompt /\ CollectedIsFinal
  BY <1>1 DEF Init, AnswersPrecedeBaseline, HasBaseline, AnswersAreReportedOnce, AnswersItsOwnPrompt,
              CollectedIsFinal, NoTurn
<1> QED  BY <1>2, <1>3, <1>4 DEF Inv

-----------------------------------------------------------------------------
(* The agent.                                                              *)

LEMMA EntryTyped ==
  ASSUME Types, NEW i \in DOMAIN transcript
  PROVE  /\ transcript[i] \in Entry
         /\ i \in 1 .. Len(transcript) /\ Len(transcript) \in Nat
         /\ transcript[i].by \in Prompts /\ transcript[i].kind \in Kinds
<1>1. transcript \in Seq(Entry)
  BY DEF Types
<1>2. i \in 1 .. Len(transcript) /\ Len(transcript) \in Nat /\ transcript[i] \in Entry
  BY <1>1
<1> QED  BY <1>2 DEF Entry

\* What an entry changes.
LEMMA Appended ==
  ASSUME Types, NEW q \in Prompts, NEW kind \in Kinds, AppendEntry(q, kind)
  PROVE  LET n == Len(transcript) + 1 IN
         /\ n \in Nat /\ DOMAIN transcript = 1 .. Len(transcript)
         /\ transcript' \in Seq(Entry) /\ Len(transcript') = n
         /\ DOMAIN transcript' = DOMAIN transcript \cup {n} /\ n \notin DOMAIN transcript
         /\ transcript'[n].by = q /\ transcript'[n].kind = kind
         /\ \A i \in DOMAIN transcript : transcript'[i] = transcript[i] /\ i < n /\ i # n
<1>1. /\ [by |-> q, kind |-> kind] \in Entry
      /\ transcript' = Append(transcript, [by |-> q, kind |-> kind]) /\ transcript \in Seq(Entry)
  BY DEF Types, Entry, AppendEntry
<1> QED  BY <1>1

LEMMA PromptsAppended ==
  ASSUME Types, NEW q \in Prompts, NEW kind \in Kinds, AppendEntry(q, kind), NEW k \in Kinds
  PROVE  PromptsOf(k)' = IF k = kind THEN PromptsOf(k) \cup {q} ELSE PromptsOf(k)
  BY Appended DEF PromptsOf, Entries

\* A step of the agent is about a prompt that is outstanding.
LEMMA AgentAppends ==
  ASSUME Inv, AgentStep
  PROVE  \E q \in Outstanding, kind \in Kinds :
            /\ q \in 1 .. sent /\ q \in Prompts
            /\ AppendEntry(q, kind)
            /\ \/ kind = "user" /\ q \in inbox /\ inbox' = inbox \ {q}
               \/ kind # "user" /\ q \in Unanswered /\ inbox' = inbox
<1>1. \A q \in Outstanding : q \in 1 .. sent /\ q \in Prompts
  <2>1. \A i \in DOMAIN transcript : transcript[i].by \in 1 .. sent
    <3>1. \A i \in DOMAIN transcript : transcript[i].by \in Prompts /\ transcript[i].by <= sent
      BY EntryTyped DEF Inv, TranscriptInOrder
    <3>2. sent \in 0 .. NumPrompts
      BY DEF Inv, Types
    <3> QED  BY <3>1, <3>2 DEF Prompts
  <2>2. 1 .. sent \subseteq Prompts /\ inbox \subseteq 1 .. sent
    BY DEF Inv, Types, Prompts
  <2> QED  BY <2>1, <2>2 DEF Outstanding, Unanswered, PromptsOf, Entries
<1>2. CASE \E q \in inbox : AppendEntry(q, "user") /\ inbox' = inbox \ {q}
  BY <1>1, <1>2 DEF Outstanding, Kinds
<1>3. CASE \E q \in Unanswered : /\ AppendEntry(q, "final") \/ AppendEntry(q, "narration")
                                 /\ UNCHANGED inbox
  BY <1>1, <1>3 DEF Outstanding, Kinds
<1> QED  BY <1>2, <1>3 DEF AgentStep

LEMMA AgentInv ==
  ASSUME Inv, AgentStep
  PROVE  Inv'
<1>1. UNCHANGED <<child, turn, sent, clean, answer, collector, collected>>
  BY DEF AgentStep, turnVars, collectVars
<1>2. PICK q \in Outstanding, kind \in Kinds :
          /\ q \in 1 .. sent /\ q \in Prompts
          /\ AppendEntry(q, kind)
          /\ \/ kind = "user" /\ q \in inbox /\ inbox' = inbox \ {q}
             \/ kind # "user" /\ q \in Unanswered /\ inbox' = inbox
  BY AgentAppends
<1> DEFINE n == Len(transcript) + 1
<1>3. /\ n \in Nat /\ DOMAIN transcript = 1 .. Len(transcript)
      /\ transcript' \in Seq(Entry) /\ Len(transcript') = n
      /\ DOMAIN transcript' = DOMAIN transcript \cup {n} /\ n \notin DOMAIN transcript
      /\ transcript'[n].by = q /\ transcript'[n].kind = kind
      /\ \A i \in DOMAIN transcript : transcript'[i] = transcript[i] /\ i < n /\ i # n
  BY <1>2, Appended DEF Inv
<1>4. /\ PromptsOf("user")' = IF kind = "user" THEN PromptsOf("user") \cup {q} ELSE PromptsOf("user")
      /\ PromptsOf("final")' = IF kind = "final" THEN PromptsOf("final") \cup {q} ELSE PromptsOf("final")
  BY <1>2, PromptsAppended DEF Inv, Kinds
<1> HIDE DEF n
<1>5. Types'
  BY <1>1, <1>2, <1>3 DEF Inv, Types
<1>6. /\ \A i \in DOMAIN transcript : transcript[i].by \in PromptsOf("user")
      /\ q \in inbox \cup PromptsOf("user")
      /\ inbox \cap PromptsOf("user") = {}
      /\ q \notin PromptsOf("final")
  BY DEF Inv, TranscriptInOrder, Outstanding, Unanswered, PromptsOf, Entries
<1>7. \A i \in DOMAIN transcript :
          /\ transcript[i].kind = "final" => transcript[i].by # q
          /\ kind = "user" => transcript[i].by # q
  BY <1>2, <1>6 DEF PromptsOf, Entries
<1>8. TranscriptInOrder'
  <2>1. \A i \in DOMAIN transcript' : transcript'[i].by <= sent'
    BY <1>1, <1>2, <1>3 DEF Inv, TranscriptInOrder
  <2>2. \A i \in DOMAIN transcript' : transcript'[i].by \in PromptsOf("user")'
    BY <1>2, <1>3, <1>4, <1>6 DEF Unanswered
  <2>3. inbox' \cap PromptsOf("user")' = {}
    BY <1>2, <1>4, <1>6
  <2>4. turn'.pc \in {"baseline", "message"} => sent' \notin inbox' \cup PromptsOf("user")'
    BY <1>1, <1>2, <1>4 DEF Inv, TranscriptInOrder
  <2>5. \A i, j \in DOMAIN transcript' :
            transcript'[i].kind = "final" /\ transcript'[i].by = transcript'[j].by => j <= i
    BY <1>3, <1>7 DEF Inv, TranscriptInOrder
  <2> QED  BY <2>1, <2>2, <2>3, <2>4, <2>5 DEF TranscriptInOrder
<1>9. AnswersPrecedeBaseline'
  BY <1>1, <1>3 DEF Inv, Types, AnswersPrecedeBaseline, HasBaseline
<1>10. CleanTurnIsAlone'
  <2>1. Outstanding' \subseteq Outstanding
    BY <1>2, <1>4 DEF Outstanding, Unanswered
  <2>2. sent \in clean /\ turn.pc # "idle" => q = sent /\ turn.pc \in {"reconcile", "poll"}
    BY <1>2 DEF Inv, Types, CleanTurnIsAlone
  <2>3. sent \in clean /\ HasBaseline => \A i \in DOMAIN transcript' :
            i > turn.before => transcript'[i].by = sent
    BY <1>3, <2>2 DEF Inv, CleanTurnIsAlone, HasBaseline
  <2> QED  BY <1>1, <2>1, <2>2, <2>3 DEF Inv, CleanTurnIsAlone, HasBaseline
<1>11. ChildHasOnePrompt'
  <2>1. Answered => Answered'
    BY <1>4 DEF Answered
  <2>2. child /\ kind = "user" => DOMAIN transcript = {}
    <3> SUFFICES ASSUME child, kind = "user", NEW i \in DOMAIN transcript PROVE FALSE
      OBVIOUS
    <3>1. transcript[i].by \in Prompts /\ transcript[i].by <= sent
      BY EntryTyped DEF Inv, TranscriptInOrder
    <3>2. sent \in 0 .. NumPrompts /\ sent <= 1
      BY DEF Inv, Types, ChildHasOnePrompt
    <3>3. transcript[i].by = q
      BY <3>1, <3>2, <1>2 DEF Prompts
    <3> QED  BY <3>3, <1>7
  <2>3. child /\ kind = "user" => n = 1
    BY <2>2, <1>3 DEF n, Inv, Types
  <2>4. child => \A i \in DOMAIN transcript' : transcript'[i].kind = "user" => i = 1
    BY <1>3, <2>3 DEF Inv, ChildHasOnePrompt
  <2> QED  BY <1>1, <2>1, <2>4 DEF Inv, ChildHasOnePrompt
<1>12. AnswersAreReportedOnce'
  BY <1>1, <1>3 DEF Inv, AnswersPrecedeBaseline, AnswersAreReportedOnce
<1>13. AnswersItsOwnPrompt' /\ CollectedIsFinal'
  BY <1>1, <1>3 DEF Inv, Types, AnswersPrecedeBaseline, AnswersItsOwnPrompt, CollectedIsFinal, Prompts
<1> QED  BY <1>5, <1>8, <1>9, <1>10, <1>11, <1>12, <1>13 DEF Inv

-----------------------------------------------------------------------------
(* send.  None of its steps writes the transcript.                         *)

LEMMA Unwritten ==
  ASSUME UNCHANGED transcript
  PROVE  /\ \A k \in Kinds : PromptsOf(k)' = PromptsOf(k)
         /\ Answered' = Answered /\ Unanswered' = Unanswered /\ LastKind' = LastKind
  BY DEF PromptsOf, Entries, Answered, Unanswered, LastKind, LastText, Newest

LEMMA BeginInv ==
  ASSUME Inv, Begin
  PROVE  Inv'
<1>1. /\ turn.pc = "idle" /\ sent \in 0 .. NumPrompts /\ sent < NumPrompts /\ sent' = sent + 1
      /\ turn' = [pc |-> "baseline", before |-> Unreadable]
      /\ child => sent = 0
      /\ clean' = IF Outstanding = {} THEN clean \cup {sent'} ELSE clean
      /\ UNCHANGED <<child, transcript, inbox, answer, collector, collected>>
      /\ clean \subseteq 1 .. sent /\ inbox \subseteq 1 .. sent
  BY DEF Begin, NoTurn, collectVars, Inv, Types
<1>2. Types'
  BY <1>1 DEF Inv, Types
<1>3. \A p \in PromptsOf("user") : p <= sent
  BY DEF Inv, TranscriptInOrder, PromptsOf, Entries
<1>4. TranscriptInOrder'
  <2>1. sent' \notin inbox \cup PromptsOf("user")
    BY <1>1, <1>3
  <2>2. \A i \in DOMAIN transcript : transcript[i].by \in Prompts /\ transcript[i].by <= sent
    BY EntryTyped DEF Inv, TranscriptInOrder
  <2>3. \A i \in DOMAIN transcript : transcript[i].by <= sent'
    BY <2>2, <1>1 DEF Prompts
  <2> QED  BY <1>1, <2>1, <2>3, Unwritten DEF Inv, TranscriptInOrder, Kinds
<1>5. AnswersPrecedeBaseline'
  BY <1>1 DEF Inv, AnswersPrecedeBaseline, HasBaseline, Prompts
<1>6. CleanTurnIsAlone'
  <2>1. sent' \in clean' => Outstanding = {}
    BY <1>1
  <2>2. Outstanding' = Outstanding
    BY <1>1, Unwritten DEF Outstanding
  <2> QED  BY <1>1, <2>1, <2>2 DEF CleanTurnIsAlone, HasBaseline
<1>7. ChildHasOnePrompt'
  BY <1>1, Unwritten DEF Inv, ChildHasOnePrompt
<1>8. AnswersAreReportedOnce' /\ CollectedIsFinal'
  BY <1>1 DEF Inv, AnswersAreReportedOnce, CollectedIsFinal
<1>9. AnswersItsOwnPrompt'
  BY <1>1 DEF Inv, AnswersItsOwnPrompt, AnswersPrecedeBaseline, Prompts
<1> QED  BY <1>2, <1>4, <1>5, <1>6, <1>7, <1>8, <1>9 DEF Inv

LEMMA ReadBeforeInv ==
  ASSUME Inv, ReadBefore
  PROVE  Inv'
<1>0. transcript \in Seq(Entry) /\ Len(transcript) \in Nat
  <2>1. transcript \in Seq(Entry)
    BY DEF Inv, Types
  <2> QED  BY <2>1
<1>1. /\ turn.pc = "baseline"
      /\ \E n \in {Len(transcript), Unreadable} : turn' = [turn EXCEPT !.pc = "message", !.before = n]
      /\ turn \in [pc : {"idle", "baseline", "message", "reconcile", "poll"},
                    before : Nat \cup {Unreadable}]
      /\ UNCHANGED <<child, transcript, inbox, sent, clean, answer, collector, collected>>
  BY DEF ReadBefore, collectVars, Inv, Types
<1>2. turn'.pc = "message" /\ turn'.before \in {Len(transcript), Unreadable}
  BY <1>0, <1>1
<1>3. Types'
  BY <1>0, <1>1 DEF Inv, Types
<1>4. TranscriptInOrder'
  BY <1>1, <1>2, Unwritten DEF Inv, TranscriptInOrder, Kinds
<1>5. AnswersPrecedeBaseline'
  <2>1. \A q \in Prompts : answer[q] <= Len(transcript)
    BY <1>0, <1>1, EntryTyped DEF Inv, AnswersPrecedeBaseline
  <2> QED  BY <1>0, <1>1, <1>2, <2>1 DEF Inv, AnswersPrecedeBaseline, HasBaseline
<1>6. CleanTurnIsAlone'
  <2>1. \A i \in DOMAIN transcript : i \in Nat /\ i <= Len(transcript)
    BY EntryTyped DEF Inv
  <2>2. Outstanding' = Outstanding
    BY <1>1, Unwritten DEF Outstanding
  <2> QED  BY <1>0, <1>1, <1>2, <2>1, <2>2 DEF Inv, CleanTurnIsAlone, HasBaseline
<1>7. ChildHasOnePrompt'
  BY <1>1, Unwritten DEF Inv, ChildHasOnePrompt
<1>8. AnswersAreReportedOnce' /\ AnswersItsOwnPrompt' /\ CollectedIsFinal'
  BY <1>1 DEF Inv, AnswersAreReportedOnce, AnswersItsOwnPrompt, CollectedIsFinal
<1> QED  BY <1>3, <1>4, <1>5, <1>6, <1>7, <1>8 DEF Inv

LEMMA SubmitInv ==
  ASSUME Inv, Submit
  PROVE  Inv'
<1>1. /\ turn.pc = "message"
      /\ turn \in [pc : {"idle", "baseline", "message", "reconcile", "poll"},
                    before : Nat \cup {Unreadable}]
      /\ inbox' \in {inbox, inbox \cup {sent}}
      /\ \/ turn' = NoTurn
         \/ turn' = [turn EXCEPT !.pc = "poll"] /\ turn.before # Unreadable
         \/ turn' = [turn EXCEPT !.pc = "reconcile"]
      /\ UNCHANGED <<child, transcript, sent, clean, answer, collector, collected>>
  BY DEF Submit, End, collectVars, Inv, Types
<1>2. \/ turn'.pc = "idle"
      \/ /\ turn'.pc \in {"poll", "reconcile"} /\ turn'.before = turn.before
         /\ turn'.pc = "poll" => turn.before # Unreadable
  BY <1>1 DEF NoTurn
<1>3. Types'
  <2>1. turn' \in [pc : {"idle", "baseline", "message", "reconcile", "poll"},
                   before : Nat \cup {Unreadable}]
    BY <1>1 DEF NoTurn
  <2>2. inbox' \subseteq 1 .. sent
    BY <1>1 DEF Inv, Types, AnswersPrecedeBaseline
  <2> QED  BY <1>1, <2>1, <2>2 DEF Inv, Types
<1>4. TranscriptInOrder'
  BY <1>1, <1>2, Unwritten DEF Inv, TranscriptInOrder, Kinds
<1>5. AnswersPrecedeBaseline'
  BY <1>1, <1>2 DEF Inv, AnswersPrecedeBaseline, HasBaseline
<1>6. CleanTurnIsAlone'
  <2>1. Outstanding' \subseteq Outstanding \cup {sent}
    BY <1>1, Unwritten DEF Outstanding
  <2> QED  BY <1>1, <1>2, <2>1 DEF Inv, CleanTurnIsAlone, HasBaseline
<1>7. ChildHasOnePrompt'
  BY <1>1, Unwritten DEF Inv, ChildHasOnePrompt
<1>8. AnswersAreReportedOnce' /\ AnswersItsOwnPrompt' /\ CollectedIsFinal'
  BY <1>1 DEF Inv, AnswersAreReportedOnce, AnswersItsOwnPrompt, CollectedIsFinal
<1> QED  BY <1>3, <1>4, <1>5, <1>6, <1>7, <1>8 DEF Inv

\* What a turn does once its prompt is submitted: it reports a new answer and
\* ends, or ends, or goes on to poll.
LEMMA Outcome ==
  ASSUME Inv, Reconcile \/ PollFinds \/ PollGivesUp
  PROVE  /\ turn.pc \in {"reconcile", "poll"}
         /\ UNCHANGED <<child, transcript, inbox, sent, clean, collector, collected>>
         /\ \/ /\ turn' = NoTurn /\ turn.before # Unreadable
               /\ \E i \in NewReplies : answer' = [answer EXCEPT ![sent] = i]
            \/ turn' = NoTurn /\ answer' = answer
            \/ /\ turn' = [turn EXCEPT !.pc = "poll"] /\ turn.before # Unreadable
               /\ answer' = answer
  BY DEF Reconcile, PollFinds, PollGivesUp, Report, End, collectVars, Inv, AnswersPrecedeBaseline

LEMMA OutcomeInv ==
  ASSUME Inv, Reconcile \/ PollFinds \/ PollGivesUp
  PROVE  Inv'
<1>1. /\ turn.pc \in {"reconcile", "poll"}
      /\ UNCHANGED <<child, transcript, inbox, sent, clean, collector, collected>>
      /\ \/ /\ turn' = NoTurn /\ turn.before # Unreadable
            /\ \E i \in NewReplies : answer' = [answer EXCEPT ![sent] = i]
         \/ turn' = NoTurn /\ answer' = answer
         \/ /\ turn' = [turn EXCEPT !.pc = "poll"] /\ turn.before # Unreadable
            /\ answer' = answer
  BY Outcome
<1>t. /\ turn \in [pc : {"idle", "baseline", "message", "reconcile", "poll"},
                    before : Nat \cup {Unreadable}]
      /\ answer \in [Prompts -> Nat]
  BY DEF Inv, Types
<1>2. \/ turn'.pc = "idle"
      \/ /\ turn'.pc = "poll" /\ turn'.before = turn.before /\ turn.before # Unreadable
         /\ answer' = answer
  BY <1>1, <1>t DEF NoTurn
<1>3. turn' \in [pc : {"idle", "baseline", "message", "reconcile", "poll"},
                 before : Nat \cup {Unreadable}]
  BY <1>1, <1>t DEF NoTurn
<1>4. sent \in 1 .. NumPrompts /\ sent \in Prompts
  BY <1>1 DEF Inv, Types, AnswersPrecedeBaseline, Prompts
<1>5. TranscriptInOrder' /\ ChildHasOnePrompt' /\ CollectedIsFinal'
  <2>1. TranscriptInOrder'
    BY <1>1, <1>2, Unwritten DEF Inv, TranscriptInOrder, Kinds
  <2>2. ChildHasOnePrompt'
    BY <1>1, Unwritten DEF Inv, ChildHasOnePrompt
  <2> QED  BY <1>1, <2>1, <2>2 DEF Inv, CollectedIsFinal
<1>6. CleanTurnIsAlone'
  <2>1. Outstanding' = Outstanding
    BY <1>1, Unwritten DEF Outstanding
  <2> QED  BY <1>1, <1>2, <2>1 DEF Inv, CleanTurnIsAlone, HasBaseline
<1>7. CASE answer' = answer
  BY <1>1, <1>2, <1>3, <1>5, <1>6, <1>7
     DEF Inv, Types, AnswersPrecedeBaseline, HasBaseline, AnswersAreReportedOnce, AnswersItsOwnPrompt
<1>8. CASE /\ turn' = NoTurn /\ turn.before # Unreadable
           /\ \E i \in NewReplies : answer' = [answer EXCEPT ![sent] = i]
  <2>1. PICK i \in NewReplies : answer' = [answer EXCEPT ![sent] = i]
    BY <1>8
  <2>2. /\ i \in DOMAIN transcript /\ i > turn.before /\ i \in Nat /\ i # 0
        /\ transcript[i].kind = "final"
    BY EntryTyped DEF NewReplies, Entries, Inv
  <2>3. /\ answer' \in [Prompts -> Nat]
        /\ \A q \in Prompts : answer'[q] = IF q = sent THEN i ELSE answer[q]
    BY <2>1, <2>2, <1>t
  <2>4. \A q \in Prompts : answer[q] < i
    <3>1. turn.before \in Nat /\ \A q \in Prompts : answer[q] \in Nat /\ answer[q] <= turn.before
      BY <1>1, <1>8, <1>t DEF Inv, AnswersPrecedeBaseline, HasBaseline
    <3> QED  BY <3>1, <2>2
  <2>5. Types'
    BY <1>1, <1>3, <2>3 DEF Inv, Types
  <2>6. AnswersPrecedeBaseline'
    BY <1>1, <1>4, <1>8, <2>2, <2>3 DEF Inv, AnswersPrecedeBaseline, HasBaseline, NoTurn
  <2>7. AnswersAreReportedOnce'
    BY <1>1, <1>4, <2>2, <2>3, <2>4, <1>t DEF Inv, AnswersAreReportedOnce
  <2>8. AnswersItsOwnPrompt'
    <3>1. sent \in clean => transcript[i].by = sent
      BY <1>1, <1>8, <2>2 DEF Inv, CleanTurnIsAlone, HasBaseline
    <3>2. clean \subseteq Prompts
      BY DEF Inv, Types, Prompts
    <3> QED  BY <1>1, <2>3, <3>1, <3>2 DEF Inv, AnswersItsOwnPrompt
  <2> QED  BY <1>5, <1>6, <2>5, <2>6, <2>7, <2>8 DEF Inv
<1> QED  BY <1>1, <1>7, <1>8

-----------------------------------------------------------------------------
(* collect.                                                                *)

\* The last entry of a child's transcript that is not its prompt is the last
\* entry of all.
LEMMA ChildLast ==
  ASSUME Inv, child, LastText # {}
  PROVE  LastKind = transcript[Len(transcript)].kind /\ Len(transcript) \in LastText
<1> DEFINE n == Len(transcript)
<1>1. \A i \in LastText : i \in DOMAIN transcript /\ i \in 1 .. n /\ n \in Nat /\ transcript[i].kind # "user"
  BY EntryTyped DEF Inv, LastText
<1>2. n \in Nat /\ n >= 1 /\ DOMAIN transcript = 1 .. n
  BY <1>1 DEF Inv, Types
<1>3. n \in LastText
  BY <1>1, <1>2 DEF Inv, ChildHasOnePrompt, LastText
<1> HIDE DEF n
<1>4. Newest(n, LastText)
  BY <1>1, <1>3 DEF Newest
<1> DEFINE m == CHOOSE i \in LastText : Newest(i, LastText)
<1>5. m \in LastText /\ Newest(m, LastText) /\ LastKind = transcript[m].kind
  BY <1>3, <1>4 DEF LastKind
<1> HIDE DEF m
<1>6. m <= n /\ n <= m /\ m \in 1 .. n /\ n \in Nat
  BY <1>1, <1>3, <1>4, <1>5 DEF Newest
<1>7. m = n
  BY <1>6
<1> QED  BY <1>3, <1>5, <1>7 DEF n

LEMMA AnsweredLast ==
  ASSUME Inv, child, Answered
  PROVE  LastKind = "final"
<1>1. PICK f \in DOMAIN transcript : transcript[f].kind = "final"
  BY DEF Answered, PromptsOf, Entries
<1>2. f \in LastText
  BY <1>1 DEF LastText
<1>3. /\ Len(transcript) \in LastText /\ LastKind = transcript[Len(transcript)].kind
      /\ Len(transcript) \in DOMAIN transcript
  BY <1>2, ChildLast DEF LastText
<1>4. \A i \in DOMAIN transcript : transcript[i].by = 1
  <2>1. sent \in 0 .. NumPrompts /\ sent <= 1
    BY DEF Inv, Types, ChildHasOnePrompt
  <2>2. \A i \in DOMAIN transcript : transcript[i].by \in Prompts /\ transcript[i].by <= sent
    BY EntryTyped DEF Inv, TranscriptInOrder
  <2> QED  BY <2>1, <2>2 DEF Prompts
<1>5. Len(transcript) <= f /\ f \in 1 .. Len(transcript) /\ Len(transcript) \in Nat
  BY <1>1, <1>3, <1>4, EntryTyped DEF Inv, TranscriptInOrder
<1> QED  BY <1>1, <1>3, <1>5

LEMMA LastAnswered ==
  ASSUME Inv, child, LastKind = "final"
  PROVE  Answered
<1>1. LastText # {}
  BY DEF LastKind
<1>2. Len(transcript) \in DOMAIN transcript /\ transcript[Len(transcript)].kind = "final"
  BY <1>1, ChildLast DEF LastText
<1> QED  BY <1>2 DEF Answered, PromptsOf, Entries

\* mngr calls a child done only when its answer is there.
LEMMA DoneAnswered ==
  ASSUME Inv, "done" \in MngrReports
  PROVE  Answered
<1>1. Outstanding = {} /\ transcript # <<>>
  BY DEF MngrReports
<1>2. 1 \in DOMAIN transcript
  BY <1>1 DEF Inv, Types
<1>3. transcript[1].by \in PromptsOf("user")
  BY <1>2 DEF Inv, TranscriptInOrder
<1> QED  BY <1>1, <1>3 DEF Outstanding, Unanswered, Answered

LEMMA CollectInv ==
  ASSUME Inv, Collect
  PROVE  Inv'
<1>1. UNCHANGED <<child, transcript, inbox, turn, sent, clean, answer>>
  BY DEF Collect, ReadLiveness, ReadStatus, ReadTranscript, ReadReason, Collecting, turnVars
<1>t. /\ collector \in [pc : {"idle", "liveness", "transcript", "reason"},
                         mngr : Reports, last : Kinds \cup {"nothing"}]
      /\ collector.pc # "idle" => child
  BY DEF Inv, Types, ChildHasOnePrompt
<1>2. /\ collector' \in [pc : {"idle", "liveness", "transcript", "reason"},
                          mngr : Reports, last : Kinds \cup {"nothing"}]
      /\ collector'.pc # "idle" => child
      /\ collector'.pc = "liveness" /\ collector'.mngr = "done" => Answered
      /\ collector'.pc \in {"transcript", "reason"} => Answered
      /\ collector'.pc = "reason" => collector'.last = "final"
      /\ collected' \subseteq collected \cup {"final"}
  <2>1. CASE ReadLiveness
    <3>1. PICK m \in MngrReports : collector' = [NoCollect EXCEPT !.pc = "liveness", !.mngr = m]
      BY <2>1 DEF ReadLiveness
    <3>2. collector' = [pc |-> "liveness", mngr |-> m, last |-> "nothing"]
      BY <3>1 DEF NoCollect
    <3>3. m \in Reports
      BY DEF MngrReports, Reports
    <3> QED  BY <2>1, <3>2, <3>3, DoneAnswered DEF ReadLiveness
  <2>2. CASE ReadStatus
    <3>1. deriveAgentStatus(collector.mngr, LastKind = "final") = "done" => Answered
      <4>1. collector.pc = "liveness" /\ child
        BY <2>2, <1>t DEF ReadStatus, Collecting
      <4>2. collector.mngr = "done" => Answered
        BY <4>1 DEF Inv, ChildHasOnePrompt
      <4>3. LastKind = "final" => Answered
        BY <4>1, LastAnswered
      <4>4. deriveAgentStatus(collector.mngr, LastKind = "final") = "done"
               => collector.mngr = "done" \/ LastKind = "final"
        BY <1>t DEF deriveAgentStatus, Reports
      <4> QED  BY <4>2, <4>3, <4>4
    <3>2. \/ collector' = NoCollect
          \/ collector' = [collector EXCEPT !.pc = "transcript"] /\ Answered
      BY <2>2, <3>1 DEF ReadStatus
    <3> QED  BY <2>2, <3>2, <1>t DEF ReadStatus, Collecting, NoCollect, Reports
  <2>3. CASE ReadTranscript
    <3>1. collector.pc = "transcript" /\ Answered /\ child /\ LastKind = "final"
      BY <2>3, <1>t, AnsweredLast DEF ReadTranscript, Collecting, Inv, ChildHasOnePrompt
    <3>2. /\ collected' = collected
          /\ collector' = NoCollect \/ collector' = [collector EXCEPT !.pc = "reason", !.last = "final"]
      <4>1. /\ collected' = collected
            /\ collector' \in {NoCollect, [collector EXCEPT !.pc = "reason", !.last = LastKind]}
        BY <2>3 DEF ReadTranscript
      <4> QED  BY <4>1, <3>1
    <3>3. \/ collector' = NoCollect
          \/ collector' = [pc |-> "reason", mngr |-> collector.mngr, last |-> "final"]
      BY <3>2, <1>t
    <3> QED  BY <3>1, <3>2, <3>3, <1>t DEF NoCollect, Reports, Kinds
  <2>4. CASE ReadReason
    <3>1. collector.last = "final" /\ collector' = NoCollect
      BY <2>4 DEF ReadReason, Collecting, Inv, ChildHasOnePrompt
    <3>2. collected' \subseteq collected \cup {"final"}
      BY <2>4, <3>1 DEF ReadReason
    <3> QED  BY <3>1, <3>2 DEF NoCollect, Reports
  <2> QED  BY <2>1, <2>2, <2>3, <2>4 DEF Collect
<1>3. Types' /\ ChildHasOnePrompt' /\ CollectedIsFinal'
  BY <1>1, <1>2, Unwritten DEF Inv, Types, ChildHasOnePrompt, CollectedIsFinal
<1>4. TranscriptInOrder' /\ AnswersPrecedeBaseline'
  BY <1>1, Unwritten DEF Inv, TranscriptInOrder, AnswersPrecedeBaseline, HasBaseline, Kinds
<1>5. CleanTurnIsAlone' /\ AnswersAreReportedOnce' /\ AnswersItsOwnPrompt'
  BY <1>1, Unwritten DEF Inv, CleanTurnIsAlone, HasBaseline, Outstanding, AnswersAreReportedOnce,
                         AnswersItsOwnPrompt
<1> QED  BY <1>3, <1>4, <1>5 DEF Inv

-----------------------------------------------------------------------------
(* The theorems.                                                           *)

LEMMA InvAlways == Spec => []Inv
<1>1. Inv /\ [Next]_vars => Inv'
  <2> SUFFICES ASSUME Inv, [Next]_vars PROVE Inv'
    OBVIOUS
  <2>1. CASE UNCHANGED vars
    <3>1. UNCHANGED <<child, transcript, inbox, turn, sent, clean, answer, collector, collected>>
      BY <2>1 DEF vars
    <3>2. Types' /\ TranscriptInOrder' /\ AnswersPrecedeBaseline'
      BY <3>1, Unwritten DEF Inv, Types, TranscriptInOrder, AnswersPrecedeBaseline, HasBaseline, Kinds
    <3>3. CleanTurnIsAlone' /\ ChildHasOnePrompt'
      BY <3>1, Unwritten DEF Inv, CleanTurnIsAlone, HasBaseline, Outstanding, ChildHasOnePrompt
    <3>4. AnswersAreReportedOnce' /\ AnswersItsOwnPrompt' /\ CollectedIsFinal'
      BY <3>1 DEF Inv, AnswersAreReportedOnce, AnswersItsOwnPrompt, CollectedIsFinal
    <3> QED  BY <3>2, <3>3, <3>4 DEF Inv
  <2>2. CASE Send
    BY <2>2, BeginInv, ReadBeforeInv, SubmitInv, OutcomeInv DEF Send
  <2> QED  BY <2>1, <2>2, AgentInv, CollectInv DEF Next
<1> QED  BY <1>1, InitInv, PTL DEF Spec

\* No entry of the transcript is the answer of two turns, and an answer is an
\* entry that ends a turn of the model.
THEOREM ReportedOnce == Spec => []AnswersAreReportedOnce
  BY InvAlways, PTL DEF Inv

\* A turn that begins when the agent owes no answer reports its own.
THEOREM ReportedToItsPrompt == Spec => []AnswersItsOwnPrompt
  BY InvAlways, PTL DEF Inv

\* What is collected from a child is its final answer, never narration.
THEOREM CollectedAnswersAreFinal == Spec => []CollectedIsFinal
  BY InvAlways, PTL DEF Inv
=============================================================================

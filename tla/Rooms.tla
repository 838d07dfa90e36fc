-------------------------------- MODULE Rooms --------------------------------
(***************************************************************************)
(* POST /messages of agent-host/src/server.ts over the turn queue: which   *)
(* session a turn resumes, and how a draft room is moved onto the session  *)
(* id that its first turn learns.                                          *)
(*                                                                         *)
(* A turn is posted under a session id or, before the room has one, under  *)
(* a draft key.  The empty pending key "" of older clients is one more     *)
(* draft key, shared by all of them.  The backend reports a session id     *)
(* while the turn runs (or returns one), and the handler adopts it.        *)
(*                                                                         *)
(* The backend is outside agent-host/src/server.ts.  Reports names what    *)
(* its runs may report:                                                    *)
(*   "stable"   a run that resumes a session reports that session, a run   *)
(*              that resumes none reports a session nobody has seen        *)
(*   "forking"  a run that resumes a session may also report a new one     *)
(*   "any"      a run may report any session, one in use elsewhere too     *)
(* A restart of the host empties all of this state, so a behaviour of the  *)
(* module is one lifetime of the process; OnDisk are the sessions that     *)
(* existed when it started.                                                *)
(***************************************************************************)
EXTENDS TurnQueue

CONSTANTS Drafts,    \* draft room keys, the pending key "" among them
          Sessions,  \* session ids
          OnDisk,    \* sessions that exist before the host starts
          NoSession, \* `undefined` for resume, "" for targetId
          Reports

ASSUME RoomsAssumption ==
    /\ Keys = Drafts \cup Sessions
    /\ Drafts \cap Sessions = {}
    /\ NoSession \notin Keys
    /\ OnDisk \subseteq Sessions
    /\ Reports \in {"stable", "forking", "any"}

VARIABLES laneSession,  \* key -> session that turns posted under it resume
          resume,       \* turn -> session it resumes, resolved as it starts
          targetId,     \* turn -> session its events go to
          used,         \* sessions that exist in the backend
          hung          \* turns whose run will never end

roomVars == <<laneSession, resume, targetId, used>>
vars == <<queueVars, roomVars, hung>>

-----------------------------------------------------------------------------

\* Mutant: only an explicit session id is resumed.
resumeInputOnly(k, mapping) == IF k \in Sessions THEN k ELSE NoSession

\* inputId ?? laneSession.get(lane), for a turn posted under key k.
resumeFor(k, mapping) == IF k \in Sessions THEN k ELSE mapping[k]

\* The turn that a step starts resolves its session as its body begins, after
\* the queue has told onDepth about the step.
ResolveStarted ==
    LET startedNow == {running'[l] : l \in Keys} \ (Started \cup {NoTurn})
        resolved(t) == resumeFor(postedAs'[t], laneSession')
    IN /\ resume' = [t \in Turns |-> IF t \in startedNow THEN resolved(t) ELSE resume[t]]
       /\ targetId' = [t \in Turns |-> IF t \in startedNow THEN resolved(t) ELSE targetId[t]]

\* Mutant: the mapping of the lane's own key only.
forgetOwnKey(lane) ==
    laneSession' = [laneSession EXCEPT ![lane] = NoSession]

\* onDepth(lane, 0): the mapping must go with the lane, by value and by key.
forgetLaneSession(lane) ==
    laneSession' = [k \in Keys |-> IF laneSession[k] = lane \/ k = lane
                                   THEN NoSession ELSE laneSession[k]]

Init ==
    /\ QueueInit
    /\ laneSession = [k \in Keys |-> NoSession]
    /\ resume = [t \in Turns |-> NoSession]
    /\ targetId = [t \in Turns |-> NoSession]
    /\ used = OnDisk
    /\ hung = {}

\* POST /messages, under a draft key or a session the client can know.  The
\* depth emitted here is at least one, so it forgets nothing.
PostMessage(t, k) ==
    /\ k \in Drafts \cup used
    /\ enqueue(t, k)
    /\ UNCHANGED <<laneSession, used, hung>>
    /\ ResolveStarted

\* The sessions a running turn may report next.
Reportable(t) ==
    CASE Reports = "any" -> Sessions
      [] Reports = "forking" -> Sessions \ used
      [] Reports = "stable" -> IF targetId[t] = NoSession THEN Sessions \ used ELSE {}

\* adoptSession(id), from a `session` event or from the value run() returns.
\* Reporting the id the turn already has changes nothing.
AdoptSession(t, id) ==
    /\ t \in RunningTurns
    /\ id \in Reportable(t) /\ id # targetId[t]
    /\ laneSession' = [laneSession EXCEPT ![postedAs[t]] = id]
    /\ rekey(postedAs[t], id)
    /\ targetId' = [targetId EXCEPT ![t] = id]
    /\ used' = used \cup {id}
    /\ UNCHANGED <<drainKey, postedAs, done, resume, hung>>

\* From here on the run of turn t does not end, though it may still report: an
\* SDK turn awaits a decision that no operator takes, without a deadline, or the
\* SDK's stream neither ends nor throws.
Hangs(t) ==
    /\ t \in RunningTurns \ hung
    /\ hung' = hung \cup {t}
    /\ UNCHANGED <<queueVars, roomVars>>

\* run() has returned, or thrown: the queue emits the lane's depth under the
\* key its drain resolves to, and goes on with the next turn.
Settle(l) ==
    /\ running[l] \notin hung
    /\ settle(l)
    /\ IF items[l] = <<>>
       THEN forgetLaneSession(canon(drainKey[running[l]]))
       ELSE UNCHANGED laneSession
    /\ UNCHANGED <<used, hung>>
    /\ ResolveStarted

Next ==
    \/ \E t \in Turns, k \in Keys : PostMessage(t, k)
    \/ \E t \in Turns, id \in Sessions : AdoptSession(t, id)
    \/ \E t \in Turns : Hangs(t)
    \/ \E l \in Keys : Settle(l)

Spec == Init /\ [][Next]_vars

\* A run that does not hang ends, wherever its lane has moved (mngr's send has a
\* deadline), and the finally block follows in the same microtasks.  That runs
\* end at all is not assumed, and nothing is of clients, operators and reports.
FairSpec ==
    Spec /\ \A t \in Turns : WF_vars(\E l \in Keys : running[l] = t /\ Settle(l))

-----------------------------------------------------------------------------

TypeOK ==
    /\ QueueTypeOK
    /\ laneSession \in [Keys -> Sessions \cup {NoSession}]
    /\ resume \in [Turns -> Sessions \cup {NoSession}]
    /\ targetId \in [Turns -> Sessions \cup {NoSession}]
    /\ used \subseteq Sessions
    /\ hung \subseteq Turns

\* The sessions whose transcript a running turn may be appending to.
Writes(t) == {resume[t], targetId[t]} \ {NoSession}

\* No transcript fork: two runs of the backend are never in flight on one
\* session, however its turns were posted (queue.ts:1-5).
OneTurnPerSession ==
    \A t, u \in RunningTurns : t # u => Writes(t) \cap Writes(u) = {}

\* The queue's alias map and the server's laneSession map are kept by two
\* modules, on different events, and always agree: a draft key resumes
\* session s exactly while its lane has moved to s (server.ts:288-290).
MapsAgree ==
    \A d \in Drafts : IF alias[d] = d THEN laneSession[d] = NoSession
                                      ELSE laneSession[d] = alias[d]

\* The turn behind a settling turn continues the session that turn ended up
\* in, under whichever key of the room it was posted, instead of starting a
\* second session (server.ts:285-287).
QueuedTurnContinuesRoom ==
    [][\A l \in Keys :
          /\ items[l] # <<>> /\ running[l] \in done' \ done
          /\ targetId[running[l]] # NoSession
          => resume'[Head(items[l])] = targetId[running[l]]]_vars

\* The first turn of a new room starts a new session: the mapping of the room
\* that used the draft key before it has not outlived its lane (server.ts:139).
NewRoomStartsFresh ==
    [][\A t \in Turns, d \in Drafts :
          postedAs[t] = NoKey /\ postedAs'[t] = d /\ ~Busy(canon(d)) => resume'[t] = NoSession]_vars

\* A turn that hangs, and the turns of its lane, for which it is not their turn.
HeldUp(t) ==
    \E l \in Keys : /\ running[l] \in hung
                   /\ \/ running[l] = t
                      \/ \E i \in DOMAIN items[l] : items[l][i] = t

\* Every accepted turn settles (202 is a promise: server.ts:347) but those in the
\* lane of a run that never ends: that run holds up its own room, through every
\* rekey, and no other one.
OnlyHungLanesWait ==
    \A t \in Turns : postedAs[t] # NoKey ~> t \in done \/ HeldUp(t)

\* Over a stable backend the rooms implement one serial line of turns each: lane
\* objects, captured keys and both maps put together do what SerialTurns says.
Serial == INSTANCE SerialTurns WITH
              front <- running, behind <- items, room <- alias, writes <- targetId,
              known <- used, accepted <- {t \in Turns : postedAs[t] # NoKey}

ImplementsSerialTurns == Serial!Spec
=============================================================================

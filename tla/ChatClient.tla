----------------------------- MODULE ChatClient -----------------------------
(***************************************************************************)
(* The chat state of one desktop client (client/src/hooks/                 *)
(* useChatSessions.ts over lib/chatStore.ts and lib/agentEvents.ts), the   *)
(* streams it holds (lib/tauri.ts, src-tauri/src/proxy.rs), and the host's *)
(* side of them (agent-host/src/server.ts).                                *)
(*                                                                         *)
(* A turn's events reach the client on the turn's own stream and on the    *)
(* stream of its session.  Each stream delivers in order; streams, POSTs   *)
(* and registrations of new streams are not ordered among themselves.      *)
(* Streams drop, POSTs fail before they arrive, and the host restarts.     *)
(*                                                                         *)
(* There is one draft tab, the one Workspace opens.  Narration, titles,    *)
(* unread badges, uploads, error lines and the seed of a resumed tab are   *)
(* left out: their entries carry no turn, so no later event touches them.  *)
(* Result and error are one event, "end"; presence and depth, with which   *)
(* the host greets a subscriber, are "hello".  Turns of a room run one at  *)
(* a time in the order they arrived (module Rooms), and a resumed turn     *)
(* keeps its session.                                                      *)
(***************************************************************************)
EXTENDS Naturals, Sequences, FiniteSets

CONSTANTS NumTurns,   \* bound: turns this client or another operator sends
          Sessions,   \* session ids
          Draft,      \* the key of the draft tab
          None,
          MaxFaults,  \* bound: streams dropped, POSTs failed, restarts
          MaxOpens    \* bound: tabs opened from the sessions panel

Turns == 1 .. NumTurns
Keys == Sessions \cup {Draft}

Tabs == [messages : Seq([kind : {"user", "answer"}, turn : Turns]), openTurns : Nat, stale : BOOLEAN]

ASSUME ChatAssumption == NumTurns \in Nat /\ Draft \notin Sessions /\ None \notin Keys \cup Tabs

VARIABLES
    tabs,       \* the tab of each key, or None
    turnKey,    \* the key a turn's events reduce under, or None
    turnStream, \* each turn's stream: its state and the frames in flight
    roomStream, \* the client's stream of each session
    opening,    \* openSession calls that wait for their transcript
    retryTimers, \* each session's pending retry timers: is the last set one of them,
                \* and how many others are
    post,       \* each POST: unsent, in flight, settled
    asked,      \* the session each turn was posted to, None under the draft
    lane,       \* turns the host has accepted and not ended, as they arrived
    session,    \* the session each turn reported
    laneSession, \* the host's session of the draft lane
    ended,      \* turns that are over on the host
    faults, opens,
    clean,      \* history: no turn was sent in a draft that had one open, and
                \* no draft was promoted to a session that had a tab
    late,       \* history: turns that ended before their stream was up
    whole       \* history: turns the room's stream carried from start to end

clientVars == <<tabs, turnKey, turnStream, roomStream, opening, retryTimers>>
hostVars == <<lane, session, laneSession, ended>>
bounds == <<faults, opens>>
vars == <<clientVars, post, asked, hostVars, bounds, clean, late, whole>>

Frame(type, t, s) == [type |-> type, turn |-> t, session |-> s]
Closed == Frame("closed", None, None)
Hello == Frame("hello", None, None)

Stream(up, frames) == [up |-> up, q |-> frames]
NoStream == Stream("none", <<>>)
Connecting == Stream("connecting", <<>>)

\* A stream is opened anew: what a live one still carries comes first or is
\* lost, what a dead one still carries is lost.
Reopened(stream) ==
    {Connecting} \cup {r \in {[stream EXCEPT !.up = "connecting"]} : stream.up # "dropped"}

NoTimer == [last |-> FALSE, others |-> 0]

NewTab == [messages |-> <<>>, openTurns |-> 0, stale |-> FALSE]

Init ==
    /\ tabs = [k \in Keys |-> IF k = Draft THEN NewTab ELSE None]
    /\ turnKey = [t \in Turns |-> None]
    /\ turnStream = [t \in Turns |-> NoStream]
    /\ roomStream = [s \in Sessions |-> NoStream]
    /\ opening = {}
    /\ retryTimers = [s \in Sessions |-> NoTimer]
    /\ post = [t \in Turns |-> "unsent"]
    /\ asked = [t \in Turns |-> None]
    /\ lane = <<>> /\ laneSession = None /\ ended = {}
    /\ session = [t \in Turns |-> None]
    /\ faults = 0 /\ opens = 0
    /\ clean = TRUE /\ late = {} /\ whole = {}

\* Turn ids are fresh.
Fresh(t) == post[t] = "unsent" /\ \A u \in 1 .. t - 1 : post[u] # "unsent"

Fault == faults < MaxFaults /\ faults' = faults + 1 /\ UNCHANGED opens

Disturbed(s) == Turns \X {s}

-----------------------------------------------------------------------------
(* The store: mapTab leaves a key without a tab alone.                     *)

IsTab(k) == tabs[k] # None

OnTab(store, k, tab) == IF store[k] = None THEN store ELSE [store EXCEPT ![k] = tab]

Entry(kind, t) == [kind |-> kind, turn |-> t]

Shows(k, kind, t) == {i \in DOMAIN tabs[k].messages : tabs[k].messages[i] = Entry(kind, t)}

Appended(tab, kind, t) == [tab EXCEPT !.messages = Append(@, Entry(kind, t))]

\* (mutant: every message is appended)
reduceAppend(tab, e) ==
    CASE e.type = "message" -> Appended(tab, "user", e.turn)
      [] e.type = "end" -> Appended(tab, "answer", e.turn)
      [] OTHER -> tab

\* reduceAgent: a message is upserted by its turn, an answer is appended.
reduceAgent(tab, e) ==
    CASE e.type = "message" /\ \A i \in DOMAIN tab.messages :
                                  tab.messages[i] # Entry("user", e.turn) ->
            Appended(tab, "user", e.turn)
      [] e.type = "end" -> Appended(tab, "answer", e.turn)
      [] OTHER -> tab

reduceEvent(store, k, e) == OnTab(store, k, reduceAgent(store[k], e))

\* promoteDraft: the draft takes its session's key, unless that has a tab.
promoteDraft(store, s) ==
    [store EXCEPT ![Draft] = None, ![s] = IF @ = None THEN store[Draft] ELSE @]

Open(t) == turnStream[t].up \notin {"none", "stopped"}

\* (mutant: a turn that was stopped before is closed out again)
closeOutAgain(T) == T

\* finishTurn: only a turn whose stream is held is closed out.
closeOut(T) == {t \in T : Open(t)}

\* bumpTurns, for each turn of F: the count never goes below zero.
bumpDown(store, F) ==
    [k \in Keys |->
        LET n == Cardinality({t \in F : turnKey[t] = k}) IN
        IF store[k] = None \/ n = 0 THEN store[k]
        ELSE [store[k] EXCEPT !.openTurns = IF @ > n THEN @ - n ELSE 0]]

\* What a stopped stream still carries may yet arrive.
stopTurns(streams, F) ==
    [t \in Turns |-> IF t \in F THEN [streams[t] EXCEPT !.up = "stopped"] ELSE streams[t]]

forgetTurns(keys, F) == [t \in Turns |-> IF t \in F THEN None ELSE keys[t]]

-----------------------------------------------------------------------------
(* Streams.                                                                *)

Attached(k) == k \in Sessions /\ roomStream[k].up # "none"

Sent(stream, e) == IF stream.up = "live" THEN [stream EXCEPT !.q = Append(@, e)] ELSE stream

\* (mutant: a stream ends without telling the webview)
DroppedSilently(stream) ==
    IF stream.up \in {"live", "connecting"} THEN Stream("dropped", stream.q) ELSE stream

\* The pump's last word of a stream that ends by itself is that it closed.
Dropped(stream) ==
    IF stream.up \in {"live", "connecting"}
    THEN Stream("dropped", Append(stream.q, Closed)) ELSE stream

\* The host sends e to the subscribers of the room s and of the turn t.
Broadcast(s, t, e) ==
    /\ roomStream' = [r \in Sessions |-> IF r = s THEN Sent(roomStream[r], e) ELSE roomStream[r]]
    /\ turnStream' = [turnStream EXCEPT ![t] = Sent(@, e)]

\* A turn's stream is up; what the turn sent before is not replayed.
TurnSubscribed(t) ==
    /\ turnStream[t].up = "connecting"
    /\ turnStream' = [turnStream EXCEPT ![t] = Stream("live", <<>>)]
    /\ late' = IF t \in ended THEN late \cup {t} ELSE late
    /\ UNCHANGED <<tabs, turnKey, roomStream, opening, retryTimers, post, asked,
                   hostVars, bounds, clean, whole>>

RoomSubscribed(s) ==
    /\ roomStream[s].up = "connecting"
    /\ roomStream' = [roomStream EXCEPT ![s] = Stream("live", Append(@.q, Hello))]
    /\ UNCHANGED <<tabs, turnKey, turnStream, opening, retryTimers, post, asked,
                   hostVars, bounds, clean, late, whole>>

StreamDrops ==
    /\ Fault
    /\ \/ \E t \in Turns : /\ turnStream[t].up \in {"live", "connecting"}
                         /\ turnStream' = [turnStream EXCEPT ![t] = Dropped(@)]
                         /\ UNCHANGED <<roomStream, whole>>
       \/ \E s \in Sessions : /\ roomStream[s].up \in {"live", "connecting"}
                              /\ roomStream' = [roomStream EXCEPT ![s] = Dropped(@)]
                              /\ whole' = whole \ Disturbed(s)
                              /\ UNCHANGED turnStream
    /\ UNCHANGED <<tabs, turnKey, opening, retryTimers, post, asked, hostVars, clean, late>>

-----------------------------------------------------------------------------
(* The operator.                                                           *)

\* openSession of a session without a tab asks for its transcript.
openSession(s) ==
    /\ \E t \in Turns : session[t] = s
    /\ ~IsTab(s) /\ s \notin opening
    /\ opening' = opening \cup {s}
    /\ opens < MaxOpens /\ opens' = opens + 1
    /\ UNCHANGED <<tabs, turnKey, turnStream, roomStream, retryTimers, post, asked,
                   hostVars, faults, clean, late, whole>>

\* The transcript has come, or failed: openTab keeps a tab that is there by
\* now, and the session's stream is opened, or opened anew.
SessionOpens(s) ==
    /\ s \in opening /\ opening' = opening \ {s}
    /\ tabs' = [tabs EXCEPT ![s] = IF @ = None THEN NewTab ELSE @]
    /\ \E stream \in Reopened(roomStream[s]) : roomStream' = [roomStream EXCEPT ![s] = stream]
    /\ whole' = whole \ Disturbed(s)
    /\ UNCHANGED <<turnKey, turnStream, retryTimers, post, asked, hostVars, bounds,
                   clean, late>>

\* close: the streams of the tab and of its turns are stopped, and so is the last
\* retry timer.  The turns keep their key.
close(k) ==
    /\ IsTab(k)
    /\ tabs' = [tabs EXCEPT ![k] = None]
    /\ roomStream' = [s \in Sessions |-> IF s = k THEN NoStream ELSE roomStream[s]]
    /\ retryTimers' = [s \in Sessions |-> IF s = k THEN [retryTimers[s] EXCEPT !.last = FALSE]
                                                  ELSE retryTimers[s]]
    /\ turnStream' = stopTurns(turnStream, {t \in Turns : turnKey[t] = k /\ Open(t)})
    /\ whole' = whole \ Disturbed(k)
    /\ UNCHANGED <<turnKey, opening, post, asked, hostVars, bounds, clean, late>>

\* send, up to its POST: the composer sends one message at a time.
send(k, t) ==
    /\ IsTab(k) /\ Fresh(t)
    /\ \A u \in Turns : post[u] # "flight"
    /\ tabs' = [tabs EXCEPT ![k].messages = Append(@, Entry("user", t)),
                            ![k].openTurns = @ + 1]
    /\ turnKey' = [turnKey EXCEPT ![t] = k]
    /\ turnStream' = [turnStream EXCEPT ![t] = Connecting]
    /\ post' = [post EXCEPT ![t] = "flight"]
    /\ asked' = [asked EXCEPT ![t] = IF k = Draft THEN None ELSE k]
    /\ clean' = (clean /\ (k = Draft => \A u \in Turns : ~(Open(u) /\ turnKey[u] = Draft)))
    /\ UNCHANGED <<roomStream, opening, retryTimers, hostVars, bounds, late, whole>>

\* The POST is lost: the turn is closed out.
PostFails(t) ==
    /\ post[t] = "flight"
    /\ Fault
    /\ post' = [post EXCEPT ![t] = "settled"]
    /\ LET F == closeOut({t}) IN
          /\ tabs' = bumpDown(tabs, F)
          /\ turnStream' = stopTurns(turnStream, F)
          /\ turnKey' = forgetTurns(turnKey, F)
    /\ UNCHANGED <<roomStream, opening, retryTimers, asked, hostVars, clean, late, whole>>

-----------------------------------------------------------------------------
(* Events.                                                                 *)

Target(t) == IF turnKey[t] # None THEN turnKey[t] ELSE IF asked[t] # None THEN asked[t] ELSE Draft

\* (mutant: the turn's stream is always rendered)
RendersAlways(k, e) == TRUE

\* Content of a turn's stream is rendered only where no session stream brings
\* it, or while that one is down.
RendersTurnFrame(k, e) ==
    ~Attached(k) \/ (IsTab(k) /\ tabs[k].stale) \/ e.type = "session"

\* A frame of a turn's stream under the key it already has.
TurnFrame(t) ==
    /\ turnStream[t].q # <<>>
    /\ LET e == Head(turnStream[t].q)
           k == Target(t)
           F == IF e.type \in {"end", "closed"} THEN closeOut({t}) ELSE {}
           rest == [turnStream EXCEPT ![t].q = Tail(@)]
       IN  /\ ~(e.type = "session" /\ k = Draft)
           /\ tabs' = bumpDown(IF e.type # "closed" /\ RendersTurnFrame(k, e)
                               THEN reduceEvent(tabs, k, e) ELSE tabs, F)
           /\ turnStream' = stopTurns(rest, F)
           /\ turnKey' = forgetTurns(turnKey, F)
    /\ UNCHANGED <<roomStream, opening, retryTimers, post, asked, hostVars, bounds,
                   clean, late, whole>>

\* The session event of a draft's turn: the turn moves to its session, the
\* draft is promoted, and the session's stream is opened, or opened anew.
Promotion(t) ==
    /\ turnStream[t].q # <<>> /\ Target(t) = Draft
    /\ LET e == Head(turnStream[t].q) IN
          /\ e.type = "session"
          /\ tabs' = promoteDraft(tabs, e.session)
          /\ turnKey' = [turnKey EXCEPT ![t] = e.session]
          /\ \E stream \in Reopened(roomStream[e.session]) :
                roomStream' = [roomStream EXCEPT ![e.session] = stream]
          /\ clean' = (clean /\ ~(IsTab(e.session) /\ IsTab(Draft)))
          /\ whole' = whole \ Disturbed(e.session)
    /\ turnStream' = [turnStream EXCEPT ![t].q = Tail(@)]
    /\ UNCHANGED <<opening, retryTimers, post, asked, hostVars, bounds, late>>

\* A frame of a session's stream: an end closes out every turn of that key, the
\* closing frame sets a retry timer.
RoomFrame(s) ==
    /\ roomStream[s].q # <<>>
    /\ LET e == Head(roomStream[s].q)
           F == IF e.type = "end" THEN closeOut({t \in Turns : turnKey[t] = s}) ELSE {}
           fresh == IF IsTab(s) THEN [tabs EXCEPT ![s].stale = (e.type = "closed")] ELSE tabs
       IN  /\ tabs' = bumpDown(reduceEvent(fresh, s, e), F)
           /\ turnStream' = stopTurns(turnStream, F)
           /\ turnKey' = forgetTurns(turnKey, F)
           /\ roomStream' = [roomStream EXCEPT ![s] =
                 IF e.type = "closed" THEN Stream("stopped", <<>>) ELSE Stream(@.up, Tail(@.q))]
           /\ retryTimers' = IF e.type # "closed" THEN retryTimers ELSE
                 [retryTimers EXCEPT ![s] =
                    [last |-> TRUE, others |-> IF @.last THEN @.others + 1 ELSE @.others]]
    /\ UNCHANGED <<opening, post, asked, hostVars, bounds, clean, late, whole>>

\* What is left when one of the timers has fired.
Fired(timers) ==
    {rest \in {[timers EXCEPT !.last = FALSE], [timers EXCEPT !.others = @ - 1]} :
        rest # timers /\ rest.others >= 0}

\* A retry timer of a session's stream fires: it opens the stream anew, if the
\* session has a tab, even one that is up again since the timer was set.
Retry(s) ==
    /\ \E rest \in Fired(retryTimers[s]) : retryTimers' = [retryTimers EXCEPT ![s] = rest]
    /\ IF IsTab(s)
       THEN /\ \E stream \in Reopened(roomStream[s]) :
                  roomStream' = [roomStream EXCEPT ![s] = stream]
            /\ whole' = whole \ Disturbed(s)
       ELSE UNCHANGED <<roomStream, whole>>
    /\ UNCHANGED <<tabs, turnKey, turnStream, opening, post, asked, hostVars, bounds,
                   clean, late>>

-----------------------------------------------------------------------------
(* The host.                                                               *)

InLane == {lane[i] : i \in DOMAIN lane}

LaneOf(t) == IF asked[t] # None THEN asked[t] ELSE IF laneSession # None THEN laneSession ELSE Draft

RoomOf(t) == IF session[t] # None THEN session[t] ELSE LaneOf(t)

\* POST /messages: the room and the turn's stream see the question at once.
Accept(t, s) ==
    /\ lane' = Append(lane, t)
    /\ Broadcast(s, t, Frame("message", t, None))
    /\ whole' = IF s \in Sessions /\ IsTab(s) /\ ~tabs[s].stale /\ roomStream[s].up = "live"
                THEN whole \cup {<<t, s>>} ELSE whole
    /\ UNCHANGED <<tabs, turnKey, opening, retryTimers, session, laneSession, ended,
                   bounds, clean, late>>

PostArrives(t) ==
    /\ post[t] = "flight"
    /\ post' = [post EXCEPT ![t] = "settled"]
    /\ UNCHANGED asked
    /\ Accept(t, RoomOf(t))

ForeignPost(t, s) ==
    /\ Fresh(t) /\ \E u \in Turns : session[u] = s
    /\ post' = [post EXCEPT ![t] = "settled"]
    /\ asked' = [asked EXCEPT ![t] = s]
    /\ Accept(t, s)

\* The turn whose turn it is: the first of its lane.
Runs(t) == \E i \in DOMAIN lane : lane[i] = t /\ \A j \in 1 .. i - 1 : LaneOf(lane[j]) # LaneOf(t)

\* adoptSession: a new room gets a new session, which the draft lane keeps.
Report(t) ==
    /\ Runs(t) /\ session[t] = None
    /\ \E s \in Sessions :
          /\ IF LaneOf(t) \in Sessions THEN s = LaneOf(t)
             ELSE \A u \in Turns : session[u] # s
          /\ session' = [session EXCEPT ![t] = s]
          /\ laneSession' = IF asked[t] = None THEN s ELSE laneSession
          /\ Broadcast(s, t, Frame("session", t, s))
    /\ UNCHANGED <<tabs, turnKey, opening, retryTimers, post, asked, lane, ended, bounds,
                   clean, late, whole>>

\* A result, or an error with or without a session before it.  A lane that is
\* empty forgets its session.
End(t) ==
    /\ Runs(t)
    /\ \E i \in DOMAIN lane : /\ lane[i] = t
                             /\ lane' = SubSeq(lane, 1, i - 1) \o SubSeq(lane, i + 1, Len(lane))
    /\ ended' = ended \cup {t}
    /\ Broadcast(RoomOf(t), t, Frame("end", t, None))
    /\ laneSession' = IF \E u \in InLane \ {t} : LaneOf(u) = laneSession
                      THEN laneSession ELSE None
    /\ UNCHANGED <<tabs, turnKey, opening, retryTimers, post, asked, session, bounds,
                   clean, late, whole>>

\* The host's process dies: its turns are over, its streams drop.
Restart ==
    /\ Fault
    /\ ended' = ended \cup InLane
    /\ lane' = <<>> /\ laneSession' = None
    /\ turnStream' = [t \in Turns |-> Dropped(turnStream[t])]
    /\ roomStream' = [s \in Sessions |-> Dropped(roomStream[s])]
    /\ whole' = {}
    /\ UNCHANGED <<tabs, turnKey, opening, retryTimers, post, asked, session, clean, late>>

-----------------------------------------------------------------------------
Deliver ==
    \/ \E t \in Turns : TurnFrame(t) \/ Promotion(t)
    \/ \E s \in Sessions : RoomFrame(s)

Next ==
    \/ \E k \in Keys, t \in Turns : send(k, t)
    \/ \E k \in Keys : close(k)
    \/ \E s \in Sessions : openSession(s) \/ SessionOpens(s) \/ RoomSubscribed(s) \/ Retry(s)
    \/ \E t \in Turns : TurnSubscribed(t) \/ PostArrives(t) \/ PostFails(t)
    \/ \E t \in Turns, s \in Sessions : ForeignPost(t, s)
    \/ \E t \in Turns : Report(t) \/ End(t)
    \/ Deliver \/ StreamDrops \/ Restart

\* A stream comes up and delivers, or is found dead; nothing is assumed of the
\* operator, the POST or the agent.
Spec ==
    /\ Init /\ [][Next]_vars
    /\ \A t \in Turns : WF_vars(TurnSubscribed(t)) /\ WF_vars(TurnFrame(t) \/ Promotion(t))

-----------------------------------------------------------------------------
(* Properties.                                                             *)

\* A question is shown once in every tab: the optimistic entry, the echo on
\* the turn's stream and the one on the session's are the same message.
QuestionShownOnce ==
    \A k \in Keys, t \in Turns : IsTab(k) => Cardinality(Shows(k, "user", t)) <= 1

\* A turn whose room's stream was up from its question to its end is shown
\* whole, once and in order, whichever of the two streams was faster.
WholeTurnsShownOnce ==
    \A t \in ended, s \in Sessions :
        <<t, s>> \in whole /\ roomStream[s].q = <<>> =>
            /\ Cardinality(Shows(s, "user", t)) = 1
            /\ Cardinality(Shows(s, "answer", t)) = 1
            /\ \A i \in Shows(s, "user", t), j \in Shows(s, "answer", t) : i < j

\* A tab is busy with exactly the turns that are open in it, whatever closes
\* them out: either stream, a failed POST, a closed tab or a dead host.
BusyWithOpenTurns ==
    clean => \A k \in Keys : IsTab(k) =>
                tabs[k].openTurns = Cardinality({t \in Turns : Open(t) /\ turnKey[t] = k})

\* What the comment on finishTurn says: a turn that is over has dropped its
\* busy count, so a tab is busy only while some turn is open.
SpinnerStops ==
    \A k \in Keys : IsTab(k) /\ tabs[k].openTurns > 0 => \E t \in Turns : Open(t)

\* A turn that is over on the host is closed out here, lost events or not,
\* unless it was over before its stream was up.
OverIsClosedOut ==
    \A t \in Turns : t \in ended /\ t \notin late ~> ~Open(t) \/ t \in late
=============================================================================

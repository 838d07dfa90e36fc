--------------------------- MODULE ChatClientProofs ---------------------------
(***************************************************************************)
(* Proofs about the chat of one client, for any number of turns, sessions, *)
(* tabs opened and faults: a question is shown once in every tab, a tab is *)
(* busy with exactly its open turns, and a turn that one stream of its     *)
(* room carried from question to end is shown whole.                       *)
(***************************************************************************)
EXTENDS ChatClient, FiniteSetTheorems, SequenceTheorems, TLAPS

USE ChatAssumption

-----------------------------------------------------------------------------
(* Types.                                                                  *)

\* The frames that are about a turn name it, and a session frame its session.
Frames ==
    {f \in [type : {"message", "session", "end", "closed", "hello"},
            turn : Turns \cup {None}, session : Sessions \cup {None}] :
        /\ f.type \in {"message", "session", "end"} => f.turn \in Turns
        /\ f.type = "session" => f.session \in Sessions}

Streams == [up : {"none", "connecting", "live", "dropped", "stopped"}, q : Seq(Frames)]

TabsOK == tabs \in [Keys -> Tabs \cup {None}]

StreamsOK ==
    /\ turnStream \in [Turns -> Streams]
    /\ roomStream \in [Sessions -> Streams]

TurnsOK ==
    /\ turnKey \in [Turns -> Keys \cup {None}]
    /\ post \in [Turns -> {"unsent", "flight", "settled"}]
    /\ asked \in [Turns -> Sessions \cup {None}]
    /\ session \in [Turns -> Sessions \cup {None}]
    /\ clean \in BOOLEAN

LaneOK ==
    /\ lane \in Seq(Turns)
    /\ laneSession \in Sessions \cup {None}
    /\ ended \subseteq Turns
    /\ whole \subseteq Turns \X Sessions

ChatTypeOK == TabsOK /\ StreamsOK /\ TurnsOK /\ LaneOK

-----------------------------------------------------------------------------
(* What is in flight and what is shown of a turn.                          *)

Carries(q, type, t) == \E i \in DOMAIN q : q[i].type = type /\ q[i].turn = t

InFlight(type, t) ==
    \/ \E u \in Turns : Carries(turnStream[u].q, type, t)
    \/ \E s \in Sessions : Carries(roomStream[s].q, type, t)

Holds(tab, kind, t) == \E i \in DOMAIN tab.messages : tab.messages[i] = Entry(kind, t)

Shown(kind, t) == \E k \in Keys : IsTab(k) /\ Holds(tabs[k], kind, t)

\* A turn that was not sent has left no trace.
UnsentIsUnknown ==
    \A t \in Turns : post[t] = "unsent" =>
        /\ turnStream[t] = NoStream /\ turnKey[t] = None /\ asked[t] = None
        /\ ~Shown("user", t)

\* The host knows nothing of a turn before its POST has arrived.
UnsettledIsUnheard ==
    \A t \in Turns : post[t] # "settled" =>
        /\ t \notin InLane /\ t \notin ended /\ session[t] = None
        /\ ~InFlight("message", t)

\* Only a turn that is over has ended or been answered anywhere.
OpenIsUnanswered ==
    \A t \in Turns : t \notin ended => ~InFlight("end", t) /\ ~Shown("answer", t)

\* A turn is in a lane once, and not when it is over.
LaneOnce == \A i, j \in DOMAIN lane : lane[i] = lane[j] => i = j

LaneIsNotOver == \A t \in ended : t \notin InLane

AskedOnce(tab) ==
    \A t \in Turns : \A i, j \in DOMAIN tab.messages :
        tab.messages[i] = Entry("user", t) /\ tab.messages[j] = Entry("user", t) => i = j

OneQuestion == \A k \in Keys : IsTab(k) => AskedOnce(tabs[k])

ShownInv ==
    /\ ChatTypeOK /\ UnsentIsUnknown /\ UnsettledIsUnheard
    /\ OpenIsUnanswered /\ LaneOnce /\ LaneIsNotOver /\ OneQuestion

-----------------------------------------------------------------------------
(* The operators on streams.                                               *)

LEMMA FramesOfTurns ==
  /\ Closed \in Frames /\ Hello \in Frames
  /\ \A t \in Turns : /\ Frame("message", t, None) \in Frames
                      /\ Frame("end", t, None) \in Frames
                      /\ \A s \in Sessions : Frame("session", t, s) \in Frames
  BY DEF Frames, Frame, Closed, Hello

LEMMA NewStreams ==
  /\ NoStream \in Streams /\ NoStream.up = "none" /\ NoStream.q = <<>>
  /\ Connecting \in Streams /\ Connecting.up = "connecting" /\ Connecting.q = <<>>
  BY EmptySeq DEF NoStream, Connecting, Stream, Streams

LEMMA StreamIs ==
  ASSUME NEW up \in {"none", "connecting", "live", "dropped", "stopped"}, NEW q \in Seq(Frames)
  PROVE  Stream(up, q) \in Streams /\ Stream(up, q).up = up /\ Stream(up, q).q = q
  BY DEF Stream, Streams

LEMMA WithUp ==
  ASSUME NEW st \in Streams, NEW up \in {"none", "connecting", "live", "dropped", "stopped"}
  PROVE  /\ [st EXCEPT !.up = up] \in Streams
         /\ [st EXCEPT !.up = up].up = up /\ [st EXCEPT !.up = up].q = st.q
  BY DEF Streams

LEMMA WithQueue ==
  ASSUME NEW st \in Streams, NEW q \in Seq(Frames)
  PROVE  /\ [st EXCEPT !.q = q] \in Streams
         /\ [st EXCEPT !.q = q].up = st.up /\ [st EXCEPT !.q = q].q = q
  BY DEF Streams

LEMMA StreamParts ==
  ASSUME NEW st \in Streams
  PROVE  st.up \in {"none", "connecting", "live", "dropped", "stopped"} /\ st.q \in Seq(Frames)
  BY DEF Streams

LEMMA SentTo ==
  ASSUME NEW st \in Streams, NEW e \in Frames
  PROVE  /\ Sent(st, e) \in Streams /\ Sent(st, e).up = st.up
         /\ st.up # "live" => Sent(st, e) = st
         /\ st.up = "live" => Sent(st, e).q = Append(st.q, e)
<1>1. st.q \in Seq(Frames) /\ Append(st.q, e) \in Seq(Frames)
  BY StreamParts, AppendProperties
<1>2. CASE st.up = "live"
  <2> DEFINE q == Append(st.q, e)
  <2>1. Sent(st, e) = [st EXCEPT !.q = q]
    BY <1>2 DEF Sent
  <2>2. q \in Seq(Frames)
    BY <1>1
  <2> HIDE DEF q
  <2>3. /\ Sent(st, e) \in Streams /\ Sent(st, e).up = st.up /\ Sent(st, e).q = q
    BY <2>1, <2>2, WithQueue
  <2> QED  BY <1>2, <2>3 DEF q
<1>3. CASE st.up # "live"
  BY <1>3 DEF Sent
<1> QED  BY <1>2, <1>3

LEMMA DroppedIs ==
  ASSUME NEW st \in Streams
  PROVE  /\ Dropped(st) \in Streams
         /\ st.up \notin {"live", "connecting"} => Dropped(st) = st
         /\ st.up \in {"live", "connecting"} =>
               Dropped(st).up = "dropped" /\ Dropped(st).q = Append(st.q, Closed)
<1>1. st.q \in Seq(Frames) /\ Append(st.q, Closed) \in Seq(Frames)
  BY StreamParts, AppendProperties, FramesOfTurns
<1>2. CASE st.up \in {"live", "connecting"}
  BY <1>1, <1>2, StreamIs DEF Dropped
<1>3. CASE st.up \notin {"live", "connecting"}
  BY <1>3 DEF Dropped
<1> QED  BY <1>2, <1>3

LEMMA ReopenedIs ==
  ASSUME NEW st \in Streams, NEW new \in Reopened(st)
  PROVE  /\ new \in Streams /\ new.up = "connecting"
         /\ new.q = <<>> \/ (st.up # "dropped" /\ new.q = st.q)
<1>1. new = Connecting \/ (new = [st EXCEPT !.up = "connecting"] /\ st.up # "dropped")
  BY DEF Reopened
<1> DEFINE x == [st EXCEPT !.up = "connecting"]
<1>2. x \in Streams /\ x.up = "connecting" /\ x.q = st.q
  BY WithUp
<1> HIDE DEF x
<1>3. new = Connecting \/ (new = x /\ st.up # "dropped")
  BY <1>1 DEF x
<1> QED  BY <1>2, <1>3, NewStreams

LEMMA TailIs ==
  ASSUME NEW q \in Seq(Frames), q # <<>>
  PROVE  /\ Head(q) \in Frames /\ Head(q) = q[1]
         /\ Tail(q) \in Seq(Frames) /\ Len(q) \in Nat /\ Len(q) >= 1
         /\ DOMAIN q = 1 .. Len(q) /\ DOMAIN Tail(q) = 1 .. Len(q) - 1
         /\ \A i \in 1 .. Len(q) - 1 : Tail(q)[i] = q[i + 1]
  BY HeadTailProperties, LenProperties, EmptySeq

LEMMA AppendIs ==
  ASSUME NEW q \in Seq(Frames), NEW e \in Frames
  PROVE  /\ Append(q, e) \in Seq(Frames) /\ Len(q) \in Nat
         /\ DOMAIN q = 1 .. Len(q) /\ DOMAIN Append(q, e) = 1 .. Len(q) + 1
         /\ \A i \in 1 .. Len(q) : Append(q, e)[i] = q[i]
         /\ Append(q, e)[Len(q) + 1] = e
  BY AppendProperties, LenProperties

LEMMA CarriedBy ==
  ASSUME NEW q \in Seq(Frames), NEW type, NEW t
  PROVE  /\ q # <<>> /\ Carries(Tail(q), type, t) => Carries(q, type, t)
         /\ q # <<>> /\ Head(q).type = type /\ Head(q).turn = t => Carries(q, type, t)
         /\ \A e \in Frames : Carries(Append(q, e), type, t) =>
               Carries(q, type, t) \/ (e.type = type /\ e.turn = t)
         /\ ~Carries(<<>>, type, t)
<1>1. ASSUME q # <<>>, Carries(Tail(q), type, t) PROVE Carries(q, type, t)
  BY <1>1, TailIs DEF Carries
<1>2. ASSUME q # <<>>, Head(q).type = type, Head(q).turn = t PROVE Carries(q, type, t)
  BY <1>2, TailIs DEF Carries
<1>3. ASSUME NEW e \in Frames, Carries(Append(q, e), type, t)
      PROVE  Carries(q, type, t) \/ (e.type = type /\ e.turn = t)
  BY <1>3, AppendIs DEF Carries
<1>4. ~Carries(<<>>, type, t)
  BY DEF Carries
<1> QED  BY <1>1, <1>2, <1>3, <1>4

-----------------------------------------------------------------------------
(* The operators of the store.                                             *)

Stores == [Keys -> Tabs \cup {None}]

LEMMA TabParts ==
  ASSUME NEW tab \in Tabs
  PROVE  /\ tab # None /\ tab.openTurns \in Nat /\ tab.stale \in BOOLEAN
         /\ tab.messages \in Seq([kind : {"user", "answer"}, turn : Turns])
         /\ Len(tab.messages) \in Nat /\ DOMAIN tab.messages = 1 .. Len(tab.messages)
  BY LenProperties DEF Tabs

LEMMA NewTabIs ==
  NewTab \in Tabs /\ NewTab.messages = <<>> /\ NewTab.openTurns = 0 /\ NewTab.stale = FALSE
  BY EmptySeq DEF NewTab, Tabs

LEMMA AppendedTab ==
  ASSUME NEW tab \in Tabs, NEW kind \in {"user", "answer"}, NEW t \in Turns
  PROVE  LET new == Appended(tab, kind, t) n == Len(tab.messages) IN
         /\ new \in Tabs /\ new.openTurns = tab.openTurns /\ new.stale = tab.stale
         /\ new.messages = Append(tab.messages, Entry(kind, t))
         /\ DOMAIN new.messages = 1 .. n + 1
         /\ \A i \in 1 .. n : new.messages[i] = tab.messages[i]
         /\ new.messages[n + 1] = Entry(kind, t)
<1> DEFINE m == Append(tab.messages, Entry(kind, t))
           n == Len(tab.messages)
<1>1. Entry(kind, t) \in [kind : {"user", "answer"}, turn : Turns]
  BY DEF Entry
<1>2. /\ m \in Seq([kind : {"user", "answer"}, turn : Turns]) /\ DOMAIN m = 1 .. n + 1
      /\ \A i \in 1 .. n : m[i] = tab.messages[i]
      /\ m[n + 1] = Entry(kind, t)
  <2> DEFINE E == [kind : {"user", "answer"}, turn : Turns]
             x == Entry(kind, t)
  <2>1. tab.messages \in Seq(E) /\ x \in E /\ n \in Nat
    BY <1>1, TabParts
  <2> HIDE DEF E, x
  <2>2. /\ m \in Seq(E) /\ Len(m) = n + 1 /\ m[n + 1] = x
        /\ \A i \in 1 .. n : m[i] = tab.messages[i]
    BY <2>1, AppendProperties DEF x
  <2>3. DOMAIN m = 1 .. n + 1
    BY <2>2, LenProperties
  <2> QED  BY <2>2, <2>3 DEF E, x
<1> HIDE DEF m, n
<1>3. Appended(tab, kind, t) = [tab EXCEPT !.messages = m]
  BY DEF Appended, m
<1>4. /\ Appended(tab, kind, t) \in Tabs /\ Appended(tab, kind, t).messages = m
      /\ Appended(tab, kind, t).openTurns = tab.openTurns
      /\ Appended(tab, kind, t).stale = tab.stale
  BY <1>2, <1>3 DEF Tabs
<1> QED  BY <1>2, <1>4 DEF m, n

LEMMA AppendedHolds ==
  ASSUME NEW tab \in Tabs, NEW kind \in {"user", "answer"}, NEW t \in Turns,
         NEW kd, NEW u
  PROVE  Holds(Appended(tab, kind, t), kd, u) <=> Holds(tab, kd, u) \/ (kd = kind /\ u = t)
<1> DEFINE new == Appended(tab, kind, t)
           n == Len(tab.messages)
<1>1. /\ DOMAIN new.messages = 1 .. n + 1 /\ DOMAIN tab.messages = 1 .. n /\ n \in Nat
      /\ \A i \in 1 .. n : new.messages[i] = tab.messages[i]
      /\ new.messages[n + 1] = Entry(kind, t)
  BY AppendedTab, TabParts
<1>2. Entry(kind, t) = Entry(kd, u) <=> kd = kind /\ u = t
  BY DEF Entry
<1> HIDE DEF new, n
<1>3. \A i : i \in 1 .. n + 1 <=> i \in 1 .. n \/ i = n + 1
  BY <1>1
<1>4. Holds(new, kd, u) <=> Holds(tab, kd, u) \/ (kd = kind /\ u = t)
  BY <1>1, <1>2, <1>3 DEF Holds
<1> QED  BY <1>4 DEF new

LEMMA AppendedAskedOnce ==
  ASSUME NEW tab \in Tabs, NEW kind \in {"user", "answer"}, NEW t \in Turns,
         AskedOnce(tab), kind = "answer" \/ ~Holds(tab, "user", t)
  PROVE  AskedOnce(Appended(tab, kind, t))
<1> DEFINE new == Appended(tab, kind, t)
           n == Len(tab.messages)
<1>1. /\ DOMAIN new.messages = 1 .. n + 1 /\ DOMAIN tab.messages = 1 .. n /\ n \in Nat
      /\ \A i \in 1 .. n : new.messages[i] = tab.messages[i]
      /\ new.messages[n + 1] = Entry(kind, t)
  BY AppendedTab, TabParts
<1> HIDE DEF new, n
<1> SUFFICES ASSUME NEW u \in Turns, NEW i \in 1 .. n + 1, NEW j \in 1 .. n + 1,
                    new.messages[i] = Entry("user", u), new.messages[j] = Entry("user", u)
             PROVE  i = j
  BY <1>1 DEF AskedOnce, new
<1>2. ASSUME NEW x \in 1 .. n, tab.messages[x] = Entry("user", u) PROVE Entry(kind, t) # Entry("user", u)
  BY <1>1, <1>2 DEF Holds, Entry
<1>3. CASE i \in 1 .. n /\ j \in 1 .. n
  BY <1>1, <1>3 DEF AskedOnce
<1>4. CASE i \in 1 .. n /\ j = n + 1
  BY <1>1, <1>2, <1>4
<1>5. CASE i = n + 1 /\ j \in 1 .. n
  BY <1>1, <1>2, <1>5
<1> QED  BY <1>1, <1>3, <1>4, <1>5

\* An event leaves a tab alone, appends the question it has not, or the answer.
LEMMA ReduceAgentIs ==
  ASSUME NEW tab \in Tabs, NEW e \in Frames
  PROVE  \/ reduceAgent(tab, e) = tab
         \/ /\ e.type = "message" /\ e.turn \in Turns /\ ~Holds(tab, "user", e.turn)
            /\ reduceAgent(tab, e) = Appended(tab, "user", e.turn)
         \/ /\ e.type = "end" /\ e.turn \in Turns
            /\ reduceAgent(tab, e) = Appended(tab, "answer", e.turn)
<1>1. e.type \in {"message", "end"} => e.turn \in Turns
  BY DEF Frames
<1>2. CASE e.type = "message"
  BY <1>1, <1>2 DEF reduceAgent, Holds
<1>3. CASE e.type = "end"
  BY <1>1, <1>3 DEF reduceAgent
<1>4. CASE e.type \notin {"message", "end"}
  BY <1>4 DEF reduceAgent
<1> QED  BY <1>2, <1>3, <1>4

LEMMA ReduceAgentTab ==
  ASSUME NEW tab \in Tabs, NEW e \in Frames
  PROVE  LET new == reduceAgent(tab, e) IN
         /\ new \in Tabs /\ new.openTurns = tab.openTurns /\ new.stale = tab.stale
         /\ AskedOnce(tab) => AskedOnce(new)
         /\ \A kind, t : Holds(new, kind, t) =>
               \/ Holds(tab, kind, t)
               \/ kind = "user" /\ e.type = "message" /\ e.turn = t
               \/ kind = "answer" /\ e.type = "end" /\ e.turn = t
  BY ReduceAgentIs, AppendedTab, AppendedHolds, AppendedAskedOnce

LEMMA ReduceEventStore ==
  ASSUME NEW store \in Stores, NEW k \in Keys, NEW e \in Frames
  PROVE  /\ reduceEvent(store, k, e) \in Stores
         /\ \A j \in Keys : j # k \/ store[j] = None => reduceEvent(store, k, e)[j] = store[j]
         /\ store[k] # None => reduceEvent(store, k, e)[k] = reduceAgent(store[k], e)
<1>1. store[k] # None => store[k] \in Tabs /\ reduceAgent(store[k], e) \in Tabs
  BY ReduceAgentTab DEF Stores
<1> QED  BY <1>1 DEF reduceEvent, OnTab, Stores

Under(F, k) == {t \in F : turnKey[t] = k}

LEMMA UnderIsFinite ==
  ASSUME NEW F, F \subseteq Turns, NEW k
  PROVE  /\ IsFiniteSet(Under(F, k)) /\ Cardinality(Under(F, k)) \in Nat
         /\ Under(F, k) \subseteq Turns
<1>1. IsFiniteSet(Turns)
  BY FS_Interval DEF Turns
<1> QED  BY <1>1, FS_Subset, FS_CardinalityType DEF Under

LEMMA BumpDownStore ==
  ASSUME NEW store \in Stores, NEW F, F \subseteq Turns
  PROVE  /\ bumpDown(store, F) \in Stores
         /\ \A k \in Keys :
               LET n == Cardinality(Under(F, k)) IN
               /\ bumpDown(store, F)[k] = None <=> store[k] = None
               /\ store[k] # None =>
                     /\ bumpDown(store, F)[k].messages = store[k].messages
                     /\ bumpDown(store, F)[k].stale = store[k].stale
                     /\ n <= store[k].openTurns => bumpDown(store, F)[k].openTurns = store[k].openTurns - n
<1> DEFINE new == bumpDown(store, F)
<1>1. \A k \in Keys :
        new[k] = IF store[k] = None \/ Cardinality(Under(F, k)) = 0 THEN store[k]
                 ELSE [store[k] EXCEPT !.openTurns = IF store[k].openTurns > Cardinality(Under(F, k))
                                                     THEN store[k].openTurns - Cardinality(Under(F, k))
                                                     ELSE 0]
  BY DEF bumpDown, Under
<1>2. new = [k \in Keys |-> new[k]]
  BY DEF bumpDown
<1> HIDE DEF new
<1>3. ASSUME NEW k \in Keys
      PROVE  LET n == Cardinality(Under(F, k)) IN
             /\ new[k] \in Tabs \cup {None}
             /\ new[k] = None <=> store[k] = None
             /\ store[k] # None =>
                   /\ new[k].messages = store[k].messages
                   /\ new[k].stale = store[k].stale
                   /\ n <= store[k].openTurns => new[k].openTurns = store[k].openTurns - n
  <2> DEFINE n == Cardinality(Under(F, k))
             c == IF store[k].openTurns > n THEN store[k].openTurns - n ELSE 0
  <2>0. n \in Nat
    BY UnderIsFinite
  <2>1. CASE store[k] = None
    BY <1>1, <2>1
  <2>2. CASE store[k] # None
    <3>1. store[k] \in Tabs /\ store[k].openTurns \in Nat
      BY <2>2, TabParts DEF Stores
    <3>2. c \in Nat /\ (n <= store[k].openTurns => c = store[k].openTurns - n)
      BY <2>0, <3>1
    <3>3. new[k] = IF n = 0 THEN store[k] ELSE [store[k] EXCEPT !.openTurns = c]
      BY <1>1, <2>2
    <3> HIDE DEF c, n
    <3>4. /\ [store[k] EXCEPT !.openTurns = c] \in Tabs
          /\ [store[k] EXCEPT !.openTurns = c].openTurns = c
          /\ [store[k] EXCEPT !.openTurns = c].messages = store[k].messages
          /\ [store[k] EXCEPT !.openTurns = c].stale = store[k].stale
      BY <3>1, <3>2 DEF Tabs
    <3>5. new[k] \in Tabs /\ new[k] # None
      BY <3>1, <3>3, <3>4
    <3>6. n <= store[k].openTurns => new[k].openTurns = store[k].openTurns - n
      BY <2>0, <3>1, <3>2, <3>3, <3>4
    <3>7. new[k].messages = store[k].messages /\ new[k].stale = store[k].stale
      BY <3>3, <3>4
    <3> QED  BY <2>2, <3>5, <3>6, <3>7 DEF n
  <2> QED  BY <2>1, <2>2
<1>4. new \in Stores
  BY <1>2, <1>3 DEF Stores
<1> QED  BY <1>3, <1>4 DEF new

-----------------------------------------------------------------------------
(* What a step does to streams and tabs.                                   *)

TurnTypes == {"message", "session", "end"}

\* A stream carries no more of any turn than before.
Quieter(new, old) ==
    \A type \in TurnTypes : \A t : Carries(new.q, type, t) => Carries(old.q, type, t)

QuietStep ==
    /\ \A t \in Turns : Quieter(turnStream'[t], turnStream[t])
    /\ \A s \in Sessions : Quieter(roomStream'[s], roomStream[s])

LEMMA QuietFlight ==
  ASSUME QuietStep, NEW type \in TurnTypes, NEW t
  PROVE  InFlight(type, t)' => InFlight(type, t)
  BY DEF QuietStep, Quieter, InFlight

LEMMA QuietStreams ==
  ASSUME NEW st \in Streams
  PROVE  /\ \A new : new.q = st.q \/ new.q = <<>> => Quieter(new, st)
         /\ st.q # <<>> => \A new : new.q = Tail(st.q) => Quieter(new, st)
         /\ \A new : new.q = Append(st.q, Closed) \/ new.q = Append(st.q, Hello) => Quieter(new, st)
         /\ Quieter(Dropped(st), st)
<1>1. st.q \in Seq(Frames)
  BY StreamParts
<1>2. \A new : new.q = st.q \/ new.q = <<>> => Quieter(new, st)
  BY <1>1, CarriedBy DEF Quieter
<1>3. st.q # <<>> => \A new : new.q = Tail(st.q) => Quieter(new, st)
  BY <1>1, CarriedBy DEF Quieter
<1>4. Closed.type \notin TurnTypes /\ Hello.type \notin TurnTypes
  BY DEF Closed, Hello, Frame, TurnTypes
<1>5. \A new : new.q = Append(st.q, Closed) \/ new.q = Append(st.q, Hello) => Quieter(new, st)
  <2> SUFFICES ASSUME NEW new, NEW e \in {Closed, Hello}, new.q = Append(st.q, e),
                      NEW type \in TurnTypes, NEW t, Carries(new.q, type, t)
               PROVE  Carries(st.q, type, t)
    BY DEF Quieter
  <2>1. e \in Frames /\ e.type # type
    BY <1>4, FramesOfTurns
  <2> QED  BY <1>1, <2>1, CarriedBy
<1>6. Quieter(Dropped(st), st)
  BY <1>2, <1>5, DroppedIs
<1> QED  BY <1>2, <1>3, <1>5, <1>6

\* The streams that are stopped still carry what they carried.
LEMMA Stopped ==
  ASSUME NEW streams \in [Turns -> Streams], NEW F
  PROVE  /\ stopTurns(streams, F) \in [Turns -> Streams]
         /\ \A t \in Turns : /\ stopTurns(streams, F)[t].q = streams[t].q
                             /\ t \in F => stopTurns(streams, F)[t].up = "stopped"
                             /\ t \notin F => stopTurns(streams, F)[t] = streams[t]
<1>1. \A t \in Turns : stopTurns(streams, F)[t] = IF t \in F THEN [streams[t] EXCEPT !.up = "stopped"]
                                                  ELSE streams[t]
  BY DEF stopTurns
<1>2. \A t \in Turns : /\ [streams[t] EXCEPT !.up = "stopped"] \in Streams
                       /\ [streams[t] EXCEPT !.up = "stopped"].up = "stopped"
                       /\ [streams[t] EXCEPT !.up = "stopped"].q = streams[t].q
  BY WithUp
<1>3. stopTurns(streams, F) = [t \in Turns |-> stopTurns(streams, F)[t]]
  BY DEF stopTurns
<1> QED  BY <1>1, <1>2, <1>3

LEMMA Forgotten ==
  ASSUME turnKey \in [Turns -> Keys \cup {None}], NEW F
  PROVE  /\ forgetTurns(turnKey, F) \in [Turns -> Keys \cup {None}]
         /\ \A t \in Turns : forgetTurns(turnKey, F)[t] = IF t \in F THEN None ELSE turnKey[t]
  BY DEF forgetTurns

LEMMA SameMessages ==
  ASSUME NEW a, NEW b, a.messages = b.messages
  PROVE  /\ \A kind, t : Holds(a, kind, t) <=> Holds(b, kind, t)
         /\ AskedOnce(a) <=> AskedOnce(b)
  BY DEF Holds, AskedOnce

LEMMA SameMessagesReduced ==
  ASSUME NEW a \in Tabs, NEW b \in Tabs, a.messages = b.messages, NEW e \in Frames
  PROVE  reduceAgent(a, e).messages = reduceAgent(b, e).messages
<1>1. e.type \in {"message", "end"} => e.turn \in Turns
  BY DEF Frames
<1>2. Holds(a, "user", e.turn) <=> Holds(b, "user", e.turn)
  BY SameMessages
<1>3. ASSUME NEW kind \in {"user", "answer"}, NEW t \in Turns
      PROVE  Appended(a, kind, t).messages = Appended(b, kind, t).messages
  <2>1. \A tab \in {a, b} : Appended(tab, kind, t).messages = Append(tab.messages, Entry(kind, t))
    BY AppendedTab
  <2> QED  BY <2>1
<1>4. CASE e.type = "message"
  <2>1. \A tab : reduceAgent(tab, e) = IF Holds(tab, "user", e.turn) THEN tab
                                       ELSE Appended(tab, "user", e.turn)
    BY <1>4 DEF reduceAgent, Holds
  <2> QED  BY <1>1, <1>2, <1>3, <1>4, <2>1
<1>5. CASE e.type = "end"
  <2>1. \A tab : reduceAgent(tab, e) = Appended(tab, "answer", e.turn)
    BY <1>5 DEF reduceAgent
  <2> QED  BY <1>1, <1>3, <1>5, <2>1
<1>6. CASE e.type \notin {"message", "end"}
  BY <1>6 DEF reduceAgent
<1> QED  BY <1>4, <1>5, <1>6

\* Every tab keeps its count; it keeps its messages, or adds what e brings.
Renders(store, e) ==
    /\ store \in Stores
    /\ \A k \in Keys :
          /\ store[k] = None <=> tabs[k] = None
          /\ tabs[k] # None => /\ store[k].openTurns = tabs[k].openTurns
                               /\ \/ store[k].messages = tabs[k].messages
                                  \/ store[k].messages = reduceAgent(tabs[k], e).messages

LEMMA RenderedOnce ==
  ASSUME TabsOK, OneQuestion, NEW e \in Frames, NEW store, Renders(store, e),
         NEW F, F \subseteq Turns, tabs' = bumpDown(store, F)
  PROVE  /\ TabsOK' /\ OneQuestion'
         /\ \A kind, t : Shown(kind, t)' =>
               \/ Shown(kind, t)
               \/ kind = "user" /\ e.type = "message" /\ e.turn = t
               \/ kind = "answer" /\ e.type = "end" /\ e.turn = t
<1>1. /\ tabs' \in Stores
      /\ \A k \in Keys : /\ tabs'[k] = None <=> store[k] = None
                         /\ store[k] # None => tabs'[k].messages = store[k].messages
  BY BumpDownStore DEF Renders
<1>2. ASSUME NEW k \in Keys, tabs'[k] # None
      PROVE  /\ tabs[k] # None /\ AskedOnce(tabs'[k])
             /\ \A kind, t : Holds(tabs'[k], kind, t) =>
                   \/ Holds(tabs[k], kind, t)
                   \/ kind = "user" /\ e.type = "message" /\ e.turn = t
                   \/ kind = "answer" /\ e.type = "end" /\ e.turn = t
  <2>1. tabs[k] # None /\ tabs[k] \in Tabs /\ AskedOnce(tabs[k])
    BY <1>1, <1>2 DEF Renders, TabsOK, OneQuestion, IsTab
  <2>2. \/ tabs'[k].messages = tabs[k].messages
        \/ tabs'[k].messages = reduceAgent(tabs[k], e).messages
    BY <1>1, <1>2, <2>1 DEF Renders
  <2>3. CASE tabs'[k].messages = tabs[k].messages
    BY <2>1, <2>3, SameMessages
  <2>4. CASE tabs'[k].messages = reduceAgent(tabs[k], e).messages
    <3> DEFINE r == reduceAgent(tabs[k], e)
    <3>1. /\ AskedOnce(r)
          /\ \A kind, t : Holds(r, kind, t) =>
                \/ Holds(tabs[k], kind, t)
                \/ kind = "user" /\ e.type = "message" /\ e.turn = t
                \/ kind = "answer" /\ e.type = "end" /\ e.turn = t
      BY <2>1, ReduceAgentTab
    <3> HIDE DEF r
    <3>2. (\A kind, t : Holds(tabs'[k], kind, t) <=> Holds(r, kind, t)) /\ (AskedOnce(tabs'[k]) <=> AskedOnce(r))
      BY <2>4, SameMessages DEF r
    <3> QED  BY <2>1, <3>1, <3>2
  <2> QED  BY <2>2, <2>3, <2>4
<1>3. TabsOK'
  BY <1>1 DEF TabsOK, Stores
<1>4. OneQuestion'
  BY <1>2 DEF OneQuestion, IsTab
<1>5. ASSUME NEW kind, NEW t, Shown(kind, t)'
      PROVE  \/ Shown(kind, t)
             \/ kind = "user" /\ e.type = "message" /\ e.turn = t
             \/ kind = "answer" /\ e.type = "end" /\ e.turn = t
  <2>1. PICK k \in Keys : tabs'[k] # None /\ Holds(tabs'[k], kind, t)
    BY <1>5 DEF Shown, IsTab
  <2> QED  BY <1>2, <2>1 DEF Shown, IsTab
<1> QED  BY <1>3, <1>4, <1>5

\* Tabs that come and go without an event.
LEMMA TabsMoved ==
  ASSUME TabsOK, OneQuestion, tabs' \in Stores,
         \A k \in Keys : \/ tabs'[k] = None \/ tabs'[k] = NewTab
                         \/ \E j \in Keys : tabs'[k] = tabs[j]
  PROVE  TabsOK' /\ OneQuestion' /\ \A kind, t : Shown(kind, t)' => Shown(kind, t)
<1>1. AskedOnce(NewTab) /\ \A kind, t : ~Holds(NewTab, kind, t)
  BY NewTabIs DEF AskedOnce, Holds
<1>2. TabsOK' /\ OneQuestion'
  BY <1>1 DEF TabsOK, OneQuestion, Stores, IsTab
<1>3. ASSUME NEW kind, NEW t, Shown(kind, t)' PROVE Shown(kind, t)
  <2>1. PICK k \in Keys : tabs'[k] # None /\ Holds(tabs'[k], kind, t)
    BY <1>3 DEF Shown, IsTab
  <2> QED  BY <1>1, <2>1 DEF Shown, IsTab
<1> QED  BY <1>2, <1>3

LEMMA TabsSame ==
  ASSUME TabsOK, OneQuestion, tabs' = tabs
  PROVE  TabsOK' /\ OneQuestion' /\ \A kind, t : Shown(kind, t)' => Shown(kind, t)
  BY DEF TabsOK, OneQuestion, IsTab, Shown

-----------------------------------------------------------------------------
(* Each step brings of a turn only what it finds under way.                *)

NewsComesFrom ==
    /\ \A t \in Turns : Shown("user", t)' => \/ Shown("user", t) \/ InFlight("message", t)
                                             \/ post[t] = "unsent" /\ post'[t] = "flight"
    /\ \A t \in Turns : Shown("answer", t)' => Shown("answer", t) \/ InFlight("end", t)
    /\ \A t \in Turns : InFlight("message", t)' => InFlight("message", t) \/ post'[t] = "settled"
    /\ \A t \in Turns : InFlight("end", t)' => InFlight("end", t) \/ t \in ended'

TurnsMoveOn ==
    /\ \A t \in Turns : /\ post[t] = "settled" => post'[t] = "settled"
                        /\ post'[t] = "unsent" => /\ post[t] = "unsent" /\ asked'[t] = asked[t]
                                                  /\ turnStream'[t] = turnStream[t]
                                                  /\ turnKey'[t] = turnKey[t]
                        /\ session'[t] = session[t] \/ t \in InLane
    /\ \A t \in InLane' : t \in InLane \/ (post[t] # "settled" /\ post'[t] = "settled")
    /\ ended \subseteq ended' /\ ended' \subseteq ended \cup InLane
    /\ \A t \in ended' : t \in ended \/ t \notin InLane'

LEMMA ShownKept ==
  ASSUME ShownInv, ChatTypeOK', LaneOnce', OneQuestion', NewsComesFrom, TurnsMoveOn
  PROVE  ShownInv'
<1>1. UnsentIsUnknown'
  BY DEF ShownInv, UnsentIsUnknown, UnsettledIsUnheard, NewsComesFrom, TurnsMoveOn
<1>2. UnsettledIsUnheard'
  BY DEF ShownInv, ChatTypeOK, LaneOK, UnsettledIsUnheard, NewsComesFrom, TurnsMoveOn
<1>3. OpenIsUnanswered'
  BY DEF ShownInv, OpenIsUnanswered, NewsComesFrom, TurnsMoveOn
<1>4. LaneIsNotOver'
  <2> SUFFICES ASSUME NEW t \in ended', t \in InLane' PROVE FALSE
    BY DEF LaneIsNotOver
  <2>1. t \in ended /\ t \in Turns
    BY DEF TurnsMoveOn, ChatTypeOK, LaneOK, ShownInv
  <2> QED  BY <2>1 DEF ShownInv, LaneIsNotOver, UnsettledIsUnheard, TurnsMoveOn
<1> QED  BY <1>1, <1>2, <1>3, <1>4 DEF ShownInv

\* Steps that move neither post nor host.
LEMMA HostKept ==
  ASSUME ShownInv, UNCHANGED <<post, asked, hostVars>>,
         \A t \in Turns : post[t] = "unsent" => turnStream'[t] = turnStream[t] /\ turnKey'[t] = turnKey[t]
  PROVE  TurnsMoveOn
  BY DEF hostVars, TurnsMoveOn, InLane

LEMMA QuietNews ==
  ASSUME QuietStep,
         \A t \in Turns : /\ Shown("user", t)' => \/ Shown("user", t) \/ InFlight("message", t)
                                                  \/ post[t] = "unsent" /\ post'[t] = "flight"
                          /\ Shown("answer", t)' => Shown("answer", t) \/ InFlight("end", t)
  PROVE  NewsComesFrom
  BY QuietFlight DEF NewsComesFrom, TurnTypes

LEMMA QuietKept ==
  ASSUME ShownInv, TabsOK', StreamsOK', TurnsOK', OneQuestion', whole' \subseteq whole,
         UNCHANGED <<post, asked, hostVars>>, QuietStep,
         \A t \in Turns : post[t] = "unsent" => turnStream'[t] = turnStream[t] /\ turnKey'[t] = turnKey[t],
         \A t \in Turns : /\ Shown("user", t)' => Shown("user", t) \/ InFlight("message", t)
                          /\ Shown("answer", t)' => Shown("answer", t) \/ InFlight("end", t)
  PROVE  ShownInv'
<1>1. LaneOK' /\ LaneOnce'
  BY DEF ShownInv, ChatTypeOK, LaneOK, LaneOnce, hostVars
<1>2. TurnsMoveOn
  BY HostKept
<1>3. NewsComesFrom
  BY QuietNews
<1> QED  BY <1>1, <1>2, <1>3, ShownKept DEF ChatTypeOK

LEMMA TargetIsKey == ASSUME ChatTypeOK, NEW t \in Turns PROVE Target(t) \in Keys
  BY DEF ChatTypeOK, TurnsOK, Target, Keys

LEMMA ReducedRenders ==
  ASSUME TabsOK, NEW k \in Keys, NEW e \in Frames
  PROVE  Renders(tabs, e) /\ Renders(reduceEvent(tabs, k, e), e)
<1>1. tabs \in Stores
  BY DEF TabsOK, Stores
<1>2. Renders(tabs, e)
  BY <1>1 DEF Renders
<1> DEFINE store == reduceEvent(tabs, k, e)
<1>3. /\ store \in Stores
      /\ \A j \in Keys : j # k \/ tabs[j] = None => store[j] = tabs[j]
      /\ tabs[k] # None => store[k] = reduceAgent(tabs[k], e)
  BY <1>1, ReduceEventStore
<1>4. \A j \in Keys : tabs[j] # None => /\ reduceAgent(tabs[j], e) # None
                                        /\ reduceAgent(tabs[j], e).openTurns = tabs[j].openTurns
  BY <1>1, ReduceAgentTab, TabParts DEF Stores
<1> HIDE DEF store
<1>5. Renders(store, e)
  BY <1>3, <1>4 DEF Renders
<1> QED  BY <1>2, <1>5 DEF store

LEMMA TurnFrameIs ==
  ASSUME ChatTypeOK, NEW t \in Turns, TurnFrame(t)
  PROVE  \E e \in Frames, F \in SUBSET {t} : \E store :
            /\ turnStream[t].q # <<>> /\ e = Head(turnStream[t].q)
            /\ ~(e.type = "session" /\ Target(t) = Draft)
            /\ F = IF e.type \in {"end", "closed"} /\ Open(t) THEN {t} ELSE {}
            /\ store = tabs \/ (RendersTurnFrame(Target(t), e) /\ store = reduceEvent(tabs, Target(t), e))
            /\ Renders(store, e) /\ tabs' = bumpDown(store, F)
            /\ turnStream' \in [Turns -> Streams]
            /\ turnStream'[t].q = Tail(turnStream[t].q)
            /\ turnStream'[t].up = IF t \in F THEN "stopped" ELSE turnStream[t].up
            /\ \A u \in Turns : u # t => turnStream'[u] = turnStream[u]
            /\ turnKey' = forgetTurns(turnKey, F)
<1> DEFINE q == turnStream[t].q
           e == Head(q)
           k == Target(t)
           F == IF e.type \in {"end", "closed"} THEN closeOut({t}) ELSE {}
           rest == [turnStream EXCEPT ![t].q = Tail(q)]
           store == IF e.type # "closed" /\ RendersTurnFrame(k, e) THEN reduceEvent(tabs, k, e) ELSE tabs
<1>1. /\ q # <<>> /\ ~(e.type = "session" /\ k = Draft)
      /\ tabs' = bumpDown(store, F)
      /\ turnStream' = stopTurns(rest, F)
      /\ turnKey' = forgetTurns(turnKey, F)
  BY DEF TurnFrame
<1>2. turnStream \in [Turns -> Streams] /\ turnStream[t] \in Streams /\ TabsOK
  BY DEF ChatTypeOK, StreamsOK
<1>3. q \in Seq(Frames) /\ e \in Frames /\ Tail(q) \in Seq(Frames)
  BY <1>1, <1>2, StreamParts, TailIs
<1>4. k \in Keys
  BY TargetIsKey
<1>5. Renders(store, e)
  <2>1. Renders(tabs, e) /\ Renders(reduceEvent(tabs, k, e), e)
    BY <1>2, <1>3, <1>4, ReducedRenders
  <2> QED  BY <2>1
<1>6. F = IF e.type \in {"end", "closed"} /\ Open(t) THEN {t} ELSE {}
  BY DEF closeOut
<1>7. /\ rest \in [Turns -> Streams] /\ rest[t].q = Tail(q) /\ rest[t].up = turnStream[t].up
      /\ \A u \in Turns : u # t => rest[u] = turnStream[u]
  <2>1. rest = [turnStream EXCEPT ![t] = [turnStream[t] EXCEPT !.q = Tail(q)]]
    BY <1>2
  <2> DEFINE new == [turnStream[t] EXCEPT !.q = Tail(q)]
  <2>2. new \in Streams /\ new.q = Tail(q) /\ new.up = turnStream[t].up
    BY <1>2, <1>3, WithQueue
  <2> HIDE DEF new
  <2>3. rest = [turnStream EXCEPT ![t] = new]
    BY <2>1 DEF new
  <2> QED  BY <1>2, <2>2, <2>3
<1>8. store = tabs \/ (RendersTurnFrame(k, e) /\ store = reduceEvent(tabs, k, e))
  OBVIOUS
<1> HIDE DEF q, e, k, F, rest, store
<1>9. /\ turnStream' \in [Turns -> Streams]
      /\ turnStream'[t].q = Tail(q)
      /\ turnStream'[t].up = IF t \in F THEN "stopped" ELSE turnStream[t].up
      /\ \A u \in Turns : u # t => turnStream'[u] = turnStream[u]
  <2>1. /\ turnStream' \in [Turns -> Streams]
        /\ \A u \in Turns : /\ turnStream'[u].q = rest[u].q
                            /\ u \in F => turnStream'[u].up = "stopped"
                            /\ u \notin F => turnStream'[u] = rest[u]
    BY <1>1, <1>7, Stopped
  <2>2. \A u \in Turns : u # t => u \notin F
    BY <1>6
  <2> QED  BY <1>7, <2>1, <2>2
<1>10. F \in SUBSET {t}
  BY <1>6
<1> QED  BY <1>1, <1>3, <1>5, <1>6, <1>8, <1>9, <1>10 DEF q, e, k

\* The turns that the end of a room's turn closes out.
OpenOf(s) == {t \in Turns : turnKey[t] = s /\ Open(t)}

LEMMA RoomFrameIs ==
  ASSUME ChatTypeOK, NEW s \in Sessions, RoomFrame(s)
  PROVE  \E e \in Frames, F \in SUBSET Turns : \E store :
            /\ roomStream[s].q # <<>> /\ e = Head(roomStream[s].q)
            /\ F = IF e.type = "end" THEN OpenOf(s) ELSE {}
            /\ \A k \in Keys : k # s => store[k] = tabs[k]
            /\ tabs[s] # None => /\ store[s].messages = reduceAgent(tabs[s], e).messages
                                 /\ store[s].stale = (e.type = "closed")
            /\ Renders(store, e) /\ tabs' = bumpDown(store, F)
            /\ turnStream' = stopTurns(turnStream, F)
            /\ turnKey' = forgetTurns(turnKey, F)
            /\ roomStream' \in [Sessions -> Streams]
            /\ roomStream'[s].q = IF e.type = "closed" THEN <<>> ELSE Tail(roomStream[s].q)
            /\ roomStream'[s].up = IF e.type = "closed" THEN "stopped" ELSE roomStream[s].up
            /\ \A r \in Sessions : r # s => roomStream'[r] = roomStream[r]
<1> DEFINE q == roomStream[s].q
           e == Head(q)
           F == IF e.type = "end" THEN closeOut({t \in Turns : turnKey[t] = s}) ELSE {}
           fresh == IF IsTab(s) THEN [tabs EXCEPT ![s].stale = (e.type = "closed")] ELSE tabs
           store == reduceEvent(fresh, s, e)
           new == IF e.type = "closed" THEN Stream("stopped", <<>>)
                  ELSE Stream(roomStream[s].up, Tail(roomStream[s].q))
<1>1. /\ q # <<>>
      /\ tabs' = bumpDown(store, F)
      /\ turnStream' = stopTurns(turnStream, F)
      /\ turnKey' = forgetTurns(turnKey, F)
      /\ roomStream' = [roomStream EXCEPT ![s] = new]
  <2>1. q # <<>> /\ tabs' = bumpDown(store, F)
    BY DEF RoomFrame
  <2>2. turnStream' = stopTurns(turnStream, F) /\ turnKey' = forgetTurns(turnKey, F)
    BY DEF RoomFrame
  <2>3. roomStream' = [roomStream EXCEPT ![s] = new]
    BY DEF RoomFrame
  <2> QED  BY <2>1, <2>2, <2>3
<1>2. roomStream \in [Sessions -> Streams] /\ roomStream[s] \in Streams /\ tabs \in Stores
  BY DEF ChatTypeOK, StreamsOK, TabsOK, Stores
<1>3. q \in Seq(Frames) /\ e \in Frames /\ Tail(q) \in Seq(Frames)
  BY <1>1, <1>2, StreamParts, TailIs
<1>4. s \in Keys
  BY DEF Keys
<1>5. F = (IF e.type = "end" THEN OpenOf(s) ELSE {}) /\ F \in SUBSET Turns
  BY DEF closeOut, OpenOf
<1>6. /\ new \in Streams
      /\ new.q = IF e.type = "closed" THEN <<>> ELSE Tail(q)
      /\ new.up = IF e.type = "closed" THEN "stopped" ELSE roomStream[s].up
  <2>1. CASE e.type = "closed"
    BY <2>1, StreamIs, EmptySeq
  <2>2. CASE e.type # "closed"
    <3>1. roomStream[s].up \in {"none", "connecting", "live", "dropped", "stopped"}
      BY <1>2, StreamParts
    <3>2. Stream(roomStream[s].up, Tail(q)) \in Streams
      BY <1>3, <3>1, StreamIs
    <3>3. /\ Stream(roomStream[s].up, Tail(q)).q = Tail(q)
          /\ Stream(roomStream[s].up, Tail(q)).up = roomStream[s].up
      BY DEF Stream
    <3> QED  BY <2>2, <3>2, <3>3
  <2> QED  BY <2>1, <2>2
<1>7. /\ fresh \in Stores
      /\ \A k \in Keys : k # s => fresh[k] = tabs[k]
      /\ tabs[s] = None => fresh[s] = None
      /\ tabs[s] # None => /\ fresh[s] \in Tabs /\ fresh[s].messages = tabs[s].messages
                           /\ fresh[s].openTurns = tabs[s].openTurns
                           /\ fresh[s].stale = (e.type = "closed")
  <2>1. CASE tabs[s] = None
    BY <1>2, <2>1 DEF IsTab
  <2>2. CASE tabs[s] # None
    <3> DEFINE b == (e.type = "closed")
               tab == [tabs[s] EXCEPT !.stale = b]
    <3>1. fresh = [tabs EXCEPT ![s] = tab]
      BY <1>2, <1>4, <2>2 DEF IsTab, Stores
    <3>2. tabs[s] \in Tabs /\ b \in BOOLEAN
      BY <1>2, <1>4, <2>2 DEF Stores
    <3> HIDE DEF b
    <3>3. /\ tab \in Tabs /\ tab.messages = tabs[s].messages /\ tab.stale = b
          /\ tab.openTurns = tabs[s].openTurns
      BY <3>2 DEF Tabs
    <3> HIDE DEF tab, fresh
    <3>4. fresh \in Stores /\ fresh[s] = tab /\ \A k \in Keys : k # s => fresh[k] = tabs[k]
      BY <1>2, <1>4, <3>1, <3>3 DEF Stores
    <3> QED  BY <2>2, <3>3, <3>4 DEF b
  <2> QED  BY <2>1, <2>2
<1> HIDE DEF q, e, F, fresh, new
<1>8. /\ store \in Stores
      /\ \A k \in Keys : k # s \/ fresh[k] = None => store[k] = fresh[k]
      /\ fresh[s] # None => store[s] = reduceAgent(fresh[s], e)
  BY <1>3, <1>4, <1>7, ReduceEventStore
<1>9. tabs[s] # None => /\ store[s] \in Tabs /\ store[s].messages = reduceAgent(tabs[s], e).messages
                        /\ store[s].openTurns = tabs[s].openTurns
                        /\ store[s].stale = (e.type = "closed")
  <2> SUFFICES ASSUME tabs[s] # None
               PROVE  /\ store[s] \in Tabs /\ store[s].messages = reduceAgent(tabs[s], e).messages
                      /\ store[s].openTurns = tabs[s].openTurns
                      /\ store[s].stale = (e.type = "closed")
    OBVIOUS
  <2>1. tabs[s] \in Tabs /\ fresh[s] \in Tabs
    BY <1>2, <1>4, <1>7 DEF Stores
  <2>2. store[s] = reduceAgent(fresh[s], e)
    BY <1>8, <2>1, TabParts
  <2>3. reduceAgent(fresh[s], e).messages = reduceAgent(tabs[s], e).messages
    BY <1>3, <1>7, <2>1, SameMessagesReduced
  <2>4. /\ reduceAgent(fresh[s], e) \in Tabs
        /\ reduceAgent(fresh[s], e).openTurns = fresh[s].openTurns
        /\ reduceAgent(fresh[s], e).stale = fresh[s].stale
    BY <1>3, <2>1, ReduceAgentTab
  <2> QED  BY <1>7, <2>2, <2>3, <2>4
<1>10. \A k \in Keys : k # s => store[k] = tabs[k]
  BY <1>7, <1>8
<1>11. tabs[s] = None => store[s] = None
  BY <1>4, <1>7, <1>8
<1> HIDE DEF store
<1>12. Renders(store, e)
  <2> SUFFICES ASSUME NEW k \in Keys
               PROVE  /\ store[k] = None <=> tabs[k] = None
                      /\ tabs[k] # None =>
                            /\ store[k].openTurns = tabs[k].openTurns
                            /\ \/ store[k].messages = tabs[k].messages
                               \/ store[k].messages = reduceAgent(tabs[k], e).messages
    BY <1>8 DEF Renders
  <2>1. CASE k # s
    BY <1>10, <2>1
  <2>2. CASE k = s
    BY <1>9, <1>11, <2>2, TabParts
  <2> QED  BY <2>1, <2>2
<1>13. /\ roomStream' \in [Sessions -> Streams] /\ roomStream'[s] = new
       /\ \A r \in Sessions : r # s => roomStream'[r] = roomStream[r]
  BY <1>1, <1>2, <1>6
<1> QED  BY <1>1, <1>3, <1>5, <1>6, <1>9, <1>10, <1>12, <1>13 DEF q, e

-----------------------------------------------------------------------------
(* What is known of a turn.                                                *)

LEMMA StreamsShown ==
  ASSUME ShownInv,
         \/ \E t \in Turns : TurnSubscribed(t)
         \/ \E s \in Sessions : RoomSubscribed(s) \/ Retry(s)
         \/ StreamDrops
  PROVE  ShownInv'
<1>t. ChatTypeOK /\ turnStream \in [Turns -> Streams] /\ roomStream \in [Sessions -> Streams]
  BY DEF ShownInv, ChatTypeOK, StreamsOK
<1>1. /\ UNCHANGED <<tabs, turnKey, post, asked, hostVars, clean>> /\ whole' \subseteq whole
  BY DEF TurnSubscribed, RoomSubscribed, Retry, StreamDrops
<1>2. /\ turnStream' \in [Turns -> Streams] /\ roomStream' \in [Sessions -> Streams]
      /\ QuietStep
      /\ \A t \in Turns : turnStream[t].up = "none" => turnStream'[t] = turnStream[t]
  <2>0. /\ \A t \in Turns : Quieter(turnStream[t], turnStream[t])
        /\ \A s \in Sessions : Quieter(roomStream[s], roomStream[s])
    BY <1>t, QuietStreams
  <2>1. ASSUME NEW t \in Turns, TurnSubscribed(t) PROVE <1>2!:
    <3> DEFINE new == Stream("live", <<>>)
    <3>1. new \in Streams /\ new.q = <<>>
      BY StreamIs, EmptySeq
    <3>2. turnStream' = [turnStream EXCEPT ![t] = new] /\ turnStream[t].up = "connecting" /\ UNCHANGED roomStream
      BY <2>1 DEF TurnSubscribed
    <3> HIDE DEF new
    <3>3. Quieter(new, turnStream[t])
      BY <1>t, <3>1, QuietStreams
    <3> QED  BY <1>t, <2>0, <3>1, <3>2, <3>3 DEF QuietStep
  <2>2. ASSUME NEW s \in Sessions, RoomSubscribed(s) PROVE <1>2!:
    <3> DEFINE new == Stream("live", Append(roomStream[s].q, Hello))
    <3>1. new \in Streams /\ new.q = Append(roomStream[s].q, Hello)
      BY <1>t, StreamParts, FramesOfTurns, AppendIs, StreamIs
    <3>2. roomStream' = [roomStream EXCEPT ![s] = new] /\ UNCHANGED turnStream
      BY <2>2 DEF RoomSubscribed
    <3> HIDE DEF new
    <3>3. Quieter(new, roomStream[s])
      BY <1>t, <3>1, QuietStreams
    <3> QED  BY <1>t, <2>0, <3>1, <3>2, <3>3 DEF QuietStep
  <2>3. ASSUME NEW s \in Sessions, Retry(s) PROVE <1>2!:
    <3>1. CASE IsTab(s)
      <4>1. PICK new \in Reopened(roomStream[s]) : roomStream' = [roomStream EXCEPT ![s] = new]
        BY <2>3, <3>1 DEF Retry
      <4>2. new \in Streams /\ (new.q = <<>> \/ new.q = roomStream[s].q)
        BY <1>t, ReopenedIs
      <4>3. Quieter(new, roomStream[s])
        BY <1>t, <4>2, QuietStreams
      <4>4. UNCHANGED turnStream
        BY <2>3 DEF Retry
      <4> QED  BY <1>t, <2>0, <4>1, <4>2, <4>3, <4>4 DEF QuietStep
    <3>2. CASE ~IsTab(s)
      <4>1. UNCHANGED <<turnStream, roomStream>>
        BY <2>3, <3>2 DEF Retry
      <4> QED  BY <1>t, <2>0, <4>1 DEF QuietStep
    <3> QED  BY <3>1, <3>2
  <2>4. ASSUME NEW t \in Turns, turnStream[t].up \in {"live", "connecting"},
               turnStream' = [turnStream EXCEPT ![t] = Dropped(turnStream[t])], UNCHANGED roomStream
        PROVE  <1>2!:
    <3>1. Dropped(turnStream[t]) \in Streams /\ Quieter(Dropped(turnStream[t]), turnStream[t])
      BY <1>t, DroppedIs, QuietStreams
    <3> QED  BY <1>t, <2>0, <2>4, <3>1 DEF QuietStep
  <2>5. ASSUME NEW s \in Sessions, UNCHANGED turnStream,
               roomStream' = [roomStream EXCEPT ![s] = Dropped(roomStream[s])]
        PROVE  <1>2!:
    <3>1. Dropped(roomStream[s]) \in Streams /\ Quieter(Dropped(roomStream[s]), roomStream[s])
      BY <1>t, DroppedIs, QuietStreams
    <3> QED  BY <1>t, <2>0, <2>5, <3>1 DEF QuietStep
  <2> QED  BY <2>1, <2>2, <2>3, <2>4, <2>5 DEF StreamDrops
<1>3. TabsOK' /\ OneQuestion' /\ \A kind, t : Shown(kind, t)' => Shown(kind, t)
  BY <1>1, TabsSame DEF ShownInv, ChatTypeOK
<1>4. StreamsOK' /\ TurnsOK'
  <2>1. StreamsOK'
    BY <1>2 DEF StreamsOK
  <2>2. TurnsOK'
    BY <1>1, <1>t DEF ChatTypeOK, TurnsOK, hostVars
  <2> QED  BY <2>1, <2>2
<1>5. \A t \in Turns : post[t] = "unsent" => turnStream'[t] = turnStream[t]
  BY <1>2, NewStreams DEF ShownInv, UnsentIsUnknown
<1> QED  BY <1>1, <1>2, <1>3, <1>4, <1>5, QuietKept

LEMMA SendersKnown ==
  ASSUME ShownInv, NEW t \in Turns, post[t] = "unsent"
  PROVE  turnStream[t].up = "none" /\ turnStream[t].q = <<>> /\ turnKey[t] = None /\ asked[t] = None
  BY NewStreams DEF ShownInv, UnsentIsUnknown

LEMMA TabsShown ==
  ASSUME ShownInv,
         \/ \E s \in Sessions : openSession(s) \/ SessionOpens(s)
         \/ \E k \in Keys : close(k)
  PROVE  ShownInv'
<1>t. ChatTypeOK /\ turnStream \in [Turns -> Streams] /\ roomStream \in [Sessions -> Streams] /\ tabs \in Stores
  BY DEF ShownInv, ChatTypeOK, StreamsOK, TabsOK, Stores
<1>1. /\ UNCHANGED <<turnKey, post, asked, hostVars, clean>> /\ whole' \subseteq whole
  BY DEF openSession, SessionOpens, close
<1>2. /\ \A t \in Turns : Quieter(turnStream[t], turnStream[t])
      /\ \A s \in Sessions : Quieter(roomStream[s], roomStream[s])
  BY <1>t, QuietStreams
<1>3. /\ StreamsOK' /\ QuietStep
      /\ \A t \in Turns : turnStream[t].up = "none" => turnStream'[t] = turnStream[t]
      /\ TabsOK' /\ OneQuestion' /\ \A kind, t : Shown(kind, t)' => Shown(kind, t)
  <2>1. ASSUME NEW s \in Sessions, openSession(s) PROVE <1>3!:
    <3>1. UNCHANGED <<tabs, turnStream, roomStream>>
      BY <2>1 DEF openSession
    <3> QED  BY <1>t, <1>2, <3>1, TabsSame DEF ShownInv, ChatTypeOK, StreamsOK, QuietStep
  <2>2. ASSUME NEW s \in Sessions, SessionOpens(s) PROVE <1>3!:
    <3>1. PICK new \in Reopened(roomStream[s]) : roomStream' = [roomStream EXCEPT ![s] = new]
      BY <2>2 DEF SessionOpens
    <3>2. new \in Streams /\ (new.q = <<>> \/ new.q = roomStream[s].q)
      BY <1>t, ReopenedIs
    <3>3. Quieter(new, roomStream[s])
      BY <1>t, <3>2, QuietStreams
    <3>4. turnStream' = turnStream /\ tabs' = [tabs EXCEPT ![s] = IF tabs[s] = None THEN NewTab ELSE tabs[s]]
      BY <2>2 DEF SessionOpens
    <3>5. StreamsOK' /\ QuietStep
      BY <1>t, <1>2, <3>1, <3>2, <3>3, <3>4 DEF StreamsOK, QuietStep
    <3>6. tabs' \in Stores /\ \A k \in Keys : tabs'[k] = NewTab \/ tabs'[k] = tabs[k]
      BY <1>t, <3>4, NewTabIs DEF Stores, Keys
    <3> QED  BY <3>4, <3>5, <3>6, TabsMoved DEF ShownInv, ChatTypeOK
  <2>3. ASSUME NEW k \in Keys, close(k) PROVE <1>3!:
    <3> DEFINE F == {t \in Turns : turnKey[t] = k /\ Open(t)}
    <3>1. /\ turnStream' = stopTurns(turnStream, F)
          /\ roomStream' = [s \in Sessions |-> IF s = k THEN NoStream ELSE roomStream[s]]
          /\ tabs' = [tabs EXCEPT ![k] = None]
      BY <2>3 DEF close
    <3>2. /\ turnStream' \in [Turns -> Streams]
          /\ \A t \in Turns : turnStream'[t].q = turnStream[t].q
          /\ \A t \in Turns : turnStream[t].up = "none" => turnStream'[t] = turnStream[t]
      BY <1>t, <3>1, Stopped DEF Open
    <3>3. \A t \in Turns : Quieter(turnStream'[t], turnStream[t])
      BY <1>t, <3>2, QuietStreams
    <3>4. \A s \in Sessions : Quieter(NoStream, roomStream[s])
      BY <1>t, NewStreams, QuietStreams
    <3>5. StreamsOK' /\ QuietStep
      BY <1>t, <1>2, <3>1, <3>2, <3>3, <3>4, NewStreams DEF StreamsOK, QuietStep
    <3>6. tabs' \in Stores /\ \A j \in Keys : tabs'[j] = None \/ tabs'[j] = tabs[j]
      BY <1>t, <3>1 DEF Stores
    <3> QED  BY <3>2, <3>5, <3>6, TabsMoved DEF ShownInv, ChatTypeOK
  <2> QED  BY <2>1, <2>2, <2>3
<1>4. TurnsOK'
  BY <1>1, <1>t DEF ChatTypeOK, TurnsOK, hostVars
<1>5. \A t \in Turns : post[t] = "unsent" => turnStream'[t] = turnStream[t] /\ turnKey'[t] = turnKey[t]
  BY <1>1, <1>3, SendersKnown
<1> QED  BY <1>1, <1>3, <1>4, <1>5, QuietKept

LEMMA HeadInFlight ==
  ASSUME ChatTypeOK
  PROVE  /\ \A t \in Turns : turnStream[t].q # <<>> =>
               InFlight(Head(turnStream[t].q).type, Head(turnStream[t].q).turn)
         /\ \A s \in Sessions : roomStream[s].q # <<>> =>
               InFlight(Head(roomStream[s].q).type, Head(roomStream[s].q).turn)
<1>1. /\ \A t \in Turns : turnStream[t].q \in Seq(Frames)
      /\ \A s \in Sessions : roomStream[s].q \in Seq(Frames)
  BY StreamParts DEF ChatTypeOK, StreamsOK
<1> QED  BY <1>1, CarriedBy DEF InFlight

LEMMA TurnFrameShown ==
  ASSUME ShownInv, NEW t \in Turns, TurnFrame(t)
  PROVE  ShownInv'
<1>t. ChatTypeOK /\ turnStream \in [Turns -> Streams] /\ roomStream \in [Sessions -> Streams]
  BY DEF ShownInv, ChatTypeOK, StreamsOK
<1>1. PICK e \in Frames, F \in SUBSET {t} : \E store :
         /\ turnStream[t].q # <<>> /\ e = Head(turnStream[t].q)
         /\ Renders(store, e) /\ tabs' = bumpDown(store, F)
         /\ turnStream' \in [Turns -> Streams]
         /\ turnStream'[t].q = Tail(turnStream[t].q)
         /\ \A u \in Turns : u # t => turnStream'[u] = turnStream[u]
         /\ turnKey' = forgetTurns(turnKey, F)
  BY <1>t, TurnFrameIs
<1>2. /\ UNCHANGED <<roomStream, post, asked, hostVars, clean>> /\ whole' \subseteq whole
  BY DEF TurnFrame
<1>3. /\ TabsOK' /\ OneQuestion'
      /\ \A kind, u : Shown(kind, u)' =>
            \/ Shown(kind, u)
            \/ kind = "user" /\ e.type = "message" /\ e.turn = u
            \/ kind = "answer" /\ e.type = "end" /\ e.turn = u
  <2>1. PICK store : Renders(store, e) /\ tabs' = bumpDown(store, F)
    BY <1>1
  <2>2. TabsOK /\ OneQuestion /\ F \subseteq Turns
    BY DEF ShownInv, ChatTypeOK
  <2> QED  BY <2>1, <2>2, RenderedOnce
<1>4. InFlight(e.type, e.turn)
  BY <1>t, <1>1, HeadInFlight
<1>5. QuietStep
  BY <1>t, <1>1, <1>2, QuietStreams DEF QuietStep
<1>6. StreamsOK'
  BY <1>t, <1>1, <1>2 DEF StreamsOK
<1>7. TurnsOK'
  BY <1>t, <1>1, <1>2, Forgotten DEF ChatTypeOK, TurnsOK, hostVars
<1>8. \A u \in Turns : post[u] = "unsent" => turnStream'[u] = turnStream[u] /\ turnKey'[u] = turnKey[u]
  <2> SUFFICES ASSUME NEW u \in Turns, post[u] = "unsent"
               PROVE  turnStream'[u] = turnStream[u] /\ turnKey'[u] = turnKey[u]
    OBVIOUS
  <2>1. u # t
    BY <1>1, SendersKnown
  <2> QED  BY <1>t, <1>1, <2>1, Forgotten DEF ChatTypeOK, TurnsOK
<1> QED  BY <1>2, <1>3, <1>4, <1>5, <1>6, <1>7, <1>8, QuietKept

LEMMA RoomFrameShown ==
  ASSUME ShownInv, NEW s \in Sessions, RoomFrame(s)
  PROVE  ShownInv'
<1>t. ChatTypeOK /\ turnStream \in [Turns -> Streams] /\ roomStream \in [Sessions -> Streams]
  BY DEF ShownInv, ChatTypeOK, StreamsOK
<1>1. PICK e \in Frames, F \in SUBSET Turns : \E store :
         /\ roomStream[s].q # <<>> /\ e = Head(roomStream[s].q)
         /\ F = IF e.type = "end" THEN OpenOf(s) ELSE {}
         /\ Renders(store, e) /\ tabs' = bumpDown(store, F)
         /\ turnStream' = stopTurns(turnStream, F)
         /\ turnKey' = forgetTurns(turnKey, F)
         /\ roomStream' \in [Sessions -> Streams]
         /\ roomStream'[s].q = IF e.type = "closed" THEN <<>> ELSE Tail(roomStream[s].q)
         /\ \A r \in Sessions : r # s => roomStream'[r] = roomStream[r]
  BY <1>t, RoomFrameIs
<1>2. /\ UNCHANGED <<post, asked, hostVars, clean>> /\ whole' \subseteq whole
  BY DEF RoomFrame
<1>3. /\ TabsOK' /\ OneQuestion'
      /\ \A kind, u : Shown(kind, u)' =>
            \/ Shown(kind, u)
            \/ kind = "user" /\ e.type = "message" /\ e.turn = u
            \/ kind = "answer" /\ e.type = "end" /\ e.turn = u
  <2>1. PICK store : Renders(store, e) /\ tabs' = bumpDown(store, F)
    BY <1>1
  <2>2. TabsOK /\ OneQuestion /\ F \subseteq Turns
    BY DEF ShownInv, ChatTypeOK
  <2> QED  BY <2>1, <2>2, RenderedOnce
<1>4. InFlight(e.type, e.turn)
  BY <1>t, <1>1, HeadInFlight
<1>5. /\ turnStream' \in [Turns -> Streams]
      /\ \A t \in Turns : /\ turnStream'[t].q = turnStream[t].q
                          /\ t \notin F => turnStream'[t] = turnStream[t]
  BY <1>t, <1>1, Stopped
<1>6. QuietStep
  <2>1. \A t \in Turns : Quieter(turnStream'[t], turnStream[t])
    BY <1>t, <1>5, QuietStreams
  <2>2. Quieter(roomStream'[s], roomStream[s])
    BY <1>t, <1>1, QuietStreams
  <2>3. \A r \in Sessions : r # s => Quieter(roomStream'[r], roomStream[r])
    BY <1>t, <1>1, QuietStreams
  <2> QED  BY <2>1, <2>2, <2>3 DEF QuietStep
<1>7. StreamsOK'
  BY <1>1, <1>5 DEF StreamsOK
<1>8. TurnsOK'
  BY <1>t, <1>1, <1>2, Forgotten DEF ChatTypeOK, TurnsOK, hostVars
<1>9. \A u \in Turns : post[u] = "unsent" => turnStream'[u] = turnStream[u] /\ turnKey'[u] = turnKey[u]
  <2> SUFFICES ASSUME NEW u \in Turns, post[u] = "unsent"
               PROVE  turnStream'[u] = turnStream[u] /\ turnKey'[u] = turnKey[u]
    OBVIOUS
  <2>1. u \notin F
    BY <1>1, SendersKnown DEF OpenOf, Open
  <2> QED  BY <1>t, <1>1, <1>5, <2>1, Forgotten DEF ChatTypeOK, TurnsOK
<1> QED  BY <1>2, <1>3, <1>4, <1>6, <1>7, <1>8, <1>9, QuietKept

LEMMA PromotionIs ==
  ASSUME ChatTypeOK, NEW t \in Turns, Promotion(t)
  PROVE  \E e \in Frames, s \in Sessions : \E new \in Reopened(roomStream[s]) :
            /\ turnStream[t].q # <<>> /\ Target(t) = Draft
            /\ e = Head(turnStream[t].q) /\ e.type = "session" /\ s = e.session
            /\ tabs' \in Stores /\ tabs'[Draft] = None
            /\ tabs'[s] = IF tabs[s] = None THEN tabs[Draft] ELSE tabs[s]
            /\ \A k \in Keys : k # Draft /\ k # s => tabs'[k] = tabs[k]
            /\ turnKey' = [turnKey EXCEPT ![t] = s]
            /\ roomStream' = [roomStream EXCEPT ![s] = new]
            /\ clean' = (clean /\ ~(IsTab(s) /\ IsTab(Draft))) /\ clean' \in BOOLEAN
            /\ whole' = whole \ Disturbed(s)
            /\ turnStream' \in [Turns -> Streams]
            /\ turnStream'[t].q = Tail(turnStream[t].q) /\ turnStream'[t].up = turnStream[t].up
            /\ \A u \in Turns : u # t => turnStream'[u] = turnStream[u]
<1> DEFINE q == turnStream[t].q
           e == Head(q)
           s == e.session
<1>1. /\ turnStream \in [Turns -> Streams] /\ turnStream[t] \in Streams /\ tabs \in Stores
  BY DEF ChatTypeOK, StreamsOK, TabsOK, Stores
<1>2. q # <<>> /\ Target(t) = Draft /\ e.type = "session"
  BY DEF Promotion
<1>3. q \in Seq(Frames) /\ e \in Frames /\ Tail(q) \in Seq(Frames)
  BY <1>1, <1>2, StreamParts, TailIs
<1>4. s \in Sessions
  BY <1>2, <1>3 DEF Frames
<1>5. PICK new \in Reopened(roomStream[s]) : roomStream' = [roomStream EXCEPT ![s] = new]
  BY DEF Promotion
<1>6. /\ turnKey' = [turnKey EXCEPT ![t] = s]
      /\ clean' = (clean /\ ~(IsTab(s) /\ IsTab(Draft))) /\ clean' \in BOOLEAN
      /\ whole' = whole \ Disturbed(s)
  BY DEF Promotion, ChatTypeOK, TurnsOK
<1>7. /\ tabs' \in Stores /\ tabs'[Draft] = None
      /\ tabs'[s] = IF tabs[s] = None THEN tabs[Draft] ELSE tabs[s]
      /\ \A k \in Keys : k # Draft /\ k # s => tabs'[k] = tabs[k]
  <2>1. tabs' = [tabs EXCEPT ![Draft] = None, ![s] = IF tabs[s] = None THEN tabs[Draft] ELSE tabs[s]]
    BY <1>1, <1>4 DEF Promotion, promoteDraft, Stores, Keys
  <2> HIDE DEF s
  <2> QED  BY <1>1, <1>4, <2>1 DEF Stores, Keys
<1>8. /\ turnStream' \in [Turns -> Streams]
      /\ turnStream'[t].q = Tail(q) /\ turnStream'[t].up = turnStream[t].up
      /\ \A u \in Turns : u # t => turnStream'[u] = turnStream[u]
  <2> DEFINE st == [turnStream[t] EXCEPT !.q = Tail(q)]
  <2>1. st \in Streams /\ st.q = Tail(q) /\ st.up = turnStream[t].up
    BY <1>1, <1>3, WithQueue
  <2>2. turnStream' = [turnStream EXCEPT ![t] = st]
    BY <1>1 DEF Promotion
  <2> HIDE DEF st
  <2> QED  BY <1>1, <2>1, <2>2
<1> HIDE DEF q, e, s
<1> QED  BY <1>2, <1>3, <1>4, <1>5, <1>6, <1>7, <1>8 DEF q, e, s

LEMMA PromotionShown ==
  ASSUME ShownInv, NEW t \in Turns, Promotion(t)
  PROVE  ShownInv'
<1>t. ChatTypeOK /\ turnStream \in [Turns -> Streams] /\ roomStream \in [Sessions -> Streams]
  BY DEF ShownInv, ChatTypeOK, StreamsOK
<1>0. PICK s \in Sessions : \E new \in Reopened(roomStream[s]) :
         /\ turnStream[t].q # <<>>
         /\ tabs' \in Stores /\ tabs'[Draft] = None
         /\ tabs'[s] = IF tabs[s] = None THEN tabs[Draft] ELSE tabs[s]
         /\ \A k \in Keys : k # Draft /\ k # s => tabs'[k] = tabs[k]
         /\ turnKey' = [turnKey EXCEPT ![t] = s]
         /\ roomStream' = [roomStream EXCEPT ![s] = new]
         /\ clean' \in BOOLEAN
         /\ turnStream' \in [Turns -> Streams]
         /\ turnStream'[t].q = Tail(turnStream[t].q)
         /\ \A u \in Turns : u # t => turnStream'[u] = turnStream[u]
  BY <1>t, PromotionIs
<1>1. PICK new \in Reopened(roomStream[s]) :
         /\ turnStream[t].q # <<>>
         /\ tabs' \in Stores /\ tabs'[Draft] = None
         /\ tabs'[s] = IF tabs[s] = None THEN tabs[Draft] ELSE tabs[s]
         /\ \A k \in Keys : k # Draft /\ k # s => tabs'[k] = tabs[k]
         /\ turnKey' = [turnKey EXCEPT ![t] = s]
         /\ roomStream' = [roomStream EXCEPT ![s] = new]
         /\ clean' \in BOOLEAN
         /\ turnStream' \in [Turns -> Streams]
         /\ turnStream'[t].q = Tail(turnStream[t].q)
         /\ \A u \in Turns : u # t => turnStream'[u] = turnStream[u]
  BY <1>0
<1>2. /\ UNCHANGED <<post, asked, hostVars>> /\ whole' \subseteq whole
  BY DEF Promotion
<1>3. new \in Streams /\ Quieter(new, roomStream[s])
  BY <1>t, ReopenedIs, QuietStreams
<1>4. QuietStep
  <2>1. \A u \in Turns : Quieter(turnStream'[u], turnStream[u])
    BY <1>t, <1>1, QuietStreams
  <2>2. \A r \in Sessions : Quieter(roomStream'[r], roomStream[r])
    BY <1>t, <1>1, <1>3, QuietStreams
  <2> QED  BY <2>1, <2>2 DEF QuietStep
<1>5. \A k \in Keys : tabs'[k] = None \/ \E j \in Keys : tabs'[k] = tabs[j]
  BY <1>1 DEF Keys
<1>6. TabsOK' /\ OneQuestion' /\ \A kind, u : Shown(kind, u)' => Shown(kind, u)
  BY <1>1, <1>5, TabsMoved DEF ShownInv, ChatTypeOK
<1>7. StreamsOK'
  BY <1>t, <1>1, <1>3 DEF StreamsOK
<1>8. TurnsOK'
  BY <1>t, <1>1, <1>2 DEF ChatTypeOK, TurnsOK, Keys, hostVars
<1>9. \A u \in Turns : post[u] = "unsent" => turnStream'[u] = turnStream[u] /\ turnKey'[u] = turnKey[u]
  <2> SUFFICES ASSUME NEW u \in Turns, post[u] = "unsent"
               PROVE  turnStream'[u] = turnStream[u] /\ turnKey'[u] = turnKey[u]
    OBVIOUS
  <2>1. u # t
    BY <1>1, SendersKnown
  <2> QED  BY <1>t, <1>1, <2>1 DEF ChatTypeOK, TurnsOK
<1> QED  BY <1>2, <1>4, <1>6, <1>7, <1>8, <1>9, QuietKept

LEMMA Broadcasted ==
  ASSUME ChatTypeOK, NEW t \in Turns, NEW s, NEW e \in Frames, e.turn = t, e.type \in TurnTypes,
         Broadcast(s, t, e)
  PROVE  /\ StreamsOK'
         /\ \A u \in Turns : turnStream'[u] = IF u = t THEN Sent(turnStream[u], e) ELSE turnStream[u]
         /\ \A r \in Sessions : roomStream'[r] = IF r = s THEN Sent(roomStream[r], e) ELSE roomStream[r]
         /\ \A type, u : InFlight(type, u)' => InFlight(type, u) \/ (type = e.type /\ u = t)
<1>t. turnStream \in [Turns -> Streams] /\ roomStream \in [Sessions -> Streams]
  BY DEF ChatTypeOK, StreamsOK
<1>1. /\ \A u \in Turns : turnStream'[u] = IF u = t THEN Sent(turnStream[u], e) ELSE turnStream[u]
      /\ \A r \in Sessions : roomStream'[r] = IF r = s THEN Sent(roomStream[r], e) ELSE roomStream[r]
      /\ turnStream' = [u \in Turns |-> turnStream'[u]]
      /\ roomStream' = [r \in Sessions |-> roomStream'[r]]
  BY <1>t DEF Broadcast
<1>2. ASSUME NEW st \in Streams
      PROVE  /\ Sent(st, e) \in Streams
             /\ \A type, u : Carries(Sent(st, e).q, type, u) =>
                   Carries(st.q, type, u) \/ (type = e.type /\ u = t)
  <2>1. st.q \in Seq(Frames) /\ (Sent(st, e) = st \/ Sent(st, e).q = Append(st.q, e))
    BY SentTo, StreamParts
  <2>2. \A type, u : Carries(Append(st.q, e), type, u) => Carries(st.q, type, u) \/ (type = e.type /\ u = t)
    BY <2>1, CarriedBy
  <2> QED  BY <2>1, <2>2, SentTo
<1>3. StreamsOK'
  BY <1>t, <1>1, <1>2 DEF StreamsOK
<1>4. ASSUME NEW type, NEW u, InFlight(type, u)'
      PROVE  InFlight(type, u) \/ (type = e.type /\ u = t)
  <2>1. CASE \E v \in Turns : Carries(turnStream'[v].q, type, u)
    BY <1>t, <1>1, <1>2, <2>1 DEF InFlight
  <2>2. CASE \E r \in Sessions : Carries(roomStream'[r].q, type, u)
    BY <1>t, <1>1, <1>2, <2>2 DEF InFlight
  <2> QED  BY <1>4, <2>1, <2>2 DEF InFlight
<1> QED  BY <1>1, <1>3, <1>4

LEMMA SentTabIs ==
  ASSUME ChatTypeOK, NEW k \in Keys, NEW t \in Turns, send(k, t)
  PROVE  /\ tabs' \in Stores /\ tabs[k] \in Tabs /\ tabs'[k] \in Tabs
         /\ tabs'[k].messages = Appended(tabs[k], "user", t).messages
         /\ tabs'[k].openTurns = tabs[k].openTurns + 1 /\ tabs'[k].stale = tabs[k].stale
         /\ \A j \in Keys : j # k => tabs'[j] = tabs[j]
<1> DEFINE tab == Appended(tabs[k], "user", t)
           new == [tab EXCEPT !.openTurns = tabs[k].openTurns + 1]
<1>1. tabs \in Stores /\ tabs[k] \in Tabs
  BY DEF ChatTypeOK, TabsOK, Stores, send, IsTab
<1>2. tab \in Tabs /\ tab.stale = tabs[k].stale /\ tabs[k].openTurns \in Nat
  BY <1>1, AppendedTab, TabParts
<1>3. tabs' = [tabs EXCEPT ![k] = new]
  <2>1. tabs' = [tabs EXCEPT ![k].messages = Append(@, Entry("user", t)), ![k].openTurns = @ + 1]
    BY DEF send
  <2> QED  BY <1>1, <2>1 DEF Appended, Stores, Tabs
<1> HIDE DEF tab
<1>4. /\ new \in Tabs /\ new.messages = tab.messages /\ new.stale = tab.stale
      /\ new.openTurns = tabs[k].openTurns + 1
  BY <1>2 DEF Tabs
<1> HIDE DEF new
<1> QED  BY <1>1, <1>2, <1>3, <1>4 DEF Stores, tab

LEMMA SendShown ==
  ASSUME ShownInv, NEW k \in Keys, NEW t \in Turns, send(k, t)
  PROVE  ShownInv'
<1>t. /\ ChatTypeOK /\ turnStream \in [Turns -> Streams] /\ roomStream \in [Sessions -> Streams]
      /\ TabsOK /\ OneQuestion
  BY DEF ShownInv, ChatTypeOK, StreamsOK
<1>1. /\ post[t] = "unsent" /\ post' = [post EXCEPT ![t] = "flight"]
      /\ asked' = [asked EXCEPT ![t] = IF k = Draft THEN None ELSE k]
      /\ turnKey' = [turnKey EXCEPT ![t] = k]
      /\ turnStream' = [turnStream EXCEPT ![t] = Connecting]
      /\ clean' \in BOOLEAN
      /\ UNCHANGED <<roomStream, hostVars, whole>>
  BY <1>t DEF send, Fresh, ChatTypeOK, TurnsOK
<1>2. /\ tabs' \in Stores /\ tabs[k] \in Tabs /\ tabs'[k] \in Tabs
      /\ tabs'[k].messages = Appended(tabs[k], "user", t).messages
      /\ \A j \in Keys : j # k => tabs'[j] = tabs[j]
  BY <1>t, SentTabIs
<1>3. /\ \A kind, u : Holds(tabs'[k], kind, u) => Holds(tabs[k], kind, u) \/ (kind = "user" /\ u = t)
      /\ AskedOnce(tabs'[k])
  <2> DEFINE tab == Appended(tabs[k], "user", t)
  <2>1. tabs[k] # None /\ AskedOnce(tabs[k])
    BY <1>t, <1>2, TabParts DEF OneQuestion, IsTab
  <2>2. ~Holds(tabs[k], "user", t)
    BY <1>1, <2>1 DEF ShownInv, UnsentIsUnknown, Shown, IsTab
  <2>3. \A kind, u : Holds(tab, kind, u) => Holds(tabs[k], kind, u) \/ (kind = "user" /\ u = t)
    BY <1>2, AppendedHolds
  <2>4. AskedOnce(tab)
    BY <1>2, <2>1, <2>2, AppendedAskedOnce
  <2> HIDE DEF tab
  <2>5. /\ \A kind, u : Holds(tabs'[k], kind, u) <=> Holds(tab, kind, u)
        /\ AskedOnce(tabs'[k]) <=> AskedOnce(tab)
    BY <1>2, SameMessages DEF tab
  <2> QED  BY <2>3, <2>4, <2>5
<1>4. TabsOK' /\ OneQuestion'
  <2>1. TabsOK'
    BY <1>2 DEF TabsOK, Stores
  <2>2. \A j \in Keys : tabs'[j] # None => AskedOnce(tabs'[j])
    BY <1>t, <1>2, <1>3 DEF OneQuestion, IsTab
  <2> QED  BY <2>1, <2>2 DEF OneQuestion, IsTab
<1>5. ASSUME NEW kind, NEW u, Shown(kind, u)' PROVE Shown(kind, u) \/ (kind = "user" /\ u = t)
  <2>1. PICK j \in Keys : tabs'[j] # None /\ Holds(tabs'[j], kind, u)
    BY <1>5 DEF Shown, IsTab
  <2>2. CASE j = k
    BY <1>2, <1>3, <2>1, <2>2, TabParts DEF Shown, IsTab
  <2>3. CASE j # k
    BY <1>2, <2>1, <2>3 DEF Shown, IsTab
  <2> QED  BY <2>2, <2>3
<1>6. post'[t] = "flight" /\ \A u \in Turns : u # t => post'[u] = post[u]
  BY <1>1, <1>t DEF ChatTypeOK, TurnsOK
<1>7. StreamsOK' /\ QuietStep
  <2>1. StreamsOK'
    BY <1>t, <1>1, NewStreams DEF StreamsOK
  <2>2. \A u \in Turns : Quieter(turnStream'[u], turnStream[u])
    BY <1>t, <1>1, NewStreams, QuietStreams
  <2>3. \A s \in Sessions : Quieter(roomStream'[s], roomStream[s])
    BY <1>t, <1>1, QuietStreams
  <2> QED  BY <2>1, <2>2, <2>3 DEF QuietStep
<1>8. TurnsOK'
  BY <1>t, <1>1 DEF ChatTypeOK, TurnsOK, Keys, hostVars
<1>9. LaneOK' /\ LaneOnce'
  BY <1>1 DEF ShownInv, ChatTypeOK, LaneOK, LaneOnce, hostVars
<1>10. NewsComesFrom
  BY <1>1, <1>5, <1>6, <1>7, QuietNews
<1>11. TurnsMoveOn
  BY <1>1, <1>6, <1>t DEF TurnsMoveOn, hostVars, InLane, ChatTypeOK, TurnsOK
<1> QED  BY <1>4, <1>7, <1>8, <1>9, <1>10, <1>11, ShownKept DEF ChatTypeOK

LEMMA PostFailsIs ==
  ASSUME ChatTypeOK, NEW t \in Turns, PostFails(t)
  PROVE  LET F == IF Open(t) THEN {t} ELSE {} IN
         /\ post[t] = "flight" /\ post' = [post EXCEPT ![t] = "settled"]
         /\ tabs' = bumpDown(tabs, F)
         /\ turnStream' = stopTurns(turnStream, F)
         /\ turnKey' = forgetTurns(turnKey, F)
         /\ UNCHANGED <<roomStream, asked, hostVars, clean, whole>>
<1>1. closeOut({t}) = IF Open(t) THEN {t} ELSE {}
  BY DEF closeOut
<1> QED  BY <1>1 DEF PostFails

LEMMA PostFailsShown ==
  ASSUME ShownInv, NEW t \in Turns, PostFails(t)
  PROVE  ShownInv'
<1> DEFINE F == IF Open(t) THEN {t} ELSE {}
<1>t. /\ ChatTypeOK /\ turnStream \in [Turns -> Streams] /\ roomStream \in [Sessions -> Streams]
      /\ TabsOK /\ OneQuestion /\ F \subseteq Turns
  BY DEF ShownInv, ChatTypeOK, StreamsOK
<1>1. /\ post[t] = "flight" /\ post' = [post EXCEPT ![t] = "settled"]
      /\ tabs' = bumpDown(tabs, F)
      /\ turnStream' = stopTurns(turnStream, F)
      /\ turnKey' = forgetTurns(turnKey, F)
      /\ UNCHANGED <<roomStream, asked, hostVars, clean, whole>>
  BY <1>t, PostFailsIs
<1>f. \A u \in Turns : u # t => u \notin F
  OBVIOUS
<1> HIDE DEF F
<1>2. Draft \in Keys
  BY DEF Keys
<1>3. TabsOK' /\ OneQuestion' /\ \A kind, u : Shown(kind, u)' => Shown(kind, u)
  <2>1. Hello \in Frames /\ Hello.type \notin {"message", "end"}
    BY FramesOfTurns DEF Hello, Frame
  <2>2. Renders(tabs, Hello)
    BY <1>t, <1>2, <2>1, ReducedRenders
  <2>3. /\ TabsOK' /\ OneQuestion'
        /\ \A kind, u : Shown(kind, u)' =>
              \/ Shown(kind, u)
              \/ kind = "user" /\ Hello.type = "message" /\ Hello.turn = u
              \/ kind = "answer" /\ Hello.type = "end" /\ Hello.turn = u
    BY <1>t, <1>1, <2>1, <2>2, RenderedOnce
  <2> QED  BY <2>1, <2>3
<1>4. /\ turnStream' \in [Turns -> Streams]
      /\ \A u \in Turns : turnStream'[u].q = turnStream[u].q /\ (u # t => turnStream'[u] = turnStream[u])
  BY <1>t, <1>1, <1>f, Stopped
<1>5. StreamsOK' /\ QuietStep
  BY <1>t, <1>1, <1>4, QuietStreams DEF StreamsOK, QuietStep
<1>6. /\ turnKey' \in [Turns -> Keys \cup {None}]
      /\ \A u \in Turns : u # t => turnKey'[u] = turnKey[u]
  BY <1>t, <1>1, <1>f, Forgotten DEF ChatTypeOK, TurnsOK
<1>7. TurnsOK' /\ LaneOK' /\ LaneOnce'
  BY <1>t, <1>1, <1>6 DEF ShownInv, ChatTypeOK, TurnsOK, LaneOK, LaneOnce, hostVars
<1>8. NewsComesFrom
  BY <1>3, <1>5, QuietNews
<1>9. TurnsMoveOn
  BY <1>1, <1>4, <1>6, <1>t DEF TurnsMoveOn, hostVars, InLane, ChatTypeOK, TurnsOK
<1> QED  BY <1>3, <1>5, <1>7, <1>8, <1>9, ShownKept DEF ChatTypeOK

\* A turn joins the end of the lane.
LEMMA LaneAppended ==
  ASSUME lane \in Seq(Turns), LaneOnce, NEW t \in Turns, t \notin InLane, lane' = Append(lane, t)
  PROVE  lane' \in Seq(Turns) /\ LaneOnce' /\ InLane' = InLane \cup {t}
<1>1. /\ DOMAIN lane = 1 .. Len(lane) /\ DOMAIN lane' = 1 .. Len(lane) + 1 /\ Len(lane) \in Nat
      /\ lane' \in Seq(Turns) /\ lane'[Len(lane) + 1] = t
      /\ \A i \in 1 .. Len(lane) : lane'[i] = lane[i]
  BY AppendProperties, LenProperties
<1>2. \A i \in DOMAIN lane' : i \in DOMAIN lane \/ i = Len(lane) + 1
  BY <1>1
<1>3. InLane' = InLane \cup {t}
  BY <1>1, <1>2 DEF InLane
<1>4. LaneOnce'
  BY <1>1, <1>2 DEF LaneOnce, InLane
<1> QED  BY <1>1, <1>3, <1>4

LEMMA AcceptShown ==
  ASSUME ShownInv, NEW t \in Turns, NEW s, Accept(t, s),
         post[t] # "settled", post' = [post EXCEPT ![t] = "settled"],
         asked' \in [Turns -> Sessions \cup {None}], \A u \in Turns : u # t => asked'[u] = asked[u]
  PROVE  ShownInv'
<1>t. /\ ChatTypeOK /\ turnStream \in [Turns -> Streams] /\ roomStream \in [Sessions -> Streams]
      /\ TabsOK /\ OneQuestion /\ LaneOnce /\ lane \in Seq(Turns) /\ t \notin InLane
  BY DEF ShownInv, ChatTypeOK, StreamsOK, LaneOK, UnsettledIsUnheard
<1>1. /\ lane' = Append(lane, t) /\ Broadcast(s, t, Frame("message", t, None))
      /\ UNCHANGED <<tabs, turnKey, session, laneSession, ended, clean>>
      /\ whole' \subseteq whole \cup {p \in {<<t, s>>} : s \in Sessions}
  BY DEF Accept
<1> DEFINE e == Frame("message", t, None)
<1>2. e \in Frames /\ e.turn = t /\ e.type = "message"
  BY FramesOfTurns DEF Frame
<1> HIDE DEF e
<1>3. /\ StreamsOK'
      /\ \A u \in Turns : turnStream'[u] = IF u = t THEN Sent(turnStream[u], e) ELSE turnStream[u]
      /\ \A type, u : InFlight(type, u)' => InFlight(type, u) \/ (type = "message" /\ u = t)
  BY <1>t, <1>1, <1>2, Broadcasted DEF e, TurnTypes
<1>4. post'[t] = "settled" /\ \A u \in Turns : u # t => post'[u] = post[u]
  BY <1>t DEF ChatTypeOK, TurnsOK
<1>5. TabsOK' /\ OneQuestion' /\ \A kind, u : Shown(kind, u)' => Shown(kind, u)
  BY <1>t, <1>1, TabsSame
<1>6. TurnsOK'
  BY <1>t, <1>1 DEF ChatTypeOK, TurnsOK
<1>7. LaneOK' /\ LaneOnce' /\ InLane' = InLane \cup {t}
  BY <1>t, <1>1, LaneAppended DEF ChatTypeOK, LaneOK
<1>8. NewsComesFrom
  BY <1>3, <1>4, <1>5 DEF NewsComesFrom
<1>9. TurnsMoveOn
  <2>1. \A u \in Turns : post[u] = "settled" => post'[u] = "settled"
    BY <1>4
  <2>2. \A u \in Turns : post'[u] = "unsent" => u # t
    BY <1>4
  <2>3. ended' = ended /\ t \notin ended
    BY <1>1 DEF ShownInv, UnsettledIsUnheard
  <2> QED  BY <1>1, <1>3, <1>4, <1>7, <2>1, <2>2, <2>3 DEF TurnsMoveOn
<1> QED  BY <1>3, <1>5, <1>6, <1>7, <1>8, <1>9, ShownKept DEF ChatTypeOK

LEMMA ArrivalsShown ==
  ASSUME ShownInv,
         \/ \E t \in Turns : PostArrives(t)
         \/ \E t \in Turns, s \in Sessions : ForeignPost(t, s)
  PROVE  ShownInv'
<1>t. asked \in [Turns -> Sessions \cup {None}]
  BY DEF ShownInv, ChatTypeOK, TurnsOK
<1>1. ASSUME NEW t \in Turns, PostArrives(t) PROVE ShownInv'
  <2>1. /\ post[t] = "flight" /\ post' = [post EXCEPT ![t] = "settled"] /\ asked' = asked
        /\ Accept(t, RoomOf(t))
    BY <1>1 DEF PostArrives
  <2> QED  BY <1>t, <2>1, AcceptShown
<1>2. ASSUME NEW t \in Turns, NEW s \in Sessions, ForeignPost(t, s) PROVE ShownInv'
  <2>1. /\ post[t] = "unsent" /\ post' = [post EXCEPT ![t] = "settled"]
        /\ asked' = [asked EXCEPT ![t] = s] /\ Accept(t, s)
    BY <1>2 DEF ForeignPost, Fresh
  <2>2. asked' \in [Turns -> Sessions \cup {None}] /\ \A u \in Turns : u # t => asked'[u] = asked[u]
    BY <1>t, <2>1
  <2> QED  BY <2>1, <2>2, AcceptShown
<1> QED  BY <1>1, <1>2

LEMMA RunsInLane == ASSUME NEW t, Runs(t) PROVE t \in InLane
  BY DEF Runs, InLane

LEMMA ReportShown ==
  ASSUME ShownInv, NEW t \in Turns, Report(t)
  PROVE  ShownInv'
<1>t. ChatTypeOK /\ TabsOK /\ OneQuestion
  BY DEF ShownInv, ChatTypeOK
<1>1. PICK s \in Sessions : /\ session' = [session EXCEPT ![t] = s]
                            /\ laneSession' = IF asked[t] = None THEN s ELSE laneSession
                            /\ Broadcast(s, t, Frame("session", t, s))
  BY DEF Report
<1>2. /\ Runs(t) /\ UNCHANGED <<tabs, turnKey, post, asked, lane, ended, clean, whole>>
  BY DEF Report
<1> DEFINE e == Frame("session", t, s)
<1>3. e \in Frames /\ e.turn = t /\ e.type = "session"
  BY FramesOfTurns DEF Frame
<1> HIDE DEF e
<1>4. /\ StreamsOK'
      /\ \A u \in Turns : turnStream'[u] = IF u = t THEN Sent(turnStream[u], e) ELSE turnStream[u]
      /\ \A type, u : InFlight(type, u)' => InFlight(type, u) \/ (type = "session" /\ u = t)
  BY <1>t, <1>1, <1>3, Broadcasted DEF e, TurnTypes
<1>5. t \in InLane /\ post[t] = "settled"
  BY <1>2, RunsInLane DEF ShownInv, UnsettledIsUnheard
<1>6. TabsOK' /\ OneQuestion' /\ \A kind, u : Shown(kind, u)' => Shown(kind, u)
  BY <1>t, <1>2, TabsSame
<1>7. TurnsOK' /\ LaneOK' /\ LaneOnce'
  BY <1>t, <1>1, <1>2 DEF ShownInv, ChatTypeOK, TurnsOK, LaneOK, LaneOnce
<1>8. NewsComesFrom
  BY <1>4, <1>6 DEF NewsComesFrom
<1>9. TurnsMoveOn
  <2>1. \A u \in Turns : session'[u] = session[u] \/ u = t
    BY <1>t, <1>1 DEF ChatTypeOK, TurnsOK
  <2>2. InLane' = InLane /\ \A u \in ended : u \notin InLane
    BY <1>2 DEF InLane, ShownInv, LaneIsNotOver
  <2> QED  BY <1>2, <1>4, <1>5, <2>1, <2>2 DEF TurnsMoveOn
<1> QED  BY <1>4, <1>6, <1>7, <1>8, <1>9, ShownKept DEF ChatTypeOK

\* A turn leaves the lane, wherever in it.
LEMMA LaneShortened ==
  ASSUME lane \in Seq(Turns), LaneOnce, NEW i \in DOMAIN lane,
         lane' = SubSeq(lane, 1, i - 1) \o SubSeq(lane, i + 1, Len(lane))
  PROVE  lane' \in Seq(Turns) /\ LaneOnce' /\ InLane' = InLane \ {lane[i]}
<1> DEFINE a == SubSeq(lane, 1, i - 1)
           b == SubSeq(lane, i + 1, Len(lane))
           n == Len(lane)
           at(j) == IF j < i THEN j ELSE j + 1
<1>1. n \in Nat /\ DOMAIN lane = 1 .. n /\ i \in 1 .. n /\ \A j \in 1 .. n : lane[j] \in Turns
  BY LenProperties, ElementOfSeq
<1>2. /\ a \in Seq(Turns) /\ Len(a) = i - 1 /\ \A j \in 1 .. i - 1 : a[j] = lane[j]
  <2>1. \A j \in 1 .. i - 1 : lane[j] \in Turns
    BY <1>1
  <2>2. /\ a \in Seq(Turns) /\ Len(a) = IF 1 <= i - 1 THEN (i - 1) - 1 + 1 ELSE 0
        /\ \A j \in 1 .. (i - 1) - 1 + 1 : a[j] = lane[1 + j - 1]
    BY <1>1, <2>1, SubSeqProperties
  <2> HIDE DEF a
  <2> QED  BY <1>1, <2>2
<1>3. /\ b \in Seq(Turns) /\ Len(b) = n - i /\ \A j \in 1 .. n - i : b[j] = lane[i + j]
  <2>1. \A j \in i + 1 .. n : lane[j] \in Turns
    BY <1>1
  <2>2. /\ b \in Seq(Turns) /\ Len(b) = IF i + 1 <= n THEN n - (i + 1) + 1 ELSE 0
        /\ \A j \in 1 .. n - (i + 1) + 1 : b[j] = lane[(i + 1) + j - 1]
    BY <1>1, <2>1, SubSeqProperties
  <2> HIDE DEF b
  <2>3. \A j \in 1 .. n - i : j \in 1 .. n - (i + 1) + 1 /\ (i + 1) + j - 1 = i + j
    BY <1>1
  <2> QED  BY <1>1, <2>2, <2>3
<1> HIDE DEF a, b
<1>4. /\ lane' \in Seq(Turns) /\ Len(lane') = n - 1
      /\ \A j \in 1 .. n - 1 : lane'[j] = IF j <= i - 1 THEN a[j] ELSE b[j - (i - 1)]
  <2>1. lane' = a \o b
    BY DEF a, b
  <2>2. /\ a \o b \in Seq(Turns) /\ Len(a \o b) = Len(a) + Len(b)
        /\ \A j \in 1 .. Len(a) + Len(b) : (a \o b)[j] = IF j <= Len(a) THEN a[j] ELSE b[j - Len(a)]
    BY <1>2, <1>3, ConcatProperties
  <2>3. Len(a) + Len(b) = n - 1
    BY <1>1, <1>2, <1>3
  <2> QED  BY <1>2, <2>1, <2>2, <2>3
<1>5. DOMAIN lane' = 1 .. n - 1 /\ \A j \in 1 .. n - 1 : lane'[j] = lane[at(j)] /\ at(j) \in 1 .. n /\ at(j) # i
  <2>1. DOMAIN lane' = 1 .. n - 1
    BY <1>4, LenProperties
  <2>2. ASSUME NEW j \in 1 .. n - 1 PROVE lane'[j] = lane[at(j)] /\ at(j) \in 1 .. n /\ at(j) # i
    <3>1. CASE j < i
      BY <1>1, <1>2, <1>4, <3>1
    <3>2. CASE ~(j < i)
      <4>i. n \in Nat /\ i \in Nat /\ 1 <= i /\ i <= n /\ j \in Nat /\ 1 <= j /\ j <= n - 1 /\ i <= j
        BY <1>1, <3>2
      <4>1. j - (i - 1) \in 1 .. n - i /\ i + (j - (i - 1)) = j + 1 /\ ~(j <= i - 1)
        BY <4>i, SMT
      <4>2. lane'[j] = lane[j + 1]
        BY <1>3, <1>4, <4>1
      <4> QED  BY <1>1, <3>2, <4>2
    <3> QED  BY <3>1, <3>2
  <2> QED  BY <2>1, <2>2
<1>6. \A j \in 1 .. n : j # i => \E m \in 1 .. n - 1 : at(m) = j
  <2> SUFFICES ASSUME NEW j \in 1 .. n, j # i PROVE \E m \in 1 .. n - 1 : at(m) = j
    OBVIOUS
  <2>1. CASE j < i
    <3>1. j \in 1 .. n - 1 /\ at(j) = j
      BY <1>1, <2>1
    <3> QED  BY <3>1
  <2>2. CASE ~(j < i)
    <3>1. j - 1 \in 1 .. n - 1 /\ at(j - 1) = j
      BY <1>1, <2>2
    <3> QED  BY <3>1
  <2> QED  BY <2>1, <2>2
<1>7. \A j, m \in 1 .. n - 1 : at(j) = at(m) => j = m
  BY <1>1
<1> HIDE DEF at
<1>8. InLane' = InLane \ {lane[i]}
  <2>1. ASSUME NEW u \in InLane' PROVE u \in InLane /\ u # lane[i]
    <3>1. PICK j \in 1 .. n - 1 : u = lane'[j]
      BY <1>5 DEF InLane
    <3> QED  BY <1>1, <1>5, <3>1 DEF InLane, LaneOnce
  <2>2. ASSUME NEW u \in InLane, u # lane[i] PROVE u \in InLane'
    <3>1. PICK j \in 1 .. n : u = lane[j]
      BY <1>1 DEF InLane
    <3>2. PICK m \in 1 .. n - 1 : at(m) = j
      BY <1>6, <2>2, <3>1
    <3> QED  BY <1>5, <3>1, <3>2 DEF InLane
  <2> QED  BY <2>1, <2>2
<1>9. LaneOnce'
  <2> SUFFICES ASSUME NEW j \in 1 .. n - 1, NEW m \in 1 .. n - 1, lane'[j] = lane'[m]
               PROVE  j = m
    BY <1>5 DEF LaneOnce
  <2>1. lane[at(j)] = lane[at(m)] /\ at(j) \in DOMAIN lane /\ at(m) \in DOMAIN lane
    BY <1>1, <1>5
  <2>2. at(j) = at(m)
    BY <2>1 DEF LaneOnce
  <2> QED  BY <1>7, <2>2
<1> QED  BY <1>4, <1>8, <1>9

LEMMA EndShown ==
  ASSUME ShownInv, NEW t \in Turns, End(t)
  PROVE  ShownInv'
<1>t. ChatTypeOK /\ TabsOK /\ OneQuestion /\ LaneOnce /\ lane \in Seq(Turns)
  BY DEF ShownInv, ChatTypeOK, LaneOK
<1>1. /\ Runs(t) /\ ended' = ended \cup {t}
      /\ Broadcast(RoomOf(t), t, Frame("end", t, None))
      /\ laneSession' \in {laneSession, None}
      /\ UNCHANGED <<tabs, turnKey, post, asked, session, clean, whole>>
  BY DEF End
<1>2. PICK i \in DOMAIN lane : /\ lane[i] = t
                               /\ lane' = SubSeq(lane, 1, i - 1) \o SubSeq(lane, i + 1, Len(lane))
  BY DEF End
<1> DEFINE e == Frame("end", t, None)
<1>3. e \in Frames /\ e.turn = t /\ e.type = "end"
  BY FramesOfTurns DEF Frame
<1> HIDE DEF e
<1>4. /\ StreamsOK'
      /\ \A u \in Turns : turnStream'[u] = IF u = t THEN Sent(turnStream[u], e) ELSE turnStream[u]
      /\ \A type, u : InFlight(type, u)' => InFlight(type, u) \/ (type = "end" /\ u = t)
  BY <1>t, <1>1, <1>3, Broadcasted DEF e, TurnTypes
<1>5. t \in InLane /\ post[t] = "settled"
  BY <1>1, RunsInLane DEF ShownInv, UnsettledIsUnheard
<1>6. TabsOK' /\ OneQuestion' /\ \A kind, u : Shown(kind, u)' => Shown(kind, u)
  BY <1>t, <1>1, TabsSame
<1>7. lane' \in Seq(Turns) /\ LaneOnce' /\ InLane' = InLane \ {t}
  BY <1>t, <1>2, LaneShortened
<1>8. TurnsOK' /\ LaneOK'
  BY <1>t, <1>1, <1>7 DEF ChatTypeOK, TurnsOK, LaneOK
<1>9. NewsComesFrom
  BY <1>1, <1>4, <1>6 DEF NewsComesFrom
<1>10. TurnsMoveOn
  BY <1>1, <1>4, <1>5, <1>7 DEF TurnsMoveOn
<1> QED  BY <1>4, <1>6, <1>7, <1>8, <1>9, <1>10, ShownKept DEF ChatTypeOK

LEMMA RestartShown ==
  ASSUME ShownInv, Restart
  PROVE  ShownInv'
<1>t. /\ ChatTypeOK /\ turnStream \in [Turns -> Streams] /\ roomStream \in [Sessions -> Streams]
      /\ TabsOK /\ OneQuestion /\ InLane \subseteq Turns
  BY ElementOfSeq, LenProperties DEF ShownInv, ChatTypeOK, StreamsOK, LaneOK, InLane
<1>1. /\ ended' = ended \cup InLane /\ lane' = <<>> /\ laneSession' = None /\ whole' = {}
      /\ turnStream' = [t \in Turns |-> Dropped(turnStream[t])]
      /\ roomStream' = [s \in Sessions |-> Dropped(roomStream[s])]
      /\ UNCHANGED <<tabs, turnKey, post, asked, session, clean>>
  BY DEF Restart
<1>2. TabsOK' /\ OneQuestion' /\ \A kind, u : Shown(kind, u)' => Shown(kind, u)
  BY <1>t, <1>1, TabsSame
<1>3. StreamsOK' /\ QuietStep
  <2>1. \A st \in Streams : Dropped(st) \in Streams /\ Quieter(Dropped(st), st)
    BY DroppedIs, QuietStreams
  <2> QED  BY <1>t, <1>1, <2>1 DEF StreamsOK, QuietStep
<1>4. InLane' = {} /\ LaneOnce' /\ lane' \in Seq(Turns)
  <2>1. DOMAIN lane' = {} /\ lane' \in Seq(Turns)
    BY <1>1, EmptySeq, LenProperties
  <2> QED  BY <2>1 DEF InLane, LaneOnce
<1>5. TurnsOK' /\ LaneOK'
  BY <1>t, <1>1, <1>4 DEF ChatTypeOK, TurnsOK, LaneOK
<1>6. NewsComesFrom
  BY <1>2, <1>3, QuietNews
<1>7. TurnsMoveOn
  <2>1. \A u \in Turns : post[u] = "unsent" => turnStream'[u] = turnStream[u]
    BY <1>t, <1>1, SendersKnown, DroppedIs
  <2> QED  BY <1>1, <1>4, <2>1 DEF TurnsMoveOn
<1> QED  BY <1>2, <1>3, <1>4, <1>5, <1>6, <1>7, ShownKept DEF ChatTypeOK

LEMMA ShownInit == Init => ShownInv
<1> SUFFICES ASSUME Init PROVE ShownInv
  OBVIOUS
<1>1. /\ tabs \in Stores /\ \A k \in Keys : tabs[k] = None \/ tabs[k] = NewTab
  BY NewTabIs DEF Init, Stores
<1>2. /\ turnStream = [t \in Turns |-> NoStream] /\ roomStream = [s \in Sessions |-> NoStream]
      /\ turnKey = [t \in Turns |-> None] /\ post = [t \in Turns |-> "unsent"]
      /\ asked = [t \in Turns |-> None] /\ session = [t \in Turns |-> None]
      /\ lane = <<>> /\ laneSession = None /\ ended = {} /\ clean = TRUE /\ whole = {}
  BY DEF Init
<1>3. DOMAIN lane = {} /\ lane \in Seq(Turns)
  BY <1>2, EmptySeq, LenProperties
<1>4. ChatTypeOK
  <2>1. TabsOK /\ StreamsOK
    BY <1>1, <1>2, NewStreams DEF TabsOK, Stores, StreamsOK
  <2>2. TurnsOK
    BY <1>2 DEF TurnsOK
  <2>3. LaneOK
    BY <1>2, <1>3 DEF LaneOK
  <2> QED  BY <2>1, <2>2, <2>3 DEF ChatTypeOK
<1>5. AskedOnce(NewTab) /\ \A kind, t : ~Holds(NewTab, kind, t)
  BY NewTabIs DEF AskedOnce, Holds
<1>6. \A kind, t : ~Shown(kind, t)
  BY <1>1, <1>5 DEF Shown, IsTab
<1>7. \A type, t : ~InFlight(type, t)
  BY <1>2, NewStreams DEF InFlight, Carries
<1>8. InLane = {} /\ LaneOnce /\ LaneIsNotOver
  BY <1>2, <1>3 DEF InLane, LaneOnce, LaneIsNotOver
<1>9. OneQuestion
  BY <1>1, <1>5 DEF OneQuestion, IsTab
<1>10. UnsentIsUnknown /\ UnsettledIsUnheard /\ OpenIsUnanswered
  BY <1>2, <1>6, <1>7, <1>8 DEF UnsentIsUnknown, UnsettledIsUnheard, OpenIsUnanswered
<1> QED  BY <1>4, <1>8, <1>9, <1>10 DEF ShownInv

LEMMA ShownStutters == ShownInv /\ UNCHANGED vars => ShownInv'
  BY DEF vars, clientVars, hostVars, bounds, ShownInv, ChatTypeOK, TabsOK, StreamsOK, TurnsOK, LaneOK,
         UnsentIsUnknown, UnsettledIsUnheard, OpenIsUnanswered, LaneOnce, LaneIsNotOver, OneQuestion,
         InFlight, Shown, InLane, IsTab

LEMMA ShownNext == ShownInv /\ Next => ShownInv'
  BY StreamsShown, TabsShown, TurnFrameShown, RoomFrameShown, PromotionShown, SendShown,
     PostFailsShown, ArrivalsShown, ReportShown, EndShown, RestartShown DEF Next, Deliver

LEMMA ShownInvAlways == Spec => []ShownInv
<1>1. ShownInv /\ [Next]_vars => ShownInv'
  BY ShownStutters, ShownNext
<1> QED  BY ShownInit, <1>1, PTL DEF Spec

\* Type correctness: the tabs, the streams with every frame in flight on them, and
\* the host's lane, through every promotion, retry and restart.
THEOREM TypeCorrect == Spec => []ChatTypeOK
  BY ShownInvAlways, PTL DEF ShownInv

\* A question is shown once in every tab, whichever of the optimistic entry and
\* the two echoes comes first, and wherever the tab moves.
THEOREM QuestionsShownOnce == Spec => []QuestionShownOnce
<1>1. ShownInv => QuestionShownOnce
  <2> SUFFICES ASSUME ShownInv, NEW k \in Keys, NEW t \in Turns, IsTab(k)
               PROVE  Cardinality(Shows(k, "user", t)) <= 1
    BY DEF QuestionShownOnce
  <2>1. \A i, j \in Shows(k, "user", t) : i = j
    BY DEF ShownInv, OneQuestion, AskedOnce, Shows
  <2>2. CASE Shows(k, "user", t) = {}
    BY <2>2, FS_EmptySet
  <2>3. CASE Shows(k, "user", t) # {}
    <3>1. PICK i : Shows(k, "user", t) = {i}
      BY <2>1, <2>3
    <3>2. Cardinality(Shows(k, "user", t)) = 1
      BY <3>1, FS_Singleton
    <3> QED  BY <3>2
  <2> QED  BY <2>2, <2>3
<1> QED  BY <1>1, ShownInvAlways, PTL
-----------------------------------------------------------------------------
(* A turn's own stream and the turn's key.                                 *)

Has(q, type) == \E i \in DOMAIN q : q[i].type = type

\* A stream brings a session once, before any end and before it has closed.
Ordered(q) ==
    /\ \A i, j \in DOMAIN q : q[i].type = "session" /\ q[j].type = "session" => i = j
    /\ \A i, j \in DOMAIN q : q[i].type = "session" /\ q[j].type \in {"end", "closed"} => i < j

\* The stream st of the turn t, which has reported the session sn.
Orderly(st, t, sn) ==
    /\ Ordered(st.q)
    /\ Has(st.q, "session") => sn # None
    /\ Has(st.q, "closed") => st.up \in {"dropped", "stopped"}
    /\ \A i \in DOMAIN st.q : st.q[i].type \in {"session", "end"} => st.q[i].turn = t

SessionComesOnce == \A t \in Turns : Orderly(turnStream[t], t, session[t])

\* A turn that is open has a key, the draft's until its session is known; one
\* that has yet to promote the draft is open in it, or the draft is gone.
KeyIsKnown(t) ==
    /\ Open(t) => turnKey[t] # None
    /\ asked[t] # None => turnKey[t] # Draft
    /\ Open(t) /\ asked[t] = None /\ session[t] = None => turnKey[t] = Draft
    /\ asked[t] = None /\ Has(turnStream[t].q, "session") =>
          turnKey[t] = Draft /\ (Open(t) \/ ~IsTab(Draft))

OpenHasKey == \A t \in Turns : KeyIsKnown(t)

OpenIn(k) == {t \in Turns : Open(t) /\ turnKey[t] = k}

\* A turn that is open has a tab, and the draft one such turn at most.
OpenHasTab ==
    clean => /\ \A k \in Keys : OpenIn(k) # {} => IsTab(k)
             /\ \A t, u \in OpenIn(Draft) : t = u

BusyInv == SessionComesOnce /\ OpenHasKey /\ OpenHasTab /\ BusyWithOpenTurns

LEMMA OrderlyEmpty == ASSUME NEW st, st.q = <<>>, NEW t, NEW sn PROVE Orderly(st, t, sn)
  BY DEF Orderly, Ordered, Has

LEMMA OrderlySame ==
  ASSUME NEW st, NEW new, NEW t, NEW sn, Orderly(st, t, sn), new.q = st.q, new.up \in {st.up, "stopped"}
  PROVE  Orderly(new, t, sn)
  BY DEF Orderly, Ordered

LEMMA OrderlyTail ==
  ASSUME NEW st \in Streams, NEW new, NEW t, NEW sn, Orderly(st, t, sn),
         st.q # <<>>, new.q = Tail(st.q), new.up \in {st.up, "stopped"}
  PROVE  /\ Orderly(new, t, sn)
         /\ \A type : Has(new.q, type) => Has(st.q, type)
         /\ Head(st.q).type \in {"session", "end", "closed"} => ~Has(new.q, "session")
<1> DEFINE q == st.q
           r == Tail(q)
           n == Len(q)
<1>1. /\ Head(q) = q[1] /\ n \in Nat /\ n >= 1 /\ DOMAIN q = 1 .. n /\ DOMAIN r = 1 .. n - 1
      /\ \A i \in 1 .. n - 1 : r[i] = q[i + 1]
  <2>1. q \in Seq(Frames)
    BY StreamParts
  <2> QED  BY <2>1, TailIs
<1>2. \A i \in DOMAIN r : i + 1 \in DOMAIN q /\ r[i] = q[i + 1] /\ i \in Nat /\ 1 < i + 1
  BY <1>1
<1>3. 1 \in DOMAIN q /\ Ordered(q)
  BY <1>1 DEF Orderly
<1> HIDE DEF n, r
<1>4. \A type : Has(r, type) => Has(q, type)
  BY <1>2 DEF Has
<1>5. Ordered(r)
  <2>1. ASSUME NEW i \in DOMAIN r, NEW j \in DOMAIN r, r[i].type = "session", r[j].type = "session"
        PROVE  i = j
    <3>1. i + 1 = j + 1
      BY <1>2, <1>3, <2>1 DEF Ordered
    <3> QED  BY <1>2, <3>1
  <2>2. ASSUME NEW i \in DOMAIN r, NEW j \in DOMAIN r, r[i].type = "session",
               r[j].type \in {"end", "closed"}
        PROVE  i < j
    <3>1. i + 1 < j + 1
      BY <1>2, <1>3, <2>2 DEF Ordered
    <3> QED  BY <1>2, <3>1
  <2> QED  BY <2>1, <2>2 DEF Ordered
<1>6. \A i \in DOMAIN r : r[i].type \in {"session", "end"} => r[i].turn = t
  BY <1>2 DEF Orderly
<1>7. q[1].type \in {"session", "end", "closed"} => ~Has(r, "session")
  <2> SUFFICES ASSUME NEW i \in DOMAIN r, r[i].type = "session",
                      q[1].type \in {"session", "end", "closed"}
               PROVE  FALSE
    BY DEF Has
  <2>1. i + 1 = 1 \/ i + 1 < 1
    BY <1>2, <1>3 DEF Ordered
  <2> QED  BY <1>2, <2>1
<1>8. new.q = r /\ Orderly(new, t, sn)
  BY <1>4, <1>5, <1>6 DEF Orderly, r
<1> QED  BY <1>1, <1>4, <1>7, <1>8 DEF q

\* A frame is added, which is the first session, or any end, or neither.
LEMMA OrderlyMore ==
  ASSUME NEW st \in Streams, NEW new, NEW t, NEW sn, NEW sn1, NEW e \in Frames, Orderly(st, t, sn),
         sn # None => sn1 # None,
         new.q = Append(st.q, e), st.up \in {"live", "connecting"},
         e.type = "closed" => new.up = "dropped",
         e.type \in {"session", "end"} => e.turn = t,
         e.type = "session" => sn1 # None /\ sn = None /\ ~Carries(st.q, "end", t)
  PROVE  /\ Orderly(new, t, sn1)
         /\ Has(new.q, "session") => Has(st.q, "session") \/ e.type = "session"
<1> DEFINE q == st.q
           r == Append(q, e)
           n == Len(q)
<1>1. /\ n \in Nat /\ DOMAIN q = 1 .. n /\ DOMAIN r = 1 .. n + 1
      /\ \A i \in 1 .. n : r[i] = q[i]
      /\ r[n + 1] = e
  <2>1. q \in Seq(Frames)
    BY StreamParts
  <2> QED  BY <2>1, AppendIs
<1>2. \A i \in DOMAIN r : \/ i \in DOMAIN q /\ r[i] = q[i] /\ i < n + 1
                          \/ i = n + 1 /\ r[i] = e
  BY <1>1
<1>3. Ordered(q) /\ ~Has(q, "closed") /\ (Has(q, "session") => sn # None)
  BY DEF Orderly
<1>4. e.type = "session" => \A i \in DOMAIN q : q[i].type \notin {"session", "end", "closed"}
  BY <1>3 DEF Has, Orderly, Carries
<1> HIDE DEF n, r
<1>5. Ordered(r)
  BY <1>2, <1>3, <1>4 DEF Ordered
<1>6. \A type : Has(r, type) => Has(q, type) \/ e.type = type
  BY <1>2 DEF Has
<1>7. \A i \in DOMAIN r : r[i].type \in {"session", "end"} => r[i].turn = t
  BY <1>2 DEF Orderly
<1>8. new.q = r
  BY DEF r
<1>9. Has(r, "closed") => new.up = "dropped"
  BY <1>3, <1>6
<1>10. Has(r, "session") => sn1 # None
  BY <1>3, <1>6
<1> QED  BY <1>5, <1>6, <1>7, <1>8, <1>9, <1>10 DEF Orderly

LEMMA OrderlyDropped ==
  ASSUME NEW st \in Streams, NEW t, NEW sn, Orderly(st, t, sn)
  PROVE  /\ Orderly(Dropped(st), t, sn)
         /\ Has(Dropped(st).q, "session") => Has(st.q, "session")
         /\ Dropped(st).up \in {"none", "stopped"} <=> st.up \in {"none", "stopped"}
<1>1. CASE st.up \notin {"live", "connecting"}
  BY <1>1, DroppedIs
<1>2. CASE st.up \in {"live", "connecting"}
  <2>1. Closed \in Frames /\ Closed.type = "closed"
    BY FramesOfTurns DEF Closed, Frame
  <2>2. Dropped(st).up = "dropped" /\ Dropped(st).q = Append(st.q, Closed)
    BY <1>2, DroppedIs
  <2>3. /\ Orderly(Dropped(st), t, sn)
        /\ Has(Dropped(st).q, "session") => Has(st.q, "session") \/ Closed.type = "session"
    BY <1>2, <2>1, <2>2, OrderlyMore
  <2> QED  BY <1>2, <2>1, <2>2, <2>3
<1> QED  BY <1>1, <1>2

LEMMA OrderlySent ==
  ASSUME NEW st \in Streams, NEW t, NEW sn, Orderly(st, t, sn), NEW e \in Frames,
         e.type \in {"message", "end"}, e.turn = t
  PROVE  /\ Orderly(Sent(st, e), t, sn) /\ Sent(st, e).up = st.up
         /\ Has(Sent(st, e).q, "session") => Has(st.q, "session")
<1>1. CASE st.up # "live"
  BY <1>1, SentTo
<1>2. CASE st.up = "live"
  <2>1. Sent(st, e).up = st.up /\ Sent(st, e).q = Append(st.q, e)
    BY <1>2, SentTo
  <2> QED  BY <1>2, <2>1, OrderlyMore
<1> QED  BY <1>1, <1>2
-----------------------------------------------------------------------------
(* The busy count of a tab.                                                *)

LEMMA OpenInIsFinite ==
  ASSUME NEW k PROVE IsFiniteSet(OpenIn(k)) /\ Cardinality(OpenIn(k)) \in Nat /\ OpenIn(k) \subseteq Turns
<1>1. IsFiniteSet(Turns)
  BY FS_Interval DEF Turns
<1>2. OpenIn(k) \subseteq Turns
  BY DEF OpenIn
<1> QED  BY <1>1, <1>2, FS_Subset, FS_CardinalityType

LEMMA BusyMeans ==
  BusyWithOpenTurns <=>
    (clean => \A k \in Keys : tabs[k] # None => tabs[k].openTurns = Cardinality(OpenIn(k)))
  BY DEF BusyWithOpenTurns, OpenIn, IsTab

LEMMA BusyMeansNext ==
  BusyWithOpenTurns' <=>
    (clean' => \A k \in Keys : tabs'[k] # None => tabs'[k].openTurns = Cardinality(OpenIn(k)'))
  BY DEF BusyWithOpenTurns, OpenIn, IsTab

\* No tab comes or goes, and no turn opens, closes or moves.
LEMMA BusyKept ==
  ASSUME OpenHasTab, BusyWithOpenTurns, clean' => clean,
         \A k \in Keys : /\ tabs'[k] = None <=> tabs[k] = None
                         /\ tabs[k] # None => tabs'[k].openTurns = tabs[k].openTurns
                         /\ OpenIn(k)' = OpenIn(k)
  PROVE  OpenHasTab' /\ BusyWithOpenTurns'
<1>1. OpenHasTab'
  BY DEF OpenHasTab, IsTab, Keys
<1>2. BusyWithOpenTurns'
  BY BusyMeans, BusyMeansNext
<1> QED  BY <1>1, <1>2

\* The open turns of F are closed out, and counted down.
LEMMA BusyClosedOut ==
  ASSUME OpenHasTab, BusyWithOpenTurns, clean' => clean,
         NEW store \in Stores, NEW F, F \subseteq {t \in Turns : Open(t)},
         tabs' = bumpDown(store, F),
         \A k \in Keys : /\ store[k] = None <=> tabs[k] = None
                         /\ tabs[k] # None => store[k].openTurns = tabs[k].openTurns
                         /\ OpenIn(k)' = OpenIn(k) \ F
  PROVE  OpenHasTab' /\ BusyWithOpenTurns'
<1>1. \A k \in Keys :
        /\ tabs'[k] = None <=> store[k] = None
        /\ store[k] # None /\ Cardinality(Under(F, k)) <= store[k].openTurns =>
              tabs'[k].openTurns = store[k].openTurns - Cardinality(Under(F, k))
  BY BumpDownStore
<1>2. OpenHasTab'
  BY <1>1 DEF OpenHasTab, IsTab, Keys
<1>3. ASSUME clean, NEW k \in Keys, tabs'[k] # None
      PROVE  tabs'[k].openTurns = Cardinality(OpenIn(k) \ F)
  <2> DEFINE all == Cardinality(OpenIn(k))
             out == Cardinality(Under(F, k))
             rest == Cardinality(OpenIn(k) \ F)
  <2>1. IsFiniteSet(OpenIn(k)) /\ all \in Nat
    BY OpenInIsFinite
  <2>2. OpenIn(k) \cap F = Under(F, k)
    BY DEF OpenIn, Under
  <2>3. out \in Nat /\ rest = all - out
    <3>1. /\ IsFiniteSet(OpenIn(k) \ F)
          /\ Cardinality(OpenIn(k) \ F) = Cardinality(OpenIn(k)) - Cardinality(OpenIn(k) \cap F)
      BY <2>1, FS_Difference
    <3>2. out \in Nat
      BY UnderIsFinite
    <3> QED  BY <2>2, <3>1, <3>2
  <2>4. rest \in Nat
    <3>1. IsFiniteSet(OpenIn(k) \ F)
      BY <2>1, FS_Subset
    <3> QED  BY <3>1, FS_CardinalityType
  <2>5. tabs[k] # None /\ store[k] # None /\ store[k].openTurns = all
    BY <1>1, <1>3, BusyMeans
  <2> HIDE DEF all, out, rest
  <2>6. out <= all
    BY <2>1, <2>3, <2>4
  <2>7. tabs'[k].openTurns = all - out
    BY <1>1, <2>5, <2>6 DEF out
  <2> QED  BY <2>3, <2>7 DEF rest
<1>4. clean' => \A k \in Keys : tabs'[k] # None => tabs'[k].openTurns = Cardinality(OpenIn(k)')
  <2> SUFFICES ASSUME clean', NEW k \in Keys, tabs'[k] # None
               PROVE  tabs'[k].openTurns = Cardinality(OpenIn(k)')
    OBVIOUS
  <2>1. tabs'[k].openTurns = Cardinality(OpenIn(k) \ F)
    BY <1>3
  <2>2. OpenIn(k)' = OpenIn(k) \ F
    OBVIOUS
  <2> QED  BY <2>1, <2>2
<1>5. BusyWithOpenTurns'
  BY <1>4, BusyMeansNext
<1> QED  BY <1>2, <1>5

\* What may happen to a turn that a step is not about.
Unmoved(t) ==
    /\ Open(t)' <=> Open(t)
    /\ turnKey'[t] = turnKey[t] /\ asked'[t] = asked[t] /\ session'[t] = session[t]
    /\ Has(turnStream[t].q, "session")' => Has(turnStream[t].q, "session")

LEMMA UnmovedKnown ==
  ASSUME OpenHasKey, NEW t \in Turns, Unmoved(t), tabs[Draft] = None => tabs'[Draft] = None
  PROVE  KeyIsKnown(t)'
<1>1. KeyIsKnown(t)
  BY DEF OpenHasKey
<1> QED  BY <1>1 DEF KeyIsKnown, Unmoved, IsTab

LEMMA UnmovedOpenIn ==
  ASSUME \A t \in Turns : Unmoved(t) PROVE \A k : OpenIn(k)' = OpenIn(k)
  BY DEF Unmoved, OpenIn

\* Steps that open, close and move no turn, and open and close no tab.
LEMMA BusyQuiet ==
  ASSUME BusyInv, SessionComesOnce', \A t \in Turns : Unmoved(t), clean' => clean,
         \A k \in Keys : /\ tabs'[k] = None <=> tabs[k] = None
                         /\ tabs[k] # None => tabs'[k].openTurns = tabs[k].openTurns
  PROVE  BusyInv'
<1>1. OpenHasKey'
  <2> SUFFICES ASSUME NEW t \in Turns PROVE KeyIsKnown(t)'
    BY DEF OpenHasKey
  <2> QED  BY UnmovedKnown DEF BusyInv, Keys
<1>2. OpenHasTab' /\ BusyWithOpenTurns'
  BY UnmovedOpenIn, BusyKept DEF BusyInv
<1> QED  BY <1>1, <1>2 DEF BusyInv

\* The stream of a turn that stays as it was.
LEMMA UnmovedStream ==
  ASSUME BusyInv, NEW t \in Turns, turnStream'[t].q = turnStream[t].q,
         turnStream'[t].up = turnStream[t].up, session'[t] = session[t]
  PROVE  /\ Orderly(turnStream[t], t, session[t])'
         /\ Open(t)' <=> Open(t)
         /\ Has(turnStream[t].q, "session")' => Has(turnStream[t].q, "session")
<1>1. Orderly(turnStream[t], t, session[t])
  BY DEF BusyInv, SessionComesOnce
<1> QED  BY <1>1, OrderlySame DEF Open
-----------------------------------------------------------------------------
(* A tab stays busy with its open turns: one lemma per kind of step.       *)

LEMMA BusySubscribed ==
  ASSUME ShownInv, BusyInv, NEW t \in Turns, TurnSubscribed(t)
  PROVE  BusyInv'
<1>1. /\ turnStream[t].up = "connecting"
      /\ turnStream' = [turnStream EXCEPT ![t] = Stream("live", <<>>)]
      /\ UNCHANGED <<tabs, turnKey, asked, session, clean>>
  BY DEF TurnSubscribed, hostVars
<1>2. \A u \in Turns : turnStream'[u] = IF u = t THEN Stream("live", <<>>) ELSE turnStream[u]
  BY <1>1 DEF ShownInv, ChatTypeOK, StreamsOK
<1>3. Stream("live", <<>>).up = "live" /\ Stream("live", <<>>).q = <<>>
  BY DEF Stream
<1>4. ASSUME NEW u \in Turns PROVE Unmoved(u) /\ Orderly(turnStream[u], u, session[u])'
  <2>1. CASE u # t
    BY <1>1, <1>2, <2>1, UnmovedStream DEF Unmoved
  <2>2. CASE u = t
    <3>1. Orderly(turnStream[u], u, session[u])'
      BY <1>2, <1>3, <2>2, OrderlyEmpty
    <3>2. Unmoved(u)
      BY <1>1, <1>2, <1>3, <2>2 DEF Unmoved, Open, Has
    <3> QED  BY <3>1, <3>2
  <2> QED  BY <2>1, <2>2
<1>5. SessionComesOnce'
  BY <1>4 DEF SessionComesOnce
<1> QED  BY <1>1, <1>4, <1>5, BusyQuiet

\* Steps that touch no turn and no tab.
LEMMA BusyIdle ==
  ASSUME BusyInv, UNCHANGED <<tabs, turnKey, turnStream, asked, session, clean>>
  PROVE  BusyInv'
<1>1. \A u \in Turns : Unmoved(u) /\ Orderly(turnStream[u], u, session[u])'
  BY UnmovedStream DEF Unmoved
<1>2. SessionComesOnce'
  BY <1>1 DEF SessionComesOnce
<1> QED  BY <1>1, <1>2, BusyQuiet

LEMMA BusyDropped ==
  ASSUME ShownInv, BusyInv, StreamDrops \/ Restart
  PROVE  BusyInv'
<1>1. /\ UNCHANGED <<tabs, turnKey, asked, session, clean>>
      /\ \A u \in Turns : turnStream'[u] = turnStream[u] \/ turnStream'[u] = Dropped(turnStream[u])
  <2>1. CASE StreamDrops
    BY <2>1 DEF StreamDrops, hostVars, ShownInv, ChatTypeOK, StreamsOK
  <2>2. CASE Restart
    BY <2>2 DEF Restart
  <2> QED  BY <2>1, <2>2
<1>2. ASSUME NEW u \in Turns PROVE Unmoved(u) /\ Orderly(turnStream[u], u, session[u])'
  <2>1. CASE turnStream'[u] = turnStream[u]
    BY <1>1, <2>1, UnmovedStream DEF Unmoved
  <2>2. CASE turnStream'[u] = Dropped(turnStream[u])
    <3>1. turnStream[u] \in Streams /\ Orderly(turnStream[u], u, session[u])
      BY DEF ShownInv, ChatTypeOK, StreamsOK, BusyInv, SessionComesOnce
    <3>2. /\ Orderly(turnStream'[u], u, session[u])
          /\ Has(turnStream'[u].q, "session") => Has(turnStream[u].q, "session")
          /\ turnStream'[u].up \in {"none", "stopped"} <=> turnStream[u].up \in {"none", "stopped"}
      BY <2>2, <3>1, OrderlyDropped
    <3> QED  BY <1>1, <3>2 DEF Unmoved, Open
  <2> QED  BY <1>1, <2>1, <2>2
<1>3. SessionComesOnce'
  BY <1>2 DEF SessionComesOnce
<1> QED  BY <1>1, <1>2, <1>3, BusyQuiet

\* What the host sends of a question or an end moves no turn.
LEMMA BusySent ==
  ASSUME ShownInv, BusyInv, NEW t \in Turns, NEW s, NEW e \in Frames,
         e.turn = t, e.type \in {"message", "end"}, Broadcast(s, t, e), session' = session
  PROVE  /\ SessionComesOnce'
         /\ \A u \in Turns : /\ Open(u)' <=> Open(u)
                             /\ Has(turnStream[u].q, "session")' => Has(turnStream[u].q, "session")
<1>1. \A u \in Turns : turnStream'[u] = IF u = t THEN Sent(turnStream[u], e) ELSE turnStream[u]
  BY Broadcasted DEF ShownInv, TurnTypes
<1>2. ASSUME NEW u \in Turns
      PROVE  /\ Orderly(turnStream[u], u, session[u])'
             /\ Open(u)' <=> Open(u)
             /\ Has(turnStream[u].q, "session")' => Has(turnStream[u].q, "session")
  <2>1. CASE u # t
    BY <1>1, <2>1, UnmovedStream
  <2>2. CASE u = t
    <3>1. turnStream[u] \in Streams /\ Orderly(turnStream[u], u, session[u])
      BY DEF ShownInv, ChatTypeOK, StreamsOK, BusyInv, SessionComesOnce
    <3>2. /\ Orderly(turnStream'[u], u, session[u]) /\ turnStream'[u].up = turnStream[u].up
          /\ Has(turnStream'[u].q, "session") => Has(turnStream[u].q, "session")
      BY <1>1, <2>2, <3>1, OrderlySent
    <3> QED  BY <3>2 DEF Open
  <2> QED  BY <2>1, <2>2
<1>3. SessionComesOnce'
  BY <1>2 DEF SessionComesOnce
<1> QED  BY <1>2, <1>3

LEMMA BusyAnswered ==
  ASSUME ShownInv, BusyInv, NEW t \in Turns, PostArrives(t) \/ End(t)
  PROVE  BusyInv'
<1>1. \E s : \E e \in Frames : e.turn = t /\ e.type \in {"message", "end"} /\ Broadcast(s, t, e)
  <2>1. CASE PostArrives(t)
    <3>1. Broadcast(RoomOf(t), t, Frame("message", t, None))
      BY <2>1 DEF PostArrives, Accept
    <3>2. Frame("message", t, None).turn = t /\ Frame("message", t, None).type = "message"
      BY DEF Frame
    <3> QED  BY <3>1, <3>2, FramesOfTurns
  <2>2. CASE End(t)
    <3>1. Broadcast(RoomOf(t), t, Frame("end", t, None))
      BY <2>2 DEF End
    <3>2. Frame("end", t, None).turn = t /\ Frame("end", t, None).type = "end"
      BY DEF Frame
    <3> QED  BY <3>1, <3>2, FramesOfTurns
  <2> QED  BY <2>1, <2>2
<1>2. PICK s : \E e \in Frames : e.turn = t /\ e.type \in {"message", "end"} /\ Broadcast(s, t, e)
  BY <1>1
<1>e. PICK e \in Frames : e.turn = t /\ e.type \in {"message", "end"} /\ Broadcast(s, t, e)
  BY <1>2
<1>3. UNCHANGED <<tabs, turnKey, asked, session, clean>>
  BY DEF PostArrives, Accept, End
<1>4. /\ SessionComesOnce'
      /\ \A u \in Turns : /\ Open(u)' <=> Open(u)
                          /\ Has(turnStream[u].q, "session")' => Has(turnStream[u].q, "session")
  BY <1>e, <1>3, BusySent
<1>5. \A u \in Turns : Unmoved(u)
  BY <1>3, <1>4 DEF Unmoved
<1> QED  BY <1>3, <1>4, <1>5, BusyQuiet

\* The turn of another operator has no stream and no key here.
LEMMA BusyForeign ==
  ASSUME ShownInv, BusyInv, NEW t \in Turns, NEW s \in Sessions, ForeignPost(t, s)
  PROVE  BusyInv'
<1>1. /\ post[t] = "unsent" /\ asked' = [asked EXCEPT ![t] = s]
      /\ Broadcast(s, t, Frame("message", t, None))
      /\ UNCHANGED <<tabs, turnKey, session, clean>>
  BY DEF ForeignPost, Fresh, Accept
<1> DEFINE e == Frame("message", t, None)
<1>2. e \in Frames /\ e.turn = t /\ e.type = "message"
  BY FramesOfTurns DEF Frame
<1> HIDE DEF e
<1>3. Broadcast(s, t, e)
  BY <1>1 DEF e
<1>4. /\ SessionComesOnce'
      /\ \A u \in Turns : /\ Open(u)' <=> Open(u)
                          /\ Has(turnStream[u].q, "session")' => Has(turnStream[u].q, "session")
  BY <1>1, <1>2, <1>3, BusySent
<1>5. /\ turnStream[t].up = "none" /\ turnStream[t].q = <<>> /\ turnKey[t] = None
      /\ asked \in [Turns -> Sessions \cup {None}]
  BY <1>1, SendersKnown DEF ShownInv, ChatTypeOK, TurnsOK
<1>6. OpenHasKey'
  <2> SUFFICES ASSUME NEW u \in Turns PROVE KeyIsKnown(u)'
    BY DEF OpenHasKey
  <2>1. CASE u # t
    <3>1. Unmoved(u)
      BY <1>1, <1>4, <1>5, <2>1 DEF Unmoved
    <3> QED  BY <1>1, <3>1, UnmovedKnown DEF BusyInv
  <2>2. CASE u = t
    <3>1. ~Open(u)' /\ turnKey'[u] = None /\ asked'[u] = s
      BY <1>1, <1>4, <1>5, <2>2 DEF Open
    <3>2. s # None /\ Draft # None
      BY DEF Keys
    <3> QED  BY <3>1, <3>2 DEF KeyIsKnown
  <2> QED  BY <2>1, <2>2
<1>7. \A k : OpenIn(k)' = OpenIn(k)
  BY <1>1, <1>4 DEF OpenIn
<1>8. OpenHasTab' /\ BusyWithOpenTurns'
  BY <1>1, <1>7, BusyKept DEF BusyInv
<1> QED  BY <1>4, <1>6, <1>8 DEF BusyInv

\* The first word of a session, to a stream that is up.
LEMMA BusyReported ==
  ASSUME ShownInv, BusyInv, NEW t \in Turns, Report(t)
  PROVE  BusyInv'
<1>1. PICK s \in Sessions : /\ session' = [session EXCEPT ![t] = s]
                            /\ Broadcast(s, t, Frame("session", t, s))
  BY DEF Report
<1>2. /\ Runs(t) /\ session[t] = None
      /\ UNCHANGED <<tabs, turnKey, asked, clean>>
  BY DEF Report
<1> DEFINE e == Frame("session", t, s)
<1>3. e \in Frames /\ e.turn = t /\ e.type = "session"
  BY FramesOfTurns DEF Frame
<1> HIDE DEF e
<1>4. \A u \in Turns : turnStream'[u] = IF u = t THEN Sent(turnStream[u], e) ELSE turnStream[u]
  BY <1>1, <1>3, Broadcasted DEF ShownInv, TurnTypes, e
<1>5. /\ session \in [Turns -> Sessions \cup {None}] /\ s # None
      /\ \A u \in Turns : session'[u] = IF u = t THEN s ELSE session[u]
  BY <1>1 DEF ShownInv, ChatTypeOK, TurnsOK, Keys
<1>6. turnStream[t] \in Streams /\ Orderly(turnStream[t], t, session[t]) /\ KeyIsKnown(t)
  BY DEF ShownInv, ChatTypeOK, StreamsOK, BusyInv, SessionComesOnce, OpenHasKey
<1>7. ~Carries(turnStream[t].q, "end", t)
  <2>1. t \notin ended
    BY <1>2, RunsInLane DEF ShownInv, LaneIsNotOver
  <2> QED  BY <2>1 DEF ShownInv, OpenIsUnanswered, InFlight
<1>8. /\ Orderly(turnStream'[t], t, s)
      /\ turnStream'[t].up = turnStream[t].up
      /\ Has(turnStream'[t].q, "session") => turnStream[t].up = "live"
  <2>1. CASE turnStream[t].up = "live"
    <3>1. turnStream'[t].up = turnStream[t].up /\ turnStream'[t].q = Append(turnStream[t].q, e)
      BY <1>3, <1>4, <1>6, <2>1, SentTo
    <3>2. Orderly(turnStream'[t], t, s)
      BY <1>2, <1>3, <1>5, <1>6, <1>7, <2>1, <3>1, OrderlyMore
    <3> QED  BY <2>1, <3>1, <3>2
  <2>2. CASE turnStream[t].up # "live"
    <3>1. turnStream'[t] = turnStream[t]
      BY <1>3, <1>4, <1>6, <2>2, SentTo
    <3>2. ~Has(turnStream[t].q, "session")
      BY <1>2, <1>6 DEF Orderly
    <3> QED  BY <1>5, <1>6, <3>1, <3>2 DEF Orderly
  <2> QED  BY <2>1, <2>2
<1>9. SessionComesOnce'
  <2> SUFFICES ASSUME NEW u \in Turns PROVE Orderly(turnStream[u], u, session[u])'
    BY DEF SessionComesOnce
  <2>1. CASE u = t
    BY <1>5, <1>8, <2>1
  <2>2. CASE u # t
    BY <1>4, <1>5, <2>2, UnmovedStream
  <2> QED  BY <2>1, <2>2
<1>10. OpenHasKey'
  <2> SUFFICES ASSUME NEW u \in Turns PROVE KeyIsKnown(u)'
    BY DEF OpenHasKey
  <2>1. CASE u # t
    <3>1. Unmoved(u)
      BY <1>2, <1>4, <1>5, <2>1, UnmovedStream DEF Unmoved
    <3> QED  BY <1>2, <3>1, UnmovedKnown DEF BusyInv
  <2>2. CASE u = t
    <3>1. /\ Open(u)' <=> Open(u)
          /\ turnKey'[u] = turnKey[u] /\ asked'[u] = asked[u] /\ session'[u] # None
          /\ Has(turnStream[u].q, "session")' => Open(u)
      BY <1>2, <1>5, <1>8, <2>2 DEF Open
    <3> QED  BY <1>2, <1>6, <2>2, <3>1 DEF KeyIsKnown
  <2> QED  BY <2>1, <2>2
<1>11. \A k : OpenIn(k)' = OpenIn(k)
  BY <1>2, <1>4, <1>8 DEF OpenIn, Open
<1>12. OpenHasTab' /\ BusyWithOpenTurns'
  BY <1>2, <1>11, BusyKept DEF BusyInv
<1> QED  BY <1>9, <1>10, <1>12 DEF BusyInv

\* A tab is opened on a session: no open turn has that key.
LEMMA BusyOpened ==
  ASSUME ShownInv, BusyInv, NEW s \in Sessions, SessionOpens(s)
  PROVE  BusyInv'
<1>1. /\ tabs' = [tabs EXCEPT ![s] = IF @ = None THEN NewTab ELSE @]
      /\ UNCHANGED <<turnKey, turnStream, asked, session, clean>>
  BY DEF SessionOpens, hostVars
<1>2. /\ tabs'[s] = IF tabs[s] = None THEN NewTab ELSE tabs[s]
      /\ \A k \in Keys : k # s => tabs'[k] = tabs[k]
      /\ s \in Keys /\ s # Draft
  BY <1>1 DEF ShownInv, ChatTypeOK, TabsOK, Keys
<1>3. NewTab # None /\ NewTab.openTurns = 0
  BY NewTabIs, TabParts
<1>4. \A u \in Turns : Unmoved(u) /\ Orderly(turnStream[u], u, session[u])'
  BY <1>1, UnmovedStream DEF Unmoved
<1>5. SessionComesOnce'
  BY <1>4 DEF SessionComesOnce
<1>6. OpenHasKey'
  <2> SUFFICES ASSUME NEW u \in Turns PROVE KeyIsKnown(u)'
    BY DEF OpenHasKey
  <2> QED  BY <1>2, <1>4, UnmovedKnown DEF BusyInv, Keys
<1>7. \A k : OpenIn(k)' = OpenIn(k)
  BY <1>4, UnmovedOpenIn
<1>8. OpenHasTab'
  BY <1>1, <1>2, <1>3, <1>7 DEF BusyInv, OpenHasTab, IsTab
<1>9. BusyWithOpenTurns'
  <2> SUFFICES ASSUME clean, NEW k \in Keys, tabs'[k] # None
               PROVE  tabs'[k].openTurns = Cardinality(OpenIn(k))
    BY <1>1, <1>7, BusyMeansNext
  <2>1. CASE k = s /\ tabs[s] = None
    <3>1. OpenIn(s) = {}
      BY <1>2, <2>1 DEF BusyInv, OpenHasTab, IsTab
    <3> QED  BY <1>2, <1>3, <2>1, <3>1, FS_EmptySet
  <2>2. CASE ~(k = s /\ tabs[s] = None)
    <3>1. tabs'[k] = tabs[k]
      BY <1>2, <2>2
    <3> QED  BY <3>1, BusyMeans DEF BusyInv
  <2> QED  BY <2>1, <2>2
<1> QED  BY <1>5, <1>6, <1>8, <1>9 DEF BusyInv

\* A tab is closed: its turns are stopped with it.
LEMMA BusyTabClosed ==
  ASSUME ShownInv, BusyInv, NEW k \in Keys, close(k)
  PROVE  BusyInv'
<1> DEFINE F == {t \in Turns : turnKey[t] = k /\ Open(t)}
<1>1. /\ tabs' = [tabs EXCEPT ![k] = None]
      /\ turnStream' = stopTurns(turnStream, F)
      /\ UNCHANGED <<turnKey, asked, session, clean>>
  BY DEF close, hostVars
<1>2. tabs'[k] = None /\ \A j \in Keys : j # k => tabs'[j] = tabs[j]
  BY <1>1 DEF ShownInv, ChatTypeOK, TabsOK
<1>3. \A u \in Turns : /\ turnStream'[u].q = turnStream[u].q
                       /\ u \in F => turnStream'[u].up = "stopped"
                       /\ u \notin F => turnStream'[u] = turnStream[u]
  BY <1>1, Stopped DEF ShownInv, ChatTypeOK, StreamsOK
<1>4. SessionComesOnce'
  <2> SUFFICES ASSUME NEW u \in Turns PROVE Orderly(turnStream[u], u, session[u])'
    BY DEF SessionComesOnce
  <2>1. Orderly(turnStream[u], u, session[u])
    BY DEF BusyInv, SessionComesOnce
  <2>2. turnStream'[u].q = turnStream[u].q /\ turnStream'[u].up \in {turnStream[u].up, "stopped"}
    BY <1>3
  <2> QED  BY <1>1, <2>1, <2>2, OrderlySame
<1>5. OpenHasKey'
  <2> SUFFICES ASSUME NEW u \in Turns PROVE KeyIsKnown(u)'
    BY DEF OpenHasKey
  <2>1. CASE u \notin F
    <3>1. Unmoved(u)
      BY <1>1, <1>3, <2>1 DEF Unmoved, Open
    <3> QED  BY <1>2, <3>1, UnmovedKnown DEF BusyInv, Keys
  <2>2. CASE u \in F
    <3>1. /\ ~Open(u)' /\ turnKey'[u] = k /\ turnKey[u] = k /\ asked'[u] = asked[u]
          /\ Has(turnStream[u].q, "session")' => Has(turnStream[u].q, "session")
          /\ KeyIsKnown(u)
      BY <1>1, <1>3, <2>2 DEF Open, BusyInv, OpenHasKey
    <3> QED  BY <1>2, <3>1 DEF KeyIsKnown, IsTab
  <2> QED  BY <2>1, <2>2
<1>6. OpenIn(k)' = {} /\ \A j : j # k => OpenIn(j)' = OpenIn(j)
  BY <1>1, <1>3 DEF OpenIn, Open
<1>7. OpenHasTab'
  BY <1>1, <1>2, <1>6 DEF BusyInv, OpenHasTab, IsTab
<1>8. BusyWithOpenTurns'
  BY <1>1, <1>2, <1>6, BusyMeans, BusyMeansNext DEF BusyInv
<1> QED  BY <1>4, <1>5, <1>7, <1>8 DEF BusyInv

\* A turn is sent: it opens in its tab.
LEMMA BusySend ==
  ASSUME ShownInv, BusyInv, NEW k \in Keys, NEW t \in Turns, send(k, t)
  PROVE  BusyInv'
<1>t. /\ ChatTypeOK /\ turnStream \in [Turns -> Streams] /\ turnKey \in [Turns -> Keys \cup {None}]
      /\ asked \in [Turns -> Sessions \cup {None}]
  BY DEF ShownInv, ChatTypeOK, StreamsOK, TurnsOK
<1>1. /\ post[t] = "unsent" /\ tabs[k] # None
      /\ \A u \in Turns : asked'[u] = IF u # t THEN asked[u] ELSE IF k = Draft THEN None ELSE k
      /\ \A u \in Turns : turnKey'[u] = IF u = t THEN k ELSE turnKey[u]
      /\ \A u \in Turns : turnStream'[u] = IF u = t THEN Connecting ELSE turnStream[u]
      /\ session' = session
  BY <1>t DEF send, Fresh, IsTab, hostVars
<1>c. clean' => clean /\ (k = Draft => OpenIn(Draft) = {})
  BY DEF send, OpenIn
<1>2. /\ tabs[k] \in Tabs /\ tabs'[k] \in Tabs
      /\ tabs'[k].openTurns = tabs[k].openTurns + 1
      /\ \A j \in Keys : j # k => tabs'[j] = tabs[j]
  BY <1>t, SentTabIs
<1>3. Connecting.up = "connecting" /\ Connecting.q = <<>>
  BY NewStreams
<1>4. turnStream[t].up = "none" /\ session[t] = None
  BY <1>1, SendersKnown DEF ShownInv, UnsettledIsUnheard
<1>5. \A u \in Turns : u # t => Unmoved(u) /\ Orderly(turnStream[u], u, session[u])'
  BY <1>1, UnmovedStream DEF Unmoved
<1>6. SessionComesOnce'
  <2>1. Orderly(turnStream[t], t, session[t])'
    BY <1>1, <1>3, OrderlyEmpty
  <2> QED  BY <1>5, <2>1 DEF SessionComesOnce
<1>7. OpenHasKey'
  <2> SUFFICES ASSUME NEW u \in Turns PROVE KeyIsKnown(u)'
    BY DEF OpenHasKey
  <2>1. CASE u # t
    <3>1. tabs[Draft] = None => tabs'[Draft] = None
      BY <1>1, <1>2 DEF Keys
    <3> QED  BY <1>5, <2>1, <3>1, UnmovedKnown DEF BusyInv
  <2>2. CASE u = t
    <3>1. /\ turnKey'[u] = k /\ k # None /\ ~Has(turnStream[u].q, "session")'
          /\ asked'[u] = IF k = Draft THEN None ELSE k
      BY <1>1, <1>3, <2>2 DEF Has
    <3> QED  BY <3>1 DEF KeyIsKnown
  <2> QED  BY <2>1, <2>2
<1>8. OpenIn(k)' = OpenIn(k) \cup {t} /\ \A j : j # k => OpenIn(j)' = OpenIn(j)
  BY <1>1, <1>3, <1>4 DEF OpenIn, Open
<1>9. OpenHasTab'
  <2> SUFFICES ASSUME clean'
               PROVE  /\ \A j \in Keys : OpenIn(j)' # {} => tabs'[j] # None
                      /\ \A u, v \in OpenIn(Draft)' : u = v
    BY DEF OpenHasTab, IsTab
  <2>1. tabs'[k] # None
    BY <1>2, TabParts
  <2>2. /\ \A j \in Keys : OpenIn(j) # {} => tabs[j] # None
        /\ \A u, v \in OpenIn(Draft) : u = v
    BY <1>c DEF BusyInv, OpenHasTab, IsTab
  <2> QED  BY <1>c, <1>2, <1>8, <2>1, <2>2
<1>10. BusyWithOpenTurns'
  <2> SUFFICES ASSUME clean', NEW j \in Keys, tabs'[j] # None
               PROVE  tabs'[j].openTurns = Cardinality(OpenIn(j)')
    BY BusyMeansNext
  <2>1. \A i \in Keys : tabs[i] # None => tabs[i].openTurns = Cardinality(OpenIn(i))
    BY <1>c, BusyMeans DEF BusyInv
  <2>2. CASE j # k
    BY <1>2, <1>8, <2>1, <2>2
  <2>3. CASE j = k
    <3>1. t \notin OpenIn(k) /\ IsFiniteSet(OpenIn(k))
      BY <1>4, OpenInIsFinite DEF OpenIn, Open
    <3>2. Cardinality(OpenIn(k) \cup {t}) = Cardinality(OpenIn(k)) + 1
      BY <3>1, FS_AddElement
    <3> QED  BY <1>1, <1>2, <1>8, <2>1, <2>3, <3>2
  <2> QED  BY <2>2, <2>3
<1> QED  BY <1>6, <1>7, <1>9, <1>10 DEF BusyInv

\* Turns are closed out: they are stopped, forgotten and counted down.
LEMMA BusyOutOf ==
  ASSUME ShownInv, BusyInv, SessionComesOnce',
         NEW store \in Stores, NEW F, F \subseteq {t \in Turns : Open(t)},
         tabs' = bumpDown(store, F), turnKey' = forgetTurns(turnKey, F),
         UNCHANGED <<asked, session, clean>>,
         \A k \in Keys : /\ store[k] = None <=> tabs[k] = None
                         /\ tabs[k] # None => store[k].openTurns = tabs[k].openTurns,
         \A t \in Turns : /\ t \in F => turnStream'[t].up = "stopped"
                          /\ t \notin F => turnStream'[t].up = turnStream[t].up
                          /\ Has(turnStream'[t].q, "session") => Has(turnStream[t].q, "session"),
         \A t \in F : asked[t] # None \/ ~Has(turnStream'[t].q, "session")
  PROVE  BusyInv'
<1>1. \A t \in Turns : turnKey'[t] = IF t \in F THEN None ELSE turnKey[t]
  BY Forgotten DEF ShownInv, ChatTypeOK, TurnsOK
<1>2. tabs[Draft] = None => tabs'[Draft] = None
  BY BumpDownStore DEF Keys
<1>3. OpenHasKey'
  <2> SUFFICES ASSUME NEW t \in Turns PROVE KeyIsKnown(t)'
    BY DEF OpenHasKey
  <2>1. CASE t \notin F
    <3>1. Unmoved(t)
      BY <1>1, <2>1 DEF Unmoved, Open
    <3> QED  BY <1>2, <3>1, UnmovedKnown DEF BusyInv
  <2>2. CASE t \in F
    <3>1. ~Open(t)' /\ turnKey'[t] = None /\ None # Draft
      BY <1>1, <2>2 DEF Open, Keys
    <3>2. asked'[t] # None \/ ~Has(turnStream[t].q, "session")'
      BY <2>2
    <3> QED  BY <3>1, <3>2 DEF KeyIsKnown
  <2> QED  BY <2>1, <2>2
<1>4. \A k \in Keys : OpenIn(k)' = OpenIn(k) \ F
  <2> SUFFICES ASSUME NEW k \in Keys, NEW t \in Turns
               PROVE  Open(t)' /\ turnKey'[t] = k <=> Open(t) /\ turnKey[t] = k /\ t \notin F
    BY DEF OpenIn
  <2> QED  BY <1>1 DEF Open
<1>5. OpenHasTab' /\ BusyWithOpenTurns'
  BY <1>4, BusyClosedOut DEF BusyInv
<1> QED  BY <1>3, <1>5 DEF BusyInv

LEMMA BusyPostFails ==
  ASSUME ShownInv, BusyInv, NEW t \in Turns, PostFails(t)
  PROVE  BusyInv'
<1> DEFINE F == IF Open(t) THEN {t} ELSE {}
<1>1. /\ post[t] = "flight"
      /\ tabs' = bumpDown(tabs, F)
      /\ turnStream' = stopTurns(turnStream, F)
      /\ turnKey' = forgetTurns(turnKey, F)
      /\ UNCHANGED <<asked, session, clean>>
  BY PostFailsIs DEF ShownInv, hostVars
<1>2. F \subseteq {u \in Turns : Open(u)} /\ F \subseteq {t}
  OBVIOUS
<1> HIDE DEF F
<1>3. \A u \in Turns : /\ turnStream'[u].q = turnStream[u].q
                       /\ u \in F => turnStream'[u].up = "stopped"
                       /\ u \notin F => turnStream'[u] = turnStream[u]
  BY <1>1, Stopped DEF ShownInv, ChatTypeOK, StreamsOK
<1>4. SessionComesOnce'
  <2> SUFFICES ASSUME NEW u \in Turns PROVE Orderly(turnStream[u], u, session[u])'
    BY DEF SessionComesOnce
  <2>1. Orderly(turnStream[u], u, session[u])
    BY DEF BusyInv, SessionComesOnce
  <2>2. turnStream'[u].q = turnStream[u].q /\ turnStream'[u].up \in {turnStream[u].up, "stopped"}
    BY <1>3
  <2> QED  BY <1>1, <2>1, <2>2, OrderlySame
<1>5. tabs \in Stores
  BY DEF ShownInv, ChatTypeOK, TabsOK, Stores
<1>6. \A u \in F : ~Has(turnStream'[u].q, "session")
  <2>1. session[t] = None
    BY <1>1 DEF ShownInv, UnsettledIsUnheard
  <2>2. ~Has(turnStream[t].q, "session")
    BY <2>1 DEF BusyInv, SessionComesOnce, Orderly
  <2> QED  BY <1>2, <1>3, <2>2
<1> QED  BY <1>1, <1>2, <1>3, <1>4, <1>5, <1>6, BusyOutOf

LEMMA BusyTurnFrame ==
  ASSUME ShownInv, BusyInv, NEW t \in Turns, TurnFrame(t)
  PROVE  BusyInv'
<1>1. PICK e \in Frames, F \in SUBSET {t} : \E store :
            /\ turnStream[t].q # <<>> /\ e = Head(turnStream[t].q)
            /\ F = IF e.type \in {"end", "closed"} /\ Open(t) THEN {t} ELSE {}
            /\ Renders(store, e) /\ tabs' = bumpDown(store, F)
            /\ turnStream'[t].q = Tail(turnStream[t].q)
            /\ turnStream'[t].up = IF t \in F THEN "stopped" ELSE turnStream[t].up
            /\ \A u \in Turns : u # t => turnStream'[u] = turnStream[u]
            /\ turnKey' = forgetTurns(turnKey, F)
  BY TurnFrameIs DEF ShownInv
<1>2. PICK store :
            /\ turnStream[t].q # <<>> /\ e = Head(turnStream[t].q)
            /\ F = IF e.type \in {"end", "closed"} /\ Open(t) THEN {t} ELSE {}
            /\ Renders(store, e) /\ tabs' = bumpDown(store, F)
            /\ turnStream'[t].q = Tail(turnStream[t].q)
            /\ turnStream'[t].up = IF t \in F THEN "stopped" ELSE turnStream[t].up
            /\ \A u \in Turns : u # t => turnStream'[u] = turnStream[u]
            /\ turnKey' = forgetTurns(turnKey, F)
  BY <1>1
<1>3. UNCHANGED <<asked, session, clean>>
  BY DEF TurnFrame, hostVars
<1>4. F \subseteq {u \in Turns : Open(u)} /\ F \subseteq {t}
  BY <1>2
<1>5. /\ Orderly(turnStream'[t], t, session[t])
      /\ Has(turnStream'[t].q, "session") => Has(turnStream[t].q, "session")
      /\ e.type \in {"end", "closed"} => ~Has(turnStream'[t].q, "session")
  <2>1. turnStream[t] \in Streams /\ Orderly(turnStream[t], t, session[t])
    BY DEF ShownInv, ChatTypeOK, StreamsOK, BusyInv, SessionComesOnce
  <2>2. turnStream'[t].up \in {turnStream[t].up, "stopped"}
    BY <1>2
  <2> QED  BY <1>2, <2>1, <2>2, OrderlyTail
<1>6. SessionComesOnce'
  <2> SUFFICES ASSUME NEW u \in Turns PROVE Orderly(turnStream[u], u, session[u])'
    BY DEF SessionComesOnce
  <2>1. CASE u = t
    BY <1>3, <1>5, <2>1
  <2>2. CASE u # t
    BY <1>2, <1>3, <2>2, UnmovedStream
  <2> QED  BY <2>1, <2>2
<1>7. store \in Stores /\ \A k \in Keys : /\ store[k] = None <=> tabs[k] = None
                                          /\ tabs[k] # None => store[k].openTurns = tabs[k].openTurns
  BY <1>2 DEF Renders
<1>8. \A u \in Turns : /\ u \in F => turnStream'[u].up = "stopped"
                       /\ u \notin F => turnStream'[u].up = turnStream[u].up
                       /\ Has(turnStream'[u].q, "session") => Has(turnStream[u].q, "session")
  BY <1>2, <1>4, <1>5
<1>9. \A u \in F : ~Has(turnStream'[u].q, "session")
  BY <1>2, <1>4, <1>5
<1> QED  BY <1>2, <1>3, <1>4, <1>6, <1>7, <1>8, <1>9, BusyOutOf

\* An end on the room's stream closes out every turn of its key, the draft's
\* never.
LEMMA BusyRoomFrame ==
  ASSUME ShownInv, BusyInv, NEW s \in Sessions, RoomFrame(s)
  PROVE  BusyInv'
<1>1. PICK e \in Frames, F \in SUBSET Turns : \E store :
            /\ F = IF e.type = "end" THEN OpenOf(s) ELSE {}
            /\ Renders(store, e) /\ tabs' = bumpDown(store, F)
            /\ turnStream' = stopTurns(turnStream, F)
            /\ turnKey' = forgetTurns(turnKey, F)
  BY RoomFrameIs DEF ShownInv
<1>2. PICK store :
            /\ F = IF e.type = "end" THEN OpenOf(s) ELSE {}
            /\ Renders(store, e) /\ tabs' = bumpDown(store, F)
            /\ turnStream' = stopTurns(turnStream, F)
            /\ turnKey' = forgetTurns(turnKey, F)
  BY <1>1
<1>3. UNCHANGED <<asked, session, clean>>
  BY DEF RoomFrame, hostVars
<1>4. F \subseteq OpenOf(s) /\ F \subseteq {u \in Turns : Open(u)}
  BY <1>2 DEF OpenOf
<1>5. \A u \in Turns : /\ turnStream'[u].q = turnStream[u].q
                       /\ u \in F => turnStream'[u].up = "stopped"
                       /\ u \notin F => turnStream'[u] = turnStream[u]
  BY <1>2, Stopped DEF ShownInv, ChatTypeOK, StreamsOK
<1>6. SessionComesOnce'
  <2> SUFFICES ASSUME NEW u \in Turns PROVE Orderly(turnStream[u], u, session[u])'
    BY DEF SessionComesOnce
  <2>1. Orderly(turnStream[u], u, session[u])
    BY DEF BusyInv, SessionComesOnce
  <2>2. turnStream'[u].q = turnStream[u].q /\ turnStream'[u].up \in {turnStream[u].up, "stopped"}
    BY <1>5
  <2> QED  BY <1>3, <2>1, <2>2, OrderlySame
<1>7. store \in Stores /\ \A k \in Keys : /\ store[k] = None <=> tabs[k] = None
                                          /\ tabs[k] # None => store[k].openTurns = tabs[k].openTurns
  BY <1>2 DEF Renders
<1>8. \A u \in F : asked[u] # None \/ ~Has(turnStream'[u].q, "session")
  <2> SUFFICES ASSUME NEW u \in F, asked[u] = None, Has(turnStream[u].q, "session")
               PROVE  FALSE
    BY <1>5
  <2>1. turnKey[u] = Draft
    BY DEF BusyInv, OpenHasKey, KeyIsKnown
  <2> QED  BY <1>4, <2>1 DEF OpenOf
<1> QED  BY <1>2, <1>3, <1>4, <1>5, <1>6, <1>7, <1>8, BusyOutOf

\* The draft moves to its session, and its one open turn with it.
LEMMA BusyPromoted ==
  ASSUME ShownInv, BusyInv, NEW t \in Turns, Promotion(t)
  PROVE  BusyInv'
<1>t. /\ ChatTypeOK /\ turnKey \in [Turns -> Keys \cup {None}]
      /\ Draft \in Keys /\ Draft # None /\ Sessions \subseteq Keys
      /\ SessionComesOnce /\ OpenHasKey /\ OpenHasTab /\ BusyWithOpenTurns
  BY DEF ShownInv, ChatTypeOK, TurnsOK, Keys, BusyInv
<1>1. PICK e \in Frames, s \in Sessions :
            /\ turnStream[t].q # <<>> /\ Target(t) = Draft
            /\ e = Head(turnStream[t].q) /\ e.type = "session"
            /\ tabs'[Draft] = None
            /\ tabs'[s] = IF tabs[s] = None THEN tabs[Draft] ELSE tabs[s]
            /\ \A k \in Keys : k # Draft /\ k # s => tabs'[k] = tabs[k]
            /\ turnKey' = [turnKey EXCEPT ![t] = s]
            /\ clean' = (clean /\ ~(IsTab(s) /\ IsTab(Draft)))
            /\ turnStream'[t].q = Tail(turnStream[t].q) /\ turnStream'[t].up = turnStream[t].up
            /\ \A u \in Turns : u # t => turnStream'[u] = turnStream[u]
  BY <1>t, PromotionIs
<1>2. UNCHANGED <<asked, session>>
  BY DEF Promotion, hostVars
<1>3. \A u \in Turns : turnKey'[u] = IF u = t THEN s ELSE turnKey[u]
  BY <1>t, <1>1
<1>4. s # Draft /\ s \in Keys
  BY <1>t
<1>5. /\ turnStream[t] \in Streams /\ Orderly(turnStream[t], t, session[t]) /\ KeyIsKnown(t)
  BY <1>t DEF ChatTypeOK, StreamsOK, SessionComesOnce, OpenHasKey
<1>6. Has(turnStream[t].q, "session") /\ session[t] # None
  <2>1. Has(turnStream[t].q, "session")
    <3>1. turnStream[t].q \in Seq(Frames)
      BY <1>5, StreamParts
    <3>2. e = turnStream[t].q[1] /\ 1 \in DOMAIN turnStream[t].q
      BY <1>1, <3>1, TailIs
    <3> QED  BY <1>1, <3>2 DEF Has
  <2> QED  BY <1>5, <2>1 DEF Orderly
<1>7. asked[t] = None /\ turnKey[t] = Draft /\ (Open(t) \/ tabs[Draft] = None)
  <2>1. asked[t] = None
    <3>1. CASE turnKey[t] # None
      BY <1>1, <1>5, <3>1 DEF Target, KeyIsKnown
    <3>2. CASE turnKey[t] = None
      BY <1>1, <1>t, <3>2 DEF Target, ChatTypeOK, TurnsOK
    <3> QED  BY <3>1, <3>2
  <2> QED  BY <1>5, <1>6, <2>1 DEF KeyIsKnown, IsTab
<1>8. Orderly(turnStream'[t], t, session[t]) /\ ~Has(turnStream'[t].q, "session")
  BY <1>1, <1>5, OrderlyTail
<1>9. SessionComesOnce'
  <2> SUFFICES ASSUME NEW u \in Turns PROVE Orderly(turnStream[u], u, session[u])'
    BY DEF SessionComesOnce
  <2>1. CASE u = t
    BY <1>2, <1>8, <2>1
  <2>2. CASE u # t
    BY <1>1, <1>2, <2>2, UnmovedStream
  <2> QED  BY <2>1, <2>2
<1>10. OpenHasKey'
  <2> SUFFICES ASSUME NEW u \in Turns PROVE KeyIsKnown(u)'
    BY DEF OpenHasKey
  <2>1. CASE u # t
    <3>1. Unmoved(u)
      BY <1>1, <1>2, <1>3, <2>1, UnmovedStream DEF Unmoved
    <3> QED  BY <1>1, <1>t, <3>1, UnmovedKnown
  <2>2. CASE u = t
    <3>1. /\ turnKey'[u] = s /\ s # None /\ asked'[u] = None /\ session'[u] # None
          /\ ~Has(turnStream[u].q, "session")'
      BY <1>2, <1>3, <1>4, <1>6, <1>7, <1>8, <2>2
    <3> QED  BY <1>4, <3>1 DEF KeyIsKnown
  <2> QED  BY <2>1, <2>2
<1>11. \A u \in Turns : Open(u)' <=> Open(u)
  BY <1>1 DEF Open
<1>12. CASE ~Open(t) \/ ~clean'
  <2>1. \A k \in Keys : clean' => OpenIn(k)' = OpenIn(k)
    BY <1>3, <1>11, <1>12 DEF OpenIn
  <2>2. clean' => tabs[Draft] = None /\ clean
    BY <1>1, <1>7, <1>12
  <2>3. \A k \in Keys : clean' => (tabs'[k] = None <=> tabs[k] = None)
                                 /\ (tabs[k] # None => tabs'[k].openTurns = tabs[k].openTurns)
    BY <1>1, <2>2
  <2>4. CASE clean'
    <3>1. OpenHasTab' /\ BusyWithOpenTurns'
      BY <1>t, <2>1, <2>2, <2>3, <2>4, BusyKept
    <3> QED  BY <1>9, <1>10, <3>1 DEF BusyInv
  <2>5. CASE ~clean'
    BY <1>9, <1>10, <2>5 DEF BusyInv, OpenHasTab, BusyWithOpenTurns
  <2> QED  BY <2>4, <2>5
<1>13. CASE Open(t) /\ clean'
  <2>1. clean /\ t \in OpenIn(Draft)
    BY <1>1, <1>7, <1>13 DEF OpenIn
  <2>2. /\ \A k \in Keys : OpenIn(k) # {} => tabs[k] # None
        /\ OpenIn(Draft) = {t}
    BY <1>t, <2>1 DEF OpenHasTab, IsTab
  <2>3. tabs[Draft] # None /\ tabs[s] = None /\ OpenIn(s) = {}
    <3>1. tabs[Draft] # None
      BY <1>t, <2>2
    <3>2. tabs[s] = None
      BY <1>1, <1>13, <3>1 DEF IsTab
    <3> QED  BY <1>4, <2>2, <3>1, <3>2
  <2>4. tabs'[Draft] = None /\ tabs'[s] = tabs[Draft]
    BY <1>1, <2>3
  <2>5. OpenIn(Draft)' = {} /\ OpenIn(s)' = {t}
    <3>1. \A u \in Turns : u # t => (Open(u)' /\ turnKey'[u] \in {Draft, s} => FALSE)
      BY <1>3, <1>11, <2>2, <2>3 DEF OpenIn
    <3>2. Open(t)' /\ turnKey'[t] = s
      BY <1>3, <1>11, <1>13
    <3> QED  BY <1>4, <3>1, <3>2 DEF OpenIn
  <2>6. \A k \in Keys : k # Draft /\ k # s => OpenIn(k)' = OpenIn(k)
    BY <1>3, <1>7, <1>11 DEF OpenIn
  <2>7. OpenHasTab'
    BY <1>1, <2>2, <2>3, <2>4, <2>5, <2>6 DEF OpenHasTab, IsTab
  <2>8. BusyWithOpenTurns'
    <3>1. \A k \in Keys : tabs[k] # None => tabs[k].openTurns = Cardinality(OpenIn(k))
      BY <1>t, <2>1, BusyMeans
    <3>2. tabs'[s].openTurns = Cardinality(OpenIn(s)')
      BY <1>t, <2>2, <2>3, <2>4, <2>5, <3>1
    <3> QED  BY <1>1, <2>4, <2>6, <3>1, <3>2, BusyMeansNext
  <2> QED  BY <1>9, <1>10, <2>7, <2>8 DEF BusyInv
<1> QED  BY <1>12, <1>13

LEMMA BusyInit == Init => BusyInv
<1> SUFFICES ASSUME Init PROVE BusyInv
  OBVIOUS
<1>1. \A t \in Turns : /\ turnStream[t].q = <<>> /\ turnStream[t].up = "none"
                       /\ turnKey[t] = None /\ asked[t] = None /\ session[t] = None
  BY NewStreams DEF Init
<1>2. SessionComesOnce
  BY <1>1, OrderlyEmpty DEF SessionComesOnce
<1>3. OpenHasKey
  BY <1>1 DEF OpenHasKey, KeyIsKnown, Open, Has
<1>4. \A k : OpenIn(k) = {}
  BY <1>1 DEF OpenIn, Open
<1>5. OpenHasTab
  BY <1>4 DEF OpenHasTab
<1>6. \A k \in Keys : tabs[k] # None => tabs[k].openTurns = 0
  BY NewTabIs DEF Init
<1>7. BusyWithOpenTurns
  BY <1>4, <1>6, BusyMeans, FS_EmptySet
<1> QED  BY <1>2, <1>3, <1>5, <1>7 DEF BusyInv

LEMMA BusyNext == ShownInv /\ BusyInv /\ [Next]_vars => BusyInv'
<1> SUFFICES ASSUME ShownInv, BusyInv, [Next]_vars PROVE BusyInv'
  OBVIOUS
<1>1. ASSUME NEW k \in Keys, NEW t \in Turns, send(k, t) PROVE BusyInv'
  BY <1>1, BusySend
<1>2. ASSUME NEW k \in Keys, close(k) PROVE BusyInv'
  BY <1>2, BusyTabClosed
<1>3. ASSUME NEW s \in Sessions, openSession(s) \/ RoomSubscribed(s) \/ Retry(s) PROVE BusyInv'
  BY <1>3, BusyIdle DEF openSession, RoomSubscribed, Retry, hostVars
<1>4. ASSUME NEW s \in Sessions, SessionOpens(s) PROVE BusyInv'
  BY <1>4, BusyOpened
<1>5. ASSUME NEW t \in Turns, TurnSubscribed(t) PROVE BusyInv'
  BY <1>5, BusySubscribed
<1>6. ASSUME NEW t \in Turns, PostArrives(t) \/ End(t) PROVE BusyInv'
  BY <1>6, BusyAnswered
<1>7. ASSUME NEW t \in Turns, PostFails(t) PROVE BusyInv'
  BY <1>7, BusyPostFails
<1>8. ASSUME NEW t \in Turns, NEW s \in Sessions, ForeignPost(t, s) PROVE BusyInv'
  BY <1>8, BusyForeign
<1>9. ASSUME NEW t \in Turns, Report(t) PROVE BusyInv'
  BY <1>9, BusyReported
<1>10. ASSUME NEW t \in Turns, TurnFrame(t) \/ Promotion(t) PROVE BusyInv'
  BY <1>10, BusyTurnFrame, BusyPromoted
<1>11. ASSUME NEW s \in Sessions, RoomFrame(s) PROVE BusyInv'
  BY <1>11, BusyRoomFrame
<1>12. CASE StreamDrops \/ Restart
  BY <1>12, BusyDropped
<1>13. CASE UNCHANGED vars
  BY <1>13, BusyIdle DEF vars, clientVars, hostVars
<1> QED  BY <1>1, <1>2, <1>3, <1>4, <1>5, <1>6, <1>7, <1>8, <1>9, <1>10, <1>11, <1>12, <1>13
         DEF Next, Deliver

\* As long as no turn is sent in a draft that is busy, and no draft is promoted
\* to a session that has a tab, every tab counts exactly its open turns.
THEOREM TabsBusyWithOpenTurns == Spec => []BusyWithOpenTurns
<1>1. BusyInv => BusyWithOpenTurns
  BY DEF BusyInv
<1> QED  BY BusyInit, BusyNext, ShownInvAlways, <1>1, PTL DEF Spec

-----------------------------------------------------------------------------
(* The story of a turn: what a tab shows of it, and what its room's stream *)
(* still carries.                                                          *)

Entries == [kind : {"user", "answer"}, turn : Turns]

QuestionAt(m, t) == {i \in DOMAIN m : m[i] = Entry("user", t)}
AnswerAt(m, t) == {i \in DOMAIN m : m[i] = Entry("answer", t)}
EndAt(q, t) == {i \in DOMAIN q : q[i].type = "end" /\ q[i].turn = t}

\* Its question is shown or on its way, and it has not ended.
Untold(m, q, t) ==
    /\ QuestionAt(m, t) # {} \/ Carries(q, "message", t)
    /\ EndAt(q, t) = {} /\ AnswerAt(m, t) = {}

\* Its end is on its way, behind its question.
Coming(m, q, t) ==
    /\ \E j \in DOMAIN q :
          /\ EndAt(q, t) = {j}
          /\ \/ QuestionAt(m, t) # {}
             \/ \E i \in DOMAIN q : i < j /\ q[i].type = "message" /\ q[i].turn = t
    /\ AnswerAt(m, t) = {}

\* It is shown whole.
Told(m, q, t) ==
    /\ EndAt(q, t) = {}
    /\ \E i \in QuestionAt(m, t), j \in DOMAIN m : AnswerAt(m, t) = {j} /\ i < j

LEMMA EntryAdded ==
  ASSUME NEW m \in Seq(Entries), NEW x \in Entries, NEW t \in Turns
  PROVE  LET r == Append(m, x) n == Len(m) IN
         /\ r \in Seq(Entries) /\ n \in Nat /\ DOMAIN m = 1 .. n /\ DOMAIN r = 1 .. n + 1
         /\ \A i \in 1 .. n : r[i] = m[i]
         /\ r[n + 1] = x
  BY AppendProperties, LenProperties

\* A tab may get any entry but the answer.
LEMMA MoreShown ==
  ASSUME NEW m \in Seq(Entries), NEW x \in Entries, NEW t \in Turns, x # Entry("answer", t), NEW q
  PROVE  LET r == Append(m, x) IN
         /\ QuestionAt(m, t) \subseteq QuestionAt(r, t) /\ AnswerAt(r, t) = AnswerAt(m, t)
         /\ x = Entry("user", t) => QuestionAt(r, t) # {}
         /\ Untold(m, q, t) => Untold(r, q, t)
         /\ Coming(m, q, t) => Coming(r, q, t)
         /\ Told(m, q, t) => Told(r, q, t)
<1> DEFINE r == Append(m, x)
           n == Len(m)
<1>1. /\ n \in Nat /\ DOMAIN m = 1 .. n /\ DOMAIN r = 1 .. n + 1
      /\ \A i \in 1 .. n : r[i] = m[i]
      /\ r[n + 1] = x
  BY EntryAdded
<1>2. /\ DOMAIN m \subseteq DOMAIN r /\ n + 1 \in DOMAIN r /\ r[n + 1] = x
      /\ \A i \in DOMAIN m : r[i] = m[i]
      /\ \A i \in DOMAIN r : i \in DOMAIN m \/ i = n + 1
  BY <1>1
<1> HIDE DEF r, n
<1>3. QuestionAt(m, t) \subseteq QuestionAt(r, t)
  BY <1>2 DEF QuestionAt
<1>4. AnswerAt(r, t) = AnswerAt(m, t)
  BY <1>2 DEF AnswerAt
<1>5. x = Entry("user", t) => QuestionAt(r, t) # {}
  BY <1>2 DEF QuestionAt
<1>6. Untold(m, q, t) => Untold(r, q, t)
  BY <1>3, <1>4 DEF Untold
<1>7. Coming(m, q, t) => Coming(r, q, t)
  BY <1>3, <1>4 DEF Coming
<1>8. Told(m, q, t) => Told(r, q, t)
  BY <1>2, <1>3, <1>4 DEF Told
<1> QED  BY <1>3, <1>4, <1>5, <1>6, <1>7, <1>8 DEF r

\* A stream may get any frame but the end; the end turns the story.
LEMMA MoreSent ==
  ASSUME NEW q \in Seq(Frames), NEW e \in Frames, NEW t \in Turns, NEW m
  PROVE  LET r == Append(q, e) IN
         /\ ~(e.type = "end" /\ e.turn = t) =>
               /\ Untold(m, q, t) => Untold(m, r, t)
               /\ Coming(m, q, t) => Coming(m, r, t)
               /\ Told(m, q, t) => Told(m, r, t)
         /\ e.type = "end" /\ e.turn = t /\ Untold(m, q, t) => Coming(m, r, t)
         /\ /\ e.type = "message" /\ e.turn = t
            /\ EndAt(q, t) = {} /\ AnswerAt(m, t) = {}
            => Untold(m, r, t)
<1> DEFINE r == Append(q, e)
           n == Len(q)
<1>1. /\ n \in Nat /\ DOMAIN q = 1 .. n /\ DOMAIN r = 1 .. n + 1
      /\ \A i \in 1 .. n : r[i] = q[i]
      /\ r[n + 1] = e
  BY AppendIs
<1>2. /\ DOMAIN q \subseteq DOMAIN r /\ n + 1 \in DOMAIN r /\ r[n + 1] = e
      /\ \A i \in DOMAIN q : r[i] = q[i] /\ i < n + 1
      /\ \A i \in DOMAIN r : i \in DOMAIN q \/ i = n + 1
  BY <1>1
<1> HIDE DEF r, n
<1>3. \A type : Carries(q, type, t) => Carries(r, type, t)
  BY <1>2 DEF Carries
<1>4. ASSUME ~(e.type = "end" /\ e.turn = t)
      PROVE  EndAt(r, t) = EndAt(q, t)
  BY <1>2, <1>4 DEF EndAt
<1>5. ASSUME ~(e.type = "end" /\ e.turn = t)
      PROVE  /\ Untold(m, q, t) => Untold(m, r, t)
             /\ Coming(m, q, t) => Coming(m, r, t)
             /\ Told(m, q, t) => Told(m, r, t)
  <2>1. Untold(m, q, t) => Untold(m, r, t)
    BY <1>3, <1>4, <1>5 DEF Untold
  <2>2. Told(m, q, t) => Told(m, r, t)
    BY <1>4, <1>5 DEF Told
  <2>3. ASSUME Coming(m, q, t) PROVE Coming(m, r, t)
    <3>1. PICK j \in DOMAIN q : /\ EndAt(q, t) = {j}
                                /\ \/ QuestionAt(m, t) # {}
                                   \/ \E i \in DOMAIN q : i < j /\ q[i].type = "message" /\ q[i].turn = t
      BY <2>3 DEF Coming
    <3>2. \/ QuestionAt(m, t) # {}
          \/ \E i \in DOMAIN r : i < j /\ r[i].type = "message" /\ r[i].turn = t
      BY <1>2, <3>1
    <3>3. j \in DOMAIN r /\ EndAt(r, t) = {j} /\ AnswerAt(m, t) = {}
      BY <1>2, <1>4, <1>5, <2>3, <3>1 DEF Coming
    <3> QED  BY <3>2, <3>3 DEF Coming
  <2> QED  BY <2>1, <2>2, <2>3
<1>6. ASSUME e.type = "end", e.turn = t, Untold(m, q, t)
      PROVE  Coming(m, r, t)
  <2>1. EndAt(r, t) = {n + 1}
    BY <1>2, <1>6 DEF EndAt, Untold
  <2>2. \/ QuestionAt(m, t) # {}
        \/ \E i \in DOMAIN r : i < n + 1 /\ r[i].type = "message" /\ r[i].turn = t
    BY <1>2, <1>6 DEF Untold, Carries
  <2> QED  BY <1>2, <1>6, <2>1, <2>2 DEF Coming, Untold
<1>7. ASSUME e.type = "message", e.turn = t, EndAt(q, t) = {}, AnswerAt(m, t) = {}
      PROVE  Untold(m, r, t)
  <2>1. EndAt(r, t) = {}
    BY <1>4, <1>7
  <2>2. Carries(r, "message", t)
    BY <1>2, <1>7 DEF Carries
  <2> QED  BY <1>7, <2>1, <2>2 DEF Untold
<1> QED  BY <1>5, <1>6, <1>7 DEF r

\* What an event shows.
LEMMA ReducedMessages ==
  ASSUME NEW tab \in Tabs, NEW e \in Frames
  PROVE  LET m == tab.messages IN
         LET r == reduceAgent(tab, e).messages IN
         \/ /\ e.type = "message" /\ e.turn \in Turns
            /\ \/ r = m /\ QuestionAt(m, e.turn) # {}
               \/ r = Append(m, Entry("user", e.turn))
         \/ e.type = "end" /\ e.turn \in Turns /\ r = Append(m, Entry("answer", e.turn))
         \/ e.type \notin {"message", "end"} /\ r = m
<1>1. e.type \in {"message", "end"} => e.turn \in Turns
  BY DEF Frames
<1>2. \A kind \in {"user", "answer"}, t \in Turns :
        Appended(tab, kind, t).messages = Append(tab.messages, Entry(kind, t))
  BY AppendedTab
<1>3. CASE e.type = "message"
  <2>1. reduceAgent(tab, e) = IF QuestionAt(tab.messages, e.turn) # {} THEN tab
                              ELSE Appended(tab, "user", e.turn)
    BY <1>3 DEF reduceAgent, QuestionAt
  <2> QED  BY <1>1, <1>2, <1>3, <2>1
<1>4. CASE e.type = "end"
  <2>1. reduceAgent(tab, e) = Appended(tab, "answer", e.turn)
    BY <1>4 DEF reduceAgent
  <2> QED  BY <1>1, <1>2, <1>4, <2>1
<1>5. CASE e.type \notin {"message", "end"}
  BY <1>5 DEF reduceAgent
<1> QED  BY <1>3, <1>4, <1>5

\* A frame goes from the stream to the tab.
LEMMA Delivered ==
  ASSUME NEW tab \in Tabs, NEW q \in Seq(Frames), q # <<>>, NEW t \in Turns
  PROVE  LET m == tab.messages IN
         LET r == reduceAgent(tab, Head(q)).messages IN
         /\ Untold(m, q, t) => Untold(r, Tail(q), t)
         /\ Coming(m, q, t) => Coming(r, Tail(q), t) \/ Told(r, Tail(q), t)
         /\ Told(m, q, t) => Told(r, Tail(q), t)
<1> DEFINE m == tab.messages
           e == Head(q)
           r == reduceAgent(tab, e).messages
           p == Tail(q)
           n == Len(q)
<1>1. /\ e \in Frames /\ e = q[1] /\ n \in Nat /\ n >= 1 /\ DOMAIN q = 1 .. n /\ DOMAIN p = 1 .. n - 1
      /\ \A i \in 1 .. n - 1 : p[i] = q[i + 1]
  BY TailIs
<1>2. /\ 1 \in DOMAIN q /\ e = q[1]
      /\ \A i \in DOMAIN p : i \in Nat /\ i >= 1 /\ i + 1 \in DOMAIN q /\ p[i] = q[i + 1]
      /\ \A i \in DOMAIN q : i \in Nat /\ (i = 1 \/ (i > 1 /\ i - 1 \in DOMAIN p /\ p[i - 1] = q[i]))
  <2>1. \A i \in DOMAIN q : i # 1 => i - 1 \in 1 .. n - 1 /\ p[i - 1] = q[i]
    <3> SUFFICES ASSUME NEW i \in DOMAIN q, i # 1 PROVE i - 1 \in 1 .. n - 1 /\ p[i - 1] = q[i]
      OBVIOUS
    <3>1. i - 1 \in 1 .. n - 1 /\ (i - 1) + 1 = i
      BY <1>1
    <3>2. p[i - 1] = q[(i - 1) + 1]
      BY <1>1, <3>1
    <3> QED  BY <3>1, <3>2
  <2> QED  BY <1>1, <2>1
<1>3. m \in Seq(Entries) /\ \A kind \in {"user", "answer"}, u \in Turns : Entry(kind, u) \in Entries
  BY TabParts DEF Entries, Entry
<1>4. \/ /\ e.type = "message" /\ e.turn \in Turns
         /\ \/ r = m /\ QuestionAt(m, e.turn) # {}
            \/ r = Append(m, Entry("user", e.turn))
      \/ e.type = "end" /\ e.turn \in Turns /\ r = Append(m, Entry("answer", e.turn))
      \/ e.type \notin {"message", "end"} /\ r = m
  BY <1>1, ReducedMessages
<1> HIDE DEF m, e, r, p, n
<1>5. CASE e.type = "end" /\ e.turn = t
  <2>1. 1 \in EndAt(q, t)
    BY <1>2, <1>5 DEF EndAt
  <2>2. ~Untold(m, q, t) /\ ~Told(m, q, t)
    BY <2>1 DEF Untold, Told
  <2>3. ASSUME Coming(m, q, t) PROVE Told(r, p, t)
    <3>1. /\ EndAt(q, t) = {1} /\ AnswerAt(m, t) = {}
          /\ \/ QuestionAt(m, t) # {}
             \/ \E i \in DOMAIN q : i < 1
      BY <2>1, <2>3 DEF Coming
    <3>2. PICK i : i \in QuestionAt(m, t)
      BY <1>2, <3>1
    <3>3. EndAt(p, t) = {}
      <4> SUFFICES ASSUME NEW k \in EndAt(p, t) PROVE FALSE
        OBVIOUS
      <4>1. k \in DOMAIN p /\ k + 1 \in EndAt(q, t)
        BY <1>2 DEF EndAt
      <4> QED  BY <1>2, <3>1, <4>1
    <3>4. r = Append(m, Entry("answer", t)) /\ Entry("answer", t) \in Entries
      BY <1>3, <1>4, <1>5
    <3> DEFINE l == Len(m)
    <3>5. /\ l \in Nat /\ DOMAIN m = 1 .. l /\ DOMAIN r = 1 .. l + 1
          /\ \A k \in 1 .. l : r[k] = m[k]
          /\ r[l + 1] = Entry("answer", t)
      BY <1>3, <3>4, EntryAdded
    <3>6. AnswerAt(r, t) = {l + 1}
      <4>1. \A k \in DOMAIN r : k \in DOMAIN m \/ k = l + 1
        BY <3>5
      <4>2. \A k \in DOMAIN m : r[k] = m[k] /\ r[k] # Entry("answer", t)
        BY <3>1, <3>5 DEF AnswerAt
      <4>3. l + 1 \in DOMAIN r
        BY <3>5
      <4> QED  BY <3>5, <4>1, <4>2, <4>3 DEF AnswerAt
    <3>7. i \in QuestionAt(r, t) /\ i < l + 1 /\ l + 1 \in DOMAIN r
      <4>1. i \in 1 .. l /\ m[i] = Entry("user", t)
        BY <3>2, <3>5 DEF QuestionAt
      <4> QED  BY <3>5, <4>1 DEF QuestionAt
    <3> QED  BY <3>3, <3>6, <3>7 DEF Told
  <2> QED  BY <2>2, <2>3 DEF m, e, r, p
<1>6. CASE ~(e.type = "end" /\ e.turn = t)
  <2>1. /\ QuestionAt(m, t) \subseteq QuestionAt(r, t)
        /\ AnswerAt(m, t) = {} => AnswerAt(r, t) = {}
        /\ \A x : Told(m, x, t) => Told(r, x, t)
        /\ e.type = "message" /\ e.turn = t => QuestionAt(r, t) # {}
    <3>1. CASE r = m
      BY <1>4, <1>6, <3>1
    <3>2. CASE r # m
      <4>1. PICK x \in Entries : /\ r = Append(m, x) /\ x # Entry("answer", t)
                                 /\ e.type = "message" /\ e.turn = t => x = Entry("user", t)
        BY <1>3, <1>4, <1>6, <3>2 DEF Entry
      <4> QED  BY <1>3, <4>1, MoreShown
    <3> QED  BY <3>1, <3>2
  <2>2. EndAt(q, t) = {} => EndAt(p, t) = {}
    BY <1>2 DEF EndAt
  <2>3. ASSUME Untold(m, q, t) PROVE Untold(r, p, t)
    <3>1. QuestionAt(r, t) # {} \/ Carries(p, "message", t)
      <4>1. CASE QuestionAt(m, t) # {}
        BY <2>1, <4>1
      <4>2. CASE Carries(q, "message", t)
        BY <1>2, <2>1, <4>2 DEF Carries
      <4> QED  BY <2>3, <4>1, <4>2 DEF Untold
    <3> QED  BY <2>1, <2>2, <2>3, <3>1 DEF Untold
  <2>4. ASSUME Told(m, q, t) PROVE Told(r, p, t)
    <3>1. Told(m, p, t)
      BY <2>2, <2>4 DEF Told
    <3> QED  BY <2>1, <3>1
  <2>5. ASSUME Coming(m, q, t) PROVE Coming(r, p, t)
    <3>1. PICK j \in DOMAIN q : /\ EndAt(q, t) = {j}
                                /\ \/ QuestionAt(m, t) # {}
                                   \/ \E i \in DOMAIN q : i < j /\ q[i].type = "message" /\ q[i].turn = t
      BY <2>5 DEF Coming
    <3>2. j # 1 /\ j > 1 /\ j - 1 \in DOMAIN p /\ j \in Nat
      BY <1>2, <1>6, <3>1 DEF EndAt
    <3>3. EndAt(p, t) = {j - 1}
      <4>1. \A k \in DOMAIN p : k \in EndAt(p, t) <=> k + 1 = j
        BY <1>2, <3>1 DEF EndAt
      <4>2. \A k \in DOMAIN p : k + 1 = j <=> k = j - 1
        <5>1. \A k \in Nat : k + 1 = j <=> k = j - 1
          BY <3>2
        <5> QED  BY <1>2, <5>1
      <4> QED  BY <3>2, <4>1, <4>2 DEF EndAt
    <3>4. \/ QuestionAt(r, t) # {}
          \/ \E i \in DOMAIN p : i < j - 1 /\ p[i].type = "message" /\ p[i].turn = t
      <4>1. CASE QuestionAt(m, t) # {}
        BY <2>1, <4>1
      <4>2. CASE \E i \in DOMAIN q : i < j /\ q[i].type = "message" /\ q[i].turn = t
        <5>1. PICK i \in DOMAIN q : i < j /\ q[i].type = "message" /\ q[i].turn = t
          BY <4>2
        <5>2. CASE i = 1
          BY <1>2, <2>1, <5>1, <5>2
        <5>3. CASE i # 1
          <6>1. i - 1 \in DOMAIN p /\ p[i - 1] = q[i] /\ i - 1 < j - 1
            BY <1>2, <3>2, <5>1, <5>3
          <6> QED  BY <5>1, <6>1
        <5> QED  BY <5>2, <5>3
      <4> QED  BY <3>1, <4>1, <4>2
    <3> QED  BY <2>1, <2>5, <3>2, <3>3, <3>4 DEF Coming
  <2> QED  BY <2>3, <2>4, <2>5 DEF m, e, r, p
<1> QED  BY <1>5, <1>6

-----------------------------------------------------------------------------
(* What is known of a turn that its room's stream carries whole.           *)

\* A stream that has closed is down.
DownIfClosed(st) == Has(st.q, "closed") => st.up = "dropped"

\* The room's tab is fed by a stream that is up.
Watched(s) == tabs[s] # None /\ tabs[s].stale = FALSE /\ roomStream[s].up = "live"

\* Until the turn ends, it is in the lane whose room this is.
Rooted(t, s) == t \notin ended => t \in InLane /\ RoomOf(t) = s

Tale(t, s) ==
    LET m == tabs[s].messages
        q == roomStream[s].q
    IN  /\ t \notin ended => Untold(m, q, t)
        /\ t \in ended => Coming(m, q, t) \/ Told(m, q, t)

WholePair(t, s) == Watched(s) /\ Rooted(t, s) /\ Tale(t, s)

WholeInv ==
    /\ \A s \in Sessions : DownIfClosed(roomStream[s])
    /\ \A t \in Turns, s \in Sessions : <<t, s>> \in whole => WholePair(t, s)

\* Neither the tab nor its stream, nor the host, moves.
LEMMA PairKept ==
  ASSUME NEW t, NEW s, WholePair(t, s), tabs'[s] # None,
         tabs'[s].messages = tabs[s].messages, tabs'[s].stale = tabs[s].stale,
         roomStream'[s] = roomStream[s], UNCHANGED <<asked, hostVars>>
  PROVE  WholePair(t, s)'
<1>1. Watched(s)'
  BY DEF WholePair, Watched
<1>2. Rooted(t, s)'
  BY DEF WholePair, Rooted, RoomOf, LaneOf, InLane, hostVars
<1>3. Tale(t, s)'
  BY DEF WholePair, Tale, hostVars
<1> QED  BY <1>1, <1>2, <1>3 DEF WholePair

LEMMA DownDropped == ASSUME NEW st \in Streams, DownIfClosed(st) PROVE DownIfClosed(Dropped(st))
<1>1. CASE st.up \in {"live", "connecting"}
  BY <1>1, DroppedIs DEF DownIfClosed
<1>2. CASE st.up \notin {"live", "connecting"}
  BY <1>2, DroppedIs
<1> QED  BY <1>1, <1>2

LEMMA DownReopened ==
  ASSUME NEW st \in Streams, DownIfClosed(st), NEW new \in Reopened(st) PROVE DownIfClosed(new)
<1>1. new.q = <<>> \/ (st.up # "dropped" /\ new.q = st.q)
  BY ReopenedIs
<1> QED  BY <1>1 DEF DownIfClosed, Has

LEMMA DownMore ==
  ASSUME NEW st \in Streams, DownIfClosed(st), NEW e \in Frames, e.type # "closed",
         NEW new, st.up # "dropped", new.q = Append(st.q, e)
  PROVE  DownIfClosed(new)
<1>1. st.q \in Seq(Frames)
  BY StreamParts
<1>2. \A i \in DOMAIN new.q : (i \in DOMAIN st.q /\ new.q[i] = st.q[i]) \/ new.q[i] = e
  BY <1>1, AppendIs
<1> QED  BY <1>2 DEF DownIfClosed, Has

LEMMA DownSent ==
  ASSUME NEW st \in Streams, DownIfClosed(st), NEW e \in Frames, e.type # "closed"
  PROVE  DownIfClosed(Sent(st, e))
<1>1. CASE st.up = "live"
  BY <1>1, SentTo, DownMore
<1>2. CASE st.up # "live"
  BY <1>2, SentTo
<1> QED  BY <1>1, <1>2

LEMMA DownTail ==
  ASSUME NEW st \in Streams, DownIfClosed(st), st.q # <<>>, NEW new, new.q = Tail(st.q), new.up = st.up
  PROVE  DownIfClosed(new)
<1>1. st.q \in Seq(Frames)
  BY StreamParts
<1>2. \A i \in DOMAIN new.q : i + 1 \in DOMAIN st.q /\ new.q[i] = st.q[i + 1]
  BY <1>1, TailIs
<1> QED  BY <1>2 DEF DownIfClosed, Has

-----------------------------------------------------------------------------
(* A turn stays whole, or is no longer counted: one lemma per kind of step.*)

WholeTypes ==
    /\ turnStream \in [Turns -> Streams] /\ roomStream \in [Sessions -> Streams]
    /\ tabs \in [Keys -> Tabs \cup {None}]
    /\ Draft \notin Sessions /\ Sessions \subseteq Keys

LEMMA WholeTyped == ChatTypeOK => WholeTypes
  BY DEF ChatTypeOK, StreamsOK, TabsOK, WholeTypes, Keys

LEMMA WholeStreams ==
  ASSUME ShownInv, WholeInv,
         \/ \E t \in Turns : TurnSubscribed(t)
         \/ \E s \in Sessions : RoomSubscribed(s) \/ openSession(s)
         \/ UNCHANGED vars
  PROVE  WholeInv'
<1>t. WholeTypes
  BY WholeTyped DEF ShownInv
<1>1. UNCHANGED <<tabs, asked, hostVars, whole>>
  BY DEF TurnSubscribed, RoomSubscribed, openSession, vars, clientVars, hostVars
<1>2. ASSUME NEW s \in Sessions
      PROVE  /\ DownIfClosed(roomStream'[s])
             /\ roomStream[s].up = "live" => roomStream'[s] = roomStream[s]
  <2>1. CASE RoomSubscribed(s)
    <3>1. roomStream[s].up = "connecting" /\ roomStream'[s].q = Append(roomStream[s].q, Hello)
      BY <1>t, <2>1 DEF RoomSubscribed, Stream, WholeTypes
    <3>2. Hello \in Frames /\ Hello.type = "hello"
      BY FramesOfTurns DEF Hello, Frame
    <3>3. roomStream[s] \in Streams /\ DownIfClosed(roomStream[s])
      BY <1>t DEF WholeTypes, WholeInv
    <3>4. DownIfClosed(roomStream'[s])
      BY <3>1, <3>2, <3>3, DownMore
    <3> QED  BY <3>1, <3>4
  <2>2. CASE ~RoomSubscribed(s)
    <3>1. roomStream'[s] = roomStream[s]
      BY <1>t, <2>2 DEF TurnSubscribed, RoomSubscribed, openSession, vars, clientVars, WholeTypes
    <3> QED  BY <3>1 DEF WholeInv
  <2> QED  BY <2>1, <2>2
<1>3. ASSUME NEW t \in Turns, NEW s \in Sessions, <<t, s>> \in whole' PROVE WholePair(t, s)'
  <2>1. WholePair(t, s) /\ roomStream[s].up = "live" /\ tabs[s] # None
    BY <1>1, <1>3 DEF WholeInv, WholePair, Watched
  <2> QED  BY <1>1, <1>2, <2>1, PairKept
<1> QED  BY <1>2, <1>3 DEF WholeInv

LEMMA WholeDropped ==
  ASSUME ShownInv, WholeInv, StreamDrops \/ Restart
  PROVE  WholeInv'
<1>t. WholeTypes
  BY WholeTyped DEF ShownInv
<1>1. ASSUME NEW s \in Sessions PROVE DownIfClosed(roomStream'[s])
  <2>1. roomStream'[s] = roomStream[s] \/ roomStream'[s] = Dropped(roomStream[s])
    BY <1>t DEF StreamDrops, Restart, WholeTypes
  <2>2. roomStream[s] \in Streams /\ DownIfClosed(roomStream[s])
    BY <1>t DEF WholeTypes, WholeInv
  <2> QED  BY <2>1, <2>2, DownDropped
<1>2. CASE Restart
  <2>1. whole' = {}
    BY <1>2 DEF Restart
  <2> QED  BY <1>1, <2>1 DEF WholeInv
<1>3. CASE StreamDrops
  <2>1. ASSUME NEW t \in Turns, NEW s \in Sessions, <<t, s>> \in whole' PROVE WholePair(t, s)'
    <3>1. <<t, s>> \in whole /\ roomStream'[s] = roomStream[s] /\ UNCHANGED <<tabs, asked, hostVars>>
      BY <1>t, <1>3, <2>1 DEF StreamDrops, Disturbed, WholeTypes
    <3>2. WholePair(t, s) /\ tabs[s] # None
      BY <3>1 DEF WholeInv, WholePair, Watched
    <3> QED  BY <3>1, <3>2, PairKept
  <2> QED  BY <1>1, <2>1 DEF WholeInv
<1> QED  BY <1>2, <1>3

LEMMA WholeTabs ==
  ASSUME ShownInv, WholeInv,
         \/ \E s \in Sessions : SessionOpens(s) \/ Retry(s)
         \/ \E k \in Keys : close(k)
  PROVE  WholeInv'
<1>t. WholeTypes
  BY WholeTyped DEF ShownInv
<1>1. ASSUME NEW s \in Sessions, SessionOpens(s) \/ (Retry(s) /\ IsTab(s)) PROVE WholeInv'
  <2>1. \E new \in Reopened(roomStream[s]) : roomStream' = [roomStream EXCEPT ![s] = new]
    BY <1>1 DEF SessionOpens, Retry
  <2>2. PICK new \in Reopened(roomStream[s]) : roomStream' = [roomStream EXCEPT ![s] = new]
    BY <2>1
  <2>3. /\ whole' = whole \ Disturbed(s) /\ UNCHANGED <<asked, hostVars>>
        /\ \A r \in Sessions : r # s => tabs'[r] = tabs[r] /\ roomStream'[r] = roomStream[r]
        /\ roomStream'[s] = new
    BY <1>t, <1>1, <2>2 DEF SessionOpens, Retry, WholeTypes
  <2>4. ASSUME NEW r \in Sessions PROVE DownIfClosed(roomStream'[r])
    <3>1. roomStream[r] \in Streams /\ DownIfClosed(roomStream[r])
      BY <1>t DEF WholeTypes, WholeInv
    <3> QED  BY <2>3, <3>1, DownReopened
  <2>5. ASSUME NEW t \in Turns, NEW r \in Sessions, <<t, r>> \in whole' PROVE WholePair(t, r)'
    <3>1. <<t, r>> \in whole /\ r # s
      BY <2>3, <2>5 DEF Disturbed
    <3>2. WholePair(t, r) /\ tabs[r] # None
      BY <3>1 DEF WholeInv, WholePair, Watched
    <3> QED  BY <2>3, <3>1, <3>2, PairKept
  <2> QED  BY <2>4, <2>5 DEF WholeInv
<1>2. ASSUME NEW k \in Keys, close(k) PROVE WholeInv'
  <2>1. /\ whole' = whole \ Disturbed(k) /\ UNCHANGED <<asked, hostVars>>
        /\ \A r \in Sessions : r # k => tabs'[r] = tabs[r] /\ roomStream'[r] = roomStream[r]
        /\ \A r \in Sessions : r = k => roomStream'[r] = NoStream
    BY <1>t, <1>2 DEF close, WholeTypes
  <2>2. ASSUME NEW r \in Sessions PROVE DownIfClosed(roomStream'[r])
    <3>1. CASE r = k
      BY <2>1, <3>1, NewStreams DEF DownIfClosed, Has
    <3>2. CASE r # k
      BY <2>1, <3>2 DEF WholeInv
    <3> QED  BY <3>1, <3>2
  <2>3. ASSUME NEW t \in Turns, NEW r \in Sessions, <<t, r>> \in whole' PROVE WholePair(t, r)'
    <3>1. <<t, r>> \in whole /\ r # k
      BY <2>1, <2>3 DEF Disturbed
    <3>2. WholePair(t, r) /\ tabs[r] # None
      BY <3>1 DEF WholeInv, WholePair, Watched
    <3> QED  BY <2>1, <3>1, <3>2, PairKept
  <2> QED  BY <2>2, <2>3 DEF WholeInv
<1>3. ASSUME NEW s \in Sessions, Retry(s), ~IsTab(s) PROVE WholeInv'
  <2>1. UNCHANGED <<tabs, roomStream, asked, hostVars, whole>>
    BY <1>3 DEF Retry
  <2>2. ASSUME NEW t \in Turns, NEW r \in Sessions, <<t, r>> \in whole' PROVE WholePair(t, r)'
    <3>1. WholePair(t, r) /\ tabs[r] # None
      BY <2>1, <2>2 DEF WholeInv, WholePair, Watched
    <3> QED  BY <2>1, <3>1, PairKept
  <2> QED  BY <2>1, <2>2 DEF WholeInv
<1> QED  BY <1>1, <1>2, <1>3

LEMMA WholePromoted ==
  ASSUME ShownInv, WholeInv, NEW t \in Turns, Promotion(t)
  PROVE  WholeInv'
<1>t. WholeTypes
  BY WholeTyped DEF ShownInv
<1>1. PICK s \in Sessions : \E new \in Reopened(roomStream[s]) :
            /\ \A k \in Keys : k # Draft /\ k # s => tabs'[k] = tabs[k]
            /\ roomStream' = [roomStream EXCEPT ![s] = new]
            /\ whole' = whole \ Disturbed(s)
  BY PromotionIs DEF ShownInv
<1>2. PICK new \in Reopened(roomStream[s]) :
            /\ \A k \in Keys : k # Draft /\ k # s => tabs'[k] = tabs[k]
            /\ roomStream' = [roomStream EXCEPT ![s] = new]
            /\ whole' = whole \ Disturbed(s)
  BY <1>1
<1>3. UNCHANGED <<asked, hostVars>>
  BY DEF Promotion
<1>4. ASSUME NEW r \in Sessions PROVE DownIfClosed(roomStream'[r])
  <2>1. roomStream[r] \in Streams /\ DownIfClosed(roomStream[r])
    BY <1>t DEF WholeTypes, WholeInv
  <2>2. CASE r = s
    <3>1. roomStream'[r] = new
      BY <1>t, <1>2, <2>2 DEF WholeTypes
    <3> QED  BY <2>1, <2>2, <3>1, DownReopened
  <2>3. CASE r # s
    <3>1. roomStream'[r] = roomStream[r]
      BY <1>t, <1>2, <2>3 DEF WholeTypes
    <3> QED  BY <2>1, <3>1
  <2> QED  BY <2>2, <2>3
<1>5. ASSUME NEW u \in Turns, NEW r \in Sessions, <<u, r>> \in whole' PROVE WholePair(u, r)'
  <2>1. <<u, r>> \in whole /\ r # s
    BY <1>2, <1>5 DEF Disturbed
  <2>2. tabs'[r] = tabs[r] /\ roomStream'[r] = roomStream[r]
    BY <1>t, <1>2, <2>1 DEF WholeTypes
  <2>3. WholePair(u, r) /\ tabs[r] # None
    BY <2>1 DEF WholeInv, WholePair, Watched
  <2> QED  BY <1>3, <2>2, <2>3, PairKept
<1> QED  BY <1>4, <1>5 DEF WholeInv

\* Counting a tab's turns down leaves what it shows.
LEMMA PairCounted ==
  ASSUME ShownInv, WholeInv, NEW t \in Turns, NEW s \in Sessions, <<t, s>> \in whole,
         NEW store \in Stores, NEW F, F \subseteq Turns, tabs' = bumpDown(store, F),
         store[s] # None, store[s].messages = tabs[s].messages, store[s].stale = tabs[s].stale,
         roomStream'[s] = roomStream[s], UNCHANGED <<asked, hostVars>>
  PROVE  WholePair(t, s)'
<1>1. s \in Keys
  BY DEF Keys
<1>2. tabs'[s] # None /\ tabs'[s].messages = store[s].messages /\ tabs'[s].stale = store[s].stale
  BY <1>1, BumpDownStore
<1>3. WholePair(t, s)
  BY DEF WholeInv
<1> QED  BY <1>2, <1>3, PairKept

LEMMA WholePostFails ==
  ASSUME ShownInv, WholeInv, NEW t \in Turns, PostFails(t)
  PROVE  WholeInv'
<1>t. WholeTypes /\ ChatTypeOK /\ tabs \in Stores
  BY WholeTyped DEF ShownInv, WholeTypes, Stores
<1> DEFINE F == IF Open(t) THEN {t} ELSE {}
<1>1. tabs' = bumpDown(tabs, F) /\ UNCHANGED <<roomStream, asked, hostVars, whole>>
  BY <1>t, PostFailsIs
<1>2. F \subseteq Turns
  OBVIOUS
<1> HIDE DEF F
<1>3. ASSUME NEW u \in Turns, NEW s \in Sessions, <<u, s>> \in whole' PROVE WholePair(u, s)'
  <2>1. <<u, s>> \in whole /\ tabs[s] # None /\ roomStream'[s] = roomStream[s]
    BY <1>1, <1>3 DEF WholeInv, WholePair, Watched
  <2> QED  BY <1>t, <1>1, <1>2, <2>1, PairCounted
<1> QED  BY <1>1, <1>3 DEF WholeInv

\* What a turn's own stream brings is not rendered where the room's is up.
LEMMA WholeTurnFrame ==
  ASSUME ShownInv, WholeInv, NEW t \in Turns, TurnFrame(t)
  PROVE  WholeInv'
<1>t. WholeTypes /\ ChatTypeOK /\ tabs \in Stores
  BY WholeTyped DEF ShownInv, WholeTypes, Stores
<1>1. PICK e \in Frames, F \in SUBSET {t} : \E store :
            /\ store = tabs \/ (RendersTurnFrame(Target(t), e) /\ store = reduceEvent(tabs, Target(t), e))
            /\ Renders(store, e) /\ tabs' = bumpDown(store, F)
  BY <1>t, TurnFrameIs
<1>2. PICK store :
            /\ store = tabs \/ (RendersTurnFrame(Target(t), e) /\ store = reduceEvent(tabs, Target(t), e))
            /\ Renders(store, e) /\ tabs' = bumpDown(store, F)
  BY <1>1
<1>3. UNCHANGED <<roomStream, asked, hostVars, whole>>
  BY DEF TurnFrame
<1>4. store \in Stores /\ F \subseteq Turns /\ Target(t) \in Keys
  BY <1>t, <1>2, TargetIsKey DEF Renders
<1>5. ASSUME NEW u \in Turns, NEW s \in Sessions, <<u, s>> \in whole' PROVE WholePair(u, s)'
  <2>1. /\ <<u, s>> \in whole /\ s \in Keys
        /\ tabs[s] # None /\ tabs[s].stale = FALSE /\ roomStream[s].up = "live"
    BY <1>t, <1>3, <1>5 DEF WholeInv, WholePair, Watched, WholeTypes
  <2>2. store[s] # None /\ store[s].messages = tabs[s].messages /\ store[s].stale = tabs[s].stale
    <3>1. CASE store = tabs
      BY <2>1, <3>1
    <3>2. CASE RendersTurnFrame(Target(t), e) /\ store = reduceEvent(tabs, Target(t), e)
      <4>1. CASE Target(t) # s
        <5>1. store[s] = tabs[s]
          BY <1>t, <1>4, <2>1, <3>2, <4>1, ReduceEventStore
        <5> QED  BY <2>1, <5>1
      <4>2. CASE Target(t) = s
        <5>1. Attached(s)
          BY <2>1 DEF Attached
        <5>2. ~(IsTab(s) /\ tabs[s].stale)
          BY <2>1, Zenon
        <5>3. e.type = "session"
          BY <3>2, <4>2, <5>1, <5>2 DEF RendersTurnFrame
        <5>4. store[s] = reduceAgent(tabs[s], e) /\ tabs[s] \in Tabs
          BY <1>t, <1>4, <2>1, <3>2, <4>2, ReduceEventStore DEF Stores
        <5>5. store[s].messages = tabs[s].messages
          BY <5>3, <5>4, ReducedMessages
        <5>6. store[s] # None /\ store[s].stale = tabs[s].stale
          BY <5>4, ReduceAgentTab, TabParts
        <5> QED  BY <5>5, <5>6
      <4> QED  BY <4>1, <4>2
    <3> QED  BY <1>2, <3>1, <3>2
  <2>3. roomStream'[s] = roomStream[s]
    BY <1>3
  <2> QED  BY <1>2, <1>3, <1>4, <2>1, <2>2, <2>3, PairCounted
<1> QED  BY <1>3, <1>5 DEF WholeInv

\* A frame of the room's stream takes the story one step on.
LEMMA WholeRoomFrame ==
  ASSUME ShownInv, WholeInv, NEW s \in Sessions, RoomFrame(s)
  PROVE  WholeInv'
<1>t. WholeTypes /\ ChatTypeOK /\ tabs \in Stores
  BY WholeTyped DEF ShownInv, WholeTypes, Stores
<1>1. PICK e \in Frames, F \in SUBSET Turns : \E store :
            /\ roomStream[s].q # <<>> /\ e = Head(roomStream[s].q)
            /\ \A k \in Keys : k # s => store[k] = tabs[k]
            /\ tabs[s] # None => /\ store[s].messages = reduceAgent(tabs[s], e).messages
                                 /\ store[s].stale = (e.type = "closed")
            /\ Renders(store, e) /\ tabs' = bumpDown(store, F)
            /\ roomStream'[s].q = IF e.type = "closed" THEN <<>> ELSE Tail(roomStream[s].q)
            /\ roomStream'[s].up = IF e.type = "closed" THEN "stopped" ELSE roomStream[s].up
            /\ \A r \in Sessions : r # s => roomStream'[r] = roomStream[r]
  BY <1>t, RoomFrameIs
<1>2. PICK store :
            /\ roomStream[s].q # <<>> /\ e = Head(roomStream[s].q)
            /\ \A k \in Keys : k # s => store[k] = tabs[k]
            /\ tabs[s] # None => /\ store[s].messages = reduceAgent(tabs[s], e).messages
                                 /\ store[s].stale = (e.type = "closed")
            /\ Renders(store, e) /\ tabs' = bumpDown(store, F)
            /\ roomStream'[s].q = IF e.type = "closed" THEN <<>> ELSE Tail(roomStream[s].q)
            /\ roomStream'[s].up = IF e.type = "closed" THEN "stopped" ELSE roomStream[s].up
            /\ \A r \in Sessions : r # s => roomStream'[r] = roomStream[r]
  BY <1>1
<1>3. UNCHANGED <<asked, hostVars, whole>>
  BY DEF RoomFrame
<1>4. /\ store \in Stores /\ F \subseteq Turns /\ s \in Keys
      /\ store[s] = None <=> tabs[s] = None
  BY <1>t, <1>2 DEF Renders, WholeTypes
<1>5. /\ roomStream[s] \in Streams /\ roomStream[s].q \in Seq(Frames)
      /\ DownIfClosed(roomStream[s])
  BY <1>t, StreamParts DEF WholeTypes, WholeInv
<1>6. ASSUME NEW r \in Sessions PROVE DownIfClosed(roomStream'[r])
  <2>1. CASE r # s
    BY <1>2, <2>1 DEF WholeInv
  <2>2. CASE r = s /\ e.type = "closed"
    BY <1>2, <2>2 DEF DownIfClosed, Has
  <2>3. CASE r = s /\ e.type # "closed"
    BY <1>2, <1>5, <2>3, DownTail
  <2> QED  BY <2>1, <2>2, <2>3
<1>7. ASSUME NEW u \in Turns, NEW r \in Sessions, <<u, r>> \in whole' PROVE WholePair(u, r)'
  <2>1. /\ <<u, r>> \in whole /\ WholePair(u, r) /\ r \in Keys
        /\ tabs[r] # None /\ tabs[r].stale = FALSE /\ roomStream[r].up = "live"
    BY <1>t, <1>3, <1>7 DEF WholeInv, WholePair, Watched, WholeTypes
  <2>2. CASE r # s
    <3>1. store[r] = tabs[r] /\ roomStream'[r] = roomStream[r]
      BY <1>2, <2>1, <2>2
    <3> QED  BY <1>2, <1>3, <1>4, <2>1, <3>1, PairCounted
  <2>3. CASE r = s
    <3>1. e.type # "closed"
      <4>1. ~Has(roomStream[s].q, "closed")
        BY <1>5, <2>1, <2>3 DEF DownIfClosed
      <4>2. e = roomStream[s].q[1] /\ 1 \in DOMAIN roomStream[s].q
        BY <1>2, <1>5, TailIs
      <4> QED  BY <4>1, <4>2 DEF Has
    <3>2. tabs[s] \in Tabs /\ tabs[s] # None /\ store[s] # None
      BY <1>t, <1>4, <2>1, <2>3 DEF Stores
    <3>3. /\ tabs'[s] # None
          /\ tabs'[s].messages = reduceAgent(tabs[s], e).messages
          /\ tabs'[s].stale = store[s].stale
      BY <1>2, <1>4, <3>2, BumpDownStore
    <3>4. tabs'[s].stale = FALSE
      BY <1>2, <3>1, <3>2, <3>3
    <3>5. roomStream'[s].q = Tail(roomStream[s].q) /\ roomStream'[s].up = "live"
      BY <1>2, <2>1, <2>3, <3>1
    <3>6. Tale(u, s)'
      <4> DEFINE m == tabs[s].messages
                 q == roomStream[s].q
                 n == reduceAgent(tabs[s], e).messages
      <4>1. /\ Untold(m, q, u) => Untold(n, Tail(q), u)
            /\ Coming(m, q, u) => Coming(n, Tail(q), u) \/ Told(n, Tail(q), u)
            /\ Told(m, q, u) => Told(n, Tail(q), u)
        BY <1>2, <1>5, <3>2, Delivered
      <4>2. /\ u \notin ended => Untold(m, q, u)
            /\ u \in ended => Coming(m, q, u) \/ Told(m, q, u)
        BY <2>1, <2>3 DEF WholePair, Tale
      <4>3. /\ u \notin ended' => Untold(n, Tail(q), u)
            /\ u \in ended' => Coming(n, Tail(q), u) \/ Told(n, Tail(q), u)
        BY <1>3, <4>1, <4>2 DEF hostVars
      <4>4. tabs'[s].messages = n /\ roomStream'[s].q = Tail(q)
        BY <3>3, <3>5
      <4> HIDE DEF m, n, q
      <4> QED  BY <4>3, <4>4 DEF Tale
    <3>7. Rooted(u, s)'
      BY <1>3, <2>1, <2>3 DEF WholePair, Rooted, RoomOf, LaneOf, InLane, hostVars
    <3> QED  BY <2>3, <3>3, <3>4, <3>5, <3>6, <3>7 DEF WholePair, Watched
  <2> QED  BY <2>2, <2>3
<1> QED  BY <1>6, <1>7 DEF WholeInv

\* The host knows a turn that the room's stream carries.
LEMMA WholeIsSettled ==
  ASSUME ShownInv, WholeInv, NEW t \in Turns, NEW s \in Sessions, <<t, s>> \in whole
  PROVE  post[t] = "settled"
  BY DEF ShownInv, UnsettledIsUnheard, WholeInv, WholePair, Rooted

LEMMA WholeSend ==
  ASSUME ShownInv, WholeInv, NEW k \in Keys, NEW t \in Turns, send(k, t)
  PROVE  WholeInv'
<1>t. WholeTypes /\ ChatTypeOK /\ asked \in [Turns -> Sessions \cup {None}]
  BY WholeTyped DEF ShownInv, ChatTypeOK, TurnsOK
<1>1. /\ post[t] = "unsent" /\ UNCHANGED <<roomStream, hostVars, whole>>
      /\ \A u \in Turns : u # t => asked'[u] = asked[u]
  BY <1>t DEF send, Fresh
<1>2. /\ tabs[k] \in Tabs /\ tabs'[k] \in Tabs
      /\ tabs'[k].messages = Append(tabs[k].messages, Entry("user", t))
      /\ tabs'[k].stale = tabs[k].stale
      /\ \A j \in Keys : j # k => tabs'[j] = tabs[j]
  <2>1. /\ tabs[k] \in Tabs /\ tabs'[k] \in Tabs
        /\ tabs'[k].messages = Appended(tabs[k], "user", t).messages
        /\ tabs'[k].stale = tabs[k].stale
        /\ \A j \in Keys : j # k => tabs'[j] = tabs[j]
    BY <1>t, SentTabIs
  <2>2. Appended(tabs[k], "user", t).messages = Append(tabs[k].messages, Entry("user", t))
    BY <2>1, AppendedTab
  <2> QED  BY <2>1, <2>2
<1>3. tabs[k].messages \in Seq(Entries) /\ Entry("user", t) \in Entries /\ tabs'[k] # None
  BY <1>2, TabParts DEF Entries, Entry
<1>4. ASSUME NEW u \in Turns, NEW s \in Sessions, <<u, s>> \in whole' PROVE WholePair(u, s)'
  <2>1. WholePair(u, s) /\ u # t /\ s \in Keys
    BY <1>t, <1>1, <1>4, WholeIsSettled DEF WholeInv, WholeTypes
  <2>2. Entry("user", t) # Entry("answer", u)
    BY DEF Entry
  <2>3. Rooted(u, s)'
    BY <1>1, <2>1 DEF WholePair, Rooted, RoomOf, LaneOf, InLane, hostVars
  <2>4. Watched(s)'
    BY <1>1, <1>2, <1>3, <2>1 DEF WholePair, Watched
  <2>5. Tale(u, s)'
    <3> DEFINE m == tabs[s].messages
               q == roomStream[s].q
               n == tabs'[s].messages
    <3>1. /\ Untold(m, q, u) => Untold(n, q, u)
          /\ Coming(m, q, u) => Coming(n, q, u)
          /\ Told(m, q, u) => Told(n, q, u)
      <4>1. CASE s # k
        BY <1>2, <2>1, <4>1
      <4>2. CASE s = k
        BY <1>2, <1>3, <2>2, <4>2, MoreShown
      <4> QED  BY <4>1, <4>2
    <3>2. /\ u \notin ended => Untold(m, q, u)
          /\ u \in ended => Coming(m, q, u) \/ Told(m, q, u)
      BY <2>1 DEF WholePair, Tale
    <3>3. /\ u \notin ended' => Untold(n, q, u)
          /\ u \in ended' => Coming(n, q, u) \/ Told(n, q, u)
      BY <1>1, <3>1, <3>2 DEF hostVars
    <3>4. roomStream'[s].q = q
      BY <1>1
    <3> HIDE DEF m, q
    <3> QED  BY <3>3, <3>4 DEF Tale
  <2> QED  BY <2>3, <2>4, <2>5 DEF WholePair
<1> QED  BY <1>1, <1>4 DEF WholeInv

\* What the host broadcasts of a turn, other than the end, changes no story.
LEMMA PairSent ==
  ASSUME ShownInv, WholeInv, NEW t \in Turns, NEW s, NEW e \in Frames, e.turn = t, e.type \in TurnTypes,
         Broadcast(s, t, e), NEW u \in Turns, NEW r \in Sessions, <<u, r>> \in whole,
         ~(e.type = "end" /\ t = u), tabs' = tabs, u \in ended' <=> u \in ended, Rooted(u, r)'
  PROVE  WholePair(u, r)'
<1>t. WholeTypes /\ ChatTypeOK
  BY WholeTyped DEF ShownInv
<1>1. WholePair(u, r) /\ roomStream[r].up = "live" /\ roomStream[r] \in Streams
  BY <1>t DEF WholeInv, WholePair, Watched, WholeTypes
<1>2. roomStream'[r] = IF r = s THEN Sent(roomStream[r], e) ELSE roomStream[r]
  BY <1>t, Broadcasted
<1>3. CASE r # s
  <2>1. roomStream'[r] = roomStream[r]
    BY <1>2, <1>3
  <2> QED  BY <1>1, <2>1 DEF WholePair, Watched, Tale
<1>4. CASE r = s
  <2>1. roomStream'[r].up = "live" /\ roomStream'[r].q = Append(roomStream[r].q, e)
    BY <1>1, <1>2, <1>4, SentTo
  <2> DEFINE m == tabs[r].messages
             q == roomStream[r].q
  <2>2. /\ Untold(m, q, u) => Untold(m, Append(q, e), u)
        /\ Coming(m, q, u) => Coming(m, Append(q, e), u)
        /\ Told(m, q, u) => Told(m, Append(q, e), u)
    <3>1. q \in Seq(Frames) /\ ~(e.type = "end" /\ e.turn = u)
      BY <1>1, StreamParts
    <3> HIDE DEF m, q
    <3> QED  BY <3>1, MoreSent
  <2>3. /\ u \notin ended => Untold(m, q, u)
        /\ u \in ended => Coming(m, q, u) \/ Told(m, q, u)
    BY <1>1 DEF WholePair, Tale
  <2>4. tabs'[r].messages = m /\ roomStream'[r].q = Append(q, e)
    BY <2>1
  <2> HIDE DEF m, q
  <2>5. Tale(u, r)'
    BY <2>2, <2>3, <2>4 DEF Tale
  <2>6. Watched(r)'
    BY <1>1, <2>1 DEF WholePair, Watched
  <2> QED  BY <2>5, <2>6 DEF WholePair
<1> QED  BY <1>3, <1>4

LEMMA DownBroadcast ==
  ASSUME ShownInv, WholeInv, NEW t \in Turns, NEW s, NEW e \in Frames, e.turn = t, e.type \in TurnTypes,
         Broadcast(s, t, e)
  PROVE  \A r \in Sessions : DownIfClosed(roomStream'[r])
<1> SUFFICES ASSUME NEW r \in Sessions PROVE DownIfClosed(roomStream'[r])
  OBVIOUS
<1>1. roomStream'[r] = IF r = s THEN Sent(roomStream[r], e) ELSE roomStream[r]
  BY Broadcasted DEF ShownInv
<1>2. roomStream[r] \in Streams /\ DownIfClosed(roomStream[r]) /\ e.type # "closed"
  BY DEF ShownInv, ChatTypeOK, StreamsOK, WholeInv, TurnTypes
<1> QED  BY <1>1, <1>2, DownSent

\* A turn is asked: what may begin here is carried whole.
LEMMA WholeAccepted ==
  ASSUME ShownInv, WholeInv, NEW t \in Turns, NEW s, Accept(t, s), post[t] # "settled",
         \A u \in Turns : u # t => asked'[u] = asked[u],
         s \in Sessions => RoomOf(t)' = s
  PROVE  WholeInv'
<1>t. WholeTypes /\ ChatTypeOK /\ lane \in Seq(Turns)
  BY WholeTyped DEF ShownInv, ChatTypeOK, LaneOK
<1> DEFINE e == Frame("message", t, None)
<1>1. e \in Frames /\ e.turn = t /\ e.type = "message" /\ e.type \in TurnTypes
  BY FramesOfTurns DEF Frame, TurnTypes
<1> HIDE DEF e
<1>2. /\ lane' = Append(lane, t) /\ Broadcast(s, t, e)
      /\ UNCHANGED <<tabs, session, laneSession, ended>>
  BY DEF Accept, e
<1>3. t \notin InLane /\ t \notin ended
  BY DEF ShownInv, UnsettledIsUnheard
<1>4. InLane' = InLane \cup {t}
  BY <1>t, <1>2, <1>3, LaneAppended DEF ShownInv
<1>5. ASSUME NEW u \in Turns, NEW r \in Sessions, <<u, r>> \in whole PROVE WholePair(u, r)'
  <2>1. u # t /\ WholePair(u, r)
    BY <1>5, WholeIsSettled DEF WholeInv
  <2>2. Rooted(u, r)'
    BY <1>2, <1>4, <2>1 DEF WholePair, Rooted, RoomOf, LaneOf
  <2> QED  BY <1>1, <1>2, <1>5, <2>1, <2>2, PairSent
<1>6. ASSUME s \in Sessions, tabs[s] # None, tabs[s].stale = FALSE, roomStream[s].up = "live"
      PROVE  WholePair(t, s)'
  <2>1. Rooted(t, s)'
    BY <1>4, <1>6 DEF Rooted
  <2>2. roomStream[s] \in Streams /\ roomStream'[s] = Sent(roomStream[s], e)
    BY <1>t, <1>1, <1>2, <1>6, Broadcasted DEF WholeTypes
  <2>3. roomStream'[s].up = "live" /\ roomStream'[s].q = Append(roomStream[s].q, e)
    BY <1>1, <1>6, <2>2, SentTo
  <2>4. EndAt(roomStream[s].q, t) = {} /\ AnswerAt(tabs[s].messages, t) = {}
    <3>1. ~InFlight("end", t) /\ ~Shown("answer", t)
      BY <1>3 DEF ShownInv, OpenIsUnanswered
    <3>2. EndAt(roomStream[s].q, t) = {}
      BY <1>6, <3>1 DEF InFlight, Carries, EndAt
    <3>3. AnswerAt(tabs[s].messages, t) = {}
      BY <1>t, <1>6, <3>1 DEF Shown, IsTab, Holds, AnswerAt, WholeTypes
    <3> QED  BY <3>2, <3>3
  <2>5. Untold(tabs[s].messages, Append(roomStream[s].q, e), t)
    <3>1. roomStream[s].q \in Seq(Frames)
      BY <2>2, StreamParts
    <3> QED  BY <1>1, <2>4, <3>1, MoreSent
  <2>6. Tale(t, s)'
    BY <1>2, <1>3, <2>3, <2>5 DEF Tale
  <2> QED  BY <1>2, <1>6, <2>1, <2>3, <2>6 DEF WholePair, Watched
<1>7. ASSUME NEW u \in Turns, NEW r \in Sessions, <<u, r>> \in whole' PROVE WholePair(u, r)'
  <2>1. \/ <<u, r>> \in whole
        \/ u = t /\ r = s /\ IsTab(s) /\ ~tabs[s].stale /\ roomStream[s].up = "live"
    BY <1>7 DEF Accept
  <2>2. CASE <<u, r>> \in whole
    BY <1>5, <2>2
  <2>3. CASE u = t /\ r = s /\ IsTab(s) /\ ~tabs[s].stale /\ roomStream[s].up = "live"
    <3>1. tabs[s] # None /\ s \in Keys
      BY <1>t, <2>3 DEF IsTab, WholeTypes
    <3>2. tabs[s].stale \in BOOLEAN
      BY <1>t, <3>1, TabParts DEF WholeTypes
    <3>3. tabs[s].stale = FALSE
      BY <2>3, <3>2, Zenon
    <3> QED  BY <1>6, <2>3, <3>1, <3>3
  <2> QED  BY <2>1, <2>2, <2>3
<1>8. \A r \in Sessions : DownIfClosed(roomStream'[r])
  BY <1>1, <1>2, DownBroadcast
<1> QED  BY <1>7, <1>8 DEF WholeInv

LEMMA WholeArrivals ==
  ASSUME ShownInv, WholeInv,
         \/ \E t \in Turns : PostArrives(t)
         \/ \E t \in Turns, s \in Sessions : ForeignPost(t, s)
  PROVE  WholeInv'
<1>1. ASSUME NEW t \in Turns, PostArrives(t) PROVE WholeInv'
  <2>1. /\ post[t] # "settled" /\ Accept(t, RoomOf(t)) /\ asked' = asked
        /\ UNCHANGED <<session, laneSession>>
    BY <1>1 DEF PostArrives, Accept
  <2>2. RoomOf(t)' = RoomOf(t)
    BY <2>1 DEF RoomOf, LaneOf
  <2> QED  BY <2>1, <2>2, WholeAccepted
<1>2. ASSUME NEW t \in Turns, NEW s \in Sessions, ForeignPost(t, s) PROVE WholeInv'
  <2>1. /\ post[t] # "settled" /\ Accept(t, s) /\ asked' = [asked EXCEPT ![t] = s]
        /\ UNCHANGED <<session, laneSession>>
    BY <1>2 DEF ForeignPost, Fresh, Accept
  <2>2. asked \in [Turns -> Sessions \cup {None}] /\ session[t] = None /\ s # None
    BY <2>1 DEF ShownInv, ChatTypeOK, TurnsOK, UnsettledIsUnheard, Keys
  <2>3. RoomOf(t)' = s /\ \A u \in Turns : u # t => asked'[u] = asked[u]
    BY <2>1, <2>2 DEF RoomOf, LaneOf
  <2> QED  BY <2>1, <2>3, WholeAccepted
<1> QED  BY <1>1, <1>2

\* A session that is reported is the one whose room the lane was in.
LEMMA WholeReported ==
  ASSUME ShownInv, WholeInv, NEW t \in Turns, Report(t)
  PROVE  WholeInv'
<1>t. /\ session \in [Turns -> Sessions \cup {None}] /\ asked \in [Turns -> Sessions \cup {None}]
      /\ laneSession \in Sessions \cup {None} /\ None \notin Sessions /\ Draft \notin Sessions
  BY DEF ShownInv, ChatTypeOK, TurnsOK, LaneOK, Keys
<1>1. PICK s \in Sessions : /\ LaneOf(t) \in Sessions => s = LaneOf(t)
                            /\ session' = [session EXCEPT ![t] = s]
                            /\ laneSession' = IF asked[t] = None THEN s ELSE laneSession
                            /\ Broadcast(s, t, Frame("session", t, s))
  BY DEF Report
<1>2. /\ Runs(t) /\ session[t] = None
      /\ UNCHANGED <<tabs, asked, lane, ended, whole>>
  BY DEF Report
<1> DEFINE e == Frame("session", t, s)
<1>3. e \in Frames /\ e.turn = t /\ e.type = "session" /\ e.type \in TurnTypes
  BY FramesOfTurns DEF Frame, TurnTypes
<1> HIDE DEF e
<1>4. Broadcast(s, t, e)
  BY <1>1 DEF e
<1>5. ASSUME NEW u \in Turns, NEW r \in Sessions, RoomOf(u) = r
      PROVE  RoomOf(u)' = r
  <2>1. CASE u = t
    <3>1. LaneOf(t) = r /\ session'[t] = s
      BY <1>t, <1>1, <1>2, <1>5, <2>1 DEF RoomOf
    <3>2. s = r /\ s # None
      BY <1>t, <1>1, <3>1
    <3> QED  BY <2>1, <3>1, <3>2 DEF RoomOf
  <2>2. CASE u # t /\ session[u] # None
    <3>1. session'[u] = session[u]
      BY <1>t, <1>1, <2>2
    <3> QED  BY <1>5, <2>2, <3>1 DEF RoomOf
  <2>3. CASE u # t /\ session[u] = None /\ asked[u] # None
    <3>1. session'[u] = session[u] /\ asked'[u] = asked[u]
      BY <1>t, <1>1, <1>2, <2>3
    <3> QED  BY <1>5, <2>3, <3>1 DEF RoomOf, LaneOf
  <2>4. CASE u # t /\ session[u] = None /\ asked[u] = None
    <3>1. session'[u] = None /\ asked'[u] = None
      BY <1>t, <1>1, <1>2, <2>4
    <3>2. laneSession = r
      BY <1>t, <1>5, <2>4 DEF RoomOf, LaneOf
    <3>3. laneSession' = r
      <4>1. CASE asked[t] = None
        <5>1. LaneOf(t) = r
          BY <1>t, <3>2, <4>1 DEF LaneOf
        <5> QED  BY <1>1, <4>1, <5>1
      <4>2. CASE asked[t] # None
        BY <1>1, <3>2, <4>2
      <4> QED  BY <4>1, <4>2
    <3> QED  BY <1>t, <3>1, <3>3 DEF RoomOf, LaneOf
  <2> QED  BY <2>1, <2>2, <2>3, <2>4
<1>6. ASSUME NEW u \in Turns, NEW r \in Sessions, <<u, r>> \in whole' PROVE WholePair(u, r)'
  <2>1. <<u, r>> \in whole /\ WholePair(u, r)
    BY <1>2, <1>6 DEF WholeInv
  <2>2. Rooted(u, r)'
    BY <1>2, <1>5, <2>1 DEF WholePair, Rooted, InLane
  <2> QED  BY <1>2, <1>3, <1>4, <2>1, <2>2, PairSent
<1>7. \A r \in Sessions : DownIfClosed(roomStream'[r])
  BY <1>3, <1>4, DownBroadcast
<1> QED  BY <1>6, <1>7 DEF WholeInv

\* The end reaches the room the turn is in; a lane that is not empty keeps its
\* session.
LEMMA WholeEnded ==
  ASSUME ShownInv, WholeInv, NEW t \in Turns, End(t)
  PROVE  WholeInv'
<1>t. WholeTypes /\ ChatTypeOK /\ lane \in Seq(Turns) /\ LaneOnce /\ LaneIsNotOver
  BY WholeTyped DEF ShownInv, ChatTypeOK, LaneOK
<1>1. /\ Runs(t) /\ ended' = ended \cup {t}
      /\ laneSession' = IF \E u \in InLane \ {t} : LaneOf(u) = laneSession THEN laneSession ELSE None
      /\ UNCHANGED <<tabs, asked, session, whole>>
  BY DEF End
<1>2. PICK i \in DOMAIN lane : /\ lane[i] = t
                               /\ lane' = SubSeq(lane, 1, i - 1) \o SubSeq(lane, i + 1, Len(lane))
  BY DEF End
<1>3. InLane' = InLane \ {t}
  BY <1>t, <1>2, LaneShortened
<1> DEFINE e == Frame("end", t, None)
           s == RoomOf(t)
<1>4. e \in Frames /\ e.turn = t /\ e.type = "end" /\ e.type \in TurnTypes
  BY FramesOfTurns DEF Frame, TurnTypes
<1>5. Broadcast(s, t, e)
  BY DEF End
<1> HIDE DEF e, s
<1>6. t \notin ended
  BY <1>t, <1>1, RunsInLane DEF LaneIsNotOver
<1>7. ASSUME NEW u \in Turns, u # t, u \in InLane PROVE RoomOf(u)' = RoomOf(u)
  <2>1. LaneOf(u)' = LaneOf(u)
    <3>1. CASE asked[u] # None \/ laneSession = None
      BY <1>1, <3>1 DEF LaneOf
    <3>2. CASE asked[u] = None /\ laneSession # None
      <4>1. LaneOf(u) = laneSession
        BY <3>2 DEF LaneOf
      <4>2. laneSession' = laneSession
        BY <1>1, <1>7, <4>1
      <4> QED  BY <1>1, <4>2 DEF LaneOf
    <3> QED  BY <3>1, <3>2
  <2> QED  BY <1>1, <2>1 DEF RoomOf
<1>8. ASSUME NEW u \in Turns, NEW r \in Sessions, <<u, r>> \in whole' PROVE WholePair(u, r)'
  <2>1. <<u, r>> \in whole /\ WholePair(u, r)
    BY <1>1, <1>8 DEF WholeInv
  <2>2. CASE u # t
    <3>1. Rooted(u, r)'
      BY <1>1, <1>3, <1>7, <2>1, <2>2 DEF WholePair, Rooted
    <3>2. u \in ended' <=> u \in ended
      BY <1>1, <2>2
    <3> QED  BY <1>1, <1>4, <1>5, <2>1, <2>2, <3>1, <3>2, PairSent
  <2>3. CASE u = t
    <3>1. /\ r = s /\ Untold(tabs[r].messages, roomStream[r].q, u)
          /\ roomStream[r].up = "live" /\ roomStream[r] \in Streams
      BY <1>t, <1>6, <2>1, <2>3 DEF WholePair, Rooted, Tale, Watched, WholeTypes, s
    <3>2. roomStream'[r] = Sent(roomStream[r], e)
      BY <1>t, <1>4, <1>5, <3>1, Broadcasted
    <3>3. roomStream'[r].up = "live" /\ roomStream'[r].q = Append(roomStream[r].q, e)
      BY <1>4, <3>1, <3>2, SentTo
    <3>4. Coming(tabs[r].messages, Append(roomStream[r].q, e), u)
      <4>1. roomStream[r].q \in Seq(Frames)
        BY <3>1, StreamParts
      <4> QED  BY <1>4, <2>3, <3>1, <4>1, MoreSent
    <3>5. u \in ended' /\ tabs'[r].messages = tabs[r].messages
      BY <1>1, <2>3
    <3>6. Tale(u, r)'
      BY <3>3, <3>4, <3>5 DEF Tale
    <3>7. Rooted(u, r)' /\ Watched(r)'
      BY <1>1, <2>1, <3>3, <3>5 DEF WholePair, Rooted, Watched
    <3> QED  BY <3>6, <3>7 DEF WholePair
  <2> QED  BY <2>2, <2>3
<1>9. \A r \in Sessions : DownIfClosed(roomStream'[r])
  BY <1>4, <1>5, DownBroadcast
<1> QED  BY <1>8, <1>9 DEF WholeInv

LEMMA WholeInit == Init => WholeInv
  BY NewStreams DEF Init, WholeInv, DownIfClosed, Has

LEMMA WholeNext == ShownInv /\ WholeInv /\ [Next]_vars => WholeInv'
  BY WholeStreams, WholeDropped, WholeTabs, WholePromoted, WholePostFails, WholeTurnFrame,
     WholeRoomFrame, WholeSend, WholeArrivals, WholeReported, WholeEnded DEF Next, Deliver

\* A turn that its room's stream carried from its question to its end is shown
\* whole, once and in order, once that stream has delivered.
THEOREM WholeTurnsAreShown == Spec => []WholeTurnsShownOnce
<1>1. ShownInv /\ WholeInv => WholeTurnsShownOnce
  <2> SUFFICES ASSUME ShownInv, WholeInv, NEW t \in ended, NEW s \in Sessions,
                      <<t, s>> \in whole, roomStream[s].q = <<>>
               PROVE  /\ Cardinality(Shows(s, "user", t)) = 1
                      /\ Cardinality(Shows(s, "answer", t)) = 1
                      /\ \A i \in Shows(s, "user", t), j \in Shows(s, "answer", t) : i < j
    BY DEF WholeTurnsShownOnce
  <2>1. t \in Turns /\ s \in Keys
    BY DEF ShownInv, ChatTypeOK, LaneOK, Keys
  <2>2. WholePair(t, s)
    BY <2>1 DEF WholeInv
  <2>3. tabs[s] # None /\ Told(tabs[s].messages, roomStream[s].q, t)
    BY <2>2 DEF WholePair, Watched, Tale, Coming, EndAt
  <2>4. /\ Shows(s, "user", t) = QuestionAt(tabs[s].messages, t)
        /\ Shows(s, "answer", t) = AnswerAt(tabs[s].messages, t)
    BY DEF Shows, QuestionAt, AnswerAt
  <2>5. PICK i \in QuestionAt(tabs[s].messages, t), j \in DOMAIN tabs[s].messages :
                AnswerAt(tabs[s].messages, t) = {j} /\ i < j
    BY <2>3 DEF Told
  <2>6. Shows(s, "user", t) = {i}
    <3>1. AskedOnce(tabs[s])
      BY <2>1, <2>3 DEF ShownInv, OneQuestion, IsTab
    <3>2. \A a, b \in QuestionAt(tabs[s].messages, t) : a = b
      BY <2>1, <3>1 DEF AskedOnce, QuestionAt
    <3> QED  BY <2>4, <2>5, <3>2
  <2>7. Shows(s, "answer", t) = {j}
    BY <2>4, <2>5
  <2>8. Cardinality({i}) = 1 /\ Cardinality({j}) = 1
    BY FS_Singleton
  <2> QED  BY <2>5, <2>6, <2>7, <2>8
<1> QED  BY WholeInit, WholeNext, ShownInvAlways, <1>1, PTL DEF Spec
===============================================================================

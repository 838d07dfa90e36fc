# Verification of Rhumb

TLA+ models of the parts of Rhumb whose correctness depends on the order in
which things happen, the TLC configurations that check them, and TLAPS proofs
of the properties that matter most. Paths are relative to the repository root;
`host` stands for `agent-host/src`, `dash` for `dashboard-host/src`.

    tlc -config MCRooms.cfg MCRooms        # model-check
    tlapm RoomsProofs.tla                  # check proofs

## 1. The system

Rhumb runs two Node processes on a box and a desktop client. The **agent host**
serves chat rooms (each an agent session), gates the agent's infrastructure
tools behind operator approval, deploys services into Proxmox containers, keeps
an ontology, and runs a watchdog and a fleet of background agents. The
**dashboard host** serves surfaces the agent wrote, proxies to services and
executes data writes. The processes share files in a workspace and nothing else.

Each process is one JavaScript thread: code between two `await`s is atomic, and
everything hard happens *across* awaits, callbacks, processes and restarts.

| Part | State | Operations | Hard behaviour | What makes it correct |
|---|---|---|---|---|
| Turn queue (`host/queue.ts`) | lanes, aliases | enqueue, rekey, drain | concurrent senders; lanes move while a turn runs; a refused merge | one turn at a time per lane, no wedge, order kept, aliases reach lanes |
| Rooms (`host/server.ts`) | laneSession, subscribers | POST /messages, adoptSession, streams | session id learned mid-turn, shared draft key | no transcript fork, no room leaks into the next |
| Approval queue (`host/infra/pending.ts`, `router.ts`, `server.ts`) | entries, file, audit log | propose, resolve, run, record outcome, load | racing operators, failed writes, crash between approval and run | at most one run, only after a logged approval, terminal states final |
| Services (`host/services`) | `services.json`, containers | spawn, redeploy, stop, start, destroy | every operation spans many awaits; id reuse; rollback | entries name their own container, no silent orphan, blue-green never takes a service down |
| Principals (`host/agents.ts`, `backends/mngr.ts`, `index.ts`) | agent registry, in-flight set, worktrees | resolve, bind, ensureAgent, send, poll | two turns of one principal; late answers after a deadline | one agent per principal, an answer belongs to its turn |
| Session manager and index (`host/sessionManager.ts`, `sessions.ts`) | sessions file | run, upsert | read-modify-write of a file | no lost titles |
| Fleet (`host/fleet`) | none of its own: records and agents of mngr | spawn, check, collect, stop | cap counted before an await, partial spawn, reads at different moments | cap never exceeded, no child taken over, only final answers collected |
| Watchdog (`host/watchdog.ts`) | running flag | tick | a turn that never returns | no overlapping runs, eventual next run |
| Provisioning (`host/infra/provision.ts`) | roles, databases, data-sources file | provision | failure half-way, retry | a registered source works |
| Ontology (`host/ontology`, `infra/nodeFacts.ts`) | vault of Markdown, node facts | refresh, sync, read | refreshes that overlap and are not awaited; files that other processes write; a sync cut off | no dangling edge, a reader sees current placements |
| Data writes (`dash/data`) | pending writes, trust file, audit | propose, approve, trust, execute | double approval, restart, audit failure after success | a write executes once and is audited |
| Service probe (`dash/services`) | `services.json` (second writer) | probe round, proxy | cross-process lost update, overlapping rounds | statuses belong to the container probed |
| Surfaces (`dash/surfaces`, `watcher.ts`) | registry of surfaces | serve, watch | none | - |
| Client chat (`client/src/hooks`, `lib`) | tabs, streams, echoes | send, open, attach, events | two streams carry one turn; transcript fetched before attach | no lost or doubled message, spinner ends |
| Desktop shell (`client/src-tauri`) | proxy, SSE bridge | connect, forward | I/O | - |

Interaction: a POST enqueues a turn (queue); the turn runs the session manager,
which resolves a principal, and its backend, which finds or creates the
principal's agent, sends the prompt and polls for the answer, and which calls
`canUseTool` for a gated tool (approval queue); an operator resolves it over
HTTP; the executor runs the effect, most of them service operations, in the
turn or in the background. The turn's events go to two streams, the turn's own
and its room's, which the client merges. The agent host and the dashboard's
probe write the same `services.json`; the ontology projects that file, the data
sources, the surfaces, the dashboard's audit log and Proxmox's answers. The
fleet spawns children through the registry and the mngr CLI that turns use.

## 2. The modules

| Module | Models | Composition |
|---|---|---|
| `TurnQueue` | `host/queue.ts` | state and handlers as operators; the shared base of `Rooms` |
| `Rooms` | the message handler and `adoptSession` of `host/server.ts` | EXTENDS `TurnQueue`: one action is one handler of both files |
| `PendingActions` | `host/infra/pending.ts`, `router.ts`, `server.ts` (gates), `executeParked` of `index.ts` | stand-alone |
| `SerialTurns` | nothing of the code: what `POST /messages` promises | `Rooms` instantiates it with a refinement mapping |
| `DataWrites` | `dash/data/writes.ts`, `router.ts`, `trust.ts`, `audit.ts` | stand-alone |
| `ServiceOps` | `host/services/ops.ts`, `registry.ts`, `lxc.ts` | stand-alone |
| `MngrAgents` | `host/agents.ts` and `ensureAgent` of `host/backends/mngr.ts` | the base of `Principals` |
| `Principals` | the resolver of `host/index.ts`, the release in `sessionManager.ts`, `host/fleet/ops.ts` (spawn) | EXTENDS `MngrAgents` |
| `MngrSend` | `send` of `host/backends/mngr.ts`; check and collect of `host/fleet` | stand-alone: one agent; `Principals` shows that its turns do not overlap |
| `ChatClient` | `client/src/hooks/useChatSessions.ts`, `lib/chatStore.ts`, `lib/agentEvents.ts`, the stream registry of `src-tauri/src/proxy.rs`, the subscribers of `host/server.ts` | stand-alone; the order of turns it takes from the host is what `Rooms` shows |
| `Events` | the count of what the environment does | the base of the next three |
| `Provisioning` | `host/infra/provision.ts`, `ddlAudit.ts`, `appendDataSource` | EXTENDS `Events` |
| `ServiceStatus` | the two writers of `services.json`: `host/services/registry.ts`, `dash/services/probe.ts` | EXTENDS `Events` |
| `Ontology` | `host/ontology/projector.ts`, `router.ts`, `host/infra/nodeFacts.ts` | EXTENDS both: a registration or a deployment is followed by its sync in one action |
| `MC*` | instances for TLC | |
| `RoomsProofs` | lemmas about the queue's operators, theorems about the rooms, and that `Rooms` implements `SerialTurns` | EXTENDS `Rooms` |
| `PendingActionsProofs`, `DataWritesProofs`, `ServiceOpsProofs`, `PrincipalsProofs`, `MngrSendProofs`, `OntologyProofs`, `ChatClientProofs` | theorems | each EXTENDS the module it is named after |

Operators that a comment calls "mutant" are deliberate bugs, one per property.
They are used by no specification: replacing the definition named after them by
a use of the mutant must make TLC find the property violated. `PROJECT.json`
pairs them.

### TurnQueue and Rooms

| State | Code |
|---|---|
| `items[k]`, `running[k]` | `lanes.get(k).items`, `.running` and which turn it is; an absent lane is empty and idle |
| `alias[k]` | `alias.get(k) ?? k` |
| `drainKey[t]` | the local `k` of the `drain` call that runs turn t |
| `postedAs[t]` | the `lane` constant of the POST handler's closure |
| `laneSession[k]` | `laneSession.get(k)` |
| `resume[t]`, `targetId[t]` | the locals of the turn's closure |
| `used` | the sessions the backend knows (ghost) |
| `hung` | turns whose run will not end: `await decision` in `makeCanUseTool` that no operator takes, an SDK stream that stays open |

`PostMessage` is the POST handler with the enqueue and, on an idle lane, the
synchronous start of the turn up to its first await. `AdoptSession` is the
callback the backend calls mid-turn (or the return value of `run`): the map
entry, the rekey and `targetId`. `Settle` is the `finally` block: the depth
callback with its clean-up of `laneSession` and, in the same microtasks, the
next `drain` - it starts the next turn or drops the lane and its aliases.
`Hangs` is a run that from now on does not end: the code waits for a decision
and for the SDK's stream without a deadline (`host/infra/server.ts:45`,
`host/backends/sdk.ts:29`), so its lane stays busy; it may still report.

The rekey's branches are in the model, the refused merge too. `settle` keeps
the code's asymmetry: the flag is cleared on the Lane *object*, the next drain
looks the lane up by the *key* it captured. A lane whose captured key no
longer leads to it is wedged; that this cannot happen is `NoWedgedLane`.

The backend is an environment with three strengths (`Reports`): `stable` (a
resumed run reports the session it resumed, a fresh one a new session),
`forking` (a resumed run may report a new id, as when mngr re-creates a dead
agent, `host/backends/mngr.ts:845`) and `any` (it may report any id).

`SerialTurns` is what is left when the machinery is taken away: a room has a
turn at its front and a line behind it, a name leads to a room, and the turn at
the front writes the session of the room it stands in. The mapping is
`front <- running`, `behind <- items`, `room <- alias`, `writes <- targetId`,
`known <- used` and `accepted <-` the turns that were posted. Captured drain
keys, `laneSession` and `resume` have no counterpart: the refinement says they
come to the same.

### PendingActions

An entry has its status in memory (`mem`) and in the file (`disk`); `gate` is
the awaiting turn of a blocking proposal, `exec` the executor at work,
`hung` the executors that will never answer (`pool.query`,
`host/infra/pgAdmin.ts:8`, and the ssh and scp of a deployment,
`host/services/ssh.ts:37` and `:46`, have no time-out),
`effects` a ghost that counts starts of the effect, `outcome` a ghost with what
the executor's promise said. Each handler takes a parameter `f` that names which of its
writes throws, if any, and what the handler does then is the code's: an
exception out of `save` leaves the entry in the map, releases the gate before
it (`resolve`), or lands in `executeParked`'s catch block. A failure inside that
catch block is an unhandled rejection, which ends the process. `Crash` loses
memory, promises and the executor, one that hangs included; `Boot` is `load`. A handler has at most one
failing write.

### ServiceOps

A call is a small process with a program counter at every await whose answer
others can influence. It reads the registry as it begins; the check and write
of the registry at `Commit` are one step, as in the code. `ctr` is Proxmox:
lowest free id first, an absent or a running container cannot be deleted.
`warned` (containers a warning named), `abandoned` (left by a failed rollback
or a crash) and `cutOff` (services whose destroy deleted the container and did
not get to remove the entry) are ghosts. `Crash` ends every call in flight.
`teardown` and the stop-then-poll of an old container are one step each: nobody
else acts on a container that no entry names.

`cutOff` deserves a word. After such a destroy the entry names a container that
does not exist; a later destroy fails in `DeleteOld`, before `removeService`,
so the entry cannot be removed by the tool, and once Proxmox hands the id out
again the entry names another service's container. The code has no recovery for
this, so the three properties about entries and deletions are stated for
executions in which it has not happened.

### DataWrites

| State | Code |
|---|---|
| `op[w]`, `surface[w]` | the request: what it asks for and which surface its token names |
| `status[w]`, `actor[w]` | `PendingQueue.status.get(id)`; absent for a trusted write and after a restart |
| `awaited` | the `executeWrite` calls of this process that await the database |
| `stmt[w]`, `runs[w]` | the database's side of the statement, and how often it was handed over |
| `trust[s]` | the trust file: who granted surface s |
| `log[w]`, `told[w]` | the audit lines of w, and the names given in 409 answers |
| `panel`, `watching` | what a client that applies the events of `/pending/stream` holds |
| `auth[w]`, `wish[w]` | the authority of the run, and the winner's checkbox |

`Submit` is the write route, `Approve`, `Deny` and `TooLate` the branches of
the resolve route up to its await, and `RunSucceeds`, `GrantFails` and
`RunFails` what follows the await down to the answer, the trust grant included.
The database commits on its own (`DbCommits`), also for a client that died, and
may commit a statement whose connection broke. A rejection inside the router's
handler after the resolve is not caught by Express 4, so a failed grant ends the
process. One source is modelled: `isTrusted` compares pairs, so a surface under
two sources is two surfaces. Operators always have a name, as in identity mode.

### MngrAgents and Principals

| State | Code |
|---|---|
| `rec[p]` | the record of principal p in `agents.json`: status, bound native id, depth |
| `ens[c]` | where caller c is in `ensureAgent` and after: one program counter per mngr process it awaits |
| `ens[c].lane` | the sessions under which the lane of c's turn is known (module `Rooms`) |
| `inFlight` | `inFlightMngrAgentIds` of the resolver |
| `label`, `alive`, `terminal` | what `mngr list` would show: agents, their label, those that are DONE or STOPPED |
| `handed`, `messaged` | ghosts: session ids any client holds, agents that got a prompt |
| `spawn[s]` | a `fleet.spawn` call: waiting for the mutex, or counting |
| `mode` | the backend chosen at boot, `sdk` or `mngr` |

A caller is an operator's turn or the dispatch of a fleet child. `StartTurn` is
the resolver: a session's principal, or a reusable record of depth 0 that no
turn has in flight, or a new one. `EnsureAgent` walks through `ensureAgent`:
probe the bound agent, search by label, create, search again, bind. A listing
may be unknowable (a CLI failure, which the code distinguishes from an empty
list), a create may fail after it made the agent, agents die at any moment and
the host restarts with either backend. `CheckAndMint` is the fleet's admission:
the count under the mutex, the cap and the mint. Two things narrow the model.
The resolver's branch for a session id that names a principal directly is left
out: no client ever holds one. `stop` is reachable only through the clean-up of
a failed launch: nothing else in the code calls it. Names are minted per
principal, so they are always valid.

### MngrSend

`turn` is the running `send`: read the transcript (`before`), submit the prompt,
reconcile a non-zero exit, poll. `transcript` is mngr's common transcript;
`inbox` holds prompts that were submitted and are not in it yet. The agent
answers in any order, late or never, with narration before. A text is
abstracted to the prompt it belongs to. `answer[q]` is the entry that turn q
reported. `collector` is a `collect` call between its four reads of a child:
liveness, transcript for the status, transcript for the text, transcript for
the reason.

### ChatClient

| State | Code |
|---|---|
| `tabs[k]` | the chat of key k in `chatStore`: entries, `openTurns`, whether its stream is stale |
| `turnKey[t]`, `turnStream[t]` | `turnKeys` and `turnStreams` of the hook, with the frames in flight |
| `roomStream[s]` | the session stream of s and its frames |
| `opening` | `openSession` calls that await their transcript |
| `retryTimers[s]` | the pending retry timers of s: the one `retryTimers` holds, which `close` clears, and those a later one replaced there; one that fires re-attaches the stream even if it is up again |
| `lane`, `session`, `laneSession` | the host's queue and session ids, as in `Rooms`, for one room per session |
| `clean`, `late`, `whole` | ghosts that name the executions a property is about |

Each stream delivers in order; two streams and the POST are not ordered. The
host broadcasts a content event to the room's subscribers and to the turn's; the
client renders a turn's frame only when no session stream of that key is held
or it is stale, and upserts questions by turn. Behaviours worth knowing that the
properties exclude by name: the POST may overtake the GET of its own stream,
although `host/server.ts:100` says "stream-first", and a turn that ends before
its stream is up is never closed out by it (`late`); after a promotion
`hasSessionStream` is true at once, so what arrives on the turn's stream before
the room's subscription is up is dropped (`useChatSessions.ts:203`, so `whole`
starts with a live room stream); the transcript of a resumed tab is fetched
before its stream is attached (`:121`).

### Provisioning, ServiceStatus and Ontology

`Provisioning`: `call[c]` is at one of five statements; role, database, audit and
entry stay when the next one fails. A statement whose connection breaks may have
been executed. A provisioning that failed half-way makes every retry of the
same name fail at the role or the database that exists: the code has no way
back, and the model shows it as calls that can only fail.

`ServiceStatus`: `hostOp` is the agent host's list between its read and its
rename (one callback, but the other *process* runs in between), `writer` the
dashboard's list between its read, the truncation and the write. A round keeps
the container it probes for each service; rounds overlap. `raced` remembers that
one process read or renamed within the other's write: the code has no lock
against that, and then an entry can be lost; a crash between truncation and
write leaves a torn file, which reads as empty. The status is written by
service id after a redeploy has changed the container: it heals in the next
round, which is `StatusConverges`.

`Ontology`: `vault` is the system layer as nodes and edges. `Sync` writes every
node and removes the others in one callback, or fails at some write and leaves
a mixture (`intact`). A refresh of the facts is split at its two calls of
Proxmox; the one that `GET /ontology` starts is awaited, the ones a mutation
starts are not. A torn `services.json` makes a sync drop the services silently,
as in the code.

## 3. What the runs check

| Run | Instance | States | Shows |
|---|---|---|---|
| `rooms` | 4 turns, 2 draft keys, 3 sessions (1 on disk), `stable` | 57 129 | the room properties, and that `Rooms` implements `SerialTurns` |
| `rooms_any` | 3 turns, 2 draft keys, 2 sessions, `any` | 111 691 | the queue properties under colliding reports |
| `rooms_forking` | as `rooms`, `forking` | | **violated**: `NewRoomStartsFresh` |
| `pending_actions` | 2 actions, 1 failed write, 2 crashes | 10 088 | the approval properties |
| `service_ops` | 3 calls, 2 services, 4 container ids, 2 faults | ~367 000 | the service properties, one call at a time per service |
| `service_ops_racing` | 2 redeploys of one or two services, no faults | | **violated**: `NoSilentOrphan` |
| `data_writes` | 2 writes, 2 surfaces, 2 operators, 1 failed file write, 1 crash | ~334 000 | the properties of data writes |
| `agents` | 3 principals, 2 agents, 2 conversations, 2 spawn calls of up to 2 tasks, cap 2 | 969 512 | who talks to which agent; the fleet's cap |
| `mngr_send` | 3 turns on an agent, 1 entry of narration each | 116 514 | which answer a turn reports, what collect hands out |
| `chat` | 2 turns, 1 session and the draft, 1 fault, 1 tab opened | 653 173 | the two streams of a turn make one transcript, turns are closed out |
| `chat_spinner` | as `chat`, no tab opened | | **violated**: `SpinnerStops` |
| `inventory` | 1 database provisioned twice, 1 service over 2 containers, 2 rounds, 2 hosts, 2 refreshes, 3 events | 1 912 054 | the files the processes share, and their projection |

Why the bounds are enough. *Rooms*: a fork needs two turns in flight or one in
flight and one waiting; a leak into the next room needs a room of two turns and
a second room on the same key; four turns give both at once. Two draft keys and
three sessions let rooms overlap. *rooms_any*: the refused merge needs a turn in
flight on each of two lanes, the wedge one more that waits. *PendingActions*:
actions share nothing but the file, so two show the interference there is; the
second crash meets what the first boot wrote. *ServiceOps*: three calls let an id be
freed and reused by another service while a third call is in flight; four ids
are one per call and the initial one, so no create fails for want of an id; two
faults are a failed step and a failed rollback of it. *DataWrites*: a grant
and the trusted write that uses it are two writes, a race is two operators, and
a second surface shows that the grant of the first does not cover it. *agents*:
two conversations race for one record, a third record is the child that they
must leave alone, two agents allow one to be re-made after the other died, and
two calls of two tasks can exceed a cap of two only by overlapping. *mngr_send*:
a late answer, the turn that meets it and the one after it are three turns.
*chat*: the second turn queues behind the first, races its promotion or comes
from another operator; the one fault is a dropped stream, a lost POST or a
restart. *inventory*: a race for a name is two calls; a stale probe is a round
that began before a redeploy, beside one that began after it; a stale placement
needs two hosts and two refreshes. In each behaviour of `inventory` either the
dashboard host or the rest of the agent host works beside the deployments
(variable `part` of `MCOntology`), which meet in `services.json` only, so no sync of
this run reads a file torn by the dashboard; the theorems have no such split.

Properties:

- `OneTurnPerSession`: no two turns in flight write one session's transcript.
- `MapsAgree`: the queue's aliases and the server's session map, kept on
  different events, always agree.
- `QueuedTurnContinuesRoom`, `NewRoomStartsFresh`: a queued turn continues the
  session of the one ahead; the first turn of a new room resumes nothing (proved
  for a stable backend, and violated by a forking one).
- `AliasesReachLanes`, `NoWedgedLane`, `ArrivalOrder`, `OnlyHungLanesWait`:
  aliases are single-hop and lead to live lanes; a lane with waiting turns
  executes one; turns posted under one key start in order; every accepted turn
  settles except those in the lane of a run that hangs, which holds up its own
  room and no other.
- `ImplementsSerialTurns`: every behaviour of the rooms is one of `SerialTurns`.
- `AtMostOneRun`, `RunIsNeverOfferedAgain`, `RunsOnlyApproved`,
  `TerminalIsFinal`, `StatusMatchesOutcome`, `ApprovedParkedCompletes`: an
  effect starts at most once, after a logged approval; a started action is not
  offered again by this process or the next; terminal states in the file stay;
  without failed writes the status tells what happened; an approved parked action
  ends up executed or failed unless a write fails, or its executor hangs and the
  host is never restarted.
- `RunsAtMostOnce`, `TrustRidesOnApproval`, `LogMatchesDatabase`,
  `PanelIsCurrent`: a write reaches the database once; a
  standing rule goes back to an approval that won and executed, and never
  covers a deletion; log and database agree; the panel shows what waits for a
  decision. `LoserLearnsWinner` (a late operator is told the name the log
  holds) is proved and not run.
- `NoSilentOrphan`, `EntriesNameLiveContainers`, `DeletesOnlyItsOwn`,
  `ServiceStaysUp`: see the module.
- `OneTurnPerPrincipal`, `BindingFollowsLabel`, `FreshConversationsAreFresh`,
  `TurnsLeaveChildrenAlone`, `FleetWithinCap`: turns that run at once have
  different principals; a record is bound to an agent made for it; a
  conversation that starts never lands in an agent that has been prompted; no
  turn adopts a fleet child; the cap holds over overlapping spawns.
- `AnswersAreReportedOnce`, `AnswersItsOwnPrompt`, `CollectedIsFinal`,
  `TurnsEnd`: no entry is two turns' answer; a turn that begins when nothing is
  outstanding reports its own (after a time-out the next turn may report the
  late answer: the code has nothing to tell them apart); a child's result is its
  final answer; every turn ends.
- `QuestionShownOnce`, `WholeTurnsShownOnce`, `BusyWithOpenTurns`,
  `OverIsClosedOut`: the optimistic entry and two echoes are one message; a turn
  whose room stream was up throughout is shown once, question first; the busy
  count is the number of open turns; a turn that is over is closed out.
- `SourceIsUsable`, `EntriesSurviveProbes`, `StatusConverges`, `EdgesResolve`,
  `ReaderIsCurrent`: a registered source has its database, audit and password;
  probes lose and resurrect no service; statuses converge to the health of the
  current container; no dangling edge; a reader whose refresh was alone sees no
  placement older than its request. With another refresh under way before the
  request, an older answer may be written last: the property excepts it.

Deadlock checking is off in every run: turns, actions, calls and events are
finite, and when all are spent the system rests.

### Three disagreements between comments and code

1. `rooms_forking`. `host/server.ts:139` says the lane-to-session mapping must
   not outlive the lane. With a backend that gives a resumed session a new id it
   does: turn 1 under draft d learns s; turn 2, posted under s while the lane is
   alive, learns u; the lane drains under u, the clean-up by value removes
   `laneSession[s]` and `laneSession[d] = s` survives. The next new room under d
   resumes s. Under `any`, `OneTurnPerSession` fails too: a refused rekey leaves
   two lanes that resume one session.
2. `service_ops_racing`. `host/services/ops.ts:158` says that of two racing
   redeploys one registry write throws and its side tears down. `replaceService`
   throws only for a missing id: both succeed, and the first one's container
   keeps running with no entry and no warning that names it.
3. `chat_spinner`. `client/src/hooks/useChatSessions.ts:60` says that a turn that
   is over drops its busy count. A second message sent in a draft before the
   first turn has its session keeps the draft's key when the draft is promoted;
   if it ends before its own session event (a lost POST, a dropped stream, an
   early error), the count is dropped under a key that has no tab any more, and
   the promoted tab stays busy for ever. The same happens to a draft that is
   promoted onto a session which has a tab already; `clean` excludes both in
   `BusyWithOpenTurns`.

## 4. Fairness

`Rooms`: weak fairness, per turn, of its `Settle`, which is enabled only for a run
that does not hang: such a run ends (mngr's send polls up to a deadline, an SDK
stream ends or throws when nothing holds it), and the `finally` block follows in
microtasks. Any run may hang instead (`Hangs`), at any time and for ever: a gated
tool awaits its operator without a deadline. Posting and reporting are not fair:
clients owe nothing, and operators owe no decision.
`PendingActions`: weak fairness of `Boot` (systemd restarts the host,
`scripts/systemd/rhumb-agent.service.tmpl:21`) and, per action, of the answer of a
parked executor that does not hang. Any executor may hang (`Hangs`): the database
call and the ssh of a deployment have no time-out. Operators, gates and turns owe
nothing.
`MngrSend`: weak fairness of `Send`: every mngr process is killed at its
time-out and the poll has a deadline; nothing is assumed of the agent.
`ChatClient`: weak fairness, per turn, of its stream's coming up and of its
frames' delivery: a connection succeeds or is found dead, and in-order delivery
is TCP's. Nothing is assumed of operators, of the POST or of the agent.
`Ontology`: weak fairness of the dashboard's steps, which are timers,
time-outs and callbacks of its own process.
`ServiceOps` has no liveness property: its calls end by timeouts that the model
does not measure. Neither has `DataWrites`: `pool.query` has no timeout, so the
code does not promise that an executing write ends. `Principals` has none: an
agent may die as often as the model lets it.

## 5. What is proved

Every safety invariant and every action property of the passing runs, and the
refinement, are theorems: for every set of turns, keys, sessions, actions,
agents and files and every bound.

| Theorem | Assumes |
|---|---|
| `RoomsProofs`: `TypeCorrect`, `AliasesAlwaysReachLanes`, `NeverWedged`, `TurnsStartInOrder` | nothing about the backend |
| `RoomsProofs`: `NoTranscriptFork`, `MapsAlwaysAgree`, `NewRoomsStartFresh`, `QueuedTurnsContinue`, `RoomsAreSerial` | `Reports = "stable"` |
| `PendingActionsProofs`: `TypeCorrect`, `RunsAtMostOnce`, `NeverOfferedAgain`, `OnlyApprovedRuns`, `StatusIsTrue`, `FinalIsFinal` | - |
| `DataWritesProofs`: `TypeCorrect`, `OneRunPerWrite`, `TrustIsEarned`, `LogIsTruthful`, `PanelsAreCurrent`, `LosersAreTold` | - |
| `ServiceOpsProofs`: `TypeCorrect` | - |
| `ServiceOpsProofs`: `NoOrphans`, `EntriesStayLive`, `NoForeignDelete`, `ServiceKeepsRunning` | `OneOperator`: calls on one service do not overlap (`ops.ts:154-157`) |
| `PrincipalsProofs`: `TypeCorrect`, `NoSharedPrincipal`, `BindingsFollowLabels`, `NothingIsInherited`, `ChildrenAreLeftAlone`, `CapHolds` | - |
| `MngrSendProofs`: `ReportedOnce`, `ReportedToItsPrompt`, `CollectedAnswersAreFinal` | - |
| `OntologyProofs`: `RegisteredSourcesAreUsable`, `EntriesSurvive`, `EdgesAlwaysResolve`, `ReadersAreCurrent` | the cluster has finitely many hosts |
| `ChatClientProofs`: `TypeCorrect`, `QuestionsShownOnce`, `TabsBusyWithOpenTurns`, `WholeTurnsAreShown` | - |

Beside these, each module's named ASSUME says that its constants are sets of
the right kind and that `None` and the draft key are not among their members;
TLC evaluates it on every run. Without `OneOperator` the run
`service_ops_racing` refutes `NoSilentOrphan`, so the assumption is needed.

*Queue.* `QInv` joins the type, `AliasesReachLanes` and `NoWedgedLane` with
three facts they need: a turn is in at most one place (`TurnsAreDistinct`), a
turn on a lane was posted under a key that leads there (`TurnsKnowTheirLane`),
and the key a running drain captured leads to its lane (`DrainsKnowTheirLane`).
The last is what rules the wedge out: a rekey moves a lane only together with
every alias that reaches it, and refuses when the destination is live.

*Order.* `OrderInv` adds to `ArrivalOrder` that an accepted turn has started or
waits in a lane (`TurnsArePlaced`), that turns are accepted in the order of
their numbers, and that a lane holds its turns in that order (`LanesInOrder`). A
rekey moves a whole lane onto an empty one, so it keeps the order; a turn that
starts is the first of a lane, and by `TurnsKnowTheirLane` all that was posted
under its key before it waited in that lane, ahead of it.

*Rooms, stable backend.* `MapsAgree` is not inductive alone. `StableInv` adds:
a session key is never redirected (`SessionsStay`), a draft's alias and mapping
move together (`DraftsFollow`), a running turn writes only the session whose
lane it runs on, or none on a draft lane (`RunsOnItsLane`), and a live session
lane names a session that exists (`LanesAreUsed`) - so a session reported as
new has no lane yet and the rekey is never refused. `NoTranscriptFork` follows:
two running turns are on two lanes, hence on two sessions.

*Refinement.* `RoomsAreSerial` maps `PostMessage` to `Post`, the first
`AdoptSession` of a draft room's turn to `Name` and a later one to a stutter,
and `Settle` to `Finish`. `StableInv` supplies what the mapping needs: the rekey
is never refused, only the draft key itself leads to a draft's lane, and a
turn that starts writes the session its lane is named after.

*Data writes.* `Inv` says for each phase of a write what the others can be: an
unsubmitted or pending write has not run, has no line and nobody was told of
it; a decided one has an operator, whose name is the only one in its line and in
its 409 answers; an awaited one that was approved is executing. A voucher (a
write with the line "executed" and the wish) never loses either, because
surface and wish change only while a write has no line. The log needs a second
invariant (`AllLogged`): a write that awaits the database has no line yet, one
that was handed over and is awaited no more has one unless something failed, and
a line is only ever added to an empty log.
`PanelIsCurrent` is inductive next to `Inv`: whatever changes a status sends the
event in the same callback.

*Approval queue.* `Inv` is a conjunction per action: where the gate is
determines what the status can be, and an effect that has started means the
status in memory *and* what `load` would make of the file are both past
`pending`. The second half is what a crash needs. What the *file* says has an
invariant of its own (`Entries`): the map may be ahead of the file after a
failed write, and never behind one of its final entries (`FinalInMemory`), so
neither a later save nor a boot can undo one; while no write has failed the two
are equal, and an executor at work has an approved entry (`Unfailed`).

*Services.* A container is claimed by the service whose entry names it, by the
call that provisions it, or by the redeploy that has replaced it and not
deleted it yet. `OpsInv`: no container has two claims, a claimed one exists
(`Claims`), a running one has a claim or is known to be left behind
(`RunningIsAccounted`). Both rest on `ReadHolds`: what a call read of the
registry before its awaits is still so when it commits, because no other call
works on the service (`Alone`). The second redeploy of `service_ops_racing` is
the step that breaks it. `Claims` is stated until a destroy is cut off, for the
reason given in section 2.

*Principals.* `OneTurnPerPrincipal` alone is not inductive: the resolver's
session branch takes a bound principal without looking at the in-flight set. It
is safe because a lane covers the sessions of the turn that runs on it
(`LanesCoverSessions`), a session that a client knows is the binding of its
label's record or belongs to a dead agent (`SessionsAreBound`), and at most one
live agent has a label (`OneAgentEach`). The last rests on the search before
each create, on names that a live agent blocks, and on a record having one
caller (`TurnsHoldPrincipals`, `DispatchesHoldChildren`), which is the
conclusion again: hence one induction for all of them. `CallersHoldBindings`
carries `FreshConversationsAreFresh`: only a bound agent is ever sent a prompt.
The cap is a second induction (`FleetInv`): one call counts at a time
(`OneCounts`), and what it has read covers every child that works or is being
launched when it checks (`CountCoversFleet`), although agents come to life
after the listing. That needs `LaunchedAreFresh`: an agent found for a child that
is being launched has done nothing yet.

*MngrSend.* Whatever was reported was in the transcript when the running turn
took its baseline (`AnswersPrecedeBaseline`), so a new answer is another entry.
`CleanTurnIsAlone` follows a clean turn: nothing outstanding until it submits,
afterwards at most its own prompt, and only its entries past the baseline. For
collect, a child has one prompt (`ChildHasOnePrompt`), nothing follows its
answer (`TranscriptInOrder`), and each way to `done` implies that the answer is
there.

*Shared files.* Provisioning: a call that is past a statement owns what it
created (`CallsOwnWhatTheyMade`), and nothing is ever taken away. `services.json`:
while nothing has raced, a list about to be written has the registered
containers and its writer's own change (`HostOpIsCurrent`, `WriterIsCurrent`),
and the dashboard tears only a file it has open. `EdgesResolve` is inductive
by itself: every projection resolves, and a step that writes less clears
`intact`. `ProvisionSteps`, `StatusSteps` and `VaultStep` reduce the steps of the
composition to those of each part. A reader of
the ontology (`ReadInv`): a refresh that began with the request has read hosts
among which is one each container has had since (`RefreshesAreRecent`), so the
placement it writes, and the guess when there is one host, is not older than the
request (`FactsAreRecent`).

*Chat.* Three inductions, each on the one before. `ShownInv`: the host knows
nothing of a turn before its POST arrived, nothing of an unanswered turn is in
flight or shown as answered, and each tab holds a question once
(`OneQuestion`); a promoted draft becomes a tab only where there is none.
`BusyInv`: a turn's stream brings its session once, before any end and before
it closes (`SessionComesOnce`), so the promotion, which moves the turn's key,
comes before what closes the turn out; an open turn has a key
(`OpenHasKey`) and a tab of that key (`OpenHasTab`), and so the count that
`finishTurn` takes back is the one that the turn added. `WholeInv` follows a turn that its
room's stream carries: while it runs, its question is shown or on the stream and
no answer is (`Untold`); once it has ended, either its end is still on the stream
behind its question (`Coming`), or question and answer are shown in order
(`Told`). A frame delivered or added takes each of the three to the next.

**Only model-checked** are the five liveness properties: `OnlyHungLanesWait`,
`ApprovedParkedCompletes`, `TurnsEnd`, `OverIsClosedOut` and `StatusConverges`.
They rest on fairness, and the provers handle neither it nor ENABLED here.
`NewRoomStartsFresh` under a forking backend, `SpinnerStops` and
`NoSilentOrphan` without `OneOperator` are false, and their runs show it.

## 6. Not modelled, and why

- Text (prompts, envelopes, SQL building, manifests, the Markdown of a node), pure
  I/O (ssh, the Proxmox client, proxying, the stdio of mngr, discovery in the
  desktop shell), rendering, stateless guards.
- The watchdog: a timer and a flag around one await.
- The session index: titles in memory, written whole by one thread.
- The sdk backend: the vendor's SDK; what `Rooms` needs of it is `Reports` and
  `Hangs`.
- Presence, typing and uploads: broadcasts and files that nothing reads back into
  the state modelled here. A snapshot of the dashboard's watcher carries surfaces
  only (`dash/index.ts:55`), so connected clients do not see services until they
  reload; no property is stated about it.
- The edge `created-by` to a node `agent`, which no projector writes: `EdgesResolve`
  is about the other edges.
- The ontology's domain layer, vm layer and graph query; the DDL facts.
- Several draft tabs: the workspace opens one.
- `executorCache` of the dashboard (an executor is kept for ever) and the
  surfaces' registry, which is rebuilt whole on every event.
- A POST whose answer is lost after it arrived: the client would close a turn
  that runs; `PostFails` is the POST that never arrives.

## 7. What is left

1. The backend's external choice `Reportable` of `Rooms` replaced by
   `Principals`, so that the forking backend is the one the code has.
2. An abstract specification of the approval queue (proposed, decided, run once)
   and the refinement of it by `PendingActions`.

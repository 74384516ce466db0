# A TLA+ model of the ascendimacy motor

Specifications, model-checking configurations and machine-checked proofs for
the motor of this repository: the orchestrator daemon and its turns, the
approvals, the WhatsApp channel and its bridge, the LLM gateway and its clients,
the hooks of the scheduler, what the program keeps of a child (drills, statuses,
helix, programme, cards), what a turn says, and the console. File paths below
are relative to the repository root; line numbers are in `PROJECT.json` (`map`),
which ties every definition to the code it models.

1. [The system](#1-the-system): its parts, state, operations, hard behaviours
2. [The modules](#2-the-modules) and how they correspond to the code
3. [The runs](#3-the-runs): what is checked, bounds, fairness
4. [The proofs](#4-the-proofs)
5. [Where the code and its documentation disagree](#5-where-the-code-and-its-documentation-disagree)
6. [What is not modelled](#6-what-is-not-modelled)
7. [Plan](#7-plan)

## 1. The system

A child (or a trio of children) chats on WhatsApp; an adult operator supervises
from a console. A message may activate a *card*; a card runs one *turn*:

```
WhatsApp -> motor-channels (Baileys, inbound bridge, rate limit)
              | startCardSession            ^ submitForApproval / decision
              v                             |
         orchestrator daemon (sessions, gates, approvals, event buffers)
              | runTurn: MCP calls           ^ subscribeTurnState,
              v                              | overrideSelection, approveOrEdit
   planejador, motor-drota, motor-execucao   console BFF <- console UI
              |                |  (SQLite)
              v                v
         llm-gateway (token buckets, routing, retry) -> LLM providers
```

All processes are Node programs, each with one event loop. Within a process,
what happens between two `await`s is atomic, and everything else interleaves.
The SQLite driver is synchronous: a tool of motor-execucao runs to its end
before the next one starts.

| Component | State it keeps | Operations | What makes it correct |
|---|---|---|---|
| Orchestrator daemon (`orchestrator/src/daemon.ts`, `mcp-server.ts`) | `started`, `shuttingDown`, `clients`, and maps by session: `sessions`, `pendingGates`, `pendingApprovals`, `turnEvents` | start, stop, runCardTurn, the option gate and its timer, overrideSelection, submitForApproval, approveOrEdit, subscribeTurnState, endSession | a call settles once; a gate entry belongs to a turn that waits; an accepted override reaches its turn; the event stream has no silent gap; no child process outlives a restart |
| Turn pipeline (`orchestrator/src/orchestrator.ts`) | none of its own: it reads and writes motor-execucao | runTurn: signals, drills, plan, gate, selection, execution, events, trace | events in order; fail-soft calls never end a turn; what the log tells of was recorded |
| Inbound bridge and rate limit (`packages/motor-channels/src/orchestrator-bridge.ts`, `rate-limit.ts`) | a subscription, a token bucket, one process per card | handleInbound, processCardActivated, acquire | nothing goes out unapproved; every card ends |
| WhatsApp channel (`baileys-channel.ts`, `cards-loader.ts`) | socket, handlers, timers, card cache | start, stop, send, reconnect, load, invalidate | a line is lost only for a reason; no reconnection begins after stop(), though a connect in flight still makes its socket; no stale card |
| LLM gateway (`llm-gateway/src`) | a bucket and a degraded mark per provider | chat_completion, acquire, drain, retry | the rate holds; first come first served; requests settle within a known time |
| Drills (`motor-execucao/src/drill-repo.ts`, `shared/src/sr-algorithm.ts`, `orchestrator/src/drill-orchestrator.ts`) | `drill_states`, `drill_attempts`, events | recordAttempt, listDue, proposeDrillItem | mastery is earned and kept; rows and audit log agree |
| Execution store (`motor-execucao/src`) | SQLite: sessions, event log, status matrix, programmes, cards, threads, objectives | one tool per operation | no lost update; a question is answered once, an ascent earns one card, serials differ |
| Planner (`planejador/src`) | caches of configuration; otherwise stateless | plan_turn: signals, transitions, crisis, inquiry, move | the rules read the events in the order they were logged; a crisis is seen |
| Drota (`motor-drota/src`) | none: what it says is recorded by the turn | evaluate_and_select in three pipelines, extract_signals | an override is what is said; what is recorded was said |
| Temporal scheduler, MC1 (`orchestrator/src/temporal-scheduler.ts`, `mc1-scheduler.ts`, `motor-execucao/src/mc1-repo.ts`) | last emission and hooks of the day in memory, scheduled messages in SQLite | tickScheduler, checkAndDeliverMC1 | vetoes in order; a message delivered at most once, and in the end |
| Trio runtime (`orchestrator/src/trio-runtime.ts`, `trio-orchestrator.ts`) | the history of a group | decideNextSpeaker, decideBrejoPause, appendTurnHistory | the bot keeps to its share, everyone is asked |
| Status matrix, helix, Gardner programme (`shared/src`, `planejador/src/strategist`, `motor-execucao/src`) | status per dimension, phase, counters | transition, advance, pause, resume | "nunca pular brejo->pasto"; programmes pause and resume by their rules |
| Console back end (`packages/ebrota-console-bff/src`) | SQLite (runs, decisions, index of traces), child processes, a client of the daemon | HTTP routes, a watcher, a stream of turn events per page | a run ends once; the index rests on the files; the stream has no gap it hides |
| Console UI (`packages/ebrota-console-ui/src`) | the snapshot of the current turn, the pending approval | folds events, polls, posts decisions | the page shows what the daemon holds |
| Clients (`orchestrator/src/mcp-clients.ts`, `shared/src/gateway-client.ts`, `daemon-client.ts`) | connections, child processes | connect, call, close | no leaked process, none started twice |
| Weekly report, scripts, fixtures | - | batch jobs | - |

The hard behaviours, each at its line in `PROJECT.json` (`hazards`), are:

* **Timers that race.** A gate's timer against an override, another gate of the
  session and a shutdown; an approval's timer against the operator; a waiter's
  timeout against the drain of the bucket; a backoff against a budget.
* **State read before an `await` and used after it.** `this.clients` in
  runCardTurn, the registry in startSession, the event window in runTurn.
* **Shutdown in the middle.** stop() sweeps the maps, then awaits the disposer;
  turns go on meanwhile and open gates, file approvals and create sessions.
* **Partial failure.** A drill scored but not logged; an audit entry without its
  row; a trio half connected; a message marked delivered and not emitted; a turn
  that throws after its text was made.
* **Order.** The event window comes newest first, and its readers do not agree
  on that; scans of the traces that overlap; a cancellation against the exit of
  the child.
* **Connections.** A reconnection, a stop and a start in flight together; a
  shared client connecting while it is closed; a stream that outlives a restart.
* **Long sequences.** Helix and programme are row-sized state machines that calls
  of many kinds move about for weeks; who speaks next in a group depends on the
  turns, silences, exclusions and interjections before.
* **Boundaries.** A capped event buffer with a global index, a bucket at its
  capacity, a budget in its last tick, an interval beyond the last date, windows
  past midnight.

## 2. The modules

Modules that model code, with their proofs beside them (`X_proofs`) and their
instances for TLC (`MCX`, one `.cfg` per run).

| Module | Models | Extends / uses | Run |
|---|---|---|---|
| `CardCall` | what a caller of startCardSession may rely on (abstract) | - | `daemon`, `delivery` |
| `OrchestratorDaemon` | daemon.ts and the awaits of runTurn | implements `CardCall` | `daemon` |
| `CardDelivery` | the bridge, the approvals, the rate limiter | uses `CardCall` | `delivery` |
| `TokenBucket` | token-bucket.ts | - | `bucket` |
| `GatewayRouter` | router.ts, retry.ts | uses what `TokenBucket` promises | `router` |
| `SpacedRepetition` | sr-algorithm.ts and the row recordAttempt saves | - | `pedagogy` |
| `DrillLoop` | the drills of runTurn over event log and rows | extends `SpacedRepetition` | `pedagogy` |
| `StatusZones` | transition of status-matrix.ts | - | `pedagogy` |
| `StatusMatrix` | persistTransition with concurrent writers | extends `StatusZones` | `pedagogy` |
| `EventWindow` | the log as get_state shows it | - | `pedagogy` |
| `TriggerLoop` | signals, rules, crisis, closed loop of a turn | `StatusZones`, `EventWindow` | `pedagogy`, `crisis_window` |
| `InquiryLoop` | the repetition inquiry, asked and answered | `EventWindow` | `pedagogy` |
| `CardIssue` | the card an ascent earns, its serial | `StatusZones` | `pedagogy` |
| `DrotaTurn` | what a turn says and records, in three pipelines | - | `pedagogy` |
| `HelixEngine` | helix-engine.ts, kids-helix-state.ts | - | `pedagogy` |
| `GardnerProgram` | gardner-program.ts, nextPhase | - | `pedagogy` |
| `TrioRuntime` | trio-runtime.ts, brejo-composer.ts | - | `pedagogy` |
| `JourneyState` | journey-state-repo.ts, session-phases.ts | - | `pedagogy` |
| `OperatorDesk` | ApprovalGate.svelte, its routes, jun_decisions | - | `pedagogy` |
| `ParentalOnboarding` | the last steps of the wizard, its completion | - | `pedagogy` |
| `BaileysChannel` | the socket of baileys-channel.ts | - | `background` |
| `CardsLoader` | the cache of cards-loader.ts | - | `background` |
| `GatewayClient` | gateway-client.ts | - | `background` |
| `DaemonClient` | the console's daemon client, connectAll, disconnectAll | - | `background` |
| `TemporalScheduler` | tickScheduler, MC1 | - | `background` |
| `StsRuns` | the runs of s5-routes.ts | - | `background` |
| `TraceIndex` | traces-scanner.ts, its watcher | - | `background` |
| `TurnStream` | event buffer, stream of the console, snapshot of the page | - | `background` |

`MCPedagogy` and `MCBackground` put together components that share no variable:
`component`, chosen in Init, says which of them a behaviour is about, so that
their states add up instead of multiplying, and the safety properties of a
component are asked of its own behaviours.

Definitions whose comment says *Faulty variant* are plausible bugs: each one,
put in the place of the definition after it, breaks a property of the run. They
show that the property sees the code, and no specification uses them.
`RecordsKept`, `CachesFresh` and `ProcessesOwned` join several components:
`PROJECT.json` names one variant for each property, and the others were put in
place in the same way. Each of the eight components of `RecordsKept` has at least
one that breaks it (`InquiryLoop`, `CardIssue`, `DrotaTurn`, `OperatorDesk`,
`ParentalOnboarding`, `GardnerProgram`, `JourneyState`, `HelixEngine`), each of the
three of `CachesFresh`, and `GatewayClient` and `StsRuns` of `ProcessesOwned`.

### OrchestratorDaemon, CardCall

The variables are the fields of `OrchestratorDaemon` (`sessions` and
`pendingGates` hold the card whose call owns the entry), and, for every call of
runCardTurn, `pc`: the await it is suspended in. `trioOf` is the set of clients
a call captured, because runCardTurn reads `this.clients` again after its first
await and keeps the object from then on. `pushed` is a history variable: the
events of a session as nobody evicted them.

The actions are the synchronous stretches of the code: `StopCall` is stop() up
to the disposer's await, `StopDisposed` the rest; `Hydrated` is startSession
from the answer of get_state on, `GateTimeout` the callback of setTimeout. A
turn's fail-soft calls are no actions, since they change nothing here; a call
that may reject does so in `CallThrows`. A reply can come only from a trio that
is still connected (`Replies`), a rejection at any time. The class may be
started again after a stop(), which resets its flags, and the model starts it
again; the daemon of production exits after stop(), so that `NoOrphanTrio` is
about the class and not about a daemon that runs.

`CardCall` is the abstract view: a call is settled at most once, and in the end.
`OrchestratorDaemon` implements it under the mapping `CallOf`, and
`CardDelivery` is built on `CardCall` alone.

### CardDelivery

`st` is where processCardActivated has got, `pending` is `pendingApprovals`,
`decision` what the promise of an approval resolved to, `acked` (history) what
the operator was told is accepted. `Resolve` is the resolver of a promise: a
second resolution has no effect. `StopCall` and `StopDisposed` are the
daemon's; submitForApproval looks at neither, and so does `SubmitForApproval`.
The daemon of this module is not restarted: a restart does not touch an
approval. A reply that has passed the gate takes a token from the rate limiter,
whose waiters poll in no order, and is sent or fails.

### TokenBucket

A clock in milliseconds; the level counts the milliseconds of refill it stands
for, so that `acquire` subtracts `Cost` and no fraction is lost. `lag` is the time
since the lazy refill last ran, `drainIn` the timer of the drain, which may fire
late but not early. `window` is an observer that may start anew at any time and
adds up what is granted: `NeverFasterThanRate` is about every window.

### GatewayRouter

A request is a record: the provider it is busy with, the budget of that
callOnce, and one counter per span of time the code measures (`elapsed` since
chatCompletion began, `retryAge` since retryWithBackoff began, `left` of the
present wait). `markAge` is the degraded mark, shared by the requests; `failAge`
is history: when a call to the provider as a primary last failed. Time does not
pass beyond a timer that is due, so the durations shown are those of an idle
event loop.

### SpacedRepetition, DrillLoop

`SpacedRepetition` is SM-2 in hundredths of easiness and whole days. The code
computes in doubles: where a product is an exact half, `Rounded` allows both
neighbours, for the double may fall short of it. `Attempted` is the row
recordAttempt saves.

`DrillLoop` has the two tables, the event log cut to the window get_state
returns, and for each turn the await it is in and the event array it holds
(`seen`): it reads it in `GetState` or `Refresh` and uses it in `Score`, while other
turns go on. Only two event types matter; every other is `Other`, and
`LogOther` adds as many as it likes. Every call may fail where the code catches
(`ScoreFails`, the first alternatives of `LogAttempt` and `EmitDrill`), and
`Score` has the partial failure of recordAttempt: the audit log is written, then
addDays throws, and the row is not. `EventLog` is newest first, as state-manager
returns it; `FindPending` walks it from its end, as findPendingDrill does.
`Days` lets time pass to the next due date, as no day before tells from another.
One bank per persona, which loads as a whole or not at all. Init has items
drilled before (the bank's order may have changed since), each answered once.

### StatusZones, StatusMatrix

`Transition` is the one way between the three statuses. In `StatusMatrix` a call
of persistTransition is two steps, `LoadStatus` and `Upsert`, with an await
between them; `writer` holds the row it found. `overtaken` (history) are the
calls whose row was written since they read it: those, and only those, may jump
from brejo to pasto (`JumpOnlyWhenOvertaken`). No production path calls
persistTransition with an asynchronous repository today; the tree of
motor-execucao does both in one synchronous tool.

### EventWindow, TriggerLoop

`Pushed` is what get_state shows after an event is logged: the last twenty,
newest first. In `TriggerLoop` a turn logs the signals of the message, reads the
window again, has `plan_turn` evaluate the four rules of kids.transitions.yaml
on it, and applies those that fired to the dimension in focus (the first of the
lowest status). collectRecentSignals takes the *last* five, as the code does, and
countTurnsSinceLastTransition walks as the code walks. `loop` holds what each
turn has read and what fired; every call that the code catches may fail
(`MaxLoopFaults` in a session). A critical signal ends the turn in the protocol.
`FirstCrisisIsSeen` is what the code keeps, `CrisisIsSeen` what its comment says.

Met while modelling, and in the model as they are: "consecutive" rules look at
the two *oldest* turns of signals; the status a rule starts from is tested
nowhere, so `brejo_to_baia` demotes a pasto and one turn may climb from brejo to
pasto through two rules; after one crisis each turn answers with the protocol
until the signal has left what the evaluator reads.

### InquiryLoop

plan_turn decides from the window the turn read (`ShouldAsk`: gate of four turns,
cap of one, cooldown, a content played twice), execute_playbook logs the
question, and takes the message of the next turn to be executed for its answer.
Overlapping turns decide on windows read before the other's question. The cap is
forgotten once the question has left the window, and with a cap of one the
cooldown never decides.

### CardIssue

A turn compares the statuses it found with those it reads at its end
(`Classify`); emit_card_for_signal counts the cards, awaits, and saves with the
count plus one. `crossed` (history) are the turns and the emissions that
overlapped others: only theirs may share a serial, or earn a second card for an
ascent.

### DrotaTurn

`planned` is any pool and move the planner may hand over, `override` an item the
operator took from the pool, `text` what evaluate_and_select returned: the item
recorded, the item the text speaks of, whether it asks the drill's question and
the concept reported as presented. The two flags of the environment give three
`pipeline`s, each with its short circuits (inaugural, empty pool, escalation,
discovery, close) in the order of the code. In the simplified pipeline a drill
may be logged as asked though the text was another (`LoggedDrillWasAsked` is
stated of the default one); in the split pipeline the ledger records the
selector's item while the Tactician chose another (`ConceptWasSpoken`).

### HelixEngine, GardnerProgram

Pure functions with one row each; an action is a call and the row that keeps its
result, in any order a caller may choose. Rankings of the dimensions are any
permutation. `resumedActive` (history): resumeDimension was called for a
dimension that had never left the pair, which puts it into the queue and gets
the rotation stuck; outside of that the pair is two distinct dimensions and none
is lost. `excused` (history): resuming and starting a programme keep its counter
of missed milestones.

### TrioRuntime

`recent` is the window of the last seven speakers, `silent` the turns since each
child spoke, up to its tolerance. A hint of the runtime is heeded or not: the
share of the bot and the turn of everyone are promises to a group that heeds it.

### JourneyState

`journey` is the row of a child, `ledger` what the scans of the traces make of
its discoveries, which may shrink. `Computed` is readOrComputeJourneyState,
`ForceStage` and `ClearOverride` the parents' routes.

### OperatorDesk

The panel is filled by polls (`AskPending`, `ReadPending`, `ShowPending`: asked,
answered by the daemon, shown), which overlap; `Submit` posts the decision for the
session of the page, `ApproveOrEdit` applies it to whatever text waits there, and
`Record` writes the row. A poll and a post carry `fresh`, history: nothing came or
went since what they rest on was read. `DecidedAsShown` is exactly as strong as
that: the daemon names a session, not a text. The edit buffer of the panel is left
out: an edit begun on one text and sent when the next one is shown is, in the
model, a decision on the next one.

### ParentalOnboarding

`approvals` is mc1Approvals of the page, with the text of each child as a number;
`asking` are previews under way, whose answers reach the page after their step was
left. `Finish` sends what the page holds, `Complete` is the handler: the row, the
profile, then a message for each approved child, each of which may fail alone
(`ProfileFails`, the second alternative of `Complete`). Drafts arrive late or
never; of the row of the wizard only its status is kept, not the step. `DeliverMc1` is `TemporalScheduler`'s. `surprised` (history) are the cases
in which a family is called ready with a child without a message: a preview
answered after the step of the approvals was left (nothing looks at them again),
a text the parents emptied, a cancellation.

### BaileysChannel

A *line* is what one start() sets going: a connectSocket in flight (`loading`), a
socket, the timer of a reconnection (`timers`). `sock` is the variable the channel
sends on, which outlives its socket. `SocketMade` does not look at `stopped`, as the
code does not: a socket that a connect in flight makes after stop() is counted as
a line, and so is a reconnection that fails as one that ended (`loadFailed`); what
stop() is asked is that nothing *begins* (`QuietWhileStopped`). A second start()
after a stop() adds a second line, so what is stated is that lines are accounted
for (`LinesAccounted`), not that there is one.

### CardsLoader

`load` is each call between its awaits; a text is its version. `since` (history) is
the oldest version that is not stale after an invalidation, `overtaken` the cards
invalidated while a load was reading them, which may return to the cache.

### GatewayClient, DaemonClient

One process shared by the callers (`gwClient`, `gwConnecting`), its spawn, failure,
death and closing, each await a step; `gwOverlapped` (history): two closeGateway()
calls awaited one process, after which one of them forgets the next client.
`DaemonClient` has the transport of the console, which may be started once, and
the trio, three processes joined by Promise.all: when one fails, the others stay.

### TemporalScheduler

Time passes in slots of a week that comes round. A tick walks `Windows`; for each
persona: the vetoes (sleep, school, no window open, no consent), then MC1
(`MarkDelivered` and the emission are two steps, and a crash or an exception may
come between), then cooldown and budget, from which MC1 is exempt. Rows of mc1_scheduled are shared with other
processes; the times of the last hooks are lost in a crash. tickScheduler has no
caller in the repository: it is modelled as its interval,
DEFAULT_POLL_INTERVAL_MS, would have it called.

### StsRuns

A row and a child process per run. `StartRun` has its four outcomes (unwritable
log, spawn throws, no process, spawned). The exit of a child, a cancellation, a
tick of progress and a failed spawn write the row in any order; `CloseBegins` kills the
children there are, `Gone` forgets them, after a close or in a crash (`lost`), and the
server starts again over the same rows.

### TraceIndex

`saveTrace` truncates, then writes; a scan lists the files (`Walks`: all there are,
and any that appear while it lists), reads each with an await and commits all of
it in one transaction. The watcher leaves one timer for a burst; the operator may
ask for a scan at any time. There is a watcher (`watching`) only if the directory of the
traces was there when the console started (`server.ts:1018`); without it no write
is heard, and `unheard` (history) has the files written since a scan last began.
`newest` (history) is the latest content the index has held of each file: of
overlapping scans the older may commit last and put an earlier content back. With
three of them a scan may even put back what another one had already put right, so
that `RestsOnFiles` asks less than that the last scan wins: what a file holds was in
the index once, or no one has looked since it was written.

### TurnStream

`bucket` is the capped buffer of the daemon, `nextIndex` what the stream of the
console asks for next, `wire` what was written and not yet received, `shown` the
snapshot the page folds. A poll or a line may fail, the browser reopens the
stream, the daemon may be restarted: then the index of the stream may be one of a
buffer that is gone, and events are skipped (`stale`).

## 3. The runs

| Run | Instance | Checks |
|---|---|---|
| `daemon` | two semi-auto turns of one session with different pools, one restart, a buffer of 3 events | types; every gate entry belongs to a waiting turn; a poller's snapshot is the suffix of the stream; no orphan trio; an accepted override reaches its turn once; implements `CardCall` (safety and liveness) |
| `delivery` | two cards of one conversation, one with a paranoid default, a card of another, one token | types; the approval table is exact; an accepted decision holds; nothing sent unapproved; every card ends |
| `bucket` | three callers, one without a timeout, two tokens, a token every 2 ticks, windows of 4 | types; never faster than the rate; the queue is exact; a drain comes in time; no overtaking; patient callers are served |
| `router` | two requests over both providers, 2 retries, budgets 2 and 4 ticks, marks of 2 | types; the real worst case; retries within the budget; a skipped primary failed recently; requests settle |
| `pedagogy` | twelve components, one per behaviour, with the bounds below | `ChildTypeOK`; mastery is earned and kept, rows and audit log agree, the event log tells of no attempt the audit log has not (drills); `GroupModerated` (trio); `RecordsKept` (inquiry, cards, drota, desk, onboarding, programme, journey, helix); `JumpOnlyWhenOvertaken` (matrix); `FirstCrisisIsSeen` (loop) |
| `background` | eight components, one per behaviour | `ChannelKept`, `QuietWhileStopped`, `LinesComeBack` (channel; the last one also of the stream); `CachesFresh` (cards, index, page); `ProcessesOwned` (clients, runs); `EndedForGood` (runs); `HooksKept`, `Mc1Arrives` (scheduler) |
| `daemon_gate`, `delivery_shutdown`, `router_primary`, `drill_pending`, `drill_cold`, `crisis_window` | the same instances; `daemon_gate` with a third card and session, `crisis_window` with one dimension and messages with and without distress | each refutes one sentence of the code's documentation: section 5 |

**Why these bounds are enough.** A gate or an approval is disturbed by one other
of its session or conversation, so two are needed; the third card has a
conversation of its own, to see that nothing leaks. A restart needs two trios. A
turn emits four events, so a buffer of three evicts within a turn and across two.
Two tokens and a queue of three have every case of drain: none, some or all
served. Two ticks of primary budget are the fewest in which a retry may start at
the last tick; one tick per attempt and three of wait keep the order in which
the 60 s limits and budgets are exceeded.

*`pedagogy`.* Drills: one turn at a time, two items, six answers, one more than
the mastery window; within 60 days an item with one wrong answer is mastered (at
an interval of 57) and the date of one answered right from the start does not
fit; the window shows 2 events (3 in `drill_pending` and `drill_cold`), enough for an
emission and its answer, or to lose one of them. Helix: four of the five
dimensions, so that a queue, a deferred and a completed one can be there at once,
one deferred at a time (`MaxDeferred`), enough for the pair to fall back on it, and a
day of each phase. Programme: its own constants, five weeks of three
phases; a counter up to 3, past the threshold of 2. Trio: three children, one of
them sensory and one more patient, the share 1/5 of the code, and a window of 7
where the code has 10, which the theorem covers. Matrix: two writers of two dimensions. Loop: the real limit of 20 and look
back of 5, two dimensions, four messages (nothing, a rise with synthesis, a block,
a distress), one failure and one crisis (`MaxCrises` is 12 in `crisis_window`).
Inquiry: two turns, a window of 14, one content. Cards: two turns, one dimension,
two changes of status, three cards. Drota: a drill and three items of different
costs; the turn number saturates at 3, as only 0 and 2 are told apart. Journey:
thresholds of two discoveries of two families, a ledger of up to three. Desk:
two sessions, two polls in flight, two texts, one failed request. Onboarding: two
children, three texts (one each and another), two submissions, one failed write.

*`background`.* Two sockets and two starts; two readers of two cards, each edited
twice; three callers, two closers and two processes of the gateway; three requests
and the three servers; two personas with different windows, days of four slots in
a week of two days, a cooldown of 2, two messages, one crash or exception; two
runs of one turn, any number of restarts of the server; two files of up to two
discoveries and two scans in flight; two turns of two phases, a buffer of 2, three
events, two failures and one restart for the stream.

`MaxTrios`, `MaxWindow`, `MaxAttempts` and the other constants named `Max...` cut
behaviour: no more restarts, an observer that starts anew, no more answers,
texts, edits, faults or submissions. The run `pedagogy` has one turn at a time for
drills and for the loop; overlapping turns of the drills are in the model and in the
theorems about it.

Deadlock is checked in `bucket`, `router`, `pedagogy` and `background`. The daemon and
the delivery may stop: their cards are used up.

**Fairness.** `OrchestratorDaemon`: each step of a turn under way is weakly fair,
because a call of the trio answers, rejects or is timed out by the MCP client
(60 s by default), and a gate has a timer. `CardDelivery`: the bridge's
continuations run and timers fire; a turn settles because `CardCall` promises
it; the bucket is refilled by time. `TokenBucket`, `GatewayRouter`: time passes
and timers fire. `BaileysChannel`: the timer of a reconnection fires and a
connectSocket settles, one way or the other. `TemporalScheduler`: a tick is made in
each slot and its steps run (weak fairness), and time passes between them (strong:
it is disabled while a tick is under way, and a slot may have any number of them).
`TurnStream`: the interval of the stream polls, the browser reopens a line that ended, what was written is
received; failures are bounded by `MaxFailures`, so the outages end. Nowhere must an
operator or a parent decide, a caller call, a provider answer, or a message
arrive. The components of `pedagogy` state safety only.

## 4. The proofs

`tlapm` checks every leaf; the constants are any that satisfy the `ASSUME` of the
module.

| Theorem | Says, for every value of the constants |
|---|---|
| `OrchestratorDaemon_proofs`: `TypeCorrect`, `GatesMatch`, `NoTrioLeft`, `OverridesTakenOnce` | the safety properties of the run `daemon` |
| `DaemonImplementsCardCall` | every behaviour of the daemon is one of `CardCall!Safety` |
| `OrchestratorDaemonEvents_proofs`: `SnapshotsAreSuffixes` | for any cap and index, a snapshot is the suffix of the stream |
| `CardDelivery_proofs`: `TypeCorrect`, `TableIsExact`, `AnswersHold`, `SentIsApproved` | the safety properties of the run `delivery` |
| `TokenBucket_proofs`: `TypeCorrect`, `RateHolds`, `DrainIsScheduled`, `QueueIsExact`, `ServedInOrder` | the safety properties of the run `bucket`: the rate over every window, the drain that comes in time, who is in the queue, and its order |
| `GatewayRouter_proofs`: `TypeCorrect`, `DurationBounded`, `RetriesStopInTime`, `SkipsAreFresh` | the safety properties of the run `router` |
| `DrillLoop_proofs`: `RightLengthens` | a right answer makes any interval strictly longer, whatever the easiness |
| `DrillLoop_proofs`: `TypeCorrect`, `MasteryKept`, `MasteryEarned`, `RowsAreAudited`, `LogIsAudited` | all the properties of the drills, with any number of overlapping turns, any window and any bank |
| `Pedagogy_proofs`: `MatrixTypeCorrect`, `JumpOnlyWhenOvertakenHolds` | with any number of writers and dimensions, only an overtaken write jumps |
| `Pedagogy_proofs`: `RecordsAreKept` | `RecordsKept` of the run `pedagogy`, all of its eight components: for any number of turns, cards, items, sessions, polls, children, phases and dimensions |
| `Pedagogy_proofs`: `ChildTypesHold` | `ChildTypeOK` of the run `pedagogy`, for all of its twelve components |
| `Pedagogy_proofs`: `FirstCrisisSeen` | when turns wait for each other, the first crisis of a session goes to the protocol, as long as the limit of the events and the calls that may fail in a session are together at most 37; with the code's twenty events, up to seventeen failed calls |
| `Pedagogy_proofs`: `BotKeepsItsShare` | for any group, window and tolerances, and any cap but zero, the bot has its share of the window and one turn more at most |
| `Pedagogy_proofs`: `GroupModeratedHolds` | `GroupModerated` of the run `pedagogy`: a group that heeds the hints asks every child before a window of them is over, if the window is long enough (`WindowSuffices`); ten turns, the code's, are for a pair and for a trio with tolerances from three to five (`TenTurnsSuffice`) |
| `Background_proofs`: `TypeCorrect`, `LineIsKept`, `StoppedStaysQuiet`, `NoProcessIsLost`, `CopiesAreFresh`, `OneMessageEach`, `EndedRunsStay` | the safety properties of the run `background`: eight components, for any number of sockets, readers, callers, processes, personas, runs, files, scans and events |

The inductive invariants, and why they are stronger than what they prove:

* **Daemon** (`Inv`): `GateEntryWaits` is inductive only if a turn that waits has
  not been overridden yet (`OverrideAfterGate`): otherwise OverrideSelection might
  meet an entry whose turn left its gate. `OneTrio` ties `clients`, `live`,
  `booting` and `shuttingDown` together: while a start is under way no trio is
  connected.
* **Events** (`BuffersMatch`): each bucket is the function `BucketOf` of the
  stream pushed; PushTo commutes with it, and a snapshot of it is a suffix.
* **Delivery** (`Inv`): an entry is filed under its own conversation
  (`FiledRight`) and a decided card has left the gate (`DecidedHasLeft`); then
  resolving is done once, and by whoever takes the entry out.
* **Bucket** (`Inv`): `Account` counts what was granted in the window *and* what
  could be granted now: `spent + Refilled <= Full + ticks`. The rate alone is not
  inductive. `DrainInTime` bounds the timer by the deficit of the next token;
  DrainDelay decreases by no more than time passes.
* **Bucket's queue**: `QueueExact` is inductive with the types; what it needs is
  about sequences: that the queue is one injective enumeration of the waiting, and
  that taking one out, or all of a front part, leaves one of the others
  (`RemoveOne`, `SplitQueue`).
* **Router** (`Accounted`, `MarksFail`): a request's age, the retries that may
  still begin and one attempt stay within the span (`Limit`) of the provider it is
  busy with, which for the primary leaves room for the fallback; `WithinWorstCase`
  alone says nothing of what is still to come. A mark is as old as the failure it
  stands for, or older.
* **Drills** (`IInv`): the types, and that a turn about to log an event of an item
  has one (`Naming`); without it LogAttempt would log an event of no item. For
  the event log, `Owed`: what is logged *and what overlapping turns are about to
  log* is in the audit log. For mastery, `Backed`: each stretch of the last five
  answers of a row stands for a stretch of the audit log that is as long, or
  longer by right answers whose date did not fit (`Covered`), since the row alone
  does not say which answers are missing from it.
* **Matrix** (`MatrixIInv`): the types, and that a writer which was not overtaken
  still holds the status of its dimension (`ReadIsCurrent`); then the step that
  writes is a `Transition` of the row itself.
* **Inquiry** (`InqInv`): `NextIsAsked`: of the logged questions, the one that
  follows an answer was asked, not suspended, so that a second message finds nothing
  to answer; `AnsweredOnce` alone does not say what comes after an answer.
* **Cards** (`IssueInv`): a turn that overlapped nobody is alone with its read
  (`AloneIsAlone`), the serials below the counter are the ones taken
  (`SerialsTaken`), and an ascent is behind the card it earned (`OrderKept`,
  `NotYetEarned`).
* **Drota** (`DrotaInv`): the text a turn is about to send is `Sound` for its
  pipeline and `Honours` the override, from the selection to the record.
* **Desk** (`DeskInv`): what a poll has read is the table or was overtaken
  (`ReadHolds`), a text is decided once, and each lost record is one fault
  (`LossesCounted`).
* **Onboarding** (`OnbInv`): an approval stands for a text the parent saw
  (`ApprovalsHold`), and a family that is told it is ready has, for every child, a
  message written (`Reached`); the page waits for one answer at a time (`OneWaits`).
* **Helix** (`HelixInv`): `RotationHolds` is inductive with the types. The work is
  in the sequences: a filter keeps exactly what is in the set (`FilteredItems`, by
  counting: the rank of an item among those kept is a bijection), and a reshuffle of
  as many distinct dimensions as there are has them all (`RankingIsOfAll`).
* **Loop** (`ReadBack`, `Spaced`): the evaluator looks at the last five events of
  signals of those it is shown, newest first, so the newest is missed only if six
  are shown. `Spaced` counts what lies between: signals are eight events apart, but
  for the calls that failed, what the turn has still to log (`ToLog`), and the four
  evaluations which the first turn with signals of a session has not. Six signals
  take 38 events, or one less for each fault; the bound is exact (with 37 events and
  one fault TLC finds a crisis missed). `ReadBack`: what a turn plans with is the log with
  its own signals first, or it had none, or their logging failed. That turns wait for
  each other (`InTurn`) is assumed: nothing in the code makes them.
* **Types of the child** (`ChildTyped`): where an invariant above is not bounded as
  the types are, one more is (`Calendar`, `ProgramBounded`, `OnbBounded`): a text is
  at most the number of those that came and of the previews still asked for, and the
  phases counted are at most those of the weeks, by the place in the programme.
* **Group** (`ShareKept`): as long as the window fills, the bot has its share of
  all turns but one, and of a window once it is full; `BotShare` alone says nothing
  of a window that is not full yet. A cap of zero is excluded: the bot opens
  the session all the same (no run has it, and the code's constant is a fifth).
* **Everyone is asked** (`GroupInv`): that a counter of the waiting is below the
  window says nothing of why. `WaitsFor` splits the wait of a child: until it counts
  as absent, its own silence bounds it; from then on, for `m` turns, those asked
  before it were absent themselves (`AbsentFirst`), so that they had not spoken for
  `tau` turns (`SilentInWindow`) and their turns are more than `tau` apart (`Apart`).
  `m` cannot reach two blocks of `tau + 1` turns: in a block each other child has one
  turn at most (`OneEach`), the bot would have all the rest, and `ShareKept` does not
  give it as many (`TwoRoundsAreTooMany`). So a child waits for its tolerance and two
  turns of each other child at most, which `WindowSuffices` says is less than a
  window. The condition is on the constants alone; it is sufficient and not
  necessary: the run has a window of 7, outside of it, and the property holds there
  too. Some condition there must be: with a window of 4 TLC finds the patient child of
  the run passed over four times before it counts as absent.
* **Background** (`BackgroundInv`): each component has an invariant of its own, and
  a step of one leaves the others alone (`OneSteps`). The client of the gateway
  (`OneClient`): as long as no two closes awaited one process, a process that
  runs is the client's or the one connecting. The scheduler (`SchedKept`): the row
  about to be emitted was marked by this tick and has not gone out. The cards
  (`LoadsFresh`): a load under way is as new as an invalidation asks unless it was
  overtaken. The index (`UnderWay`): what a file holds was in the index, or was
  written unwatched, or an event, a timer, a write or a scan is there that will
  read it (`Carries`). The page (`Follows`): of the buffered events the stream has asked for, the last are
  on the line, in order, and the page shows the others (`Upto`, which counts every
  event up to there, while `PageFollows` is only about the last of a phase).
* **Runs** (`RunsIInv`): which rows go with which processes (`RowOfProcess`), and
  that a server that is down has lost every process there was (`DownLosesAll`):
  `RunsAccounted` alone is broken by a restart.

Assumed, besides the constants' assumptions: that a process does not die
between the two statements of recordAttempt, and that a duplicate resolution of
a promise has no effect, which is the language's rule.

**Only model-checked**: all liveness (`EveryCardEnds`, `PatientServed`,
`EveryRequestSettles`, `LinesComeBack`, `Mc1Arrives`, the liveness half of
`ImplementsCardCall`), which is out of the prover's reach, as is ENABLED and
induction over data (an argument by the least number of a kind is in reach, and
the proof of the page uses it: `Oldest`). Every safety property of a passing run is
stated by a theorem; `GroupModerated` and `FirstCrisisIsSeen` under conditions on the
constants, which the code's satisfy. Of what must happen in the end, the theorems give
the part that a step could break: a queue has a drain that comes in time
(`DrainIsScheduled`, for `PatientServed`), a request under way is never older than the
worst case (`DurationBounded`, for `EveryRequestSettles`), a card that waits is in the
table (`TableIsExact`, for `EveryCardEnds`), each connection is some start's
(`LineIsKept`, for `LinesComeBack`).

The numbers in the assumptions are positive where the code's constants are (a week
has days, a file has a first content); tlapm found two of them missing. The proof
of the index was also what showed that an earlier form of `RestsOnFiles` held with two
scans and not with three.

## 5. Where the code and its documentation disagree

* **`WaitingGateIsListed`** (run `daemon_gate`). The timer of a gate deletes the
  entry of its session whoever it belongs to (`daemon.ts:208`). With two turns of
  a session in their gates, the second has taken the first one's entry, and the
  first one's timer removes it: the operator is told that no gate was active
  while a turn waits. The turn itself goes on, by its own timer.
* **`ShutdownIsConservative`** (run `delivery_shutdown`). An approval submitted
  after stop() swept the table is not swept; its timer approves by default, and
  the text goes out of a daemon that is shut down. The comment promises the
  contrary (`daemon.ts:381`).
* **`PrimaryTimeIsCapped`** (run `router_primary`). The "cumulative" cap on the
  primary does not count the wait for a token, nor cut an attempt in flight.
  `WithinWorstCase` is the bound that does hold: the wait and the last attempt
  on top of the budget, and one more attempt at the fallback.
* **`PendingIsUnresolved`** (run `drill_pending`). findPendingDrill takes the last
  element of the event array for the latest event; the array is newest first. An
  answered drill is found again by later turns, and every message is scored as
  its answer, as long as its emission is the oldest drill event of the window.
* **`OnlyColdStartsPropose`** (run `drill_cold`). The cold start is entered when
  nothing is *due*, not when there are no rows: the first item of the bank is
  then proposed before its date. Rows are made by answers only, so other items
  of the bank are never drilled unless they have a row already.

* **`CrisisIsSeen`** (run `crisis_window`). The evaluator takes the *last* five
  events of signals of an array that is newest first: once the window shows more
  than five of them, it reads the oldest. A turn logs so many other events that
  this happens only after turns which logged little: those that went to the
  crisis protocol. After a crisis, a new critical signal may be answered as any
  other message. `FirstCrisisIsSeen`, in `pedagogy`, is what does hold.

Other divergences met while modelling, which the model has as the code has them.
They have no run of their own: the properties that hold are stated with the
exception in them, named by a history variable.

* `kids-helix-state.ts:113` says the pair is "sempre 2 distintas": not after an
  active dimension was resumed (`PairDistinct`).
* `state-manager.ts:81` returns events newest first; `orchestrator.ts:312` takes
  slice(-3) of them as the tail of the conversation, which is the three oldest.
* `server.ts:377` of the console says a decision is always recorded, "mesmo gate
  inativo"; it is when the gate was active.
* Step10AprovarMC1.svelte says all messages must be approved to finish: a preview
  answered after the step was left takes the approval away, and `finish` does not
  look (`ReadyIsReady`).
* The journey's comment says that clearing an override lets the automatic
  criterion decide again; the stage stays where the parents put it, as the
  criterion only moves a child out of discovery.
* `trio-runtime.ts` says it prefers an absent child "dentro do mesmo bucket de
  turn-count"; a child silent beyond its tolerance comes first whatever the counts.
* `temporal-scheduler.ts:17` says that getLastEmittedAt persists in SQLite; the one
  store there is keeps it in memory. The window a message of MC1 names is not
  looked at.
* `baileys-channel.ts:13` promises "reconnect automático em close não-logout", and
  line 14 that stop() "encerra socket sem reconnect". A reconnection whose auth state
  or version cannot be had is logged and not tried again (`LoadRejected`); and a
  connectSocket in flight, a reconnection's too, does not look at `stopped` when it
  resumes: it makes a socket after stop(), which nobody ends (`SocketMade`).
* The header of the gateway client promises one process; two closeGateway() at
  once orphan the process a call starts between them (`OneGateway`).
* `inaugural.ts` describes a text for recurring sessions: the event log and the
  session number are per session, so the first of them is always the first; and an
  override is not heard in a session's first turn (`OverrideHonoured`).

## 6. What is not modelled

* Contents: prompts, texts, scores, traces. What an LLM or a planner answers is
  nondeterministic where it has a consequence.
* In the daemon: overlapping start() calls (bootDaemon awaits the only one), a
  disposer that rejects (it leaves `shuttingDown` true for good), two first cards
  of a session built at once (they write the same runtime), the signal handlers,
  endSession's caller, a runtime's contents.
* In the gateway: the providers, the SDK's error classes (any error is transient
  or not), the logger and its aggregation, a disabled fallback (in the module, but
  not in the instance).
* In the drills: several banks, the listing tools, matchDrillAnswer, the
  score of a proposal among other contents, and a crash within recordAttempt.
* In the channel: send, the handlers of messages (`CardDelivery` begins where they
  end), the mock channel, telemetry.
* In the execution store: trust and budget, the usage of contents, parental
  decisions, threads and objectives: single reads and writes of a row.
* In the planner and the drota: pools, scores, menus, the unified assessor, the
  drift checker and the pulse, which are pure.
* In the wizard: its first nine steps (forms), and a second adult filling it.
* The console beyond what section 2 names: routes that read rows or write one
  each, panels that poll a route and show its answer; the parental dashboard is a
  set of stubs.
* The contracts and policies of `shared`, the weekly report, scripts, fixtures and
  content: schemas, batch jobs, tools and data, with no protocol to check.

A good part of the 68 000 lines of the repository is of these kinds (schemas,
prompts, Svelte markup and styles, seed data, fixtures): the map covers what has
state or order.

## 7. Plan

Done: the modules of section 2, with the theorems of section 4. What is left, in
the order of importance:

1. **Models**: the chain of revised objectives of motor-execucao (updateStatus and
   markRevised of a superseded row fork it, though nothing calls them so), the
   narrative threads, endSession with a card of the session in flight, several
   banks of drills.

------------------------- MODULE OrchestratorDaemon -------------------------
(***************************************************************************)
(* The long-running orchestrator (orchestrator/src/daemon.ts): start and   *)
(* stop of the trio of MCP clients, the session registry, the turn a card  *)
(* runs through (runCardTurn -> startSession -> runTurn), the semi-auto    *)
(* option gate with its timeout, the operator's override, and the bounded  *)
(* event buffer of each session.                                           *)
(*                                                                         *)
(* One JavaScript event loop runs everything: an action is what happens    *)
(* between two awaits, and actions of different calls interleave at will.  *)
(***************************************************************************)
EXTENDS Naturals, Sequences, FiniteSets

CONSTANTS
    Cards,        \* calls of runCardTurn
    Sessions,     \* session ids
    SessionOf,    \* the session id derived from (personaId, conversationId)
    SemiAuto,     \* the cards whose semiAutoTimeoutMs is positive
    Contents,     \* ids of content items
    PoolOf,       \* the content pool plan_turn returns for each card
    EventCap,     \* TURN_EVENT_BUFFER_CAP
    MaxTrios,     \* bound: how many times the trio is connected
    None          \* no card, no content, no trio

ASSUME DaemonAssumption ==
    /\ SessionOf \in [Cards -> Sessions]
    /\ SemiAuto \subseteq Cards
    /\ PoolOf \in [Cards -> SUBSET Contents]
    /\ EventCap \in Nat \ {0}
    /\ MaxTrios \in Nat
    /\ None \notin Cards \cup Contents \cup Nat

VARIABLES
    started,        \* this.started
    shuttingDown,   \* this.shuttingDown
    clients,        \* this.clients: the trio in use, or None
    live,           \* the trios whose processes are connected
    trios,          \* how many trios the factory has connected so far
    booting,        \* a start() awaits the factory
    sessions,       \* this.sessions: the card whose call built the runtime
    pendingGates,   \* this.pendingGates: the turn whose entry is in the map
    turnEvents,     \* this.turnEvents
    pc,             \* where the call made for a card has got
    trioOf,         \* the trio that call holds (the captured clients)
    override,       \* the gate's decision: a content id or None
    pushed          \* history: every event pushed since the map was cleared

daemonVars == <<started, shuttingDown, clients, live, trios, booting>>
turnVars   == <<pc, trioOf, override>>
vars == <<daemonVars, sessions, pendingGates, turnEvents, turnVars, pushed>>

-----------------------------------------------------------------------------
Trios == 1 .. MaxTrios

Phases == {"planning_started", "selection_made",
           "materialization_ready", "playbook_executed"}

Event == [card : Cards, type : Phases]

Ev(c, type) == [card |-> c, type |-> type]

EmptyBucket == [events |-> <<>>, totalEmitted |-> 0]

\* Awaiting a reply of the trio that the call captured.
Calling == {"hydrating", "planning", "selecting", "executing"}
Done    == {"returned", "threw"}
Stages  == {"idle", "opened", "planned", "gated"} \cup Calling \cup Done

\* The shape of the state; a session never buffers more than EventCap events
\* (daemon.ts fields, pushTurnEvent).
TypeOK ==
    /\ started \in BOOLEAN /\ shuttingDown \in BOOLEAN /\ booting \in BOOLEAN
    /\ clients \in Trios \cup {None}
    /\ live \subseteq Trios
    /\ trios \in 0 .. MaxTrios
    /\ sessions \in [Sessions -> Cards \cup {None}]
    /\ pendingGates \in [Sessions -> Cards \cup {None}]
    /\ turnEvents \in [Sessions -> [events : Seq(Event), totalEmitted : Nat]]
    /\ \A s \in Sessions : Len(turnEvents[s].events) <= EventCap
    /\ pc \in [Cards -> Stages]
    /\ trioOf \in [Cards -> Trios \cup {None}]
    /\ override \in [Cards -> Contents \cup {None}]
    /\ pushed \in [Sessions -> Seq(Event)]

Init ==
    /\ started = FALSE /\ shuttingDown = FALSE /\ booting = FALSE
    /\ clients = None
    /\ live = {}
    /\ trios = 0
    /\ sessions = [s \in Sessions |-> None]
    /\ pendingGates = [s \in Sessions |-> None]
    /\ turnEvents = [s \in Sessions |-> EmptyBucket]
    /\ pc = [c \in Cards |-> "idle"]
    /\ trioOf = [c \in Cards |-> None]
    /\ override = [c \in Cards |-> None]
    /\ pushed = [s \in Sessions |-> <<>>]

-----------------------------------------------------------------------------
(* Start and stop of the trio *)

\* Faulty variant: start() without its early return.
StartCallAgain ==
    /\ ~booting /\ trios < MaxTrios
    /\ booting' = TRUE
    /\ UNCHANGED <<started, shuttingDown, clients, live, trios, sessions,
                   pendingGates, turnEvents, turnVars, pushed>>

\* bootDaemon awaits start(), so two calls of it never overlap.
StartCall ==
    /\ ~started /\ ~booting /\ trios < MaxTrios
    /\ booting' = TRUE
    /\ UNCHANGED <<started, shuttingDown, clients, live, trios, sessions,
                   pendingGates, turnEvents, turnVars, pushed>>

StartConnected ==
    /\ booting
    /\ booting' = FALSE
    /\ trios' = trios + 1
    /\ live' = live \cup {trios'}
    /\ clients' = trios'
    /\ started' = TRUE
    /\ UNCHANGED <<shuttingDown, sessions, pendingGates, turnEvents, turnVars,
                   pushed>>

\* The synchronous part of stop(): the gates in the map are resolved with no
\* override and the three maps are cleared. Then it awaits the disposer.
StopCall ==
    /\ started /\ ~shuttingDown
    /\ shuttingDown' = TRUE
    /\ LET swept == {pendingGates[s] : s \in Sessions} \ {None}
       IN  pc' = [c \in Cards |-> IF c \in swept THEN "selecting" ELSE pc[c]]
    /\ pendingGates' = [s \in Sessions |-> None]
    /\ sessions' = [s \in Sessions |-> None]
    /\ turnEvents' = [s \in Sessions |-> EmptyBucket]
    /\ pushed' = [s \in Sessions |-> <<>>]
    /\ UNCHANGED <<started, clients, live, trios, booting, trioOf, override>>

StopDisposed ==
    /\ shuttingDown
    /\ live' = live \ {clients}
    /\ clients' = None
    /\ started' = FALSE
    /\ shuttingDown' = FALSE
    /\ UNCHANGED <<trios, booting, sessions, pendingGates, turnEvents,
                   turnVars, pushed>>

-----------------------------------------------------------------------------
(* The event buffer *)

\* Faulty variant: the eviction lets one event too many stay.
PushToOneMore(bucket, event) ==
    LET grown == Append(bucket.events, event)
        over  == IF Len(grown) > EventCap + 1 THEN 1 ELSE 0
    IN  [events |-> SubSeq(grown, over + 1, Len(grown)),
         totalEmitted |-> bucket.totalEmitted + 1]

\* pushTurnEvent: append, count, and evict the oldest beyond the cap.
PushTo(bucket, event) ==
    LET grown == Append(bucket.events, event)
        over  == IF Len(grown) > EventCap THEN Len(grown) - EventCap ELSE 0
    IN  [events |-> SubSeq(grown, over + 1, Len(grown)),
         totalEmitted |-> bucket.totalEmitted + 1]

\* Faulty variant: the global index is used as an index of the buffer.
SubscribeByLocalIndex(s, since) ==
    LET bucket == turnEvents[s]
    IN  [events |-> SubSeq(bucket.events, since + 1, Len(bucket.events)),
         nextIndex |-> bucket.totalEmitted]

\* The snapshot a poller gets for the events from global index since on.
SubscribeTurnState(s, since) ==
    LET bucket == turnEvents[s]
        first  == bucket.totalEmitted - Len(bucket.events)
        start  == IF since > first THEN since - first ELSE 0
    IN  [events |-> SubSeq(bucket.events, start + 1, Len(bucket.events)),
         nextIndex |-> bucket.totalEmitted]

Emit(c, type) ==
    LET s == SessionOf[c]
    IN  /\ turnEvents' = [turnEvents EXCEPT ![s] = PushTo(@, Ev(c, type))]
        /\ pushed' = [pushed EXCEPT ![s] = Append(@, Ev(c, type))]

\* selection_made and materialization_ready are emitted in one turn of the
\* event loop.
EmitBoth(c, t1, t2) ==
    LET s == SessionOf[c]
    IN  /\ turnEvents' =
             [turnEvents EXCEPT ![s] = PushTo(PushTo(@, Ev(c, t1)), Ev(c, t2))]
        /\ pushed' = [pushed EXCEPT ![s] = @ \o <<Ev(c, t1), Ev(c, t2)>>]

-----------------------------------------------------------------------------
(* A card turn *)

Goto(c, stage) == pc' = [pc EXCEPT ![c] = stage]

\* A reply can only come from a trio that is still connected.
Replies(c, stage) == pc[c] = stage /\ trioOf[c] \in live

\* runCardTurn and the head of startSession. Neither looks at shuttingDown.
RunCardTurn(c) ==
    /\ pc[c] = "idle"
    /\ IF ~started \/ clients = None
       THEN Goto(c, "threw") /\ UNCHANGED trioOf
       ELSE IF sessions[SessionOf[c]] # None
            THEN Goto(c, "opened") /\ UNCHANGED trioOf
            ELSE /\ Goto(c, "hydrating")
                 /\ trioOf' = [trioOf EXCEPT ![c] = clients]
    /\ UNCHANGED <<daemonVars, sessions, pendingGates, turnEvents, override,
                   pushed>>

\* get_state answered: the runtime enters the registry, whatever is there now.
Hydrated(c) ==
    /\ Replies(c, "hydrating")
    /\ sessions' = [sessions EXCEPT ![SessionOf[c]] = c]
    /\ Goto(c, "opened")
    /\ UNCHANGED <<daemonVars, pendingGates, turnEvents, trioOf, override,
                   pushed>>

\* this.clients is read again after the await; runTurn fails on null.
BeginTurn(c) ==
    /\ pc[c] = "opened"
    /\ IF clients = None
       THEN Goto(c, "threw") /\ UNCHANGED trioOf
       ELSE /\ Goto(c, "planning")
            /\ trioOf' = [trioOf EXCEPT ![c] = clients]
    /\ UNCHANGED <<daemonVars, sessions, pendingGates, turnEvents, override,
                   pushed>>

\* plan_turn flagged a crisis: the turn returns at once, with no event.
PlanCritical(c) ==
    /\ Replies(c, "planning")
    /\ Goto(c, "returned")
    /\ UNCHANGED <<daemonVars, sessions, pendingGates, turnEvents, trioOf,
                   override, pushed>>

\* In auto mode there is no gate to open.
Planned(c) ==
    /\ Replies(c, "planning")
    /\ Goto(c, IF c \in SemiAuto THEN "planned" ELSE "selecting")
    /\ Emit(c, "planning_started")
    /\ UNCHANGED <<daemonVars, sessions, pendingGates, trioOf, override>>

\* The logging between the plan and the gate is fail-soft: the turn gets here
\* even when its trio is gone.
OpenGate(c) ==
    /\ pc[c] = "planned"
    /\ pendingGates' = [pendingGates EXCEPT ![SessionOf[c]] = c]
    /\ Goto(c, "gated")
    /\ UNCHANGED <<daemonVars, sessions, turnEvents, trioOf, override, pushed>>

\* Faulty variants: the timer leaves the entry; the timer of a turn whose entry
\* was replaced does not resolve its gate.
GateTimeoutKeepsEntry(c) ==
    /\ pc[c] = "gated"
    /\ Goto(c, "selecting")
    /\ UNCHANGED <<daemonVars, sessions, pendingGates, turnEvents, trioOf,
                   override, pushed>>

GateTimeoutOwnEntryOnly(c) ==
    /\ pc[c] = "gated"
    /\ pendingGates[SessionOf[c]] = c
    /\ pendingGates' = [pendingGates EXCEPT ![SessionOf[c]] = None]
    /\ Goto(c, "selecting")
    /\ UNCHANGED <<daemonVars, sessions, turnEvents, trioOf, override, pushed>>

\* The turn's own timer: it deletes whatever entry its session has.
GateTimeout(c) ==
    /\ pc[c] = "gated"
    /\ pendingGates' = [pendingGates EXCEPT ![SessionOf[c]] = None]
    /\ Goto(c, "selecting")
    /\ UNCHANGED <<daemonVars, sessions, turnEvents, trioOf, override, pushed>>

\* Faulty variant: an accepted override leaves the entry in the map.
OverrideKeepsEntry(s, item) ==
    LET c == pendingGates[s]
    IN  /\ c # None
        /\ item \in PoolOf[c]
        /\ override' = [override EXCEPT ![c] = item]
        /\ Goto(c, "selecting")
        /\ UNCHANGED <<daemonVars, sessions, pendingGates, turnEvents, trioOf,
                       pushed>>

\* overrideSelection when it is accepted; a refusal changes nothing.
OverrideSelection(s, item) ==
    LET c == pendingGates[s]
    IN  /\ c # None
        /\ item \in PoolOf[c]
        /\ pendingGates' = [pendingGates EXCEPT ![s] = None]
        /\ override' = [override EXCEPT ![c] = item]
        /\ Goto(c, "selecting")
        /\ UNCHANGED <<daemonVars, sessions, turnEvents, trioOf, pushed>>

Selected(c) ==
    /\ Replies(c, "selecting")
    /\ Goto(c, "executing")
    /\ EmitBoth(c, "selection_made", "materialization_ready")
    /\ UNCHANGED <<daemonVars, sessions, pendingGates, trioOf, override>>

\* What follows playbook_executed is fail-soft, saving the trace excepted.
Executed(c) ==
    /\ Replies(c, "executing")
    /\ \E end \in Done : Goto(c, end)
    /\ Emit(c, "playbook_executed")
    /\ UNCHANGED <<daemonVars, sessions, pendingGates, trioOf, override>>

\* A call of the trio rejects: an error reply, a request timeout, or a
\* connection that the disposer closed.
CallThrows(c) ==
    /\ pc[c] \in Calling
    /\ Goto(c, "threw")
    /\ UNCHANGED <<daemonVars, sessions, pendingGates, turnEvents, trioOf,
                   override, pushed>>

\* endSession and unregisterSession: only the registry entry goes.
EndSession(s) ==
    /\ sessions[s] # None
    /\ sessions' = [sessions EXCEPT ![s] = None]
    /\ UNCHANGED <<daemonVars, pendingGates, turnEvents, turnVars, pushed>>

-----------------------------------------------------------------------------
TurnStep(c) ==
    \/ Hydrated(c) \/ BeginTurn(c) \/ PlanCritical(c) \/ Planned(c)
    \/ OpenGate(c) \/ GateTimeout(c) \/ Selected(c)
    \/ Executed(c) \/ CallThrows(c)

Operator(s) == EndSession(s) \/ \E item \in Contents : OverrideSelection(s, item)

Next ==
    \/ StartCall \/ StartConnected \/ StopCall \/ StopDisposed
    \/ \E c \in Cards : RunCardTurn(c) \/ TurnStep(c)
    \/ \E s \in Sessions : Operator(s)

\* A pending call of the trio answers or is timed out by the MCP client, and
\* the gate's timer fires: every step of a turn under way is weakly fair.
\* Nobody has to boot, stop, call or override anything.
Fairness == \A c \in Cards : WF_vars(TurnStep(c))

Spec == Init /\ [][Next]_vars /\ Fairness

-----------------------------------------------------------------------------
(* Properties *)

\* An entry of pendingGates belongs to a turn of that session that still waits
\* in its gate: overrideSelection never resolves a promise twice, nor one of
\* another session (daemon.ts buildOptionsGate, overrideSelection, stop).
GateEntryWaits ==
    \A s \in Sessions : pendingGates[s] # None =>
        pc[pendingGates[s]] = "gated" /\ SessionOf[pendingGates[s]] = s

\* An override the operator was told is accepted reaches a turn that still
\* waits for it, is never replaced or withdrawn, and names an item of that
\* turn's pool, even when its gate took the place of the one whose options the
\* operator had listed (daemon.ts overrideSelection, buildOptionsGate).
OverrideTakenOnce ==
    [][\A c \in Cards : override'[c] # override[c] =>
          /\ pc[c] = "gated" /\ override[c] = None
          /\ pc'[c] = "selecting" /\ override'[c] \in PoolOf[c]]_vars

\* The snapshot served for any index is exactly the events pushed from that
\* index on, minus those the cap evicted: a poller that feeds nextIndex back
\* sees no event twice, none out of order, and every gap shows in the index
\* of the first event (daemon.ts pushTurnEvent, subscribeTurnState).
SnapshotIsSuffix ==
    \A s \in Sessions : \A since \in 0 .. Len(pushed[s]) :
        LET n     == Len(pushed[s])
            first == IF n > EventCap THEN n - EventCap ELSE 0
            from  == IF since > first THEN since ELSE first
        IN  SubscribeTurnState(s, since) =
                [events |-> SubSeq(pushed[s], from + 1, n), nextIndex |-> n]

\* The only trio connected is the one the daemon uses: a restart leaves no
\* child processes behind (daemon.ts start, stop).
NoOrphanTrio == live = (IF clients = None THEN {} ELSE {clients})

\* A turn awaits replies only while the daemon that captured its trio was up,
\* so every call made is settled once and in the end: the daemon implements
\* CardCall (daemon.ts runCardTurn).
CallOf(stage) ==
    IF stage \in {"idle"} \cup Done THEN stage ELSE "running"

Calls == INSTANCE CardCall WITH call <- [c \in Cards |-> CallOf(pc[c])]

ImplementsCardCall == Calls!Spec

\* gateWasActive, what overrideSelection answers, is said to be "True se uma
\* sessao tinha gate pendente" (daemon.ts): while the daemon runs, a session
\* with a turn waiting in its gate has an entry. The code breaks it.
WaitingGateIsListed ==
    \A c \in Cards : (pc[c] = "gated" /\ started /\ ~shuttingDown) =>
        pendingGates[SessionOf[c]] # None
=============================================================================

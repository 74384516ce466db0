---------------------- MODULE OrchestratorDaemon_proofs ----------------------
(***************************************************************************)
(* What OrchestratorDaemon promises for any number of turns, sessions and  *)
(* restarts: type correctness, the gates' table, the trio's processes, and *)
(* what an accepted override does. All follow from one inductive           *)
(* invariant, Inv.                                                         *)
(***************************************************************************)
EXTENDS OrchestratorDaemon, TLAPS

\* A start() under way and a running daemon exclude each other, and a daemon
\* without a trio is not started: what start's early return rests on.
OneTrio ==
    /\ clients = None <=> ~started
    /\ booting => ~started /\ trios < MaxTrios
    /\ NoOrphanTrio
    /\ shuttingDown => started

\* Only a turn that left its gate can have an override.
OverrideAfterGate ==
    \A c \in Cards : override[c] # None =>
        pc[c] \in {"selecting", "executing"} \cup Done

Inv == TypeOK /\ OneTrio /\ GateEntryWaits /\ OverrideAfterGate

-----------------------------------------------------------------------------
(* The event buffer *)

\* A push keeps a buffer a sequence of at most EventCap events (daemon.ts
\* pushTurnEvent).
LEMMA PushToType ==
    ASSUME NEW b \in [events : Seq(Event), totalEmitted : Nat],
           Len(b.events) <= EventCap,
           NEW e \in Event
    PROVE  /\ PushTo(b, e) \in [events : Seq(Event), totalEmitted : Nat]
           /\ Len(PushTo(b, e).events) <= EventCap
<1> DEFINE grown == Append(b.events, e)
           over  == IF Len(grown) > EventCap THEN Len(grown) - EventCap ELSE 0
<1>1. EventCap \in Nat \ {0}
  BY DaemonAssumption
<1>2. grown \in Seq(Event) /\ Len(grown) = Len(b.events) + 1
  OBVIOUS
<1>3. over \in Nat /\ over <= Len(grown) /\ Len(grown) - over <= EventCap
  BY <1>1, <1>2
<1> HIDE DEF grown, over
<1>4. /\ SubSeq(grown, over + 1, Len(grown)) \in Seq(Event)
      /\ Len(SubSeq(grown, over + 1, Len(grown))) = Len(grown) - over
  BY <1>2, <1>3
<1>5. PushTo(b, e) = [events |-> SubSeq(grown, over + 1, Len(grown)),
                      totalEmitted |-> b.totalEmitted + 1]
  BY DEF PushTo, grown, over
<1> QED
  BY <1>3, <1>4, <1>5

\* The buffer of a session that has seen no event is well typed.
LEMMA EmptyBucketType ==
    /\ EmptyBucket \in [events : Seq(Event), totalEmitted : Nat]
    /\ Len(EmptyBucket.events) <= EventCap
BY DaemonAssumption DEF EmptyBucket

\* What Emit and EmitBoth leave of the buffers' types.
BuffersOK ==
    /\ turnEvents \in [Sessions -> [events : Seq(Event), totalEmitted : Nat]]
    /\ \A s \in Sessions : Len(turnEvents[s].events) <= EventCap
    /\ pushed \in [Sessions -> Seq(Event)]

\* Pushing one event of a turn keeps the buffers well typed.
LEMMA EmitType ==
    ASSUME BuffersOK, NEW c \in Cards, NEW t \in Phases, Emit(c, t)
    PROVE  BuffersOK'
<1>1. SessionOf[c] \in Sessions /\ Ev(c, t) \in Event
  BY DaemonAssumption DEF Ev, Event
<1>2. PushTo(turnEvents[SessionOf[c]], Ev(c, t))
          \in [events : Seq(Event), totalEmitted : Nat]
  BY <1>1, PushToType DEF BuffersOK
<1>3. Len(PushTo(turnEvents[SessionOf[c]], Ev(c, t)).events) <= EventCap
  BY <1>1, PushToType DEF BuffersOK
<1>4. Append(pushed[SessionOf[c]], Ev(c, t)) \in Seq(Event)
  BY <1>1 DEF BuffersOK
<1> QED
  BY <1>1, <1>2, <1>3, <1>4 DEF BuffersOK, Emit

\* So does pushing two in a row.
LEMMA EmitBothType ==
    ASSUME BuffersOK, NEW c \in Cards, NEW t1 \in Phases, NEW t2 \in Phases,
           EmitBoth(c, t1, t2)
    PROVE  BuffersOK'
<1> DEFINE s == SessionOf[c]
           once == PushTo(turnEvents[s], Ev(c, t1))
           twice == PushTo(once, Ev(c, t2))
           tail == <<Ev(c, t1), Ev(c, t2)>>
<1>1. s \in Sessions /\ Ev(c, t1) \in Event /\ Ev(c, t2) \in Event
  BY DaemonAssumption DEF Ev, Event
<1>2. /\ once \in [events : Seq(Event), totalEmitted : Nat]
      /\ Len(once.events) <= EventCap
  BY <1>1, PushToType DEF BuffersOK
<1>3. /\ twice \in [events : Seq(Event), totalEmitted : Nat]
      /\ Len(twice.events) <= EventCap
  <2> HIDE DEF once
  <2> QED BY <1>1, <1>2, PushToType
<1>4. pushed[s] \o tail \in Seq(Event)
  BY <1>1 DEF BuffersOK
<1>5. /\ turnEvents' = [turnEvents EXCEPT ![s] = twice]
      /\ pushed' = [pushed EXCEPT ![s] = @ \o tail]
  BY DEF EmitBoth
<1> HIDE DEF once, twice, tail, s
<1> QED
  BY <1>1, <1>3, <1>4, <1>5 DEF BuffersOK

-----------------------------------------------------------------------------
(* The inductive invariant *)

\* The invariant holds when the daemon is constructed.
LEMMA InitInv == Init => Inv
<1> SUFFICES ASSUME Init PROVE Inv
  OBVIOUS
<1> USE DaemonAssumption DEF Init
<1>1. TypeOK
  <2>1. BuffersOK
    <3>1. pushed \in [Sessions -> Seq(Event)]
      OBVIOUS
    <3> QED BY <3>1, EmptyBucketType DEF BuffersOK
  <2>2. /\ clients \in Trios \cup {None} /\ live \subseteq Trios
        /\ trios \in 0 .. MaxTrios /\ pc \in [Cards -> Stages]
    BY DEF Stages
  <2> QED BY <2>1, <2>2 DEF TypeOK, BuffersOK
<1>2. OneTrio
  BY DEF OneTrio, NoOrphanTrio
<1>3. GateEntryWaits /\ OverrideAfterGate
  BY DEF GateEntryWaits, OverrideAfterGate
<1> QED
  BY <1>1, <1>2, <1>3 DEF Inv

\* Starting and stopping keep the invariant (daemon.ts start, stop): no turn
\* gains a stage, and the gates the sweep resolves leave the table with it.
LEMMA StartStopInv ==
    ASSUME Inv, StartCall \/ StartConnected \/ StopCall \/ StopDisposed
    PROVE  Inv'
<1> USE DEF turnVars
<1>1. CASE StartCall
  <2>1. TypeOK'
    BY <1>1 DEF Inv, TypeOK, StartCall
  <2>2. OneTrio' /\ GateEntryWaits' /\ OverrideAfterGate'
    BY <1>1 DEF Inv, StartCall, OneTrio, NoOrphanTrio, GateEntryWaits,
                OverrideAfterGate
  <2> QED BY <2>1, <2>2 DEF Inv
<1>2. CASE StartConnected
  <2>1. trios' \in Trios /\ trios' # None
    BY <1>2, DaemonAssumption DEF Inv, TypeOK, OneTrio, StartConnected, Trios
  <2>2. TypeOK'
    <3>1. trios' \in 0 .. MaxTrios
      BY <2>1 DEF Trios
    <3>2. live' \subseteq Trios /\ clients' \in Trios \cup {None}
      BY <1>2, <2>1 DEF Inv, TypeOK, StartConnected
    <3>3. started' \in BOOLEAN /\ booting' \in BOOLEAN
      BY <1>2 DEF StartConnected
    <3> QED BY <1>2, <3>1, <3>2, <3>3 DEF Inv, TypeOK, StartConnected
  <2>3. OneTrio'
    BY <1>2, <2>1 DEF Inv, StartConnected, OneTrio, NoOrphanTrio
  <2>4. GateEntryWaits' /\ OverrideAfterGate'
    BY <1>2 DEF Inv, StartConnected, GateEntryWaits, OverrideAfterGate
  <2> QED BY <2>2, <2>3, <2>4 DEF Inv
<1>3. CASE StopCall
  <2>1. TypeOK'
    BY <1>3, EmptyBucketType DEF Inv, TypeOK, StopCall, Stages, Calling
  <2>2. OneTrio'
    BY <1>3 DEF Inv, StopCall, OneTrio, NoOrphanTrio
  <2>3. GateEntryWaits'
    BY <1>3 DEF StopCall, GateEntryWaits
  <2>4. OverrideAfterGate'
    BY <1>3 DEF Inv, TypeOK, StopCall, OverrideAfterGate
  <2> QED BY <2>1, <2>2, <2>3, <2>4 DEF Inv
<1>4. CASE StopDisposed
  <2>1. TypeOK'
    BY <1>4 DEF Inv, TypeOK, StopDisposed
  <2>2. OneTrio' /\ GateEntryWaits' /\ OverrideAfterGate'
    BY <1>4 DEF Inv, StopDisposed, OneTrio, NoOrphanTrio, GateEntryWaits,
                OverrideAfterGate
  <2> QED BY <2>1, <2>2 DEF Inv
<1> QED
  BY <1>1, <1>2, <1>3, <1>4

\* A step of a turn that neither opens nor leaves a gate: the call moves to a
\* stage that is not "gated" and nothing of the daemon or the gates changes.
Moves(c, stages) ==
    /\ \E stage \in stages : Goto(c, stage)
    /\ UNCHANGED <<daemonVars, pendingGates, override>>

\* A turn that moves without being gated, and without opening a gate, disturbs
\* no conjunct about gates and overrides.
LEMMA MovesInv ==
    ASSUME Inv, NEW c \in Cards, NEW stages \in SUBSET Stages,
           Moves(c, stages), pc[c] # "gated",
           \/ "gated" \notin stages /\ override[c] = None
           \/ stages \subseteq {"selecting", "executing"} \cup Done
    PROVE  /\ OneTrio' /\ GateEntryWaits' /\ OverrideAfterGate'
           /\ pc' \in [Cards -> Stages]
<1>1. PICK stage \in stages : pc' = [pc EXCEPT ![c] = stage]
  BY DEF Moves, Goto
<1>2. pc \in [Cards -> Stages]
  BY DEF Inv, TypeOK
<1>3. UNCHANGED <<started, shuttingDown, clients, live, trios, booting,
                  pendingGates, override>>
  BY DEF Moves, daemonVars
<1>4. OneTrio'
  BY <1>3 DEF Inv, OneTrio, NoOrphanTrio
<1>5. GateEntryWaits'
  BY <1>1, <1>2, <1>3 DEF Inv, GateEntryWaits
<1>6. OverrideAfterGate'
  BY <1>1, <1>2, <1>3 DEF Inv, OverrideAfterGate
<1> QED
  BY <1>1, <1>2, <1>4, <1>5, <1>6

\* The types of the variables no gate step touches.
RestOK ==
    /\ sessions \in [Sessions -> Cards \cup {None}]
    /\ trioOf \in [Cards -> Trios \cup {None}]
    /\ BuffersOK

\* What is left of the type invariant when only the stage of a turn changes.
LEMMA MovesType ==
    ASSUME Inv, UNCHANGED <<daemonVars, pendingGates, override>>,
           pc' \in [Cards -> Stages], RestOK'
    PROVE  TypeOK'
BY DEF Inv, TypeOK, RestOK, BuffersOK, daemonVars

\* The part of the type invariant that no stage enters.
LEMMA RestOKFromInv == Inv => RestOK
BY DEF Inv, TypeOK, RestOK, BuffersOK

\* The first steps of a turn keep the invariant (daemon.ts runCardTurn,
\* startSession; orchestrator.ts runTurn).
LEMMA RunCardTurnInv ==
    ASSUME Inv, NEW c \in Cards,
           RunCardTurn(c) \/ Hydrated(c) \/ BeginTurn(c) \/ PlanCritical(c)
    PROVE  Inv'
<1> DEFINE stages == {"threw", "opened", "hydrating", "planning", "returned"}
<1>1. RestOK /\ clients \in Trios \cup {None}
  BY RestOKFromInv DEF Inv, TypeOK
<1>2. SessionOf[c] \in Sessions
  BY DaemonAssumption
<1>3. pc[c] \in {"idle", "hydrating", "opened", "planning"}
  BY DEF RunCardTurn, Hydrated, BeginTurn, PlanCritical, Replies
<1>4. override[c] = None
  BY <1>3 DEF Inv, OverrideAfterGate, Done
<1>5. Moves(c, stages)
  BY DEF Moves, RunCardTurn, Hydrated, BeginTurn, PlanCritical
<1>6. /\ OneTrio' /\ GateEntryWaits' /\ OverrideAfterGate'
      /\ pc' \in [Cards -> Stages]
  BY <1>3, <1>4, <1>5, MovesInv DEF Stages, Calling, Done
<1>7. RestOK'
  <2>1. BuffersOK'
    BY <1>1 DEF RestOK, BuffersOK, RunCardTurn, Hydrated, BeginTurn,
                PlanCritical
  <2>2. sessions' \in [Sessions -> Cards \cup {None}]
    BY <1>1, <1>2 DEF RestOK, RunCardTurn, Hydrated, BeginTurn, PlanCritical
  <2>3. trioOf' \in [Cards -> Trios \cup {None}]
    BY <1>1 DEF RestOK, RunCardTurn, Hydrated, BeginTurn, PlanCritical
  <2> QED BY <2>1, <2>2, <2>3 DEF RestOK
<1>8. TypeOK'
  BY <1>5, <1>6, <1>7, MovesType DEF Moves
<1> QED
  BY <1>6, <1>8 DEF Inv

\* So does the end of planning, which emits the candidate set.
LEMMA PlannedInv ==
    ASSUME Inv, NEW c \in Cards, Planned(c)
    PROVE  Inv'
<1>1. pc[c] = "planning"
  BY DEF Planned, Replies
<1>2. override[c] = None
  BY <1>1 DEF Inv, OverrideAfterGate, Done
<1>3. Moves(c, {"planned", "selecting"})
  BY DEF Moves, Planned
<1>4. /\ OneTrio' /\ GateEntryWaits' /\ OverrideAfterGate'
      /\ pc' \in [Cards -> Stages]
  BY <1>1, <1>2, <1>3, MovesInv DEF Stages, Calling
<1>5. RestOK'
  BY RestOKFromInv, EmitType DEF RestOK, Planned, Phases
<1> QED
  BY <1>3, <1>4, <1>5, MovesType DEF Moves, Inv

\* So do the steps after the gate, and a failure of any step.
LEMMA LateStepsInv ==
    ASSUME Inv, NEW c \in Cards, Selected(c) \/ Executed(c) \/ CallThrows(c)
    PROVE  Inv'
<1> DEFINE stages == {"executing", "returned", "threw"}
<1>1. pc[c] # "gated"
  BY DEF Selected, Executed, CallThrows, Replies, Calling
<1>2. Moves(c, stages)
  BY DEF Moves, Selected, Executed, CallThrows, Done
<1>3. /\ OneTrio' /\ GateEntryWaits' /\ OverrideAfterGate'
      /\ pc' \in [Cards -> Stages]
  BY <1>1, <1>2, MovesInv DEF Stages, Calling, Done
<1>4. BuffersOK'
  <2>1. BuffersOK
    BY RestOKFromInv DEF RestOK
  <2>2. CASE Selected(c)
    BY <2>1, <2>2, EmitBothType DEF Selected, Phases
  <2>3. CASE Executed(c)
    BY <2>1, <2>3, EmitType DEF Executed, Phases
  <2>4. CASE CallThrows(c)
    BY <2>1, <2>4 DEF CallThrows, BuffersOK
  <2> QED BY <2>2, <2>3, <2>4
<1>5. RestOK'
  BY <1>4, RestOKFromInv DEF RestOK, Selected, Executed, CallThrows
<1> QED
  BY <1>2, <1>3, <1>5, MovesType DEF Moves, Inv

\* Opening and leaving a gate.
LEMMA OpenGateInv ==
    ASSUME Inv, NEW c \in Cards, OpenGate(c)
    PROVE  Inv'
<1> USE DEF OpenGate, Goto
<1>1. SessionOf[c] \in Sessions /\ c # None
  BY DaemonAssumption
<1>2. TypeOK'
  BY <1>1 DEF Inv, TypeOK, Stages, daemonVars
<1>3. OneTrio'
  BY DEF Inv, OneTrio, NoOrphanTrio, daemonVars
<1>4. GateEntryWaits'
  BY <1>1 DEF Inv, TypeOK, GateEntryWaits
<1>5. OverrideAfterGate'
  BY DEF Inv, TypeOK, OverrideAfterGate, Done
<1> QED
  BY <1>2, <1>3, <1>4, <1>5 DEF Inv

\* A gate that times out keeps the invariant: the entry it deletes may be that
\* of a younger gate, which then waits unlisted (daemon.ts buildOptionsGate).
LEMMA GateTimeoutInv ==
    ASSUME Inv, NEW c \in Cards, GateTimeout(c)
    PROVE  Inv'
<1> USE DEF GateTimeout, Goto
<1>1. SessionOf[c] \in Sessions
  BY DaemonAssumption
<1>2. TypeOK'
  BY <1>1 DEF Inv, TypeOK, Stages, Calling, daemonVars
<1>3. OneTrio'
  BY DEF Inv, OneTrio, NoOrphanTrio, daemonVars
<1>4. GateEntryWaits'
  BY <1>1 DEF Inv, TypeOK, GateEntryWaits
<1>5. OverrideAfterGate'
  BY DEF Inv, TypeOK, OverrideAfterGate, Done
<1> QED
  BY <1>2, <1>3, <1>4, <1>5 DEF Inv

\* A gate that an override resolves belongs to a turn that waits and that has
\* had no override yet.
LEMMA OverrideMeetsWaitingTurn ==
    ASSUME Inv, NEW s \in Sessions, NEW item, OverrideSelection(s, item)
    PROVE  /\ pendingGates[s] \in Cards
           /\ pc[pendingGates[s]] = "gated" /\ SessionOf[pendingGates[s]] = s
           /\ override[pendingGates[s]] = None
           /\ item \in PoolOf[pendingGates[s]] /\ item \in Contents
<1>1. pendingGates[s] \in Cards /\ pendingGates[s] # None
  BY DEF Inv, TypeOK, OverrideSelection
<1>2. pc[pendingGates[s]] = "gated" /\ SessionOf[pendingGates[s]] = s
  BY <1>1 DEF Inv, GateEntryWaits
<1>3. override[pendingGates[s]] = None
  BY <1>1, <1>2 DEF Inv, OverrideAfterGate, Done
<1>4. item \in PoolOf[pendingGates[s]] /\ item \in Contents
  BY <1>1, DaemonAssumption DEF OverrideSelection
<1> QED
  BY <1>1, <1>2, <1>3, <1>4

\* An operator's override keeps the invariant (daemon.ts overrideSelection).
LEMMA OverrideSelectionInv ==
    ASSUME Inv, NEW s \in Sessions, NEW item, OverrideSelection(s, item)
    PROVE  Inv'
<1> DEFINE c == pendingGates[s]
<1>1. c \in Cards /\ pc[c] = "gated" /\ SessionOf[c] = s /\ item \in Contents
  BY OverrideMeetsWaitingTurn
<1>2. /\ pendingGates' = [pendingGates EXCEPT ![s] = None]
      /\ override' = [override EXCEPT ![c] = item]
      /\ pc' = [pc EXCEPT ![c] = "selecting"]
      /\ UNCHANGED <<daemonVars, sessions, turnEvents, trioOf, pushed>>
  BY DEF OverrideSelection, Goto
<1> HIDE DEF c
<1>3. TypeOK'
  BY <1>1, <1>2 DEF Inv, TypeOK, Stages, Calling, daemonVars
<1>4. OneTrio'
  BY <1>2 DEF Inv, OneTrio, NoOrphanTrio, daemonVars
<1>5. GateEntryWaits'
  BY <1>1, <1>2 DEF Inv, TypeOK, GateEntryWaits
<1>6. OverrideAfterGate'
  BY <1>1, <1>2 DEF Inv, TypeOK, OverrideAfterGate
<1> QED
  BY <1>3, <1>4, <1>5, <1>6 DEF Inv

\* Ending a session keeps the invariant (daemon.ts endSession).
LEMMA EndSessionInv ==
    ASSUME Inv, NEW s \in Sessions, EndSession(s)
    PROVE  Inv'
<1> USE DEF EndSession, daemonVars, turnVars
<1>1. TypeOK'
  BY DEF Inv, TypeOK
<1>2. OneTrio' /\ GateEntryWaits' /\ OverrideAfterGate'
  BY DEF Inv, OneTrio, NoOrphanTrio, GateEntryWaits, OverrideAfterGate
<1> QED
  BY <1>1, <1>2 DEF Inv

\* Every step keeps the invariant.
LEMMA StepInv == Inv /\ [Next]_vars => Inv'
<1> SUFFICES ASSUME Inv, [Next]_vars PROVE Inv'
  OBVIOUS
<1>1. CASE StartCall \/ StartConnected \/ StopCall \/ StopDisposed
  BY <1>1, StartStopInv
<1>2. CASE \E c \in Cards : RunCardTurn(c) \/ TurnStep(c)
  BY <1>2, RunCardTurnInv, PlannedInv, LateStepsInv, OpenGateInv,
     GateTimeoutInv DEF TurnStep
<1>3. CASE \E s \in Sessions : Operator(s)
  BY <1>3, EndSessionInv, OverrideSelectionInv DEF Operator
<1>4. CASE UNCHANGED vars
  <2> USE <1>4 DEF vars, daemonVars, turnVars
  <2>1. TypeOK'
    BY DEF Inv, TypeOK
  <2>2. OneTrio' /\ GateEntryWaits' /\ OverrideAfterGate'
    BY DEF Inv, OneTrio, NoOrphanTrio, GateEntryWaits, OverrideAfterGate
  <2> QED BY <2>1, <2>2 DEF Inv
<1> QED
  BY <1>1, <1>2, <1>3, <1>4 DEF Next

-----------------------------------------------------------------------------
(* The theorems *)

\* Inv is invariant, for any number of turns, sessions, contents and restarts
\* (daemon.ts OrchestratorDaemon).
THEOREM DaemonInvariant == Spec => []Inv
BY InitInv, StepInv, PTL DEF Spec

\* The state has its type and no session's buffer outgrows its cap (daemon.ts
\* pushTurnEvent).
THEOREM TypeCorrect == Spec => []TypeOK
BY DaemonInvariant, PTL DEF Inv

\* Every entry of pendingGates is a turn of its session that waits in its gate
\* (daemon.ts buildOptionsGate, overrideSelection, stop).
THEOREM GatesMatch == Spec => []GateEntryWaits
BY DaemonInvariant, PTL DEF Inv

\* However often the daemon is started and stopped, the processes connected are
\* those of the trio in use (daemon.ts start, stop).
THEOREM NoTrioLeft == Spec => []NoOrphanTrio
BY DaemonInvariant, PTL DEF Inv, OneTrio

\* The only step that changes an override is an accepted override of a waiting
\* turn (daemon.ts overrideSelection).
LEMMA OverrideStep ==
    ASSUME Inv, Next, NEW c \in Cards, override'[c] # override[c]
    PROVE  /\ pc[c] = "gated" /\ override[c] = None
           /\ pc'[c] = "selecting" /\ override'[c] \in PoolOf[c]
<1>1. PICK s \in Sessions, item \in Contents : OverrideSelection(s, item)
  BY DEF Next, StartCall, StartConnected, StopCall, StopDisposed, turnVars,
     RunCardTurn, TurnStep, Hydrated, BeginTurn, PlanCritical, Planned,
     OpenGate, GateTimeout, Selected, Executed, CallThrows, Operator, EndSession
<1>2. pc \in [Cards -> Stages] /\ override \in [Cards -> Contents \cup {None}]
  BY DEF Inv, TypeOK
<1>3. c = pendingGates[s]
  BY <1>1, <1>2 DEF OverrideSelection
<1> QED
  BY <1>1, <1>2, <1>3, OverrideMeetsWaitingTurn DEF OverrideSelection, Goto

\* An accepted override reaches the waiting turn whose pool has the item, and
\* is never replaced or withdrawn (daemon.ts overrideSelection).
THEOREM OverridesTakenOnce == Spec => OverrideTakenOnce
<1>1. Inv /\ [Next]_vars =>
        [\A c \in Cards : override'[c] # override[c] =>
            /\ pc[c] = "gated" /\ override[c] = None
            /\ pc'[c] = "selecting" /\ override'[c] \in PoolOf[c]]_vars
  BY OverrideStep
<1> QED
  BY <1>1, DaemonInvariant, PTL DEF Spec, OverrideTakenOnce

-----------------------------------------------------------------------------
(* The daemon implements CardCall: the safety part *)

callMap == [c \in Cards |-> CallOf(pc[c])]

\* A step that moves one call along, or leaves it where CardCall sees it.
LEMMA CallStep ==
    ASSUME Inv, NEW c \in Cards, NEW stage \in Stages, Goto(c, stage),
           \/ CallOf(stage) = CallOf(pc[c])
           \/ pc[c] = "idle" /\ stage # "returned"
           \/ CallOf(pc[c]) = "running" /\ stage \in Done
    PROVE  [Calls!Next]_callMap
<1>1. pc \in [Cards -> Stages] /\ pc' = [pc EXCEPT ![c] = stage]
  BY DEF Inv, TypeOK, Goto
<1>2. callMap' = [callMap EXCEPT ![c] = CallOf(stage)]
  BY <1>1 DEF callMap
<1>3. callMap[c] = CallOf(pc[c])
  BY DEF callMap
<1>4. CASE CallOf(stage) = CallOf(pc[c])
  BY <1>2, <1>3, <1>4 DEF callMap
<1>5. CASE pc[c] = "idle" /\ stage # "returned" /\ stage # "idle"
  <2>1. callMap[c] = "idle" /\ CallOf(stage) \in {"running", "threw"}
    BY <1>3, <1>5 DEF CallOf, Done
  <2> QED
    BY <1>2, <2>1 DEF Calls!Next, Calls!Begin, Calls!Refuse, Calls!Move, callMap
<1>6. CASE CallOf(pc[c]) = "running" /\ stage \in Done
  <2>1. CallOf(stage) = stage /\ stage \in {"returned", "threw"}
    BY <1>6 DEF CallOf, Done
  <2> QED
    BY <1>2, <1>3, <1>6, <2>1
       DEF Calls!Next, Calls!Settle, Calls!Settled, Calls!Move, callMap
<1>7. pc[c] = "idle" /\ stage = "idle" => CallOf(stage) = CallOf(pc[c])
  OBVIOUS
<1> QED
  BY <1>4, <1>5, <1>6, <1>7

\* A step that moves no turn is a stutter of the calls.
LEMMA CallMapUnchanged ==
    ASSUME UNCHANGED pc
    PROVE  UNCHANGED callMap
BY DEF callMap

\* Stopping resolves gates without ending a call, a stutter of the calls.
LEMMA StopCallStep ==
    ASSUME Inv, StopCall
    PROVE  UNCHANGED callMap
<1>1. \A c \in Cards : CallOf(pc'[c]) = CallOf(pc[c])
  <2> SUFFICES ASSUME NEW c \in Cards, pc'[c] # pc[c]
               PROVE  CallOf(pc'[c]) = CallOf(pc[c])
    OBVIOUS
  <2>1. PICK s \in Sessions : pendingGates[s] = c /\ pendingGates[s] # None
    BY DEF StopCall
  <2>2. pc[c] = "gated"
    BY <2>1 DEF Inv, GateEntryWaits
  <2>3. pc'[c] = "selecting"
    BY DEF StopCall
  <2> QED
    BY <2>2, <2>3 DEF CallOf, Done
<1> QED
  BY <1>1 DEF callMap

\* Every step of the daemon is a step of the calls or a stutter.
LEMMA CallsStep == Inv /\ [Next]_vars => [Calls!Next]_callMap
<1> SUFFICES ASSUME Inv, [Next]_vars PROVE [Calls!Next]_callMap
  OBVIOUS
<1> USE DEF CallOf, Stages, Calling, Done
<1>1. CASE StartCall \/ StartConnected \/ StopDisposed \/ UNCHANGED vars
  BY <1>1, CallMapUnchanged DEF StartCall, StartConnected, StopDisposed, vars,
     turnVars
<1>2. CASE StopCall
  BY <1>2, StopCallStep
<1>3. ASSUME NEW c \in Cards, RunCardTurn(c) PROVE [Calls!Next]_callMap
  <2>1. PICK stage \in {"threw", "opened", "hydrating"} : Goto(c, stage)
    BY <1>3 DEF RunCardTurn
  <2> QED BY <1>3, <2>1, CallStep DEF RunCardTurn
<1>4. ASSUME NEW c \in Cards, TurnStep(c) PROVE [Calls!Next]_callMap
  <2>1. pc[c] \in {"opened", "planned", "gated"} \cup Calling
    BY <1>4 DEF TurnStep, Hydrated, BeginTurn, PlanCritical, Planned, OpenGate,
       GateTimeout, Selected, Executed, CallThrows, Replies
  <2>2. PICK stage \in Stages \ {"idle"} : Goto(c, stage)
    BY <1>4 DEF TurnStep, Hydrated, BeginTurn, PlanCritical, Planned, OpenGate,
       GateTimeout, Selected, Executed, CallThrows
  <2> QED BY <2>1, <2>2, CallStep
<1>5. ASSUME NEW s \in Sessions, Operator(s) PROVE [Calls!Next]_callMap
  <2>1. CASE EndSession(s)
    BY <2>1, CallMapUnchanged DEF EndSession, turnVars
  <2>2. ASSUME NEW item \in Contents, OverrideSelection(s, item)
        PROVE  [Calls!Next]_callMap
    BY <2>2, OverrideMeetsWaitingTurn, CallStep DEF OverrideSelection
  <2> QED BY <1>5, <2>1, <2>2 DEF Operator
<1> QED
  BY <1>1, <1>2, <1>3, <1>4, <1>5 DEF Next

\* The call made for a card moves from idle to running to returned or threw and
\* is settled at most once, whatever stop, the gates and the operator do
\* (daemon.ts runCardTurn). That it is settled in the end is left to TLC.
THEOREM DaemonImplementsCardCall == Spec => Calls!Safety
<1>1. Init => Calls!Init
  BY DEF Init, Calls!Init, CallOf
<1>2. Inv /\ [Next]_vars => [Calls!Next]_callMap
  BY CallsStep
<1> QED
  BY <1>1, <1>2, DaemonInvariant, PTL DEF Spec, Calls!Safety, callMap
=============================================================================

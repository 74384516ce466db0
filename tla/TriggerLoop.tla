----------------------------- MODULE TriggerLoop -----------------------------
(***************************************************************************)
(* The closed loop of the trigger evaluator. A turn logs the signals of    *)
(* the message (orchestrator.ts:296-352), plan_turn evaluates the rules of *)
(* kids.transitions.yaml on the events it is handed (trigger-evaluator.ts, *)
(* transitions-schema.ts), and the orchestrator logs every evaluation and  *)
(* moves the status of the dimension in focus for those that fired, unless *)
(* the signals call for the crisis protocol, which ends the turn.          *)
(* get_state hands out the last events NEWEST FIRST; the evaluator reads   *)
(* them as if the newest came last.                                        *)
(***************************************************************************)
EXTENDS StatusZones, EventWindow, Naturals, Sequences, FiniteSetsExt, SequencesExt

CONSTANTS LoopTurns,      \* turns of the session in flight
          FocusOrder,     \* the dimensions, in CANONICAL_DIMENSIONS order
          Messages,       \* sets of signals a message may show
          LogLimit,       \* LIMIT 20 of get_state
          MaxCrises,      \* bound: turns of a session that go to the protocol
          MaxLoopFaults   \* bound: calls of a session that fail

VARIABLES
  events,     \* event_log as get_state shows it: newest first, at most LogLimit
  matrix,     \* status of each dimension (tree_nodes, zone status)
  loop,       \* what each turn is at, and what it holds
  crises,     \* history: turns of the session that went to the protocol
  faults      \* calls of the session that failed

loopVars == <<events, matrix, loop, crises, faults>>

FocusDims == Range(FocusOrder)
LookBack == 5

ASSUME LoopAssumption ==
  /\ FocusOrder \in Seq(FocusDims) /\ FocusOrder # <<>>
  /\ LogLimit \in Nat \ {0} /\ MaxCrises \in Nat /\ MaxLoopFaults \in Nat

\* kids.transitions.yaml, in its order; the target is what the name ends in, and
\* the status it starts from is tested nowhere (parseTransitionTargetZone).
Rising == {"acceptance", "deepening", "mood_up"}
Blocking == {"distress", "gatekeeper"}
Rules == <<
  [target |-> "baia",  required |-> Rising, all |-> FALSE, window |-> 2,
   confirm |-> {}, blocked |-> Blocking, consecutive |-> 0],
  [target |-> "pasto", required |-> {"synthesis"}, all |-> TRUE, window |-> 5,
   confirm |-> {"meta", "deepening"}, blocked |-> Blocking, consecutive |-> 0],
  [target |-> "brejo", required |-> {"distress", "silence", "thematic"}, all |-> FALSE,
   window |-> 0, confirm |-> {}, blocked |-> {}, consecutive |-> 2],
  [target |-> "baia",  required |-> Blocking, all |-> FALSE, window |-> 0,
   confirm |-> {}, blocked |-> {}, consecutive |-> 2] >>

\* SIGNAL_TO_REASON of critical-detector.ts, of the signals above.
Critical == {"distress"}

Signals(s) == [type |-> "signals", signals |-> s]
Evaluated(f) == [type |-> "evaluated", fired |-> f]
Executed == [type |-> "executed"]
OtherEvent == [type |-> "other"]

\* collectRecentSignalsPerTurn: a list of sets, the last taken for the newest.
PerTurn(log) ==
  LET ofSignals == SelectSeq(log, LAMBDA e : e.type = "signals")
      from == IF Len(ofSignals) > LookBack THEN Len(ofSignals) - LookBack ELSE 0
  IN  [i \in 1..(Len(ofSignals) - from) |-> ofSignals[from + i].signals]

\* collectRecentSignals: what the last of these events show, at most LookBack of them.
SignalPlaces(log) == {i \in 1..Len(log) : log[i].type = "signals"}
LastPlaces(log) ==
  {i \in SignalPlaces(log) : Cardinality({k \in SignalPlaces(log) : k > i}) < LookBack}
Recent(log) == UNION {log[i].signals : i \in LastPlaces(log)}

\* countTurnsSinceLastTransition: counted from the end of the list.
TurnsSince(log) ==
  LET fired == {i \in DOMAIN log : log[i].type = "evaluated" /\ log[i].fired}
      from == IF fired = {} THEN 0 ELSE Max(fired)
  IN  Cardinality({i \in (from + 1)..Len(log) : log[i].type = "executed"})

Matched(rule, signals) == IF rule.all THEN rule.required \subseteq signals
                                      ELSE rule.required \cap signals # {}

RequiredOk(rule, log) ==
  IF rule.consecutive = 0 THEN Matched(rule, Recent(log))
  ELSE /\ Len(PerTurn(log)) >= rule.consecutive
       /\ \A i \in (Len(PerTurn(log)) - rule.consecutive + 1)..Len(PerTurn(log)) :
            Matched(rule, PerTurn(log)[i])

\* evaluateTransition; confirmatory_min is 1 where a rule has confirmatory signals.
Fires(rule, log) ==
  /\ RequiredOk(rule, log)
  /\ TurnsSince(log) >= rule.window
  /\ rule.blocked \cap Recent(log) = {}
  /\ rule.confirm # {} => rule.confirm \cap Recent(log) # {}

\* pickFocusDimension: the lowest status, in canonical order.
Lowest(m) == CHOOSE z \in Status : /\ z \in Range(m)
                                   /\ z # "brejo" => "brejo" \notin Range(m)
                                   /\ z = "pasto" => "baia" \notin Range(m)
Focus(m) == SelectInSeq(FocusOrder, LAMBDA d : m[d] = Lowest(m))

Rest == [at |-> "idle", seen |-> <<>>, focus |-> 1, shown |-> {}, fired |-> <<>>, next |-> 1]

LoopInit ==
  /\ events = <<>>
  /\ matrix \in [FocusDims -> Status]
  /\ loop = [t \in LoopTurns |-> Rest]
  /\ crises = 0 /\ faults = 0

Log(e) == events' = Pushed(events, <<e>>, LogLimit)

\* A call that fails is caught and the turn goes on.
Fails == faults < MaxLoopFaults /\ faults' = faults + 1
Succeeds == UNCHANGED faults

\* get_state
ReadState(t) ==
  /\ loop[t].at = "idle" /\ crises < MaxCrises
  /\ loop' = [loop EXCEPT ![t].at = "extract", ![t].seen = events, ![t].focus = Focus(matrix)]
  /\ UNCHANGED <<events, matrix, crises, faults>>

\* extract_signals, and log_event if there are any; without them, or when one of
\* the two calls fails, the turn goes on with the events it has.
Extract(t) ==
  /\ loop[t].at = "extract"
  /\ \/ /\ \E s \in Messages \ {{}} :
             /\ Log(Signals(s))
             /\ loop' = [loop EXCEPT ![t].at = "refresh", ![t].shown = s]
        /\ Succeeds
     \/ /\ ({} \in Messages /\ Succeeds) \/ Fails
        /\ loop' = [loop EXCEPT ![t].at = "plan"]
        /\ UNCHANGED events
  /\ UNCHANGED <<matrix, crises>>

\* get_state again, for its events alone.
RefreshEvents(t) ==
  /\ loop[t].at = "refresh"
  /\ \/ Succeeds /\ loop' = [loop EXCEPT ![t].at = "plan", ![t].seen = events]
     \/ Fails /\ loop' = [loop EXCEPT ![t].at = "plan", ![t].shown = {}]
  /\ UNCHANGED <<events, matrix, crises>>

\* plan_turn: no rule is evaluated without signals.
PlanTurn(t) ==
  /\ loop[t].at = "plan"
  /\ LET log == loop[t].seen
         fired == [i \in 1..(IF Recent(log) = {} THEN 0 ELSE Len(Rules)) |-> Fires(Rules[i], log)]
     IN  loop' = [loop EXCEPT
           ![t].at = IF Recent(log) \cap Critical # {} THEN "crisis"
                     ELSE IF fired = <<>> THEN "emit" ELSE "evaluation",
           ![t].seen = <<>>, ![t].fired = fired, ![t].next = 1]
  /\ UNCHANGED <<events, matrix, crises, faults>>

\* crisis_detected is logged, and the turn answers nothing.
Crisis(t) ==
  /\ loop[t].at = "crisis"
  /\ \/ Log(OtherEvent) /\ Succeeds
     \/ UNCHANGED events /\ Fails
  /\ loop' = [loop EXCEPT ![t] = Rest]
  /\ crises' = crises + 1
  /\ UNCHANGED matrix

NextEvaluation(t) ==
  LET more == loop[t].next < Len(loop[t].fired)
  IN  [loop EXCEPT ![t].at = IF more THEN "evaluation" ELSE "emit",
                   ![t].next = IF more THEN @ + 1 ELSE 1]

\* Faulty variant: only what fired is logged.
LogEvaluationFired(t) ==
  /\ loop[t].at = "evaluation"
  /\ LET f == loop[t].fired[loop[t].next]
     IN  /\ loop' = IF f THEN [loop EXCEPT ![t].at = "apply"] ELSE NextEvaluation(t)
         /\ IF f THEN Log(Evaluated(f)) ELSE UNCHANGED events
  /\ UNCHANGED <<matrix, crises, faults>>

\* transition_evaluated
LogEvaluation(t) ==
  /\ loop[t].at = "evaluation"
  /\ LET f == loop[t].fired[loop[t].next]
     IN  /\ loop' = IF f THEN [loop EXCEPT ![t].at = "apply"] ELSE NextEvaluation(t)
         /\ \/ Log(Evaluated(f)) /\ Succeeds
            \/ UNCHANGED events /\ Fails
  /\ UNCHANGED <<matrix, crises>>

\* apply_status_transition: the row is read and written in one go, and the event
\* status_matrix_updated_by_trigger follows.
ApplyTransition(t) ==
  /\ loop[t].at = "apply"
  /\ loop' = NextEvaluation(t)
  /\ \/ /\ matrix' = [matrix EXCEPT ![FocusOrder[loop[t].focus]] =
                         Transition(@, Rules[loop[t].next].target)]
        /\ Log(OtherEvent) /\ Succeeds
     \/ Fails /\ UNCHANGED <<events, matrix>>
  /\ UNCHANGED crises

\* candidate_set_emitted
EmitCandidates(t) ==
  /\ loop[t].at = "emit"
  /\ \/ Log(OtherEvent) /\ Succeeds
     \/ UNCHANGED events /\ Fails
  /\ loop' = [loop EXCEPT ![t].at = "execute"]
  /\ UNCHANGED <<matrix, crises>>

\* execute_playbook: the turn, and what became of the repetition inquiry.
ExecutePlaybook(t) ==
  /\ loop[t].at = "execute"
  /\ events' = Pushed(events, <<OtherEvent, Executed>>, LogLimit)
  /\ loop' = [loop EXCEPT ![t] = Rest]
  /\ UNCHANGED <<matrix, crises, faults>>

\* The first turn of another session: no events, and defaultMatrix.
NewSession ==
  /\ \A t \in LoopTurns : loop[t].at = "idle"
  /\ events' = <<>> /\ crises' = 0 /\ faults' = 0
  /\ matrix' = [d \in FocusDims |-> "baia"]
  /\ UNCHANGED loop

LoopStep ==
  \/ NewSession
  \/ \E t \in LoopTurns :
       \/ ReadState(t) \/ Extract(t) \/ RefreshEvents(t) \/ PlanTurn(t) \/ Crisis(t)
       \/ LogEvaluation(t) \/ ApplyTransition(t) \/ EmitCandidates(t) \/ ExecutePlaybook(t)

LoopSpec == LoopInit /\ [][LoopStep]_loopVars

-----------------------------------------------------------------------------
(* Properties *)

LoopTypeOK ==
  /\ Len(events) <= LogLimit
  /\ matrix \in [FocusDims -> Status]
  /\ \A t \in LoopTurns :
       /\ loop[t].at \in {"idle", "extract", "refresh", "plan", "crisis", "evaluation",
                          "apply", "emit", "execute"}
       /\ loop[t].focus \in DOMAIN FocusOrder
       /\ loop[t].fired \in UNION {[1..n -> BOOLEAN] : n \in {0, Len(Rules)}}
       /\ loop[t].next \in DOMAIN Rules
  /\ crises \in Nat /\ faults \in 0..MaxLoopFaults

\* In a session that had no crisis so far, a turn whose own message shows a
\* critical signal, logged and read back, goes to the protocol. The newest signals
\* count only as long as no more than LookBack events of signals are in what
\* get_state shows: each turn logs enough other events to see to that.
FirstCrisisIsSeen ==
  [][\A t \in LoopTurns :
       /\ loop[t].at = "plan" /\ loop'[t].at \in {"evaluation", "emit"}
       /\ crises = 0
       => loop[t].shown \cap Critical = {}]_loopVars

\* "signals capturados nos ultimos 5 turns" (plan.ts:1262): a turn whose own
\* message shows a critical signal, logged and read back, goes to the protocol.
CrisisIsSeen ==
  [][\A t \in LoopTurns : loop[t].at = "plan" /\ loop'[t].at \in {"evaluation", "emit"}
                            => loop[t].shown \cap Critical = {}]_loopVars
=============================================================================

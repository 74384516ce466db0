----------------------------- MODULE DrotaTurn -----------------------------
(***************************************************************************)
(* What a turn says and what it records of it (orchestrator.ts:625-790;    *)
(* motor-drota/src/server.ts, simplified-pipeline-handler.ts): the planner *)
(* hands over a pool of scored items and a move, the operator may override *)
(* the pool by one of its items, evaluate_and_select picks an item and     *)
(* makes a text of it, and the turn is executed and, if the item picked is *)
(* a drill, logged as having asked it. The two flags of the environment    *)
(* give three pipelines.                                                   *)
(***************************************************************************)
EXTENDS Naturals, Sequences, FiniteSets

CONSTANTS
    Ranking,       \* the items of the bank, best score first
    Cost,          \* sacrifice_amount of each item
    Drills,        \* the items of type drill_vocab
    Aligned,       \* the items whose casel_target meets the active pair of the helix
    Inaugural,     \* item "__inaugural__"
    EmptyPool,     \* item "__empty_pool__"
    NoItem,
    MaxSpoken      \* bound: the turn number stops here (0 and 2 are told apart)

Content == {Ranking[i] : i \in DOMAIN Ranking}

ASSUME DrotaAssumption ==
    /\ Ranking \in Seq(Content) /\ Cardinality(Content) = Len(Ranking)
    /\ Cost \in [Content -> Nat]
    /\ Drills \subseteq Content /\ Aligned \subseteq Content
    /\ {Inaugural, EmptyPool, NoItem} \cap Content = {} /\ NoItem \notin {Inaugural, EmptyPool}
    /\ MaxSpoken \in Nat /\ MaxSpoken >= 2

VARIABLES
    pipeline,    \* USE_SIMPLIFIED_PIPELINE and USE_SPLIT_DROTA
    spoken,      \* state.turn of the session
    lastItem,    \* selectedContentId of the last playbook_executed
    planned,     \* what the planner handed over: pool, move, discovery_options
    override,    \* overrideAppliedId
    text,        \* what evaluate_and_select returned
    drillLogged, \* the drill_emitted event of the last turn
    at           \* where the turn is

drotaVars == <<pipeline, spoken, lastItem, planned, override, text, drillLogged, at>>

Moves == {"explain", "compose_playbook", "close", "discover", "correct", "recall"}

\* item: selectedContent. about: the item the text speaks of. asks: it is the
\* question of a drill. concept: the item of the presented_concept event.
Said(item, about, asks, concept) ==
    [item |-> item, about |-> about, asks |-> asks, concept |-> concept]

NothingSaid == Said(NoItem, NoItem, FALSE, NoItem)
NothingPlanned == [pool |-> {}, move |-> "explain", discovery |-> FALSE]

DrotaInit ==
    /\ pipeline \in {"legacy", "simplified", "split"}
    /\ spoken = 0 /\ lastItem = NoItem
    /\ planned = NothingPlanned /\ override = NoItem
    /\ text = NothingSaid /\ drillLogged = NoItem
    /\ at = "idle"

Rank(x) == CHOOSE i \in DOMAIN Ranking : Ranking[i] = x
BestOf(S) == CHOOSE x \in S : \A y \in S : Rank(x) <= Rank(y)

\* computeBasicTutorialContext: the first condition met decides; a recall waits for
\* two turns and for the top item to differ from the last executed one.
MoveType(hints, top) ==
    IF hints.compose THEN "compose_playbook"
    ELSE IF hints.exit THEN "close"
    ELSE IF hints.discovering THEN "discover"
    ELSE IF hints.confused THEN "correct"
    ELSE IF spoken >= 2 /\ lastItem # NoItem /\ top # lastItem THEN "recall"
    ELSE "explain"

\* The planner puts the proposed drill before what it scored.
Top(pool) == IF pool = {} THEN NoItem
             ELSE BestOf(IF pool \cap Drills # {} THEN pool \cap Drills ELSE pool)

\* The pool is what scoring and triage left. The questions of discovery come with
\* their move, unless making them failed.
PlanPool ==
    /\ at = "idle"
    /\ \E pool \in SUBSET Content,
          hints \in [compose : BOOLEAN, exit : BOOLEAN, discovering : BOOLEAN,
                     confused : BOOLEAN] :
         LET move == MoveType(hints, Top(pool))
         IN  \E discovery \in {FALSE, move = "discover"} :
               planned' = [pool |-> pool, move |-> move, discovery |-> discovery]
    /\ text' = NothingSaid /\ drillLogged' = NoItem
    /\ at' = "gate"
    /\ UNCHANGED <<pipeline, spoken, lastItem, override>>

\* The options gate: an id that is not in the pool, an exception and no gate at all
\* leave the pool as it was.
OptionsGate ==
    /\ at = "gate"
    /\ override' \in planned.pool \cup {NoItem}
    /\ at' = "drota"
    /\ UNCHANGED <<pipeline, spoken, lastItem, planned, text, drillLogged>>

\* Faulty variant: the override is reported and the pool handed over as it was.
PoolPlanned == planned.pool

\* effectiveContentPool
Pool == IF override = NoItem THEN planned.pool ELSE {override}

-----------------------------------------------------------------------------
(* evaluate_and_select: the set of what it may return. *)

\* The pipeline of the default environment: the best item. A drill is asked by its
\* template; of another item the model writes, or refuses to.
Legacy ==
    IF Pool = {} THEN {Said(EmptyPool, NoItem, FALSE, NoItem)}
    ELSE LET best == BestOf(Pool)
         IN  IF best \in Drills THEN {Said(best, best, TRUE, NoItem)}
             ELSE {Said(best, about, FALSE, NoItem) : about \in {best, NoItem}}

\* selectAction, Step 2 and the minimal mode: the highest cost that is viable.
CostCap(budget, mood, disengaging) ==
    IF budget = "none" THEN 2
    ELSE IF mood = "low" THEN 3
    ELSE IF disengaging THEN 4
    ELSE IF budget = "low" THEN 5
    ELSE 1000

Viable(cap) == {x \in Pool : Cost[x] <= cap}

\* selectAction, Step 5: the lowest cost; among equals those the helix works at, when
\* it breaks ties; then the best score. The minimal mode sorts by cost alone.
SelectAction(cap, helix) ==
    LET cheapest == {x \in Viable(cap) : \A y \in Viable(cap) : Cost[x] <= Cost[y]}
        aligned == cheapest \cap Aligned
    IN  BestOf(IF helix /\ cap # 2 /\ aligned # {} THEN aligned ELSE cheapest)

\* Nothing viable: the best item is returned with a text that speaks of none.
Escalated ==
    Said(IF Pool = {} THEN EmptyPool ELSE BestOf(Pool), NoItem, FALSE, NoItem)

\* extractPresentedConcepts: an item without tags and the ice breaker give none.
Presented(x, about, asks) ==
    {Said(x, about, asks, concept) : concept \in {x, NoItem}}

\* Faulty variant: a text that fell back counts as a presentation.
MaterializeUnchecked(x) ==
    IF pipeline = "split"
    THEN UNION {Presented(x, about, FALSE) : about \in Pool \cup {NoItem}}
    ELSE UNION {Presented(x, about, x \in Drills) : about \in {x, NoItem}}

\* The text of a selected item, step 3b without its short circuits. The Tactician may
\* choose another item of the pool, and it is the selector's that is recorded.
Materialize(x) ==
    IF pipeline = "split"
    THEN {Said(x, NoItem, FALSE, NoItem)}
           \cup UNION {Presented(x, about, FALSE) : about \in Pool}
    ELSE IF x \in Drills THEN Presented(x, x, TRUE)
    ELSE {Said(x, NoItem, FALSE, NoItem)} \cup Presented(x, x, FALSE)

\* The short circuits: a question of discovery or a playbook speaks of no item.
Talks(x) ==
    IF planned.discovery \/ planned.move = "compose_playbook"
    THEN {Said(x, NoItem, FALSE, NoItem)}
    ELSE IF planned.move = "explain" THEN Presented(x, x, FALSE)
    ELSE Materialize(x)

\* handleSimplifiedPipeline: a recall or a correction may break ties by the helix.
TextsWithin(cap) ==
    IF Viable(cap) = {} THEN {Escalated}
    ELSE UNION {Talks(SelectAction(cap, helix)) :
            helix \in {FALSE, planned.move \in {"correct", "recall"}}}

Simplified ==
    UNION {TextsWithin(CostCap(budget, mood, disengaging)) :
           budget \in {"none", "low", "ample"}, mood \in {"low", "fair"},
           disengaging \in BOOLEAN}

\* The first turn is the presentation, whatever the pool and the pipeline.
EvaluateAndSelect ==
    /\ at = "drota"
    /\ text' \in IF spoken = 0 THEN {Said(Inaugural, NoItem, FALSE, NoItem)}
                 ELSE IF pipeline = "legacy" THEN Legacy ELSE Simplified
    /\ at' = "execute"
    /\ UNCHANGED <<pipeline, spoken, lastItem, planned, override, drillLogged>>

\* What was planned is the turn's own.
TurnEnds == at' = "idle" /\ planned' = NothingPlanned /\ override' = NoItem

\* plan_turn, evaluate_and_select or execute_playbook throws: so does the turn.
TurnThrows ==
    /\ at \in {"gate", "drota", "execute"}
    /\ TurnEnds /\ text' = NothingSaid
    /\ UNCHANGED <<pipeline, spoken, lastItem, drillLogged>>

\* execute_playbook, then log_event of a drill, whose failure is swallowed.
Execute ==
    /\ at = "execute"
    /\ spoken' = IF spoken < MaxSpoken THEN spoken + 1 ELSE spoken
    /\ lastItem' = text.item
    /\ drillLogged' \in {NoItem, IF text.item \in Drills THEN text.item ELSE NoItem}
    /\ TurnEnds
    /\ UNCHANGED <<pipeline, text>>

DrotaStep == PlanPool \/ OptionsGate \/ EvaluateAndSelect \/ TurnThrows \/ Execute

DrotaSpec == DrotaInit /\ [][DrotaStep]_drotaVars

-----------------------------------------------------------------------------
(* Properties *)

DrotaTypeOK ==
    /\ pipeline \in {"legacy", "simplified", "split"}
    /\ spoken \in 0..MaxSpoken
    /\ lastItem \in Content \cup {Inaugural, EmptyPool, NoItem}
    /\ planned \in [pool : SUBSET Content, move : Moves, discovery : BOOLEAN]
    /\ override \in Content \cup {NoItem}
    /\ text \in [item : Content \cup {Inaugural, EmptyPool, NoItem},
                 about : Content \cup {NoItem}, asks : BOOLEAN,
                 concept : Content \cup {NoItem}]
    /\ drillLogged \in Drills \cup {NoItem}
    /\ at \in {"idle", "gate", "drota", "execute"}

\* An override that was applied is what the turn records and all its text may speak
\* of, in each pipeline and whatever mood and budget allow, after the presentation.
OverrideHonoured ==
    at = "execute" /\ override # NoItem /\ spoken > 0 =>
      text.item = override /\ text.about \in {override, NoItem}

\* In the default pipeline a drill is logged as asked only when the text of its turn
\* was its question: the next message is scored as the answer to it.
LoggedDrillWasAsked ==
    pipeline = "legacy" /\ drillLogged # NoItem => text.asks /\ text.about = drillLogged

\* A concept is recorded as presented only when the text spoke of an item, and of that
\* one unless the Tactician was free to choose.
ConceptWasSpoken ==
    text.concept # NoItem =>
      /\ text.about # NoItem
      /\ text.about = text.concept \/ pipeline = "split"

\* Outside the split pipeline a text asks the drill that is recorded, or none.
AskedIsRecorded == text.asks => text.item \in Drills /\ text.about = text.item

TalkRecorded ==
    OverrideHonoured /\ LoggedDrillWasAsked /\ ConceptWasSpoken /\ AskedIsRecorded
=============================================================================

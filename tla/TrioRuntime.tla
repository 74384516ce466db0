----------------------------- MODULE TrioRuntime -----------------------------
(***************************************************************************)
(* Who speaks next in a group (orchestrator/src/trio-runtime.ts): the bot, *)
(* a child, or nobody, from the history of the turns and the brejo signals *)
(* of the turn (brejo-composer.ts). trio-orchestrator.ts keeps the state:  *)
(* prepareTurn decides, appendTurnHistory adds the turn that took place,   *)
(* each in a round of its own (nextRoundNumber).                           *)
(* Of the history only the last turns and, for each child, the turns since *)
(* it spoke matter; shares are compared with the caps by cross products.   *)
(***************************************************************************)
EXTENDS Naturals, Sequences, FiniteSets

CONSTANTS Children,       \* participants, in the order of their ids: 1..n
          SensoryStrategy, \* those with regulation_strategy "sensory"
          Tolerance,      \* absenceThresholdFor each child
          RateWindow,         \* DEFAULT_ROLLING_WINDOW
          CapNum, CapDen, \* the bot_turn_ratio of the mode
          MaxBotTurns     \* max_consecutive_bot_turns

Bot == 0

ASSUME TrioAssumption ==
  /\ Children \subseteq Nat \ {Bot} /\ Children # {} /\ IsFiniteSet(Children)
  /\ SensoryStrategy \subseteq Children
  /\ Tolerance \in [Children -> Nat \ {0}]
  /\ RateWindow \in Nat \ {0} /\ MaxBotTurns \in 1..RateWindow
  /\ CapNum \in Nat /\ CapDen \in Nat \ {0}

VARIABLES
  recent,  \* the speakers of the last RateWindow turns, the latest at the end
  silent,  \* turns since each child spoke, up to its tolerance
  waiting  \* history: hints in a row that passed over each child, all heeded,
           \* up to RateWindow

trioVars == <<recent, silent, waiting>>

Trio == Cardinality(Children) > 2

TrioInit ==
  /\ recent = <<>>
  /\ silent = [c \in Children |-> 0]
  /\ waiting = [c \in Children |-> 0]

-----------------------------------------------------------------------------
(* The decision *)

TurnsOf(who) == Cardinality({i \in 1..Len(recent) : recent[i] = who})
Latest == recent[Len(recent)]

\* decideBrejoPause of composeBrejoSignals: emotional brejo of anyone stops the
\* group, and in a pair any brejo does; in a trio a sensory one excludes the child.
PauseFull(emotional, sensory) ==
  \/ emotional # {}
  \/ sensory # {} /\ (~Trio \/ sensory = Children)

TooManyBotTurns ==
  /\ Len(recent) >= MaxBotTurns
  /\ \A i \in (Len(recent) - MaxBotTurns + 1)..Len(recent) : recent[i] = Bot

\* shouldBotTakeTurn: the bot opens the session, and speaks while its share of the
\* window is below the cap.
BotSpeaks ==
  recent = <<>> \/ (~TooManyBotTurns /\ TurnsOf(Bot) * CapDen < CapNum * Len(recent))

IsAbsent(c) == silent[c] >= Tolerance[c]

\* Faulty variant: whoever spoke more goes first.
BeforeMost(a, b) ==
  \/ TurnsOf(a) > TurnsOf(b)
  \/ TurnsOf(a) = TurnsOf(b) /\ Tolerance[a] < Tolerance[b]
  \/ TurnsOf(a) = TurnsOf(b) /\ Tolerance[a] = Tolerance[b] /\ a <= b

\* The order of pickNextChild: fewer turns, less tolerance of silence, the id.
Before(a, b) ==
  \/ TurnsOf(a) < TurnsOf(b)
  \/ TurnsOf(a) = TurnsOf(b) /\ Tolerance[a] < Tolerance[b]
  \/ TurnsOf(a) = TurnsOf(b) /\ Tolerance[a] = Tolerance[b] /\ a <= b

FirstOf(S) == CHOOSE a \in S : \A b \in S : Before(a, b)

\* An absent child first; and not the last speaker again, if another has not spoken more.
PickNextChild(eligible) ==
  LET absent == {c \in eligible : IsAbsent(c)}
      others == eligible \ {Latest}
  IN  IF Cardinality(eligible) = 1 THEN FirstOf(eligible)
      ELSE IF absent # {} THEN FirstOf(absent)
      ELSE IF /\ Latest # Bot /\ others # {}
              /\ TurnsOf(FirstOf(others)) = TurnsOf(FirstOf(eligible))
           THEN FirstOf(others)
      ELSE FirstOf(eligible)

-----------------------------------------------------------------------------
(* A turn *)

Spoken(who) ==
  /\ recent' = IF Len(recent) < RateWindow THEN Append(recent, who)
               ELSE Append(Tail(recent), who)
  /\ silent' = [c \in Children |-> IF c = who THEN 0
                                   ELSE IF silent[c] < Tolerance[c] THEN silent[c] + 1
                                   ELSE silent[c]]

BrejoSignals == {s \in [emotional : SUBSET Children, sensory : SUBSET SensoryStrategy] :
              ~PauseFull(s.emotional, s.sensory)}

\* A full pause appends nothing: the signals of the next turn decide.
BotTurn ==
  /\ BotSpeaks
  /\ Spoken(Bot)
  /\ UNCHANGED waiting

\* The child that was asked answers; one that is excluded does not wait.
ChildTurn ==
  /\ ~BotSpeaks
  /\ \E s \in BrejoSignals :
       LET next == PickNextChild(Children \ s.sensory)
       IN  /\ Spoken(next)
           /\ waiting' = [c \in Children |->
                            IF c = next \/ c \in s.sensory THEN 0
                            ELSE IF waiting[c] < RateWindow THEN waiting[c] + 1
                            ELSE RateWindow]

\* Another child speaks, whatever was decided.
Interjection(c) ==
  /\ recent # <<>>
  /\ Spoken(c)
  /\ waiting' = [d \in Children |-> 0]

TrioStep == BotTurn \/ ChildTurn \/ \E c \in Children : Interjection(c)

TrioSpec == TrioInit /\ [][TrioStep]_trioVars

-----------------------------------------------------------------------------
(* Properties *)

TrioTypeOK ==
  /\ recent \in Seq(Children \cup {Bot}) /\ Len(recent) <= RateWindow
  /\ silent \in [Children -> Nat]
  /\ \A c \in Children : silent[c] <= Tolerance[c]
  /\ waiting \in [Children -> 0..RateWindow]

\* Section 10.1: the share of the bot. It speaks below the cap and one turn more.
BotShare == Len(recent) = RateWindow => (TurnsOf(Bot) - 1) * CapDen < CapNum * RateWindow

\* Section 11: however the turns went before, a group that follows the hints gives
\* the turn to every child that is not excluded before a window of them is over.
EveryoneIsAsked == \A c \in Children : waiting[c] < RateWindow

ModerationHolds == BotShare /\ EveryoneIsAsked
=============================================================================

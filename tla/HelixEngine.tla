----------------------------- MODULE HelixEngine -----------------------------
(***************************************************************************)
(* The helix of a child (planejador/src/strategist/helix-engine.ts): two   *)
(* CASEL dimensions are active in a cycle of days, the others wait in a    *)
(* queue, have had their turn, or are deferred. The functions of the       *)
(* engine are pure; an action is a call and the row that keeps its result. *)
(***************************************************************************)
EXTENDS Naturals, Sequences, FiniteSetsExt

CONSTANTS CaselDims,     \* ALL_CASEL_DIMS, in the canonical order
          ActiveDays,    \* KIDS_HELIX_ACTIVE_DAYS
          TotalDays,     \* KIDS_HELIX_TOTAL_DAYS
          MaxDeferred,   \* bound: dimensions deferred at a time
          CadenceDay     \* the day each trigger is due (retrieval, midcycle, boss fight)

Dims == {CaselDims[i] : i \in 1..Len(CaselDims)}

ASSUME HelixAssumption ==
  /\ CaselDims \in Seq(Dims) /\ Len(CaselDims) >= 3
  /\ \A i, j \in 1..Len(CaselDims) : CaselDims[i] = CaselDims[j] => i = j
  /\ ActiveDays \in Nat \ {0} /\ TotalDays \in Nat /\ ActiveDays < TotalDays
  /\ MaxDeferred \in Nat
  /\ CadenceDay \in [DOMAIN CadenceDay -> 0..ActiveDays]

VARIABLES
  pair,        \* active_pair
  queue,       \* dimensions that wait, in order of priority
  completed, deferred,
  day, mode,
  vacation,    \* vacation_trigger is not null
  fired,       \* triggers_fired_this_cycle
  resumedActive \* history: an active dimension was put into the queue

helixVars == <<pair, queue, completed, deferred, day, mode, vacation, fired,
               resumedActive>>

Cadence == DOMAIN CadenceDay

InPair(d) == d \in {pair[1], pair[2]}
Queued == {queue[i] : i \in 1..Len(queue)}

\* Any order the engagement signals may give.
Rankings == {r \in [1..Len(CaselDims) -> Dims] :
               \A i, j \in 1..Len(CaselDims) : r[i] = r[j] => i = j}

PlacesOf(seq, S) == {i \in 1..Len(seq) : seq[i] \in S}

\* filter: what is in S, in the order it has in the sequence; find: the first of it.
Filtered(seq, S) ==
  LET places == PlacesOf(seq, S)
      rank == [i \in places |-> Cardinality({k \in places : k <= i})]
  IN  [n \in 1..Cardinality(places) |-> seq[CHOOSE i \in places : rank[i] = n]]
First(seq, S) == seq[Min(PlacesOf(seq, S))]

\* computeInitialPair: the dimension in most need with the most engaged of the
\* others. The queue keeps the canonical order (defaultKidsHelixState).
HelixInit ==
  /\ \E need \in Dims : \E partner \in Dims \ {need} : pair = <<need, partner>>
  /\ queue = Filtered(CaselDims, Dims \ {pair[1], pair[2]})
  /\ completed = {} /\ deferred = {}
  /\ day = 0 /\ mode = "active" /\ vacation = FALSE /\ fired = {}
  /\ resumedActive = FALSE

-----------------------------------------------------------------------------
(* computeNextPair: [X, Y] becomes [Y, Z] *)

Done == completed \cup {pair[1]}
Carry == pair[2]
Remaining == Filtered(queue, Dims \ {pair[1], pair[2]})

\* All had their turn: a new rotation, of all five, in the order of the signals.
Reshuffled(r) == [pair |-> <<r[1], r[2]>>, queue |-> SubSeq(r, 3, Len(r)), completed |-> {}]

Overlapped == [pair |-> <<Carry, Remaining[1]>>,
               queue |-> Filtered(queue, Dims \ {Remaining[1]}),
               completed |-> Done]

\* The queue is drained: a dimension that is nowhere, else any but the carry.
Nowhere == Dims \ ({Carry} \cup Done \cup Queued)
Fallback == [pair |-> <<Carry, IF Nowhere # {}
                               THEN First(CaselDims, Nowhere)
                               ELSE First(CaselDims, Dims \ {Carry})>>,
             queue |-> queue, completed |-> Done]

\* Faulty variant: X is not moved to completed.
NextPairsForgetX ==
  IF Done \cup {Carry} = Dims /\ queue = <<>> THEN {Reshuffled(r) : r \in Rankings}
  ELSE IF Remaining # <<>> THEN {[Overlapped EXCEPT !.completed = completed]}
  ELSE {Fallback}

NextPairs ==
  IF Done \cup {Carry} = Dims /\ queue = <<>> THEN {Reshuffled(r) : r \in Rankings}
  ELSE IF Remaining # <<>> THEN {Overlapped}
  ELSE {Fallback}

-----------------------------------------------------------------------------
(* The calls *)

\* Meant for the last day (helix-engine.ts:280), which the engine does not test;
\* nothing happens in a vacation.
CompleteCycle ==
  /\ mode # "vacation"
  /\ \E next \in NextPairs :
       /\ pair' = next.pair
       /\ queue' = next.queue
       /\ completed' = next.completed
  /\ day' = 0 /\ mode' = "active" /\ fired' = {}
  /\ UNCHANGED <<deferred, vacation, resumedActive>>

\* In a vacation too: it ends, and its trigger stays.
CycleStart ==
  /\ ~(mode = "active" /\ day = 0)
  /\ day' = 0 /\ mode' = "active" /\ fired' = {}
  /\ UNCHANGED <<pair, queue, completed, deferred, vacation, resumedActive>>

Phase(d) == IF d >= ActiveDays THEN "buffer" ELSE "active"

\* Faulty variant: the day does not stop at the last one.
DayAdvanceUncapped ==
  /\ mode # "vacation"
  /\ day <= TotalDays
  /\ day' = day + 1
  /\ mode' = Phase(day')
  /\ UNCHANGED <<pair, queue, completed, deferred, vacation, fired, resumedActive>>

DayAdvance ==
  /\ mode # "vacation"
  /\ day' = IF day + 1 >= TotalDays THEN TotalDays - 1 ELSE day + 1
  /\ mode' = Phase(day')
  /\ UNCHANGED <<pair, queue, completed, deferred, vacation, fired, resumedActive>>

\* The deferred dimension leaves the pair only for a substitute of the queue.
DeferDimension(d, substitute) ==
  /\ d \notin deferred /\ InPair(d) /\ Cardinality(deferred) < MaxDeferred
  /\ deferred' = deferred \cup {d}
  /\ IF substitute \in Queued
     THEN /\ pair' = IF pair[1] = d THEN <<substitute, pair[2]>> ELSE <<pair[1], substitute>>
          /\ queue' = Filtered(queue, Dims \ {substitute})
     ELSE UNCHANGED <<pair, queue>>
  /\ UNCHANGED <<completed, day, mode, vacation, fired, resumedActive>>

\* Back to the end of the queue, also when it never left the pair.
ResumeDimension(d) ==
  /\ d \in deferred
  /\ deferred' = deferred \ {d}
  /\ queue' = IF d \in Queued THEN queue ELSE Append(queue, d)
  /\ resumedActive' = (resumedActive \/ InPair(d))
  /\ UNCHANGED <<pair, completed, day, mode, vacation, fired>>

EnterVacation ==
  /\ mode # "vacation"
  /\ mode' = "vacation" /\ vacation' = TRUE
  /\ UNCHANGED <<pair, queue, completed, deferred, day, fired, resumedActive>>

ExitVacation ==
  /\ mode = "vacation"
  /\ mode' = Phase(day) /\ vacation' = FALSE
  /\ UNCHANGED <<pair, queue, completed, deferred, day, fired, resumedActive>>

\* detectCadenceTriggers
DueTriggers == {t \in Cadence \ fired : mode # "vacation" /\ day >= CadenceDay[t]}

MarkTriggerFired ==
  /\ \E t \in DueTriggers : fired' = fired \cup {t}
  /\ UNCHANGED <<pair, queue, completed, deferred, day, mode, vacation, resumedActive>>

HelixStep ==
  \/ CompleteCycle \/ CycleStart \/ DayAdvance
  \/ EnterVacation \/ ExitVacation \/ MarkTriggerFired
  \/ \E d \in Dims : \/ ResumeDimension(d)
                     \/ \E s \in Dims : DeferDimension(d, s)

HelixSpec == HelixInit /\ [][HelixStep]_helixVars

-----------------------------------------------------------------------------
(* Properties *)

\* Outside of a vacation the mode is that of the day; a trigger was due when it fired.
HelixTypeOK ==
  /\ pair \in Dims \X Dims
  /\ queue \in Seq(Dims)
  /\ completed \subseteq Dims /\ deferred \subseteq Dims
  /\ day \in 0..(TotalDays - 1)
  /\ mode \in {"active", "buffer", "vacation"}
  /\ mode # "vacation" => mode = Phase(day)
  /\ mode = "vacation" => vacation
  /\ vacation \in BOOLEAN /\ resumedActive \in BOOLEAN
  /\ fired \subseteq Cadence

\* Whatever is deferred, resumed, substituted and reshuffled, every dimension
\* is active, waits, has had its turn or is deferred: none falls out of the
\* rotation (computeNextPair, deferDimension, resumeDimension).
NoDimensionLost == Dims = {pair[1], pair[2]} \cup Queued \cup completed \cup deferred

\* "Par de 2 dimensoes CASEL - sempre 2 distintas" (kids-helix-state.ts:113). So
\* it is, unless a dimension was resumed that had never left the pair: then the
\* queue has an active dimension, and it may be the substitute of the other one.
PairDistinct == pair[1] = pair[2] => resumedActive

\* No dimension that is active waits in the queue as well: with such a queue
\* computeNextPair has no candidate and sees no end of the rotation, and the pair
\* would only swap for ever. Again, unless one was resumed that never left the pair.
QueueOfOthers == resumedActive \/ Queued \cap {pair[1], pair[2]} = {}

\* The rotation of the dimensions, whatever the calls in between.
RotationHolds == NoDimensionLost /\ PairDistinct /\ QueueOfOthers
=============================================================================

-------------------------- MODULE DrillLoop_proofs --------------------------
(***************************************************************************)
(* SpacedRepetition for any row: the floor of the easiness, the growth of  *)
(* the intervals, the row recordAttempt saves. DrillLoop for any bank, any *)
(* number of overlapping turns and any event window: the types, that       *)
(* mastery is earned and kept, that the rows and the audit log agree, and  *)
(* that the event log tells of no attempt the audit log has not.           *)
(***************************************************************************)
EXTENDS DrillLoop, FiniteSetTheorems, TLAPS

\* The easiness never falls below its floor (sr-algorithm.ts nextInterval).
LEMMA EaseFloor ==
    ASSUME NEW e \in Nat, NEW r \in Responses
    PROVE  NextEase(e, r) \in Nat /\ NextEase(e, r) >= MinEasiness
<1>1. EaseDelta[r] \in Int
  BY DEF EaseDelta, Responses, Right
<1> QED
  BY <1>1 DEF NextEase, MinEasiness

\* Rounding hundredths gives the quotient or the next integer.
LEMMA RoundedNear ==
    ASSUME NEW p \in Nat, NEW n \in Rounded(p)
    PROVE  n \in Nat /\ 100 * n + 50 >= p /\ p + 50 >= 100 * n
<1>1. /\ p = 100 * (p \div 100) + (p % 100) /\ p \div 100 \in Nat
      /\ p + 50 = 100 * ((p + 50) \div 100) + ((p + 50) % 100)
      /\ (p + 50) \div 100 \in Nat
      /\ (p + 50) % 100 \in 0 .. 99 /\ p % 100 \in 0 .. 99
  OBVIOUS
<1>2. n = (p + 50) \div 100 \/ (n = p \div 100 /\ p % 100 = 50)
  BY DEF Rounded
<1> QED
  BY <1>1, <1>2

\* The intervals nextInterval returns are whole days, one at least.
LEMMA IntervalType ==
    ASSUME NEW i \in Nat, NEW e \in Nat, e >= MinEasiness, NEW r \in Responses,
           NEW n \in NextIntervals(i, e, r)
    PROVE  n \in Nat \ {0}
<1>1. CASE r \notin Right \/ i = 0
  BY <1>1 DEF NextIntervals
<1>2. CASE r \in Right /\ i = 1
  BY <1>2 DEF NextIntervals
<1>3. CASE r \in Right /\ i >= 2
  <2>1. n \in Rounded(i * e)
    BY <1>3 DEF NextIntervals
  <2>2. i * e \in Nat /\ i * e >= 130
    BY <1>3 DEF MinEasiness
  <2>3. n \in Nat /\ 100 * n + 50 >= i * e
    BY <2>1, <2>2, RoundedNear
  <2> QED
    BY <2>2, <2>3
<1> QED
  BY <1>1, <1>2, <1>3

\* A right answer makes the interval longer, however low the easiness has
\* fallen: an item answered right is never asked as often again
\* (sr-algorithm.ts nextInterval).
THEOREM RightLengthens ==
    ASSUME NEW i \in Nat, NEW e \in Nat, NEW r \in Right,
           NEW n \in NextIntervals(i, NextEase(e, r), r)
    PROVE  n > i
<1> DEFINE f == NextEase(e, r)
<1>1. f \in Nat /\ f >= 130
  BY EaseFloor DEF Responses, MinEasiness
<1>2. CASE i = 0
  BY <1>2 DEF NextIntervals
<1>3. CASE i = 1
  BY <1>3 DEF NextIntervals
<1>4. CASE i >= 2
  <2>1. n \in Rounded(i * f)
    BY <1>4 DEF NextIntervals
  <2>2. i * f \in Nat /\ i * f >= 130 * i
    BY <1>1
  <2>3. n \in Nat /\ 100 * n + 50 >= i * f
    BY <2>1, <2>2, RoundedNear
  <2> QED
    BY <1>4, <2>2, <2>3
<1> QED
  BY <1>2, <1>3, <1>4

\* The window holds the last answers, five at most.
LEMMA LastFiveType ==
    ASSUME NEW s \in Seq(Responses)
    PROVE  LastFive(s) \in Seq(Responses) /\ Len(LastFive(s)) <= MasteryWindow
BY DEF LastFive, MasteryWindow

\* recordAttempt saves a row, with the interval it was given.
LEMMA AttemptedType ==
    ASSUME NEW row \in Row, NEW r \in Responses, NEW n \in Nat
    PROVE  /\ Attempted(row, r, n) \in Row
           /\ Attempted(row, r, n).interval = n
           /\ Len(Attempted(row, r, n).last5) <= MasteryWindow
           /\ row.mastered > 0 => Attempted(row, r, n).mastered = row.mastered
<1>1. /\ row.presented \in Nat /\ row.correct \in Nat /\ row.mastered \in Nat
      /\ row.ease \in Nat /\ row.last5 \in Seq(Responses)
  BY DEF Row
<1>2. Append(row.last5, r) \in Seq(Responses)
  BY <1>1
<1>3. /\ LastFive(Append(row.last5, r)) \in Seq(Responses)
      /\ Len(LastFive(Append(row.last5, r))) <= MasteryWindow
  BY <1>2, LastFiveType
<1>4. NextEase(row.ease, r) \in Nat
  BY <1>1, EaseFloor
<1> QED
  BY <1>1, <1>3, <1>4 DEF Attempted, Row

-----------------------------------------------------------------------------
(* The types *)

RowsOK ==
    /\ rows \in [Items -> Row \cup {None}]
    /\ \A k \in Items : rows[k] # None =>
          rows[k].interval <= MaxDays /\ Len(rows[k].last5) <= MasteryWindow

LogOK == log \in Seq(Event) /\ Len(log) <= Window

\* The stages whose item goes into an event.
Naming == {"logging", "logging_mastery", "emitting"}

TurnOK ==
    /\ turn \in [Turns -> [stage : Stages, seen : Seq(Event),
                           item : Items \cup {None}]]
    /\ \A t \in Turns : turn[t].stage \in Naming => turn[t].item # None

AttemptsOK == attempts \in [Items -> Seq(Answers)]

\* The inductive invariant: the types, and that a turn about to log an event of
\* an item has one.
IInv == RowsOK /\ LogOK /\ TurnOK /\ AttemptsOK

-----------------------------------------------------------------------------
\* The inductive invariant implies the types.
LEMMA IInvTypes == IInv => TypeOK
BY DEF IInv, TypeOK, RowsOK, LogOK, TurnOK, AttemptsOK

\* A row that was never saved is typed too.
LEMMA NewRowType == NewRow \in Row /\ Len(NewRow.last5) = 0
BY DEF NewRow, Row, DefaultEasiness

\* The row an attempt starts from.
LEMMA RowOfType ==
    ASSUME RowsOK, NEW k \in Items
    PROVE  RowOf(k) \in Row
BY NewRowType DEF RowsOK, RowOf

\* Logging an event keeps the log within its window (state-manager.ts logEvent,
\* getState).
LEMMA LoggedType ==
    ASSUME LogOK, NEW e \in Event
    PROVE  Logged(e) \in Seq(Event) /\ Len(Logged(e)) <= Window
<1> DEFINE grown == Append(log, e)
<1>1. grown \in Seq(Event) /\ Len(grown) = Len(log) + 1 /\ Len(log) \in Nat
  BY DEF LogOK
<1>2. Window \in Nat /\ Window > 0
  BY DrillAssumption
<1>3. CASE Len(grown) > Window
  <2>1. Logged(e) = SubSeq(grown, 2, Len(grown))
    BY <1>3 DEF Logged
  <2>2. SubSeq(grown, 2, Len(grown)) \in Seq(Event)
    BY <1>1
  <2>3. Len(SubSeq(grown, 2, Len(grown))) = Len(grown) - 1
    BY <1>1, <1>2, <1>3
  <2> QED
    BY <1>1, <1>2, <2>1, <2>2, <2>3 DEF LogOK
<1>4. CASE ~ (Len(grown) > Window)
  <2>1. Logged(e) = SubSeq(grown, 1, Len(grown))
    BY <1>4 DEF Logged
  <2>2. SubSeq(grown, 1, Len(grown)) \in Seq(Event)
    BY <1>1
  <2>3. Len(SubSeq(grown, 1, Len(grown))) = Len(grown)
    BY <1>1
  <2> QED
    BY <1>1, <1>2, <1>4, <2>1, <2>2, <2>3
<1> QED
  BY <1>3, <1>4

\* The reversed log is a sequence of events as well.
LEMMA EventLogType ==
    ASSUME LogOK
    PROVE  EventLog \in Seq(Event)
<1>1. \A i \in DOMAIN log : Len(log) + 1 - i \in DOMAIN log
  BY DEF LogOK
<1>2. EventLog \in [1 .. Len(log) -> Event]
  BY <1>1 DEF EventLog, LogOK
<1> QED
  BY <1>2 DEF LogOK

\* A turn that moves on is typed when its item is.
LEMMA GotoType ==
    ASSUME TurnOK, NEW t \in Turns, NEW stage \in Stages,
           NEW k \in Items \cup {None}, stage \in Naming => k # None,
           Goto(t, stage, k)
    PROVE  TurnOK'
<1>1. [stage |-> stage, seen |-> <<>>, item |-> k]
         \in [stage : Stages, seen : Seq(Event), item : Items \cup {None}]
  OBVIOUS
<1> QED
  BY <1>1 DEF TurnOK, Goto

\* So is one that reads the log.
LEMMA ReadsType ==
    ASSUME TurnOK, LogOK, NEW t \in Turns, NEW stage \in Stages \ Naming,
           Reads(t, stage)
    PROVE  TurnOK'
<1>1. [stage |-> stage, seen |-> EventLog, item |-> None]
         \in [stage : Stages, seen : Seq(Event), item : Items \cup {None}]
  BY EventLogType
<1> QED
  BY <1>1 DEF TurnOK, Reads

\* None is no item.
LEMMA ItemsNotNone == \A k \in Items : k # None
BY DrillAssumption

\* What is pending is an item (orchestrator.ts findPendingDrill).
LEMMA PendingType ==
    ASSUME NEW events
    PROVE  FindPending(events) \in Items \cup {None}
BY DEF FindPending

\* The events that turns log.
LEMMA EventType ==
    /\ Other \in Event
    /\ \A k \in Items : Ev("drill_emitted", k) \in Event
                       /\ Ev("drill_attempt_recorded", k) \in Event
BY DEF Event, Other, Ev

-----------------------------------------------------------------------------
\* The steps that read the log, or fail, keep the types.
LEMMA ReadStepsType ==
    ASSUME IInv, NEW t \in Turns,
           \/ GetState(t) \/ NoSignals(t) \/ LogSignals(t) \/ Refresh(t)
           \/ NothingToScore(t) \/ ScoreFails(t)
    PROVE  IInv'
<1>1. RowsOK /\ LogOK /\ TurnOK /\ AttemptsOK
  BY DEF IInv
<1>2. RowsOK' /\ AttemptsOK'
  BY <1>1 DEF RowsOK, AttemptsOK, GetState, NoSignals, LogSignals, Refresh,
              NothingToScore, ScoreFails
<1>3. LogOK'
  <2>1. CASE LogSignals(t)
    BY <1>1, <2>1, LoggedType, EventType DEF LogSignals, LogOK
  <2>2. CASE ~ LogSignals(t)
    BY <1>1, <2>2 DEF LogOK, GetState, NoSignals, Refresh, NothingToScore, ScoreFails
  <2> QED
    BY <2>1, <2>2
<1>4. TurnOK'
  <2>1. CASE GetState(t)
    BY <1>1, <2>1, ReadsType DEF GetState, Stages, Naming
  <2>2. CASE NoSignals(t) \/ LogSignals(t)
    BY <1>1, <2>2 DEF NoSignals, LogSignals, TurnOK, Stages, Naming
  <2>3. CASE Refresh(t)
    <3>1. CASE Reads(t, "scoring")
      BY <1>1, <3>1, ReadsType DEF Stages, Naming
    <3>2. CASE turn' = [turn EXCEPT ![t].stage = "scoring"]
      BY <1>1, <3>2 DEF TurnOK, Stages, Naming
    <3> QED
      BY <2>3, <3>1, <3>2 DEF Refresh
  <2>4. CASE NothingToScore(t) \/ ScoreFails(t)
    BY <1>1, <2>4, GotoType DEF NothingToScore, ScoreFails, Stages, Naming
  <2> QED
    BY <2>1, <2>2, <2>3, <2>4
<1> QED
  BY <1>2, <1>3, <1>4 DEF IInv

\* What Score does to the row of the pending item, and to no other
\* (drill-repo.ts recordAttempt).
LEMMA ScoredRow ==
    ASSUME IInv, NEW t \in Turns, Score(t)
    PROVE  \E k \in Items, r \in Answers, n \in Nat :
              /\ n \in NextIntervals(RowOf(k).interval, NextEase(RowOf(k).ease, r), r)
              /\ attempts' = [attempts EXCEPT ![k] = Append(@, r)]
              /\ \/ n > MaxDays /\ UNCHANGED rows /\ Goto(t, "proposing", None)
                 \/ /\ n <= MaxDays
                    /\ rows' = [rows EXCEPT ![k] = Attempted(RowOf(k), r, n)]
                    /\ \E stage \in {"logging", "logging_mastery"} : Goto(t, stage, k)
<1> DEFINE k == FindPending(turn[t].seen)
           row == RowOf(k)
<1>1. k \in Items
  BY PendingType DEF Score
<1>2. PICK r \in Answers : \E n \in NextIntervals(row.interval, NextEase(row.ease, r), r) :
        /\ attempts' = [attempts EXCEPT ![k] = Append(@, r)]
        /\ \/ /\ n > MaxDays
              /\ UNCHANGED rows
              /\ Goto(t, "proposing", None)
           \/ /\ n <= MaxDays
              /\ rows' = [rows EXCEPT ![k] = Attempted(row, r, n)]
              /\ Goto(t, IF rows'[k].mastered = row.mastered
                         THEN "logging" ELSE "logging_mastery", k)
  BY DEF Score
<1>3. PICK n \in NextIntervals(row.interval, NextEase(row.ease, r), r) :
        /\ attempts' = [attempts EXCEPT ![k] = Append(@, r)]
        /\ \/ /\ n > MaxDays
              /\ UNCHANGED rows
              /\ Goto(t, "proposing", None)
           \/ /\ n <= MaxDays
              /\ rows' = [rows EXCEPT ![k] = Attempted(row, r, n)]
              /\ Goto(t, IF rows'[k].mastered = row.mastered
                         THEN "logging" ELSE "logging_mastery", k)
  BY <1>2
<1>4. row \in Row /\ row.interval \in Nat /\ row.ease \in Nat
  BY <1>1, RowOfType DEF IInv, Row
<1>5. r \in Responses
  BY DrillAssumption
<1>6. n \in Nat
  BY <1>4, <1>5, EaseFloor, IntervalType
<1> QED
  BY <1>1, <1>3, <1>6

\* Scoring an attempt keeps the types.
LEMMA ScoreType ==
    ASSUME IInv, NEW t \in Turns, Score(t)
    PROVE  IInv'
<1>1. RowsOK /\ LogOK /\ TurnOK /\ AttemptsOK
  BY DEF IInv
<1>2. PICK k \in Items, r \in Answers, n \in Nat :
        /\ attempts' = [attempts EXCEPT ![k] = Append(@, r)]
        /\ \/ UNCHANGED rows /\ Goto(t, "proposing", None)
           \/ /\ n <= MaxDays
              /\ rows' = [rows EXCEPT ![k] = Attempted(RowOf(k), r, n)]
              /\ \E stage \in {"logging", "logging_mastery"} : Goto(t, stage, k)
  BY ScoredRow
<1>3. AttemptsOK'
  BY <1>1, <1>2 DEF AttemptsOK
<1>4. LogOK'
  BY <1>1 DEF LogOK, Score
<1>5. TurnOK'
  BY <1>1, <1>2, GotoType, ItemsNotNone DEF Stages, Naming
<1>6. RowsOK'
  <2>1. CASE UNCHANGED rows
    BY <1>1, <2>1 DEF RowsOK
  <2>2. CASE n <= MaxDays /\ rows' = [rows EXCEPT ![k] = Attempted(RowOf(k), r, n)]
    <3> DEFINE new == Attempted(RowOf(k), r, n)
    <3>1. RowOf(k) \in Row
      BY <1>1, RowOfType
    <3>2. r \in Responses
      BY DrillAssumption
    <3>3. new \in Row /\ new.interval = n /\ Len(new.last5) <= MasteryWindow
      BY <3>1, <3>2, AttemptedType
    <3> HIDE DEF new
    <3>4. rows' = [rows EXCEPT ![k] = new]
      BY <2>2 DEF new
    <3> QED
      BY <1>1, <2>2, <3>3, <3>4 DEF RowsOK
  <2> QED
    BY <1>2, <2>1, <2>2
<1> QED
  BY <1>3, <1>4, <1>5, <1>6 DEF IInv

\* The steps after the score log their events, or fail to.
LEMMA LateStepsType ==
    ASSUME IInv, NEW t \in Turns,
           \/ LogAttempt(t) \/ LogMastered(t) \/ Propose(t) \/ LogOther(t)
           \/ Select(t) \/ EmitDrill(t)
    PROVE  IInv'
<1>1. RowsOK /\ LogOK /\ TurnOK /\ AttemptsOK
  BY DEF IInv
<1>2. RowsOK' /\ AttemptsOK'
  BY <1>1 DEF RowsOK, AttemptsOK, LogAttempt, LogMastered, Propose, LogOther,
              Select, EmitDrill
<1>3. turn[t].item \in Items \cup {None}
  BY <1>1 DEF TurnOK
<1>4. Candidates \subseteq Items
  BY DrillAssumption DEF Candidates, Due, Items
<1>5. LogOK' /\ TurnOK'
  <2>1. CASE LogAttempt(t)
    <3>1. turn[t].item \in Items
      BY <1>1, <1>3, <2>1 DEF LogAttempt, TurnOK, Naming
    <3>2. LogOK'
      BY <1>1, <2>1, <3>1, LoggedType, EventType DEF LogAttempt, LogOK
    <3>3. TurnOK'
      BY <1>1, <2>1, GotoType DEF LogAttempt, Stages, Naming
    <3> QED
      BY <3>2, <3>3
  <2>2. CASE LogMastered(t)
    <3>1. LogOK'
      BY <1>1, <2>2, LoggedType, EventType DEF LogMastered, LogOK
    <3>2. TurnOK'
      BY <1>1, <2>2, GotoType DEF LogMastered, Stages, Naming
    <3> QED
      BY <3>1, <3>2
  <2>3. CASE Propose(t)
    <3>1. LogOK'
      BY <1>1, <2>3 DEF Propose, LogOK
    <3>2. TurnOK'
      BY <1>1, <1>4, <2>3, GotoType DEF Propose, Stages, Naming
    <3> QED
      BY <3>1, <3>2
  <2>4. CASE Select(t)
    <3>1. LogOK'
      BY <1>1, <2>4, LoggedType, EventType DEF Select, LogOK
    <3>2. TurnOK'
      BY <1>1, <1>3, <2>4, GotoType DEF Select, Stages, Naming
    <3> QED
      BY <3>1, <3>2
  <2>5. CASE EmitDrill(t)
    <3>1. turn[t].item \in Items
      BY <1>1, <1>3, <2>5 DEF EmitDrill, TurnOK, Naming
    <3>2. LogOK'
      BY <1>1, <2>5, <3>1, LoggedType, EventType DEF EmitDrill, LogOK
    <3>3. TurnOK'
      BY <1>1, <2>5, GotoType DEF EmitDrill, Stages, Naming
    <3> QED
      BY <3>2, <3>3
  <2>6. CASE LogOther(t)
    BY <1>1, <2>6, LoggedType, EventType DEF LogOther, LogOK, TurnOK
  <2> QED
    BY <2>1, <2>2, <2>3, <2>4, <2>5, <2>6
<1> QED
  BY <1>2, <1>5 DEF IInv

\* Days that pass change nothing but when items are due.
LEMMA DaysType ==
    ASSUME IInv, Days
    PROVE  IInv'
<1>1. RowsOK /\ LogOK /\ TurnOK /\ AttemptsOK
  BY DEF IInv
<1>2. PICK k \in Later :
        rows' = [j \in Items |-> IF rows[j] = None THEN None
                                 ELSE [rows[j] EXCEPT !.due = @ - rows[k].due]]
  BY DEF Days
<1>3. k \in Items /\ rows[k] \in Row
  BY <1>1 DEF Later, RowsOK
<1>4. rows[k].due \in Int
  BY <1>3 DEF Row
<1>5. RowsOK'
  <2> SUFFICES ASSUME NEW j \in Items, rows[j] # None
               PROVE  /\ rows'[j] \in Row
                      /\ rows'[j].interval <= MaxDays
                      /\ Len(rows'[j].last5) <= MasteryWindow
    BY <1>2 DEF RowsOK
  <2>1. rows[j] \in Row /\ rows'[j] = [rows[j] EXCEPT !.due = @ - rows[k].due]
    BY <1>1, <1>2 DEF RowsOK
  <2>2. rows[j].due - rows[k].due \in Int
    BY <1>4, <2>1 DEF Row
  <2>3. rows'[j] \in Row /\ rows'[j].interval = rows[j].interval
          /\ rows'[j].last5 = rows[j].last5
    BY <2>1, <2>2 DEF Row
  <2> QED
    BY <1>1, <2>3 DEF RowsOK
<1> QED
  BY <1>1, <1>5 DEF IInv, LogOK, TurnOK, AttemptsOK, Days

\* The initial states are typed.
LEMMA InitType == Init => IInv
<1> SUFFICES ASSUME Init PROVE IInv
  OBVIOUS
<1>1. PICK known \in SUBSET Items :
        /\ rows = [k \in Items |-> IF k \in known
                      THEN Attempted(NewRow, "incorrect", 1) ELSE None]
        /\ attempts = [k \in Items |-> IF k \in known
                          THEN <<"incorrect">> ELSE <<>>]
  BY DEF Init
<1>2. /\ Attempted(NewRow, "incorrect", 1) \in Row
      /\ Attempted(NewRow, "incorrect", 1).interval = 1
      /\ Len(Attempted(NewRow, "incorrect", 1).last5) <= MasteryWindow
  BY NewRowType, AttemptedType DEF Responses
<1> DEFINE first == Attempted(NewRow, "incorrect", 1)
<1> HIDE DEF first
<1>3. RowsOK
  BY <1>1, <1>2, DrillAssumption DEF first, RowsOK
<1>4. AttemptsOK
  BY <1>1, DrillAssumption DEF AttemptsOK
<1>5. LogOK
  BY DrillAssumption DEF Init, LogOK
<1>6. TurnOK
  BY DEF Init, TurnOK, Idle, Stages, Naming
<1> QED
  BY <1>3, <1>4, <1>5, <1>6 DEF IInv

\* Every step keeps the inductive invariant.
LEMMA StepType == IInv /\ [Next]_vars => IInv'
<1> SUFFICES ASSUME IInv, [Next]_vars PROVE IInv'
  OBVIOUS
<1>1. CASE Days
  BY <1>1, DaysType
<1>2. ASSUME NEW t \in Turns, TurnStep(t) PROVE IInv'
  BY <1>2, ReadStepsType, ScoreType, LateStepsType DEF TurnStep
<1>3. CASE UNCHANGED vars
  BY <1>3 DEF vars, IInv, RowsOK, LogOK, TurnOK, AttemptsOK
<1> QED
  BY <1>1, <1>2, <1>3 DEF Next

-----------------------------------------------------------------------------
\* The types hold for any bank, any number of overlapping turns and any window
\* of events; in particular a turn never logs an event without its item.
THEOREM TypeCorrect == Spec => []TypeOK
<1>1. Spec => []IInv
  BY InitType, StepType, PTL DEF Spec
<1> QED
  BY <1>1, IInvTypes, PTL

\* No step takes mastery away, or its date: not a wrong answer, not an attempt
\* scored twice by overlapping turns, not one whose date does not fit
\* (drill-repo.ts recordAttempt).
LEMMA StepKeepsMastery ==
    ASSUME IInv, [Next]_vars, NEW k \in Items, rows[k] # None,
           rows[k].mastered > 0
    PROVE  rows'[k].mastered = rows[k].mastered
<1>1. CASE UNCHANGED rows
  BY <1>1
<1>2. CASE Days
  <2>1. rows'[k].mastered = rows[k].mastered
    <3>1. PICK j \in Later :
            rows'[k] = [rows[k] EXCEPT !.due = @ - rows[j].due]
      BY <1>2 DEF Days
    <3>2. rows[k] \in Row
      BY DEF IInv, RowsOK
    <3> QED
      BY <3>1, <3>2 DEF Row
  <2> QED
    BY <2>1
<1>3. ASSUME NEW t \in Turns, Score(t)
      PROVE  rows'[k].mastered = rows[k].mastered
  <2>1. PICK i \in Items, r \in Answers, n \in Nat :
          UNCHANGED rows \/ rows' = [rows EXCEPT ![i] = Attempted(RowOf(i), r, n)]
    BY <1>3, ScoredRow
  <2>2. CASE rows' = [rows EXCEPT ![i] = Attempted(RowOf(i), r, n)] /\ i = k
    <3>1. RowOf(k) = rows[k] /\ rows[k] \in Row
      BY DEF RowOf, IInv, RowsOK
    <3>2. r \in Responses
      BY DrillAssumption
    <3>3. rows'[k] = Attempted(rows[k], r, n)
      BY <2>2, <3>1 DEF IInv, RowsOK
    <3> QED
      BY <3>1, <3>2, <3>3, AttemptedType
  <2>3. CASE rows' = [rows EXCEPT ![i] = Attempted(RowOf(i), r, n)] /\ i # k
    BY <2>3 DEF IInv, RowsOK
  <2> QED
    BY <2>1, <2>2, <2>3
<1>4. ASSUME NEW t \in Turns, TurnStep(t), ~ Score(t)
      PROVE  UNCHANGED rows
  BY <1>4 DEF TurnStep, GetState, NoSignals, LogSignals, Refresh, NothingToScore,
              ScoreFails, LogAttempt, LogMastered, Propose, LogOther, Select,
              EmitDrill
<1> QED
  BY <1>1, <1>2, <1>3, <1>4 DEF Next, vars

\* Mastery is kept, in every execution.
THEOREM MasteryKept == Spec => MasteryIsKept
<1>1. IInv /\ [Next]_vars =>
        [\A k \in Items : rows[k] # None /\ rows[k].mastered > 0 =>
            rows'[k].mastered = rows[k].mastered]_vars
  BY StepKeepsMastery
<1>2. Spec => []IInv
  BY InitType, StepType, PTL DEF Spec
<1> QED
  BY <1>1, <1>2, PTL DEF Spec, MasteryIsKept

-----------------------------------------------------------------------------
(* The rows and the audit log *)

\* Another answer is right or wrong, and the others are what they were.
LEMMA AnswersOfAppend ==
    ASSUME NEW s \in Seq(Answers), NEW r \in Answers
    PROVE  /\ RightIn(Append(s, r)) = IF r \in Right THEN RightIn(s) \cup {Len(s) + 1}
                                      ELSE RightIn(s)
           /\ WrongIn(Append(s, r)) = IF r \in Right THEN WrongIn(s)
                                      ELSE WrongIn(s) \cup {Len(s) + 1}
<1>1. /\ Append(s, r) \in Seq(Answers) /\ DOMAIN Append(s, r) = 1 .. Len(s) + 1
      /\ \A i \in 1 .. Len(s) : Append(s, r)[i] = s[i]
      /\ Append(s, r)[Len(s) + 1] = r /\ Len(s) \in Nat /\ DOMAIN s = 1 .. Len(s)
  OBVIOUS
<1>2. 1 .. Len(s) + 1 = (1 .. Len(s)) \cup {Len(s) + 1} /\ Len(s) + 1 \notin 1 .. Len(s)
  BY <1>1
<1> QED
  BY <1>1, <1>2 DEF RightIn, WrongIn

\* How many answers were right, and how many wrong.
LEMMA Counts ==
    ASSUME NEW s \in Seq(Answers)
    PROVE  /\ IsFiniteSet(RightIn(s)) /\ Cardinality(RightIn(s)) \in Nat
           /\ IsFiniteSet(WrongIn(s)) /\ Cardinality(WrongIn(s)) \in Nat
           /\ Len(s) + 1 \notin RightIn(s) \cup WrongIn(s)
<1>1. RightIn(s) \subseteq 1 .. Len(s) /\ WrongIn(s) \subseteq 1 .. Len(s) /\ Len(s) \in Nat
  BY DEF RightIn, WrongIn
<1>2. IsFiniteSet(1 .. Len(s))
  BY <1>1, FS_Interval
<1> QED
  BY <1>1, <1>2, FS_Subset, FS_CardinalityType

\* One answer counts once.
LEMMA CountsOfAppend ==
    ASSUME NEW s \in Seq(Answers), NEW r \in Answers
    PROVE  /\ Cardinality(RightIn(Append(s, r))) =
                Cardinality(RightIn(s)) + (IF r \in Right THEN 1 ELSE 0)
           /\ Cardinality(WrongIn(Append(s, r))) =
                Cardinality(WrongIn(s)) + (IF r \in Right THEN 0 ELSE 1)
BY AnswersOfAppend, Counts, FS_AddElement

\* What recordAttempt makes of the counters.
LEMMA AttemptedCounts ==
    ASSUME NEW row \in Row, NEW r \in Responses, NEW n \in Nat
    PROVE  LET new == Attempted(row, r, n)
           IN  /\ new.presented = row.presented + 1
               /\ new.correct = row.correct + (IF r \in Right THEN 1 ELSE 0)
               /\ new.interval = n
               /\ new.last5 = LastFive(Append(row.last5, r))
               /\ new.mastered > 0 /\ row.mastered = 0 => IsMastered(new.last5, n)
               /\ row.mastered > 0 => new.mastered = row.mastered
BY DEF Attempted, Row

\* An interval of more than three days follows a right answer, in a row that had
\* one before (sr-algorithm.ts nextInterval).
LEMMA LongIsRight ==
    ASSUME NEW i \in Nat, NEW e \in Nat, NEW r \in Answers,
           NEW n \in NextIntervals(i, NextEase(e, r), r)
    PROVE  /\ n >= 2 => r \in Right
           /\ n > 3 => i >= 2
BY DrillAssumption DEF NextIntervals

\* One item's row and its audit log.
Agrees(row, audit) ==
    IF row = None THEN audit = <<>>
    ELSE /\ row.presented - row.correct = Cardinality(WrongIn(audit))
         /\ row.correct <= Cardinality(RightIn(audit))

\* An attempt keeps them in agreement, also when its date does not fit: only a right
\* answer, of an item with a row, can be that far away (drill-repo.ts recordAttempt).
LEMMA AttemptAgrees ==
    ASSUME NEW row \in Row, NEW audit \in Seq(Answers), NEW r \in Answers,
           NEW n \in Nat, n \in NextIntervals(row.interval, NextEase(row.ease, r), r),
           Agrees(row, audit) \/ (row = NewRow /\ audit = <<>>)
    PROVE  /\ Agrees(Attempted(row, r, n), Append(audit, r))
           /\ n > MaxDays => row # NewRow /\ Agrees(row, Append(audit, r))
<1>1. /\ row.presented \in Nat /\ row.correct \in Nat /\ row.interval \in Nat
      /\ row.ease \in Nat /\ row # None
  BY DrillAssumption DEF Row
<1>2. r \in Responses
  BY DrillAssumption
<1> DEFINE new == Attempted(row, r, n)
<1>3. /\ new \in Row /\ new.presented = row.presented + 1
      /\ new.correct = row.correct + (IF r \in Right THEN 1 ELSE 0)
  BY <1>2, AttemptedCounts, AttemptedType
<1>4. /\ row.presented - row.correct = Cardinality(WrongIn(audit))
      /\ row.correct <= Cardinality(RightIn(audit))
  <2>1. CASE row = NewRow /\ audit = <<>>
    <3>1. WrongIn(audit) = {} /\ RightIn(audit) = {}
      BY <2>1 DEF WrongIn, RightIn
    <3>2. row.presented = 0 /\ row.correct = 0
      BY <2>1 DEF NewRow
    <3>3. Cardinality(WrongIn(audit)) = 0 /\ Cardinality(RightIn(audit)) = 0
      BY <3>1, FS_EmptySet
    <3> QED BY <3>2, <3>3
  <2>2. CASE Agrees(row, audit)
    BY <1>1, <2>2 DEF Agrees
  <2> QED BY <2>1, <2>2
<1>5. new # None
  BY <1>3, DrillAssumption
<1>6. Agrees(new, Append(audit, r))
  BY <1>1, <1>3, <1>4, <1>5, Counts, CountsOfAppend DEF Agrees
<1>7. ASSUME n > MaxDays PROVE row # NewRow /\ Agrees(row, Append(audit, r))
  <2>1. n > 3 /\ MaxDays \in Nat
    BY <1>7, DrillAssumption
  <2>2. r \in Right /\ row.interval >= 2
    BY <1>1, <2>1, LongIsRight
  <2>3. row # NewRow
    BY <2>2 DEF NewRow
  <2> QED BY <1>1, <1>4, <2>2, <2>3, Counts, CountsOfAppend DEF Agrees
<1> QED
  BY <1>6, <1>7

\* Only attempts and days change the rows and the audit log.
LEMMA RowsChange ==
    ASSUME [Next]_vars
    PROVE  \/ UNCHANGED <<rows, attempts>>
           \/ Days
           \/ \E t \in Turns : Score(t)
BY DEF Next, TurnStep, vars, GetState, NoSignals, LogSignals, Refresh, NothingToScore,
       ScoreFails, LogAttempt, LogMastered, Propose, LogOther, Select, EmitDrill

\* Days only bring the dates nearer.
LEMMA DaysChange ==
    ASSUME IInv, Days, NEW k \in Items
    PROVE  /\ rows'[k] = None <=> rows[k] = None
           /\ UNCHANGED attempts
           /\ rows[k] # None =>
                /\ rows[k] \in Row /\ rows'[k] \in Row
                /\ rows'[k].presented = rows[k].presented
                /\ rows'[k].correct = rows[k].correct
                /\ rows'[k].interval = rows[k].interval
                /\ rows'[k].last5 = rows[k].last5
                /\ rows'[k].mastered = rows[k].mastered
<1>1. PICK j \in Later :
        rows' = [i \in Items |-> IF rows[i] = None THEN None
                                 ELSE [rows[i] EXCEPT !.due = @ - rows[j].due]]
  BY DEF Days
<1>2. IInv'
  BY DaysType
<1>3. (rows[k] # None => rows[k] \in Row) /\ (rows'[k] # None => rows'[k] \in Row)
  BY <1>2 DEF IInv, RowsOK
<1>4. CASE rows[k] = None
  BY <1>1, <1>4 DEF Days
<1>5. CASE rows[k] # None
  <2>1. rows[k] \in Row
    BY <1>5 DEF IInv, RowsOK
  <2>2. rows'[k] = [rows[k] EXCEPT !.due = @ - rows[j].due]
    BY <1>1, <1>5
  <2>3. rows[j] \in Row
    BY DEF IInv, RowsOK, Later
  <2>4. rows'[k] \in Row
    <3> DEFINE d == rows[k].due - rows[j].due
    <3>1. d \in Int /\ rows'[k] = [rows[k] EXCEPT !.due = d]
      BY <2>1, <2>2, <2>3 DEF Row
    <3> HIDE DEF d
    <3> QED BY <2>1, <3>1 DEF Row
  <2>5. rows'[k] # None
    BY <2>4, DrillAssumption
  <2> QED BY <1>5, <2>1, <2>2, <2>4, <2>5 DEF Days, Row
<1> QED
  BY <1>4, <1>5

\* AuditCoversRow, item by item.
LEMMA AgreesAll == AuditCoversRow <=> \A k \in Items : Agrees(rows[k], attempts[k])
BY DEF AuditCoversRow, Agrees

\* The rows and the audit log agree at first: items drilled before were answered
\* wrong, once.
LEMMA InitAgrees == Init => AuditCoversRow
<1> SUFFICES ASSUME Init, NEW k \in Items PROVE Agrees(rows[k], attempts[k])
  BY AgreesAll
<1>1. PICK known \in SUBSET Items :
        /\ rows = [i \in Items |-> IF i \in known
                      THEN Attempted(NewRow, "incorrect", 1) ELSE None]
        /\ attempts = [i \in Items |-> IF i \in known
                          THEN <<"incorrect">> ELSE <<>>]
  BY DEF Init
<1>2. CASE k \in known
  <2>1. "incorrect" \in Answers /\ NewRow \in Row
        /\ <<>> \in Seq(Answers) /\ Append(<<>>, "incorrect") = <<"incorrect">>
    BY DrillAssumption, NewRowType
  <2>2. 1 \in NextIntervals(NewRow.interval, NextEase(NewRow.ease, "incorrect"), "incorrect")
    BY DEF NextIntervals, Right
  <2>3. Agrees(Attempted(NewRow, "incorrect", 1), Append(<<>>, "incorrect"))
    BY <2>1, <2>2, AttemptAgrees
  <2> QED BY <1>1, <1>2, <2>1, <2>3
<1>3. CASE k \notin known
  BY <1>1, <1>3 DEF Agrees
<1> QED
  BY <1>2, <1>3

\* Every step keeps them in agreement.
LEMMA StepAgrees ==
    ASSUME IInv, AuditCoversRow, [Next]_vars
    PROVE  AuditCoversRow'
<1> SUFFICES ASSUME NEW k \in Items PROVE Agrees(rows'[k], attempts'[k])
  BY DEF AuditCoversRow, Agrees
<1>1. Agrees(rows[k], attempts[k])
  BY AgreesAll
<1>2. CASE UNCHANGED <<rows, attempts>>
  BY <1>1, <1>2
<1>3. CASE Days
  BY <1>1, <1>3, DaysChange DEF Agrees
<1>4. ASSUME NEW t \in Turns, Score(t) PROVE Agrees(rows'[k], attempts'[k])
  <2>1. PICK i \in Items, r \in Answers, n \in Nat :
              /\ n \in NextIntervals(RowOf(i).interval, NextEase(RowOf(i).ease, r), r)
              /\ attempts' = [attempts EXCEPT ![i] = Append(@, r)]
              /\ \/ n > MaxDays /\ UNCHANGED rows /\ Goto(t, "proposing", None)
                 \/ /\ n <= MaxDays
                    /\ rows' = [rows EXCEPT ![i] = Attempted(RowOf(i), r, n)]
                    /\ \E stage \in {"logging", "logging_mastery"} : Goto(t, stage, i)
    BY <1>4, ScoredRow
  <2>2. CASE i # k
    BY <1>1, <2>1, <2>2 DEF IInv, RowsOK, AttemptsOK
  <2>3. CASE i = k
    <3>1. RowOf(k) \in Row /\ attempts[k] \in Seq(Answers)
      BY RowOfType DEF IInv, AttemptsOK
    <3>2. Agrees(RowOf(k), attempts[k]) \/ (RowOf(k) = NewRow /\ attempts[k] = <<>>)
      BY <1>1 DEF RowOf, Agrees
    <3>3. /\ Agrees(Attempted(RowOf(k), r, n), Append(attempts[k], r))
          /\ n > MaxDays => RowOf(k) # NewRow /\ Agrees(RowOf(k), Append(attempts[k], r))
      BY <2>1, <2>3, <3>1, <3>2, AttemptAgrees
    <3>4. attempts'[k] = Append(attempts[k], r)
      BY <2>1, <2>3 DEF IInv, AttemptsOK
    <3>5. CASE n > MaxDays /\ UNCHANGED rows
      BY <3>3, <3>4, <3>5 DEF RowOf
    <3>6. CASE rows' = [rows EXCEPT ![k] = Attempted(RowOf(k), r, n)]
      <4>1. rows'[k] = Attempted(RowOf(k), r, n)
        BY <3>6 DEF IInv, RowsOK
      <4> QED BY <3>3, <3>4, <4>1
    <3> QED BY <2>1, <2>3, <3>5, <3>6
  <2> QED BY <2>2, <2>3
<1> QED
  BY <1>2, <1>3, <1>4, RowsChange

\* IInv is invariant.
LEMMA TypesHold == Spec => []IInv
BY InitType, StepType, PTL DEF Spec

\* The rows and the audit log tell the same of every wrong answer, however turns
\* overlap and whichever call fails (drill-repo.ts recordAttempt).
THEOREM RowsAreAudited == Spec => []AuditCoversRow
<1>1. IInv /\ AuditCoversRow /\ [Next]_vars => AuditCoversRow'
  BY StepAgrees
<1> QED
  BY <1>1, InitAgrees, TypesHold, PTL DEF Spec

-----------------------------------------------------------------------------
(* The event log and the audit log *)

Recorded(events, k) == {i \in DOMAIN events : events[i] = Ev("drill_attempt_recorded", k)}

\* The turns that are about to log an attempt they had scored.
AboutToLog(k) ==
    {t \in Turns : turn[t].stage \in {"logging", "logging_mastery"} /\ turn[t].item = k}

\* Each attempt that is logged, or about to be, is in the audit log.
Owed ==
    \A k \in Items :
        /\ IsFiniteSet(AboutToLog(k))
        /\ Cardinality(Recorded(log, k)) + Cardinality(AboutToLog(k)) <= Len(attempts[k])

\* The events of an item in a log are finitely many.
LEMMA RecordedFinite ==
    ASSUME NEW events \in Seq(Event), NEW k
    PROVE  IsFiniteSet(Recorded(events, k)) /\ Cardinality(Recorded(events, k)) \in Nat
           /\ Recorded(events, k) \subseteq 1 .. Len(events)
<1>1. Recorded(events, k) \subseteq 1 .. Len(events) /\ Len(events) \in Nat
  BY DEF Recorded
<1>2. IsFiniteSet(1 .. Len(events))
  BY <1>1, FS_Interval
<1>3. IsFiniteSet(Recorded(events, k))
  BY <1>1, <1>2, FS_Subset
<1> QED
  BY <1>1, <1>3, FS_CardinalityType

\* An event adds at most itself to what is recorded; what falls out of the window
\* takes nothing but itself away (state-manager.ts logEvent, getState).
LEMMA LoggedRecords ==
    ASSUME LogOK, NEW e \in Event, NEW k \in Items
    PROVE  Cardinality(Recorded(Logged(e), k)) <=
              Cardinality(Recorded(log, k)) +
                 (IF e = Ev("drill_attempt_recorded", k) THEN 1 ELSE 0)
<1> DEFINE grown == Append(log, e)
           rec == Ev("drill_attempt_recorded", k)
<1>1. /\ grown \in Seq(Event) /\ Len(grown) = Len(log) + 1 /\ Len(log) \in Nat
      /\ DOMAIN grown = 1 .. Len(log) + 1 /\ DOMAIN log = 1 .. Len(log)
      /\ \A i \in 1 .. Len(log) : grown[i] = log[i]
      /\ grown[Len(log) + 1] = e /\ log \in Seq(Event)
  BY DEF LogOK
<1> HIDE DEF grown
<1>2. Recorded(grown, k) = Recorded(log, k) \cup (IF e = rec THEN {Len(log) + 1} ELSE {})
  <2>1. 1 .. Len(log) + 1 = (1 .. Len(log)) \cup {Len(log) + 1}
    BY <1>1
  <2> QED BY <1>1, <2>1 DEF Recorded
<1>3. Cardinality(Recorded(grown, k)) =
         Cardinality(Recorded(log, k)) + (IF e = rec THEN 1 ELSE 0)
  <2>1. IsFiniteSet(Recorded(log, k)) /\ Cardinality(Recorded(log, k)) \in Nat
        /\ Len(log) + 1 \notin Recorded(log, k)
    BY <1>1, RecordedFinite
  <2>2. CASE e = rec
    BY <1>2, <2>1, <2>2, FS_AddElement
  <2>3. CASE e # rec
    BY <1>2, <2>1, <2>3
  <2> QED BY <2>2, <2>3
<1>4. CASE Len(grown) > Window
  <2> DEFINE cut == SubSeq(grown, 2, Len(grown))
             f == [i \in Recorded(cut, k) |-> i + 1]
  <2>1. Logged(e) = cut
    BY <1>4 DEF Logged, grown
  <2>2. /\ cut \in Seq(Event) /\ DOMAIN cut = 1 .. Len(log)
        /\ \A i \in 1 .. Len(log) : cut[i] = grown[i + 1]
    BY <1>1
  <2>3. IsFiniteSet(Recorded(grown, k))
    BY <1>1, RecordedFinite
  <2> HIDE DEF cut
  <2>4. \A i \in Recorded(cut, k) : i \in Nat /\ i + 1 \in Recorded(grown, k)
    BY <1>1, <2>2 DEF Recorded
  <2>5. f \in Injection(Recorded(cut, k), Recorded(grown, k))
    BY <2>4 DEF Injection, IsInjective
  <2>6. Cardinality(Recorded(cut, k)) <= Cardinality(Recorded(grown, k))
    <3> HIDE DEF f
    <3> QED BY <2>3, <2>5, FS_Injection
  <2> QED BY <1>3, <2>1, <2>6
<1>5. CASE ~(Len(grown) > Window)
  <2>1. Logged(e) = SubSeq(grown, 1, Len(grown))
    BY <1>5 DEF Logged, grown
  <2>2. SubSeq(grown, 1, Len(grown)) = grown
    BY <1>1
  <2>3. Cardinality(Recorded(log, k)) \in Nat /\ Logged(e) = grown
    BY <1>1, <2>1, <2>2, RecordedFinite
  <2> QED BY <1>3, <2>3
<1> QED
  BY <1>4, <1>5

\* A turn that neither was about to log an attempt nor is now changes nothing of what
\* is owed, if it logs no attempt.
LEMMA OwedElsewhere ==
    ASSUME IInv, Owed, NEW t \in Turns, UNCHANGED attempts,
           \A u \in Turns \ {t} : turn'[u] = turn[u],
           turn[t].stage \notin {"logging", "logging_mastery"},
           turn'[t].stage \notin {"logging", "logging_mastery"},
           log' = log \/ \E e \in Event : /\ log' = Logged(e)
                                          /\ e.type # "drill_attempt_recorded"
    PROVE  Owed'
<1> SUFFICES ASSUME NEW k \in Items
             PROVE  /\ IsFiniteSet(AboutToLog(k)')
                    /\ Cardinality(Recorded(log', k)) + Cardinality(AboutToLog(k)')
                          <= Len(attempts'[k])
  BY DEF Owed, AboutToLog
<1>1. AboutToLog(k)' = AboutToLog(k)
  BY DEF AboutToLog
<1>2. log \in Seq(Event) /\ LogOK
  BY DEF IInv, LogOK
<1>3. log' \in Seq(Event) /\ Cardinality(Recorded(log', k)) <= Cardinality(Recorded(log, k))
  <2>1. CASE log' = log
    BY <1>2, <2>1, RecordedFinite
  <2>2. CASE \E e \in Event : log' = Logged(e) /\ e.type # "drill_attempt_recorded"
    <3>1. PICK e \in Event : log' = Logged(e) /\ e.type # "drill_attempt_recorded"
      BY <2>2
    <3>2. e # Ev("drill_attempt_recorded", k)
      BY <3>1 DEF Ev
    <3>3. Cardinality(Recorded(log, k)) \in Nat
      BY <1>2, RecordedFinite
    <3> QED BY <1>2, <3>1, <3>2, <3>3, LoggedRecords, LoggedType
  <2> QED BY <2>1, <2>2
<1>4. /\ Cardinality(Recorded(log, k)) \in Nat /\ Cardinality(Recorded(log', k)) \in Nat
      /\ IsFiniteSet(AboutToLog(k)) /\ Cardinality(AboutToLog(k)) \in Nat
      /\ Cardinality(Recorded(log, k)) + Cardinality(AboutToLog(k)) <= Len(attempts[k])
      /\ Len(attempts[k]) \in Nat
  BY <1>2, <1>3, RecordedFinite, FS_CardinalityType DEF Owed, IInv, AttemptsOK
<1> QED
  BY <1>1, <1>3, <1>4

\* Scoring owes an attempt that the audit log has; logging pays what was owed.
LEMMA StepOwed ==
    ASSUME IInv, Owed, [Next]_vars
    PROVE  Owed'
<1>1. /\ turn \in [Turns -> [stage : Stages, seen : Seq(Event), item : Items \cup {None}]]
      /\ log \in Seq(Event) /\ LogOK /\ attempts \in [Items -> Seq(Answers)]
  BY DEF IInv, TurnOK, LogOK, AttemptsOK
<1>2. ASSUME NEW k \in Items
      PROVE  /\ Cardinality(Recorded(log, k)) \in Nat
             /\ IsFiniteSet(AboutToLog(k)) /\ Cardinality(AboutToLog(k)) \in Nat
             /\ Cardinality(Recorded(log, k)) + Cardinality(AboutToLog(k)) <= Len(attempts[k])
             /\ Len(attempts[k]) \in Nat
  BY <1>1, RecordedFinite, FS_CardinalityType DEF Owed
<1>3. CASE UNCHANGED vars
  BY <1>3 DEF vars, Owed, AboutToLog
<1>4. CASE Days
  BY <1>4 DEF Days, Owed, AboutToLog
<1>5. ASSUME NEW t \in Turns, Score(t) PROVE Owed'
  <2>1. PICK i \in Items, r \in Answers, n \in Nat :
              /\ attempts' = [attempts EXCEPT ![i] = Append(@, r)]
              /\ \/ Goto(t, "proposing", None)
                 \/ \E stage \in {"logging", "logging_mastery"} : Goto(t, stage, i)
    BY <1>5, ScoredRow
  <2>2. turn[t].stage = "scoring" /\ log' = log
    BY <1>5 DEF Score
  <2> SUFFICES ASSUME NEW k \in Items
               PROVE  /\ IsFiniteSet(AboutToLog(k)')
                      /\ Cardinality(Recorded(log, k)) + Cardinality(AboutToLog(k)')
                            <= Len(attempts'[k])
    BY <2>2 DEF Owed, AboutToLog
  <2>3. t \notin AboutToLog(k)
    BY <2>2 DEF AboutToLog
  <2>4. Len(attempts'[k]) = Len(attempts[k]) + (IF k = i THEN 1 ELSE 0)
    BY <1>1, <2>1
  <2> DEFINE about == AboutToLog(k)
             rec == Cardinality(Recorded(log, k))
             len == Len(attempts[k])
  <2>7. /\ rec \in Nat /\ IsFiniteSet(about) /\ Cardinality(about) \in Nat
        /\ rec + Cardinality(about) <= len /\ len \in Nat
    BY <1>2
  <2>8. len <= Len(attempts'[k]) /\ (k = i => Len(attempts'[k]) = len + 1)
        /\ Len(attempts'[k]) \in Nat
    <3>1. Len(attempts'[k]) = len + (IF k = i THEN 1 ELSE 0)
      BY <2>4
    <3> HIDE DEF about, rec, len
    <3>2. CASE k = i
      BY <2>7, <3>1, <3>2
    <3>3. CASE k # i
      BY <2>7, <3>1, <3>3
    <3> QED BY <3>2, <3>3
  <2>5. CASE Goto(t, "proposing", None)
    <3>1. AboutToLog(k)' = AboutToLog(k)
      BY <1>1, <2>2, <2>5 DEF Goto, AboutToLog
    <3> HIDE DEF about, rec, len
    <3>2. rec + Cardinality(about) <= Len(attempts'[k])
      BY <2>7, <2>8
    <3> QED BY <2>7, <3>1, <3>2 DEF about, rec
  <2>6. CASE \E stage \in {"logging", "logging_mastery"} : Goto(t, stage, i)
    <3>1. AboutToLog(k)' = IF k = i THEN AboutToLog(k) \cup {t} ELSE AboutToLog(k)
      BY <1>1, <2>2, <2>6 DEF Goto, AboutToLog
    <3>2. CASE k = i
      <4>1. IsFiniteSet(about \cup {t})
            /\ Cardinality(about \cup {t}) = Cardinality(about) + 1
        BY <2>3, <2>7, FS_AddElement
      <4> HIDE DEF about, rec, len
      <4>2. rec + Cardinality(about \cup {t}) <= Len(attempts'[k])
        BY <2>7, <2>8, <3>2, <4>1
      <4>3. AboutToLog(k)' = about \cup {t}
        BY <3>1, <3>2 DEF about
      <4> QED BY <4>1, <4>2, <4>3 DEF rec
    <3>3. CASE k # i
      <4> HIDE DEF about, rec, len
      <4>1. rec + Cardinality(about) <= Len(attempts'[k])
        BY <2>7, <2>8
      <4> QED BY <2>7, <3>1, <3>3, <4>1 DEF about, rec
    <3> QED BY <3>2, <3>3
  <2> QED BY <2>1, <2>5, <2>6
<1>6. ASSUME NEW t \in Turns, LogAttempt(t) PROVE Owed'
  <2> DEFINE i == turn[t].item
  <2>1. i \in Items /\ turn[t].stage \in {"logging", "logging_mastery"}
        /\ attempts' = attempts
    BY <1>1, <1>6 DEF LogAttempt, IInv, TurnOK, Naming
  <2>2. \/ log' = log
        \/ log' = Logged(Ev("drill_attempt_recorded", i))
    BY <1>6 DEF LogAttempt
  <2>3. Goto(t, "proposing", None) \/ Goto(t, "mastered", None)
    BY <1>6 DEF LogAttempt
  <2> SUFFICES ASSUME NEW k \in Items
               PROVE  /\ IsFiniteSet(AboutToLog(k)')
                      /\ Cardinality(Recorded(log', k)) + Cardinality(AboutToLog(k)')
                            <= Len(attempts[k])
    BY <2>1 DEF Owed, AboutToLog
  <2>4. AboutToLog(k)' = IF k = i THEN AboutToLog(k) \ {t} ELSE AboutToLog(k)
    BY <1>1, <2>1, <2>3 DEF Goto, AboutToLog
  <2>5. k = i => t \in AboutToLog(k)
    BY <2>1 DEF AboutToLog
  <2>6. /\ Cardinality(Recorded(log', k)) <=
              Cardinality(Recorded(log, k)) + (IF k = i THEN 1 ELSE 0)
        /\ Cardinality(Recorded(log', k)) \in Nat
    <3>1. CASE log' = log
      BY <1>2, <3>1
    <3>2. CASE log' = Logged(Ev("drill_attempt_recorded", i))
      <4>1. Ev("drill_attempt_recorded", i) \in Event
            /\ (Ev("drill_attempt_recorded", i) = Ev("drill_attempt_recorded", k) => k = i)
        BY <2>1, EventType DEF Ev
      <4>2. log' \in Seq(Event)
        BY <1>1, <3>2, <4>1, LoggedType
      <4>3. Cardinality(Recorded(log', k)) <= Cardinality(Recorded(log, k)) +
              (IF Ev("drill_attempt_recorded", i) = Ev("drill_attempt_recorded", k)
               THEN 1 ELSE 0)
        BY <1>1, <3>2, <4>1, LoggedRecords
      <4> QED BY <1>2, <4>1, <4>2, <4>3, RecordedFinite
    <3> QED BY <2>2, <3>1, <3>2
  <2>7. CASE k = i
    <3>1. /\ IsFiniteSet(AboutToLog(k) \ {t})
          /\ Cardinality(AboutToLog(k) \ {t}) = Cardinality(AboutToLog(k)) - 1
      BY <1>2, <2>5, <2>7, FS_RemoveElement
    <3> QED BY <1>2, <2>4, <2>6, <2>7, <3>1
  <2>8. CASE k # i
    BY <1>2, <2>4, <2>6, <2>8
  <2> QED BY <2>7, <2>8
<1>7. ASSUME NEW t \in Turns, TurnStep(t), ~Score(t), ~LogAttempt(t) PROVE Owed'
  <2>1. /\ UNCHANGED attempts
        /\ \A u \in Turns \ {t} : turn'[u] = turn[u]
        /\ turn[t].stage \notin {"logging", "logging_mastery"}
        /\ turn'[t].stage \notin {"logging", "logging_mastery"}
    <3>1. ASSUME NEW stage, NEW k, Goto(t, stage, k)
          PROVE  turn'[t].stage = stage /\ \A u \in Turns \ {t} : turn'[u] = turn[u]
      BY <1>1, <3>1 DEF Goto
    <3>2. ASSUME NEW stage, Reads(t, stage)
          PROVE  turn'[t].stage = stage /\ \A u \in Turns \ {t} : turn'[u] = turn[u]
      BY <1>1, <3>2 DEF Reads
    <3>3. ASSUME NEW stage, turn' = [turn EXCEPT ![t].stage = stage]
          PROVE  turn'[t].stage = stage /\ \A u \in Turns \ {t} : turn'[u] = turn[u]
      BY <1>1, <3>3
    <3>4. CASE GetState(t) \/ NoSignals(t) \/ LogSignals(t) \/ Refresh(t)
      BY <3>2, <3>3, <3>4 DEF GetState, NoSignals, LogSignals, Refresh
    <3>5. CASE NothingToScore(t) \/ ScoreFails(t) \/ LogMastered(t) \/ Propose(t)
      BY <3>1, <3>5 DEF NothingToScore, ScoreFails, LogMastered, Propose
    <3>6. CASE LogOther(t) \/ Select(t) \/ EmitDrill(t)
      BY <3>1, <3>6 DEF LogOther, Select, EmitDrill
    <3> QED BY <1>7, <3>4, <3>5, <3>6 DEF TurnStep
  <2>2. log' = log \/ \E e \in Event : /\ log' = Logged(e)
                                       /\ e.type # "drill_attempt_recorded"
    <3>1. Other \in Event /\ Other.type # "drill_attempt_recorded"
      BY EventType DEF Other
    <3>2. CASE EmitDrill(t)
      <4>1. turn[t].item \in Items
        BY <1>1, <3>2 DEF EmitDrill, IInv, TurnOK, Naming
      <4>2. Ev("drill_emitted", turn[t].item) \in Event
            /\ Ev("drill_emitted", turn[t].item).type # "drill_attempt_recorded"
        BY <4>1, EventType DEF Ev
      <4> QED BY <3>2, <4>2 DEF EmitDrill
    <3>3. CASE ~EmitDrill(t)
      BY <1>7, <3>1, <3>3 DEF TurnStep, GetState, NoSignals, LogSignals, Refresh,
            NothingToScore, ScoreFails, LogMastered, Propose, LogOther, Select
    <3> QED BY <3>2, <3>3
  <2> QED BY <2>1, <2>2, OwedElsewhere
<1> QED
  BY <1>3, <1>4, <1>5, <1>6, <1>7 DEF Next

\* Nothing is owed at first.
LEMMA InitOwed == Init => Owed
<1> SUFFICES ASSUME Init, NEW k \in Items
             PROVE  /\ IsFiniteSet(AboutToLog(k))
                    /\ Cardinality(Recorded(log, k)) + Cardinality(AboutToLog(k))
                          <= Len(attempts[k])
  BY DEF Owed
<1>1. AboutToLog(k) = {} /\ Recorded(log, k) = {}
  BY DEF Init, AboutToLog, Recorded, Idle
<1>2. Len(attempts[k]) \in Nat
  BY InitType DEF IInv, AttemptsOK
<1> QED
  BY <1>1, <1>2, FS_EmptySet

\* The event log never tells of an attempt the audit log does not have, for any
\* number of overlapping turns and any window (orchestrator.ts runTurn).
THEOREM LogIsAudited == Spec => []LoggedIsAudited
<1>1. IInv /\ Owed /\ [Next]_vars => Owed'
  BY StepOwed
<1>2. IInv /\ Owed => LoggedIsAudited
  <2> SUFFICES ASSUME IInv, Owed, NEW k \in Items
               PROVE  Cardinality(Recorded(log, k)) <= Len(attempts[k])
    BY DEF LoggedIsAudited, Recorded
  <2>1. Cardinality(Recorded(log, k)) \in Nat
    BY RecordedFinite DEF IInv, LogOK
  <2>2. Cardinality(AboutToLog(k)) \in Nat
    BY FS_CardinalityType DEF Owed
  <2> QED BY <2>1, <2>2 DEF Owed, IInv, AttemptsOK
<1> QED
  BY <1>1, <1>2, InitOwed, TypesHold, PTL DEF Spec

-----------------------------------------------------------------------------
(* Mastery *)

\* From m on every answer is right, or all but one.
Clean(s, m)    == \A x \in m .. Len(s) : s[x] \in Right
OneWrong(s, m) == \E w \in Nat : \A x \in m .. Len(s) : x # w => s[x] \in Right

\* The last answers of a row stand for a stretch of the audit log as long as they
\* are, if not longer: right answers whose dates did not fit are only there.
Covered(last5, audit) ==
    \A m \in 1 .. Len(last5) : \E i \in 1 .. Len(audit) :
        /\ Len(audit) - i >= Len(last5) - m
        /\ Clean(last5, m) => Clean(audit, i)
        /\ OneWrong(last5, m) => OneWrong(audit, i)

\* What MasteryIsEarned says of one audit log.
EarnedIn(audit) ==
    \E i, j \in DOMAIN audit :
        /\ j - i >= MasteryWindow - 1
        /\ Cardinality(WrongIn(audit) \cap (i .. j)) <= 1
        /\ {j - 1, j} \subseteq RightIn(audit)

\* The audit log backs what a row says; an interval of days tells that the last
\* answer was right.
Backs(audit, row) ==
    /\ Covered(row.last5, audit)
    /\ row.interval >= 2 => audit # <<>> /\ audit[Len(audit)] \in Right
    /\ row.mastered > 0 => EarnedIn(audit)

\* The inductive invariant of mastery.
Backed == \A k \in Items : rows[k] # None => Backs(attempts[k], rows[k])

\* An answer comes after those there were.
LEMMA Appended ==
    ASSUME NEW S, NEW s \in Seq(S), NEW r \in S
    PROVE  /\ Append(s, r) \in Seq(S) /\ Len(s) \in Nat
           /\ Len(Append(s, r)) = Len(s) + 1
           /\ \A x \in 1 .. Len(s) : Append(s, r)[x] = s[x]
           /\ Append(s, r)[Len(s) + 1] = r
OBVIOUS

\* A right answer leaves a clean stretch clean, and one with a wrong answer so.
LEMMA RightAppended ==
    ASSUME NEW S, NEW s \in Seq(S), NEW r \in S \cap Right, NEW i \in 1 .. Len(s)
    PROVE  /\ Clean(s, i) => Clean(Append(s, r), i)
           /\ OneWrong(s, i) => OneWrong(Append(s, r), i)
<1> DEFINE t == Append(s, r)
<1>1. /\ Len(t) = Len(s) + 1 /\ Len(s) \in Nat /\ t[Len(s) + 1] = r
      /\ \A x \in 1 .. Len(s) : t[x] = s[x]
  BY Appended
<1> HIDE DEF t
<1>2. \A x \in i .. Len(t) : x \in i .. Len(s) \/ x = Len(s) + 1
  BY <1>1
<1>3. \A x \in i .. Len(s) : t[x] = s[x]
  BY <1>1
<1>4. Clean(s, i) => Clean(t, i)
  BY <1>1, <1>2, <1>3 DEF Clean
<1>5. OneWrong(s, i) => OneWrong(t, i)
  BY <1>1, <1>2, <1>3 DEF OneWrong
<1> QED
  BY <1>4, <1>5 DEF t

\* Any answer after a clean stretch leaves one wrong answer at most.
LEMMA AnyAppended ==
    ASSUME NEW S, NEW s \in Seq(S), NEW r \in S, NEW i \in 1 .. Len(s) + 1,
           i = Len(s) + 1 \/ Clean(s, i)
    PROVE  /\ OneWrong(Append(s, r), i)
           /\ r \in Right => Clean(Append(s, r), i)
<1> DEFINE t == Append(s, r)
<1>1. /\ Len(t) = Len(s) + 1 /\ Len(s) \in Nat /\ t[Len(s) + 1] = r
      /\ \A x \in 1 .. Len(s) : t[x] = s[x]
  BY Appended
<1> HIDE DEF t
<1>2. \A x \in i .. Len(t) : x \in i .. Len(s) \/ x = Len(s) + 1
  BY <1>1
<1>3. \A x \in i .. Len(s) : t[x] \in Right
  BY <1>1 DEF Clean
<1>4. \A x \in i .. Len(t) : x # Len(s) + 1 => t[x] \in Right
  BY <1>2, <1>3
<1>5. OneWrong(t, i)
  <2>1. Len(s) + 1 \in Nat
    BY <1>1
  <2> QED BY <1>4, <2>1 DEF OneWrong
<1>6. r \in Right => Clean(t, i)
  BY <1>1, <1>4 DEF Clean
<1> QED
  BY <1>5, <1>6 DEF t

\* The answers before the last one of a stretch.
LEMMA BeforeLast ==
    ASSUME NEW S, NEW s \in Seq(S), NEW r \in S, NEW i \in 1 .. Len(s)
    PROVE  /\ Clean(Append(s, r), i) => Clean(s, i) /\ r \in Right
           /\ OneWrong(Append(s, r), i) =>
                Clean(s, i) \/ (OneWrong(s, i) /\ r \in Right)
<1> DEFINE t == Append(s, r)
<1>1. /\ Len(t) = Len(s) + 1 /\ Len(s) \in Nat /\ t[Len(s) + 1] = r
      /\ \A x \in 1 .. Len(s) : t[x] = s[x]
  BY Appended
<1> HIDE DEF t
<1>2. Len(s) + 1 \in i .. Len(t) /\ \A x \in i .. Len(s) : x \in i .. Len(t) /\ t[x] = s[x]
  BY <1>1
<1>3. Clean(t, i) => Clean(s, i) /\ r \in Right
  BY <1>1, <1>2 DEF Clean
<1>4. ASSUME OneWrong(t, i) PROVE Clean(s, i) \/ (OneWrong(s, i) /\ r \in Right)
  <2>1. PICK w \in Nat : \A x \in i .. Len(t) : x # w => t[x] \in Right
    BY <1>4 DEF OneWrong
  <2>2. CASE w = Len(s) + 1
    <3>1. \A x \in i .. Len(s) : x # w
      BY <1>1, <2>2
    <3> QED BY <1>2, <2>1, <3>1 DEF Clean
  <2>3. CASE w # Len(s) + 1
    BY <1>1, <1>2, <2>1, <2>3 DEF OneWrong
  <2> QED BY <2>2, <2>3
<1> QED
  BY <1>3, <1>4 DEF t

\* An answer that goes into both keeps the row's answers covered.
LEMMA CoveredAppend ==
    ASSUME NEW last5 \in Seq(Responses), NEW audit \in Seq(Responses),
           NEW r \in Responses, Covered(last5, audit)
    PROVE  Covered(Append(last5, r), Append(audit, r))
<1> DEFINE l == Append(last5, r)
           a == Append(audit, r)
<1>1. /\ Len(l) = Len(last5) + 1 /\ Len(a) = Len(audit) + 1
      /\ Len(last5) \in Nat /\ Len(audit) \in Nat
  BY Appended
<1> HIDE DEF l, a
<1> SUFFICES ASSUME NEW m \in 1 .. Len(l)
             PROVE  \E i \in 1 .. Len(a) :
                       /\ Len(a) - i >= Len(l) - m
                       /\ Clean(l, m) => Clean(a, i)
                       /\ OneWrong(l, m) => OneWrong(a, i)
  BY DEF Covered, l, a
<1>2. CASE m = Len(last5) + 1
  <2>1. Len(audit) + 1 \in 1 .. Len(a) /\ Len(a) - (Len(audit) + 1) >= Len(l) - m
    BY <1>1, <1>2
  <2>2. Len(audit) + 1 \in 1 .. Len(audit) + 1
    BY <1>1
  <2>3. OneWrong(a, Len(audit) + 1) /\ (r \in Right => Clean(a, Len(audit) + 1))
    BY <2>2, AnyAppended DEF a
  <2>4. Clean(l, m) => r \in Right
    <3>1. l[Len(last5) + 1] = r
      BY Appended DEF l
    <3>2. m \in m .. Len(l)
      BY <1>1, <1>2
    <3> QED BY <1>2, <3>1, <3>2 DEF Clean
  <2> QED BY <2>1, <2>3, <2>4
<1>3. CASE m # Len(last5) + 1
  <2>1. m \in 1 .. Len(last5)
    BY <1>1, <1>3
  <2>2. PICK i \in 1 .. Len(audit) :
               /\ Len(audit) - i >= Len(last5) - m
               /\ Clean(last5, m) => Clean(audit, i)
               /\ OneWrong(last5, m) => OneWrong(audit, i)
    BY <2>1 DEF Covered
  <2>3. i \in 1 .. Len(a) /\ Len(a) - i >= Len(l) - m /\ i \in 1 .. Len(audit) + 1
    BY <1>1, <2>1, <2>2
  <2>4. /\ Clean(l, m) => Clean(last5, m) /\ r \in Right
        /\ OneWrong(l, m) => Clean(last5, m) \/ (OneWrong(last5, m) /\ r \in Right)
    BY <2>1, BeforeLast DEF l
  <2>5. r \in Right => /\ Clean(audit, i) => Clean(a, i)
                       /\ OneWrong(audit, i) => OneWrong(a, i)
    BY RightAppended DEF a
  <2>6. Clean(audit, i) => OneWrong(a, i)
    BY <2>3, AnyAppended DEF a
  <2> QED BY <2>2, <2>3, <2>4, <2>5, <2>6
<1> QED
  BY <1>2, <1>3

\* So does a right answer that only the audit log gets.
LEMMA CoveredAudit ==
    ASSUME NEW last5 \in Seq(Responses), NEW audit \in Seq(Responses),
           NEW r \in Right, Covered(last5, audit)
    PROVE  Covered(last5, Append(audit, r))
<1> DEFINE a == Append(audit, r)
<1>1. /\ Len(a) = Len(audit) + 1 /\ Len(last5) \in Nat /\ Len(audit) \in Nat
      /\ r \in Responses \cap Right
  BY Appended DEF Responses
<1> HIDE DEF a
<1> SUFFICES ASSUME NEW m \in 1 .. Len(last5)
             PROVE  \E i \in 1 .. Len(a) :
                       /\ Len(a) - i >= Len(last5) - m
                       /\ Clean(last5, m) => Clean(a, i)
                       /\ OneWrong(last5, m) => OneWrong(a, i)
  BY DEF Covered, a
<1>2. PICK i \in 1 .. Len(audit) :
             /\ Len(audit) - i >= Len(last5) - m
             /\ Clean(last5, m) => Clean(audit, i)
             /\ OneWrong(last5, m) => OneWrong(audit, i)
  BY DEF Covered
<1>3. i \in 1 .. Len(a) /\ Len(a) - i >= Len(last5) - m
  BY <1>1, <1>2
<1> QED
  BY <1>1, <1>2, <1>3, RightAppended DEF a

\* And the cut to the last five (sr-algorithm.ts).
LEMMA CoveredLastFive ==
    ASSUME NEW s \in Seq(Responses), NEW audit \in Seq(Responses), Covered(s, audit)
    PROVE  Covered(LastFive(s), audit)
<1> DEFINE d == IF Len(s) > MasteryWindow THEN Len(s) - 5 ELSE 0
           c == LastFive(s)
<1>1. /\ d \in Nat /\ Len(s) \in Nat /\ c \in Seq(Responses) /\ Len(c) = Len(s) - d
      /\ \A x \in 1 .. Len(c) : c[x] = s[x + d]
  <2>1. CASE Len(s) > MasteryWindow
    <3>1. c = SubSeq(s, Len(s) - 4, Len(s)) /\ d = Len(s) - 5 /\ Len(s) > 5
      BY <2>1 DEF LastFive, MasteryWindow
    <3> HIDE DEF c, d
    <3>2. d \in Nat /\ Len(s) \in Nat /\ Len(s) - d = 5
      BY <3>1
    <3>3. c \in Seq(Responses) /\ Len(c) = 5
      BY <3>1
    <3>4. \A x \in 1 .. 5 : c[x] = s[(Len(s) - 4) + x - 1]
      BY <3>1
    <3>5. \A x \in 1 .. 5 : (Len(s) - 4) + x - 1 = x + d
      BY <3>1
    <3> QED BY <3>2, <3>3, <3>4, <3>5
  <2>2. CASE ~(Len(s) > MasteryWindow)
    <3>1. c = SubSeq(s, 1, Len(s)) /\ d = 0
      BY <2>2 DEF LastFive
    <3> HIDE DEF c, d
    <3> QED BY <3>1
  <2> QED BY <2>1, <2>2
<1> HIDE DEF d, c
<1> SUFFICES ASSUME NEW m \in 1 .. Len(c)
             PROVE  \E i \in 1 .. Len(audit) :
                       /\ Len(audit) - i >= Len(c) - m
                       /\ Clean(c, m) => Clean(audit, i)
                       /\ OneWrong(c, m) => OneWrong(audit, i)
  BY DEF Covered, c
<1>2. m + d \in 1 .. Len(s) /\ Len(s) - (m + d) = Len(c) - m
  BY <1>1
<1>3. PICK i \in 1 .. Len(audit) :
             /\ Len(audit) - i >= Len(s) - (m + d)
             /\ Clean(s, m + d) => Clean(audit, i)
             /\ OneWrong(s, m + d) => OneWrong(audit, i)
  BY <1>2 DEF Covered
<1>4. \A x \in m + d .. Len(s) : x - d \in m .. Len(c) /\ c[x - d] = s[x]
  BY <1>1
<1>5. Clean(c, m) => Clean(s, m + d)
  BY <1>4 DEF Clean
<1>6. ASSUME OneWrong(c, m) PROVE OneWrong(s, m + d)
  <2>1. PICK w \in Nat : \A x \in m .. Len(c) : x # w => c[x] \in Right
    BY <1>6 DEF OneWrong
  <2>2. \A x \in m + d .. Len(s) : x # w + d => x - d # w
    BY <1>1, <2>1
  <2>3. w + d \in Nat
    BY <1>1
  <2> QED BY <1>4, <2>1, <2>2, <2>3 DEF OneWrong
<1> QED
  BY <1>2, <1>3, <1>5, <1>6

\* Four right answers of five: one is wrong at most.
LEMMA FourOfFive ==
    ASSUME NEW s \in Seq(Responses), Len(s) = 5, Cardinality(RightIn(s)) >= 4
    PROVE  OneWrong(s, 1)
<1>1. CASE \E w \in 1 .. 5 : s[w] \notin Right
  <2>1. PICK w \in 1 .. 5 : s[w] \notin Right
    BY <1>1
  <2>2. ASSUME NEW v \in 1 .. 5, v # w, s[v] \notin Right PROVE FALSE
    <3> DEFINE five == 1 .. 5
    <3>1. IsFiniteSet(five) /\ Cardinality(five) = 5
      <4>1. ASSUME NEW b \in Int, b = 5 PROVE IsFiniteSet(1 .. b) /\ Cardinality(1 .. b) = 5
        <5>1. IsFiniteSet(1 .. b) /\ Cardinality(1 .. b) = IF 1 > b THEN 0 ELSE b - 1 + 1
          BY FS_Interval
        <5> QED BY <4>1, <5>1
      <4>2. PICK b \in Int : b = 5
        OBVIOUS
      <4>3. IsFiniteSet(1 .. b) /\ Cardinality(1 .. b) = 5
        BY <4>1, <4>2
      <4>4. five = 1 .. b
        BY <4>2
      <4> HIDE DEF five
      <4> QED BY <4>3, <4>4
    <3>0. w \in five /\ v \in five \ {w} /\ RightIn(s) \subseteq (five \ {w}) \ {v}
      BY <2>1, <2>2 DEF RightIn
    <3> HIDE DEF five
    <3>2. IsFiniteSet(five \ {w}) /\ Cardinality(five \ {w}) = Cardinality(five) - 1
      BY <3>0, <3>1, FS_RemoveElement
    <3>3. IsFiniteSet((five \ {w}) \ {v})
          /\ Cardinality((five \ {w}) \ {v}) = Cardinality(five \ {w}) - 1
      BY <3>0, <3>2, FS_RemoveElement
    <3>4. RightIn(s) \subseteq (five \ {w}) \ {v}
          /\ Cardinality((five \ {w}) \ {v}) = 3
      BY <3>0, <3>1, <3>2, <3>3
    <3>5. Cardinality(RightIn(s)) <= 3 /\ Cardinality(RightIn(s)) \in Nat
      BY <3>3, <3>4, FS_Subset, FS_CardinalityType
    <3> QED BY <3>5
  <2>3. w \in Nat /\ \A x \in 1 .. Len(s) : x # w => s[x] \in Right
    BY <2>2
  <2> QED BY <2>3 DEF OneWrong
<1>2. CASE \A w \in 1 .. 5 : s[w] \in Right
  BY <1>2 DEF OneWrong
<1> QED
  BY <1>1, <1>2

\* A stretch of five with one wrong answer that ends in two right ones.
LEMMA EarnedNow ==
    ASSUME NEW audit \in Seq(Answers), NEW i \in 1 .. Len(audit),
           Len(audit) - i >= 4, OneWrong(audit, i),
           audit[Len(audit)] \in Right, audit[Len(audit) - 1] \in Right
    PROVE  EarnedIn(audit)
<1> DEFINE j == Len(audit)
<1>1. j \in Nat /\ i \in DOMAIN audit /\ j \in DOMAIN audit /\ j - 1 \in DOMAIN audit
      /\ j - i >= MasteryWindow - 1
  BY DEF MasteryWindow
<1>2. {j - 1, j} \subseteq RightIn(audit)
  BY <1>1 DEF RightIn
<1>3. PICK w \in Nat : \A x \in i .. j : x # w => audit[x] \in Right
  BY DEF OneWrong
<1>4. WrongIn(audit) \cap (i .. j) \subseteq {w}
  BY <1>3 DEF WrongIn, RightIn
<1>5. Cardinality(WrongIn(audit) \cap (i .. j)) <= 1
  <2>1. IsFiniteSet({w}) /\ Cardinality({w}) = 1
    BY FS_Singleton
  <2> QED BY <1>4, <2>1, FS_Subset
<1> QED
  BY <1>1, <1>2, <1>5 DEF EarnedIn

\* What was earned stays so.
LEMMA EarnedStays ==
    ASSUME NEW audit \in Seq(Answers), NEW r \in Answers, EarnedIn(audit)
    PROVE  EarnedIn(Append(audit, r))
<1> DEFINE a == Append(audit, r)
<1>1. PICK i \in DOMAIN audit, j \in DOMAIN audit :
             /\ j - i >= MasteryWindow - 1
             /\ Cardinality(WrongIn(audit) \cap (i .. j)) <= 1
             /\ {j - 1, j} \subseteq RightIn(audit)
  BY DEF EarnedIn
<1>2. i \in DOMAIN a /\ j \in DOMAIN a /\ Len(audit) + 1 \notin i .. j
  BY <1>1
<1>3. RightIn(audit) \subseteq RightIn(a)
      /\ WrongIn(a) \subseteq WrongIn(audit) \cup {Len(audit) + 1}
      /\ WrongIn(audit) \subseteq WrongIn(a)
  BY AnswersOfAppend
<1>4. WrongIn(a) \cap (i .. j) = WrongIn(audit) \cap (i .. j)
  BY <1>2, <1>3
<1> HIDE DEF a
<1>5. /\ Cardinality(WrongIn(a) \cap (i .. j)) <= 1
      /\ {j - 1, j} \subseteq RightIn(a)
  BY <1>1, <1>3, <1>4
<1>6. EarnedIn(a)
  BY <1>1, <1>2, <1>5 DEF EarnedIn
<1> QED
  BY <1>6 DEF a

\* An attempt is backed by the audit log it is first written to, and the row that
\* stays as it was when the date does not fit still is (drill-repo.ts
\* recordAttempt).
LEMMA AttemptBacked ==
    ASSUME NEW row \in Row, NEW audit \in Seq(Answers), NEW r \in Answers,
           NEW n \in Nat, n \in NextIntervals(row.interval, NextEase(row.ease, r), r),
           Backs(audit, row)
    PROVE  /\ Backs(Append(audit, r), Attempted(row, r, n))
           /\ n > MaxDays => Backs(Append(audit, r), row)
<1> DEFINE new == Attempted(row, r, n)
           a   == Append(audit, r)
<1>1. /\ row.interval \in Nat /\ row.ease \in Nat /\ row.mastered \in Nat
      /\ row.last5 \in Seq(Responses)
  BY DEF Row
<1>2. r \in Responses /\ audit \in Seq(Responses) /\ Answers \subseteq Responses
  BY DrillAssumption
<1>3. /\ new \in Row /\ new.interval = n
      /\ new.last5 = LastFive(Append(row.last5, r))
      /\ Len(new.last5) <= 5
      /\ new.mastered > 0 /\ row.mastered = 0 => IsMastered(new.last5, n)
  BY <1>2, AttemptedCounts, AttemptedType DEF MasteryWindow
<1>4. new.mastered \in Nat /\ new.last5 \in Seq(Responses)
  BY <1>3 DEF Row
<1> HIDE DEF new
<1>5. /\ a \in Seq(Answers) /\ Len(a) = Len(audit) + 1 /\ Len(audit) \in Nat
      /\ a # <<>> /\ a[Len(a)] = r
      /\ \A x \in 1 .. Len(audit) : a[x] = audit[x]
  OBVIOUS
<1>6. Covered(new.last5, a)
  <2>1. Covered(Append(row.last5, r), a)
    BY <1>1, <1>2, CoveredAppend DEF Backs
  <2>2. Append(row.last5, r) \in Seq(Responses) /\ a \in Seq(Responses)
    BY <1>1, <1>2
  <2> QED BY <1>3, <2>1, <2>2, CoveredLastFive
<1>7. EarnedIn(audit) => EarnedIn(a)
  BY EarnedStays
<1> HIDE DEF a
<1>8. (n >= 2 => r \in Right) /\ (n > 3 => row.interval >= 2)
  BY <1>1, LongIsRight
<1>9. ASSUME new.mastered > 0 PROVE EarnedIn(a)
  <2>1. CASE row.mastered > 0
    BY <1>7, <2>1 DEF Backs
  <2>2. CASE ~(row.mastered > 0)
    <3>1. IsMastered(new.last5, n)
      BY <1>1, <1>3, <1>9, <2>2
    <3>2. /\ Len(new.last5) = 5 /\ Cardinality(RightIn(new.last5)) >= 4 /\ n >= 7
      <4>1. /\ Len(new.last5) >= 5 /\ Cardinality(RightIn(new.last5)) >= 4 /\ n >= 7
        BY <3>1 DEF IsMastered, MasteryWindow, MasteryCorrect, MasteryInterval
      <4>2. Len(new.last5) \in Nat /\ Len(new.last5) <= 5
        BY <1>3, <1>4
      <4> DEFINE len == Len(new.last5)
      <4> HIDE DEF len
      <4>3. len >= 5 /\ len \in Nat /\ len <= 5
        BY <4>1, <4>2 DEF len
      <4>4. len = 5
        BY <4>3
      <4> QED BY <4>1, <4>4 DEF len
    <3>3. r \in Right /\ audit # <<>> /\ audit[Len(audit)] \in Right
      BY <1>8, <3>2 DEF Backs
    <3>4. Len(audit) \in 1 .. Len(audit) /\ Len(a) - 1 = Len(audit)
      BY <1>5, <3>3
    <3>5. a[Len(a)] \in Right /\ a[Len(a) - 1] \in Right
      BY <1>5, <3>3, <3>4
    <3>6. OneWrong(new.last5, 1)
      BY <1>4, <3>2, FourOfFive
    <3>7. PICK i \in 1 .. Len(a) : Len(a) - i >= Len(new.last5) - 1 /\ OneWrong(a, i)
      BY <1>6, <3>2, <3>6 DEF Covered
    <3> QED BY <1>5, <3>2, <3>5, <3>7, EarnedNow
  <2> QED BY <2>1, <2>2
<1>10. Backs(a, new)
  BY <1>3, <1>5, <1>6, <1>8, <1>9 DEF Backs
<1>11. ASSUME n > MaxDays PROVE Backs(a, row)
  <2>1. r \in Right
    BY <1>8, <1>11, DrillAssumption
  <2>2. Covered(row.last5, a)
    BY <1>1, <1>2, <2>1, CoveredAudit DEF Backs, a
  <2> QED BY <1>5, <1>7, <2>1, <2>2 DEF Backs
<1> QED
  BY <1>10, <1>11 DEF new, a

\* A row that was never saved says nothing that needs backing.
LEMMA NewBacked == ASSUME NEW audit PROVE Backs(audit, NewRow)
BY DEF Backs, Covered, NewRow

\* The rows are backed at first.
LEMMA InitBacked == Init => Backed
<1> SUFFICES ASSUME Init, NEW k \in Items, rows[k] # None
             PROVE  Backs(attempts[k], rows[k])
  BY DEF Backed
<1>1. rows[k] = Attempted(NewRow, "incorrect", 1) /\ attempts[k] = <<"incorrect">>
  BY DEF Init
<1>2. "incorrect" \in Answers /\ NewRow \in Row
      /\ <<>> \in Seq(Answers) /\ Append(<<>>, "incorrect") = <<"incorrect">>
  BY DrillAssumption, NewRowType
<1>3. 1 \in NextIntervals(NewRow.interval, NextEase(NewRow.ease, "incorrect"), "incorrect")
  BY DEF NextIntervals, Right
<1>4. Backs(Append(<<>>, "incorrect"), Attempted(NewRow, "incorrect", 1))
  BY <1>2, <1>3, NewBacked, AttemptBacked
<1> QED
  BY <1>1, <1>2, <1>4

\* Every step keeps them so.
LEMMA StepBacked ==
    ASSUME IInv, Backed, [Next]_vars
    PROVE  Backed'
<1> SUFFICES ASSUME NEW k \in Items, rows'[k] # None
             PROVE  Backs(attempts'[k], rows'[k])
  BY DEF Backed
<1>1. rows[k] # None => Backs(attempts[k], rows[k])
  BY DEF Backed
<1>2. CASE UNCHANGED <<rows, attempts>>
  BY <1>1, <1>2
<1>3. CASE Days
  BY <1>1, <1>3, DaysChange DEF Backs
<1>4. ASSUME NEW t \in Turns, Score(t) PROVE Backs(attempts'[k], rows'[k])
  <2>1. PICK i \in Items, r \in Answers, n \in Nat :
              /\ n \in NextIntervals(RowOf(i).interval, NextEase(RowOf(i).ease, r), r)
              /\ attempts' = [attempts EXCEPT ![i] = Append(@, r)]
              /\ \/ n > MaxDays /\ UNCHANGED rows /\ Goto(t, "proposing", None)
                 \/ /\ n <= MaxDays
                    /\ rows' = [rows EXCEPT ![i] = Attempted(RowOf(i), r, n)]
                    /\ \E stage \in {"logging", "logging_mastery"} : Goto(t, stage, i)
    BY <1>4, ScoredRow
  <2>2. CASE i # k
    BY <1>1, <2>1, <2>2 DEF IInv, RowsOK, AttemptsOK
  <2>3. CASE i = k
    <3>1. RowOf(k) \in Row /\ attempts[k] \in Seq(Answers)
      BY RowOfType DEF IInv, AttemptsOK
    <3>2. Backs(attempts[k], RowOf(k))
      BY <1>1, NewBacked DEF RowOf
    <3>3. /\ Backs(Append(attempts[k], r), Attempted(RowOf(k), r, n))
          /\ n > MaxDays => Backs(Append(attempts[k], r), RowOf(k))
      BY <2>1, <2>3, <3>1, <3>2, AttemptBacked
    <3>4. attempts'[k] = Append(attempts[k], r)
      BY <2>1, <2>3 DEF IInv, AttemptsOK
    <3>5. CASE n > MaxDays /\ UNCHANGED rows
      <4>1. RowOf(k) = rows'[k]
        BY <3>5 DEF RowOf
      <4> QED BY <3>3, <3>4, <3>5, <4>1
    <3>6. CASE rows' = [rows EXCEPT ![k] = Attempted(RowOf(k), r, n)]
      <4>1. rows'[k] = Attempted(RowOf(k), r, n)
        BY <3>6 DEF IInv, RowsOK
      <4> QED BY <3>3, <3>4, <4>1
    <3> QED BY <2>1, <2>3, <3>5, <3>6
  <2> QED BY <2>2, <2>3
<1> QED
  BY <1>2, <1>3, <1>4, RowsChange

\* Mastery rests on answers the audit log has, five or more in a row with one wrong
\* at most and the last two right, for any bank, any answers and any overlap of
\* turns (drill-repo.ts recordAttempt, sr-algorithm.ts isMastered).
THEOREM MasteryEarned == Spec => []MasteryIsEarned
<1>1. IInv /\ Backed /\ [Next]_vars => Backed'
  BY StepBacked
<1>2. Backed => MasteryIsEarned
  BY DEF Backed, Backs, EarnedIn, MasteryIsEarned
<1> QED
  BY <1>1, <1>2, InitBacked, TypesHold, PTL DEF Spec
=============================================================================

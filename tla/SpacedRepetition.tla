-------------------------- MODULE SpacedRepetition --------------------------
(***************************************************************************)
(* The spaced repetition of drills: SM-2 (shared/src/sr-algorithm.ts) and  *)
(* the row recordAttempt keeps of each item (motor-execucao/src/           *)
(* drill-repo.ts). Easiness is counted in hundredths, intervals in days.   *)
(***************************************************************************)
EXTENDS Integers, Sequences, FiniteSets

Right     == {"correct", "slow_correct"}
Responses == Right \cup {"incorrect", "timeout"}

MinEasiness     == 130
DefaultEasiness == 250

\* MASTERY_WINDOW_SIZE, MASTERY_MIN_CORRECT, MASTERY_MIN_INTERVAL_DAYS
MasteryWindow   == 5
MasteryCorrect  == 4
MasteryInterval == 7

\* presented is presented_count; due is next_due_at in days from now; mastered
\* is the attempt at which mastery_reached_at was set, 0 for null.
Row == [presented : Nat, correct : Nat, due : Int, interval : Nat,
        ease : Nat, last5 : Seq(Responses), mastered : Nat]

NewRow == [presented |-> 0, correct |-> 0, due |-> 0, interval |-> 0,
           ease |-> DefaultEasiness, last5 |-> <<>>, mastered |-> 0]

-----------------------------------------------------------------------------
EaseDelta == [correct |-> 10, slow_correct |-> -14, incorrect |-> -20,
              timeout |-> -20]

NextEase(ease, r) ==
    LET e == ease + EaseDelta[r] IN IF e > MinEasiness THEN e ELSE MinEasiness

\* Math.round of hundredths; the doubles may fall short of an exact half.
Rounded(p) == {(p + 50) \div 100} \cup {n \in {p \div 100} : p % 100 = 50}

\* nextInterval: the intervals it may return.
NextIntervals(interval, ease, r) ==
    CASE r \notin Right \/ interval = 0 -> {1}
      [] r \in Right /\ interval = 1    -> {3}
      [] OTHER                          -> Rounded(interval * ease)

\* Faulty variant: the window is never cut.
LastFiveUncut(s) == s

LastFive(s) == SubSeq(s, IF Len(s) > MasteryWindow THEN Len(s) - 4 ELSE 1, Len(s))

RightIn(s) == {i \in DOMAIN s : s[i] \in Right}

\* Faulty variant: the interval is not looked at.
IsMasteredShallow(last5, interval) ==
    /\ Len(last5) >= MasteryWindow
    /\ Cardinality(RightIn(last5)) >= MasteryCorrect

IsMastered(last5, interval) ==
    /\ Len(last5) >= MasteryWindow
    /\ Cardinality(RightIn(last5)) >= MasteryCorrect
    /\ interval >= MasteryInterval

\* Faulty variant: mastery is dated anew whenever it is found again.
AttemptedRedates(row, r, interval) ==
    LET last5 == LastFive(Append(row.last5, r))
    IN  [presented |-> row.presented + 1,
         correct   |-> row.correct + (IF r \in Right THEN 1 ELSE 0),
         due       |-> interval,
         interval  |-> interval,
         ease      |-> NextEase(row.ease, r),
         last5     |-> last5,
         mastered  |-> IF IsMastered(last5, interval)
                       THEN row.presented + 1 ELSE row.mastered]

\* The row recordAttempt saves, given the interval nextInterval returned.
Attempted(row, r, interval) ==
    LET last5 == LastFive(Append(row.last5, r))
    IN  [presented |-> row.presented + 1,
         correct   |-> row.correct + (IF r \in Right THEN 1 ELSE 0),
         due       |-> interval,
         interval  |-> interval,
         ease      |-> NextEase(row.ease, r),
         last5     |-> last5,
         mastered  |-> IF row.mastered = 0 /\ IsMastered(last5, interval)
                       THEN row.presented + 1 ELSE row.mastered]
=============================================================================

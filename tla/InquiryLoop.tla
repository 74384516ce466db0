----------------------------- MODULE InquiryLoop -----------------------------
(***************************************************************************)
(* The question whether to repeat a content (planejador/src/strategist/    *)
(* repetition-inquiry.ts; plan.ts:1225-1259): plan_turn decides from the   *)
(* events the turn read, execute_playbook logs it, and takes the message   *)
(* of the next turn to be executed for the answer (executor.ts:24-149).    *)
(***************************************************************************)
EXTENDS EventWindow, Naturals, Sequences, FiniteSetsExt

CONSTANTS InqTurns,  \* turns in flight
          InqLimit,  \* LIMIT of get_state
          Contents,
          NoContent  \* a turn without a content

ASSUME InqAssumption == InqLimit \in Nat /\ IsFiniteSet(InqTurns)

VARIABLES
  inqLog,     \* event_log as get_state shows it
  inqTurn,    \* what each turn is at, and whether it is to ask
  turnCount   \* sessions.turn, counted up to the gate

inqVars == <<inqLog, inqTurn, turnCount>>

TurnGate == 4
Cap == 1
Cooldown8 == 8
Threshold == 2

Played(c) == [type |-> "executed", content |-> c]
Plain(type) == [type |-> type]

IndexesOf(log, type) == {i \in DOMAIN log : log[i].type = type}

\* extractRepetitionCounts; the session is younger than its window of seven days.
Repeated(log) ==
  {c \in Contents :
     Cardinality({i \in IndexesOf(log, "executed") : log[i].content = c}) >= Threshold}

\* turnsSinceLastInquiry: from the last of the list, which is the oldest.
CooledDown(log) ==
  LET asked == IndexesOf(log, "asked")
  IN  asked # {} => Cardinality({i \in IndexesOf(log, "executed") : i > Max(asked)}) >= Cooldown8

\* shouldAskRepetitionInquiry. A disabled profile, a brejo or a joint session hold
\* it back; eligible is the pool of the turn.
ShouldAsk(log, count, heldBack, eligible) ==
  /\ ~heldBack
  /\ count >= TurnGate
  /\ Cardinality(IndexesOf(log, "asked")) < Cap
  /\ CooledDown(log)
  /\ Repeated(log) \cap eligible # {}

\* Faulty variant: the first question found from the other end.
PendingFromOldest(log) ==
  LET either == IndexesOf(log, "asked") \cup IndexesOf(log, "resolved")
  IN  either # {} /\ log[Max(either)].type = "asked"

\* findPendingInquiry: the newest of the two kinds is a question.
Pending(log) ==
  LET either == IndexesOf(log, "asked") \cup IndexesOf(log, "resolved")
  IN  either # {} /\ log[Min(either)].type = "asked"

InqInit ==
  /\ inqLog = <<>> /\ turnCount = 0
  /\ inqTurn = [t \in InqTurns |-> [at |-> "idle", ask |-> FALSE]]

\* get_state at the start of the turn, and plan_turn; candidate_set_emitted.
PlanInquiry(t) ==
  /\ inqTurn[t].at = "idle"
  /\ \E heldBack \in BOOLEAN, eligible \in SUBSET Contents :
       inqTurn' = [inqTurn EXCEPT ![t] =
                     [at |-> "planned", ask |-> ShouldAsk(inqLog, turnCount, heldBack, eligible)]]
  /\ inqLog' = Pushed(inqLog, <<Plain("other")>>, InqLimit)
  /\ UNCHANGED turnCount

\* executePlaybook, without an await: answered or skipped, the turn, and asked or
\* suppressed. An empty message answers nothing.
ExecuteTurn(t) ==
  /\ inqTurn[t].at = "planned"
  /\ \E empty \in BOOLEAN, c \in Contents \cup {NoContent} :
       LET resolves == ~empty /\ Pending(inqLog)
           ask == inqTurn[t].ask
       IN  inqLog' = Pushed(inqLog,
                       <<Plain(IF ask THEN "asked" ELSE "other"), Played(c)>>
                         \o (IF resolves THEN <<Plain("resolved")>> ELSE <<>>), InqLimit)
  /\ turnCount' = IF turnCount < TurnGate THEN turnCount + 1 ELSE TurnGate
  /\ inqTurn' = [inqTurn EXCEPT ![t] = [at |-> "idle", ask |-> FALSE]]

InqStep == \E t \in InqTurns : PlanInquiry(t) \/ ExecuteTurn(t)

InqSpec == InqInit /\ [][InqStep]_inqVars

-----------------------------------------------------------------------------
(* Properties *)

InqTypeOK ==
  /\ Len(inqLog) <= InqLimit
  /\ inqTurn \in [InqTurns -> [at : {"idle", "planned"}, ask : BOOLEAN]]
  /\ turnCount \in 0..TurnGate

\* A question is answered once: what a resolution resolves is a question, and not
\* one that another message has already answered.
AnsweredOnce ==
  \A i \in IndexesOf(inqLog, "resolved") :
    LET older == {j \in IndexesOf(inqLog, "asked") \cup IndexesOf(inqLog, "resolved") : j > i}
    IN  older # {} => inqLog[Min(older)].type = "asked"

\* The child is asked by one turn among the events get_state shows, and once more
\* for every turn that overlaps it, whose decision is older than the question.
AskedByOneTurn ==
  Cardinality(IndexesOf(inqLog, "asked")) + Cardinality({t \in InqTurns : inqTurn[t].ask})
    <= Cardinality(InqTurns)
=============================================================================

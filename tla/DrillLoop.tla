----------------------------- MODULE DrillLoop -----------------------------
(***************************************************************************)
(* The drills of runTurn (orchestrator/src/orchestrator.ts): a turn scores *)
(* the message as the answer to a pending drill, which it looks for in the *)
(* event log, proposes the next drill, and logs the one the drota emitted. *)
(* The event log and the rows of spaced repetition are motor-execucao's    *)
(* (state-manager.ts, drill-repo.ts): every call is atomic, turns of the   *)
(* session interleave between calls, and a failed call of the drill        *)
(* workflow never ends the turn.                                           *)
(***************************************************************************)
EXTENDS SpacedRepetition, Functions

CONSTANTS
    Turns,         \* runTurn calls that may overlap; each starts anew when done
    Bank,          \* the item ids of the persona's bank, in their order
    Answers,       \* what matchDrillAnswer may make of a message
    Window,        \* the events get_state returns (20)
    MaxDays,       \* the days from now that fit a Date
    MaxAttempts,   \* bound: attempts at all items
    None

Items == {Bank[i] : i \in DOMAIN Bank}

ASSUME DrillAssumption ==
    /\ Bank \in Seq(Items) /\ Bank # <<>>
    /\ "incorrect" \in Answers /\ Answers \subseteq Responses
    /\ Window \in Nat \ {0}
    /\ {MaxDays, MaxAttempts} \subseteq Nat
    /\ MaxDays >= 3
    /\ None \notin Items \cup Row

VARIABLES
    rows,       \* drill_states
    attempts,   \* drill_attempts, the audit log
    log,        \* event_log: the last Window events, oldest first
    turn        \* where each turn has got

vars == <<rows, attempts, log, turn>>

-----------------------------------------------------------------------------
Event == {[type |-> "other", item |-> None]}
           \cup [type : {"drill_emitted", "drill_attempt_recorded"}, item : Items]

Other == [type |-> "other", item |-> None]
Ev(type, k) == [type |-> type, item |-> k]

Idle == [stage |-> "idle", seen |-> <<>>, item |-> None]

Stages == {"idle", "extracting", "refreshing", "scoring", "logging",
           "logging_mastery", "mastered", "proposing", "selecting", "emitting"}

\* The shape of the state; an interval always fits a Date (drill-repo.ts).
TypeOK ==
    /\ rows \in [Items -> Row \cup {None}]
    /\ \A k \in Items : rows[k] # None =>
          rows[k].interval <= MaxDays /\ Len(rows[k].last5) <= MasteryWindow
    /\ attempts \in [Items -> Seq(Answers)]
    /\ log \in Seq(Event) /\ Len(log) <= Window
    /\ turn \in [Turns -> [stage : Stages, seen : Seq(Event),
                           item : Items \cup {None}]]

\* Some items may have been drilled before, when their bank came first: one
\* wrong answer each.
Init ==
    /\ \E known \in SUBSET Items :
          /\ rows = [k \in Items |-> IF k \in known
                        THEN Attempted(NewRow, "incorrect", 1) ELSE None]
          /\ attempts = [k \in Items |-> IF k \in known
                            THEN <<"incorrect">> ELSE <<>>]
    /\ log = <<>>
    /\ turn = [t \in Turns |-> Idle]

-----------------------------------------------------------------------------
Goto(t, stage, k) ==
    turn' = [turn EXCEPT ![t] = [stage |-> stage, seen |-> <<>>, item |-> k]]

\* log_event. What get_state will not return any more is left out.
Logged(event) ==
    LET grown == Append(log, event)
    IN  SubSeq(grown, IF Len(grown) > Window THEN 2 ELSE 1, Len(grown))

\* get_state: ORDER BY id DESC.
EventLog == [i \in DOMAIN log |-> log[Len(log) + 1 - i]]

Reads(t, stage) ==
    turn' = [turn EXCEPT ![t] = [stage |-> stage, seen |-> EventLog, item |-> None]]

GetState(t) ==
    /\ turn[t].stage = "idle"
    /\ Reads(t, "extracting")
    /\ UNCHANGED <<rows, attempts, log>>

\* extract_signals found none, or failed.
NoSignals(t) ==
    /\ turn[t].stage = "extracting"
    /\ turn' = [turn EXCEPT ![t].stage = "scoring"]
    /\ UNCHANGED <<rows, attempts, log>>

LogSignals(t) ==
    /\ turn[t].stage = "extracting"
    /\ log' = Logged(Other)
    /\ turn' = [turn EXCEPT ![t].stage = "refreshing"]
    /\ UNCHANGED <<rows, attempts>>

\* The second get_state; when it fails the turn goes on with the first.
Refresh(t) ==
    /\ turn[t].stage = "refreshing"
    /\ \/ Reads(t, "scoring")
       \/ turn' = [turn EXCEPT ![t].stage = "scoring"]
    /\ UNCHANGED <<rows, attempts, log>>

\* findPendingDrill walks the array from its end: only other events may follow.
EmittedLast(events, k) ==
    \E i \in DOMAIN events :
        /\ events[i] = Ev("drill_emitted", k)
        /\ \A j \in i + 1 .. Len(events) : events[j] = Other

FindPending(events) ==
    IF \E k \in Items : EmittedLast(events, k)
    THEN CHOOSE k \in Items : EmittedLast(events, k) ELSE None

AllAttempts == SumFunction([k \in Items |-> Len(attempts[k])])

\* Faulty variant: every attempt starts from a new row.
RowOfNew(k) == NewRow

RowOf(k) == IF rows[k] = None THEN NewRow ELSE rows[k]

\* No drill is pending, or its bank could not be loaded.
NothingToScore(t) ==
    /\ turn[t].stage = "scoring"
    /\ \/ FindPending(turn[t].seen) = None /\ Goto(t, "proposing", None)
       \/ Goto(t, "selecting", None)
    /\ UNCHANGED <<rows, attempts, log>>

\* Faulty variant: a call that failed is not told from one that succeeded.
ScoreFailsUnseen(t) ==
    LET k == FindPending(turn[t].seen)
    IN  /\ turn[t].stage = "scoring" /\ k # None
        /\ Goto(t, "logging", k)
        /\ UNCHANGED <<rows, attempts, log>>

\* drill_record_attempt fails before it writes anything.
ScoreFails(t) ==
    LET k == FindPending(turn[t].seen)
    IN  /\ turn[t].stage = "scoring" /\ k # None
        /\ Goto(t, "proposing", None)
        /\ UNCHANGED <<rows, attempts, log>>

\* recordAttempt: the audit log first, then the row, unless its date does not
\* fit: addDays throws, and the row stays as it was.
Score(t) ==
    LET k == FindPending(turn[t].seen)
        row == RowOf(k)
    IN  /\ turn[t].stage = "scoring" /\ k # None
        /\ AllAttempts < MaxAttempts
        /\ \E r \in Answers :
           \E n \in NextIntervals(row.interval, NextEase(row.ease, r), r) :
              /\ attempts' = [attempts EXCEPT ![k] = Append(@, r)]
              /\ \/ /\ n > MaxDays
                    /\ UNCHANGED rows
                    /\ Goto(t, "proposing", None)
                 \/ /\ n <= MaxDays
                    /\ rows' = [rows EXCEPT ![k] = Attempted(row, r, n)]
                    /\ Goto(t, IF rows'[k].mastered = row.mastered
                               THEN "logging" ELSE "logging_mastery", k)
        /\ UNCHANGED log

\* The attempt's event is logged, or the call fails and the drill is still
\* pending for the next turn.
LogAttempt(t) ==
    /\ turn[t].stage \in {"logging", "logging_mastery"}
    /\ \/ UNCHANGED log /\ Goto(t, "proposing", None)
       \/ /\ log' = Logged(Ev("drill_attempt_recorded", turn[t].item))
          /\ Goto(t, IF turn[t].stage = "logging" THEN "proposing" ELSE "mastered",
                  None)
    /\ UNCHANGED <<rows, attempts>>

\* drill_item_mastered, for the attempt that reached mastery.
LogMastered(t) ==
    /\ turn[t].stage = "mastered"
    /\ log' \in {log, Logged(Other)}
    /\ Goto(t, "proposing", None)
    /\ UNCHANGED <<rows, attempts>>

-----------------------------------------------------------------------------
Due == {k \in Items : rows[k] # None /\ rows[k].due <= 0}

\* proposeDrillItem: the item due for the longest; if none is due, all items of
\* the banks are, in their order.
Candidates ==
    IF Due = {} THEN {Bank[1]}
    ELSE {k \in Due : \A j \in Due : rows[k].due <= rows[j].due}

Later == {k \in Items : rows[k] # None /\ rows[k].due > 0}

\* None when the budget is too small or drill_list_due fails.
Propose(t) ==
    /\ turn[t].stage = "proposing"
    /\ \E k \in Candidates \cup {None} : Goto(t, "selecting", k)
    /\ UNCHANGED <<rows, attempts, log>>

\* The crisis, the transitions, the candidate set and execute_playbook log events
\* of their own, as many as the plan calls for.
LogOther(t) ==
    /\ turn[t].stage = "selecting"
    /\ log' = Logged(Other)
    /\ UNCHANGED <<rows, attempts, turn>>

\* The rest of the turn: it may fail, or the drota selects another item than the
\* drill. The last call before drill_emitted is execute_playbook, which logs.
Select(t) ==
    /\ turn[t].stage = "selecting"
    /\ \/ Goto(t, "idle", None) /\ UNCHANGED log
       \/ /\ turn[t].item # None
          /\ Goto(t, "emitting", turn[t].item)
          /\ log' = Logged(Other)
    /\ UNCHANGED <<rows, attempts>>

EmitDrill(t) ==
    /\ turn[t].stage = "emitting"
    /\ log' \in {log, Logged(Ev("drill_emitted", turn[t].item))}
    /\ Goto(t, "idle", None)
    /\ UNCHANGED <<rows, attempts>>

\* Days pass, until the next item is due: no day before tells from another.
Days ==
    /\ \E k \in Later :
          /\ \A j \in Later : rows[k].due <= rows[j].due
          /\ rows' = [j \in Items |->
                         IF rows[j] = None THEN None
                         ELSE [rows[j] EXCEPT !.due = @ - rows[k].due]]
    /\ UNCHANGED <<attempts, log, turn>>

TurnStep(t) ==
    \/ GetState(t) \/ NoSignals(t) \/ LogSignals(t) \/ Refresh(t)
    \/ NothingToScore(t) \/ ScoreFails(t) \/ Score(t)
    \/ LogAttempt(t) \/ LogMastered(t)
    \/ Propose(t) \/ LogOther(t) \/ Select(t) \/ EmitDrill(t)

Next == Days \/ \E t \in Turns : TurnStep(t)

Spec == Init /\ [][Next]_vars

-----------------------------------------------------------------------------
(* Properties *)

WrongIn(s) == DOMAIN s \ RightIn(s)

\* An item is mastered on the strength of answers the audit log has: five or
\* more in a row of which one at most is wrong, and the last two right
\* (drill-repo.ts recordAttempt, sr-algorithm.ts isMastered).
MasteryIsEarned ==
    \A k \in Items : rows[k] # None /\ rows[k].mastered > 0 =>
        \E i, j \in DOMAIN attempts[k] :
            /\ j - i >= MasteryWindow - 1
            /\ Cardinality(WrongIn(attempts[k]) \cap (i .. j)) <= 1
            /\ {j - 1, j} \subseteq RightIn(attempts[k])

\* "Mastery = evento, nao estado": once reached it is kept, with its date,
\* whatever is answered later (drill-repo.ts recordAttempt).
MasteryIsKept ==
    [][\A k \in Items : rows[k] # None /\ rows[k].mastered > 0 =>
          rows'[k].mastered = rows[k].mastered]_vars

\* The rows and the audit log tell the same of every wrong answer; right ones
\* may be missing from the row, when their date did not fit (drill-repo.ts
\* recordAttempt).
AuditCoversRow ==
    \A k \in Items :
        LET wrong == Cardinality(WrongIn(attempts[k]))
            right == Cardinality(RightIn(attempts[k]))
        IN  IF rows[k] = None THEN attempts[k] = <<>>
            ELSE /\ rows[k].presented - rows[k].correct = wrong
                 /\ rows[k].correct <= right

\* The session's log never tells of an attempt that the audit log does not
\* have, whichever call fails (orchestrator.ts runTurn).
LoggedIsAudited ==
    \A k \in Items :
        Cardinality({i \in DOMAIN log : log[i] = Ev("drill_attempt_recorded", k)})
            <= Len(attempts[k])

\* findPendingDrill says it returns "o ultimo drill_emitted que ainda nao foi
\* resolvido por um drill_attempt_recorded subsequente" (orchestrator.ts). The
\* code breaks it: the array it walks is newest first.
PendingIsUnresolved ==
    \A t \in Turns :
        LET seen == turn[t].seen
            k    == FindPending(seen)
        IN  turn[t].stage = "scoring" /\ k # None =>
                \E i \in DOMAIN seen :
                    /\ seen[i] = Ev("drill_emitted", k)
                    /\ \A j \in 1 .. i - 1 : seen[j] = Other

\* An item that is not due is proposed only to a persona in "cold start", with
\* "presented_count 0 pra todos" (orchestrator.ts runTurn). The code breaks it.
OnlyColdStartsPropose ==
    [][\A t \in Turns :
          turn[t].stage = "proposing" /\ turn'[t].item \notin Due \cup {None}
              => \A k \in Items : rows[k] = None]_vars
=============================================================================

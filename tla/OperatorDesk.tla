---------------------------- MODULE OperatorDesk ----------------------------
(***************************************************************************)
(* The desk of the operator: the page polls the approval that waits in the *)
(* session it shows (ebrota-console-ui, ApprovalGate.svelte) and posts the *)
(* decision, which the console passes on and records                       *)
(* (ebrota-console-bff/src/server.ts:352-407, decisions.ts), and the       *)
(* daemon applies to whatever waits in that session by then (daemon.ts).   *)
(* A text is a number, in the order of submission.                         *)
(***************************************************************************)
EXTENDS Naturals, FiniteSets

CONSTANTS
    DeskSessions,
    Polls,          \* bound: requests of pending-approval in flight
    MaxFiled,       \* bound: texts submitted
    MaxDeskFaults   \* bound: requests that fail

ASSUME DeskAssumption == MaxFiled \in Nat /\ MaxDeskFaults \in Nat

VARIABLES
    waits,      \* pendingApprovals: the text that waits in each session, 0 for none
    filedCount, \* texts submitted so far
    semiAuto,   \* consoleMode is "semi-auto"
    focus,      \* currentSessionId
    panel,      \* the text of pendingApproval, 0 for none
    poll,       \* requests of pending-approval
    post,       \* the request of a decision
    decisions,  \* jun_decisions: the text of the panel and the text that was decided
    deskFaults, \* requests that failed so far
    behind,     \* history: the panel may differ from what waits in its session: a text
                \* came or went since it was read, or the page turned to another session
    decided     \* history: texts decided by the operator

pageVars == <<semiAuto, focus, panel>>
deskVars == <<waits, filedCount, pageVars, poll, post, decisions, deskFaults, behind, decided>>

Texts == 1..MaxFiled
Quiet == [at |-> "idle"]

DeskInit ==
    /\ waits = [s \in DeskSessions |-> 0] /\ filedCount = 0
    /\ semiAuto = TRUE /\ focus \in DeskSessions /\ panel = 0
    /\ poll = [p \in Polls |-> Quiet] /\ post = Quiet
    /\ decisions = {} /\ deskFaults = 0 /\ behind = FALSE /\ decided = {}

\* What was read of session s, and shown or on its way, is behind now.
Overtaken(s) ==
    /\ behind' = (behind \/ focus = s)
    /\ poll' = [p \in Polls |-> IF poll[p].at = "read" /\ poll[p].session = s
                                THEN [poll[p] EXCEPT !.fresh = FALSE] ELSE poll[p]]

OvertakenPost(s) == IF post.at = "sent" /\ post.session = s
                    THEN [post EXCEPT !.fresh = FALSE] ELSE post

\* submitForApproval: the text that waited is replaced.
File(s) ==
    /\ filedCount < MaxFiled
    /\ filedCount' = filedCount + 1
    /\ waits' = [waits EXCEPT ![s] = filedCount']
    /\ Overtaken(s) /\ post' = OvertakenPost(s)
    /\ UNCHANGED <<pageVars, decisions, deskFaults, decided>>

\* The timer of an approval, or a shutdown.
Expire(s) ==
    /\ waits[s] # 0
    /\ waits' = [waits EXCEPT ![s] = 0]
    /\ Overtaken(s) /\ post' = OvertakenPost(s)
    /\ UNCHANGED <<filedCount, pageVars, decisions, deskFaults, decided>>

-----------------------------------------------------------------------------
(* The page *)

\* fetchPending, by the timer of the page; requests may overlap.
AskPending(p) ==
    /\ semiAuto /\ poll[p] = Quiet
    /\ poll' = [poll EXCEPT ![p] = [at |-> "asked", session |-> focus]]
    /\ UNCHANGED <<waits, filedCount, pageVars, post, decisions, deskFaults, behind, decided>>

\* getPendingApproval
ReadPending(p) ==
    /\ poll[p].at = "asked"
    /\ poll' = [poll EXCEPT ![p] = [at |-> "read", session |-> poll[p].session,
                                    text |-> waits[poll[p].session], fresh |-> TRUE]]
    /\ UNCHANGED <<waits, filedCount, pageVars, post, decisions, deskFaults, behind, decided>>

\* The answer is shown, whatever session the page has turned to and whichever
\* request was the later one.
ShowPending(p) ==
    /\ poll[p].at = "read"
    /\ panel' = poll[p].text
    /\ behind' = ~(poll[p].fresh /\ poll[p].session = focus)
    /\ poll' = [poll EXCEPT ![p] = Quiet]
    /\ UNCHANGED <<waits, filedCount, semiAuto, focus, post, decisions, deskFaults,
                   decided>>

Fault == deskFaults < MaxDeskFaults /\ deskFaults' = deskFaults + 1

\* A request that fails leaves the page as it was.
AskFails(p) ==
    /\ poll[p] # Quiet /\ Fault
    /\ poll' = [poll EXCEPT ![p] = Quiet]
    /\ UNCHANGED <<waits, filedCount, pageVars, post, decisions, behind, decided>>

\* A card the operator starts turns the page to its session. The panel keeps the text
\* of the session before until the next answer.
TurnTo(s) ==
    /\ s # focus
    /\ focus' = s /\ behind' = TRUE
    /\ UNCHANGED <<waits, filedCount, semiAuto, panel, poll, post, decisions,
                   deskFaults, decided>>

\* Out of semi-auto the polls stop and the panel is emptied.
ToggleMode ==
    /\ semiAuto' = ~semiAuto
    /\ panel' = IF semiAuto THEN 0 ELSE panel
    /\ UNCHANGED <<waits, filedCount, focus, poll, post, decisions, deskFaults,
                   behind, decided>>

\* submit: approved, edited or rejected, the decision bears the session the page shows
\* and the text of the panel.
Submit ==
    /\ semiAuto /\ panel # 0 /\ post = Quiet
    /\ post' = [at |-> "sent", session |-> focus, original |-> panel, fresh |-> ~behind]
    /\ UNCHANGED <<waits, filedCount, pageVars, poll, decisions, deskFaults, behind, decided>>

-----------------------------------------------------------------------------
(* The daemon and the console *)

\* The decision has met a text, or none.
Decides(t) == [at |-> "decided", original |-> post.original, fresh |-> post.fresh, text |-> t]

\* Faulty variant: what was decided stays pending.
ApproveKeepsWaiting ==
    /\ post.at = "sent"
    /\ LET s == post.session
       IN  /\ decided' = decided \cup ({waits[s]} \ {0})
           /\ post' = Decides(waits[s])
           /\ UNCHANGED <<waits, behind, poll>>
    /\ UNCHANGED <<filedCount, pageVars, decisions, deskFaults>>

\* approveOrEdit decides the text that waits in the session, if any.
ApproveOrEdit ==
    /\ post.at = "sent"
    /\ LET s == post.session
       IN  /\ decided' = decided \cup ({waits[s]} \ {0})
           /\ post' = Decides(waits[s])
           /\ waits' = [waits EXCEPT ![s] = 0]
           /\ IF waits[s] = 0 THEN UNCHANGED <<behind, poll>> ELSE Overtaken(s)
    /\ UNCHANGED <<filedCount, pageVars, decisions, deskFaults>>

\* Faulty variant: a decision that met no approval is recorded too.
RowsAlways == {[original |-> post.original, text |-> post.text, fresh |-> post.fresh]}

\* The row of a decision that met an approval.
Rows == IF post.text = 0 THEN {}
        ELSE {[original |-> post.original, text |-> post.text, fresh |-> post.fresh]}

\* recordJunDecision, and the answer.
Record ==
    /\ post.at = "decided"
    /\ decisions' = decisions \cup Rows
    /\ post' = [at |-> "answered"]
    /\ UNCHANGED <<waits, filedCount, pageVars, poll, deskFaults, behind, decided>>

\* The answer empties the panel and the form, also when nothing was pending.
Answered ==
    /\ post.at = "answered"
    /\ post' = Quiet /\ panel' = 0
    /\ UNCHANGED <<waits, filedCount, semiAuto, focus, poll, decisions, deskFaults, behind,
                   decided>>

\* The request or the call of the daemon fails, or an answer is lost: the panel stays.
PostFails ==
    /\ post # Quiet /\ Fault
    /\ post' = Quiet
    /\ UNCHANGED <<waits, filedCount, pageVars, poll, decisions, behind, decided>>

DeskStep ==
    \/ \E s \in DeskSessions : File(s) \/ Expire(s) \/ TurnTo(s)
    \/ \E p \in Polls : AskPending(p) \/ ReadPending(p) \/ ShowPending(p) \/ AskFails(p)
    \/ ToggleMode \/ Submit \/ ApproveOrEdit \/ Record \/ Answered \/ PostFails

DeskSpec == DeskInit /\ [][DeskStep]_deskVars

-----------------------------------------------------------------------------
(* Properties *)

DeskTypeOK ==
    /\ waits \in [DeskSessions -> {0} \cup Texts] /\ filedCount \in 0..MaxFiled
    /\ semiAuto \in BOOLEAN /\ focus \in DeskSessions
    /\ panel \in {0} \cup Texts
    /\ \A p \in Polls : poll[p].at \in {"idle", "asked", "read"}
    /\ post.at \in {"idle", "sent", "decided", "answered"}
    /\ deskFaults \in 0..MaxDeskFaults /\ behind \in BOOLEAN /\ decided \subseteq Texts

\* The operator decides the text he was shown, however the polls overlap and are
\* answered out of order, unless a text came or went after it was read, or the page
\* turned to another session, before the decision arrived.
DecidedAsShown == \A r \in decisions : r.fresh => r.text = r.original

\* A text is decided once, and never after its timer or its successor decided it; the
\* record has one row for each text the operator decided, but for a request that
\* failed meanwhile, and none for a decision that met nothing.
DecisionsRecorded ==
    LET recorded == {r.text : r \in decisions}
        underWay == IF post.at = "decided" THEN {post.text} ELSE {}
    IN  /\ recorded \subseteq decided
        /\ Cardinality(decisions) = Cardinality(recorded)
        /\ Cardinality(decided \ (recorded \cup underWay)) <= deskFaults
        /\ \A s \in DeskSessions : waits[s] \notin decided

DeskKept == DecidedAsShown /\ DecisionsRecorded
=============================================================================

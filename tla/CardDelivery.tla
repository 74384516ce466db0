---------------------------- MODULE CardDelivery ----------------------------
(***************************************************************************)
(* From an inbound "card:<id>" message to the reply on WhatsApp: the       *)
(* inbound bridge (packages/motor-channels/src/orchestrator-bridge.ts),    *)
(* the rate limiter, and the approval table of the orchestrator daemon     *)
(* (submitForApproval, approveOrEdit, stop) that the bridge's approvalGate *)
(* is wired to. The turn itself is a CardCall, which OrchestratorDaemon    *)
(* implements.                                                             *)
(*                                                                         *)
(* Cards are processed fire-and-forget: every card is a process of its own *)
(* and the steps of different cards interleave.                            *)
(***************************************************************************)
EXTENDS Naturals

CONSTANTS
    Cards,          \* inbound messages that activate a card
    Conversations,
    ConvOf,         \* conversation (hence daemon session) of each card
    Paranoid,       \* cards submitted with defaultDecision approved = false
    Burst,          \* capacity of the rate limiter
    None

Deciders == {"operator", "default", "shutdown"}

Decision == [approved : BOOLEAN, edited : BOOLEAN, by : Deciders]

ASSUME DeliveryAssumption ==
    /\ ConvOf \in [Cards -> Conversations]
    /\ Paranoid \subseteq Cards
    /\ Burst \in Nat \ {0}
    /\ None \notin Cards \cup Decision

VARIABLES
    subscribed,     \* the bridge listens to the channel
    daemon,         \* "up", "stopping" (stop awaits the disposer) or "down"
    call,           \* the startCardSession call of each card (CardCall)
    st,             \* how far processCardActivated has got
    system,         \* the reply is the card-not-found message
    pending,        \* this.pendingApprovals
    decision,       \* what the card's approval promise resolved to
    acked,          \* decisions the operator was told are accepted
    tokens          \* whole tokens in the rate limiter's bucket

vars == <<subscribed, daemon, call, st, system, pending, decision, acked, tokens>>

Turn == INSTANCE CardCall

-----------------------------------------------------------------------------
Decided(approved, edited, by) ==
    [approved |-> approved, edited |-> edited, by |-> by]

\* An edit only makes sense on a text that is sent.
OperatorDecisions == {d \in Decision : d.by = "operator" /\ (d.edited => d.approved)}

Outbound == {"limiting", "sending", "sent"}
Ended    == {"ignored", "rejected", "failed", "sent"}
Stages   == {"unseen", "loading", "starting", "proposed", "awaiting"}
              \cup Outbound \cup Ended

\* The shape of the state; the bucket never holds more than its burst
\* (daemon.ts fields, rate-limit.ts).
TypeOK ==
    /\ subscribed \in BOOLEAN
    /\ daemon \in {"up", "stopping", "down"}
    /\ Turn!TypeOK
    /\ st \in [Cards -> Stages]
    /\ system \in [Cards -> BOOLEAN]
    /\ pending \in [Conversations -> Cards \cup {None}]
    /\ decision \in [Cards -> Decision \cup {None}]
    /\ acked \subseteq Cards \X Decision
    /\ tokens \in 0 .. Burst

Init ==
    /\ subscribed = FALSE
    /\ daemon = "up"
    /\ Turn!Init
    /\ st = [c \in Cards |-> "unseen"]
    /\ system = [c \in Cards |-> FALSE]
    /\ pending = [v \in Conversations |-> None]
    /\ decision = [c \in Cards |-> None]
    /\ acked = {}
    /\ tokens = Burst

-----------------------------------------------------------------------------
(* The bridge *)

Goto(c, stage) == st' = [st EXCEPT ![c] = stage]

\* start() and stop() of the bridge: stopping cancels the subscription only.
Subscribe ==
    /\ subscribed' = ~subscribed
    /\ UNCHANGED <<daemon, call, st, system, pending, decision, acked, tokens>>

Inbound(c) ==
    /\ st[c] = "unseen"
    /\ Goto(c, IF subscribed THEN "loading" ELSE "ignored")
    /\ UNCHANGED <<subscribed, daemon, call, system, pending, decision, acked,
                   tokens>>

\* loader.load resolved to null: a system message, which skips the gate.
CardMissing(c) ==
    /\ st[c] = "loading"
    /\ system' = [system EXCEPT ![c] = TRUE]
    /\ Goto(c, "limiting")
    /\ UNCHANGED <<subscribed, daemon, call, pending, decision, acked, tokens>>

LoadFails(c) ==
    /\ st[c] = "loading"
    /\ Goto(c, "failed")
    /\ UNCHANGED <<subscribed, daemon, call, system, pending, decision, acked,
                   tokens>>

StartCardSession(c) ==
    /\ st[c] = "loading"
    /\ IF daemon = "down"
       THEN Turn!Refuse(c) /\ Goto(c, "failed")
       ELSE Turn!Begin(c) /\ Goto(c, "starting")
    /\ UNCHANGED <<subscribed, daemon, system, pending, decision, acked, tokens>>

TurnSettles(c) ==
    /\ st[c] = "starting"
    /\ Turn!Settle(c)
    /\ Goto(c, IF call'[c] = "returned" THEN "proposed" ELSE "failed")
    /\ UNCHANGED <<subscribed, daemon, system, pending, decision, acked, tokens>>

-----------------------------------------------------------------------------
(* The daemon's approvals *)

\* Resolving promises, as chosen says for each card: only the first time
\* counts, and the bridge goes on to send the reply or ends the card.
Opens(chosen, c) == c \in DOMAIN chosen /\ decision[c] = None

DecisionsAfter(chosen) ==
    [c \in Cards |-> IF Opens(chosen, c) THEN chosen[c] ELSE decision[c]]

\* Faulty variant: the bridge does not return on a rejection.
StagesAfterAlwaysSend(chosen) ==
    [c \in Cards |-> IF Opens(chosen, c) THEN "limiting" ELSE st[c]]

StagesAfter(chosen) ==
    [c \in Cards |->
        CASE ~Opens(chosen, c)    -> st[c]
          [] Opens(chosen, c) /\ chosen[c].approved  -> "limiting"
          [] Opens(chosen, c) /\ ~chosen[c].approved -> "rejected"]

Resolve(chosen) == decision' = DecisionsAfter(chosen) /\ st' = StagesAfter(chosen)

Default(c) == Decided(c \notin Paranoid, FALSE, "default")

\* Faulty variant: the approval that is replaced is not resolved.
SubmitLosesExisting(c) ==
    /\ st[c] = "proposed"
    /\ Goto(c, "awaiting")
    /\ pending' = [pending EXCEPT ![ConvOf[c]] = c]
    /\ UNCHANGED <<subscribed, daemon, call, system, decision, acked, tokens>>

\* A pending approval of the same conversation is first resolved, with the
\* default decision of the newcomer. Nothing looks at the daemon's state.
SubmitForApproval(c) ==
    LET existing == {pending[ConvOf[c]]} \ {None}
        chosen   == [x \in existing |-> Default(c)]
    IN  /\ st[c] = "proposed"
        /\ decision' = DecisionsAfter(chosen)
        /\ st' = [StagesAfter(chosen) EXCEPT ![c] = "awaiting"]
        /\ pending' = [pending EXCEPT ![ConvOf[c]] = c]
        /\ UNCHANGED <<subscribed, daemon, call, system, acked, tokens>>

\* The timer, which resolving the approval clears.
ApprovalTimeout(c) ==
    /\ st[c] = "awaiting"
    /\ pending' = [pending EXCEPT ![ConvOf[c]] = None]
    /\ Resolve([x \in {c} |-> Default(c)])
    /\ UNCHANGED <<subscribed, daemon, call, system, acked, tokens>>

\* Faulty variant: a decision leaves the entry in the table.
ApproveKeepsEntry(v, d) ==
    /\ pending[v] # None
    /\ Resolve([x \in {pending[v]} |-> d])
    /\ acked' = acked \cup {<<pending[v], d>>}
    /\ UNCHANGED <<subscribed, daemon, call, system, pending, tokens>>

\* approveOrEdit when it answers accepted; else it changes nothing.
ApproveOrEdit(v, d) ==
    /\ pending[v] # None
    /\ pending' = [pending EXCEPT ![v] = None]
    /\ Resolve([x \in {pending[v]} |-> d])
    /\ acked' = acked \cup {<<pending[v], d>>}
    /\ UNCHANGED <<subscribed, daemon, call, system, tokens>>

\* stop() rejects what is pending, then awaits the disposer.
StopCall ==
    LET swept == {pending[v] : v \in Conversations} \ {None}
    IN  /\ daemon = "up"
        /\ daemon' = "stopping"
        /\ Resolve([x \in swept |-> Decided(FALSE, FALSE, "shutdown")])
        /\ pending' = [v \in Conversations |-> None]
        /\ UNCHANGED <<subscribed, call, system, acked, tokens>>

StopDisposed ==
    /\ daemon = "stopping"
    /\ daemon' = "down"
    /\ UNCHANGED <<subscribed, call, st, system, pending, decision, acked, tokens>>

-----------------------------------------------------------------------------
(* The rate limiter and the channel *)

\* acquire loops until a whole token is there: waiters are not queued.
Acquire(c) ==
    /\ st[c] = "limiting"
    /\ tokens >= 1
    /\ tokens' = tokens - 1
    /\ Goto(c, "sending")
    /\ UNCHANGED <<subscribed, daemon, call, system, pending, decision, acked>>

\* Faulty variants: no cap; an empty bucket is never refilled.
RefillUncapped ==
    /\ tokens <= Burst
    /\ tokens' = tokens + 1
    /\ UNCHANGED <<subscribed, daemon, call, st, system, pending, decision,
                   acked>>

RefillUnlessEmpty ==
    /\ tokens \in 1 .. Burst - 1
    /\ tokens' = tokens + 1
    /\ UNCHANGED <<subscribed, daemon, call, st, system, pending, decision,
                   acked>>

\* Time passes: the bucket gains a token, up to its capacity.
Refill ==
    /\ tokens < Burst
    /\ tokens' = tokens + 1
    /\ UNCHANGED <<subscribed, daemon, call, st, system, pending, decision,
                   acked>>

\* channel.send resolves, or throws when the socket is not open.
Send(c) ==
    /\ st[c] = "sending"
    /\ \E end \in {"sent", "failed"} : Goto(c, end)
    /\ UNCHANGED <<subscribed, daemon, call, system, pending, decision, acked,
                   tokens>>

-----------------------------------------------------------------------------
BridgeStep(c) ==
    \/ CardMissing(c) \/ LoadFails(c) \/ StartCardSession(c)
    \/ SubmitForApproval(c) \/ ApprovalTimeout(c) \/ Acquire(c) \/ Send(c)

Operator(v) == \E d \in OperatorDecisions : ApproveOrEdit(v, d)

Next ==
    \/ Subscribe \/ StopCall \/ StopDisposed \/ Refill
    \/ \E c \in Cards : Inbound(c) \/ TurnSettles(c) \/ BridgeStep(c)
    \/ \E v \in Conversations : Operator(v)

\* The bridge's continuations run, its timers fire and time refills the bucket.
\* That a turn settles is what CardCall promises. Nobody has to decide, stop or
\* subscribe.
Fairness ==
    /\ \A c \in Cards : WF_vars(BridgeStep(c)) /\ WF_vars(TurnSettles(c))
    /\ WF_vars(Refill)

Spec == Init /\ [][Next]_vars /\ Fairness

-----------------------------------------------------------------------------
(* Properties *)

\* The approval table and the waiting cards agree: a card waits for a decision
\* exactly when it is the entry of its conversation. No submission is lost when
\* another one replaces it, and no entry outlives its promise (daemon.ts
\* submitForApproval, approveOrEdit, stop).
ApprovalTableExact ==
    \A c \in Cards : st[c] = "awaiting" <=> pending[ConvOf[c]] = c

\* What the operator was told is accepted is what became of the card: an
\* approveOrEdit that answers accepted is never overtaken by the timeout, a
\* newer submission, the shutdown or a second click (daemon.ts approveOrEdit).
AckedDecisionHolds == \A a \in acked : decision[a[1]] = a[2]

\* A turn's text goes out only under an approving decision, whatever happened
\* to its approval in between (orchestrator-bridge.ts processCardActivated).
NothingSentUnapproved ==
    \A c \in Cards : st[c] \in Outbound /\ ~system[c] =>
        decision[c] # None /\ decision[c].approved

\* Every card taken from the channel ends: sent, rejected or reported to
\* onError, even when nobody decides and the daemon is stopped meanwhile
\* (orchestrator-bridge.ts processCardActivated, rate-limit.ts acquire).
EveryCardEnds == \A c \in Cards : st[c] = "loading" ~> st[c] \in Ended

\* stop() says: "shutdown decide approved=false (nao envia outbound se operador
\* nao decidiu)". Once it was called, no decision but the operator's approves.
\* The code breaks it: see the README.
ShutdownIsConservative ==
    [][\A c \in Cards :
          (daemon # "up" /\ decision'[c] # decision[c] /\ decision'[c].by # "operator")
              => ~decision'[c].approved]_vars
=============================================================================

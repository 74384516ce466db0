------------------------- MODULE CardDelivery_proofs -------------------------
(***************************************************************************)
(* The safety properties of CardDelivery for any number of cards and       *)
(* conversations: the approval table, what the operator's answers mean,    *)
(* and that nothing is sent without approval. They rest on one inductive   *)
(* invariant: the table lists each waiting card under its conversation,    *)
(* and a waiting card is undecided, so that whoever resolves it is the     *)
(* first to do so.                                                         *)
(***************************************************************************)
EXTENDS CardDelivery, TLAPS

\* An entry is filed under the conversation of its card.
FiledRight ==
    \A v \in Conversations : pending[v] # None => ConvOf[pending[v]] = v

\* Only a card that has left the approval is decided.
DecidedHasLeft ==
    \A c \in Cards : decision[c] # None => st[c] \in Outbound \cup Ended

Inv ==
    /\ TypeOK
    /\ FiledRight /\ ApprovalTableExact /\ DecidedHasLeft
    /\ AckedDecisionHolds /\ NothingSentUnapproved

-----------------------------------------------------------------------------
\* The invariant holds before the first card (daemon.ts constructor).
LEMMA InitInv == Init => Inv
<1> SUFFICES ASSUME Init PROVE Inv
  OBVIOUS
<1> USE DeliveryAssumption DEF Init
<1>1. TypeOK
  <2>1. Turn!TypeOK
    BY DEF Turn!TypeOK, Turn!Init
  <2>2. st \in [Cards -> Stages] /\ tokens \in 0 .. Burst
    BY DEF Stages
  <2> QED BY <2>1, <2>2 DEF TypeOK
<1>2. FiledRight /\ ApprovalTableExact /\ DecidedHasLeft /\ AckedDecisionHolds
  BY DEF FiledRight, ApprovalTableExact, DecidedHasLeft, AckedDecisionHolds
<1>3. NothingSentUnapproved
  BY DEF NothingSentUnapproved, Outbound
<1> QED
  BY <1>1, <1>2, <1>3 DEF Inv

\* A card moves on without touching any approval: it is not the waiting one,
\* stays past the approval once it is, and gets past it only as a system
\* message.
LEMMA WalksInv ==
    ASSUME Inv, NEW c \in Cards, NEW stage \in Stages \ {"awaiting"},
           Goto(c, stage), UNCHANGED <<pending, decision, acked>>,
           st[c] \notin {"awaiting"} \cup Ended,
           st[c] \in Outbound => stage \in Outbound \cup Ended,
           stage \in Outbound => st[c] \in Outbound \/ system'[c],
           \A x \in Cards : system[x] => system'[x]
    PROVE  /\ FiledRight' /\ ApprovalTableExact' /\ DecidedHasLeft'
           /\ AckedDecisionHolds' /\ NothingSentUnapproved'
           /\ st' \in [Cards -> Stages]
<1>1. st' = [st EXCEPT ![c] = stage] /\ st \in [Cards -> Stages]
  BY DEF Goto, Inv, TypeOK
<1>2. FiledRight' /\ AckedDecisionHolds'
  BY DEF Inv, FiledRight, AckedDecisionHolds
<1>3. ApprovalTableExact'
  BY <1>1 DEF Inv, ApprovalTableExact
<1>4. DecidedHasLeft'
  BY <1>1 DEF Inv, DecidedHasLeft
<1>5. NothingSentUnapproved'
  BY <1>1 DEF Inv, NothingSentUnapproved
<1> QED
  BY <1>1, <1>2, <1>3, <1>4, <1>5

\* The rest of the state, which the steps of a card keep in its type.
RestOK ==
    /\ subscribed \in BOOLEAN /\ daemon \in {"up", "stopping", "down"}
    /\ Turn!TypeOK
    /\ system \in [Cards -> BOOLEAN]
    /\ tokens \in 0 .. Burst

ApprovalOK ==
    /\ pending \in [Conversations -> Cards \cup {None}]
    /\ decision \in [Cards -> Decision \cup {None}]
    /\ acked \subseteq Cards \X Decision

\* The type invariant, split into what a bridge step and an approval disturb.
LEMMA TypeParts == TypeOK <=> RestOK /\ ApprovalOK /\ st \in [Cards -> Stages]
BY DEF TypeOK, RestOK, ApprovalOK

\* A step of the card's daemon call keeps the calls well typed (CardCall).
LEMMA CallType ==
    ASSUME Turn!TypeOK, NEW c \in Cards,
           Turn!Begin(c) \/ Turn!Refuse(c) \/ Turn!Settle(c)
    PROVE  Turn!TypeOK'
BY DEF Turn!TypeOK, Turn!Begin, Turn!Refuse, Turn!Settle, Turn!Move,
       Turn!Pending, Turn!Settled

\* The bridge's own steps keep the invariant (orchestrator-bridge.ts
\* processCardActivated): they move one card and touch no approval.
LEMMA BridgeInv ==
    ASSUME Inv, NEW c \in Cards,
           \/ Inbound(c) \/ CardMissing(c) \/ LoadFails(c)
           \/ StartCardSession(c) \/ TurnSettles(c) \/ Acquire(c) \/ Send(c)
    PROVE  Inv'
<1> USE DEF Inbound, CardMissing, LoadFails, StartCardSession, TurnSettles,
            Acquire, Send
<1>1. UNCHANGED <<pending, decision, acked>>
  OBVIOUS
<1>2. RestOK'
  <2>1. RestOK
    BY TypeParts DEF Inv
  <2>2. Turn!TypeOK'
    <3>1. CASE UNCHANGED call
      BY <2>1, <3>1 DEF RestOK, Turn!TypeOK
    <3>2. CASE Turn!Begin(c) \/ Turn!Refuse(c) \/ Turn!Settle(c)
      BY <2>1, <3>2, CallType DEF RestOK
    <3> QED BY <3>1, <3>2
  <2>3. tokens' \in 0 .. Burst
    BY <2>1, DeliveryAssumption DEF RestOK
  <2> QED BY <2>1, <2>2, <2>3 DEF RestOK
<1>3. \A x \in Cards : system[x] => system'[x]
  BY DEF Inv, TypeOK
<1>4. PICK stage \in Stages \ {"awaiting"} :
         /\ Goto(c, stage)
         /\ st[c] \in Outbound => stage \in Outbound \cup Ended
         /\ stage \in Outbound => st[c] \in Outbound \/ system'[c]
  <2> USE DEF Stages, Outbound, Ended
  <2>1. CASE CardMissing(c)
    <3>1. system'[c]
      BY <2>1 DEF Inv, TypeOK
    <3> QED BY <2>1, <3>1
  <2>2. CASE Inbound(c)
    BY <2>2
  <2>3. CASE LoadFails(c) \/ StartCardSession(c) \/ TurnSettles(c)
    BY <2>3
  <2>4. CASE Acquire(c) \/ Send(c)
    BY <2>4
  <2> QED BY <2>1, <2>2, <2>3, <2>4
<1>5. st[c] \notin {"awaiting"} \cup Ended
  BY DEF Ended
<1>6. /\ FiledRight' /\ ApprovalTableExact' /\ DecidedHasLeft'
      /\ AckedDecisionHolds' /\ NothingSentUnapproved'
      /\ st' \in [Cards -> Stages]
  BY <1>1, <1>3, <1>4, <1>5, WalksInv
<1>7. ApprovalOK'
  BY <1>1, TypeParts DEF Inv, ApprovalOK
<1>8. TypeOK'
  BY <1>2, <1>6, <1>7 DEF TypeOK, RestOK, ApprovalOK
<1> QED
  BY <1>6, <1>8 DEF Inv

-----------------------------------------------------------------------------
(* Resolving approvals *)

\* Resolving the cards in resolved, all of them waiting, and filing the next
\* table as the clauses on pending' say.
LEMMA ResolveInv ==
    ASSUME Inv, NEW resolved \in SUBSET Cards,
           NEW chosen \in [resolved -> Decision],
           \A c \in resolved : st[c] = "awaiting",
           Resolve(chosen),
           pending' \in [Conversations -> Cards \cup {None}],
           \A v \in Conversations :
              pending'[v] = IF pending[v] \in resolved THEN None ELSE pending[v],
           UNCHANGED system,
           acked' \subseteq Cards \X Decision,
           \A a \in acked' \ acked : a[1] \in resolved /\ chosen[a[1]] = a[2]
    PROVE  /\ FiledRight' /\ ApprovalTableExact' /\ DecidedHasLeft'
           /\ AckedDecisionHolds' /\ NothingSentUnapproved'
           /\ ApprovalOK' /\ st' \in [Cards -> Stages]
<1>1. /\ st \in [Cards -> Stages] /\ acked \subseteq Cards \X Decision
      /\ decision \in [Cards -> Decision \cup {None}] /\ None \notin Decision
      /\ None \notin Cards
  BY DeliveryAssumption DEF Inv, TypeOK
<1>2. \A c \in resolved : decision[c] = None
  BY DEF Inv, DecidedHasLeft, Outbound, Ended
<1>3. \A c \in Cards : Opens(chosen, c) <=> c \in resolved
  BY <1>2 DEF Opens
<1>4. \A c \in Cards : decision'[c] = IF c \in resolved THEN chosen[c]
                                      ELSE decision[c]
  BY <1>3 DEF Resolve, DecisionsAfter
<1>5. \A c \in Cards :
         /\ c \notin resolved => st'[c] = st[c]
         /\ c \in resolved => st'[c] = IF chosen[c].approved THEN "limiting"
                                       ELSE "rejected"
  BY <1>3 DEF Resolve, StagesAfter, Decision
<1>6. decision' \in [Cards -> Decision \cup {None}]
  BY <1>1, <1>4 DEF Resolve, DecisionsAfter
<1>7. st' \in [Cards -> Stages]
  <2>1. \A c \in Cards : st'[c] \in Stages
    BY <1>1, <1>5 DEF Stages, Outbound, Ended
  <2> QED BY <2>1 DEF Resolve, StagesAfter
<1>8. FiledRight'
  BY DEF Inv, FiledRight
<1>9. ApprovalTableExact'
  <2> SUFFICES ASSUME NEW c \in Cards
               PROVE  st'[c] = "awaiting" <=> pending'[ConvOf[c]] = c
    BY DEF ApprovalTableExact
  <2>1. ConvOf[c] \in Conversations /\ c # None
    BY <1>1, DeliveryAssumption
  <2>2. st[c] = "awaiting" <=> pending[ConvOf[c]] = c
    BY DEF Inv, ApprovalTableExact
  <2>3. CASE c \in resolved
    BY <1>5, <2>1, <2>2, <2>3
  <2>4. CASE c \notin resolved
    BY <1>5, <2>1, <2>2, <2>4
  <2> QED BY <2>3, <2>4
<1>10. DecidedHasLeft'
  BY <1>4, <1>5 DEF Inv, DecidedHasLeft, Outbound, Ended
<1>11. AckedDecisionHolds'
  <2> SUFFICES ASSUME NEW a \in acked' PROVE decision'[a[1]] = a[2]
    BY DEF AckedDecisionHolds
  <2>1. CASE a \notin acked
    BY <1>4, <2>1
  <2>2. CASE a \in acked
    <3>1. a[1] \in Cards /\ a[2] \in Decision
      BY <1>1, <2>2
    <3>2. decision[a[1]] = a[2]
      BY <2>2 DEF Inv, AckedDecisionHolds
    <3>3. a[1] \notin resolved
      BY <1>1, <1>2, <3>1, <3>2
    <3> QED BY <1>4, <3>1, <3>2, <3>3
  <2> QED BY <2>1, <2>2
<1>12. NothingSentUnapproved'
  <2> SUFFICES ASSUME NEW c \in Cards, st'[c] \in Outbound, ~system[c]
               PROVE  decision'[c] # None /\ decision'[c].approved
    BY DEF NothingSentUnapproved
  <2>1. CASE c \in resolved
    <3>1. decision'[c] = chosen[c] /\ chosen[c] \in Decision
      BY <1>4, <2>1
    <3>2. chosen[c].approved
      BY <1>5, <2>1 DEF Outbound
    <3> QED BY <1>1, <3>1, <3>2
  <2>2. CASE c \notin resolved
    BY <1>4, <1>5, <2>2 DEF Inv, NothingSentUnapproved
  <2> QED BY <2>1, <2>2
<1> QED
  BY <1>6, <1>7, <1>8, <1>9, <1>10, <1>11, <1>12 DEF ApprovalOK

\* A conversation's entry is a waiting card of it.
LEMMA EntryWaits ==
    ASSUME Inv, NEW v \in Conversations, pending[v] # None
    PROVE  /\ pending[v] \in Cards /\ st[pending[v]] = "awaiting"
           /\ ConvOf[pending[v]] = v
BY DEF Inv, TypeOK, FiledRight, ApprovalTableExact

\* What an undecided approval resolves with is a decision (daemon.ts
\* submitForApproval).
LEMMA DefaultType == \A c \in Cards : Default(c) \in Decision
BY DEF Default, Decided, Decision, Deciders

\* Filing an approval keeps the invariant, and so does resolving the one it
\* supersedes (daemon.ts submitForApproval).
LEMMA SubmitInv ==
    ASSUME Inv, NEW c \in Cards, SubmitForApproval(c)
    PROVE  Inv'
<1> DEFINE v == ConvOf[c]
           existing == {pending[v]} \ {None}
           chosen == [x \in existing |-> Default(c)]
<1>1. /\ v \in Conversations /\ None \notin Cards \cup Decision
      /\ st[c] = "proposed" /\ st \in [Cards -> Stages]
      /\ decision \in [Cards -> Decision \cup {None}]
      /\ pending \in [Conversations -> Cards \cup {None}]
  BY DeliveryAssumption DEF Inv, TypeOK, SubmitForApproval
<1>2. \A x \in existing :
         /\ x \in Cards /\ st[x] = "awaiting" /\ ConvOf[x] = v /\ x # c
         /\ decision[x] = None
  <2> SUFFICES ASSUME NEW x \in existing
               PROVE  /\ x \in Cards /\ st[x] = "awaiting" /\ ConvOf[x] = v
                      /\ x # c /\ decision[x] = None
    OBVIOUS
  <2>1. x \in Cards /\ st[x] = "awaiting" /\ ConvOf[x] = v
    BY <1>1, EntryWaits
  <2>2. decision[x] = None
    BY <2>1 DEF Inv, DecidedHasLeft, Outbound, Ended
  <2> QED BY <1>1, <2>1, <2>2
<1>3. /\ decision' = DecisionsAfter(chosen)
      /\ st' = [StagesAfter(chosen) EXCEPT ![c] = "awaiting"]
      /\ pending' = [pending EXCEPT ![v] = c]
      /\ UNCHANGED <<subscribed, daemon, call, system, acked, tokens>>
  BY DEF SubmitForApproval
<1>4. chosen \in [existing -> Decision]
  BY DefaultType
<1>5. \A x \in existing : st[x] = "awaiting" /\ x # c
  BY <1>2
<1>6. \A x \in Cards : x \notin existing => pending[v] # x
  BY <1>1
<1> HIDE DEF chosen, existing, v
<1>7. \A x \in Cards : Opens(chosen, x) <=> x \in existing
  BY <1>2, <1>4 DEF Opens
<1>8. \A x \in Cards : decision'[x] = IF x \in existing THEN chosen[x]
                                      ELSE decision[x]
  BY <1>3, <1>7 DEF DecisionsAfter
<1>9. st'[c] = "awaiting"
      /\ \A x \in Cards \ {c} :
            /\ x \notin existing => st'[x] = st[x]
            /\ x \in existing => st'[x] = IF chosen[x].approved THEN "limiting"
                                          ELSE "rejected"
  <2>1. \A x \in Cards :
           /\ x \notin existing => StagesAfter(chosen)[x] = st[x]
           /\ x \in existing => StagesAfter(chosen)[x] =
                 IF chosen[x].approved THEN "limiting" ELSE "rejected"
    BY <1>4, <1>7 DEF StagesAfter, Decision
  <2>2. DOMAIN StagesAfter(chosen) = Cards
    BY DEF StagesAfter
  <2> QED BY <1>3, <2>1, <2>2
<1>10. st' \in [Cards -> Stages]
  <2>1. \A x \in Cards : st'[x] \in Stages
    BY <1>1, <1>9 DEF Stages, Outbound, Ended
  <2> QED BY <1>3, <2>1 DEF StagesAfter
<1>11. /\ decision' \in [Cards -> Decision \cup {None}]
       /\ pending' \in [Conversations -> Cards \cup {None}]
  <2>1. \A x \in Cards : decision'[x] \in Decision \cup {None}
    BY <1>1, <1>4, <1>8
  <2> QED BY <1>1, <1>3, <2>1 DEF DecisionsAfter
<1>12. TypeOK'
  BY <1>3, <1>10, <1>11 DEF Inv, TypeOK, Turn!TypeOK
<1>13. FiledRight'
  BY <1>1, <1>3 DEF Inv, FiledRight, v
<1>14. ApprovalTableExact'
  <2> SUFFICES ASSUME NEW x \in Cards
               PROVE  st'[x] = "awaiting" <=> pending'[ConvOf[x]] = x
    BY DEF ApprovalTableExact
  <2>1. ConvOf[x] \in Conversations
    BY DeliveryAssumption
  <2>2. st[x] = "awaiting" <=> pending[ConvOf[x]] = x
    BY DEF Inv, ApprovalTableExact
  <2>3. CASE x = c
    BY <1>1, <1>3, <1>9, <2>3 DEF v
  <2>4. CASE x # c /\ x \in existing
    BY <1>1, <1>2, <1>3, <1>9, <2>4
  <2>5. CASE x # c /\ x \notin existing
    BY <1>1, <1>3, <1>6, <1>9, <2>1, <2>2, <2>5
  <2> QED BY <2>3, <2>4, <2>5
<1>15. DecidedHasLeft'
  <2> SUFFICES ASSUME NEW x \in Cards, decision'[x] # None
               PROVE  st'[x] \in Outbound \cup Ended
    BY DEF DecidedHasLeft
  <2>1. decision[c] = None
    BY <1>1 DEF Inv, DecidedHasLeft, Outbound, Ended
  <2> QED BY <1>5, <1>8, <1>9, <2>1 DEF Inv, DecidedHasLeft, Outbound, Ended
<1>16. AckedDecisionHolds'
  <2> SUFFICES ASSUME NEW a \in acked PROVE decision'[a[1]] = a[2]
    BY <1>3 DEF AckedDecisionHolds
  <2>1. a[1] \in Cards /\ a[2] \in Decision /\ decision[a[1]] = a[2]
    BY DEF Inv, TypeOK, AckedDecisionHolds
  <2>2. a[1] \notin existing
    BY <1>1, <1>2, <2>1
  <2> QED BY <1>8, <2>1, <2>2
<1>17. NothingSentUnapproved'
  <2> SUFFICES ASSUME NEW x \in Cards, st'[x] \in Outbound, ~system[x]
               PROVE  decision'[x] # None /\ decision'[x].approved
    BY <1>3 DEF NothingSentUnapproved
  <2>1. x # c
    BY <1>9 DEF Outbound
  <2>2. CASE x \in existing
    BY <1>1, <1>4, <1>8, <1>9, <2>1, <2>2 DEF Outbound
  <2>3. CASE x \notin existing
    BY <1>8, <1>9, <2>1, <2>3 DEF Inv, NothingSentUnapproved
  <2> QED BY <2>2, <2>3
<1> QED
  BY <1>12, <1>13, <1>14, <1>15, <1>16, <1>17 DEF Inv

\* The timer, the operator and stop resolve cards that wait.
\* The three that resolve an approval, the timeout, the operator and the
\* shutdown, keep the invariant (daemon.ts submitForApproval, approveOrEdit, stop).
LEMMA ResolversInv ==
    ASSUME Inv,
           \/ \E c \in Cards : ApprovalTimeout(c)
           \/ \E v \in Conversations, d \in OperatorDecisions : ApproveOrEdit(v, d)
           \/ StopCall
    PROVE  Inv'
<1> USE DEF Inv
<1>1. /\ RestOK /\ ApprovalOK /\ st \in [Cards -> Stages]
      /\ None \notin Cards \cup Decision
  BY TypeParts, DeliveryAssumption
<1>2. ASSUME NEW c \in Cards, ApprovalTimeout(c) PROVE Inv'
  <2> DEFINE chosen == [x \in {c} |-> Default(c)]
  <2>1. /\ Resolve(chosen) /\ chosen \in [{c} -> Decision]
        /\ pending' = [pending EXCEPT ![ConvOf[c]] = None]
        /\ UNCHANGED <<subscribed, daemon, call, system, acked, tokens>>
    BY <1>2, DefaultType DEF ApprovalTimeout
  <2>2. st[c] = "awaiting" /\ pending[ConvOf[c]] = c /\ ConvOf[c] \in Conversations
    BY <1>2, DeliveryAssumption DEF ApprovalTimeout, ApprovalTableExact
  <2>3. \A v \in Conversations :
           pending'[v] = IF pending[v] \in {c} THEN None ELSE pending[v]
    BY <1>1, <2>1, <2>2 DEF ApprovalOK, FiledRight
  <2>4. pending' \in [Conversations -> Cards \cup {None}]
    BY <1>1, <2>1 DEF ApprovalOK
  <2> HIDE DEF chosen
  <2>5. /\ FiledRight' /\ ApprovalTableExact' /\ DecidedHasLeft'
        /\ AckedDecisionHolds' /\ NothingSentUnapproved'
        /\ ApprovalOK' /\ st' \in [Cards -> Stages]
    BY <1>1, <2>1, <2>2, <2>3, <2>4, ResolveInv DEF ApprovalOK
  <2> QED BY <1>1, <2>1, <2>5 DEF TypeOK, RestOK, ApprovalOK, Turn!TypeOK
<1>3. ASSUME NEW v \in Conversations, NEW d \in OperatorDecisions,
             ApproveOrEdit(v, d)
      PROVE  Inv'
  <2> DEFINE c == pending[v]
             chosen == [x \in {c} |-> d]
  <2>1. c \in Cards /\ st[c] = "awaiting" /\ ConvOf[c] = v /\ d \in Decision
    BY <1>3, EntryWaits DEF ApproveOrEdit, OperatorDecisions
  <2>2. /\ Resolve(chosen) /\ chosen \in [{c} -> Decision] /\ chosen[c] = d
        /\ pending' = [pending EXCEPT ![v] = None]
        /\ acked' = acked \cup {<<c, d>>}
        /\ UNCHANGED <<subscribed, daemon, call, system, tokens>>
    BY <1>3, <2>1 DEF ApproveOrEdit
  <2>3. \A w \in Conversations : pending[w] = c <=> w = v
    BY <1>1, <2>1 DEF FiledRight
  <2> HIDE DEF chosen, c
  <2>4. \A w \in Conversations :
           pending'[w] = IF pending[w] \in {c} THEN None ELSE pending[w]
    BY <1>1, <2>2, <2>3 DEF ApprovalOK
  <2>5. /\ pending' \in [Conversations -> Cards \cup {None}]
        /\ acked' \subseteq Cards \X Decision
        /\ \A a \in acked' \ acked : a[1] \in {c} /\ chosen[a[1]] = a[2]
    BY <1>1, <2>1, <2>2 DEF ApprovalOK
  <2>6. /\ FiledRight' /\ ApprovalTableExact' /\ DecidedHasLeft'
        /\ AckedDecisionHolds' /\ NothingSentUnapproved'
        /\ ApprovalOK' /\ st' \in [Cards -> Stages]
    BY <2>1, <2>2, <2>4, <2>5, ResolveInv
  <2> QED BY <1>1, <2>2, <2>6 DEF TypeOK, RestOK, ApprovalOK, Turn!TypeOK
<1>4. CASE StopCall
  <2> DEFINE swept == {pending[v] : v \in Conversations} \ {None}
             chosen == [x \in swept |-> Decided(FALSE, FALSE, "shutdown")]
  <2>1. \A x \in swept : x \in Cards /\ st[x] = "awaiting"
    BY EntryWaits
  <2>2. /\ Resolve(chosen)
        /\ pending' = [v \in Conversations |-> None]
        /\ daemon' = "stopping"
        /\ UNCHANGED <<subscribed, call, system, acked, tokens>>
    BY <1>4 DEF StopCall
  <2>3. chosen \in [swept -> Decision]
    BY DEF Decided, Decision, Deciders
  <2>4. \A v \in Conversations :
           pending'[v] = IF pending[v] \in swept THEN None ELSE pending[v]
    BY <2>2
  <2> HIDE DEF chosen, swept
  <2>5. /\ FiledRight' /\ ApprovalTableExact' /\ DecidedHasLeft'
        /\ AckedDecisionHolds' /\ NothingSentUnapproved'
        /\ ApprovalOK' /\ st' \in [Cards -> Stages]
    <3>1. swept \in SUBSET Cards /\ \A x \in swept : st[x] = "awaiting"
      BY <2>1
    <3>2. pending' \in [Conversations -> Cards \cup {None}]
      BY <2>2
    <3>3. /\ acked' \subseteq Cards \X Decision
          /\ \A a \in acked' \ acked : a[1] \in swept /\ chosen[a[1]] = a[2]
      BY <1>1, <2>2 DEF ApprovalOK
    <3> QED BY <2>2, <2>3, <2>4, <3>1, <3>2, <3>3, ResolveInv
  <2> QED BY <1>1, <2>2, <2>5 DEF TypeOK, RestOK, ApprovalOK, Turn!TypeOK
<1> QED
  BY <1>2, <1>3, <1>4

\* Subscribing, the end of stop and the refill of the limiter keep the
\* invariant: they leave the cards alone.
LEMMA OthersInv ==
    ASSUME Inv, Subscribe \/ StopDisposed \/ Refill \/ UNCHANGED vars
    PROVE  Inv'
<1> USE DEF Subscribe, StopDisposed, Refill, vars
<1>1. UNCHANGED <<call, st, system, pending, decision, acked>>
  OBVIOUS
<1>2. /\ FiledRight' /\ ApprovalTableExact' /\ DecidedHasLeft'
      /\ AckedDecisionHolds' /\ NothingSentUnapproved'
  BY <1>1 DEF Inv, FiledRight, ApprovalTableExact, DecidedHasLeft,
              AckedDecisionHolds, NothingSentUnapproved
<1>3. RestOK'
  <2>1. tokens' \in 0 .. Burst
    BY DeliveryAssumption DEF Inv, TypeOK
  <2> QED BY <1>1, <2>1 DEF Inv, TypeOK, RestOK, Turn!TypeOK
<1> QED
  BY <1>1, <1>2, <1>3 DEF Inv, TypeOK, RestOK

\* Every step keeps the invariant.
LEMMA StepInv == Inv /\ [Next]_vars => Inv'
<1> SUFFICES ASSUME Inv, [Next]_vars PROVE Inv'
  OBVIOUS
<1>1. CASE Subscribe \/ StopDisposed \/ Refill \/ UNCHANGED vars
  BY <1>1, OthersInv
<1>2. CASE \E c \in Cards : Inbound(c) \/ TurnSettles(c) \/ BridgeStep(c)
  BY <1>2, BridgeInv, SubmitInv, ResolversInv DEF BridgeStep
<1>3. CASE StopCall \/ \E v \in Conversations : Operator(v)
  BY <1>3, ResolversInv DEF Operator
<1> QED
  BY <1>1, <1>2, <1>3 DEF Next

-----------------------------------------------------------------------------
(* The theorems *)

\* Inv is invariant (daemon.ts, orchestrator-bridge.ts).
THEOREM DeliveryInvariant == Spec => []Inv
BY InitInv, StepInv, PTL DEF Spec

\* The state has its type; the bucket holds at most its burst (rate-limit.ts).
THEOREM TypeCorrect == Spec => []TypeOK
BY DeliveryInvariant, PTL DEF Inv

\* However submissions, timeouts, answers and the shutdown interleave, the cards
\* that wait are the entries of the table (daemon.ts submitForApproval).
THEOREM TableIsExact == Spec => []ApprovalTableExact
BY DeliveryInvariant, PTL DEF Inv

\* What the operator was told is accepted is the card's decision for good
\* (daemon.ts approveOrEdit).
THEOREM AnswersHold == Spec => []AckedDecisionHolds
BY DeliveryInvariant, PTL DEF Inv

\* A turn's text is sent only under an approving decision
\* (orchestrator-bridge.ts processCardActivated).
THEOREM SentIsApproved == Spec => []NothingSentUnapproved
BY DeliveryInvariant, PTL DEF Inv
=============================================================================

------------------------------ MODULE CardIssue ------------------------------
(***************************************************************************)
(* The card a turn may earn the child. At its end the turn compares the    *)
(* statuses it found with those it reads again (orchestrator.ts:820-868;   *)
(* motor-execucao/src/card-generation.ts), and emit_card_for_signal takes  *)
(* the number of cards for the serial, has the card triaged and painted,   *)
(* and saves it (motor-execucao/src/server.ts:256-331; cards-repo.ts).     *)
(***************************************************************************)
EXTENDS StatusZones, Naturals, Sequences, FiniteSets

CONSTANTS IssueTurns,  \* turns in flight
          IssueDims,
          MaxMoves,    \* bound: changes of status
          MaxCards     \* bound: cards of the child

ASSUME IssueAssumption == {MaxMoves, MaxCards} \subseteq Nat

VARIABLES
  zone,     \* status of each dimension
  issue,    \* what each turn is at, the statuses it found, kind and serial of its card
  cards,    \* kids_emitted_cards of the child, in the order they were saved
  moves,    \* changes of status so far
  rises,    \* history: those to pasto
  crossed   \* history: [turn, emission]: turns that another turn, or whose emission
            \* another emission, overlapped

issueVars == <<zone, issue, cards, moves, rises, crossed>>

Silent == [at |-> "idle", before |-> [d \in IssueDims |-> "baia"], kind |-> "none", serial |-> 0]

IssueInit ==
  /\ zone \in [IssueDims -> Status]
  /\ issue = [t \in IssueTurns |-> Silent]
  /\ cards = <<>> /\ moves = 0 /\ rises = 0
  /\ crossed = [turn |-> {}, emission |-> {}]

InFlight == {t \in IssueTurns : issue[t].at # "idle"}
Emitting == {t \in IssueTurns : issue[t].at = "saving"}

\* Those that overlap, once t has joined the others.
Crossed(t, others, before) == IF others = {} THEN before \ {t} ELSE before \cup others \cup {t}

\* get_state at the start of the turn.
BeginTurn(t) ==
  /\ issue[t].at = "idle"
  /\ issue' = [issue EXCEPT ![t].at = "turn", ![t].before = zone]
  /\ crossed' = [turn |-> Crossed(t, InFlight, crossed.turn), emission |-> crossed.emission \ {t}]
  /\ UNCHANGED <<zone, cards, moves, rises>>

\* The closed loop of the turn moves a dimension.
Move(t) ==
  /\ issue[t].at = "turn" /\ moves < MaxMoves
  /\ \E d \in IssueDims, to \in Status :
       /\ zone' = [zone EXCEPT ![d] = Transition(@, to)]
       /\ rises' = IF zone[d] # "pasto" /\ zone'[d] = "pasto" THEN rises + 1 ELSE rises
  /\ moves' = moves + 1
  /\ UNCHANGED <<issue, cards, crossed>>

\* Faulty variant: where the child is, not how it got there.
ClassifyStanding(before, now, other) ==
  IF \E d \in IssueDims : now[d] = "pasto" THEN "pasto"
  ELSE IF other THEN "other"
  ELSE IF \E d \in IssueDims : before[d] = "brejo" /\ now[d] = "baia" THEN "crossing"
  ELSE "none"

\* classifyAchievement; other is an ignition or a high sacrifice.
Classify(before, now, other) ==
  IF \E d \in IssueDims : before[d] # "pasto" /\ now[d] = "pasto" THEN "pasto"
  ELSE IF other THEN "other"
  ELSE IF \E d \in IssueDims : before[d] = "brejo" /\ now[d] = "baia" THEN "crossing"
  ELSE "none"

\* get_state again, whose failure leaves the statuses of the start, and
\* detect_achievement, whose failure ends the hook as no signal does.
Detect(t) ==
  /\ issue[t].at = "turn"
  /\ \E now \in {zone, issue[t].before}, other \in BOOLEAN :
       \E kind \in {"none", Classify(issue[t].before, now, other)} :
         issue' = [issue EXCEPT ![t] = IF kind = "none" THEN Silent
                                       ELSE [@ EXCEPT !.at = "signal", !.kind = kind]]
  /\ UNCHANGED <<zone, cards, moves, rises, crossed>>

\* Without an archetype, or with a scaffold, there is no card; else the sequence
\* is read, getNextSequence.
TakeSerial(t) ==
  /\ issue[t].at = "signal"
  /\ \/ /\ issue' = [issue EXCEPT ![t] = Silent]
        /\ UNCHANGED crossed
     \/ /\ issue' = [issue EXCEPT ![t].at = "saving", ![t].serial = Len(cards) + 1]
        /\ crossed' = [crossed EXCEPT !.emission = Crossed(t, Emitting, @)]
  /\ UNCHANGED <<zone, cards, moves, rises>>

\* Triage and image are awaited; the card is rejected, or saved under a fresh id.
Save(t) ==
  /\ issue[t].at = "saving"
  /\ \/ UNCHANGED cards
     \/ /\ Len(cards) < MaxCards
        /\ cards' = Append(cards, [serial |-> issue[t].serial, kind |-> issue[t].kind,
                                   alone |-> t \notin crossed.turn,
                                   inOrder |-> t \notin crossed.emission])
  /\ issue' = [issue EXCEPT ![t] = Silent]
  /\ UNCHANGED <<zone, moves, rises, crossed>>

IssueStep ==
  \E t \in IssueTurns : BeginTurn(t) \/ Move(t) \/ Detect(t) \/ TakeSerial(t) \/ Save(t)

IssueSpec == IssueInit /\ [][IssueStep]_issueVars

-----------------------------------------------------------------------------
(* Properties *)

IssueTypeOK ==
  /\ zone \in [IssueDims -> Status]
  /\ issue \in [IssueTurns -> [at : {"idle", "turn", "signal", "saving"},
                               before : [IssueDims -> Status],
                               kind : {"none", "pasto", "other", "crossing"},
                               serial : 0..(MaxCards + 1)]]
  /\ \A i \in DOMAIN cards : cards[i].serial \in 1..i
  /\ moves \in 0..MaxMoves /\ rises \in 0..MaxMoves
  /\ crossed.turn \subseteq IssueTurns /\ crossed.emission \subseteq IssueTurns

\* Two cards of a child bear the same serial only where their emissions overlapped:
\* the number is read before the awaits and written after them.
SerialsDistinct ==
  \A i, j \in DOMAIN cards :
    i # j /\ cards[i].serial = cards[j].serial => ~cards[i].inOrder /\ ~cards[j].inOrder

\* An ascent earns one card: turns that overlap no other turn are given no more
\* cards for reaching pasto than there were changes to pasto.
OneCardPerRise ==
  Cardinality({i \in DOMAIN cards : cards[i].kind = "pasto" /\ cards[i].alone}) <= rises
=============================================================================

----------------------------- MODULE MCPedagogy -----------------------------
(***************************************************************************)
(* What the program keeps of a child, for TLC: the drills, the helix, the  *)
(* Gardner programme, the group of a trio, the status matrix, the closed   *)
(* loop of the transitions, the repetition inquiry, the cards, what a turn *)
(* says, the stage of the journey, what the operator decides of a text,    *)
(* and the messages the parents approve.                                   *)
(* They share no variable: a behaviour is one of a single component,       *)
(* chosen in Init, so that the states add up instead of multiplying.       *)
(***************************************************************************)
EXTENDS MCDrillLoop, HelixEngine, GardnerProgram, TrioRuntime, StatusMatrix,
        TriggerLoop, InquiryLoop, CardIssue, DrotaTurn, JourneyState, OperatorDesk,
        ParentalOnboarding

CONSTANTS drill, e6, b3, a2  \* the items of the drota

\* Four of the five dimensions, one day of each phase, one trigger.
FourDims == <<"SA", "SM", "SOC", "REL">>
BossFight == [boss_fight_100 |-> 1]

\* The second child is the one that keeps silent longer.
Tolerances == [c \in 1..3 |-> IF c = 2 THEN 5 ELSE 3]

TwoDimensions == <<"emotional", "social_with_ebrota">>
LoopMessages == {{}, {"synthesis", "deepening"}, {"gatekeeper"}, {"distress"}}

\* A drill and three items of other costs; the cheapest two are the drill and a2.
ItemsByScore == <<e6, drill, b3, a2>>
Costs == [x \in {drill, e6, b3, a2} |->
            IF x = e6 THEN 6 ELSE IF x = b3 THEN 3 ELSE 2]

VARIABLE component

allVars == <<component, vars, helixVars, programVars, trioVars, matrixVars, loopVars,
             inqVars, issueVars, drotaVars, journeyVars, deskVars, onbVars>>

MCInit ==
  /\ component \in {"drill", "helix", "program", "trio", "matrix", "loop", "inquiry", "cards",
                   "drota", "journey", "desk", "onboarding"}
  /\ Init /\ HelixInit /\ ProgramInit /\ TrioInit /\ MatrixInit
  /\ LoopInit /\ InqInit /\ IssueInit /\ DrotaInit
  /\ JourneyInit /\ DeskInit /\ OnbInit
  /\ component # "drill" => rows = [k \in Items |-> None]
  /\ component # "helix" => pair = <<CaselDims[1], CaselDims[2]>>
  /\ component # "matrix" => status = [d \in Dimensions |-> NoRow]
  /\ component # "loop" => matrix = [d \in FocusDims |-> "baia"]
  /\ component # "cards" => zone = [d \in IssueDims |-> "baia"]
  /\ component # "drota" => pipeline = "legacy"
  /\ component # "desk" => focus = CHOOSE s \in DeskSessions : TRUE

Drill   == component = "drill" /\ Next
           /\ UNCHANGED <<component, helixVars, programVars, trioVars, matrixVars, loopVars,
                          inqVars, issueVars, drotaVars, journeyVars, deskVars, onbVars>>
Helix   == component = "helix" /\ HelixStep
           /\ UNCHANGED <<component, vars, programVars, trioVars, matrixVars, loopVars,
                          inqVars, issueVars, drotaVars, journeyVars, deskVars, onbVars>>
Program == component = "program" /\ ProgramStep
           /\ UNCHANGED <<component, vars, helixVars, trioVars, matrixVars, loopVars,
                          inqVars, issueVars, drotaVars, journeyVars, deskVars, onbVars>>
Group   == component = "trio" /\ TrioStep
           /\ UNCHANGED <<component, vars, helixVars, programVars, matrixVars, loopVars,
                          inqVars, issueVars, drotaVars, journeyVars, deskVars, onbVars>>
Matrix  == component = "matrix" /\ MatrixStep
           /\ UNCHANGED <<component, vars, helixVars, programVars, trioVars, loopVars,
                          inqVars, issueVars, drotaVars, journeyVars, deskVars, onbVars>>
Loop    == component = "loop" /\ LoopStep
           /\ UNCHANGED <<component, vars, helixVars, programVars, trioVars, matrixVars,
                          inqVars, issueVars, drotaVars, journeyVars, deskVars, onbVars>>
Inquiry == component = "inquiry" /\ InqStep
           /\ UNCHANGED <<component, vars, helixVars, programVars, trioVars, matrixVars,
                          loopVars, issueVars, drotaVars, journeyVars, deskVars, onbVars>>
Cards   == component = "cards" /\ IssueStep
           /\ UNCHANGED <<component, vars, helixVars, programVars, trioVars, matrixVars,
                          loopVars, inqVars, drotaVars, journeyVars, deskVars, onbVars>>
Talk    == component = "drota" /\ DrotaStep
           /\ UNCHANGED <<component, vars, helixVars, programVars, trioVars, matrixVars,
                          loopVars, inqVars, issueVars, journeyVars, deskVars, onbVars>>

Journey == component = "journey" /\ JourneyStep
           /\ UNCHANGED <<component, vars, helixVars, programVars, trioVars, matrixVars,
                          loopVars, inqVars, issueVars, drotaVars, deskVars, onbVars>>
Desk    == component = "desk" /\ DeskStep
           /\ UNCHANGED <<component, vars, helixVars, programVars, trioVars, matrixVars,
                          loopVars, inqVars, issueVars, drotaVars, journeyVars, onbVars>>
Wizard  == component = "onboarding" /\ OnbStep
           /\ UNCHANGED <<component, vars, helixVars, programVars, trioVars, matrixVars,
                          loopVars, inqVars, issueVars, drotaVars, journeyVars, deskVars>>

MCNext == Drill \/ Helix \/ Program \/ Group \/ Matrix \/ Loop \/ Inquiry \/ Cards
          \/ Talk \/ Journey \/ Desk \/ Wizard

MCSpec == MCInit /\ [][MCNext]_allVars

-----------------------------------------------------------------------------
(* The properties of a component are asked of its own behaviours. *)

ChildTypeOK ==
  /\ component = "drill"   => TypeOK
  /\ component = "helix"   => HelixTypeOK
  /\ component = "program" => ProgramTypeOK
  /\ component = "trio"    => TrioTypeOK
  /\ component = "matrix"  => MatrixTypeOK
  /\ component = "loop"    => LoopTypeOK
  /\ component = "inquiry" => InqTypeOK
  /\ component = "cards"   => IssueTypeOK
  /\ component = "drota"   => DrotaTypeOK
  /\ component = "journey" => JourneyTypeOK
  /\ component = "desk"    => DeskTypeOK
  /\ component = "onboarding" => OnbTypeOK

\* In a group (TrioRuntime) the bot keeps to its share and everyone is asked.
GroupModerated == component = "trio" => ModerationHolds

\* What is kept of a child is what happened: a question is answered by one message and
\* asked by one turn (InquiryLoop), a serial is given to one card and an ascent earns
\* one (CardIssue), unless turns or emissions overlap; what is recorded of a turn is
\* what its text spoke of (DrotaTurn), and of a decision the text the operator was shown
\* (OperatorDesk); a child's first message is one a parent approved as it stands
\* (ParentalOnboarding); the place in the five weeks (GardnerProgram) and the stage of
\* the journey (JourneyState) are what led there, and no dimension of the helix is lost
\* or given twice (HelixEngine).
RecordsKept ==
  /\ component = "inquiry" => AnsweredOnce /\ AskedByOneTurn
  /\ component = "cards"   => SerialsDistinct /\ OneCardPerRise
  /\ component = "drota"   => TalkRecorded
  /\ component = "desk"    => DeskKept
  /\ component = "onboarding" => OnboardingKept
  /\ component = "program" => PhasesCounted
  /\ component = "journey" => JourneyKept
  /\ component = "helix"   => RotationHolds
=============================================================================

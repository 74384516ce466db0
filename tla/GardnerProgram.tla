---------------------------- MODULE GardnerProgram ----------------------------
(***************************************************************************)
(* The programme of five weeks of a session (motor-execucao/src/           *)
(* gardner-program.ts) with its pure step nextPhase (shared/src/mixins/    *)
(* with-gardner-program.ts): three phases a week, pauses, and a counter of *)
(* missed milestones. Every operation reads the row, or its default, and   *)
(* writes it whole; an action is one such call.                            *)
(***************************************************************************)
EXTENDS Naturals

CONSTANTS Weeks,     \* PROGRAM_LENGTH_WEEKS
          Phases,    \* the number of PROGRAM_PHASES
          MaxMissed  \* BOUND on consecutive_missed_milestones

ASSUME GardnerAssumption ==
  /\ Weeks \in Nat \ {0} /\ Phases \in Nat \ {0}
  /\ MaxMissed \in Nat /\ MaxMissed >= 2

VARIABLES
  week,    \* current_week, 0 for null
  phase,   \* the place of current_phase, 0 for null
  paused,
  phasesCompleted, missed,
  excused  \* history: resumed or started again since the last missed milestone

programVars == <<week, phase, paused, phasesCompleted, missed, excused>>

ProgramInit ==
  /\ week = 0 /\ phase = 0 /\ paused = FALSE
  /\ phasesCompleted = 0 /\ missed = 0 /\ excused = FALSE

\* From the beginning, or again once it is complete; the counter stays.
StartProgram ==
  /\ week = 0
  /\ week' = 1 /\ phase' = 1 /\ paused' = FALSE /\ phasesCompleted' = 0
  /\ excused' = TRUE
  /\ UNCHANGED missed

\* Faulty variant: a new round keeps the phases of the last one.
FirstPhaseKeepsCount == /\ week = 0 \/ phase = 0
                        /\ week' = 1 /\ phase' = 1
                        /\ UNCHANGED phasesCompleted

\* The cases of nextPhase.
FirstPhase == /\ week = 0 \/ phase = 0
              /\ week' = 1 /\ phase' = 1 /\ phasesCompleted' = 0

PhaseInWeek == /\ week # 0 /\ phase \in 1..(Phases - 1)
               /\ phase' = phase + 1 /\ phasesCompleted' = phasesCompleted + 1
               /\ UNCHANGED week

WeekEnds == /\ week # 0 /\ phase = Phases
            /\ IF week >= Weeks THEN week' = 0 /\ phase' = 0
                                ELSE week' = week + 1 /\ phase' = 1
            /\ phasesCompleted' = phasesCompleted + 1

NextPhase == FirstPhase \/ PhaseInWeek \/ WeekEnds

AdvanceProgram == ~paused /\ NextPhase /\ UNCHANGED <<paused, missed, excused>>

PauseProgram ==
  /\ paused' = TRUE
  /\ UNCHANGED <<week, phase, phasesCompleted, missed, excused>>

\* The counter is not reset (see MissedPauses).
ResumeProgram ==
  /\ paused' = FALSE /\ excused' = TRUE
  /\ UNCHANGED <<week, phase, phasesCompleted, missed>>

\* Faulty variant: the counter is compared before it is raised.
RecordMissedLate ==
  /\ missed < MaxMissed
  /\ missed' = missed + 1
  /\ paused' = (missed >= 2 \/ paused)
  /\ excused' = FALSE
  /\ UNCHANGED <<week, phase, phasesCompleted>>

RecordMissedMilestone ==
  /\ missed < MaxMissed
  /\ missed' = missed + 1
  /\ paused' = (missed' >= 2 \/ paused)
  /\ excused' = FALSE
  /\ UNCHANGED <<week, phase, phasesCompleted>>

ResetMissedMilestones ==
  /\ missed' = 0
  /\ UNCHANGED <<week, phase, paused, phasesCompleted, excused>>

ProgramStep ==
  \/ StartProgram \/ AdvanceProgram \/ PauseProgram \/ ResumeProgram
  \/ RecordMissedMilestone \/ ResetMissedMilestones

ProgramSpec == ProgramInit /\ [][ProgramStep]_programVars

-----------------------------------------------------------------------------
(* Properties *)

ProgramTypeOK ==
  /\ week \in 0..Weeks /\ phase \in 0..Phases
  /\ (week = 0) = (phase = 0)
  /\ phasesCompleted \in 0..(Weeks * Phases) /\ missed \in 0..MaxMissed
  /\ paused \in BOOLEAN /\ excused \in BOOLEAN

\* The counter agrees with the place in the programme through every pause,
\* restart and completion: a phase is neither skipped nor counted twice
\* (nextPhase, startProgram).
PlaceIsCounted ==
  phasesCompleted = IF week # 0 THEN Phases * (week - 1) + (phase - 1)
                    ELSE IF phasesCompleted = 0 THEN 0 ELSE Weeks * Phases

\* Two missed milestones in a row hold the programme until someone resumes it or
\* starts it again (recordMissedMilestone); no advance or completion lifts the pause.
MissedPauses == missed >= 2 => paused \/ excused

PhasesCounted == PlaceIsCounted /\ MissedPauses
=============================================================================

---------------------------- MODULE JourneyState ----------------------------
(***************************************************************************)
(* The stage of a child's journey, as the console keeps it                 *)
(* (ebrota-console-bff/src/journey-state-repo.ts; shared/src/              *)
(* session-phases.ts): discovery, then mapping once enough was discovered, *)
(* or wherever the parents put it. Every call reads the row, or the one of *)
(* a new child, and writes it whole. The discoveries are counted afresh in *)
(* a ledger the scans of the traces rewrite.                               *)
(***************************************************************************)
EXTENDS Naturals

CONSTANTS
    MinDiscoveries, MinFamilies,  \* READY_FOR_MAPPING_MIN_*
    MaxDiscovered                 \* bound: discoveries in the ledger

ASSUME JourneyAssumption ==
    MinDiscoveries \in Nat /\ MinFamilies \in Nat /\ MaxDiscovered \in Nat

VARIABLES
    ledger,   \* [discoveries, families] in subject_knowledge
    journey,  \* the row: stage, discoveries, families, forced (override_by_parent)
    grounds   \* history: stages there was a reason for since the child was put elsewhere:
              \* the ledger a call read, or the parents

journeyVars == <<ledger, journey, grounds>>

JourneyStages == {"discovery_only", "mapping_ready", "applied_double_helix"}
Ledgers == {l \in [discoveries : 0..MaxDiscovered, families : 0..MaxDiscovered] :
              l.families <= l.discoveries}

JourneyInit ==
    /\ ledger = [discoveries |-> 0, families |-> 0]
    /\ journey = [stage |-> "discovery_only", discoveries |-> 0, families |-> 0,
                  forced |-> "none"]
    /\ grounds = {"discovery_only"}

\* Not every discovery tells its family.
LedgerRewritten ==
    /\ ledger' \in Ledgers
    /\ UNCHANGED <<journey, grounds>>

\* readyForMapping
Enough(j) == j.discoveries >= MinDiscoveries /\ j.families >= MinFamilies

\* Faulty variant: the parents' wish to stay is not asked for.
ComputedUnasked(j) ==
    LET counted == [j EXCEPT !.discoveries = ledger.discoveries, !.families = ledger.families]
    IN  IF j.stage = "discovery_only" /\ Enough(counted)
        THEN [counted EXCEPT !.stage = "mapping_ready"] ELSE counted

\* readOrComputeJourneyState
Computed(j) ==
    LET counted == [j EXCEPT !.discoveries = ledger.discoveries, !.families = ledger.families]
    IN  IF /\ j.stage = "discovery_only" /\ j.forced # "discovery_only"
           /\ Enough(counted)
        THEN [counted EXCEPT !.stage = "mapping_ready"] ELSE counted

\* Whether the ledger was reason enough when it was read.
Asked == IF ledger.discoveries >= MinDiscoveries /\ ledger.families >= MinFamilies
         THEN grounds \cup {"mapping_ready"} ELSE grounds

ReadOrCompute ==
    /\ journey' = Computed(journey)
    /\ grounds' = Asked
    /\ UNCHANGED ledger

\* setParentalOverride
ForceStage(stage) ==
    /\ journey' = [Computed(journey) EXCEPT !.stage = stage, !.forced = stage]
    /\ grounds' = {stage}
    /\ UNCHANGED ledger

\* clearParentalOverride: the stage stays, and the ledger is asked again without it.
ClearOverride ==
    /\ journey' = Computed([Computed(journey) EXCEPT !.forced = "none"])
    /\ grounds' = Asked
    /\ UNCHANGED ledger

JourneyStep ==
    \/ LedgerRewritten \/ ReadOrCompute \/ ClearOverride
    \/ \E stage \in JourneyStages : ForceStage(stage)

JourneySpec == JourneyInit /\ [][JourneyStep]_journeyVars

-----------------------------------------------------------------------------
(* Properties *)

JourneyTypeOK ==
    /\ ledger \in Ledgers
    /\ journey \in [stage : JourneyStages, discoveries : 0..MaxDiscovered,
                    families : 0..MaxDiscovered, forced : JourneyStages \cup {"none"}]
    /\ grounds \subseteq JourneyStages

\* The parents' stage stands as long as they do not take it back, whatever is read
\* and discovered meanwhile; and a child is at a stage for a reason: the parents put it
\* there, or enough was in the ledger when it was read, of several families. That the
\* ledger shrinks afterwards, or the override is cleared, does not bring it back.
JourneyKept ==
    /\ journey.forced # "none" => journey.stage = journey.forced
    /\ journey.stage \in grounds
=============================================================================

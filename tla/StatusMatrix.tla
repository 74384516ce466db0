---------------------------- MODULE StatusMatrix ----------------------------
(***************************************************************************)
(* The status of each dimension of a user (shared/src/status-matrix.ts):   *)
(* brejo, baia or pasto, and never from brejo to pasto or back at once.    *)
(* persistTransition loads the rows, decides from the one it found, and    *)
(* upserts with no condition: other writers may come between its awaits.   *)
(***************************************************************************)
EXTENDS StatusZones

CONSTANTS Writers,     \* calls of persistTransition
          Dimensions,
          NoRow        \* a dimension without a row

ASSUME MatrixAssumption == Dimensions # {}

VARIABLES
  status,     \* rows of status_matrix
  writer,     \* [at, dimension, target, current]: what a call wants and has read
  overtaken   \* history: calls whose dimension was written since they read it

matrixVars == <<status, writer, overtaken>>

MatrixInit ==
  /\ status \in [Dimensions -> Status \cup {NoRow}]
  /\ writer = [w \in Writers |->
                 [at |-> "new", dimension |-> CHOOSE d \in Dimensions : TRUE,
                  target |-> "baia", current |-> NoRow]]
  /\ overtaken = {}

\* await repo.loadAll
LoadStatus(w) ==
  /\ writer[w].at = "new"
  /\ \E d \in Dimensions, t \in Status :
       writer' = [writer EXCEPT ![w] = [at |-> "loaded", dimension |-> d,
                                        target |-> t, current |-> status[d]]]
  /\ UNCHANGED <<status, overtaken>>

\* await repo.upsert of what transition applied
Upsert(w) ==
  /\ writer[w].at = "loaded"
  /\ LET d == writer[w].dimension
     IN  /\ status' = [status EXCEPT ![d] = Transition(writer[w].current, writer[w].target)]
         /\ overtaken' = (overtaken \ {w}) \cup
              {v \in Writers \ {w} : writer[v].at = "loaded" /\ writer[v].dimension = d}
  /\ writer' = [writer EXCEPT ![w].at = "new"]

MatrixStep == \E w \in Writers : LoadStatus(w) \/ Upsert(w)

MatrixSpec == MatrixInit /\ [][MatrixStep]_matrixVars

-----------------------------------------------------------------------------
(* Properties *)

MatrixTypeOK ==
  /\ status \in [Dimensions -> Status \cup {NoRow}]
  /\ writer \in [Writers -> [at : {"new", "loaded"}, dimension : Dimensions,
                             target : Status, current : Status \cup {NoRow}]]
  /\ overtaken \subseteq Writers

\* "invariante brejo -> baia -> pasto" (status-matrix.ts:74): a row changes from
\* brejo to pasto or back in one write only where another call wrote it between
\* the read and the write of that call, which is not prevented.
JumpOnlyWhenOvertaken ==
  [][\A w \in Writers :
       Upsert(w) /\ w \notin overtaken
         => \A d \in Dimensions : ~Jump(status[d], status'[d])]_matrixVars
=============================================================================

----------------------------- MODULE StatusZones -----------------------------
(* The three statuses of a dimension and the only way between them             *)
(* (shared/src/status-matrix.ts:60-104).                                       *)

Status == {"brejo", "baia", "pasto"}

Jump(from, to) == {from, to} = {"brejo", "pasto"}

\* Faulty variant: only the rise is held back.
TransitionUpOnly(current, target) ==
  IF current = "brejo" /\ target = "pasto" THEN "baia" ELSE target

\* transition: what is applied for what is asked; no row counts as any other.
Transition(current, target) == IF Jump(current, target) THEN "baia" ELSE target
=============================================================================

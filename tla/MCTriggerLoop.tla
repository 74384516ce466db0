---------------------------- MODULE MCTriggerLoop ----------------------------
(* TriggerLoop for TLC: one turn at a time, in a session that stays with the  *)
(* crisis protocol for as many turns as the events keep it there.             *)
EXTENDS TriggerLoop

CONSTANT t1

OneDimension == <<"emotional">>
CrisisMessages == {{}, {"distress"}, {"meta"}}
=============================================================================

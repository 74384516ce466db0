----------------------------- MODULE MCDrillLoop -----------------------------
(* DrillLoop for TLC: a bank of two items, one or two overlapping turns, and  *)
(* an event window of three.                                                  *)
EXTENDS DrillLoop

CONSTANTS k1, k2, t1, t2

OneTurn == {t1}
TwoTurns == {t1, t2}
MCBank == <<k1, k2>>
MCAnswers == {"correct", "slow_correct", "incorrect"}
TwoAnswers == {"correct", "incorrect"}
=============================================================================

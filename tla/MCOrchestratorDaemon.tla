----------------------- MODULE MCOrchestratorDaemon -----------------------
(* OrchestratorDaemon for TLC. The wide instance has two semi-auto turns of  *)
(* one session, whose pools differ, and an automatic turn of another; the    *)
(* narrow one leaves the third turn out and restarts the daemon.             *)
EXTENDS OrchestratorDaemon

CONSTANTS c1, c2, c3, s1, s2, k1, k2

WideCards == {c1, c2, c3}
WideSessions == {s1, s2}
WideSessionOf == [c \in WideCards |-> IF c = c3 THEN s2 ELSE s1]

NarrowCards == {c1, c2}
NarrowSessions == {s1}
NarrowSessionOf == [c \in NarrowCards |-> s1]

TwoSemiAuto == {c1, c2}
TwoContents == {k1, k2}
WidePoolOf == [c \in WideCards |-> IF c = c1 THEN {k1, k2} ELSE {k2}]
NarrowPoolOf == [c \in NarrowCards |-> IF c = c1 THEN {k1, k2} ELSE {k2}]
=============================================================================

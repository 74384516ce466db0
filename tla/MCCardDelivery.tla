--------------------------- MODULE MCCardDelivery ---------------------------
(* CardDelivery for TLC: two cards of one conversation, one of them with a    *)
(* paranoid default, a third card of another, and a bucket of one token.      *)
EXTENDS CardDelivery

CONSTANTS c1, c2, c3, v1, v2

MCCards == {c1, c2, c3}
MCConversations == {v1, v2}
MCConvOf == [c \in MCCards |-> IF c = c3 THEN v2 ELSE v1]
MCParanoid == {c2}
=============================================================================

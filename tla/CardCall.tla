------------------------------ MODULE CardCall ------------------------------
(***************************************************************************)
(* What a caller of startCardSession may rely on: the promise returned for *)
(* an activated card is settled at most once, with a text or with an       *)
(* error, and a call that was made is settled sooner or later.             *)
(* OrchestratorDaemon implements it; CardDelivery is built on it.          *)
(***************************************************************************)

CONSTANT Cards      \* the card activations, one call each

VARIABLE call       \* call[c]: how far the call made for card c has got

Pending == {"running"}
Settled == {"returned", "threw"}

TypeOK == call \in [Cards -> {"idle"} \cup Pending \cup Settled]

Init == call = [c \in Cards |-> "idle"]

Move(c, from, to) ==
    /\ call[c] = from
    /\ call' = [call EXCEPT ![c] = to]

Begin(c)  == Move(c, "idle", "running")

\* A call made to a daemon that is not started rejects before it begins.
Refuse(c) == Move(c, "idle", "threw")

Settle(c) == \E to \in Settled : Move(c, "running", to)

Next == \E c \in Cards : Begin(c) \/ Refuse(c) \/ Settle(c)

\* The safety part: whatever happens, a call is settled at most once.
Safety == Init /\ [][Next]_call

Spec == Safety /\ \A c \in Cards : WF_call(Settle(c))
=============================================================================

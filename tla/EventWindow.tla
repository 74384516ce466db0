----------------------------- MODULE EventWindow -----------------------------
(* The event log of a session as get_state shows it (motor-execucao/src/       *)
(* state-manager.ts:80-82, ORDER BY id DESC LIMIT 20): the last events, the    *)
(* newest first. What has left it is not seen again.                           *)
LOCAL INSTANCE Naturals
LOCAL INSTANCE Sequences

\* logEvent, of the events new, the newest of them first.
Pushed(log, new, limit) ==
  LET all == new \o log IN SubSeq(all, 1, IF Len(all) < limit THEN Len(all) ELSE limit)
=============================================================================

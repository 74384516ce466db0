------------------------------- MODULE StsRuns -------------------------------
(***************************************************************************)
(* The runs the console launches (ebrota-console-bff/src/routes/            *)
(* s5-routes.ts): a row of sts_runs and a child process each. The row is   *)
(* written by the request that starts the run, by the one that cancels it, *)
(* by a progress timer and by the events of the process, while the server  *)
(* lives; it may close or crash and be started again over the same rows.   *)
(***************************************************************************)
EXTENDS Naturals

CONSTANTS Runs,
          MaxTurns   \* bound: turns a process reports

ASSUME RunsAssumption == MaxTurns \in Nat

VARIABLES
  runRow,      \* sts_runs: status and turns_completed
  process,     \* the child; once it ended, its event waits to be delivered
  output,      \* "turn n/" lines in its log
  terminated,  \* runs whose process was sent SIGTERM
  runHandles,  \* the map of live child processes
  bff,         \* up, closing (shutdownState.closed) or down
  lost         \* runs of a server that is gone: no handler will see their events

runVars == <<runRow, process, output, terminated, runHandles, bff, lost>>

Ended == {"succeeded", "failed", "cancelled"}
Open == {"pending", "running"}
ExitOf == [code0 |-> "succeeded", codeN |-> "failed", signal |-> "cancelled"]

RunsInit ==
  /\ runRow = [r \in Runs |-> [status |-> "none", turns |-> 0]]
  /\ process = [r \in Runs |-> "none"]
  /\ output = [r \in Runs |-> 0]
  /\ terminated = {} /\ runHandles = {} /\ lost = {}
  /\ bff = "up"

\* POST /sts/runs/start, without an await between its two writes. The log
\* directory may be unwritable (the request fails, the row stays pending), spawn
\* may throw, or report its failure by an event, with no pid and so no handle. A
\* request routed before the server closes may still get here.
StartRun(r) ==
  /\ bff # "down" /\ runRow[r].status = "none"
  /\ \E how \in {"noLog", "throws", "noSpawn", "spawned"} :
       /\ runRow' = [runRow EXCEPT ![r].status = CASE how = "noLog"  -> "pending"
                                                   [] how = "throws" -> "failed"
                                                   [] OTHER          -> "running"]
       /\ process' = [process EXCEPT ![r] = CASE how = "spawned" -> "running"
                                              [] how = "noSpawn" -> "noSpawn"
                                              [] OTHER           -> "none"]
       /\ runHandles' = IF how = "spawned" THEN runHandles \cup {r} ELSE runHandles
  /\ UNCHANGED <<output, terminated, bff, lost>>

\* The row as of the lines written so far.
Ticked(r) == IF runRow[r].status = "running" THEN [runRow[r] EXCEPT !.turns = output[r]]
                                             ELSE runRow[r]

TickProgress(r) ==
  /\ bff = "up" /\ r \notin lost
  /\ process[r] \in {"running", "code0", "codeN", "signal"}
  /\ runRow' = [runRow EXCEPT ![r] = Ticked(r)]
  /\ UNCHANGED <<process, output, terminated, runHandles, bff, lost>>

\* The child (external): it reports turns and ends, by itself or by a signal.
WriteTurn(r) ==
  /\ process[r] = "running" /\ output[r] < MaxTurns
  /\ output' = [output EXCEPT ![r] = @ + 1]
  /\ UNCHANGED <<runRow, process, terminated, runHandles, bff, lost>>

ProcessEnds(r) ==
  /\ process[r] = "running"
  /\ \E how \in DOMAIN ExitOf : process' = [process EXCEPT ![r] = how]
  /\ UNCHANGED <<runRow, output, terminated, runHandles, bff, lost>>

\* A handler runs in the server that started the child.
Delivered(r) ==
  /\ bff # "down" /\ r \notin lost
  /\ process' = [process EXCEPT ![r] = "reaped"]
  /\ runHandles' = runHandles \ {r}
  /\ UNCHANGED <<output, terminated, bff, lost>>

ErrorEvent(r) ==
  /\ process[r] = "noSpawn" /\ Delivered(r)
  /\ runRow' = IF bff = "up" /\ runRow[r].status \in Open
               THEN [runRow EXCEPT ![r].status = "failed"] ELSE runRow

\* Faulty variant: the exit has the last word, also over a cancellation.
SettledAlways(r) == [Ticked(r) EXCEPT !.status = ExitOf[process[r]]]

Settled(r) == IF runRow[r].status = "cancelled" THEN runRow[r]
              ELSE [Ticked(r) EXCEPT !.status = ExitOf[process[r]]]

ExitEvent(r) ==
  /\ process[r] \in DOMAIN ExitOf /\ Delivered(r)
  /\ runRow' = IF bff = "up" THEN [runRow EXCEPT ![r] = Settled(r)] ELSE runRow

\* proc.kill does nothing to a child that has ended.
Killed(rs) == terminated \cup {r \in rs : process[r] = "running"}

\* POST /sts/runs/:runId/cancel: the row is cancelled whatever the signal does.
Cancel(r) ==
  /\ bff # "down" /\ runRow[r].status \in Open
  /\ terminated' = Killed(runHandles \cap {r})
  /\ runRow' = [runRow EXCEPT ![r].status = "cancelled"]
  /\ UNCHANGED <<process, output, runHandles, bff, lost>>

\* onClose: from here on no event writes a row.
CloseBegins ==
  /\ bff = "up"
  /\ bff' = "closing"
  /\ terminated' = Killed(runHandles)
  /\ UNCHANGED <<runRow, process, output, runHandles, lost>>

\* The 200 ms are over, or a crash: what still runs is nobody's.
Gone ==
  /\ bff # "down"
  /\ bff' = "down"
  /\ runHandles' = {}
  /\ lost' = {r \in Runs : runRow[r].status # "none"}
  /\ UNCHANGED <<runRow, process, output, terminated>>

\* No row is looked at when the server starts.
Boot ==
  /\ bff = "down"
  /\ bff' = "up"
  /\ UNCHANGED <<runRow, process, output, terminated, runHandles, lost>>

RunsStep ==
  \/ CloseBegins \/ Gone \/ Boot
  \/ \E r \in Runs : \/ StartRun(r) \/ TickProgress(r) \/ WriteTurn(r) \/ ProcessEnds(r)
                     \/ ErrorEvent(r) \/ ExitEvent(r) \/ Cancel(r)

RunsSpec == RunsInit /\ [][RunsStep]_runVars

-----------------------------------------------------------------------------
(* Properties *)

RunsTypeOK ==
  /\ runRow \in [Runs -> [status : {"none"} \cup Open \cup Ended, turns : 0..MaxTurns]]
  /\ process \in [Runs -> {"none", "running", "noSpawn", "reaped"} \cup DOMAIN ExitOf]
  /\ output \in [Runs -> 0..MaxTurns]
  /\ terminated \subseteq Runs /\ runHandles \subseteq Runs /\ lost \subseteq Runs
  /\ bff \in {"up", "closing", "down"}

\* While its server lives, a child that runs can be reached by a cancellation, a
\* cancelled one was told to end, and a row is running only as long as an event
\* of its child is still to come. A run that succeeded reports all its turns.
\* Rows of a server that closed or crashed stay open for ever (lost).
RunsAccounted ==
  \A r \in Runs :
    /\ process[r] = "running" /\ r \notin lost => r \in runHandles
    /\ process[r] = "running" /\ r \notin lost /\ runRow[r].status = "cancelled"
         => r \in terminated
    /\ runRow[r].status = "running" /\ r \notin lost /\ bff = "up"
         => r \in runHandles \/ process[r] = "noSpawn"
    /\ runRow[r].status = "succeeded" => runRow[r].turns = output[r]

\* A run that ended keeps its status and its count, whatever event of its child,
\* cancellation or tick comes late, and whatever server it comes to.
EndedForGood ==
  [][\A r \in Runs : runRow[r].status \in Ended => runRow'[r] = runRow[r]]_runVars
=============================================================================

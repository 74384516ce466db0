---------------------------- MODULE DaemonClient ----------------------------
(***************************************************************************)
(* The two clients over stdio that are not the gateway's: that of the      *)
(* console back end (createStdioDaemonClient), which has ONE transport and *)
(* connects it lazily, and the trio of the orchestrator (connectAll,       *)
(* disconnectAll), three processes joined by Promise.all.                  *)
(***************************************************************************)
EXTENDS Naturals

CONSTANTS Requests,   \* concurrent calls of the console to the daemon
          Servers     \* planejador, motor-drota, motor-execucao

VARIABLES
  transport,   \* the one transport of the client: "idle", "starting", "started"
  dcConnected, \* connected
  dcJoining,   \* connectingPromise is not null
  request,     \* what each call awaits
  closing,     \* close() awaits client.close()
  twice,       \* history: a transport was started that was not idle
  server,      \* the process of each server of the trio
  trio         \* the promise of connectAll, then of disconnectAll

consoleVars == <<transport, dcConnected, dcJoining, request, closing, twice>>
trioVars    == <<server, trio>>
dcVars      == <<transport, dcConnected, dcJoining, request, closing, twice, server, trio>>

DcInit ==
  /\ transport = "idle"
  /\ dcConnected = FALSE
  /\ dcJoining = FALSE
  /\ request = [r \in Requests |-> "idle"]
  /\ closing = FALSE
  /\ twice = FALSE
  /\ server = [s \in Servers |-> "none"]
  /\ trio = "none"

\* What becomes of the calls that wait in ensureConnected().
Waiting(becomes) == [r \in Requests |-> IF request[r] = "waiting" THEN becomes ELSE request[r]]

-----------------------------------------------------------------------------
(* The console back end *)

\* callTool() begins with ensureConnected(). connect() on a transport that is
\* not idle throws.
EnsureConnected(r) ==
  /\ request[r] = "idle"
  /\ \/ /\ dcConnected
        /\ request' = [request EXCEPT ![r] = "calling"]
        /\ UNCHANGED <<transport, dcJoining, twice>>
     \/ /\ ~dcConnected /\ dcJoining
        /\ request' = [request EXCEPT ![r] = "waiting"]
        /\ UNCHANGED <<transport, dcJoining, twice>>
     \/ /\ ~dcConnected /\ ~dcJoining /\ transport = "idle"
        /\ request' = [request EXCEPT ![r] = "waiting"]
        /\ transport' = "starting"
        /\ dcJoining' = TRUE
        /\ UNCHANGED twice
     \/ /\ ~dcConnected /\ ~dcJoining /\ transport # "idle"
        /\ twice' = TRUE
        /\ UNCHANGED <<request, transport, dcJoining>>
  /\ UNCHANGED <<dcConnected, closing, trioVars>>

DaemonConnects ==
  /\ dcJoining
  /\ transport' = "started"
  /\ dcConnected' = TRUE
  /\ dcJoining' = FALSE
  /\ request' = Waiting("calling")
  /\ UNCHANGED <<closing, twice, trioVars>>

DaemonConnectFails ==
  /\ dcJoining
  /\ transport' = "idle"
  /\ dcJoining' = FALSE
  /\ request' = Waiting("idle")
  /\ UNCHANGED <<dcConnected, closing, twice, trioVars>>

RequestSettles(r) ==
  /\ request[r] = "calling"
  /\ request' = [request EXCEPT ![r] = "idle"]
  /\ UNCHANGED <<transport, dcConnected, dcJoining, closing, twice, trioVars>>

\* connected stays TRUE: every later call fails, until somebody closes.
DaemonDies ==
  /\ transport = "started"
  /\ transport' = "idle"
  /\ UNCHANGED <<dcConnected, dcJoining, request, closing, twice, trioVars>>

\* close() while the client connects, or before, does nothing.
CloseDaemonClient ==
  /\ dcConnected
  /\ ~closing
  /\ closing' = TRUE
  /\ transport' = "idle"
  /\ UNCHANGED <<dcConnected, dcJoining, request, twice, trioVars>>

DaemonClientClosed ==
  /\ closing
  /\ closing' = FALSE
  /\ dcConnected' = FALSE
  /\ UNCHANGED <<transport, dcJoining, request, twice, trioVars>>

-----------------------------------------------------------------------------
(* The trio of the orchestrator *)

\* connectAll() starts the three processes.
ConnectAll ==
  /\ trio \in {"none", "closed"}
  /\ \A s \in Servers : server[s] = "none"
  /\ trio' = "connecting"
  /\ server' = [s \in Servers |-> "starting"]
  /\ UNCHANGED consoleVars

\* One of them connects; the last one resolves the promise, if it is pending.
ServerConnects(s) ==
  /\ server[s] = "starting"
  /\ server' = [server EXCEPT ![s] = "up"]
  /\ trio' = IF trio = "connecting" /\ \A t \in Servers \ {s} : server[t] = "up"
             THEN "ready" ELSE trio
  /\ UNCHANGED consoleVars

\* One does not: the promise rejects at once, and nobody holds the others.
ServerConnectFails(s) ==
  /\ server[s] = "starting"
  /\ server' = [server EXCEPT ![s] = "none"]
  /\ trio' = "failed"
  /\ UNCHANGED consoleVars

\* disconnectAll() closes the three at once.
DisconnectAll ==
  /\ trio = "ready"
  /\ trio' = "disconnecting"
  /\ server' = [s \in Servers |-> "closing"]
  /\ UNCHANGED consoleVars

ServerCloses(s) ==
  /\ server[s] = "closing"
  /\ server' = [server EXCEPT ![s] = "none"]
  /\ trio' = IF \A t \in Servers \ {s} : server[t] = "none" THEN "closed" ELSE trio
  /\ UNCHANGED consoleVars

DcStep ==
  \/ DaemonConnects \/ DaemonConnectFails \/ DaemonDies
  \/ CloseDaemonClient \/ DaemonClientClosed
  \/ \E r \in Requests : EnsureConnected(r) \/ RequestSettles(r)
  \/ ConnectAll \/ DisconnectAll
  \/ \E s \in Servers : ServerConnects(s) \/ ServerConnectFails(s) \/ ServerCloses(s)

DcSpec == DcInit /\ [][DcStep]_dcVars

-----------------------------------------------------------------------------
(* Properties *)

DcTypeOK ==
  /\ transport \in {"idle", "starting", "started"}
  /\ dcConnected \in BOOLEAN /\ dcJoining \in BOOLEAN
  /\ request \in [Requests -> {"idle", "waiting", "calling"}]
  /\ closing \in BOOLEAN /\ twice \in BOOLEAN
  /\ server \in [Servers -> {"none", "starting", "up", "closing"}]
  /\ trio \in {"none", "connecting", "ready", "failed", "disconnecting", "closed"}

\* The console never starts its transport twice, which would fail for good,
\* though requests, deaths of the daemon and one close() interleave.
TransportStartedOnce == ~twice

\* A process of the trio outlives the promises only when connectAll failed.
TrioOwned ==
  (\E s \in Servers : server[s] # "none") => trio \notin {"none", "closed"}
=============================================================================

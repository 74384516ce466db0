---------------------------- MODULE GatewayClient ----------------------------
(***************************************************************************)
(* The client of the LLM gateway in shared/: one child process, spawned at *)
(* the first callGateway() and shared by all calls of the process, and     *)
(* closeGateway(). The calls are concurrent: each await is a step.         *)
(***************************************************************************)
EXTENDS Naturals

CONSTANTS GwCallers,   \* concurrent calls of callGateway()
          GwClosers,   \* concurrent calls of closeGateway()
          Procs,       \* names for the gateway processes that exist at a time
          NoProc

ASSUME GatewayAssumption == NoProc \notin Procs

VARIABLES
  gwProc,       \* state of each gateway process
  gwClient,     \* _client, by the process it talks to
  gwConnecting, \* _connecting
  gwCall,       \* what each call awaits: a connection, or its answer
  gwClose,      \* the process each closeGateway() awaits the end of
  gwOverlapped  \* history: two closeGateway() calls awaited one process

gwVars == <<gwProc, gwClient, gwConnecting, gwCall, gwClose, gwOverlapped>>

NoCall == [at |-> "idle", proc |-> NoProc]

GwInit ==
  /\ gwProc = [p \in Procs |-> "none"]
  /\ gwClient = NoProc
  /\ gwConnecting = NoProc
  /\ gwCall = [c \in GwCallers |-> NoCall]
  /\ gwClose = [k \in GwClosers |-> NoProc]
  /\ gwOverlapped = FALSE

\* callGateway(): the client there is, the connection under way, or a new one.
UseClient(c) ==
  /\ gwCall[c] = NoCall
  /\ gwClient # NoProc
  /\ gwCall' = [gwCall EXCEPT ![c] = [at |-> "calling", proc |-> gwClient]]
  /\ UNCHANGED <<gwProc, gwClient, gwConnecting, gwClose, gwOverlapped>>

JoinConnecting(c) ==
  /\ gwCall[c] = NoCall
  /\ gwClient = NoProc
  /\ gwConnecting # NoProc
  /\ gwCall' = [gwCall EXCEPT ![c] = [at |-> "connecting", proc |-> gwConnecting]]
  /\ UNCHANGED <<gwProc, gwClient, gwConnecting, gwClose, gwOverlapped>>

\* Faulty variant: the connection under way is not looked at.
SpawnEach(c, p) ==
  /\ gwCall[c] = NoCall
  /\ gwClient = NoProc
  /\ gwProc[p] = "none"
  /\ gwProc' = [gwProc EXCEPT ![p] = "starting"]
  /\ gwConnecting' = p
  /\ gwCall' = [gwCall EXCEPT ![c] = [at |-> "connecting", proc |-> p]]
  /\ UNCHANGED <<gwClient, gwClose, gwOverlapped>>

Spawn(c, p) ==
  /\ gwCall[c] = NoCall
  /\ gwClient = NoProc
  /\ gwConnecting = NoProc
  /\ gwProc[p] = "none"
  /\ gwProc' = [gwProc EXCEPT ![p] = "starting"]
  /\ gwConnecting' = p
  /\ gwCall' = [gwCall EXCEPT ![c] = [at |-> "connecting", proc |-> p]]
  /\ UNCHANGED <<gwClient, gwClose, gwOverlapped>>

\* connect() settles, for the caller that spawned and for those that joined.
GwConnects(p) ==
  /\ gwConnecting = p
  /\ gwProc' = [gwProc EXCEPT ![p] = "up"]
  /\ gwClient' = p
  /\ gwConnecting' = NoProc
  /\ gwCall' = [c \in GwCallers |-> IF gwCall[c] = [at |-> "connecting", proc |-> p]
                                    THEN [at |-> "calling", proc |-> p]
                                    ELSE gwCall[c]]
  /\ UNCHANGED <<gwClose, gwOverlapped>>

GwConnectFails(p) ==
  /\ gwConnecting = p
  /\ gwProc' = [gwProc EXCEPT ![p] = "none"]
  /\ gwConnecting' = NoProc
  /\ gwCall' = [c \in GwCallers |-> IF gwCall[c] = [at |-> "connecting", proc |-> p]
                                    THEN NoCall ELSE gwCall[c]]
  /\ UNCHANGED <<gwClient, gwClose, gwOverlapped>>

\* An answer, an error of the gateway, or that of a client that is gone.
GwCallSettles(c) ==
  /\ gwCall[c].at = "calling"
  /\ gwCall' = [gwCall EXCEPT ![c] = NoCall]
  /\ UNCHANGED <<gwProc, gwClient, gwConnecting, gwClose, gwOverlapped>>

\* The process dies; _client stays, and every later call fails.
GatewayDies(p) ==
  /\ gwProc[p] = "up"
  /\ gwProc' = [gwProc EXCEPT ![p] = "none"]
  /\ UNCHANGED <<gwClient, gwConnecting, gwCall, gwClose, gwOverlapped>>

\* closeGateway() without a client, also while one connects, does nothing.
CloseGateway(k) ==
  /\ gwClose[k] = NoProc
  /\ gwClient # NoProc
  /\ gwClose' = [gwClose EXCEPT ![k] = gwClient]
  /\ gwProc' = [gwProc EXCEPT ![gwClient] = "none"]
  /\ gwOverlapped' = (gwOverlapped \/ \E j \in GwClosers : gwClose[j] # NoProc)
  /\ UNCHANGED <<gwClient, gwConnecting, gwCall>>

\* The await of _client.close() is over; its failure is swallowed.
GatewayClosed(k) ==
  /\ gwClose[k] # NoProc
  /\ gwClose' = [gwClose EXCEPT ![k] = NoProc]
  /\ gwClient' = NoProc
  /\ UNCHANGED <<gwProc, gwConnecting, gwCall, gwOverlapped>>

GwStep ==
  \/ \E c \in GwCallers : \/ UseClient(c) \/ JoinConnecting(c) \/ GwCallSettles(c)
                          \/ \E p \in Procs : Spawn(c, p)
  \/ \E p \in Procs : GwConnects(p) \/ GwConnectFails(p) \/ GatewayDies(p)
  \/ \E k \in GwClosers : CloseGateway(k) \/ GatewayClosed(k)

GwSpec == GwInit /\ [][GwStep]_gwVars

-----------------------------------------------------------------------------
(* Properties *)

GwTypeOK ==
  /\ gwProc \in [Procs -> {"none", "starting", "up"}]
  /\ gwClient \in Procs \cup {NoProc}
  /\ gwConnecting \in Procs \cup {NoProc}
  /\ gwCall \in [GwCallers -> [at : {"idle", "connecting", "calling"},
                               proc : Procs \cup {NoProc}]]
  /\ gwClose \in [GwClosers -> Procs \cup {NoProc}]
  /\ gwOverlapped \in BOOLEAN

\* "singleton (1 spawn por processo Node)" (gateway-client.ts:130): however the
\* calls, failures and closes interleave, the only process that runs is the one
\* connecting or the one of _client, so a later closeGateway() reaches it.
\* Two closeGateway() calls at once break it: the second forgets the client a
\* call connected after the first.
OneGateway ==
  gwOverlapped \/ /\ \A p \in Procs : gwProc[p] # "none" => p \in {gwClient, gwConnecting}
                  /\ gwConnecting # NoProc => gwClient = NoProc
=============================================================================

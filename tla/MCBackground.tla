---------------------------- MODULE MCBackground -----------------------------
(***************************************************************************)
(* What runs beside the turns, for TLC: the WhatsApp socket, the card      *)
(* cache, the LLM gateway, the daemon of the console, the trio of MCP      *)
(* clients, the scheduler of the hooks, the runs the console launches, its *)
(* index of the traces and its live view of a session. They share no       *)
(* variable, so a behaviour is one of a single component, chosen in Init:  *)
(* the states add up instead of multiplying.                               *)
(***************************************************************************)
EXTENDS BaileysChannel, CardsLoader, GatewayClient, DaemonClient, TemporalScheduler,
        StsRuns, TraceIndex, TurnStream

CONSTANTS ana, bia  \* the personas of the scheduler

\* Ana is asleep in the slots 3 and 0 and at school in 1; her window needs consent.
\* Bia lives an hour ahead, and her window goes past midnight, on one day a week.
SchedulerConfig ==
  [p \in {ana, bia} |->
     IF p = ana
     THEN [offset |-> 0,
           sleep |-> [start |-> 3, end |-> 1], school |-> [start |-> 1, end |-> 2],
           entries |-> <<[start |-> 1, end |-> 3, weekdays |-> {0, 1},
                          maxPerDay |-> 2, requiresConsent |-> TRUE]>>]
     ELSE [offset |-> 1,
           sleep |-> [start |-> 1, end |-> 2], school |-> [start |-> 0, end |-> 0],
           entries |-> <<[start |-> 2, end |-> 1, weekdays |-> {0},
                          maxPerDay |-> 1, requiresConsent |-> FALSE]>>]]

SchedulerWindows == <<ana, bia>>

VARIABLE component

vars == <<component, channelVars, loaderVars, gwVars, dcVars, schedVars, runVars,
          traceVars, streamVars>>

Init ==
  /\ component \in {"channel", "loader", "gateway", "daemonClient", "scheduler", "runs",
                   "traces", "stream"}
  /\ ChannelInit /\ LoaderInit /\ GwInit /\ DcInit /\ SchedInit /\ RunsInit /\ TraceInit
  /\ StreamInit
  /\ component # "loader" => file = [c \in CardIds |-> 0]
  /\ component # "traces" => traceFile = [f \in Files |-> 0]
                            /\ scan[CHOOSE s \in Scans : TRUE].todo = Files
                            /\ watching

Channel == component = "channel" /\ ChannelStep
  /\ UNCHANGED <<component, loaderVars, gwVars, dcVars, schedVars, runVars, traceVars,
                 streamVars>>

Loader == component = "loader" /\ LoaderStep
  /\ UNCHANGED <<component, channelVars, gwVars, dcVars, schedVars, runVars, traceVars,
                 streamVars>>

Gateway == component = "gateway" /\ GwStep
  /\ UNCHANGED <<component, channelVars, loaderVars, dcVars, schedVars, runVars,
                 traceVars, streamVars>>

Clients == component = "daemonClient" /\ DcStep
  /\ UNCHANGED <<component, channelVars, loaderVars, gwVars, schedVars, runVars,
                 traceVars, streamVars>>

Scheduler == component = "scheduler" /\ SchedStep
  /\ UNCHANGED <<component, channelVars, loaderVars, gwVars, dcVars, runVars, traceVars,
                 streamVars>>

RunsOf == component = "runs" /\ RunsStep
  /\ UNCHANGED <<component, channelVars, loaderVars, gwVars, dcVars, schedVars,
                 traceVars, streamVars>>

Traces == component = "traces" /\ TraceStep
  /\ UNCHANGED <<component, channelVars, loaderVars, gwVars, dcVars, schedVars, runVars,
                 streamVars>>

Live == component = "stream" /\ StreamStep
  /\ UNCHANGED <<component, channelVars, loaderVars, gwVars, dcVars, schedVars, runVars,
                 traceVars>>

Next == Channel \/ Loader \/ Gateway \/ Clients \/ Scheduler \/ RunsOf \/ Traces \/ Live

\* ChannelFairness, SchedFairness and StreamFairness, each of the behaviours of its
\* component.
Fairness ==
  /\ WF_vars(Channel /\ ReconnectTimer)
  /\ WF_vars(Channel /\ (LoadRejected \/ \E s \in Sockets : SocketMade(s)))
  /\ WF_vars(Scheduler /\ ~ticked /\ StartTick)
  /\ WF_vars(Scheduler /\ TickStep)
  /\ SF_vars(Scheduler /\ TimePasses)
  /\ WF_vars(Live /\ OpenStream) /\ WF_vars(Live /\ Poll)
  /\ WF_vars(Live /\ Reopen) /\ WF_vars(Live /\ Receive)

Spec == Init /\ [][Next]_vars /\ Fairness

-----------------------------------------------------------------------------
TypeOK == ChannelTypeOK /\ LoaderTypeOK /\ GwTypeOK /\ DcTypeOK /\ SchedTypeOK
          /\ RunsTypeOK /\ TraceTypeOK /\ StreamTypeOK

\* The line of the channel: one attempt, timer or socket at a time carries it, and
\* what is recorded as connected is open (BaileysChannel).
ChannelKept == LinesAccounted /\ ConnectedIsOpen

\* No process runs that nobody can end: that of a client (GatewayClient,
\* DaemonClient), started once, and the child of a run (StsRuns), for whose row an
\* event is still to come.
ProcessesOwned == OneGateway /\ TransportStartedOnce /\ TrioOwned /\ RunsAccounted

\* What is kept elsewhere is what its source holds, unless a read was overtaken: the
\* cards in the cache (CardsLoader), the index of the traces (TraceIndex) and the
\* snapshot on the operator's page (TurnStream).
CachesFresh == StaleOnlyIfOvertaken /\ RestsOnFiles /\ PageFollows

\* A line that breaks comes back: that of the channel (BaileysChannel), and the
\* stream to the page, which then shows the turn (TurnStream).
LinesComeBack == LineComesBack /\ EventsReachPage
=============================================================================

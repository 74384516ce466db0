--------------------------- MODULE BaileysChannel ---------------------------
(***************************************************************************)
(* The WhatsApp channel of motor-channels: its socket, the reconnection    *)
(* after a close and the races of both with start() and stop().            *)
(*                                                                         *)
(* A LINE is what one start() sets going: a connectSocket in flight, then  *)
(* a socket, then the timer of a reconnection, then a connectSocket again. *)
(* The code never names it; the properties are about how many there are.   *)
(* A socket that has closed is garbage, so its name is used again.         *)
(***************************************************************************)
EXTENDS Naturals, FiniteSets

CONSTANTS Sockets,    \* names for the sockets that may exist at one time
          NoSocket,   \* sock === null
          MaxStarts   \* BOUND: calls of start()

\* A name is free whenever a line wants to make a socket.
ASSUME ChannelAssumption == /\ NoSocket \notin Sockets
                            /\ IsFiniteSet(Sockets)
                            /\ MaxStarts \in Nat
                            /\ MaxStarts <= Cardinality(Sockets)

VARIABLES
  socket,     \* what became of each socket: "none" before and after its life
  sock,       \* the variable the channel sends on; it outlives its socket
  connected,  \* what status() and the last ConnectionChanged say
  stopped,    \* the flag of stop()
  loading,    \* connectSocket calls that await the auth state and the version
  timers,     \* reconnections that wait for their delay
  starts,     \* history: calls of start()
  ended       \* history: how many lines ended, and how

channelVars == <<socket, sock, connected, stopped, loading, timers, starts, ended>>

Endings == {"loadFailed", "loggedOut", "stopped"}

\* The sockets that have not closed; stop() makes one "ending".
Unclosed == {s \in Sockets : socket[s] # "none"}

LineEnds(how) == ended' = [ended EXCEPT ![how] = @ + 1]

ChannelInit ==
  /\ socket = [s \in Sockets |-> "none"]
  /\ sock = NoSocket
  /\ connected = FALSE
  /\ stopped = FALSE
  /\ loading = 0
  /\ timers = 0
  /\ starts = 0
  /\ ended = [how \in Endings |-> 0]

-----------------------------------------------------------------------------

StartChannel ==
  /\ starts < MaxStarts
  /\ starts' = starts + 1
  /\ stopped' = FALSE
  /\ loading' = loading + 1
  /\ UNCHANGED <<socket, sock, connected, timers, ended>>

\* The awaits of connectSocket are over. It does not look at stopped: a
\* socket is made, and becomes the channel's, after a stop() too.
SocketMade(s) ==
  /\ loading > 0
  /\ socket[s] = "none"
  /\ loading' = loading - 1
  /\ socket' = [socket EXCEPT ![s] = "new"]
  /\ sock' = s
  /\ UNCHANGED <<connected, stopped, timers, starts, ended>>

\* The auth state or the version cannot be had: start() rejects, and a
\* reconnection writes to the log. Neither is tried again.
LoadRejected ==
  /\ loading > 0
  /\ loading' = loading - 1
  /\ LineEnds("loadFailed")
  /\ UNCHANGED <<socket, sock, connected, stopped, timers, starts>>

\* connection.update "open", of whichever socket.
SocketOpens(s) ==
  /\ socket[s] = "new"
  /\ socket' = [socket EXCEPT ![s] = "open"]
  /\ connected' = TRUE
  /\ UNCHANGED <<sock, stopped, loading, timers, starts, ended>>

\* Faulty variant: only the socket the channel sends on is reported closed.
SocketClosesOfOwn(s, loggedOut) ==
  /\ socket[s] # "none"
  /\ socket' = [socket EXCEPT ![s] = "none"]
  /\ connected' = (connected /\ s # sock)
  /\ IF stopped \/ loggedOut
     THEN /\ LineEnds(IF loggedOut THEN "loggedOut" ELSE "stopped")
          /\ UNCHANGED timers
     ELSE /\ timers' = timers + 1
          /\ UNCHANGED ended
  /\ UNCHANGED <<sock, stopped, loading, starts>>

\* connection.update "close": of the network, of WhatsApp, of a logout on the
\* telephone, or of the end() of stop(), whose event may come after a start().
SocketCloses(s, loggedOut) ==
  /\ socket[s] # "none"
  /\ socket' = [socket EXCEPT ![s] = "none"]
  /\ connected' = FALSE
  /\ IF stopped \/ loggedOut
     THEN /\ LineEnds(IF loggedOut THEN "loggedOut" ELSE "stopped")
          /\ UNCHANGED timers
     ELSE /\ timers' = timers + 1
          /\ UNCHANGED ended
  /\ UNCHANGED <<sock, stopped, loading, starts>>

\* Faulty variants: setInterval for setTimeout; no look at stopped when the
\* timer fires; a look at connected, which the close has made false.
ReconnectTimerRepeats ==
  /\ timers > 0
  /\ IF stopped
     THEN timers' = timers - 1 /\ LineEnds("stopped") /\ UNCHANGED loading
     ELSE loading' = loading + 1 /\ UNCHANGED <<timers, ended>>
  /\ UNCHANGED <<socket, sock, connected, stopped, starts>>

ReconnectTimerUnchecked ==
  /\ timers > 0
  /\ timers' = timers - 1
  /\ loading' = loading + 1
  /\ UNCHANGED <<socket, sock, connected, stopped, starts, ended>>

ReconnectTimerIfConnected ==
  /\ timers > 0
  /\ timers' = timers - 1
  /\ loading' = IF connected THEN loading + 1 ELSE loading
  /\ UNCHANGED <<socket, sock, connected, stopped, starts, ended>>

\* The delay of a reconnection is over.
ReconnectTimer ==
  /\ timers > 0
  /\ timers' = timers - 1
  /\ IF stopped
     THEN LineEnds("stopped") /\ UNCHANGED loading
     ELSE loading' = loading + 1 /\ UNCHANGED ended
  /\ UNCHANGED <<socket, sock, connected, stopped, starts>>

StopChannel ==
  /\ stopped' = TRUE
  /\ socket' = [s \in Sockets |-> IF s = sock /\ s \in Unclosed THEN "ending" ELSE socket[s]]
  /\ sock' = NoSocket
  /\ connected' = FALSE
  /\ UNCHANGED <<loading, timers, starts, ended>>

ChannelStep == \/ StartChannel \/ StopChannel
               \/ LoadRejected \/ ReconnectTimer
               \/ \E s \in Sockets : \/ SocketMade(s) \/ SocketOpens(s)
                                      \/ \E loggedOut \in BOOLEAN : SocketCloses(s, loggedOut)

\* Timers fire, and the reads and the version fetch of connectSocket settle.
ChannelFairness ==
  /\ WF_channelVars(ReconnectTimer)
  /\ WF_channelVars(LoadRejected \/ \E s \in Sockets : SocketMade(s))

ChannelSpec == ChannelInit /\ [][ChannelStep]_channelVars /\ ChannelFairness

-----------------------------------------------------------------------------
(* Properties *)

ChannelTypeOK ==
  /\ socket \in [Sockets -> {"none", "new", "open", "ending"}]
  /\ sock \in Sockets \cup {NoSocket}
  /\ connected \in BOOLEAN
  /\ stopped \in BOOLEAN
  /\ loading \in Nat
  /\ timers \in Nat
  /\ starts \in 0..MaxStarts
  /\ ended \in [Endings -> Nat]

Lines == loading + timers + Cardinality(Unclosed)

Lost == ended["loadFailed"] + ended["loggedOut"] + ended["stopped"]

\* Every start() sets one line going, and a line that is not going on ended in
\* one of three ways: a connectSocket that failed, a logout, a stop. A close
\* never starts a second line, and never ends one that should come back
\* (baileys-channel.ts, the handlers of connectSocket). With the one start()
\* of main.ts there is never more than one socket.
LinesAccounted == Lines + Lost = starts

\* The channel reports a connection only while a socket is open, whichever
\* sockets open, close and end meanwhile (emitConnectionChange).
ConnectedIsOpen == connected => \E s \in Sockets : socket[s] = "open"

\* stop() is "sem reconnect": while the channel stays stopped no connectSocket
\* begins, though a timer set before the stop may fire after it.
QuietWhileStopped ==
  [][stopped /\ stopped' => loading' <= loading]_channelVars

\* A channel that waits for a reconnection gets a socket again, unless it is
\* stopped or the one attempt there is fails.
LineComesBack == (timers > 0) ~> (Unclosed # {} \/ stopped \/ Lost > 0)
=============================================================================

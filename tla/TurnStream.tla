----------------------------- MODULE TurnStream -----------------------------
(***************************************************************************)
(* The live view of a session: the daemon buffers the events of its turns  *)
(* (orchestrator/src/daemon.ts), a stream of the console's server polls    *)
(* them and writes them to an event source                                 *)
(* (ebrota-console-bff/src/server.ts:264-317), and the page folds them     *)
(* into the snapshot of the current turn (ebrota-console-ui,               *)
(* turn-state-stream.ts, types.ts:applyTurnEvent). A poll or a line may    *)
(* fail, the browser opens the stream again, and the daemon may be stopped *)
(* and started.                                                            *)
(***************************************************************************)
EXTENDS Naturals, Sequences

CONSTANTS
    TurnNumbers,    \* state.turn of the turns, counted from 1
    TurnPhases,     \* types of a TurnStateEvent
    BufferCap,      \* TURN_EVENT_BUFFER_CAP
    MaxPushed,      \* bound: events of the session
    MaxFailures,    \* bound: failed polls and lost lines
    MaxStops        \* bound: restarts of the daemon

ASSUME StreamAssumption ==
    /\ TurnNumbers \subseteq Nat \ {0} /\ BufferCap \in Nat \ {0}
    /\ {MaxPushed, MaxFailures, MaxStops} \subseteq Nat

VARIABLES
    bucket,      \* events and totalEmitted of the session; no events: no bucket
    pushedCount, \* events so far; each bears its number
    line,        \* the stream: "opening", "polling", or "ended" by the server
    nextIndex,   \* what the stream asks for next
    wire,        \* written and not yet received
    shown,       \* currentTurnSnapshot
    troubles,      \* [failures, stops] so far
    stale        \* history: "index" once a stop made nextIndex one of a bucket that is
                 \* gone, "missed" once events were skipped for it

streamVars == <<bucket, pushedCount, line, nextIndex, wire, shown, troubles, stale>>

NoTurn == [turn |-> 0, last |-> 0, fields |-> [p \in TurnPhases |-> 0]]
EmptyStream == [events |-> <<>>, totalEmitted |-> 0]
Failure == [turn |-> 0, phase |-> "error", number |-> 0]

StreamInit ==
    /\ bucket = EmptyStream /\ pushedCount = 0
    /\ line = "opening" /\ nextIndex = 0 /\ wire = <<>>
    /\ shown = NoTurn
    /\ troubles = [failures |-> 0, stops |-> 0]
    /\ stale = "no"

\* pushTurnEvent; overlapping turns of the session push in any order.
PushEvent(turn, phase) ==
    /\ pushedCount < MaxPushed
    /\ pushedCount' = pushedCount + 1
    /\ LET grown == Append(bucket.events,
                           [turn |-> turn, phase |-> phase, number |-> pushedCount'])
           over == IF Len(grown) > BufferCap THEN Len(grown) - BufferCap ELSE 0
       IN  bucket' = [events |-> SubSeq(grown, over + 1, Len(grown)),
                      totalEmitted |-> bucket.totalEmitted + 1]
    /\ UNCHANGED <<line, nextIndex, wire, shown, troubles, stale>>

\* stop() clears the buffers; the daemon is started again.
DaemonRestarts ==
    /\ troubles.stops < MaxStops
    /\ troubles' = [troubles EXCEPT !.stops = @ + 1]
    /\ bucket' = EmptyStream
    /\ stale' = IF line = "polling" /\ nextIndex > 0 /\ stale = "no"
                THEN "index" ELSE stale
    /\ UNCHANGED <<pushedCount, line, nextIndex, wire, shown>>

\* subscribeTurnState
Since(index) ==
    LET first == bucket.totalEmitted - Len(bucket.events)
        start == IF index > first THEN index - first ELSE 0
    IN  SubSeq(bucket.events, start + 1, Len(bucket.events))

\* The initial snapshot and the polls of a stream. A failed snapshot is told to the
\* page, and the stream polls on from the start.
OpenStream ==
    /\ line = "opening"
    /\ line' = "polling" /\ stale' = "no"
    /\ wire' = Since(0) /\ nextIndex' = bucket.totalEmitted
    /\ UNCHANGED <<bucket, pushedCount, shown, troubles>>

Fails ==
    /\ troubles.failures < MaxFailures
    /\ troubles' = [troubles EXCEPT !.failures = @ + 1]

OpenFails ==
    /\ line = "opening" /\ Fails
    /\ line' = "polling" /\ stale' = "no"
    /\ wire' = <<Failure>> /\ nextIndex' = 0
    /\ UNCHANGED <<bucket, pushedCount, shown>>

Poll ==
    /\ line = "polling"
    /\ wire' = wire \o Since(nextIndex)
    /\ nextIndex' = bucket.totalEmitted
    /\ stale' = IF stale = "index" THEN IF bucket.events = <<>> THEN "no" ELSE "missed"
                ELSE stale
    /\ UNCHANGED <<bucket, pushedCount, line, shown, troubles>>

\* Faulty variant: the stream goes on after it told of the failure.
PollFailsOn ==
    /\ line = "polling" /\ Fails
    /\ wire' = Append(wire, Failure)
    /\ UNCHANGED <<bucket, pushedCount, line, nextIndex, shown, stale>>

\* A failed poll is told to the page, and ends the stream.
PollFails ==
    /\ line = "polling" /\ Fails
    /\ wire' = Append(wire, Failure)
    /\ line' = "ended"
    /\ UNCHANGED <<bucket, pushedCount, nextIndex, shown, stale>>

\* The line is lost, with what is on it.
LineLost ==
    /\ line # "opening" /\ Fails
    /\ line' = "opening" /\ wire' = <<>>
    /\ UNCHANGED <<bucket, pushedCount, nextIndex, shown, stale>>

\* The event source of the browser opens a stream that ended anew.
Reopen ==
    /\ line = "ended" /\ wire = <<>>
    /\ line' = "opening"
    /\ UNCHANGED <<bucket, pushedCount, nextIndex, wire, shown, troubles, stale>>

\* applyTurnEvent: another turn starts the snapshot anew. A failure bears no turn.
Apply(event, snapshot) ==
    LET base == IF snapshot.turn = event.turn THEN snapshot
                ELSE [NoTurn EXCEPT !.turn = event.turn]
    IN  IF event = Failure THEN NoTurn
        ELSE [base EXCEPT !.last = event.number, !.fields[event.phase] = event.number]

Receive ==
    /\ wire # <<>>
    /\ shown' = Apply(Head(wire), shown)
    /\ wire' = Tail(wire)
    /\ UNCHANGED <<bucket, pushedCount, line, nextIndex, troubles, stale>>

StreamStep ==
    \/ \E turn \in TurnNumbers, phase \in TurnPhases : PushEvent(turn, phase)
    \/ DaemonRestarts
    \/ OpenStream \/ OpenFails \/ Poll \/ PollFails \/ LineLost \/ Reopen \/ Receive

\* The timer of the poll runs, the browser opens its event source again, and what is
\* written arrives.
StreamFairness ==
    WF_streamVars(OpenStream) /\ WF_streamVars(Poll) /\ WF_streamVars(Reopen)
      /\ WF_streamVars(Receive)

StreamSpec == StreamInit /\ [][StreamStep]_streamVars /\ StreamFairness

-----------------------------------------------------------------------------
(* Properties *)

StreamTypeOK ==
    /\ Len(bucket.events) <= BufferCap /\ bucket.totalEmitted \in 0..MaxPushed
    /\ pushedCount \in 0..MaxPushed /\ nextIndex \in 0..MaxPushed
    /\ line \in {"opening", "polling", "ended"}
    /\ shown \in [turn : TurnNumbers \cup {0}, last : 0..MaxPushed,
                  fields : [TurnPhases -> 0..MaxPushed]]
    /\ troubles \in [failures : 0..MaxFailures, stops : 0..MaxStops]
    /\ stale \in {"no", "index", "missed"}

\* Event i and all that come after it are of one turn, and it is the last of its phase.
LastOfPhase(events, i) ==
    /\ \A j \in i .. Len(events) : events[j].turn = events[i].turn
    /\ \A j \in i + 1 .. Len(events) : events[j].phase # events[i].phase

\* The page shows the turn and the number of the last event, and of each phase the
\* last event since that turn took over.
Shows(snapshot, events) ==
    /\ snapshot.turn = events[Len(events)].turn
    /\ snapshot.last = events[Len(events)].number
    /\ \A i \in DOMAIN events : LastOfPhase(events, i) =>
          snapshot.fields[events[i].phase] = events[i].number

ShowsBuffered == Shows(shown, bucket.events)

CaughtUp == line = "polling" /\ wire = <<>> /\ nextIndex = bucket.totalEmitted

\* A stream that is caught up has put before the operator the turn of the last event
\* with all the buffer holds of it, whatever polls and lines failed, unless a restart
\* of the daemon had the stream skip the first events of the new buffer.
PageFollows ==
    CaughtUp /\ bucket.events # <<>> /\ stale = "no" => ShowsBuffered

\* And in the end the page shows it, or the stream has skipped events.
EventsReachPage == <>[](bucket.events # <<>> => stale = "missed" \/ ShowsBuffered)
=============================================================================

------------------- MODULE OrchestratorDaemonEvents_proofs -------------------
(***************************************************************************)
(* The event buffer of OrchestratorDaemon against the stream of all events *)
(* pushed: the buffer is the end of the stream that the cap keeps, and the *)
(* snapshot served for any index is what SnapshotIsSuffix says.            *)
(***************************************************************************)
EXTENDS OrchestratorDaemon_proofs, SequenceTheorems

\* How many of n events the cap has evicted.
Evicted(n) == IF n > EventCap THEN n - EventCap ELSE 0

\* The bucket a stream of events leaves.
BucketOf(stream) ==
    [events |-> SubSeq(stream, Evicted(Len(stream)) + 1, Len(stream)),
     totalEmitted |-> Len(stream)]

BuffersMatch == \A s \in Sessions : turnEvents[s] = BucketOf(pushed[s])

-----------------------------------------------------------------------------
\* How many events a full buffer has dropped (daemon.ts pushTurnEvent).
LEMMA EvictedType ==
    ASSUME NEW n \in Nat
    PROVE  /\ Evicted(n) \in 0 .. n
           /\ n - Evicted(n) = IF n > EventCap THEN EventCap ELSE n
BY DaemonAssumption DEF Evicted

\* The buffer a stream leaves behind holds its last events, and its length is
\* totalEmitted (daemon.ts pushTurnEvent).
LEMMA BucketOfType ==
    ASSUME NEW stream \in Seq(Event)
    PROVE  /\ BucketOf(stream).events \in Seq(Event)
           /\ Len(BucketOf(stream).events) = Len(stream) - Evicted(Len(stream))
           /\ BucketOf(stream).totalEmitted = Len(stream)
           /\ \A i \in 1 .. Len(stream) - Evicted(Len(stream)) :
                 BucketOf(stream).events[i] = stream[Evicted(Len(stream)) + i]
<1> DEFINE n == Len(stream)
           first == Evicted(n)
<1>1. n \in Nat /\ first \in 0 .. n
  BY EvictedType
<1> HIDE DEF first
<1>2. \A i \in first + 1 .. n : stream[i] \in Event
  BY <1>1
<1>3. /\ SubSeq(stream, first + 1, n) \in Seq(Event)
      /\ Len(SubSeq(stream, first + 1, n)) = n - first
      /\ \A i \in 1 .. n - first :
            SubSeq(stream, first + 1, n)[i] = stream[first + i]
  <2>1. first + 1 \in Int /\ n \in Int
    BY <1>1
  <2>2. /\ SubSeq(stream, first + 1, n) \in Seq(Event)
        /\ Len(SubSeq(stream, first + 1, n)) =
              IF first + 1 <= n THEN n - (first + 1) + 1 ELSE 0
        /\ \A i \in 1 .. n - (first + 1) + 1 :
              SubSeq(stream, first + 1, n)[i] = stream[first + 1 + i - 1]
    BY <1>2, <2>1, SubSeqProperties
  <2> QED BY <1>1, <2>2
<1> QED
  BY <1>3 DEF BucketOf, first

\* What SubSeq is to the end of a sequence, element by element.
LEMMA SuffixType ==
    ASSUME NEW s \in Seq(Event), NEW k \in 0 .. Len(s)
    PROVE  /\ SubSeq(s, k + 1, Len(s)) \in Seq(Event)
           /\ Len(SubSeq(s, k + 1, Len(s))) = Len(s) - k
           /\ \A i \in 1 .. Len(s) - k :
                 SubSeq(s, k + 1, Len(s))[i] = s[k + i]
<1>1. k + 1 \in Int /\ Len(s) \in Int /\ \A i \in k + 1 .. Len(s) : s[i] \in Event
  OBVIOUS
<1>2. /\ SubSeq(s, k + 1, Len(s)) \in Seq(Event)
      /\ Len(SubSeq(s, k + 1, Len(s))) =
            IF k + 1 <= Len(s) THEN Len(s) - (k + 1) + 1 ELSE 0
      /\ \A i \in 1 .. Len(s) - (k + 1) + 1 :
            SubSeq(s, k + 1, Len(s))[i] = s[k + 1 + i - 1]
  BY <1>1, SubSeqProperties
<1> QED
  BY <1>2

\* The bucket is the end of the stream: pushing to one pushes to the other.
LEMMA PushToMatches ==
    ASSUME NEW stream \in Seq(Event), NEW e \in Event
    PROVE  PushTo(BucketOf(stream), e) = BucketOf(Append(stream, e))
<1> DEFINE n == Len(stream)
           f == Evicted(n)
           b == BucketOf(stream)
           grown == Append(b.events, e)
           whole == Append(stream, e)
           over == IF Len(grown) > EventCap THEN Len(grown) - EventCap ELSE 0
<1>1. /\ n \in Nat /\ f \in 0 .. n
      /\ EventCap \in Nat \ {0}
      /\ n - f = IF n > EventCap THEN EventCap ELSE n
  <2>1. n \in Nat
    OBVIOUS
  <2>2. f \in 0 .. n /\ n - f = IF n > EventCap THEN EventCap ELSE n
    BY <2>1, EvictedType
  <2> QED BY <2>1, <2>2, DaemonAssumption
<1>2. /\ b.events \in Seq(Event) /\ Len(b.events) = n - f
      /\ b.totalEmitted = n
      /\ \A i \in 1 .. n - f : b.events[i] = stream[f + i]
  BY BucketOfType
<1>3. /\ whole \in Seq(Event) /\ Len(whole) = n + 1
      /\ \A i \in 1 .. n : whole[i] = stream[i]
      /\ whole[n + 1] = e
  BY AppendProperties
<1> HIDE DEF b, f, whole
<1>4. /\ grown \in Seq(Event) /\ Len(grown) = n - f + 1
      /\ \A i \in 1 .. n - f : grown[i] = b.events[i]
      /\ grown[n - f + 1] = e
  <2>1. /\ grown \in Seq(Event)
        /\ Len(grown) = Len(b.events) + 1
        /\ \A i \in 1 .. Len(b.events) : grown[i] = b.events[i]
        /\ grown[Len(b.events) + 1] = e
    BY <1>2, AppendProperties
  <2> HIDE DEF grown
  <2> QED BY <1>2, <2>1
<1> HIDE DEF grown, n
<1>5. \A i \in 1 .. n - f + 1 : grown[i] = whole[f + i]
  <2> SUFFICES ASSUME NEW i \in 1 .. n - f + 1 PROVE grown[i] = whole[f + i]
    OBVIOUS
  <2>1. CASE i \in 1 .. n - f
    BY <1>1, <1>2, <1>3, <1>4, <2>1
  <2>2. CASE i = n - f + 1
    BY <1>1, <1>3, <1>4, <2>2
  <2> QED BY <1>1, <2>1, <2>2
<1>6. /\ over \in 0 .. n - f + 1
      /\ Evicted(n + 1) = f + over
  BY <1>1, <1>4 DEF Evicted, f
<1> HIDE DEF over
<1>7. /\ SubSeq(grown, over + 1, Len(grown)) \in Seq(Event)
      /\ Len(SubSeq(grown, over + 1, Len(grown))) = n - f + 1 - over
      /\ \A i \in 1 .. n - f + 1 - over :
            SubSeq(grown, over + 1, Len(grown))[i] = grown[over + i]
  <2>1. over \in 0 .. Len(grown)
    BY <1>4, <1>6
  <2>2. /\ SubSeq(grown, over + 1, Len(grown)) \in Seq(Event)
        /\ Len(SubSeq(grown, over + 1, Len(grown))) = Len(grown) - over
        /\ \A i \in 1 .. Len(grown) - over :
              SubSeq(grown, over + 1, Len(grown))[i] = grown[over + i]
    BY <1>4, <2>1, SuffixType
  <2>3. Len(grown) - over = n - f + 1 - over
    BY <1>1, <1>4, <1>6
  <2> QED BY <1>4, <2>2, <2>3, Zenon
<1>8. /\ BucketOf(whole).events \in Seq(Event)
      /\ Len(BucketOf(whole).events) = n + 1 - (f + over)
      /\ BucketOf(whole).totalEmitted = n + 1
      /\ \A i \in 1 .. n + 1 - (f + over) :
            BucketOf(whole).events[i] = whole[f + over + i]
  <2>1. /\ BucketOf(whole).events \in Seq(Event)
        /\ Len(BucketOf(whole).events) = Len(whole) - Evicted(Len(whole))
        /\ BucketOf(whole).totalEmitted = Len(whole)
        /\ \A i \in 1 .. Len(whole) - Evicted(Len(whole)) :
              BucketOf(whole).events[i] = whole[Evicted(Len(whole)) + i]
    BY <1>3, BucketOfType
  <2>2. Evicted(Len(whole)) = f + over /\ Len(whole) = n + 1
    BY <1>3, <1>6
  <2>3. Len(whole) - Evicted(Len(whole)) = n + 1 - (f + over)
    BY <1>1, <1>6, <2>2
  <2> QED BY <2>1, <2>2, <2>3, Zenon
<1>9. SubSeq(grown, over + 1, Len(grown)) = BucketOf(whole).events
  <2> DEFINE x == SubSeq(grown, over + 1, Len(grown))
             y == BucketOf(whole).events
  <2>1. x \in Seq(Event) /\ y \in Seq(Event) /\ Len(x) = Len(y)
    BY <1>1, <1>6, <1>7, <1>8
  <2>2. \A i \in 1 .. Len(x) : x[i] = y[i]
    <3> SUFFICES ASSUME NEW i \in 1 .. n - f + 1 - over PROVE x[i] = y[i]
      BY <1>7
    <3>1. x[i] = grown[over + i] /\ y[i] = whole[f + over + i]
      BY <1>1, <1>6, <1>7, <1>8
    <3>2. over + i \in 1 .. n - f + 1
      BY <1>1, <1>6
    <3>3. grown[over + i] = whole[f + (over + i)]
      BY <1>5, <3>2
    <3>4. f + (over + i) = f + over + i
      BY <1>1, <1>6
    <3> QED BY <3>1, <3>3, <3>4
  <2> HIDE DEF x, y
  <2>3. x = y
    BY <2>1, <2>2, SeqEqual
  <2> QED BY <2>3 DEF x, y
<1>10. PushTo(b, e) = [events |-> SubSeq(grown, over + 1, Len(grown)),
                       totalEmitted |-> n + 1]
  BY <1>2 DEF PushTo, grown, over
<1>11. BucketOf(whole) = [events |-> BucketOf(whole).events,
                          totalEmitted |-> n + 1]
  BY <1>8 DEF BucketOf
<1> QED
  BY <1>9, <1>10, <1>11 DEF b, whole

-----------------------------------------------------------------------------
\* Pushing one event keeps the buffers equal to those of the streams.
LEMMA EmitMatches ==
    ASSUME Inv, BuffersMatch, NEW c \in Cards, NEW t \in Phases, Emit(c, t)
    PROVE  BuffersMatch'
<1>1. SessionOf[c] \in Sessions /\ Ev(c, t) \in Event
  BY DaemonAssumption DEF Ev, Event
<1>2. pushed \in [Sessions -> Seq(Event)]
  BY DEF Inv, TypeOK
<1>3. PushTo(turnEvents[SessionOf[c]], Ev(c, t))
          = BucketOf(Append(pushed[SessionOf[c]], Ev(c, t)))
  BY <1>1, <1>2, PushToMatches DEF BuffersMatch
<1> QED
  BY <1>1, <1>2, <1>3 DEF BuffersMatch, Emit, Inv, TypeOK

\* So does pushing two in a row, as the end of a turn does (orchestrator.ts
\* runTurn).
LEMMA EmitBothMatches ==
    ASSUME Inv, BuffersMatch, NEW c \in Cards,
           NEW t1 \in Phases, NEW t2 \in Phases, EmitBoth(c, t1, t2)
    PROVE  BuffersMatch'
<1> DEFINE s == SessionOf[c]
           p == pushed[s]
           p1 == Append(p, Ev(c, t1))
           p2 == Append(p1, Ev(c, t2))
<1>1. s \in Sessions /\ Ev(c, t1) \in Event /\ Ev(c, t2) \in Event
  BY DaemonAssumption DEF Ev, Event
<1>2. p \in Seq(Event) /\ p1 \in Seq(Event) /\ turnEvents[s] = BucketOf(p)
  BY <1>1 DEF Inv, TypeOK, BuffersMatch
<1>3. PushTo(turnEvents[s], Ev(c, t1)) = BucketOf(p1)
  BY <1>1, <1>2, PushToMatches
<1>4. PushTo(BucketOf(p1), Ev(c, t2)) = BucketOf(p2)
  BY <1>1, <1>2, PushToMatches
<1>5. p \o <<Ev(c, t1), Ev(c, t2)>> = p2
  BY <1>1, <1>2
<1>6. /\ turnEvents' = [turnEvents EXCEPT ![s] = BucketOf(p2)]
      /\ pushed' = [pushed EXCEPT ![s] = p2]
  BY <1>1, <1>3, <1>4, <1>5 DEF EmitBoth, Inv, TypeOK
<1> HIDE DEF p2, p1, p, s
<1> QED
  BY <1>1, <1>6 DEF BuffersMatch, Inv, TypeOK

\* So does the clearing of all buffers (daemon.ts stop).
LEMMA ClearedMatches ==
    ASSUME turnEvents' = [s \in Sessions |-> EmptyBucket],
           pushed' = [s \in Sessions |-> <<>>]
    PROVE  BuffersMatch'
<1>1. EmptyBucket = BucketOf(<<>>)
  <2>1. Evicted(0) = 0 /\ Len(<<>>) = 0
    BY DaemonAssumption DEF Evicted
  <2>2. SubSeq(<<>>, 0 + 1, 0) = <<>>
    BY SubSeqEmpty
  <2> QED BY <2>1, <2>2 DEF EmptyBucket, BucketOf
<1> QED
  BY <1>1 DEF BuffersMatch

\* Every step keeps the buffers equal to those of the streams.
LEMMA MatchStep == Inv /\ BuffersMatch /\ [Next]_vars => BuffersMatch'
<1> SUFFICES ASSUME Inv, BuffersMatch, [Next]_vars PROVE BuffersMatch'
  OBVIOUS
<1>1. CASE UNCHANGED <<turnEvents, pushed>>
  BY <1>1 DEF BuffersMatch
<1>2. CASE StopCall
  BY <1>2, ClearedMatches DEF StopCall
<1>3. ASSUME NEW c \in Cards, Planned(c) PROVE BuffersMatch'
  BY <1>3, EmitMatches DEF Planned, Phases
<1>4. ASSUME NEW c \in Cards, Selected(c) PROVE BuffersMatch'
  BY <1>4, EmitBothMatches DEF Selected, Phases
<1>5. ASSUME NEW c \in Cards, Executed(c) PROVE BuffersMatch'
  BY <1>5, EmitMatches DEF Executed, Phases
<1> QED
  BY <1>1, <1>2, <1>3, <1>4, <1>5
     DEF Next, vars, StartCall, StartConnected, StopDisposed, RunCardTurn,
         TurnStep, Hydrated, BeginTurn, PlanCritical, OpenGate, GateTimeout,
         CallThrows, Operator, EndSession, OverrideSelection

-----------------------------------------------------------------------------
\* The snapshot of a bucket that holds the end of a stream.
LEMMA SnapshotOfStream ==
    ASSUME Inv, BuffersMatch, NEW s \in Sessions,
           NEW since \in 0 .. Len(pushed[s])
    PROVE  LET n    == Len(pushed[s])
               from == IF since > Evicted(n) THEN since ELSE Evicted(n)
           IN  SubscribeTurnState(s, since) =
                   [events |-> SubSeq(pushed[s], from + 1, n), nextIndex |-> n]
<1> DEFINE p == pushed[s]
           n == Len(p)
           f == Evicted(n)
           ev == BucketOf(p).events
           start == IF since > f THEN since - f ELSE 0
           from == IF since > f THEN since ELSE f
<1>1. p \in Seq(Event) /\ turnEvents[s] = BucketOf(p)
  BY DEF Inv, TypeOK, BuffersMatch
<1>2. n \in Nat /\ f \in 0 .. n /\ since \in 0 .. n
  <2>1. n \in Nat
    BY <1>1
  <2> QED BY <2>1, EvictedType
<1>3. /\ ev \in Seq(Event) /\ Len(ev) = n - f
      /\ BucketOf(p).totalEmitted = n
      /\ \A i \in 1 .. n - f : ev[i] = p[f + i]
  BY <1>1, BucketOfType
<1>4. SubscribeTurnState(s, since) =
          [events |-> SubSeq(ev, start + 1, Len(ev)), nextIndex |-> n]
  <2>1. n - Len(ev) = f
    BY <1>2, <1>3
  <2> QED BY <1>1, <1>3, <2>1 DEF SubscribeTurnState
<1> HIDE DEF ev, f, n, p
<1>5. start \in 0 .. n - f /\ from \in 0 .. n /\ from = f + start
  BY <1>2
<1> HIDE DEF start, from
<1>6. /\ SubSeq(ev, start + 1, Len(ev)) \in Seq(Event)
      /\ Len(SubSeq(ev, start + 1, Len(ev))) = n - f - start
      /\ \A i \in 1 .. n - f - start :
            SubSeq(ev, start + 1, Len(ev))[i] = ev[start + i]
  BY <1>3, <1>5, SuffixType
<1>7. /\ SubSeq(p, from + 1, n) \in Seq(Event)
      /\ Len(SubSeq(p, from + 1, n)) = n - from
      /\ \A i \in 1 .. n - from : SubSeq(p, from + 1, n)[i] = p[from + i]
  BY <1>1, <1>5, SuffixType DEF n
<1>8. SubSeq(ev, start + 1, Len(ev)) = SubSeq(p, from + 1, n)
  <2> DEFINE x == SubSeq(ev, start + 1, Len(ev))
             y == SubSeq(p, from + 1, n)
  <2>1. x \in Seq(Event) /\ y \in Seq(Event) /\ Len(x) = Len(y)
    BY <1>2, <1>5, <1>6, <1>7
  <2>2. \A i \in 1 .. Len(x) : x[i] = y[i]
    <3> SUFFICES ASSUME NEW i \in 1 .. n - f - start PROVE x[i] = y[i]
      BY <1>6
    <3>1. x[i] = ev[start + i] /\ y[i] = p[from + i]
      BY <1>2, <1>5, <1>6, <1>7
    <3>2. start + i \in 1 .. n - f
      BY <1>2, <1>5
    <3>3. ev[start + i] = p[f + (start + i)]
      BY <1>3, <3>2
    <3>4. f + (start + i) = from + i
      BY <1>2, <1>5
    <3> QED BY <3>1, <3>3, <3>4
  <2> HIDE DEF x, y
  <2>3. x = y
    BY <2>1, <2>2, SeqEqual
  <2> QED BY <2>3 DEF x, y
<1> QED
  BY <1>4, <1>8 DEF from, f, n, p

\* A poller that feeds nextIndex back sees no event twice, none out of order,
\* and every gap in the index, for any cap and any number of turns (daemon.ts
\* pushTurnEvent, subscribeTurnState).
THEOREM SnapshotsAreSuffixes == Spec => []SnapshotIsSuffix
<1>1. Init => BuffersMatch
  <2> SUFFICES ASSUME Init PROVE BuffersMatch
    OBVIOUS
  <2>1. Evicted(0) = 0 /\ Len(<<>>) = 0
    BY DaemonAssumption DEF Evicted
  <2>2. SubSeq(<<>>, 0 + 1, 0) = <<>>
    BY SubSeqEmpty
  <2>3. EmptyBucket = BucketOf(<<>>)
    BY <2>1, <2>2 DEF EmptyBucket, BucketOf
  <2> QED BY <2>3 DEF Init, BuffersMatch
<1>2. Inv /\ BuffersMatch /\ [Next]_vars => BuffersMatch'
  BY MatchStep
<1>3. Inv /\ BuffersMatch => SnapshotIsSuffix
  BY SnapshotOfStream DEF SnapshotIsSuffix, Evicted
<1> QED
  BY <1>1, <1>2, <1>3, DaemonInvariant, PTL DEF Spec
=============================================================================

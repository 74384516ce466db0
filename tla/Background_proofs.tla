-------------------------- MODULE Background_proofs --------------------------
(***************************************************************************)
(* What runs beside the turns, for any number of sockets, readers, calls,  *)
(* processes, personas, runs, files and events. Each component has an      *)
(* inductive invariant of its own; a step of the whole is a step of one of *)
(* them, so together they are one of the whole.                            *)
(***************************************************************************)
EXTENDS MCBackground, FiniteSetTheorems, WellFoundedInduction, TLAPS

-----------------------------------------------------------------------------
(* The channel *)

ChannelInv == ChannelTypeOK /\ ChannelKept

LEMMA UnclosedFinite ==
  IsFiniteSet(Unclosed) /\ Cardinality(Unclosed) \in Nat
<1>1. Unclosed \subseteq Sockets /\ IsFiniteSet(Sockets)
  BY ChannelAssumption DEF Unclosed
<1>2. IsFiniteSet(Unclosed)
  BY <1>1, FS_Subset
<1> QED
  BY <1>2, FS_CardinalityType

LEMMA ChannelStarts == ChannelInit => ChannelInv
<1> SUFFICES ASSUME ChannelInit PROVE ChannelInv
  OBVIOUS
<1>1. ChannelTypeOK /\ ConnectedIsOpen
  <2>1. 0 \in 0 .. MaxStarts
    BY ChannelAssumption
  <2>2. ChannelTypeOK
    BY <2>1 DEF ChannelInit, ChannelTypeOK
  <2> QED BY <2>2 DEF ChannelInit, ConnectedIsOpen
<1>2. Unclosed = {}
  BY DEF ChannelInit, Unclosed
<1>3. LinesAccounted
  BY <1>2, FS_EmptySet DEF ChannelInit, LinesAccounted, Lines, Lost, Endings
<1> QED
  BY <1>1, <1>3 DEF ChannelInv, ChannelKept

\* A line that ends is counted once.
LEMMA LineEndsOnce ==
  ASSUME ChannelTypeOK, NEW how \in Endings, LineEnds(how)
  PROVE  ended' \in [Endings -> Nat] /\ Lost \in Nat /\ Lost' = Lost + 1
<1>1. ended \in [Endings -> Nat] /\ ended' = [ended EXCEPT ![how] = @ + 1]
  BY DEF ChannelTypeOK, LineEnds
<1>2. /\ ended["loadFailed"] \in Nat /\ ended["loggedOut"] \in Nat
      /\ ended["stopped"] \in Nat /\ ended' \in [Endings -> Nat]
  BY <1>1 DEF Endings
<1>3. CASE how = "loadFailed"
  BY <1>1, <1>2, <1>3 DEF Lost, Endings
<1>4. CASE how = "loggedOut"
  BY <1>1, <1>2, <1>4 DEF Lost, Endings
<1>5. CASE how = "stopped"
  BY <1>1, <1>2, <1>5 DEF Lost, Endings
<1> QED
  BY <1>2, <1>3, <1>4, <1>5 DEF Endings

\* Every step of the channel keeps its lines: one ends, or becomes another.
LEMMA ChannelKeeps == ChannelInv /\ [ChannelStep]_channelVars => ChannelInv'
<1> SUFFICES ASSUME ChannelInv, [ChannelStep]_channelVars PROVE ChannelInv'
  OBVIOUS
<1>1. ChannelTypeOK /\ LinesAccounted /\ ConnectedIsOpen
  BY DEF ChannelInv, ChannelKept
<1>2. /\ loading \in Nat /\ timers \in Nat /\ starts \in Nat /\ Cardinality(Unclosed) \in Nat
      /\ Lost \in Nat /\ loading + timers + Cardinality(Unclosed) + Lost = starts
      /\ IsFiniteSet(Unclosed)
  <2>1. Lost \in Nat
    BY <1>1 DEF ChannelTypeOK, Lost, Endings
  <2>2. loading \in Nat /\ timers \in Nat /\ starts \in Nat
    BY <1>1, ChannelAssumption DEF ChannelTypeOK
  <2>3. loading + timers + Cardinality(Unclosed) + Lost = starts
    BY <1>1 DEF LinesAccounted, Lines
  <2> QED BY <2>1, <2>2, <2>3, UnclosedFinite
<1>3. CASE StartChannel
  <2>1. ChannelTypeOK' /\ ConnectedIsOpen'
    <3>1. starts' \in 0 .. MaxStarts /\ loading' \in Nat
      BY <1>1, <1>3, ChannelAssumption DEF StartChannel, ChannelTypeOK
    <3>2. ChannelTypeOK'
      BY <1>1, <1>3, <3>1 DEF StartChannel, ChannelTypeOK
    <3> QED BY <1>1, <1>3, <3>2 DEF StartChannel, ConnectedIsOpen
  <2>2. Unclosed' = Unclosed /\ Lost' = Lost
    BY <1>3 DEF StartChannel, Unclosed, Lost
  <2>3. LinesAccounted'
    BY <1>2, <1>3, <2>2 DEF StartChannel, LinesAccounted, Lines
  <2> QED BY <2>1, <2>3 DEF ChannelInv, ChannelKept
<1>4. CASE StopChannel
  <2>1. ChannelTypeOK' /\ ConnectedIsOpen'
    BY <1>1, <1>4 DEF StopChannel, ChannelTypeOK, ConnectedIsOpen, Unclosed
  <2>2. Unclosed' = Unclosed /\ Lost' = Lost
    BY <1>1, <1>4 DEF StopChannel, Unclosed, Lost, ChannelTypeOK
  <2>3. LinesAccounted'
    BY <1>2, <1>4, <2>2 DEF StopChannel, LinesAccounted, Lines
  <2> QED BY <2>1, <2>3 DEF ChannelInv, ChannelKept
<1>5. CASE LoadRejected
  <2>1. ended' \in [Endings -> Nat] /\ Lost' = Lost + 1
    BY <1>1, <1>5, LineEndsOnce DEF LoadRejected, Endings
  <2>2. ChannelTypeOK' /\ ConnectedIsOpen'
    BY <1>1, <1>5, <2>1 DEF LoadRejected, ChannelTypeOK, ConnectedIsOpen
  <2>3. Unclosed' = Unclosed
    BY <1>5 DEF LoadRejected, Unclosed
  <2>4. LinesAccounted'
    BY <1>2, <1>5, <2>1, <2>3 DEF LoadRejected, LinesAccounted, Lines
  <2> QED BY <2>2, <2>4 DEF ChannelInv, ChannelKept
<1>6. CASE ReconnectTimer
  <2>1. \/ loading' = loading /\ ended' \in [Endings -> Nat] /\ Lost' = Lost + 1
        \/ loading' = loading + 1 /\ ended' = ended /\ Lost' = Lost
    BY <1>1, <1>6, LineEndsOnce DEF ReconnectTimer, Endings, Lost
  <2>2. ChannelTypeOK' /\ ConnectedIsOpen'
    BY <1>1, <1>6, <2>1 DEF ReconnectTimer, ChannelTypeOK, ConnectedIsOpen
  <2>3. Unclosed' = Unclosed
    BY <1>6 DEF ReconnectTimer, Unclosed
  <2>4. LinesAccounted'
    BY <1>2, <1>6, <2>1, <2>3 DEF ReconnectTimer, LinesAccounted, Lines
  <2> QED BY <2>2, <2>4 DEF ChannelInv, ChannelKept
<1>7. ASSUME NEW s \in Sockets, SocketMade(s) PROVE ChannelInv'
  <2>1. ChannelTypeOK'
    BY <1>1, <1>7 DEF SocketMade, ChannelTypeOK
  <2>5. ConnectedIsOpen'
    <3>1. \A u \in Sockets : socket[u] = "open" => socket'[u] = "open"
      BY <1>1, <1>7 DEF SocketMade, ChannelTypeOK
    <3> QED BY <1>1, <1>7, <3>1 DEF SocketMade, ConnectedIsOpen
  <2>2. Unclosed' = Unclosed \cup {s} /\ s \notin Unclosed /\ Lost' = Lost
    BY <1>1, <1>7 DEF SocketMade, Unclosed, ChannelTypeOK, Lost
  <2>3. Cardinality(Unclosed') = Cardinality(Unclosed) + 1
    BY <1>2, <2>2, FS_AddElement
  <2>4. LinesAccounted'
    BY <1>2, <1>7, <2>2, <2>3 DEF SocketMade, LinesAccounted, Lines
  <2> QED BY <2>1, <2>4, <2>5 DEF ChannelInv, ChannelKept
<1>8. ASSUME NEW s \in Sockets, SocketOpens(s) PROVE ChannelInv'
  <2>1. ChannelTypeOK' /\ ConnectedIsOpen'
    BY <1>1, <1>8 DEF SocketOpens, ChannelTypeOK, ConnectedIsOpen
  <2>2. Unclosed' = Unclosed /\ Lost' = Lost
    BY <1>1, <1>8 DEF SocketOpens, Unclosed, ChannelTypeOK, Lost
  <2>3. LinesAccounted'
    BY <1>2, <1>8, <2>2 DEF SocketOpens, LinesAccounted, Lines
  <2> QED BY <2>1, <2>3 DEF ChannelInv, ChannelKept
<1>9. ASSUME NEW s \in Sockets, NEW loggedOut \in BOOLEAN, SocketCloses(s, loggedOut)
      PROVE  ChannelInv'
  <2>1. \/ timers' = timers /\ ended' \in [Endings -> Nat] /\ Lost' = Lost + 1
        \/ timers' = timers + 1 /\ ended' = ended /\ Lost' = Lost
    BY <1>1, <1>9, LineEndsOnce DEF SocketCloses, Endings, Lost
  <2>2. ChannelTypeOK' /\ ConnectedIsOpen'
    <3>1. timers' \in Nat /\ ended' \in [Endings -> Nat]
      BY <1>1, <2>1 DEF ChannelTypeOK
    <3>2. ChannelTypeOK'
      BY <1>1, <1>9, <3>1 DEF SocketCloses, ChannelTypeOK
    <3> QED BY <1>9, <3>2 DEF SocketCloses, ConnectedIsOpen
  <2>3. Unclosed' = Unclosed \ {s} /\ s \in Unclosed
    BY <1>1, <1>9 DEF SocketCloses, Unclosed, ChannelTypeOK
  <2>4. Cardinality(Unclosed') = Cardinality(Unclosed) - 1
    BY <1>2, <2>3, FS_RemoveElement
  <2>5. LinesAccounted'
    BY <1>2, <1>9, <2>1, <2>4 DEF SocketCloses, LinesAccounted, Lines
  <2> QED BY <2>2, <2>5 DEF ChannelInv, ChannelKept
<1>10. CASE UNCHANGED channelVars
  <2>1. Unclosed' = Unclosed /\ Lost' = Lost
    BY <1>10 DEF channelVars, Unclosed, Lost
  <2> QED BY <1>1, <1>10, <2>1 DEF channelVars, ChannelInv, ChannelKept, ChannelTypeOK,
             ConnectedIsOpen, LinesAccounted, Lines
<1> QED
  BY <1>3, <1>4, <1>5, <1>6, <1>7, <1>8, <1>9, <1>10 DEF ChannelStep

\* No connection is begun while the channel stays stopped.
LEMMA StoppedIsQuiet ==
  ASSUME ChannelInv, ChannelStep, stopped, stopped'
  PROVE  loading' <= loading
<1>1. loading \in Nat
  BY DEF ChannelInv, ChannelTypeOK
<1> QED
  BY <1>1 DEF ChannelStep, StartChannel, StopChannel, LoadRejected, ReconnectTimer,
              SocketMade, SocketOpens, SocketCloses

-----------------------------------------------------------------------------
(* The card cache *)

\* What a load will put into the cache is as new as an invalidation asks, unless
\* the invalidation overtook it; what a read may find is so in any case.
LoadsFresh ==
  /\ \A c \in CardIds : since[c] <= Newest(c) /\ file[c] <= edits[c] + 1
  /\ \A r \in Readers : load[r].at = "read" /\ load[r].card \notin overtaken
                          => load[r].text >= since[load[r].card]

LoaderInv == LoaderTypeOK /\ StaleOnlyIfOvertaken /\ LoadsFresh

LEMMA LoaderStarts == LoaderInit => LoaderInv
<1> SUFFICES ASSUME LoaderInit PROVE LoaderInv
  OBVIOUS
<1>1. LoaderTypeOK
  BY LoaderAssumption DEF LoaderInit, LoaderTypeOK, Versions
<1> QED
  BY <1>1 DEF LoaderInit, LoaderInv, LoadsFresh, StaleOnlyIfOvertaken, Newest, Idle

\* A card that is edited may be read in its new text, which is newer than any.
LEMMA LoaderKeeps == LoaderInv /\ [LoaderStep]_loaderVars => LoaderInv'
<1> SUFFICES ASSUME LoaderInv, [LoaderStep]_loaderVars PROVE LoaderInv'
  OBVIOUS
<1>1. LoaderTypeOK /\ StaleOnlyIfOvertaken /\ LoadsFresh
  BY DEF LoaderInv
<1>2. MaxEdits \in Nat
  BY LoaderAssumption
<1>3. ASSUME NEW c \in CardIds, EditFile(c) PROVE LoaderInv'
  <2>1. PICK v \in {0, edits[c] + 2} : file' = [file EXCEPT ![c] = v]
    BY <1>3 DEF EditFile
  <2>2. /\ edits[c] \in Nat /\ edits[c] < MaxEdits /\ edits' = [edits EXCEPT ![c] = edits[c] + 1]
        /\ UNCHANGED <<cache, load, since, overtaken>>
    BY <1>1, <1>3 DEF EditFile, LoaderTypeOK
  <2>3. LoaderTypeOK'
    BY <1>1, <1>2, <2>1, <2>2 DEF LoaderTypeOK, Versions
  <2>4. \A d \in CardIds : since[d] <= Newest(d)' /\ file'[d] <= edits'[d] + 1
    <3> SUFFICES ASSUME NEW d \in CardIds
                 PROVE  since[d] <= Newest(d)' /\ file'[d] <= edits'[d] + 1
      OBVIOUS
    <3>1. /\ since[d] \in Nat /\ file[d] \in Nat /\ edits[d] \in Nat
          /\ since[d] <= Newest(d) /\ file[d] <= edits[d] + 1
      BY <1>1, <1>2 DEF LoaderTypeOK, Versions, LoadsFresh
    <3>2. CASE d # c
      BY <1>1, <2>1, <2>2, <3>1, <3>2 DEF LoaderTypeOK, Newest
    <3>3. CASE d = c
      <4>1. file'[c] = v /\ edits'[c] = edits[c] + 1
        BY <1>1, <2>1, <2>2 DEF LoaderTypeOK
      <4>2. since[c] <= edits[c] + 2
        BY <3>1, <3>3 DEF Newest
      <4>3. CASE v = 0
        <5>1. Newest(c)' = edits[c] + 3
          BY <2>2, <4>1, <4>3 DEF Newest
        <5> QED BY <2>2, <3>1, <3>3, <4>1, <4>2, <4>3, <5>1
      <4>4. CASE v = edits[c] + 2
        <5>1. Newest(c)' = edits[c] + 2
          BY <2>2, <4>1, <4>4 DEF Newest
        <5> QED BY <2>2, <3>1, <3>3, <4>1, <4>2, <4>4, <5>1
      <4> QED BY <4>3, <4>4
    <3> QED BY <3>2, <3>3
  <2>5. StaleOnlyIfOvertaken' /\ LoadsFresh'
    BY <1>1, <2>2, <2>4 DEF StaleOnlyIfOvertaken, LoadsFresh
  <2> QED BY <2>3, <2>5 DEF LoaderInv
<1>4. ASSUME NEW cards \in SUBSET CardIds, InvalidateCards(cards) PROVE LoaderInv'
  <2>1. UNCHANGED <<file, edits, load>>
    BY <1>4 DEF InvalidateCards
  <2>2. \A c \in CardIds : Newest(c)' = Newest(c) /\ Newest(c) \in 0 .. MaxEdits + 2
    BY <1>1, <1>2, <2>1 DEF Newest, LoaderTypeOK, Versions
  <2>3. LoaderTypeOK'
    BY <1>1, <1>2, <1>4, <2>2 DEF InvalidateCards, LoaderTypeOK, Versions
  <2>4. \A c \in CardIds : since'[c] <= Newest(c)' /\ file'[c] <= edits'[c] + 1
    BY <1>1, <1>2, <1>4, <2>1, <2>2 DEF InvalidateCards, LoadsFresh, LoaderTypeOK
  <2>5. ASSUME NEW r \in Readers, load'[r].at = "read", load'[r].card \notin overtaken'
        PROVE  load'[r].text >= since'[load'[r].card]
    <3>1. load[r].at = "read" /\ load[r].card \in CardIds /\ load'[r] = load[r]
      BY <1>1, <2>1, <2>5 DEF LoaderTypeOK, Idle
    <3>2. load[r].card \notin cards
      BY <1>4, <2>5, <3>1 DEF InvalidateCards, Reading
    <3>3. load[r].card \notin overtaken /\ since'[load[r].card] = since[load[r].card]
      BY <1>4, <2>5, <3>1, <3>2 DEF InvalidateCards
    <3> QED BY <1>1, <3>1, <3>3 DEF LoadsFresh
  <2>6. StaleOnlyIfOvertaken'
    BY <1>1, <1>4 DEF InvalidateCards, StaleOnlyIfOvertaken
  <2>7. LoadsFresh'
    BY <2>4, <2>5 DEF LoadsFresh
  <2> QED BY <2>3, <2>6, <2>7 DEF LoaderInv
<1>5. ASSUME NEW r \in Readers, NEW c \in CardIds, LoadCard(r, c) PROVE LoaderInv'
  BY <1>1, <1>5 DEF LoadCard, LoaderInv, LoaderTypeOK, StaleOnlyIfOvertaken, LoadsFresh, Newest
<1>6. ASSUME NEW r \in Readers, ReadFile(r) PROVE LoaderInv'
  <2>1. load[r] \in [at : {"reading"}, card : CardIds]
    BY <1>1, <1>6 DEF ReadFile, LoaderTypeOK, Idle
  <2>2. PICK l \in {Idle} \cup [at : {"read"}, card : CardIds, text : Versions \ {0}] :
          /\ load' = [load EXCEPT ![r] = l]
          /\ l.at = "read" => l.text = file[l.card] /\ file[l.card] # 0
    <3> DEFINE l == [at |-> "read", card |-> load[r].card, text |-> file[load[r].card]]
    <3>1. CASE load' = [load EXCEPT ![r] = Idle]
      <4>1. Idle.at # "read"
        BY DEF Idle
      <4> QED BY <3>1, <4>1
    <3>2. CASE file[load[r].card] # 0 /\ load' = [load EXCEPT ![r] = l]
      <4>1. l \in [at : {"read"}, card : CardIds, text : Versions \ {0}]
        BY <1>1, <2>1, <3>2 DEF LoaderTypeOK
      <4>2. l.text = file[l.card] /\ file[l.card] # 0
        BY <3>2
      <4> HIDE DEF l
      <4> QED BY <3>2, <4>1, <4>2
    <3> QED BY <1>6, <3>1, <3>2 DEF ReadFile
  <2>3. UNCHANGED <<file, edits, cache, since, overtaken>>
    BY <1>6 DEF ReadFile
  <2>4. LoaderTypeOK'
    BY <1>1, <2>2, <2>3 DEF LoaderTypeOK
  <2>5. StaleOnlyIfOvertaken'
    BY <1>1, <2>3 DEF StaleOnlyIfOvertaken
  <2>6. \A c \in CardIds : since'[c] <= Newest(c)' /\ file'[c] <= edits'[c] + 1
    BY <1>1, <2>3 DEF LoadsFresh, Newest
  <2>7. ASSUME NEW q \in Readers, load'[q].at = "read", load'[q].card \notin overtaken'
        PROVE  load'[q].text >= since'[load'[q].card]
    <3>1. CASE q # r
      <4>1. load'[q] = load[q]
        BY <1>1, <2>2, <3>1 DEF LoaderTypeOK
      <4> QED BY <1>1, <2>3, <2>7, <4>1 DEF LoadsFresh
    <3>2. CASE q = r
      <4>1. load'[q] = l
        BY <1>1, <2>2, <3>2 DEF LoaderTypeOK
      <4>2. l.card \in CardIds /\ l.text = file[l.card] /\ file[l.card] # 0
        BY <2>2, <2>7, <4>1 DEF Idle
      <4>3. since[l.card] <= file[l.card]
        BY <1>1, <4>2 DEF LoadsFresh, Newest
      <4>4. since[l.card] \in Nat /\ file[l.card] \in Nat
        BY <1>1, <1>2, <4>2 DEF LoaderTypeOK, Versions
      <4> QED BY <2>3, <4>1, <4>2, <4>3, <4>4
    <3> QED BY <3>1, <3>2
  <2> QED BY <2>4, <2>5, <2>6, <2>7 DEF LoaderInv, LoadsFresh
<1>7. ASSUME NEW r \in Readers, FillCache(r) PROVE LoaderInv'
  <2>1. load[r] \in [at : {"read"}, card : CardIds, text : Versions \ {0}]
    BY <1>1, <1>7 DEF FillCache, LoaderTypeOK, Idle
  <2>2. LoaderTypeOK'
    BY <1>1, <1>7, <2>1 DEF FillCache, LoaderTypeOK
  <2>3. LoadsFresh'
    <3>1. \A q \in Readers : load'[q].at = "read" => load'[q] = load[q]
      BY <1>1, <1>7 DEF FillCache, LoaderTypeOK, Idle
    <3>2. UNCHANGED <<file, edits, since, overtaken>>
      BY <1>7 DEF FillCache
    <3> QED BY <1>1, <3>1, <3>2 DEF LoadsFresh, Newest
  <2>4. ASSUME NEW c \in CardIds, cache'[c] # 0, c \notin overtaken' PROVE cache'[c] >= since'[c]
    <3>1. CASE c = load[r].card
      <4>1. cache'[c] = load[r].text /\ since' = since /\ overtaken' = overtaken
        BY <1>1, <1>7, <3>1 DEF FillCache, LoaderTypeOK
      <4> QED BY <1>1, <2>1, <2>4, <3>1, <4>1 DEF LoadsFresh
    <3>2. CASE c # load[r].card
      BY <1>1, <1>7, <2>4, <3>2 DEF FillCache, LoaderTypeOK, StaleOnlyIfOvertaken
    <3> QED BY <3>1, <3>2
  <2> QED BY <2>2, <2>3, <2>4 DEF LoaderInv, StaleOnlyIfOvertaken
<1>8. CASE UNCHANGED loaderVars
  BY <1>1, <1>8 DEF loaderVars, LoaderInv, LoaderTypeOK, StaleOnlyIfOvertaken, LoadsFresh, Newest
<1> QED
  BY <1>3, <1>4, <1>5, <1>6, <1>7, <1>8 DEF LoaderStep

-----------------------------------------------------------------------------
(* The client of the gateway *)

\* As long as no two closeGateway() calls awaited one process: a process that runs is
\* the one that connects or the one of _client, and while _client is being closed it
\* is what it was, its process is gone and no other is begun.
OneClient ==
  /\ \A p \in Procs : gwProc[p] # "none" => p \in {gwClient, gwConnecting}
  /\ gwConnecting # NoProc => gwClient = NoProc
  /\ \A k \in GwClosers : gwClose[k] # NoProc =>
        gwClient = gwClose[k] /\ gwProc[gwClose[k]] = "none"
  /\ \A j, k \in GwClosers : gwClose[j] # NoProc /\ gwClose[k] # NoProc => j = k

GwInv == GwTypeOK /\ (gwOverlapped \/ OneClient)

LEMMA GwStarts == GwInit => GwInv
<1> SUFFICES ASSUME GwInit PROVE GwInv
  OBVIOUS
<1>1. NoCall \in [at : {"idle", "connecting", "calling"}, proc : Procs \cup {NoProc}]
  BY DEF NoCall
<1>2. GwTypeOK
  BY <1>1 DEF GwInit, GwTypeOK
<1>3. OneClient
  BY DEF GwInit, OneClient
<1> QED
  BY <1>2, <1>3 DEF GwInv

LEMMA GwKeeps == GwInv /\ [GwStep]_gwVars => GwInv'
<1> SUFFICES ASSUME GwInv, [GwStep]_gwVars PROVE GwInv'
  OBVIOUS
<1>1. GwTypeOK /\ (gwOverlapped \/ OneClient)
  BY DEF GwInv
<1>2. ASSUME NEW c \in GwCallers, UseClient(c) \/ JoinConnecting(c) \/ GwCallSettles(c)
      PROVE  GwInv'
  <2>1. UNCHANGED <<gwProc, gwClient, gwConnecting, gwClose, gwOverlapped>>
    BY <1>2 DEF UseClient, JoinConnecting, GwCallSettles
  <2>2. GwTypeOK'
    BY <1>1, <1>2, <2>1 DEF UseClient, JoinConnecting, GwCallSettles, GwTypeOK, NoCall
  <2> QED BY <1>1, <2>1, <2>2 DEF GwInv, OneClient
<1>3. ASSUME NEW c \in GwCallers, NEW p \in Procs, Spawn(c, p) PROVE GwInv'
  <2>1. GwTypeOK'
    BY <1>1, <1>3 DEF Spawn, GwTypeOK
  <2>2. gwOverlapped' \/ OneClient'
    BY <1>1, <1>3, GatewayAssumption DEF Spawn, GwTypeOK, OneClient
  <2> QED BY <2>1, <2>2 DEF GwInv
<1>4. ASSUME NEW p \in Procs, GwConnects(p) PROVE GwInv'
  <2>1. GwTypeOK'
    BY <1>1, <1>4 DEF GwConnects, GwTypeOK
  <2>2. gwOverlapped' \/ OneClient'
    BY <1>1, <1>4, GatewayAssumption DEF GwConnects, GwTypeOK, OneClient
  <2> QED BY <2>1, <2>2 DEF GwInv
<1>5. ASSUME NEW p \in Procs, GwConnectFails(p) PROVE GwInv'
  <2>1. GwTypeOK'
    BY <1>1, <1>5 DEF GwConnectFails, GwTypeOK, NoCall
  <2>2. gwOverlapped' \/ OneClient'
    BY <1>1, <1>5, GatewayAssumption DEF GwConnectFails, GwTypeOK, OneClient
  <2> QED BY <2>1, <2>2 DEF GwInv
<1>6. ASSUME NEW p \in Procs, GatewayDies(p) PROVE GwInv'
  BY <1>1, <1>6 DEF GatewayDies, GwInv, GwTypeOK, OneClient
<1>7. ASSUME NEW k \in GwClosers, CloseGateway(k) PROVE GwInv'
  <2>1. gwClient \in Procs /\ gwClient # NoProc
    BY <1>1, <1>7 DEF CloseGateway, GwTypeOK
  <2>2. GwTypeOK'
    <3>1. gwOverlapped' \in BOOLEAN
      BY <1>7 DEF CloseGateway
    <3> QED BY <1>1, <1>7, <2>1, <3>1 DEF CloseGateway, GwTypeOK
  <2>3. ASSUME ~gwOverlapped' PROVE OneClient'
    <3>1. OneClient /\ \A j \in GwClosers : gwClose[j] = NoProc
      BY <1>1, <1>7, <2>3 DEF CloseGateway
    <3> QED BY <1>1, <1>7, <2>1, <3>1 DEF CloseGateway, GwTypeOK, OneClient
  <2> QED BY <2>2, <2>3 DEF GwInv
<1>8. ASSUME NEW k \in GwClosers, GatewayClosed(k) PROVE GwInv'
  <2>1. GwTypeOK'
    BY <1>1, <1>8 DEF GatewayClosed, GwTypeOK
  <2>2. gwOverlapped' \/ OneClient'
    BY <1>1, <1>8, GatewayAssumption DEF GatewayClosed, GwTypeOK, OneClient
  <2> QED BY <2>1, <2>2 DEF GwInv
<1>9. CASE UNCHANGED gwVars
  BY <1>1, <1>9 DEF gwVars, GwInv, GwTypeOK, OneClient
<1> QED
  BY <1>2, <1>3, <1>4, <1>5, <1>6, <1>7, <1>8, <1>9 DEF GwStep

-----------------------------------------------------------------------------
(* The clients of the daemon and of the trio *)

\* The transport is idle whenever nobody is connected or connecting, also once the
\* await of a close is over.
TransportKept ==
  /\ transport = "starting" <=> dcJoining
  /\ transport = "started" => dcConnected
  /\ dcJoining => ~dcConnected
  /\ closing => dcConnected /\ transport = "idle"

DcInv == DcTypeOK /\ TransportKept /\ TransportStartedOnce /\ TrioOwned

LEMMA DcStarts == DcInit => DcInv
BY DEF DcInit, DcInv, DcTypeOK, TransportKept, TransportStartedOnce, TrioOwned

LEMMA DcKeeps == DcInv /\ [DcStep]_dcVars => DcInv'
<1> SUFFICES ASSUME DcInv, [DcStep]_dcVars PROVE DcInv'
  OBVIOUS
<1> USE DEF DcInv, TransportKept, TransportStartedOnce
<1>1. ASSUME NEW r \in Requests, EnsureConnected(r) PROVE DcInv'
  <2>1. DcTypeOK'
    BY <1>1 DEF EnsureConnected, DcTypeOK, trioVars
  <2>2. TransportKept' /\ TransportStartedOnce'
    BY <1>1 DEF EnsureConnected, DcTypeOK
  <2>3. TrioOwned'
    BY <1>1 DEF EnsureConnected, trioVars, TrioOwned
  <2> QED BY <2>1, <2>2, <2>3
<1>2. ASSUME NEW r \in Requests, RequestSettles(r) PROVE DcInv'
  BY <1>2 DEF RequestSettles, DcTypeOK, TrioOwned, trioVars
<1>3. CASE DaemonConnects \/ DaemonConnectFails
  <2>1. DcTypeOK'
    BY <1>3 DEF DaemonConnects, DaemonConnectFails, Waiting, DcTypeOK, trioVars
  <2>2. TransportKept' /\ TransportStartedOnce'
    BY <1>3 DEF DaemonConnects, DaemonConnectFails, DcTypeOK
  <2>3. TrioOwned'
    BY <1>3 DEF DaemonConnects, DaemonConnectFails, TrioOwned, trioVars
  <2> QED BY <2>1, <2>2, <2>3
<1>4. CASE DaemonDies \/ CloseDaemonClient \/ DaemonClientClosed
  <2>1. DcTypeOK'
    BY <1>4 DEF DaemonDies, CloseDaemonClient, DaemonClientClosed, DcTypeOK, trioVars
  <2>2. TransportKept' /\ TransportStartedOnce'
    BY <1>4 DEF DaemonDies, CloseDaemonClient, DaemonClientClosed, DcTypeOK
  <2>3. TrioOwned'
    BY <1>4 DEF DaemonDies, CloseDaemonClient, DaemonClientClosed, TrioOwned, trioVars
  <2> QED BY <2>1, <2>2, <2>3
<1>5. CASE ConnectAll \/ DisconnectAll
  BY <1>5 DEF ConnectAll, DisconnectAll, DcTypeOK, TrioOwned, consoleVars
<1>6. ASSUME NEW s \in Servers, ServerConnects(s) PROVE DcInv'
  BY <1>6 DEF ServerConnects, DcTypeOK, TrioOwned, consoleVars
<1>7. ASSUME NEW s \in Servers, ServerConnectFails(s) PROVE DcInv'
  BY <1>7 DEF ServerConnectFails, DcTypeOK, TrioOwned, consoleVars
<1>8. ASSUME NEW s \in Servers, ServerCloses(s) PROVE DcInv'
  BY <1>8 DEF ServerCloses, DcTypeOK, TrioOwned, consoleVars
<1>9. CASE UNCHANGED dcVars
  BY <1>9 DEF dcVars, DcTypeOK, TrioOwned
<1> QED
  BY <1>1, <1>2, <1>3, <1>4, <1>5, <1>6, <1>7, <1>8, <1>9 DEF DcStep

-----------------------------------------------------------------------------
(* The scheduler *)

\* Among the rows of a persona there is an oldest one.
LEMMA Oldest ==
  ASSUME NEW S \in SUBSET Nat, S # {}
  PROVE  \E m \in S : \A n \in S : m <= n
<1> DEFINE R == {ss \in Nat \X Nat : ss[1] < ss[2]}
<1>1. IsWellFoundedOn(R, Nat)
  BY NatLessThanWellFounded DEF OpToRel
<1>2. PICK m \in S : \A n \in S : ~ (<<n, m>> \in R)
  <2> HIDE DEF R
  <2> QED BY <1>1, WFMin
<1>3. ASSUME NEW n \in S PROVE m <= n
  <2>1. ~ (<<n, m>> \in R)
    BY <1>2
  <2>2. <<n, m>> \in Nat \X Nat
    OBVIOUS
  <2>3. ~ (n < m)
    BY <2>1, <2>2
  <2> QED BY <2>3
<1> QED
  BY <1>3

\* The row a tick is about to emit was marked by this tick and by no other, and has
\* not gone out; those that were lost are finitely many.
SchedKept ==
  /\ stage = "emit" => row[found].status = "delivered" /\ sent[found] = 0
  /\ IsFiniteSet(LostMc1)

SchedInv == SchedTypeOK /\ HooksKept /\ SchedKept

LEMMA SchedStarts == SchedInit => SchedInv
<1> SUFFICES ASSUME SchedInit PROVE SchedInv
  OBVIOUS
<1>1. Windows[1] \in Personas /\ Len(Windows) \in Nat
  BY SchedulerAssumption
<1>2. Unused \in [persona : Personas, status : {"unused", "pending", "delivered", "cancelled"}]
      /\ Unused.status = "unused"
  BY <1>1 DEF Unused
<1>3. 0 \in 0..(Day * Week - 1)
  <2>1. Day * Week \in Nat /\ Day * Week > 0
    BY SchedulerAssumption
  <2> QED BY <2>1
<1>4. SchedTypeOK
  <2> HIDE DEF Unused
  <2>1. row \in [Mc1Ids -> [persona : Personas,
                            status : {"unused", "pending", "delivered", "cancelled"}]]
    BY <1>2 DEF SchedInit
  <2>2. sinceHook \in [Personas -> 0..Cooldown] /\ hooksToday \in [Personas -> Nat]
        /\ sent \in [Mc1Ids -> Nat]
    BY SchedulerAssumption DEF SchedInit
  <2>3. 0 \in 0..Len(Windows) /\ 0 \in 0..MaxFaults
    BY <1>1, SchedulerAssumption
  <2> QED BY <1>3, <2>1, <2>2, <2>3 DEF SchedInit, SchedTypeOK
<1>5. LostMc1 = {}
  <2> HIDE DEF Unused
  <2> QED BY <1>2 DEF SchedInit, LostMc1
<1>6. HooksKept
  <2>1. \A m \in Mc1Ids : sent[m] = 0
    BY DEF SchedInit
  <2>2. Cardinality(LostMc1) = 0 /\ faults = 0
    BY <1>5, FS_EmptySet DEF SchedInit
  <2> QED BY <2>1, <2>2 DEF HooksKept
<1> QED
  BY <1>4, <1>5, <1>6, FS_EmptySet DEF SchedInit, SchedInv, SchedKept

\* GoOn keeps the place of the tick.
LEMMA GoOnType ==
  ASSUME SchedTypeOK, at > 0, GoOn
  PROVE  /\ at' \in 0..Len(Windows) /\ (at' = 0) = (stage' = "idle")
         /\ stage' \in {"idle", "vetoes"} /\ ticked' \in BOOLEAN
<1>1. at \in 0..Len(Windows) /\ Len(Windows) \in Nat /\ ticked \in BOOLEAN
  BY SchedulerAssumption DEF SchedTypeOK
<1>2. CASE at = Len(Windows)
  BY <1>1, <1>2 DEF GoOn
<1>3. CASE at # Len(Windows)
  <2>1. at' = at + 1 /\ stage' = "vetoes" /\ ticked' = ticked
    BY <1>3 DEF GoOn
  <2> QED BY <1>1, <1>3, <2>1
<1> QED BY <1>2, <1>3

\* A hook that is emitted.
LEMMA HookEmittedType ==
  ASSUME SchedTypeOK, NEW p \in Personas, HookEmitted(p)
  PROVE  sinceHook' \in [Personas -> 0..Cooldown] /\ hooksToday' \in [Personas -> Nat]
<1>1. /\ sinceHook \in [Personas -> 0..Cooldown] /\ hooksToday \in [Personas -> Nat]
      /\ Cooldown \in Nat
  BY SchedulerAssumption DEF SchedTypeOK
<1>2. 0 \in 0..Cooldown /\ hooksToday[p] + 1 \in Nat
  BY <1>1
<1> QED
  BY <1>1, <1>2 DEF HookEmitted

\* The persona of the tick.
LEMMA CurrentType ==
  ASSUME SchedTypeOK, at > 0
  PROVE  Current \in Personas
<1>1. at \in 1..Len(Windows)
  BY SchedulerAssumption DEF SchedTypeOK
<1> QED BY <1>1, SchedulerAssumption DEF Current

\* The slot and the counters of the hooks after a slot.
LEMMA TimeType ==
  ASSUME SchedTypeOK, TimePasses
  PROVE  /\ now' \in 0..(Day * Week - 1)
         /\ sinceHook' \in [Personas -> 0..Cooldown] /\ hooksToday' \in [Personas -> Nat]
<1> DEFINE slots == Day * Week
<1>1. slots \in Nat /\ slots > 0
  BY SchedulerAssumption
<1>2. now' = (now + 1) % slots /\ now \in Nat
  BY <1>1 DEF TimePasses, SchedTypeOK
<1>3. now' \in 0..(slots - 1)
  <2> HIDE DEF slots
  <2> QED BY <1>1, <1>2
<1>4. sinceHook' \in [Personas -> 0..Cooldown]
  <2>1. sinceHook \in [Personas -> 0..Cooldown] /\ Cooldown \in Nat
    BY SchedulerAssumption DEF SchedTypeOK
  <2>2. \A p \in Personas :
          (IF sinceHook[p] < Cooldown THEN sinceHook[p] + 1 ELSE Cooldown) \in 0..Cooldown
    BY <2>1
  <2> QED BY <2>2 DEF TimePasses
<1>5. hooksToday' \in [Personas -> Nat]
  BY DEF TimePasses, SchedTypeOK
<1> QED BY <1>3, <1>4, <1>5

\* Every step of the scheduler keeps the types.
LEMMA SchedTypes == SchedTypeOK /\ [SchedStep]_schedVars => SchedTypeOK'
<1> SUFFICES ASSUME SchedTypeOK, [SchedStep]_schedVars PROVE SchedTypeOK'
  OBVIOUS
<1>1. /\ row \in [Mc1Ids -> [persona : Personas,
                             status : {"unused", "pending", "delivered", "cancelled"}]]
      /\ sent \in [Mc1Ids -> Nat] /\ found \in Mc1Ids \cup {0}
      /\ at \in 0..Len(Windows) /\ Len(Windows) \in Nat /\ Len(Windows) > 0
      /\ faults \in 0..MaxFaults /\ MaxFaults \in Nat
  <2>1. Len(Windows) \in Nat /\ Len(Windows) > 0
    BY SchedulerAssumption
  <2> QED BY <2>1, SchedulerAssumption DEF SchedTypeOK
<1>2. stage \in {"mark", "emit", "gates", "vetoes"} => at > 0
  BY <1>1 DEF SchedTypeOK
<1>3. CASE StartTick
  BY <1>1, <1>3 DEF StartTick, SchedTypeOK
<1>4. CASE Suppress
  BY <1>4, GoOnType DEF Suppress, SchedTypeOK
<1>5. CASE NextPending
  <2>1. CASE PendingOf(Current) = {}
    BY <1>5, <2>1 DEF NextPending, SchedTypeOK
  <2>2. CASE PendingOf(Current) # {}
    <3>1. PendingOf(Current) \in SUBSET Nat
      BY SchedulerAssumption DEF PendingOf
    <3>2. \E m \in PendingOf(Current) : \A n \in PendingOf(Current) : m <= n
      BY <2>2, <3>1, Oldest
    <3>3. found' \in Mc1Ids /\ stage' = "mark"
      BY <1>5, <2>2, <3>2 DEF NextPending, PendingOf
    <3>4. found' # 0
      BY <3>3, SchedulerAssumption
    <3> QED BY <1>5, <3>3, <3>4 DEF NextPending, SchedTypeOK
  <2> QED BY <2>1, <2>2
<1>6. CASE MarkDelivered
  BY <1>1, <1>6 DEF MarkDelivered, SchedTypeOK
<1>7. CASE EmitMc1
  <2>1. found \in Mc1Ids /\ at > 0
    BY <1>1, <1>2, <1>7 DEF EmitMc1, SchedTypeOK
  <2>2. sent' \in [Mc1Ids -> Nat]
    BY <1>1, <1>7, <2>1 DEF EmitMc1
  <2> QED BY <1>7, <2>1, <2>2, CurrentType, HookEmittedType, GoOnType DEF EmitMc1, SchedTypeOK
<1>8. CASE EmitHook
  BY <1>2, <1>8, CurrentType, HookEmittedType, GoOnType DEF EmitHook, SchedTypeOK
<1>9. CASE Hold
  BY <1>2, <1>9, GoOnType DEF Hold, SchedTypeOK
<1>10. CASE SinkThrows
  <2>1. sent' \in [Mc1Ids -> Nat]
    <3>1. CASE stage = "emit"
      <4>1. found \in Mc1Ids
        BY <1>1, <3>1 DEF SchedTypeOK
      <4>2. PICK out \in {0, 1} : sent' = [sent EXCEPT ![found] = @ + out]
        BY <1>10, <3>1 DEF SinkThrows
      <4> QED BY <1>1, <4>1, <4>2
    <3>2. CASE stage # "emit"
      BY <1>1, <1>10, <3>2 DEF SinkThrows
    <3> QED BY <3>1, <3>2
  <2>2. faults' \in 0..MaxFaults /\ 0 \in 0..Len(Windows)
    BY <1>1, <1>10 DEF SinkThrows
  <2> QED BY <1>10, <2>1, <2>2 DEF SinkThrows, SchedTypeOK
<1>11. CASE Crash
  <2>1. faults' \in 0..MaxFaults /\ 0 \in 0..Len(Windows)
    BY <1>1, <1>11 DEF Crash
  <2>2. sinceHook' \in [Personas -> 0..Cooldown] /\ hooksToday' \in [Personas -> Nat]
    BY <1>11, SchedulerAssumption DEF Crash
  <2> QED BY <1>11, <2>1, <2>2 DEF Crash, SchedTypeOK
<1>12. CASE TimePasses
  BY <1>12, TimeType DEF TimePasses, SchedTypeOK
<1>13. ASSUME NEW p \in Personas, ScheduleMc1(p) PROVE SchedTypeOK'
  <2>1. row' \in [Mc1Ids -> [persona : Personas,
                             status : {"unused", "pending", "delivered", "cancelled"}]]
    BY <1>1, <1>13 DEF ScheduleMc1
  <2> QED BY <1>13, <2>1 DEF ScheduleMc1, SchedTypeOK
<1>14. ASSUME NEW p \in Personas, CancelPending(p) PROVE SchedTypeOK'
  <2>1. row' \in [Mc1Ids -> [persona : Personas,
                             status : {"unused", "pending", "delivered", "cancelled"}]]
    BY <1>1, <1>14 DEF CancelPending
  <2> QED BY <1>14, <2>1 DEF CancelPending, SchedTypeOK
<1>15. ASSUME NEW m \in Mc1Ids, DeliveredByAnother(m) PROVE SchedTypeOK'
  <2>1. row' \in [Mc1Ids -> [persona : Personas,
                             status : {"unused", "pending", "delivered", "cancelled"}]]
        /\ sent' \in [Mc1Ids -> Nat]
    BY <1>1, <1>15 DEF DeliveredByAnother
  <2> QED BY <1>15, <2>1 DEF DeliveredByAnother, SchedTypeOK
<1>16. CASE UNCHANGED schedVars
  BY <1>16 DEF schedVars, SchedTypeOK
<1> QED
  BY <1>3, <1>4, <1>5, <1>6, <1>7, <1>8, <1>9, <1>10, <1>11, <1>12, <1>13, <1>14, <1>15,
     <1>16 DEF SchedStep, TickStep

\* What SchedKept says of the messages as they are.
LEMMA SentOnce ==
  ASSUME SchedInv
  PROVE  /\ sent \in [Mc1Ids -> Nat] /\ faults \in Nat
         /\ \A m \in Mc1Ids : sent[m] <= (IF row[m].status = "delivered" THEN 1 ELSE 0)
         /\ \A m \in Mc1Ids : row[m].status # "delivered" => sent[m] = 0
         /\ IsFiniteSet(LostMc1) /\ Cardinality(LostMc1) \in Nat
         /\ Cardinality(LostMc1) <= faults
         /\ stage \in {"mark", "emit"} => found \in Mc1Ids
<1>1. SchedTypeOK /\ HooksKept /\ SchedKept
  BY DEF SchedInv
<1>2. sent \in [Mc1Ids -> Nat] /\ faults \in Nat
  <2>1. faults \in 0 .. MaxFaults /\ MaxFaults \in Nat
    BY <1>1, SchedulerAssumption DEF SchedTypeOK
  <2>2. faults \in Nat
    BY <2>1
  <2> QED BY <1>1, <2>2 DEF SchedTypeOK
<1>4. stage \in {"mark", "emit"} => found \in Mc1Ids
  <2>1. found \in Mc1Ids \cup {0} /\ (stage \in {"mark", "emit"} => found # 0)
    BY <1>1 DEF SchedTypeOK
  <2> QED BY <2>1
<1>3. \A m \in Mc1Ids : row[m].status # "delivered" => sent[m] = 0
  BY <1>1, <1>2 DEF HooksKept
<1> QED
  BY <1>1, <1>2, <1>3, <1>4, FS_CardinalityType DEF HooksKept, SchedKept

\* A step that delivers nothing and cuts no delivery short loses none.
LEMMA NoneLost ==
  ASSUME SchedInv, SchedTypeOK', faults' = faults,
         \A m \in Mc1Ids : row'[m].status = "delivered" => row[m].status = "delivered",
         \A m \in Mc1Ids : row[m].status = "delivered" => row'[m].status = "delivered",
         sent' = sent, stage # "emit", stage' # "emit"
  PROVE  SchedInv'
<1>1. LostMc1' = LostMc1
  BY DEF LostMc1
<1>2. HooksKept'
  BY <1>1, SentOnce DEF HooksKept
<1>3. SchedKept'
  BY <1>1, SentOnce DEF SchedKept
<1> QED
  BY <1>2, <1>3 DEF SchedInv

\* A fault loses the message that is on its way, or none.
LEMMA OneLost ==
  ASSUME SchedInv, SchedTypeOK', faults' = faults + 1, UNCHANGED row, stage' # "emit",
         stage = "emit" =>
           \E out \in {0, 1} : sent' = [sent EXCEPT ![found] = @ + out],
         stage # "emit" => sent' = sent
  PROVE  SchedInv'
<1>1. /\ sent \in [Mc1Ids -> Nat] /\ faults \in Nat
      /\ IsFiniteSet(LostMc1) /\ Cardinality(LostMc1) \in Nat
      /\ Cardinality(LostMc1) <= faults
      /\ \A m \in Mc1Ids : sent[m] <= (IF row[m].status = "delivered" THEN 1 ELSE 0)
  BY SentOnce
<1>2. LostMc1' \subseteq LostMc1 \cup {found}
  <2>1. CASE stage = "emit"
    <3>1. PICK out \in {0, 1} : sent' = [sent EXCEPT ![found] = @ + out]
      BY <2>1
    <3>2. \A m \in Mc1Ids \ {found} : sent'[m] = sent[m]
      BY <1>1, <3>1
    <3> QED BY <3>2 DEF LostMc1
  <2>2. CASE stage # "emit"
    BY <2>2 DEF LostMc1
  <2> QED BY <2>1, <2>2
<1>3. IsFiniteSet(LostMc1') /\ Cardinality(LostMc1') <= faults'
  <2>1. IsFiniteSet(LostMc1 \cup {found})
        /\ Cardinality(LostMc1 \cup {found}) <= faults'
    <3>1. IsFiniteSet(LostMc1 \cup {found})
          /\ Cardinality(LostMc1 \cup {found}) = IF found \in LostMc1
                                                 THEN Cardinality(LostMc1)
                                                 ELSE Cardinality(LostMc1) + 1
      BY <1>1, FS_AddElement
    <3>2. Cardinality(LostMc1 \cup {found}) <= faults + 1
      BY <1>1, <3>1
    <3> QED BY <3>1, <3>2
  <2>2. IsFiniteSet(LostMc1') /\ Cardinality(LostMc1') <= Cardinality(LostMc1 \cup {found})
    BY <1>2, <2>1, FS_Subset
  <2>3. Cardinality(LostMc1') \in Nat /\ Cardinality(LostMc1 \cup {found}) \in Nat
    BY <2>1, <2>2, FS_CardinalityType
  <2> QED BY <1>1, <2>1, <2>2, <2>3
<1>4. \A m \in Mc1Ids : sent'[m] <= (IF row'[m].status = "delivered" THEN 1 ELSE 0)
  <2>1. CASE stage = "emit"
    <3>1. PICK out \in {0, 1} : sent' = [sent EXCEPT ![found] = @ + out]
      BY <2>1
    <3>2. row[found].status = "delivered" /\ sent[found] = 0 /\ found \in Mc1Ids
      BY <2>1, SentOnce DEF SchedInv, SchedKept
    <3> QED BY <1>1, <3>1, <3>2
  <2>2. CASE stage # "emit"
    BY <1>1, <2>2
  <2> QED BY <2>1, <2>2
<1> QED
  BY <1>3, <1>4 DEF SchedInv, HooksKept, SchedKept

\* The steps that deliver a message, or mark one.
LEMMA DeliveriesKept ==
  ASSUME SchedInv, SchedTypeOK',
         MarkDelivered \/ EmitMc1 \/ \E m \in Mc1Ids : DeliveredByAnother(m)
  PROVE  SchedInv'
<1>1. /\ sent \in [Mc1Ids -> Nat] /\ faults \in Nat
      /\ IsFiniteSet(LostMc1) /\ Cardinality(LostMc1) \in Nat
      /\ Cardinality(LostMc1) <= faults
      /\ \A m \in Mc1Ids : sent[m] <= (IF row[m].status = "delivered" THEN 1 ELSE 0)
      /\ \A m \in Mc1Ids : row[m].status # "delivered" => sent[m] = 0
      /\ stage \in {"mark", "emit"} => found \in Mc1Ids
  BY SentOnce
<1>2. row \in [Mc1Ids -> [persona : Personas,
                          status : {"unused", "pending", "delivered", "cancelled"}]]
  BY DEF SchedInv, SchedTypeOK
<1>3. SchedKept
  BY DEF SchedInv
<1>4. ASSUME faults' = faults, LostMc1' = LostMc1,
             \A m \in Mc1Ids : sent'[m] <= (IF row'[m].status = "delivered" THEN 1 ELSE 0),
             stage' = "emit" => row'[found'].status = "delivered" /\ sent'[found'] = 0
      PROVE  SchedInv'
  BY <1>1, <1>4 DEF SchedInv, HooksKept, SchedKept
<1>5. CASE MarkDelivered /\ row[found].status = "pending"
  <2>1. /\ found \in Mc1Ids /\ sent[found] = 0 /\ UNCHANGED <<found, sent, faults>>
        /\ stage = "mark" /\ stage' = "emit"
        /\ row' = [row EXCEPT ![found].status = "delivered"]
    BY <1>1, <1>5 DEF MarkDelivered
  <2>2. /\ row'[found].status = "delivered"
        /\ \A m \in Mc1Ids \ {found} : row'[m] = row[m]
    BY <1>2, <2>1
  <2>3. LostMc1' = LostMc1
    BY <1>5, <2>1, <2>2 DEF LostMc1
  <2> QED BY <1>1, <1>4, <2>1, <2>2, <2>3
<1>6. CASE MarkDelivered /\ row[found].status # "pending"
  BY <1>6, NoneLost DEF MarkDelivered
<1>7. CASE EmitMc1
  <2>1. /\ stage = "emit" /\ found \in Mc1Ids /\ stage' \in {"idle", "vetoes"}
        /\ sent' = [sent EXCEPT ![found] = @ + 1] /\ UNCHANGED <<row, faults>>
    BY <1>1, <1>7 DEF EmitMc1, GoOn
  <2>2. sent[found] = 0 /\ row[found].status = "delivered"
    BY <1>3, <2>1 DEF SchedKept
  <2>3. sent'[found] = 1 /\ \A m \in Mc1Ids \ {found} : sent'[m] = sent[m]
    BY <1>1, <2>1, <2>2
  <2>4. LostMc1' = LostMc1
    BY <2>1, <2>3 DEF LostMc1
  <2> QED BY <1>1, <1>4, <2>1, <2>2, <2>3, <2>4
<1>8. ASSUME NEW m \in Mc1Ids, DeliveredByAnother(m) PROVE SchedInv'
  <2>1. /\ row[m].status = "pending" /\ UNCHANGED <<stage, found, faults>>
        /\ row' = [row EXCEPT ![m].status = "delivered"]
        /\ sent' = [sent EXCEPT ![m] = @ + 1]
    BY <1>8 DEF DeliveredByAnother
  <2>2. /\ row'[m].status = "delivered" /\ sent[m] = 0 /\ sent'[m] = 1
        /\ \A n \in Mc1Ids \ {m} : row'[n] = row[n] /\ sent'[n] = sent[n]
    BY <1>1, <1>2, <2>1
  <2>3. LostMc1' = LostMc1
    BY <2>1, <2>2 DEF LostMc1
  <2>4. stage = "emit" => found # m /\ found \in Mc1Ids
    BY <1>1, <1>3, <2>1 DEF SchedKept
  <2> QED BY <1>1, <1>3, <1>4, <2>1, <2>2, <2>3, <2>4 DEF SchedKept
<1> QED
  BY <1>5, <1>6, <1>7, <1>8

\* Every step of the scheduler keeps its invariant.
LEMMA SchedKeeps == SchedInv /\ [SchedStep]_schedVars => SchedInv'
<1> SUFFICES ASSUME SchedInv, [SchedStep]_schedVars PROVE SchedInv'
  OBVIOUS
<1>1. SchedTypeOK /\ SchedTypeOK'
  BY SchedTypes DEF SchedInv
<1>2. /\ row \in [Mc1Ids -> [persona : Personas,
                             status : {"unused", "pending", "delivered", "cancelled"}]]
      /\ (at = 0) = (stage = "idle")
  BY <1>1 DEF SchedTypeOK
<1>3. CASE StartTick \/ TimePasses
  BY <1>1, <1>2, <1>3, NoneLost DEF StartTick, TimePasses
<1>4. CASE Suppress \/ NextPending \/ EmitHook \/ Hold
  BY <1>1, <1>4, NoneLost DEF Suppress, NextPending, EmitHook, Hold, GoOn
<1>5. CASE MarkDelivered \/ EmitMc1 \/ \E m \in Mc1Ids : DeliveredByAnother(m)
  BY <1>1, <1>5, DeliveriesKept
<1>6. CASE SinkThrows
  BY <1>1, <1>6, OneLost DEF SinkThrows
<1>7. CASE Crash
  <2>1. stage = "emit" => sent' = [sent EXCEPT ![found] = @ + 0]
    BY <1>1, <1>7 DEF Crash, SchedTypeOK
  <2> QED BY <1>1, <1>7, <2>1, OneLost DEF Crash
<1>8. ASSUME UNCHANGED <<stage, found, faults, sent>>,
             \A m \in Mc1Ids : row'[m].status = "delivered" <=> row[m].status = "delivered"
      PROVE  SchedInv'
  <2>1. LostMc1' = LostMc1
    BY <1>8 DEF LostMc1
  <2>2. HooksKept'
    BY <1>8, <2>1 DEF SchedInv, HooksKept
  <2>3. stage = "emit" => found \in Mc1Ids
    BY SentOnce
  <2>4. SchedKept'
    BY <1>8, <2>1, <2>3 DEF SchedInv, SchedKept
  <2> QED BY <1>1, <2>2, <2>4 DEF SchedInv
<1>9. ASSUME NEW p \in Personas, ScheduleMc1(p) PROVE SchedInv'
  <2>1. PICK m \in Mc1Ids :
          /\ row[m].status = "unused"
          /\ row' = [row EXCEPT ![m] = [persona |-> p, status |-> "pending"]]
    BY <1>9 DEF ScheduleMc1
  <2>2. \A n \in Mc1Ids : row'[n].status = "delivered" <=> row[n].status = "delivered"
    BY <1>2, <2>1
  <2> QED BY <1>8, <1>9, <2>2 DEF ScheduleMc1
<1>10. ASSUME NEW p \in Personas, CancelPending(p) PROVE SchedInv'
  <2>1. \A n \in Mc1Ids : row'[n].status = "delivered" <=> row[n].status = "delivered"
    BY <1>2, <1>10 DEF CancelPending, PendingOf
  <2> QED BY <1>8, <1>10, <2>1 DEF CancelPending
<1>11. CASE UNCHANGED schedVars
  BY <1>8, <1>11 DEF schedVars
<1> QED
  BY <1>3, <1>4, <1>5, <1>6, <1>7, <1>9, <1>10, <1>11 DEF SchedStep, TickStep

-----------------------------------------------------------------------------
(* The index of the traces *)

Batches == UNION {[D -> 0 .. MaxDiscoveries] : D \in SUBSET Files}

\* The shape of a scan, which TraceTypeOK says in part.
ScanTypeOK ==
  scan \in [Scans -> [at : {"idle", "reading"}, todo : SUBSET Files, batch : Batches]]

\* No scan and no row is ahead of the files, and a file that is being written has room.
NotAhead ==
  /\ \A f \in Files : index[f] <= newest[f] /\ newest[f] <= traceFile[f]
  /\ \A f \in writing : traceFile[f] < MaxDiscoveries
  /\ \A s \in Scans : \A f \in DOMAIN scan[s].batch : scan[s].batch[f] <= traceFile[f]

\* A scan that has yet to read the file, or has read what it holds.
Carries(s, f) ==
  /\ scan[s].at = "reading"
  /\ \/ f \in scan[s].todo
     \/ f \in DOMAIN scan[s].batch /\ scan[s].batch[f] = traceFile[f]

\* What a file holds was in the index, or something is under way that puts it there, or
\* no one heard of it.
UnderWay(f) ==
  \/ newest[f] = traceFile[f] \/ f \in unheard
  \/ event \/ debounce \/ f \in writing \/ \E s \in Scans : Carries(s, f)

TraceInv ==
  /\ TraceTypeOK /\ ScanTypeOK
  /\ NotAhead
  /\ event => watching
  /\ \A f \in Files : UnderWay(f)

LEMMA RestFollows == TraceInv => RestsOnFiles
<1> SUFFICES ASSUME TraceInv, AtRest, NEW f \in Files
             PROVE  index[f] = traceFile[f] \/ index[f] < newest[f] \/ f \in unheard
  BY DEF RestsOnFiles
<1>1. newest[f] = traceFile[f] \/ f \in unheard
  BY DEF TraceInv, UnderWay, Carries, AtRest
<1>2. index[f] <= newest[f] /\ index[f] \in Nat /\ newest[f] \in Nat
  BY DEF TraceInv, TraceTypeOK, NotAhead
<1> QED
  BY <1>1, <1>2

LEMMA NothingRead ==
  /\ [f \in {} |-> 0] \in Batches
  /\ NoScan \in [at : {"idle", "reading"}, todo : SUBSET Files, batch : Batches]
  /\ \A listed \in Walks :
       ScanOf(listed) \in [at : {"idle", "reading"}, todo : SUBSET Files, batch : Batches]
<1>1. [f \in {} |-> 0] \in [{} -> 0 .. MaxDiscoveries]
  OBVIOUS
<1>2. [f \in {} |-> 0] \in Batches
  BY <1>1 DEF Batches
<1> QED
  BY <1>2 DEF NoScan, ScanOf, Walks

LEMMA TraceStarts == TraceInit => TraceInv
<1> SUFFICES ASSUME TraceInit PROVE TraceInv
  OBVIOUS
<1>1. PICK first \in Scans, listed \in Walks :
        scan = [s \in Scans |-> IF s = first THEN ScanOf(listed) ELSE NoScan]
  BY DEF TraceInit
<1>2. ScanTypeOK
  BY <1>1, NothingRead DEF ScanTypeOK
<1>3. \A s \in Scans : scan[s].batch = [f \in {} |-> 0]
  BY <1>1 DEF NoScan, ScanOf
<1>4. /\ traceFile \in [Files -> {0, 1}] /\ writing = {} /\ newest = index
      /\ index = [f \in Files |-> 0] /\ event \in BOOLEAN /\ debounce \in BOOLEAN
      /\ watching \in BOOLEAN /\ unheard = {}
  BY DEF TraceInit
<1>5. TraceTypeOK
  <2>1. {0, 1} \subseteq 0 .. MaxDiscoveries
    BY TraceAssumption
  <2>2. /\ traceFile \in [Files -> 0 .. MaxDiscoveries] /\ index \in [Files -> 0 .. MaxDiscoveries]
        /\ newest \in [Files -> 0 .. MaxDiscoveries]
    BY <1>4, <2>1
  <2>3. \A s \in Scans : /\ scan[s].at \in {"idle", "reading"} /\ scan[s].todo \subseteq Files
                         /\ DOMAIN scan[s].batch \subseteq Files
    BY <1>1 DEF NoScan, ScanOf, Walks
  <2> QED BY <1>4, <2>2, <2>3 DEF TraceTypeOK
<1>6. NotAhead
  BY <1>3, <1>4 DEF NotAhead
<1>7. scan[first].at = "reading" /\ scan[first].todo = listed
  BY <1>1 DEF ScanOf
<1>8. ASSUME NEW f \in Files PROVE UnderWay(f)
  <2>1. CASE traceFile[f] = 0
    BY <1>4, <2>1 DEF UnderWay
  <2>2. CASE traceFile[f] # 0
    BY <1>1, <1>7, <2>2 DEF UnderWay, Carries, Walks
  <2> QED BY <2>1, <2>2
<1>9. ~event
  BY DEF TraceInit
<1> QED
  BY <1>2, <1>5, <1>6, <1>8, <1>9 DEF TraceInv

\* What a step does that begins a scan, or none.
LEMMA BeginsType ==
  ASSUME ScanTypeOK, NEW s \in Scans, Begin(s)
  PROVE  /\ ScanTypeOK'
         /\ \E listed \in Walks :
              \A t \in Scans : scan'[t] = (IF t = s THEN ScanOf(listed) ELSE scan[t])
         /\ scan[s].at = "idle"
<1>1. PICK listed \in Walks : scan' = [scan EXCEPT ![s] = ScanOf(listed)] /\ scan[s].at = "idle"
  BY DEF Begin
<1> QED
  BY <1>1, NothingRead DEF ScanTypeOK

\* A scan that begins will read every file there is, and takes the place of none.
LEMMA BeginKeeps ==
  ASSUME TraceInv, NEW s \in Scans, Begin(s), event' = event, debounce' \in BOOLEAN,
         UNCHANGED <<traceFile, writing, watching, index, newest>>
  PROVE  TraceInv'
<1>1. ScanTypeOK /\ ScanTypeOK' /\ unheard' = {}
  BY BeginsType DEF TraceInv, Begin
<1>2. PICK listed \in Walks :
        \A t \in Scans : scan'[t] = (IF t = s THEN ScanOf(listed) ELSE scan[t])
  BY BeginsType DEF TraceInv
<1>3. TraceTypeOK'
  <2>1. \A t \in Scans : /\ scan'[t].at \in {"idle", "reading"} /\ scan'[t].todo \subseteq Files
                         /\ DOMAIN scan'[t].batch \subseteq Files
    BY <1>2 DEF TraceInv, TraceTypeOK, ScanOf, Walks
  <2> QED BY <1>1, <2>1 DEF TraceInv, TraceTypeOK
<1>4. NotAhead'
  <2>1. DOMAIN ScanOf(listed).batch = {}
    BY DEF ScanOf
  <2>2. \A t \in Scans : \A f \in DOMAIN scan'[t].batch : scan'[t].batch[f] <= traceFile[f]
    BY <1>2, <2>1 DEF TraceInv, NotAhead
  <2> QED BY <2>2 DEF TraceInv, NotAhead
<1>5. ASSUME NEW f \in Files PROVE UnderWay(f)'
  <2>1. scan'[s].at = "reading" /\ scan'[s].todo = listed
    BY <1>2 DEF ScanOf
  <2>2. CASE traceFile[f] # 0
    BY <2>1, <2>2 DEF UnderWay, Carries, Walks
  <2>3. CASE traceFile[f] = 0
    BY <2>3, TraceAssumption DEF UnderWay, TraceInv, NotAhead, TraceTypeOK
  <2> QED BY <2>2, <2>3
<1> QED
  BY <1>1, <1>3, <1>4, <1>5 DEF TraceInv

\* A scan that reads a file holds what is in it, if anything is.
LEMMA ReadKeeps ==
  ASSUME TraceInv, NEW s \in Scans, ReadTrace(s)
  PROVE  TraceInv'
<1> PICK f \in scan[s].todo :
      scan' = [scan EXCEPT ![s] = [at |-> "reading", todo |-> @.todo \ {f},
                                   batch |-> ReadInto(@.batch, f)]]
  BY DEF ReadTrace
<1> DEFINE old == scan[s].batch
           new == ReadInto(old, f)
<1>1. UNCHANGED <<traceFile, writing, watching, event, debounce, index, newest, unheard>>
  BY DEF ReadTrace
<1>2. /\ scan \in [Scans -> [at : {"idle", "reading"}, todo : SUBSET Files, batch : Batches]]
      /\ traceFile \in [Files -> 0 .. MaxDiscoveries] /\ f \in Files
  BY DEF TraceInv, ScanTypeOK, TraceTypeOK
<1>3. old \in Batches /\ DOMAIN old \subseteq Files /\ old \in [DOMAIN old -> 0 .. MaxDiscoveries]
  BY <1>2 DEF Batches
<1>4. /\ new \in Batches /\ DOMAIN new \subseteq Files
      /\ \A g \in DOMAIN old \ {f} : g \in DOMAIN new /\ new[g] = old[g]
      /\ \A g \in DOMAIN new : (g \in DOMAIN old /\ new[g] = old[g])
                               \/ (g = f /\ new[g] = traceFile[f])
      /\ f \notin writing /\ traceFile[f] # 0 => f \in DOMAIN new /\ new[f] = traceFile[f]
  <2>1. CASE f \in writing \/ traceFile[f] = 0
    <3>1. new = old
      BY <2>1 DEF ReadInto
    <3> HIDE DEF new
    <3> QED BY <1>3, <2>1, <3>1
  <2>2. CASE ~(f \in writing \/ traceFile[f] = 0)
    <3> DEFINE D == DOMAIN old \cup {f}
    <3>1. new = [g \in D |-> IF g = f THEN traceFile[f] ELSE old[g]]
      BY <2>2 DEF ReadInto
    <3> HIDE DEF new
    <3>2. D \in SUBSET Files
      BY <1>2, <1>3
    <3>4. \A g \in D : (IF g = f THEN traceFile[f] ELSE old[g]) \in 0 .. MaxDiscoveries
      BY <1>2, <1>3
    <3>5. new \in [D -> 0 .. MaxDiscoveries]
      BY <3>1, <3>4
    <3>3. new \in Batches
      BY <3>2, <3>5 DEF Batches
    <3>6. DOMAIN new = D /\ \A g \in D : new[g] = IF g = f THEN traceFile[f] ELSE old[g]
      BY <3>1
    <3> QED BY <3>2, <3>3, <3>6
  <2> QED BY <2>1, <2>2
<1>5. /\ scan'[s] = [at |-> "reading", todo |-> scan[s].todo \ {f}, batch |-> new]
      /\ \A t \in Scans \ {s} : scan'[t] = scan[t]
      /\ DOMAIN scan' = Scans
      /\ scan' = [t \in Scans |-> scan'[t]]
  BY <1>2
<1> HIDE DEF old, new
<1>6. ScanTypeOK'
  <2>1. \A t \in Scans :
          scan'[t] \in [at : {"idle", "reading"}, todo : SUBSET Files, batch : Batches]
    BY <1>2, <1>4, <1>5
  <2> QED BY <1>5, <2>1 DEF ScanTypeOK
<1>7. TraceTypeOK'
  <2>1. \A t \in Scans : /\ scan'[t].at \in {"idle", "reading"} /\ scan'[t].todo \subseteq Files
                         /\ DOMAIN scan'[t].batch \subseteq Files
    BY <1>4, <1>5 DEF TraceInv, TraceTypeOK
  <2> QED BY <1>1, <2>1 DEF TraceInv, TraceTypeOK
<1>8. NotAhead'
  <2>1. \A g \in DOMAIN old : old[g] <= traceFile[g]
    BY DEF TraceInv, NotAhead, old
  <2>2. traceFile[f] <= traceFile[f]
    BY <1>2, TraceAssumption
  <2>3. \A t \in Scans : \A g \in DOMAIN scan'[t].batch : scan'[t].batch[g] <= traceFile[g]
    BY <1>4, <1>5, <2>1, <2>2 DEF TraceInv, NotAhead
  <2> QED BY <1>1, <2>3 DEF TraceInv, NotAhead
<1>9. ASSUME NEW g \in Files PROVE UnderWay(g)'
  <2>1. CASE newest[g] = traceFile[g] \/ event \/ debounce \/ g \in writing \/ g \in unheard
    BY <1>1, <2>1 DEF UnderWay
  <2>2. CASE newest[g] # traceFile[g] /\ g \notin writing /\ \E t \in Scans : Carries(t, g)
    <3>1. PICK t \in Scans : Carries(t, g)
      BY <2>2
    <3>2. traceFile[g] # 0
      BY <1>2, <2>2, TraceAssumption DEF TraceInv, NotAhead, TraceTypeOK
    <3>3. CASE t # s
      BY <1>1, <1>5, <3>1, <3>3 DEF UnderWay, Carries
    <3>4. CASE t = s
      <4>1. scan'[s].at = "reading"
        BY <1>5, <3>1, <3>4 DEF Carries
      <4>2. g \in scan'[s].todo \/ (g \in DOMAIN new /\ new[g] = traceFile[g])
        BY <1>4, <1>5, <2>2, <3>1, <3>2, <3>4 DEF Carries, old
      <4> QED BY <1>1, <1>5, <4>1, <4>2 DEF UnderWay, Carries
    <3> QED BY <3>3, <3>4
  <2> QED BY <2>1, <2>2 DEF TraceInv, UnderWay
<1> QED
  BY <1>1, <1>6, <1>7, <1>8, <1>9 DEF TraceInv

\* A scan that commits has carried all it read into the index.
LEMMA CommitKeeps ==
  ASSUME TraceInv, NEW s \in Scans, Commit(s)
  PROVE  TraceInv'
<1> DEFINE b == scan[s].batch
<1>1. /\ scan[s].at = "reading" /\ scan[s].todo = {}
      /\ index' = [f \in Files |-> IF f \in DOMAIN b THEN b[f] ELSE index[f]]
      /\ scan' = [scan EXCEPT ![s] = NoScan]
      /\ newest' = [f \in Files |-> IF index'[f] > newest[f] THEN index'[f] ELSE newest[f]]
      /\ UNCHANGED <<traceFile, writing, watching, event, debounce, unheard>>
  BY DEF Commit, Indexed
<1>2. /\ scan \in [Scans -> [at : {"idle", "reading"}, todo : SUBSET Files, batch : Batches]]
      /\ traceFile \in [Files -> 0 .. MaxDiscoveries] /\ index \in [Files -> 0 .. MaxDiscoveries]
      /\ newest \in [Files -> 0 .. MaxDiscoveries]
  BY DEF TraceInv, ScanTypeOK, TraceTypeOK
<1>3. /\ ScanTypeOK' /\ scan'[s] = NoScan /\ \A t \in Scans \ {s} : scan'[t] = scan[t]
  BY <1>1, <1>2, NothingRead DEF ScanTypeOK
<1>4. DOMAIN b \subseteq Files /\ b \in [DOMAIN b -> 0 .. MaxDiscoveries]
      /\ \A f \in DOMAIN b : b[f] <= traceFile[f]
  BY <1>2 DEF Batches, TraceInv, NotAhead
<1> HIDE DEF b
<1>5. index' \in [Files -> 0 .. MaxDiscoveries] /\ newest' \in [Files -> 0 .. MaxDiscoveries]
  BY <1>1, <1>2, <1>4
<1>6. TraceTypeOK'
  <2>1. \A t \in Scans : /\ scan'[t].at \in {"idle", "reading"} /\ scan'[t].todo \subseteq Files
                         /\ DOMAIN scan'[t].batch \subseteq Files
    BY <1>3 DEF TraceInv, TraceTypeOK, NoScan
  <2> QED BY <1>1, <1>5, <2>1 DEF TraceInv, TraceTypeOK
<1>7. NotAhead'
  <2>1. ASSUME NEW f \in Files PROVE index'[f] <= newest'[f] /\ newest'[f] <= traceFile[f]
    <3>1. /\ index[f] \in Nat /\ newest[f] \in Nat /\ traceFile[f] \in Nat
          /\ index'[f] \in Nat /\ newest'[f] \in Nat
      BY <1>2, <1>5, TraceAssumption
    <3>2. index[f] <= newest[f] /\ newest[f] <= traceFile[f]
      BY DEF TraceInv, NotAhead
    <3>3. index'[f] <= traceFile[f]
      BY <1>1, <1>4, <3>1, <3>2
    <3>4. newest'[f] = IF index'[f] > newest[f] THEN index'[f] ELSE newest[f]
      BY <1>1
    <3> QED BY <3>1, <3>2, <3>3, <3>4
  <2>2. \A t \in Scans : \A f \in DOMAIN scan'[t].batch : scan'[t].batch[f] <= traceFile[f]
    BY <1>3 DEF TraceInv, NotAhead, NoScan
  <2> QED BY <1>1, <2>1, <2>2 DEF TraceInv, NotAhead
<1>8. ASSUME NEW f \in Files PROVE UnderWay(f)'
  <2>1. /\ newest[f] \in Nat /\ newest[f] <= traceFile[f] /\ traceFile[f] \in Nat
        /\ index'[f] \in Nat /\ newest'[f] \in Nat /\ newest'[f] <= traceFile[f]
    BY <1>1, <1>2, <1>5, <1>7, TraceAssumption DEF TraceInv, NotAhead
  <2>2. newest'[f] = IF index'[f] > newest[f] THEN index'[f] ELSE newest[f]
    BY <1>1
  <2>3. CASE newest[f] = traceFile[f]
    <3>1. newest'[f] = traceFile[f]
      BY <2>1, <2>2, <2>3
    <3> QED BY <1>1, <3>1 DEF UnderWay
  <2>4. CASE event \/ debounce \/ f \in writing \/ f \in unheard
    BY <1>1, <2>4 DEF UnderWay
  <2>5. ASSUME NEW t \in Scans \ {s}, Carries(t, f) PROVE UnderWay(f)'
    BY <1>1, <1>3, <2>5 DEF UnderWay, Carries
  <2>6. CASE Carries(s, f)
    <3>1. index'[f] = traceFile[f]
      BY <1>1, <2>6 DEF Carries, b
    <3>2. newest'[f] = traceFile[f]
      BY <2>1, <2>2, <3>1
    <3> QED BY <1>1, <3>2 DEF UnderWay
  <2> QED BY <2>3, <2>4, <2>5, <2>6 DEF TraceInv, UnderWay
<1> QED
  BY <1>1, <1>3, <1>6, <1>7, <1>8 DEF TraceInv

\* Every step of the writers, the watcher and the scans keeps the invariant.
LEMMA TraceKeeps == TraceInv /\ [TraceStep]_traceVars => TraceInv'
<1> SUFFICES ASSUME TraceInv, [TraceStep]_traceVars PROVE TraceInv'
  OBVIOUS
<1>1. ASSUME UNCHANGED <<traceFile, writing, watching, scan, index, newest, unheard>>,
             event' \in BOOLEAN, debounce' \in BOOLEAN,
             event' => event, event \/ debounce => event' \/ debounce'
      PROVE  TraceInv'
  <2>1. TraceTypeOK' /\ ScanTypeOK'
    BY <1>1 DEF TraceInv, TraceTypeOK, ScanTypeOK
  <2>2. NotAhead'
    BY <1>1 DEF TraceInv, NotAhead
  <2>3. \A f \in Files : UnderWay(f)'
    BY <1>1 DEF TraceInv, UnderWay, Carries
  <2>4. event' => watching'
    BY <1>1 DEF TraceInv
  <2> QED BY <2>1, <2>2, <2>3, <2>4 DEF TraceInv
<1>2. event \in BOOLEAN /\ debounce \in BOOLEAN
  BY DEF TraceInv, TraceTypeOK
<1>3. CASE Watched
  BY <1>1, <1>3 DEF Watched
<1>4. CASE Debounced
  BY <1>2, <1>4, BeginKeeps DEF Debounced
<1>5. CASE Rescan
  BY <1>2, <1>5, BeginKeeps DEF Rescan
<1>6. ASSUME NEW f \in Files, BeginWrite(f) PROVE TraceInv'
  <2>1. /\ traceFile[f] < MaxDiscoveries /\ writing' = writing \cup {f} /\ event' = watching
        /\ UNCHANGED <<traceFile, watching, debounce, scan, index, newest, unheard>>
    BY <1>6 DEF BeginWrite
  <2>2. TraceTypeOK' /\ ScanTypeOK'
    BY <2>1 DEF TraceInv, TraceTypeOK, ScanTypeOK
  <2>3. NotAhead'
    BY <2>1 DEF TraceInv, NotAhead
  <2>4. ASSUME NEW g \in Files PROVE UnderWay(g)'
    <3>1. CASE watching
      BY <2>1, <3>1 DEF UnderWay
    <3>2. CASE ~watching
      BY <2>1, <3>2 DEF TraceInv, UnderWay, Carries
    <3> QED BY <3>1, <3>2
  <2> QED BY <2>1, <2>2, <2>3, <2>4 DEF TraceInv
<1>7. ASSUME NEW f \in Files, EndWrite(f) PROVE TraceInv'
  <2>1. /\ f \in writing /\ writing' = writing \ {f} /\ event' = watching
        /\ traceFile' = [traceFile EXCEPT ![f] = @ + 1]
        /\ unheard' = IF watching THEN unheard ELSE unheard \cup {f}
        /\ UNCHANGED <<watching, debounce, scan, index, newest>>
    BY <1>7 DEF EndWrite
  <2>2. /\ traceFile \in [Files -> 0 .. MaxDiscoveries] /\ newest \in [Files -> 0 .. MaxDiscoveries]
        /\ scan \in [Scans -> [at : {"idle", "reading"}, todo : SUBSET Files, batch : Batches]]
    BY DEF TraceInv, TraceTypeOK, ScanTypeOK
  <2>3. traceFile[f] < MaxDiscoveries /\ traceFile[f] \in Nat /\ MaxDiscoveries \in Nat
    BY <2>1, <2>2, TraceAssumption DEF TraceInv, NotAhead
  <2>4. traceFile[f] + 1 \in 0 .. MaxDiscoveries
    BY <2>3
  <2>5. traceFile' \in [Files -> 0 .. MaxDiscoveries]
    BY <2>1, <2>2, <2>4
  <2>6. TraceTypeOK' /\ ScanTypeOK'
    BY <2>1, <2>5 DEF TraceInv, TraceTypeOK, ScanTypeOK
  <2>7. NotAhead'
    <3>1. \A g \in Files : newest[g] <= traceFile'[g]
      BY <2>1, <2>2, <2>3, TraceAssumption DEF TraceInv, NotAhead
    <3>2. \A t \in Scans : \A g \in DOMAIN scan[t].batch :
            g \in Files /\ scan[t].batch[g] \in Nat
      BY <2>2, TraceAssumption DEF Batches
    <3>3. \A t \in Scans : \A g \in DOMAIN scan[t].batch : scan[t].batch[g] <= traceFile'[g]
      BY <2>1, <2>2, <2>3, <3>2 DEF TraceInv, NotAhead
    <3>4. \A g \in writing' : traceFile'[g] < MaxDiscoveries
      BY <2>1, <2>2 DEF TraceInv, NotAhead
    <3> QED BY <2>1, <3>1, <3>3, <3>4 DEF TraceInv, NotAhead
  <2>8. ASSUME NEW g \in Files PROVE UnderWay(g)'
    <3>1. CASE watching
      BY <2>1, <3>1 DEF UnderWay
    <3>2. CASE g = f /\ ~watching
      BY <2>1, <3>2 DEF UnderWay
    <3>3. CASE g # f /\ ~watching
      BY <2>1, <2>2, <3>3 DEF TraceInv, UnderWay, Carries
    <3> QED BY <3>1, <3>2, <3>3
  <2> QED BY <2>1, <2>6, <2>7, <2>8 DEF TraceInv
<1>8. ASSUME NEW s \in Scans, ReadTrace(s) \/ Commit(s) PROVE TraceInv'
  BY <1>8, ReadKeeps, CommitKeeps
<1>9. CASE UNCHANGED traceVars
  BY <1>1, <1>2, <1>9 DEF traceVars
<1> QED
  BY <1>3, <1>4, <1>5, <1>6, <1>7, <1>8, <1>9 DEF TraceStep

-----------------------------------------------------------------------------
(* The live view of a session *)

Event == [turn : TurnNumbers, phase : TurnPhases, number : 0 .. MaxPushed]

StreamTyped ==
  /\ StreamTypeOK
  /\ bucket \in [events : Seq(Event), totalEmitted : Nat]
  /\ wire \in Seq(Event \cup {Failure})
  /\ bucket.totalEmitted <= pushedCount /\ Len(bucket.events) <= bucket.totalEmitted
  /\ bucket.events = <<>> => bucket.totalEmitted = 0

\* The snapshot is what the first m of the events make of any snapshot (Shows).
Upto(snapshot, events, m) ==
  /\ snapshot.turn = events[m].turn
  /\ snapshot.last = events[m].number
  /\ \A i \in 1 .. m :
       (/\ \A j \in i .. m : events[j].turn = events[i].turn
        /\ \A j \in i + 1 .. m : events[j].phase # events[i].phase)
       => snapshot.fields[events[i].phase] = events[i].number

\* How many of the buffered events the stream has asked for.
Asked(events, total, next) ==
  IF next > total - Len(events) THEN next - (total - Len(events)) ELSE 0

\* Of the first n of the buffer, those on the line are the last of the line, and
\* the page shows the others.
Follows(events, n, line1, snapshot) ==
  /\ n \in 0 .. Len(events)
  /\ \A i \in 1 .. n : i + Len(line1) > n => line1[i + Len(line1) - n] = events[i]
  /\ n > Len(line1) => Upto(snapshot, events, n - Len(line1))

Following ==
  line = "polling" /\ stale = "no" =>
    /\ nextIndex <= bucket.totalEmitted
    /\ Follows(bucket.events, Asked(bucket.events, bucket.totalEmitted, nextIndex), wire, shown)

StreamInv == StreamTyped /\ Following

\* A failure bears no turn.
LEMMA FailureApart ==
  \A x \in Event : x # Failure /\ x.turn \in TurnNumbers /\ x.phase \in TurnPhases
                  /\ x.number \in 0 .. MaxPushed
<1>1. 0 \notin TurnNumbers
  BY StreamAssumption
<1>2. Failure.turn = 0
  BY DEF Failure
<1> QED
  BY <1>1, <1>2 DEF Event

Snapshots == [turn : TurnNumbers \cup {0}, last : 0 .. MaxPushed,
              fields : [TurnPhases -> 0 .. MaxPushed]]

\* A single event, whatever was shown before.
LEMMA FirstShown ==
  ASSUME NEW e \in Seq(Event), Len(e) >= 1,
         NEW v \in Snapshots
  PROVE  Upto(Apply(e[1], v), e, 1)
<1>1. e[1] \in Event /\ e[1] # Failure
  BY FailureApart
<1> DEFINE base == IF v.turn = e[1].turn THEN v ELSE [NoTurn EXCEPT !.turn = e[1].turn]
           new == [base EXCEPT !.last = e[1].number, !.fields[e[1].phase] = e[1].number]
<1>2. Apply(e[1], v) = new
  BY <1>1 DEF Apply
<1>3. base.turn = e[1].turn /\ base \in Snapshots
  <2>1. 0 \in 0 .. MaxPushed
    BY StreamAssumption
  <2> QED BY <1>1, <2>1, FailureApart DEF NoTurn, Snapshots
<1> HIDE DEF base
<1>4. new.turn = e[1].turn /\ new.last = e[1].number /\ new.fields[e[1].phase] = e[1].number
  BY <1>1, <1>3, FailureApart DEF Snapshots
<1> QED
  BY <1>2, <1>4 DEF Upto

\* One more event, on top of those that are shown.
LEMMA NextShown ==
  ASSUME NEW e \in Seq(Event), NEW m \in 2 .. Len(e), NEW v \in Snapshots,
         Upto(v, e, m - 1)
  PROVE  Upto(Apply(e[m], v), e, m)
<1> DEFINE base == IF v.turn = e[m].turn THEN v ELSE [NoTurn EXCEPT !.turn = e[m].turn]
           new == [base EXCEPT !.last = e[m].number, !.fields[e[m].phase] = e[m].number]
<1>1. m \in 1 .. Len(e) /\ m - 1 \in 1 .. Len(e) /\ m \in Nat
  OBVIOUS
<1>2. e[m] \in Event /\ e[m] # Failure
  BY <1>1, FailureApart
<1>3. Apply(e[m], v) = new
  BY <1>2 DEF Apply
<1>4. base.turn = e[m].turn /\ base \in Snapshots
  <2>1. 0 \in 0 .. MaxPushed
    BY StreamAssumption
  <2> QED BY <1>2, <2>1, FailureApart DEF NoTurn, Snapshots
<1> DEFINE fields == base.fields
<1>5. v.turn = e[m].turn => base = v
  OBVIOUS
<1> HIDE DEF base
<1>6. /\ new.turn = e[m].turn /\ new.last = e[m].number
      /\ new.fields = [fields EXCEPT ![e[m].phase] = e[m].number]
      /\ fields \in [TurnPhases -> 0 .. MaxPushed]
  BY <1>2, <1>4, FailureApart DEF Snapshots
<1>7. ASSUME NEW i \in 1 .. m,
             \A j \in i .. m : e[j].turn = e[i].turn,
             \A j \in i + 1 .. m : e[j].phase # e[i].phase
      PROVE  new.fields[e[i].phase] = e[i].number
  <2>1. CASE i = m
    BY <1>2, <1>6, <2>1, FailureApart
  <2>2. CASE i # m
    <3>1. i \in 1 .. (m - 1) /\ i \in 1 .. Len(e) /\ m - 1 \in i .. m /\ m \in i .. m
          /\ m \in i + 1 .. m
      BY <1>1, <2>2
    <3>2. e[m - 1].turn = e[i].turn /\ e[m].turn = e[i].turn /\ e[m].phase # e[i].phase
      BY <1>7, <3>1
    <3>3. base = v
      BY <1>5, <3>2 DEF Upto
    <3>4. /\ \A j \in i .. m - 1 : e[j].turn = e[i].turn
          /\ \A j \in i + 1 .. m - 1 : e[j].phase # e[i].phase
      BY <1>1, <1>7
    <3>5. v.fields[e[i].phase] = e[i].number
      BY <3>1, <3>4 DEF Upto
    <3>6. e[i].phase \in TurnPhases
      BY <3>1, FailureApart
    <3> QED BY <1>6, <3>2, <3>3, <3>5, <3>6
  <2> QED BY <2>1, <2>2
<1> QED
  BY <1>3, <1>6, <1>7 DEF Upto

\* The first event of a full buffer is dropped: the others keep their order.
LEMMA OldestDropped ==
  ASSUME NEW e \in Seq(Event), NEW f \in Seq(Event), NEW m \in 2 .. Len(e), NEW v,
         \A i \in 2 .. m : f[i - 1] = e[i],
         Upto(v, e, m)
  PROVE  Upto(v, f, m - 1)
<1>1. m \in Nat /\ m - 1 \in Nat
  OBVIOUS
<1>2. v.turn = f[m - 1].turn /\ v.last = f[m - 1].number
  BY <1>1 DEF Upto
<1>3. ASSUME NEW i \in 1 .. m - 1,
             \A j \in i .. m - 1 : f[j].turn = f[i].turn,
             \A j \in i + 1 .. m - 1 : f[j].phase # f[i].phase
      PROVE  v.fields[f[i].phase] = f[i].number
  <2> DEFINE k == i + 1
  <2>1. k \in 2 .. m /\ k \in 1 .. m /\ f[i] = e[k]
    BY <1>1
  <2>2. ASSUME NEW j \in k .. m PROVE e[j].turn = e[k].turn
    <3>1. j \in 2 .. m /\ j - 1 \in i .. m - 1
      BY <1>1
    <3>2. f[j - 1] = e[j]
      BY <3>1
    <3> QED BY <1>3, <2>1, <3>1, <3>2
  <2>3. ASSUME NEW j \in k + 1 .. m PROVE e[j].phase # e[k].phase
    <3>1. j \in 2 .. m /\ j - 1 \in i + 1 .. m - 1
      BY <1>1
    <3>2. f[j - 1] = e[j]
      BY <3>1
    <3> QED BY <1>3, <2>1, <3>1, <3>2
  <2> HIDE DEF k
  <2> QED BY <2>1, <2>2, <2>3 DEF Upto
<1> QED
  BY <1>2, <1>3 DEF Upto

\* What is shown of the first m events does not depend on those behind.
LEMMA LaterAdded ==
  ASSUME NEW e \in Seq(Event), NEW f \in Seq(Event), NEW m \in 1 .. Len(e), NEW v,
         \A i \in 1 .. m : f[i] = e[i],
         Upto(v, e, m)
  PROVE  Upto(v, f, m)
<1>1. v.turn = f[m].turn /\ v.last = f[m].number
  BY DEF Upto
<1>2. ASSUME NEW i \in 1 .. m,
             \A j \in i .. m : f[j].turn = f[i].turn,
             \A j \in i + 1 .. m : f[j].phase # f[i].phase
      PROVE  v.fields[f[i].phase] = f[i].number
  <2>1. \A j \in i .. m : e[j].turn = e[i].turn
    BY <1>2
  <2>2. \A j \in i + 1 .. m : e[j].phase # e[i].phase
    BY <1>2
  <2> QED BY <2>1, <2>2 DEF Upto
<1> QED
  BY <1>1, <1>2 DEF Upto

\* The bounds of the types.
LEMMA StreamNumbers ==
  ASSUME StreamTyped
  PROVE  /\ bucket.events \in Seq(Event) /\ Len(bucket.events) \in Nat
         /\ bucket.totalEmitted \in Nat /\ pushedCount \in Nat /\ nextIndex \in Nat
         /\ MaxPushed \in Nat /\ pushedCount <= MaxPushed
         /\ BufferCap \in Nat \ {0} /\ Len(bucket.events) <= BufferCap
         /\ bucket.totalEmitted <= pushedCount /\ Len(bucket.events) <= bucket.totalEmitted
         /\ wire \in Seq(Event \cup {Failure}) /\ Len(wire) \in Nat
         /\ shown \in Snapshots
<1>1. MaxPushed \in Nat /\ BufferCap \in Nat \ {0}
  BY StreamAssumption
<1>2. /\ pushedCount \in 0 .. MaxPushed /\ nextIndex \in 0 .. MaxPushed
      /\ Len(bucket.events) <= BufferCap
  BY DEF StreamTyped, StreamTypeOK
<1>3. shown \in Snapshots
  BY DEF StreamTyped, StreamTypeOK, Snapshots
<1>4. /\ bucket.events \in Seq(Event) /\ bucket.totalEmitted \in Nat
      /\ bucket.totalEmitted <= pushedCount /\ Len(bucket.events) <= bucket.totalEmitted
      /\ wire \in Seq(Event \cup {Failure})
  BY DEF StreamTyped
<1>5. Len(bucket.events) \in Nat /\ Len(wire) \in Nat
  BY <1>4
<1>6. pushedCount \in Nat /\ nextIndex \in Nat /\ pushedCount <= MaxPushed
  BY <1>1, <1>2
<1> QED
  BY <1>1, <1>2, <1>3, <1>4, <1>5, <1>6

\* A snapshot of a page that is caught up shows what the buffer holds.
LEMMA PageShows == StreamInv => PageFollows
<1> SUFFICES ASSUME StreamInv, CaughtUp, bucket.events # <<>>, stale = "no"
             PROVE  ShowsBuffered
  BY DEF PageFollows
<1> DEFINE e == bucket.events
<1>1. /\ e \in Seq(Event) /\ Len(e) \in Nat /\ Len(e) > 0 /\ bucket.totalEmitted \in Nat
      /\ nextIndex = bucket.totalEmitted /\ Len(e) <= bucket.totalEmitted
      /\ wire = <<>> /\ Len(wire) = 0
  BY StreamNumbers DEF StreamInv, CaughtUp
<1>2. Asked(e, bucket.totalEmitted, nextIndex) = Len(e)
  <2> HIDE DEF e
  <2> QED BY <1>1 DEF Asked
<1>3. Follows(e, Len(e), wire, shown)
  BY <1>2 DEF StreamInv, Following, CaughtUp
<1> HIDE DEF e
<1>4. Upto(shown, e, Len(e))
  BY <1>1, <1>3 DEF Follows
<1>5. DOMAIN e = 1 .. Len(e)
  BY <1>1
<1>6. Shows(shown, e)
  BY <1>4, <1>5 DEF Upto, Shows, LastOfPhase
<1> QED
  BY <1>6 DEF ShowsBuffered, e

LEMMA StreamStarts == StreamInit => StreamInv
<1> SUFFICES ASSUME StreamInit PROVE StreamInv
  OBVIOUS
<1>1. 0 \in 0 .. MaxPushed /\ 0 \in 0 .. MaxFailures /\ 0 \in 0 .. MaxStops
  BY StreamAssumption
<1>2. shown \in Snapshots
  BY <1>1 DEF StreamInit, NoTurn, Snapshots
<1>3. /\ bucket.events = <<>> /\ bucket.totalEmitted = 0 /\ Len(bucket.events) = 0
      /\ wire = <<>> /\ 0 <= BufferCap
  BY StreamAssumption DEF StreamInit, EmptyStream
<1>4. StreamTypeOK
  BY <1>1, <1>2, <1>3 DEF StreamInit, StreamTypeOK, Snapshots
<1>5. bucket \in [events : Seq(Event), totalEmitted : Nat]
  BY DEF StreamInit, EmptyStream
<1>6. StreamTyped
  BY <1>3, <1>4, <1>5 DEF StreamTyped, StreamInit
<1>7. Following
  BY DEF StreamInit, Following
<1> QED
  BY <1>6, <1>7 DEF StreamInv

\* What the buffer holds after an event is pushed.
LEMMA PushedBuffer ==
  ASSUME StreamInv, NEW turn \in TurnNumbers, NEW phase \in TurnPhases, PushEvent(turn, phase)
  PROVE  /\ bucket' \in [events : Seq(Event), totalEmitted : Nat]
         /\ bucket'.totalEmitted = bucket.totalEmitted + 1
         /\ pushedCount' = pushedCount + 1 /\ pushedCount' <= MaxPushed
         /\ \/ /\ Len(bucket'.events) = Len(bucket.events) + 1
               /\ Len(bucket.events) < BufferCap
               /\ \A i \in 1 .. Len(bucket.events) : bucket'.events[i] = bucket.events[i]
            \/ /\ Len(bucket'.events) = Len(bucket.events)
               /\ Len(bucket.events) = BufferCap
               /\ \A i \in 2 .. Len(bucket.events) : bucket'.events[i - 1] = bucket.events[i]
<1> DEFINE e == bucket.events
           new == [turn |-> turn, phase |-> phase, number |-> pushedCount']
           grown == Append(e, new)
           over == IF Len(grown) > BufferCap THEN Len(grown) - BufferCap ELSE 0
           f == SubSeq(grown, over + 1, Len(grown))
<1>1. /\ pushedCount < MaxPushed /\ pushedCount' = pushedCount + 1
      /\ bucket' = [events |-> f, totalEmitted |-> bucket.totalEmitted + 1]
  BY DEF PushEvent
<1>2. /\ e \in Seq(Event) /\ Len(e) \in Nat /\ bucket.totalEmitted \in Nat /\ pushedCount \in Nat
      /\ MaxPushed \in Nat /\ BufferCap \in Nat \ {0} /\ Len(e) <= BufferCap
  BY StreamNumbers DEF StreamInv
<1>3. pushedCount' \in 0 .. MaxPushed
  BY <1>1, <1>2
<1>4. new \in Event
  BY <1>3 DEF Event
<1>5. bucket'.events = f /\ bucket'.totalEmitted = bucket.totalEmitted + 1
  BY <1>1
<1> HIDE DEF e, new
<1>6. /\ grown \in Seq(Event) /\ Len(grown) = Len(e) + 1
      /\ \A i \in 1 .. Len(e) : grown[i] = e[i]
  BY <1>2, <1>4
<1> HIDE DEF grown
<1>7. pushedCount' <= MaxPushed
  BY <1>1, <1>2
<1>8. CASE Len(e) < BufferCap
  <2>1. over = 0
    BY <1>2, <1>6, <1>8
  <2>2. f = SubSeq(grown, 1, Len(grown))
    BY <2>1
  <2> HIDE DEF over, f
  <2>3. f = grown
    BY <1>6, <2>2
  <2>4. bucket' \in [events : Seq(Event), totalEmitted : Nat]
    BY <1>1, <1>2, <1>6, <2>3
  <2> QED BY <1>1, <1>5, <1>6, <1>7, <1>8, <2>3, <2>4 DEF e
<1>9. CASE Len(e) = BufferCap
  <2>1. over = 1
    BY <1>2, <1>6, <1>9
  <2>2. f = SubSeq(grown, 2, Len(grown))
    BY <2>1
  <2> HIDE DEF over, f
  <2>3. 2 \in 1 .. Len(grown) /\ Len(grown) \in Nat
    BY <1>2, <1>6, <1>9
  <2>4. /\ f \in Seq(Event) /\ Len(f) = Len(e)
        /\ \A i \in 1 .. Len(e) : f[i] = grown[i + 1]
    BY <1>2, <1>6, <2>2, <2>3
  <2>5. \A i \in 2 .. Len(e) : f[i - 1] = e[i]
    <3> TAKE i \in 2 .. Len(e)
    <3>1. i - 1 \in 1 .. Len(e) /\ (i - 1) + 1 = i /\ i \in 1 .. Len(e)
      BY <1>2
    <3> QED BY <1>6, <2>4, <3>1
  <2>6. bucket' \in [events : Seq(Event), totalEmitted : Nat]
    BY <1>1, <1>2, <2>4
  <2> QED BY <1>1, <1>5, <1>7, <1>9, <2>4, <2>5, <2>6 DEF e
<1>10. Len(e) < BufferCap \/ Len(e) = BufferCap
  BY <1>2
<1> QED
  BY <1>8, <1>9, <1>10

\* A push does not disturb what the stream has asked for, but for the event it drops.
LEMMA PushFollows ==
  ASSUME NEW e \in Seq(Event), NEW f \in Seq(Event), NEW t \in Nat, NEW next \in Nat,
         NEW line1 \in Seq(Event \cup {Failure}), NEW v,
         Len(e) <= t, next <= t,
         \/ Len(f) = Len(e) + 1 /\ \A i \in 1 .. Len(e) : f[i] = e[i]
         \/ /\ Len(f) = Len(e) /\ Len(e) > 0
            /\ \A i \in 2 .. Len(e) : f[i - 1] = e[i],
         Follows(e, Asked(e, t, next), line1, v)
  PROVE  Follows(f, Asked(f, t + 1, next), line1, v)
<1> DEFINE n == Asked(e, t, next)
           k == Asked(f, t + 1, next)
           w == Len(line1)
<1>1. w \in Nat /\ Len(e) \in Nat /\ Len(f) \in Nat /\ n \in 0 .. Len(e)
  BY DEF Follows
<1>2. CASE Len(f) = Len(e) + 1 /\ \A i \in 1 .. Len(e) : f[i] = e[i]
  <2>1. k = n
    BY <1>1, <1>2 DEF Asked
  <2>2. \A i \in 1 .. n : i + w > n => line1[i + w - n] = f[i]
    BY <1>1, <1>2 DEF Follows
  <2>3. ASSUME n > w PROVE Upto(v, f, n - w)
    <3> DEFINE m == n - w
    <3>1. m \in 1 .. Len(e) /\ Upto(v, e, m)
      BY <1>1, <2>3 DEF Follows
    <3> HIDE DEF m, n, w
    <3>2. \A i \in 1 .. m : f[i] = e[i]
      BY <1>1, <1>2, <3>1
    <3>3. Upto(v, f, m)
      BY <3>1, <3>2, LaterAdded
    <3> QED BY <3>3 DEF m
  <2> HIDE DEF n, k, w
  <2>4. k \in 0 .. Len(f)
    BY <1>1, <1>2, <2>1
  <2> QED BY <2>1, <2>2, <2>3, <2>4 DEF Follows, k, w
<1>3. CASE Len(f) = Len(e) /\ Len(e) > 0 /\ \A i \in 2 .. Len(e) : f[i - 1] = e[i]
  <2>1. k = IF n > 0 THEN n - 1 ELSE 0
    BY <1>1, <1>3 DEF Asked
  <2>2. /\ \A i \in 1 .. n : i + w > n => line1[i + w - n] = e[i]
        /\ n > w => Upto(v, e, n - w)
    BY DEF Follows
  <2> HIDE DEF n, k, w
  <2>3. k \in 0 .. Len(f) /\ k \in Nat
    BY <1>1, <1>3, <2>1
  <2>4. ASSUME NEW i \in 1 .. k, i + w > k PROVE line1[i + w - k] = f[i]
    <3>1. i + 1 \in 1 .. n /\ i + 1 \in 2 .. Len(e) /\ (i + 1) + w > n
          /\ (i + 1) + w - n = i + w - k /\ (i + 1) - 1 = i
      BY <1>1, <2>1, <2>3, <2>4
    <3>2. line1[(i + 1) + w - n] = e[i + 1] /\ f[(i + 1) - 1] = e[i + 1]
      BY <1>3, <2>2, <3>1
    <3> QED BY <3>1, <3>2
  <2>5. ASSUME k > w PROVE Upto(v, f, k - w)
    <3> DEFINE m == n - w
    <3>1. m \in 2 .. Len(e) /\ m - 1 = k - w /\ n > w
      BY <1>1, <2>1, <2>3, <2>5
    <3>2. Upto(v, e, m)
      BY <2>2, <3>1
    <3> HIDE DEF m
    <3>3. \A i \in 2 .. m : f[i - 1] = e[i]
      BY <1>1, <1>3, <3>1
    <3>4. Upto(v, f, m - 1)
      BY <3>1, <3>2, <3>3, OldestDropped
    <3> QED BY <3>1, <3>4
  <2> QED BY <2>3, <2>4, <2>5 DEF Follows, k, w
<1> QED
  BY <1>2, <1>3

\* A poll puts on the line what the stream has not asked for, in order.
LEMMA PollFollows ==
  ASSUME NEW e \in Seq(Event), NEW n \in 0 .. Len(e), NEW line1 \in Seq(Event \cup {Failure}),
         NEW v, Follows(e, n, line1, v)
  PROVE  Follows(e, Len(e), line1 \o SubSeq(e, n + 1, Len(e)), v)
<1> DEFINE w == Len(line1)
           more == SubSeq(e, n + 1, Len(e))
           line2 == line1 \o more
<1>1. w \in Nat /\ Len(e) \in Nat /\ n \in Nat /\ n <= Len(e)
  OBVIOUS
<1>2. /\ more \in Seq(Event) /\ Len(more) = Len(e) - n
      /\ \A i \in n + 1 .. Len(e) : i - n \in 1 .. Len(more) /\ more[i - n] = e[i]
  BY <1>1
<1> HIDE DEF more
<1>3. /\ Len(line2) = w + (Len(e) - n)
      /\ \A i \in 1 .. w : line2[i] = line1[i]
      /\ \A i \in 1 .. Len(more) : line2[w + i] = more[i]
  <2>1. more \in Seq(Event \cup {Failure})
    BY <1>2
  <2>2. Len(line2) = w + Len(more)
    BY <2>1
  <2>3. \A i \in 1 .. w : line2[i] = line1[i]
    BY <1>1, <2>1
  <2>4. \A i \in 1 .. Len(more) : line2[w + i] = more[i]
    BY <1>1, <2>1
  <2> QED BY <1>2, <2>2, <2>3, <2>4
<1>4. /\ \A i \in 1 .. n : i + w > n => line1[i + w - n] = e[i]
      /\ n > w => Upto(v, e, n - w)
  BY DEF Follows
<1> DEFINE x == Len(line2)
<1> HIDE DEF line2, w
<1>5. /\ x \in Nat /\ Len(e) - x = n - w /\ (Len(e) > x <=> n > w)
      /\ \A i \in 1 .. Len(e) : i + x - Len(e) = i + w - n
  BY <1>1, <1>3
<1> HIDE DEF x
<1>6. ASSUME NEW i \in 1 .. Len(e), i + x > Len(e) PROVE line2[i + x - Len(e)] = e[i]
  <2>1. i + x - Len(e) = i + w - n /\ i + w > n
    BY <1>1, <1>5, <1>6
  <2>2. CASE i <= n
    <3>1. i \in 1 .. n /\ i + w - n \in 1 .. w
      BY <1>1, <2>1, <2>2
    <3> QED BY <1>3, <1>4, <2>1, <3>1
  <2>3. CASE i > n
    <3>1. i \in n + 1 .. Len(e) /\ i + w - n = w + (i - n)
      BY <1>1, <2>1, <2>3
    <3>2. line2[w + (i - n)] = more[i - n] /\ more[i - n] = e[i]
      BY <1>2, <1>3, <3>1
    <3> QED BY <2>1, <3>1, <3>2
  <2> QED BY <1>1, <2>2, <2>3
<1>7. Len(e) > x => Upto(v, e, Len(e) - x)
  BY <1>4, <1>5
<1>8. Len(e) \in 0 .. Len(e)
  BY <1>1
<1>9. Follows(e, Len(e), line2, v)
  BY <1>6, <1>7, <1>8 DEF Follows, x
<1> QED
  BY <1>9 DEF line2, more

\* What arrives is the next event of those the stream asked for, or comes before them.
LEMMA ReceiveFollows ==
  ASSUME NEW e \in Seq(Event), NEW n, NEW line1 \in Seq(Event \cup {Failure}), line1 # <<>>,
         NEW v \in Snapshots, Follows(e, n, line1, v)
  PROVE  Follows(e, n, Tail(line1), Apply(Head(line1), v))
<1> DEFINE w == Len(line1)
           u == Apply(line1[1], v)
<1>1. /\ w \in Nat /\ w > 0 /\ Len(e) \in Nat /\ n \in Nat /\ n <= Len(e)
      /\ Head(line1) = line1[1] /\ Len(Tail(line1)) = w - 1
      /\ \A i \in 1 .. w - 1 : Tail(line1)[i] = line1[i + 1]
  BY DEF Follows
<1>2. /\ \A i \in 1 .. n : i + w > n => line1[i + w - n] = e[i]
      /\ n > w => Upto(v, e, n - w)
  BY DEF Follows
<1> HIDE DEF w, u
<1>3. ASSUME NEW i \in 1 .. n, i + (w - 1) > n PROVE Tail(line1)[i + (w - 1) - n] = e[i]
  <2> DEFINE k == i + (w - 1) - n
  <2>1. k \in 1 .. w - 1 /\ k + 1 = i + w - n /\ i + w > n
    BY <1>1, <1>3
  <2> HIDE DEF k
  <2>2. Tail(line1)[k] = e[i]
    BY <1>1, <1>2, <2>1
  <2> QED BY <2>2 DEF k
<1>4. ASSUME n > w - 1 PROVE Upto(u, e, n - (w - 1))
  <2> DEFINE m == n - (w - 1)
  <2>1. m \in 1 .. n /\ m + w > n /\ m + w - n = 1 /\ m - 1 = n - w /\ (m > 1 <=> n > w)
    BY <1>1, <1>4
  <2> HIDE DEF m
  <2>2. line1[1] = e[m]
    BY <1>2, <2>1
  <2>3. CASE m = 1
    <3>1. Len(e) >= 1
      BY <1>1, <2>1, <2>3
    <3>2. Upto(Apply(e[1], v), e, 1)
      BY <3>1, FirstShown
    <3> QED BY <2>2, <2>3, <3>2 DEF u, m
  <2>4. CASE m > 1
    <3>1. m \in 2 .. Len(e) /\ Upto(v, e, m - 1)
      BY <1>1, <1>2, <2>1, <2>4
    <3>2. Upto(Apply(e[m], v), e, m)
      BY <3>1, NextShown
    <3> QED BY <2>2, <3>2 DEF u, m
  <2> QED BY <2>1, <2>3, <2>4
<1>5. n \in 0 .. Len(e)
  BY <1>1
<1>6. Len(Tail(line1)) = w - 1 /\ Head(line1) = line1[1]
  BY <1>1
<1> QED
  BY <1>3, <1>4, <1>5, <1>6 DEF Follows, u

\* What is applied leaves a snapshot.
LEMMA ApplyType ==
  ASSUME NEW x \in Event \cup {Failure}, NEW v \in Snapshots
  PROVE  Apply(x, v) \in Snapshots
<1>1. 0 \in 0 .. MaxPushed
  BY StreamAssumption
<1>2. NoTurn \in Snapshots
  BY <1>1 DEF NoTurn, Snapshots
<1>3. CASE x = Failure
  BY <1>2, <1>3 DEF Apply
<1>4. CASE x \in Event
  <2> DEFINE base == IF v.turn = x.turn THEN v ELSE [NoTurn EXCEPT !.turn = x.turn]
             last == [base EXCEPT !.last = x.number]
             fields == [last.fields EXCEPT ![x.phase] = x.number]
  <2>1. x # Failure /\ x.turn \in TurnNumbers /\ x.phase \in TurnPhases
        /\ x.number \in 0 .. MaxPushed
    BY <1>4, FailureApart
  <2>2. base \in Snapshots
    BY <1>1, <2>1 DEF NoTurn, Snapshots
  <2>3. Apply(x, v) = [base EXCEPT !.last = x.number, !.fields[x.phase] = x.number]
    BY <2>1 DEF Apply
  <2> HIDE DEF base
  <2>4. last \in Snapshots
    BY <2>1, <2>2 DEF Snapshots
  <2>5. Apply(x, v) = [last EXCEPT !.fields = fields]
    BY <2>2, <2>3 DEF Snapshots
  <2> HIDE DEF last
  <2>6. fields \in [TurnPhases -> 0 .. MaxPushed]
    BY <2>1, <2>4 DEF Snapshots
  <2> HIDE DEF fields
  <2> QED BY <2>4, <2>5, <2>6 DEF Snapshots
<1> QED
  BY <1>3, <1>4

LEMMA SinceType ==
  ASSUME StreamTyped, NEW next \in Nat
  PROVE  /\ Since(next) \in Seq(Event)
         /\ Since(next) = SubSeq(bucket.events,
                                 Asked(bucket.events, bucket.totalEmitted, next) + 1,
                                 Len(bucket.events))
         /\ Asked(bucket.events, bucket.totalEmitted, next) \in Nat
<1> DEFINE e == bucket.events
           n == Asked(e, bucket.totalEmitted, next)
<1>1. /\ e \in Seq(Event) /\ Len(e) \in Nat /\ bucket.totalEmitted \in Nat
      /\ Len(e) <= bucket.totalEmitted
  BY StreamNumbers
<1>2. Since(next) = SubSeq(e, n + 1, Len(e))
  BY DEF Since, Asked
<1> HIDE DEF e
<1>3. n \in Nat
  BY <1>1 DEF Asked
<1> HIDE DEF n
<1>4. SubSeq(e, n + 1, Len(e)) \in Seq(Event)
  <2>1. CASE n + 1 > Len(e)
    <3>1. SubSeq(e, n + 1, Len(e)) = <<>>
      BY <1>1, <1>3, <2>1
    <3>2. <<>> \in Seq(Event)
      OBVIOUS
    <3> QED BY <3>1, <3>2, Zenon
  <2>2. CASE n + 1 <= Len(e)
    <3> DEFINE k == n + 1
    <3>1. k \in 1 .. Len(e)
      BY <1>1, <1>3, <2>2
    <3> HIDE DEF k
    <3>2. SubSeq(e, k, Len(e)) \in Seq(Event)
      BY <1>1, <3>1
    <3> QED BY <3>2 DEF k
  <2> QED BY <1>1, <1>3, <2>1, <2>2
<1> QED
  BY <1>2, <1>3, <1>4 DEF e, n

\* The types of the stream and of the page, and what the buffer counts.
LEMMA StreamTypes ==
  ASSUME StreamInv, [StreamStep]_streamVars
  PROVE  StreamTyped'
<1>1. StreamTyped /\ StreamTypeOK
  BY DEF StreamInv, StreamTyped
<1>2. /\ wire \in Seq(Event \cup {Failure}) /\ shown \in Snapshots /\ nextIndex \in Nat
      /\ bucket.totalEmitted \in Nat /\ pushedCount \in Nat /\ MaxPushed \in Nat
      /\ pushedCount <= MaxPushed /\ bucket.totalEmitted <= pushedCount
  BY StreamNumbers, <1>1
<1>3. bucket.totalEmitted \in 0 .. MaxPushed /\ 0 \in 0 .. MaxPushed
  BY <1>2
<1>4. \A next \in Nat : Since(next) \in Seq(Event \cup {Failure})
  BY <1>1, SinceType
<1>5. Failure \in Event \cup {Failure}
  OBVIOUS
<1>6. Fails => troubles' \in [failures : 0 .. MaxFailures, stops : 0 .. MaxStops]
  <2> SUFFICES ASSUME Fails PROVE troubles'  \in [failures : 0 .. MaxFailures, stops : 0 .. MaxStops]
    OBVIOUS
  <2>1. /\ troubles.failures \in 0 .. MaxFailures /\ troubles.failures < MaxFailures
        /\ MaxFailures \in Nat
    BY <1>1, StreamAssumption DEF Fails, StreamTypeOK
  <2>2. troubles.failures + 1 \in 0 .. MaxFailures
    BY <2>1
  <2> QED BY <1>1, <2>2 DEF Fails, StreamTypeOK
<1>7. ASSUME UNCHANGED <<bucket, pushedCount>>,
             wire' \in Seq(Event \cup {Failure}), shown' \in Snapshots,
             nextIndex' \in 0 .. MaxPushed, line' \in {"opening", "polling", "ended"},
             stale' \in {"no", "index", "missed"},
             troubles' \in [failures : 0 .. MaxFailures, stops : 0 .. MaxStops]
      PROVE  StreamTyped'
  <2>1. StreamTypeOK'
    BY <1>1, <1>7 DEF StreamTypeOK, Snapshots
  <2> QED BY <1>1, <1>7, <2>1 DEF StreamTyped
<1>8. /\ nextIndex \in 0 .. MaxPushed /\ line \in {"opening", "polling", "ended"}
      /\ stale \in {"no", "index", "missed"}
      /\ troubles \in [failures : 0 .. MaxFailures, stops : 0 .. MaxStops]
  BY <1>1 DEF StreamTypeOK
<1>9. ASSUME NEW turn \in TurnNumbers, NEW phase \in TurnPhases, PushEvent(turn, phase)
      PROVE  StreamTyped'
  <2>1. /\ bucket' \in [events : Seq(Event), totalEmitted : Nat]
        /\ bucket'.totalEmitted = bucket.totalEmitted + 1
        /\ pushedCount' = pushedCount + 1 /\ pushedCount' <= MaxPushed
        /\ Len(bucket'.events) \in {Len(bucket.events), Len(bucket.events) + 1}
        /\ Len(bucket'.events) <= BufferCap
    BY <1>1, <1>9, PushedBuffer, StreamNumbers
  <2>2. /\ bucket'.totalEmitted \in 0 .. MaxPushed /\ pushedCount' \in 0 .. MaxPushed
        /\ bucket'.totalEmitted <= pushedCount'
        /\ Len(bucket'.events) <= bucket'.totalEmitted
    BY <1>1, <1>2, <2>1, StreamNumbers
  <2>3. UNCHANGED <<line, nextIndex, wire, shown, troubles, stale>>
    BY <1>9 DEF PushEvent
  <2>4. StreamTypeOK'
    BY <1>1, <2>1, <2>2, <2>3 DEF StreamTypeOK
  <2>5. bucket'.events # <<>>
    <3>1. Len(bucket'.events) > 0
      BY <1>1, <1>9, PushedBuffer, StreamNumbers
    <3> QED BY <3>1
  <2> QED BY <1>2, <2>1, <2>2, <2>3, <2>4, <2>5 DEF StreamTyped
<1>10. CASE DaemonRestarts
  <2>1. /\ bucket' = EmptyStream /\ UNCHANGED <<pushedCount, line, nextIndex, wire, shown>>
        /\ troubles' = [troubles EXCEPT !.stops = @ + 1]
        /\ troubles.stops < MaxStops /\ stale' \in {"no", "index", "missed"}
    BY <1>8, <1>10 DEF DaemonRestarts
  <2>2. troubles.stops + 1 \in 0 .. MaxStops
    <3>1. troubles.stops \in 0 .. MaxStops /\ MaxStops \in Nat
      BY <1>8, StreamAssumption
    <3> QED BY <2>1, <3>1
  <2>3. troubles' \in [failures : 0 .. MaxFailures, stops : 0 .. MaxStops]
    BY <1>8, <2>1, <2>2
  <2>4. /\ bucket'.events = <<>> /\ bucket'.totalEmitted = 0 /\ Len(bucket'.events) = 0
        /\ bucket' \in [events : Seq(Event), totalEmitted : Nat] /\ 0 <= BufferCap
    BY <2>1, StreamAssumption DEF EmptyStream
  <2>5. StreamTypeOK'
    BY <1>1, <1>3, <2>1, <2>3, <2>4 DEF StreamTypeOK
  <2> QED BY <1>2, <2>1, <2>4, <2>5 DEF StreamTyped
<1>11. CASE OpenStream
  BY <1>2, <1>3, <1>4, <1>7, <1>8, <1>11 DEF OpenStream
<1>12. CASE OpenFails
  <2>1. <<Failure>> \in Seq(Event \cup {Failure})
    BY <1>5
  <2> QED BY <1>2, <1>3, <1>6, <1>7, <2>1, <1>12 DEF OpenFails
<1>13. CASE Poll
  <2>1. wire \o Since(nextIndex) \in Seq(Event \cup {Failure})
    BY <1>2, <1>4
  <2>2. stale' \in {"no", "index", "missed"}
    BY <1>8, <1>13 DEF Poll
  <2> QED BY <1>2, <1>3, <1>7, <1>8, <2>1, <2>2, <1>13 DEF Poll
<1>14. CASE PollFails
  <2>1. Append(wire, Failure) \in Seq(Event \cup {Failure})
    BY <1>2, <1>5
  <2> QED BY <1>2, <1>6, <1>7, <1>8, <1>14, <2>1 DEF PollFails
<1>15. CASE LineLost
  <2>1. <<>> \in Seq(Event \cup {Failure})
    OBVIOUS
  <2> QED BY <1>2, <1>6, <1>7, <1>8, <1>15, <2>1 DEF LineLost
<1>16. CASE Reopen
  BY <1>2, <1>7, <1>8, <1>16 DEF Reopen
<1>17. CASE Receive
  <2>1. /\ wire # <<>> /\ wire' = Tail(wire) /\ shown' = Apply(Head(wire), shown)
        /\ UNCHANGED <<bucket, pushedCount, line, nextIndex, troubles, stale>>
    BY <1>17 DEF Receive
  <2>2. Head(wire) \in Event \cup {Failure} /\ Tail(wire) \in Seq(Event \cup {Failure})
    BY <1>2, <2>1
  <2>3. shown' \in Snapshots
    BY <1>2, <2>1, <2>2, ApplyType
  <2> QED BY <1>7, <1>8, <2>1, <2>2, <2>3
<1>18. CASE UNCHANGED streamVars
  BY <1>2, <1>7, <1>8, <1>18 DEF streamVars
<1> QED
  BY <1>9, <1>10, <1>11, <1>12, <1>13, <1>14, <1>15, <1>16, <1>17, <1>18 DEF StreamStep

\* Every step of the buffer, the stream and the page keeps the invariant.
LEMMA StreamKeeps == StreamInv /\ [StreamStep]_streamVars => StreamInv'
<1> SUFFICES ASSUME StreamInv, [StreamStep]_streamVars PROVE StreamInv'
  OBVIOUS
<1>1. StreamTyped /\ StreamTyped'
  BY StreamTypes DEF StreamInv
<1> DEFINE e == bucket.events
           t == bucket.totalEmitted
<1>2. /\ e \in Seq(Event) /\ Len(e) \in Nat /\ t \in Nat /\ Len(e) <= t
      /\ wire \in Seq(Event \cup {Failure}) /\ Len(wire) \in Nat /\ nextIndex \in Nat
      /\ shown \in Snapshots /\ e' \in Seq(Event)
  BY <1>1, StreamNumbers DEF StreamTyped
<1>3. ASSUME Following' PROVE StreamInv'
  BY <1>1, <1>3 DEF StreamInv
<1>4. ASSUME line = "polling", stale = "no"
      PROVE  /\ nextIndex <= t
             /\ Follows(e, Asked(e, t, nextIndex), wire, shown)
  BY <1>4 DEF StreamInv, Following
<1>5. Asked(e, t, t) = Len(e)
  <2> HIDE DEF e, t
  <2> QED BY <1>2 DEF Asked
<1>6. ASSUME NEW turn \in TurnNumbers, NEW phase \in TurnPhases, PushEvent(turn, phase)
      PROVE  StreamInv'
  <2>1. UNCHANGED <<line, nextIndex, wire, shown, stale>>
    BY <1>6 DEF PushEvent
  <2>4. BufferCap > 0
    BY <1>1, StreamNumbers
  <2>5. /\ t' = t + 1
        /\ \/ Len(e') = Len(e) + 1 /\ \A i \in 1 .. Len(e) : e'[i] = e[i]
           \/ /\ Len(e') = Len(e) /\ Len(e) > 0
              /\ \A i \in 2 .. Len(e) : e'[i - 1] = e[i]
    BY <1>6, <2>4, PushedBuffer
  <2>2. ASSUME line = "polling", stale = "no"
        PROVE  nextIndex <= t' /\ Follows(e', Asked(e', t + 1, nextIndex), wire, shown)
    <3>1. nextIndex <= t /\ Follows(e, Asked(e, t, nextIndex), wire, shown)
      BY <1>4, <2>2
    <3> HIDE DEF e, t
    <3>2. Follows(e', Asked(e', t + 1, nextIndex), wire, shown)
      BY <1>2, <2>5, <3>1, PushFollows
    <3>3. nextIndex <= t'
      BY <1>2, <2>5, <3>1
    <3> QED BY <3>2, <3>3
  <2>3. Following'
    BY <2>1, <2>2, <2>5 DEF Following
  <2> QED BY <1>3, <2>3
<1>7. CASE DaemonRestarts
  <2>1. /\ e' = <<>> /\ t' = 0 /\ Len(e') = 0
        /\ UNCHANGED <<line, nextIndex, wire, shown>>
        /\ line = "polling" /\ stale' = "no" => nextIndex = 0
    BY <1>2, <1>7 DEF DaemonRestarts, EmptyStream
  <2>2. ASSUME nextIndex = 0
        PROVE  nextIndex <= t' /\ Follows(e', Asked(e', t', nextIndex), wire, shown)
    <3>1. Asked(e', t', nextIndex) = 0
      BY <2>1, <2>2 DEF Asked
    <3> QED BY <1>2, <2>1, <2>2, <3>1 DEF Follows
  <2>3. Following'
    BY <2>1, <2>2 DEF Following
  <2> QED BY <1>3, <2>3
<1>8. CASE OpenStream
  <2>1. /\ UNCHANGED <<bucket, shown>> /\ wire' = Since(0) /\ nextIndex' = t
    BY <1>8 DEF OpenStream
  <2>2. Since(0) = SubSeq(e, Asked(e, t, 0) + 1, Len(e))
    BY <1>1, SinceType
  <2>3. Follows(e, Len(e), Since(0), shown)
    <3> HIDE DEF e, t
    <3>1. Asked(e, t, 0) = 0
      BY <1>2 DEF Asked
    <3>2. Since(0) = e
      BY <1>2, <2>2, <3>1
    <3> QED BY <1>2, <3>2 DEF Follows
  <2>4. Following'
    BY <1>2, <1>5, <2>1, <2>3 DEF Following
  <2> QED BY <1>3, <2>4
<1>9. CASE OpenFails
  <2>1. UNCHANGED <<bucket, shown>> /\ wire' = <<Failure>> /\ nextIndex' = 0
    BY <1>9 DEF OpenFails
  <2>2. Follows(e, Asked(e, t, 0), wire', shown)
    <3> HIDE DEF e, t
    <3>1. Asked(e, t, 0) = 0 /\ Len(wire') \in Nat
      BY <1>2, <2>1 DEF Asked
    <3> QED BY <1>2, <3>1 DEF Follows
  <2>3. Following'
    BY <1>2, <2>1, <2>2 DEF Following
  <2> QED BY <1>3, <2>3
<1>10. CASE Poll
  <2>1. /\ UNCHANGED <<bucket, shown>> /\ wire' = wire \o Since(nextIndex) /\ nextIndex' = t
        /\ line = "polling" /\ stale' = "no" => stale = "no" \/ e = <<>>
    BY <1>10 DEF Poll
  <2>2. Since(nextIndex) = SubSeq(e, Asked(e, t, nextIndex) + 1, Len(e))
    BY <1>1, <1>2, SinceType
  <2>3. ASSUME stale = "no" PROVE Follows(e, Len(e), wire', shown)
    <3>1. Follows(e, Asked(e, t, nextIndex), wire, shown)
      BY <1>4, <1>10, <2>3 DEF Poll
    <3>2. Asked(e, t, nextIndex) \in 0 .. Len(e)
      BY <3>1 DEF Follows
    <3> DEFINE n == Asked(e, t, nextIndex)
    <3> HIDE DEF e, n
    <3>3. Follows(e, Len(e), wire \o SubSeq(e, n + 1, Len(e)), shown)
      BY <1>2, <3>1, <3>2, PollFollows DEF n
    <3> QED BY <2>1, <2>2, <3>3 DEF n
  <2>4. ASSUME e = <<>> PROVE Follows(e, Len(e), wire', shown)
    <3>1. Len(e) = 0 /\ wire' \in Seq(Event \cup {Failure})
      BY <1>1, <2>4 DEF StreamTyped
    <3>2. Len(wire') \in Nat
      BY <3>1
    <3> HIDE DEF e
    <3> QED BY <3>1, <3>2 DEF Follows
  <2>5. Following'
    BY <1>2, <1>5, <2>1, <2>3, <2>4, <1>10 DEF Following, Poll
  <2> QED BY <1>3, <2>5
<1>11. CASE PollFails \/ LineLost \/ Reopen
  <2>1. line' # "polling"
    BY <1>11 DEF PollFails, LineLost, Reopen
  <2>2. Following'
    BY <2>1 DEF Following
  <2> QED BY <1>3, <2>2
<1>12. CASE Receive
  <2>1. /\ wire # <<>> /\ wire' = Tail(wire) /\ shown' = Apply(Head(wire), shown)
        /\ UNCHANGED <<bucket, line, nextIndex, stale>>
    BY <1>12 DEF Receive
  <2>2. ASSUME line = "polling", stale = "no"
        PROVE  Follows(e, Asked(e, t, nextIndex), wire', shown')
    <3>1. Follows(e, Asked(e, t, nextIndex), wire, shown)
      BY <1>4, <2>2
    <3> DEFINE n == Asked(e, t, nextIndex)
    <3> HIDE DEF e, n
    <3>2. Follows(e, n, Tail(wire), Apply(Head(wire), shown))
      BY <1>2, <2>1, <3>1, ReceiveFollows DEF n
    <3> QED BY <2>1, <3>2 DEF n
  <2>3. Following'
    BY <1>4, <2>1, <2>2 DEF Following
  <2> QED BY <1>3, <2>3
<1>13. CASE UNCHANGED streamVars
  <2>1. Following'
    BY <1>13 DEF StreamInv, Following, streamVars
  <2> QED BY <1>3, <2>1
<1> QED
  BY <1>6, <1>7, <1>8, <1>9, <1>10, <1>11, <1>12, <1>13 DEF StreamStep


-----------------------------------------------------------------------------
(* The runs of the console *)

\* A child that started, or may still report, belongs to a row that is running or
\* was cancelled: its exit never finds another end.
RowOfProcess ==
  \A r \in Runs : process[r] \in {"running", "noSpawn"} \cup DOMAIN ExitOf
                    => runRow[r].status \in {"running", "cancelled"}

\* A server that is gone takes with it every run there is.
DownLosesAll == bff = "down" => \A r \in Runs : r \in lost \/ runRow[r].status = "none"

RunsIInv == RunsTypeOK /\ RowOfProcess /\ DownLosesAll /\ RunsAccounted

USE DEF Open, Ended, ExitOf

LEMMA RunsInitInv == RunsInit => RunsIInv
BY RunsAssumption DEF RunsInit, RunsIInv, RunsTypeOK, RowOfProcess, DownLosesAll, RunsAccounted

\* The progress of a row changes its count only, and only while it is running.
LEMMA TickedRow ==
  ASSUME RunsTypeOK, NEW r \in Runs
  PROVE  /\ Ticked(r) \in [status : {"none"} \cup Open \cup Ended, turns : 0..MaxTurns]
         /\ Ticked(r).status = runRow[r].status
         /\ runRow[r].status = "running" => Ticked(r).turns = output[r]
         /\ runRow[r].status # "running" => Ticked(r) = runRow[r]
BY DEF RunsTypeOK, Ticked

\* What an exit makes of the row it finds.
LEMMA SettledRow ==
  ASSUME RunsTypeOK, NEW r \in Runs, process[r] \in DOMAIN ExitOf,
         runRow[r].status \in {"running", "cancelled"}
  PROVE  /\ Settled(r) \in [status : {"none"} \cup Open \cup Ended, turns : 0..MaxTurns]
         /\ Settled(r).status \in Ended
         /\ Settled(r).status = "succeeded" => Settled(r).turns = output[r]
         /\ runRow[r].status = "cancelled" => Settled(r) = runRow[r]
<1>1. CASE runRow[r].status = "cancelled"
  BY <1>1 DEF RunsTypeOK, Settled
<1>2. CASE runRow[r].status = "running"
  BY <1>2, TickedRow DEF RunsTypeOK, Settled
<1> QED BY <1>1, <1>2

LEMMA RunsStepInv == RunsIInv /\ [RunsStep]_runVars => RunsIInv'
<1> SUFFICES ASSUME RunsIInv, [RunsStep]_runVars PROVE RunsIInv'
  OBVIOUS
<1> USE DEF RunsIInv
<1>1. CASE CloseBegins
  BY <1>1 DEF CloseBegins, Killed, RunsTypeOK, RowOfProcess, DownLosesAll, RunsAccounted
<1>2. CASE Gone
  BY <1>2 DEF Gone, RunsTypeOK, RowOfProcess, DownLosesAll, RunsAccounted
<1>3. CASE Boot
  BY <1>3 DEF Boot, RunsTypeOK, RowOfProcess, DownLosesAll, RunsAccounted
<1>4. ASSUME NEW r \in Runs, StartRun(r) PROVE RunsIInv'
  <2>1. PICK how \in {"noLog", "throws", "noSpawn", "spawned"} :
          /\ runRow' = [runRow EXCEPT ![r].status = CASE how = "noLog"  -> "pending"
                                                      [] how = "throws" -> "failed"
                                                      [] OTHER          -> "running"]
          /\ process' = [process EXCEPT ![r] = CASE how = "spawned" -> "running"
                                                 [] how = "noSpawn" -> "noSpawn"
                                                 [] OTHER           -> "none"]
          /\ runHandles' = IF how = "spawned" THEN runHandles \cup {r} ELSE runHandles
    BY <1>4 DEF StartRun
  <2>2. /\ \A q \in Runs \ {r} : runRow'[q] = runRow[q] /\ process'[q] = process[q]
        /\ runRow'[r].turns = runRow[r].turns
        /\ runHandles \subseteq runHandles' /\ runHandles' \subseteq Runs
        /\ UNCHANGED <<output, terminated, bff, lost>> /\ bff # "down"
        /\ process[r] \in {"none", "reaped"}
    BY <1>4, <2>1 DEF StartRun, RunsTypeOK, RowOfProcess
  <2>3. \/ runRow'[r].status \in {"pending", "failed"} /\ process'[r] = "none"
        \/ runRow'[r].status = "running" /\ process'[r] = "noSpawn"
        \/ runRow'[r].status = "running" /\ process'[r] = "running" /\ r \in runHandles'
    BY <2>1 DEF RunsTypeOK
  <2>4. RunsTypeOK'
    BY <2>1, <2>2, <2>3 DEF RunsTypeOK
  <2>5. RowOfProcess' /\ DownLosesAll'
    BY <2>2, <2>3 DEF RowOfProcess, DownLosesAll
  <2>6. RunsAccounted'
    BY <2>2, <2>3 DEF RunsAccounted
  <2> QED BY <2>4, <2>5, <2>6
<1>5. ASSUME NEW r \in Runs, TickProgress(r) PROVE RunsIInv'
  <2>1. runRow' = [runRow EXCEPT ![r] = Ticked(r)]
        /\ UNCHANGED <<process, output, terminated, runHandles, bff, lost>>
    BY <1>5 DEF TickProgress
  <2>2. RunsTypeOK'
    BY <2>1, TickedRow DEF RunsTypeOK
  <2>3. \A q \in Runs : /\ runRow'[q].status = runRow[q].status
                        /\ runRow[q].status = "succeeded" => runRow'[q] = runRow[q]
    BY <2>1, TickedRow DEF RunsTypeOK
  <2>4. RowOfProcess' /\ DownLosesAll' /\ RunsAccounted'
    BY <2>1, <2>3 DEF RowOfProcess, DownLosesAll, RunsAccounted
  <2> QED BY <2>2, <2>4
<1>6. ASSUME NEW r \in Runs, WriteTurn(r) PROVE RunsIInv'
  <2>1. RunsTypeOK'
    BY <1>6, RunsAssumption DEF WriteTurn, RunsTypeOK
  <2>2. RowOfProcess' /\ DownLosesAll' /\ RunsAccounted'
    BY <1>6 DEF WriteTurn, RunsTypeOK, RowOfProcess, DownLosesAll, RunsAccounted
  <2> QED BY <2>1, <2>2
<1>7. ASSUME NEW r \in Runs, ProcessEnds(r) PROVE RunsIInv'
  <2>1. PICK how \in DOMAIN ExitOf : process' = [process EXCEPT ![r] = how]
    BY <1>7 DEF ProcessEnds
  <2>2. RunsTypeOK'
    BY <1>7, <2>1 DEF ProcessEnds, RunsTypeOK
  <2>3. RowOfProcess' /\ DownLosesAll'
    BY <1>7, <2>1 DEF ProcessEnds, RunsTypeOK, RowOfProcess, DownLosesAll
  <2>4. RunsAccounted'
    BY <1>7, <2>1 DEF ProcessEnds, RunsTypeOK, RunsAccounted
  <2> QED BY <2>2, <2>3, <2>4
<1>8. ASSUME NEW r \in Runs, ErrorEvent(r) PROVE RunsIInv'
  <2>1. RunsTypeOK'
    BY <1>8 DEF ErrorEvent, Delivered, RunsTypeOK
  <2>2. RowOfProcess' /\ DownLosesAll'
    BY <1>8 DEF ErrorEvent, Delivered, RunsTypeOK, RowOfProcess, DownLosesAll
  <2>3. RunsAccounted'
    BY <1>8 DEF ErrorEvent, Delivered, RunsTypeOK, RowOfProcess, RunsAccounted
  <2> QED BY <2>1, <2>2, <2>3
<1>9. ASSUME NEW r \in Runs, ExitEvent(r) PROVE RunsIInv'
  <2>1. /\ process[r] \in DOMAIN ExitOf /\ runRow[r].status \in {"running", "cancelled"}
        /\ process' = [process EXCEPT ![r] = "reaped"] /\ runHandles' = runHandles \ {r}
        /\ UNCHANGED <<output, terminated, bff, lost>> /\ bff # "down"
        /\ runRow' = IF bff = "up" THEN [runRow EXCEPT ![r] = Settled(r)] ELSE runRow
    BY <1>9 DEF ExitEvent, Delivered, RowOfProcess
  <2>2. RunsTypeOK'
    BY <2>1, SettledRow DEF RunsTypeOK
  <2>3. RowOfProcess' /\ DownLosesAll'
    BY <2>1 DEF RunsTypeOK, RowOfProcess, DownLosesAll
  <2>4. RunsAccounted'
    <3>1. CASE bff = "up"
      <4>1. runRow'[r] = Settled(r) /\ \A q \in Runs \ {r} : runRow'[q] = runRow[q]
        BY <2>1, <3>1 DEF RunsTypeOK
      <4> QED BY <2>1, <4>1, SettledRow DEF RunsTypeOK, RunsAccounted
    <3>2. CASE bff # "up"
      BY <2>1, <3>2 DEF RunsTypeOK, RunsAccounted
    <3> QED BY <3>1, <3>2
  <2> QED BY <2>2, <2>3, <2>4
<1>10. ASSUME NEW r \in Runs, Cancel(r) PROVE RunsIInv'
  <2>1. RunsTypeOK'
    BY <1>10 DEF Cancel, Killed, RunsTypeOK
  <2>2. RowOfProcess' /\ DownLosesAll'
    BY <1>10 DEF Cancel, RunsTypeOK, RowOfProcess, DownLosesAll
  <2>3. RunsAccounted'
    BY <1>10 DEF Cancel, Killed, RunsTypeOK, RunsAccounted
  <2> QED BY <2>1, <2>2, <2>3
<1>11. CASE UNCHANGED runVars
  BY <1>11 DEF runVars, RunsTypeOK, RowOfProcess, DownLosesAll, RunsAccounted
<1> QED BY <1>1, <1>2, <1>3, <1>4, <1>5, <1>6, <1>7, <1>8, <1>9, <1>10, <1>11 DEF RunsStep

\* A run that ended keeps its status and its count, whatever event, cancellation or
\* tick comes late, and whatever server it comes to (s5-routes.ts:576-633, 771-796).
LEMMA EndedStays ==
  ASSUME RunsIInv, RunsStep, NEW r \in Runs, runRow[r].status \in Ended
  PROVE  runRow'[r] = runRow[r]
<1>1. CASE CloseBegins \/ Gone \/ Boot
  BY <1>1 DEF CloseBegins, Gone, Boot
<1>2. ASSUME NEW q \in Runs, StartRun(q) \/ WriteTurn(q) \/ ProcessEnds(q) \/ Cancel(q)
      PROVE  runRow'[r] = runRow[r]
  BY <1>2 DEF StartRun, WriteTurn, ProcessEnds, Cancel, RunsIInv, RunsTypeOK
<1>3. ASSUME NEW q \in Runs, TickProgress(q) PROVE runRow'[r] = runRow[r]
  BY <1>3, TickedRow DEF TickProgress, RunsIInv, RunsTypeOK
<1>4. ASSUME NEW q \in Runs, ErrorEvent(q) PROVE runRow'[r] = runRow[r]
  BY <1>4 DEF ErrorEvent, Delivered, RunsIInv, RunsTypeOK
<1>5. ASSUME NEW q \in Runs, ExitEvent(q) PROVE runRow'[r] = runRow[r]
  <2>1. runRow[q].status \in {"running", "cancelled"} /\ process[q] \in DOMAIN ExitOf
    BY <1>5 DEF ExitEvent, RunsIInv, RowOfProcess
  <2> QED BY <1>5, <2>1, SettledRow DEF ExitEvent, RunsIInv, RunsTypeOK
<1> QED BY <1>1, <1>2, <1>3, <1>4, <1>5 DEF RunsStep

HIDE DEF Open, Ended, ExitOf

-----------------------------------------------------------------------------
(* The whole *)

BackgroundInv ==
  /\ ChannelInv /\ LoaderInv /\ GwInv /\ DcInv
  /\ SchedInv /\ RunsIInv /\ TraceInv /\ StreamInv

LEMMA AllStart == Init => BackgroundInv
BY ChannelStarts, LoaderStarts, GwStarts, DcStarts, SchedStarts, RunsInitInv, TraceStarts,
   StreamStarts DEF Init, BackgroundInv

\* A step of the whole is one of a single component, and leaves the others alone.
LEMMA OneSteps ==
  ASSUME [Next]_vars
  PROVE  /\ [ChannelStep]_channelVars /\ [LoaderStep]_loaderVars /\ [GwStep]_gwVars
         /\ [DcStep]_dcVars /\ [SchedStep]_schedVars /\ [RunsStep]_runVars
         /\ [TraceStep]_traceVars /\ [StreamStep]_streamVars
BY DEF Next, vars, Channel, Loader, Gateway, Clients, Scheduler, RunsOf, Traces, Live

LEMMA AllKeep == BackgroundInv /\ [Next]_vars => BackgroundInv'
BY OneSteps, ChannelKeeps, LoaderKeeps, GwKeeps, DcKeeps, SchedKeeps, RunsStepInv, TraceKeeps,
   StreamKeeps DEF BackgroundInv

LEMMA AllInvariant == Spec => []BackgroundInv
BY AllStart, AllKeep, PTL DEF Spec

\* The types of every component.
THEOREM TypeCorrect == Spec => []TypeOK
<1>1. BackgroundInv => TypeOK
  BY DEF BackgroundInv, TypeOK, ChannelInv, LoaderInv, GwInv, DcInv, SchedInv, RunsIInv,
         TraceInv, StreamInv, StreamTyped
<1> QED
  BY <1>1, AllInvariant, PTL

\* However starts, stops, timers, answers and closing sockets of the WhatsApp channel
\* interleave, one attempt, timer or socket carries the line, and it says connected
\* only while a socket is open (baileys-channel.ts).
THEOREM LineIsKept == Spec => []ChannelKept
<1>1. BackgroundInv => ChannelKept
  BY DEF BackgroundInv, ChannelInv
<1> QED
  BY <1>1, AllInvariant, PTL

\* No connection is begun while the channel stays stopped, though a timer that was
\* set before may fire (baileys-channel.ts).
THEOREM StoppedStaysQuiet == Spec => QuietWhileStopped
<1>1. BackgroundInv /\ [Next]_vars => [stopped /\ stopped' => loading' <= loading]_channelVars
  BY OneSteps, StoppedIsQuiet DEF BackgroundInv
<1> QED
  BY <1>1, AllInvariant, PTL DEF Spec, QuietWhileStopped

\* Whatever calls, closes and failures interleave, no process of a client is left
\* that nobody can end, and no child of a living console is out of reach of a
\* cancellation (gateway-client.ts, daemon-client.ts, s5-routes.ts).
THEOREM NoProcessIsLost == Spec => []ProcessesOwned
<1>1. GwInv => OneGateway
  BY DEF GwInv, OneGateway, OneClient
<1>2. BackgroundInv => ProcessesOwned
  BY <1>1 DEF BackgroundInv, DcInv, RunsIInv, ProcessesOwned
<1> QED
  BY <1>2, AllInvariant, PTL

\* A card in the cache is stale only if an invalidation overtook its load, a file
\* that nothing will read again is indexed as it is unless an older scan came last,
\* and a page that is caught up shows what the buffer holds (cards-loader.ts,
\* traces-scanner.ts, turn-state-stream.ts).
THEOREM CopiesAreFresh == Spec => []CachesFresh
<1>1. BackgroundInv => CachesFresh
  BY RestFollows, PageShows DEF BackgroundInv, LoaderInv, CachesFresh
<1> QED
  BY <1>1, AllInvariant, PTL

\* With other schedulers that deliver and cancel between the read and the update, an
\* MC1 goes out at most once, and each crash or exception loses one at most
\* (mc1-scheduler.ts:66).
THEOREM OneMessageEach == Spec => []HooksKept
<1>1. BackgroundInv => HooksKept
  BY DEF BackgroundInv, SchedInv
<1> QED
  BY <1>1, AllInvariant, PTL

\* A run that ended keeps its status and its count for good (s5-routes.ts:576-633).
THEOREM EndedRunsStay == Spec => EndedForGood
<1>1. BackgroundInv /\ [Next]_vars =>
        [\A r \in Runs : runRow[r].status \in Ended => runRow'[r] = runRow[r]]_runVars
  BY OneSteps, EndedStays DEF BackgroundInv
<1> QED
  BY <1>1, AllInvariant, PTL DEF Spec, EndedForGood
=============================================================================

------------------------- MODULE TokenBucket_proofs -------------------------
(***************************************************************************)
(* TokenBucket for any number of callers, any rate and any capacity: the   *)
(* types, the rate over every window of time, that a drain comes while     *)
(* somebody waits, that the queue holds each waiting caller once, and that *)
(* nobody is overtaken in it. The rate rests on an account: what a window  *)
(* has spent and what the bucket would hold now never exceed a full bucket *)
(* and the refill of the window.                                           *)
(***************************************************************************)
EXTENDS TokenBucket, TLAPS

Account == window.spent + Refilled <= Full + window.ticks

\* The drain that is scheduled is not later than the next whole token, be the
\* queue empty or not.
DrainInTime == drainIn # None => drainIn <= DrainDelay(Refilled)

SomebodyDrains == queue # <<>> => drainIn # None

Inv == TypeOK /\ Account /\ DrainInTime /\ SomebodyDrains

-----------------------------------------------------------------------------
\* The numbers the steps compute with are in range.
LEMMA Arithmetic ==
    ASSUME TypeOK
    PROVE  /\ Cost \in Nat \ {0} /\ Full \in Nat /\ Full >= Cost
           /\ MaxWindow \in Nat /\ None \notin Nat
           /\ Refilled \in 0 .. Full
           /\ level <= Refilled /\ level \in Nat /\ lag \in Nat
           /\ window.spent \in Nat /\ window.ticks \in 0 .. MaxWindow
           /\ window = [ticks |-> window.ticks, spent |-> window.spent]
BY BucketAssumption DEF TypeOK, Refilled, Window

\* A refill brings the level up to date.
LEMMA AfterRefill ==
    ASSUME NEW lvl \in 0 .. Full, level' = lvl, lag' = 0
    PROVE  Refilled' = lvl
BY BucketAssumption DEF Refilled

\* A drain is scheduled at most the time of a whole token away
\* (token-bucket.ts scheduleDrain).
LEMMA DelayType ==
    ASSUME NEW lvl \in Nat
    PROVE  DrainDelay(lvl) \in 1 .. Cost
BY BucketAssumption DEF DrainDelay

\* The more there is in the bucket, the sooner the drain.
LEMMA DelayMonotonic ==
    ASSUME NEW a \in Nat, NEW b \in Nat, a <= b
    PROVE  DrainDelay(b) <= DrainDelay(a)
BY BucketAssumption DEF DrainDelay

\* A drain in time for the level of now is in time for a lower one.
LEMMA DrainStaysInTime ==
    ASSUME TypeOK, DrainInTime, UNCHANGED drainIn,
           Refilled' \in Nat, Refilled' <= Refilled
    PROVE  DrainInTime'
<1> SUFFICES ASSUME drainIn # None PROVE drainIn <= DrainDelay(Refilled')
  BY DEF DrainInTime, DrainDelay
<1>1. drainIn \in Nat
  BY DEF TypeOK
<1>2. drainIn <= DrainDelay(Refilled)
  BY DEF DrainInTime
<1>3. Refilled \in Nat
  BY Arithmetic
<1>4. DrainDelay(Refilled) <= DrainDelay(Refilled')
  BY <1>3, DelayMonotonic
<1>5. DrainDelay(Refilled) \in Nat /\ DrainDelay(Refilled') \in Nat
  <2> DEFINE r == Refilled'
  <2>1. r \in Nat
    OBVIOUS
  <2> HIDE DEF r
  <2>2. DrainDelay(r) \in 1 .. Cost /\ DrainDelay(Refilled) \in 1 .. Cost
    BY <1>3, <2>1, DelayType
  <2>3. Cost \in Nat
    BY BucketAssumption
  <2> QED BY <2>2, <2>3 DEF r
<1> QED
  BY <1>1, <1>2, <1>4, <1>5

\* What the waiters a level serves cost is there.
LEMMA ServedPaid ==
    ASSUME queue \in Seq(Callers), NEW lvl \in Nat
    PROVE  /\ Served(lvl) \in 0 .. Len(queue)
           /\ Served(lvl) * Cost \in 0 .. lvl
<1> DEFINE d == lvl \div Cost
           n == Served(lvl)
<1>1. Cost \in Nat \ {0} /\ Len(queue) \in Nat
  BY BucketAssumption
<1>2. d \in Nat /\ d * Cost <= lvl
  BY <1>1
<1>3. n \in 0 .. Len(queue) /\ n <= d
  BY <1>1, <1>2 DEF Served
<1>4. n * Cost <= d * Cost /\ n * Cost \in Nat
  <2> HIDE DEF d, n
  <2> QED BY <1>1, <1>2, <1>3
<1> QED
  BY <1>1, <1>2, <1>3, <1>4

-----------------------------------------------------------------------------
\* The invariant holds for a full bucket with no waiter.
LEMMA InitInv == Init => Inv
<1> SUFFICES ASSUME Init PROVE Inv
  OBVIOUS
<1> USE BucketAssumption DEF Init
<1>1. TypeOK
  BY DEF TypeOK, Window
<1>2. Account /\ DrainInTime /\ SomebodyDrains
  BY DEF Account, Refilled, DrainInTime, SomebodyDrains
<1> QED
  BY <1>1, <1>2 DEF Inv

\* Taking a token at once keeps the invariant (token-bucket.ts acquire).
LEMMA AcquireNowInv ==
    ASSUME Inv, NEW c \in Callers, AcquireNow(c)
    PROVE  Inv'
<1>1. /\ Cost \in Nat \ {0} /\ Full \in Nat /\ Refilled \in 0 .. Full
      /\ Refilled >= Cost /\ window.spent \in Nat /\ window.ticks \in Nat
  BY Arithmetic DEF Inv, AcquireNow
<1>2. Refilled - Cost \in 0 .. Full /\ Refilled' = Refilled - Cost
  <2>1. Refilled - Cost \in 0 .. Full
    BY <1>1
  <2> QED BY <2>1, AfterRefill DEF AcquireNow
<1>3. window' = [ticks |-> window.ticks, spent |-> window.spent + Cost]
  BY Arithmetic DEF Inv, AcquireNow, Spend
<1>4. TypeOK'
  <2>1. window' \in Window
    BY <1>1, <1>3 DEF Inv, TypeOK, Window
  <2>2. lag' \in 0 .. Full
    BY <1>1 DEF AcquireNow
  <2> QED BY <1>2, <2>1, <2>2 DEF Inv, TypeOK, AcquireNow
<1>5. Account'
  BY <1>1, <1>2, <1>3 DEF Inv, Account
<1>6. DrainInTime'
  BY <1>1, <1>2, DrainStaysInTime DEF Inv, AcquireNow
<1>7. SomebodyDrains'
  BY DEF AcquireNow, Inv, SomebodyDrains
<1> QED
  BY <1>4, <1>5, <1>6, <1>7 DEF Inv

\* Joining the queue keeps the invariant and schedules a drain (acquire).
LEMMA EnqueueInv ==
    ASSUME Inv, NEW c \in Callers, Enqueue(c)
    PROVE  Inv'
<1>1. Refilled \in 0 .. Full /\ Full \in Nat
  BY Arithmetic DEF Inv
<1>2. Refilled' = Refilled
  BY <1>1, AfterRefill DEF Enqueue
<1>3. DrainDelay(Refilled) \in 1 .. Cost /\ Cost \in Nat /\ None \notin Nat
  BY <1>1, DelayType, BucketAssumption
<1>4. drainIn' \in 0 .. Cost /\ drainIn' <= DrainDelay(Refilled)
  <2>1. CASE drainIn = None
    BY <1>3, <2>1 DEF Enqueue, Scheduled
  <2>2. CASE drainIn # None
    BY <1>3, <2>2 DEF Enqueue, Scheduled, Inv, DrainInTime, TypeOK
  <2> QED BY <2>1, <2>2
<1>5. TypeOK'
  <2>1. queue' \in Seq(Callers)
    BY DEF Inv, TypeOK, Enqueue
  <2>2. level' \in 0 .. Full /\ lag' \in 0 .. Full
    BY <1>1 DEF Enqueue
  <2>3. pc' \in [Callers -> {"idle", "queued", "granted", "rejected"}]
    BY DEF Inv, TypeOK, Enqueue
  <2> QED BY <1>4, <2>1, <2>2, <2>3 DEF Inv, TypeOK, Enqueue
<1>6. Account'
  BY <1>2 DEF Inv, Account, Enqueue
<1>7. DrainInTime' /\ SomebodyDrains'
  <2>1. DrainDelay(Refilled)' = DrainDelay(Refilled)
    BY <1>2 DEF DrainDelay
  <2> QED BY <1>3, <1>4, <2>1 DEF DrainInTime, SomebodyDrains
<1> QED
  BY <1>5, <1>6, <1>7 DEF Inv

\* splice shortens the queue, or leaves an empty one empty.
LEMMA TimedOutInv ==
    ASSUME Inv, NEW c \in Callers, TimedOut(c)
    PROVE  Inv'
<1>1. queue' \in Seq(Callers) /\ (queue = <<>> => queue' = <<>>)
  <2>1. queue \in Seq(Callers)
    BY DEF Inv, TypeOK
  <2>2. CASE c \in ToSet(queue)
    <3> DEFINE k == Position(c)
    <3>1. PICK i \in 1 .. Len(queue) : queue[i] = c
      BY <2>1, <2>2 DEF ToSet
    <3>2. k \in 1 .. Len(queue)
      BY <3>1 DEF Position
    <3>3. queue' = SubSeq(queue, 1, k - 1) \o SubSeq(queue, k + 1, Len(queue))
      BY <2>2 DEF TimedOut, RemoveAt
    <3> HIDE DEF k
    <3>4. /\ SubSeq(queue, 1, k - 1) \in Seq(Callers)
          /\ SubSeq(queue, k + 1, Len(queue)) \in Seq(Callers)
      BY <2>1, <3>2
    <3>5. queue # <<>>
      BY <2>1, <3>2
    <3> QED BY <3>3, <3>4, <3>5
  <2>3. CASE c \notin ToSet(queue)
    BY <2>1, <2>3 DEF TimedOut
  <2> QED BY <2>2, <2>3
<1>2. TypeOK'
  BY <1>1 DEF Inv, TypeOK, TimedOut
<1>3. Refilled' = Refilled
  BY DEF TimedOut, Refilled
<1>4. Account' /\ SomebodyDrains'
  BY <1>1, <1>3 DEF Inv, TimedOut, Account, SomebodyDrains
<1>5. DrainInTime'
  BY <1>3, DrainStaysInTime, Arithmetic DEF Inv, TimedOut
<1> QED
  BY <1>2, <1>4, <1>5 DEF Inv

\* Draining keeps the invariant: it pays for whom it serves, and a queue it
\* leaves non-empty has its next drain scheduled (token-bucket.ts drain).
LEMMA DrainInv ==
    ASSUME Inv, Drain
    PROVE  Inv'
<1> DEFINE n == Served(Refilled)
           cost == n * Cost
           left == Refilled - cost
           rest == SubSeq(queue, n + 1, Len(queue))
<1>1. /\ Refilled \in 0 .. Full /\ Full \in Nat
      /\ window.spent \in Nat /\ window.ticks \in 0 .. MaxWindow
      /\ MaxWindow \in Nat /\ Cost \in Nat
      /\ window = [ticks |-> window.ticks, spent |-> window.spent]
      /\ queue \in Seq(Callers)
  BY Arithmetic DEF Inv, TypeOK
<1>2. n \in 0 .. Len(queue) /\ cost \in 0 .. Refilled
  BY <1>1, ServedPaid
<1>3. left \in 0 .. Full /\ left = Refilled - cost
  <2> HIDE DEF cost
  <2> QED BY <1>1, <1>2
<1>4. rest \in Seq(Callers)
  <2> HIDE DEF n
  <2> QED BY <1>1, <1>2
<1>5. /\ level' = left /\ lag' = 0 /\ queue' = rest
      /\ drainIn' = IF rest # <<>> THEN DrainDelay(left) ELSE None
      /\ window' = [window EXCEPT !.spent = @ + cost]
      /\ pc' = [c \in Callers |-> IF c \in ToSet(SubSeq(queue, 1, n))
                                  THEN "granted" ELSE pc[c]]
  BY DEF Drain, Spend
<1> HIDE DEF n, cost, left, rest
<1>6. Refilled' = left
  BY <1>3, <1>5, AfterRefill
<1>7. window' = [ticks |-> window.ticks, spent |-> window.spent + cost]
  BY <1>1, <1>5
<1>8. DrainDelay(left) \in 1 .. Cost
  BY <1>1, <1>3, DelayType
<1>9. TypeOK'
  <2>1. level' \in 0 .. Full /\ lag' \in 0 .. Full
    BY <1>1, <1>3, <1>5
  <2>2. drainIn' \in 0 .. Cost \cup {None}
    BY <1>1, <1>5, <1>8
  <2>3. pc' \in [Callers -> {"idle", "queued", "granted", "rejected"}]
    BY <1>5 DEF Inv, TypeOK
  <2>4. window' \in Window
    BY <1>1, <1>2, <1>7 DEF Window
  <2> QED BY <1>4, <1>5, <2>1, <2>2, <2>3, <2>4 DEF TypeOK
<1>10. Account'
  <2>1. window.spent + Refilled <= Full + window.ticks
    BY DEF Inv, Account
  <2> QED BY <1>1, <1>2, <1>3, <1>6, <1>7, <2>1 DEF Account
<1>11. DrainInTime' /\ SomebodyDrains'
  <2>1. DrainDelay(Refilled)' = DrainDelay(left)
    BY <1>6 DEF DrainDelay
  <2>2. DrainDelay(left) <= DrainDelay(left) /\ DrainDelay(left) # None
    BY <1>1, <1>8, BucketAssumption
  <2> QED BY <1>5, <2>1, <2>2 DEF DrainInTime, SomebodyDrains
<1> QED
  BY <1>9, <1>10, <1>11 DEF Inv

\* The passing of a tick keeps the invariant: the level the bucket would have
\* grows with it, at most up to the capacity (token-bucket.ts refill).
LEMMA TickInv ==
    ASSUME Inv, Tick
    PROVE  Inv'
<1>1. /\ Full \in Nat /\ level \in 0 .. Full /\ lag \in 0 .. Full
      /\ Refilled \in 0 .. Full /\ Cost \in Nat \ {0} /\ None \notin Nat
      /\ window.spent \in Nat /\ window.ticks \in 0 .. MaxWindow
      /\ MaxWindow \in Nat
      /\ window = [ticks |-> window.ticks, spent |-> window.spent]
  BY Arithmetic DEF Inv, TypeOK
<1>2. lag' \in 0 .. Full /\ Refilled' \in Refilled .. Refilled + 1
      /\ Refilled' <= Full
  BY <1>1 DEF Tick, Refilled
<1>3. drainIn' \in 0 .. Cost \cup {None}
      /\ (drainIn # None => drainIn' # None /\ drainIn \in Nat
             /\ drainIn' = IF drainIn = 0 THEN 0 ELSE drainIn - 1)
      /\ (drainIn = None => drainIn' = None)
  <2>1. drainIn \in 0 .. Cost \cup {None}
    BY DEF Inv, TypeOK
  <2>2. CASE drainIn = None
    BY <2>2 DEF Tick
  <2>3. CASE drainIn = 0
    BY <1>1, <2>3 DEF Tick
  <2>4. CASE drainIn \in 1 .. Cost
    BY <1>1, <2>4 DEF Tick
  <2> QED BY <1>1, <2>1, <2>2, <2>3, <2>4
<1>4. \/ window' = [ticks |-> window.ticks + 1, spent |-> window.spent]
           /\ window.ticks + 1 <= MaxWindow
      \/ window' = [ticks |-> 0, spent |-> 0]
  BY <1>1 DEF Tick
<1>5. TypeOK'
  <2>1. window' \in Window
    BY <1>1, <1>4 DEF Window
  <2> QED BY <1>1, <1>2, <1>3, <2>1 DEF Inv, TypeOK, Tick
<1>6. Account'
  <2>1. window.spent + Refilled <= Full + window.ticks
    BY DEF Inv, Account
  <2>2. CASE window' = [ticks |-> window.ticks + 1, spent |-> window.spent]
    BY <1>1, <1>2, <2>1, <2>2 DEF Account
  <2>3. CASE window' = [ticks |-> 0, spent |-> 0]
    BY <1>1, <1>2, <2>3 DEF Account
  <2> QED BY <1>4, <2>2, <2>3
<1>7. DrainInTime'
  <2> SUFFICES ASSUME drainIn' # None
               PROVE  drainIn' <= DrainDelay(Refilled')
    BY DEF DrainInTime, DrainDelay
  <2>1. drainIn # None /\ drainIn <= DrainDelay(Refilled) /\ drainIn \in Nat
    BY <1>3 DEF Inv, DrainInTime
  <2> QED BY <1>1, <1>2, <1>3, <2>1 DEF DrainDelay
<1>8. SomebodyDrains'
  BY <1>3 DEF Inv, SomebodyDrains, Tick
<1> QED
  BY <1>5, <1>6, <1>7, <1>8 DEF Inv

\* Reading the level, a new window and a new call keep the invariant.
LEMMA OthersInv ==
    ASSUME Inv,
           \/ CurrentLevel \/ OpenWindow \/ UNCHANGED vars
           \/ \E c \in Callers : Again(c)
    PROVE  Inv'
<1>1. /\ Refilled \in 0 .. Full /\ Full \in Nat /\ MaxWindow \in Nat
      /\ window.spent \in Nat /\ window.ticks \in Nat
  BY Arithmetic DEF Inv
<1>2. Refilled' = Refilled /\ UNCHANGED <<queue, drainIn>>
  <2>1. CASE CurrentLevel
    BY <1>1, <2>1, AfterRefill DEF CurrentLevel
  <2>2. CASE UNCHANGED <<level, lag, queue, drainIn>>
    BY <2>2 DEF Refilled
  <2> QED BY <2>1, <2>2 DEF OpenWindow, Again, vars
<1>3. TypeOK'
  <2>1. level' \in 0 .. Full /\ lag' \in 0 .. Full
    BY <1>1 DEF Inv, TypeOK, CurrentLevel, OpenWindow, Again, vars
  <2>2. window' \in Window
    BY <1>1 DEF Inv, TypeOK, Window, CurrentLevel, OpenWindow, Again, vars
  <2>3. pc' \in [Callers -> {"idle", "queued", "granted", "rejected"}]
    BY DEF Inv, TypeOK, CurrentLevel, OpenWindow, Again, vars
  <2> QED BY <1>2, <2>1, <2>2, <2>3 DEF Inv, TypeOK
<1>4. Account'
  <2>1. CASE UNCHANGED window
    BY <1>2, <2>1 DEF Inv, Account
  <2>2. CASE OpenWindow
    BY <1>1, <1>2, <2>2 DEF OpenWindow, Account
  <2> QED BY <2>1, <2>2 DEF CurrentLevel, Again, vars
<1>5. DrainInTime'
  BY <1>1, <1>2, DrainStaysInTime DEF Inv
<1>6. SomebodyDrains'
  BY <1>2 DEF Inv, SomebodyDrains
<1> QED
  BY <1>3, <1>4, <1>5, <1>6 DEF Inv

\* Every step keeps the invariant.
LEMMA StepInv == Inv /\ [Next]_vars => Inv'
BY AcquireNowInv, EnqueueInv, TimedOutInv, DrainInv, TickInv, OthersInv DEF Next

-----------------------------------------------------------------------------
(* The theorems *)

\* Inv is invariant (token-bucket.ts TokenBucket).
THEOREM BucketInvariant == Spec => []Inv
BY InitInv, StepInv, PTL DEF Spec

\* The state has its type; the level never exceeds the capacity (token-bucket.ts
\* refill).
THEOREM TypeCorrect == Spec => []TypeOK
BY BucketInvariant, PTL DEF Inv

\* Over every window of time the provider is called no faster than a full bucket
\* and the refill of the window allow, for any rate, capacity and number of
\* callers (token-bucket.ts acquire, refill, drain).
THEOREM RateHolds == Spec => []NeverFasterThanRate
<1>1. Inv => NeverFasterThanRate
  <2> SUFFICES ASSUME Inv PROVE NeverFasterThanRate
    OBVIOUS
  <2>1. /\ Refilled \in Nat /\ window.spent \in Nat /\ window.ticks \in Nat
        /\ Full \in Nat
    BY Arithmetic DEF Inv
  <2> QED BY <2>1 DEF Inv, Account, NeverFasterThanRate
<1> QED
  BY <1>1, BucketInvariant, PTL

\* While somebody waits a drain is scheduled, no later than the next whole token
\* (token-bucket.ts scheduleDrain, drain).
THEOREM DrainIsScheduled == Spec => []DrainComes
<1>1. Inv => DrainComes
  BY DEF Inv, DrainInTime, SomebodyDrains, DrainComes
<1> QED
  BY <1>1, BucketInvariant, PTL

-----------------------------------------------------------------------------
(* The queue *)

\* A sequence that holds nothing twice is told by what it holds where.
LEMMA AppendNew ==
    ASSUME NEW q \in Seq(Callers), NEW c \in Callers, IsInjective(q), c \notin ToSet(q)
    PROVE  /\ ToSet(Append(q, c)) = ToSet(q) \cup {c}
           /\ IsInjective(Append(q, c))
<1>1. /\ DOMAIN Append(q, c) = 1 .. Len(q) + 1
      /\ \A i \in 1 .. Len(q) : Append(q, c)[i] = q[i]
      /\ Append(q, c)[Len(q) + 1] = c /\ Len(q) \in Nat /\ DOMAIN q = 1 .. Len(q)
  OBVIOUS
<1>2. \A i \in 1 .. Len(q) : q[i] # c
  BY DEF ToSet
<1> HIDE DEF ToSet
<1>3. ToSet(Append(q, c)) = ToSet(q) \cup {c}
  BY <1>1 DEF ToSet
<1>4. IsInjective(Append(q, c))
  BY <1>1, <1>2 DEF IsInjective
<1> QED
  BY <1>3, <1>4

\* A caller in the queue has one place, and leaves nothing of itself behind.
LEMMA RemoveOne ==
    ASSUME NEW q \in Seq(Callers), NEW k \in 1 .. Len(q), IsInjective(q)
    PROVE  /\ ToSet(RemoveAt(q, k)) = ToSet(q) \ {q[k]}
           /\ IsInjective(RemoveAt(q, k))
<1> DEFINE a == SubSeq(q, 1, k - 1)
           b == SubSeq(q, k + 1, Len(q))
           r == RemoveAt(q, k)
<1>1. /\ Len(q) \in Nat /\ DOMAIN q = 1 .. Len(q) /\ k \in Nat
  OBVIOUS
<1>2. /\ a \in Seq(Callers) /\ Len(a) = k - 1
      /\ \A i \in 1 .. k - 1 : a[i] = q[i]
      /\ b \in Seq(Callers) /\ Len(b) = Len(q) - k
      /\ \A i \in 1 .. Len(q) - k : b[i] = q[i + k]
  OBVIOUS
<1>3. r = a \o b
  BY DEF RemoveAt
<1> HIDE DEF a, b, r
<1>4. /\ DOMAIN r = 1 .. Len(q) - 1
      /\ \A i \in 1 .. Len(q) - 1 : r[i] = IF i < k THEN q[i] ELSE q[i + 1]
  <2>1. r \in Seq(Callers) /\ Len(r) = Len(q) - 1
    <3>1. a \in Seq(Callers) /\ b \in Seq(Callers)
      BY <1>2
    <3>2. a \o b \in Seq(Callers) /\ Len(a \o b) = Len(a) + Len(b)
      BY <3>1
    <3>3. Len(a) = k - 1 /\ Len(b) = Len(q) - k
      BY <1>2
    <3> QED BY <1>1, <1>3, <3>2, <3>3
  <2>2. ASSUME NEW i \in 1 .. Len(q) - 1
        PROVE  r[i] = IF i < k THEN q[i] ELSE q[i + 1]
    <3>1. CASE i < k
      <4>1. i \in 1 .. Len(a) /\ i \in 1 .. k - 1
        BY <1>1, <1>2, <3>1
      <4>2. r[i] = a[i]
        BY <1>2, <1>3, <4>1
      <4> QED BY <1>2, <3>1, <4>1, <4>2
    <3>2. CASE i >= k
      <4>1. i - (k - 1) \in 1 .. Len(b)
        BY <1>1, <1>2, <3>2
      <4>2. r[i] = b[i - (k - 1)]
        BY <1>1, <1>2, <1>3, <3>2, <4>1
      <4>3. b[i - (k - 1)] = q[i - (k - 1) + k]
        BY <1>2, <4>1
      <4>4. i - (k - 1) + k = i + 1
        BY <1>1
      <4> QED BY <1>1, <3>2, <4>2, <4>3, <4>4
    <3> QED BY <1>1, <3>1, <3>2
  <2> QED BY <2>1, <2>2
<1>5. IsInjective(r)
  <2> SUFFICES ASSUME NEW i \in 1 .. Len(q) - 1, NEW j \in 1 .. Len(q) - 1,
                      r[i] = r[j]
               PROVE  i = j
    BY <1>4 DEF IsInjective
  <2> DEFINE f == IF i < k THEN i ELSE i + 1
             g == IF j < k THEN j ELSE j + 1
  <2>1. f \in 1 .. Len(q) /\ g \in 1 .. Len(q)
    BY <1>1
  <2>2. q[f] = q[g]
    BY <1>1, <1>4
  <2>3. f = g
    BY <1>1, <2>1, <2>2 DEF IsInjective
  <2> QED BY <1>1, <2>3
<1>6. ToSet(r) = ToSet(q) \ {q[k]}
  <2> DEFINE R == {r[i] : i \in 1 .. Len(q) - 1}
             Q == {q[j] : j \in 1 .. Len(q)}
  <2>1. ASSUME NEW i \in 1 .. Len(q) - 1
        PROVE  r[i] \in Q \ {q[k]}
    <3>1. PICK j \in 1 .. Len(q) : r[i] = q[j] /\ j # k
      <4>1. CASE i < k
        BY <1>1, <1>4, <4>1
      <4>2. CASE ~(i < k)
        <5>1. i + 1 \in 1 .. Len(q) /\ i + 1 # k
          BY <1>1, <4>2
        <5> QED BY <1>4, <4>2, <5>1
      <4> QED BY <4>1, <4>2
    <3> QED BY <1>1, <3>1 DEF IsInjective
  <2>2. ASSUME NEW j \in 1 .. Len(q), q[j] # q[k]
        PROVE  \E i \in 1 .. Len(q) - 1 : r[i] = q[j]
    <3>1. CASE j < k
      BY <1>1, <1>4, <3>1
    <3>2. CASE j > k
      <4>1. j - 1 \in 1 .. Len(q) - 1 /\ ~(j - 1 < k) /\ (j - 1) + 1 = j
        BY <1>1, <3>2
      <4> QED BY <1>4, <4>1
    <3> QED BY <1>1, <2>2, <3>1, <3>2
  <2>3. R = Q \ {q[k]}
    BY <2>1, <2>2
  <2> QED BY <1>1, <1>4, <2>3 DEF ToSet
<1> QED
  BY <1>5, <1>6 DEF r

\* The front and the rest of a queue without repetition share nobody.
LEMMA SplitQueue ==
    ASSUME NEW q \in Seq(Callers), NEW n \in 0 .. Len(q), IsInjective(q)
    PROVE  LET front == SubSeq(q, 1, n)
               rest  == SubSeq(q, n + 1, Len(q))
           IN  /\ ToSet(front) = {q[i] : i \in 1 .. n}
               /\ ToSet(rest) = {q[i] : i \in n + 1 .. Len(q)}
               /\ ToSet(rest) = ToSet(q) \ ToSet(front)
               /\ IsInjective(rest)
<1> DEFINE a == SubSeq(q, 1, n)
           b == SubSeq(q, n + 1, Len(q))
<1> SUFFICES /\ ToSet(a) = {q[i] : i \in 1 .. n}
             /\ ToSet(b) = {q[i] : i \in n + 1 .. Len(q)}
             /\ ToSet(b) = ToSet(q) \ ToSet(a)
             /\ IsInjective(b)
  OBVIOUS
<1>1. /\ Len(q) \in Nat /\ DOMAIN q = 1 .. Len(q) /\ n \in Nat
      /\ DOMAIN a = 1 .. n /\ \A i \in 1 .. n : a[i] = q[i]
      /\ DOMAIN b = 1 .. Len(q) - n
      /\ \A i \in 1 .. Len(q) - n : b[i] = q[i + n]
  OBVIOUS
<1> HIDE DEF a, b
<1>2. ToSet(a) = {q[i] : i \in 1 .. n}
  BY <1>1 DEF ToSet
<1>3. ToSet(b) = {q[i] : i \in n + 1 .. Len(q)}
  <2>1. ASSUME NEW i \in n + 1 .. Len(q)
        PROVE  \E j \in 1 .. Len(q) - n : b[j] = q[i]
    <3>1. i - n \in 1 .. Len(q) - n /\ (i - n) + n = i
      BY <1>1
    <3> QED BY <1>1, <3>1
  <2>2. ASSUME NEW j \in 1 .. Len(q) - n
        PROVE  \E i \in n + 1 .. Len(q) : b[j] = q[i]
    <3>1. j + n \in n + 1 .. Len(q)
      BY <1>1
    <3> QED BY <1>1, <3>1
  <2>3. {b[j] : j \in 1 .. Len(q) - n} \subseteq {q[i] : i \in n + 1 .. Len(q)}
    BY <2>2
  <2>4. {q[i] : i \in n + 1 .. Len(q)} \subseteq {b[j] : j \in 1 .. Len(q) - n}
    <3> SUFFICES ASSUME NEW i \in n + 1 .. Len(q)
                 PROVE  q[i] \in {b[j] : j \in 1 .. Len(q) - n}
      OBVIOUS
    <3> QED BY <2>1
  <2> QED BY <1>1, <2>3, <2>4 DEF ToSet
<1>4. IsInjective(b)
  BY <1>1 DEF IsInjective
<1>5. ToSet(b) = ToSet(q) \ ToSet(a)
  <2>1. ASSUME NEW i \in n + 1 .. Len(q), NEW j \in 1 .. n
        PROVE  q[i] # q[j]
    BY <1>1 DEF IsInjective
  <2>2. 1 .. Len(q) = (1 .. n) \cup (n + 1 .. Len(q))
    BY <1>1
  <2>3. ToSet(q) = {q[i] : i \in 1 .. Len(q)}
    BY <1>1 DEF ToSet
  <2> QED BY <1>2, <1>3, <2>1, <2>2, <2>3
<1> QED
  BY <1>2, <1>3, <1>4, <1>5

\* The queue is exact at first.
LEMMA InitQueue == Init => QueueExact
BY DEF Init, QueueExact, Waiting, ToSet, IsInjective

\* Every step keeps it so: who joins was idle, who leaves is found, and who is
\* served is taken from the front (token-bucket.ts acquire, drain).
LEMMA StepQueue ==
    ASSUME Inv, QueueExact, [Next]_vars
    PROVE  QueueExact'
<1>1. queue \in Seq(Callers) /\ IsInjective(queue) /\ ToSet(queue) = Waiting
      /\ pc \in [Callers -> {"idle", "queued", "granted", "rejected"}]
  BY DEF Inv, TypeOK, QueueExact
<1>2. ASSUME UNCHANGED <<queue, Waiting>>
      PROVE  QueueExact'
  BY <1>2 DEF QueueExact
<1>3. ASSUME NEW c \in Callers, Enqueue(c)
      PROVE  QueueExact'
  <2>1. c \notin ToSet(queue) /\ queue' = Append(queue, c)
        /\ pc' = [pc EXCEPT ![c] = "queued"]
    BY <1>1, <1>3 DEF Waiting, Enqueue
  <2>2. Waiting' = Waiting \cup {c}
    BY <1>1, <2>1 DEF Waiting
  <2> QED BY <1>1, <2>1, <2>2, AppendNew DEF QueueExact
<1>4. ASSUME NEW c \in Callers, TimedOut(c)
      PROVE  QueueExact'
  <2>1. c \in ToSet(queue) /\ pc' = [pc EXCEPT ![c] = "rejected"]
    BY <1>1, <1>4 DEF TimedOut, Waiting
  <2>2. Waiting' = Waiting \ {c}
    BY <1>1, <2>1 DEF Waiting
  <2>3. PICK i \in 1 .. Len(queue) : queue[i] = c
    BY <1>1, <2>1 DEF ToSet
  <2>4. Position(c) \in 1 .. Len(queue) /\ queue[Position(c)] = c
    BY <2>3 DEF Position
  <2>5. queue' = RemoveAt(queue, Position(c))
    BY <1>4, <2>1 DEF TimedOut
  <2> QED BY <1>1, <2>2, <2>4, <2>5, RemoveOne DEF QueueExact
<1>5. CASE Drain
  <2> DEFINE n == Served(Refilled)
  <2>1. n \in 0 .. Len(queue)
    <3>1. Refilled \in Nat
      BY Arithmetic DEF Inv
    <3> QED BY <1>1, <3>1, ServedPaid
  <2>2. /\ queue' = SubSeq(queue, n + 1, Len(queue))
        /\ pc' = [c \in Callers |-> IF c \in ToSet(SubSeq(queue, 1, n))
                                    THEN "granted" ELSE pc[c]]
    BY <1>5 DEF Drain
  <2> HIDE DEF n
  <2>3. Waiting' = Waiting \ ToSet(SubSeq(queue, 1, n))
    BY <2>2 DEF Waiting
  <2> QED BY <1>1, <2>1, <2>2, <2>3, SplitQueue DEF QueueExact
<1>6. ASSUME NEW c \in Callers, AcquireNow(c) \/ Again(c)
      PROVE  UNCHANGED <<queue, Waiting>>
  BY <1>1, <1>6 DEF AcquireNow, Again, Waiting
<1>7. ASSUME CurrentLevel \/ Tick \/ OpenWindow \/ UNCHANGED vars
      PROVE  UNCHANGED <<queue, Waiting>>
  BY <1>7 DEF CurrentLevel, Tick, OpenWindow, vars, Waiting
<1> QED
  BY <1>2, <1>3, <1>4, <1>5, <1>6, <1>7 DEF Next

\* The queue holds the waiting callers, each once, for any number of them
\* (token-bucket.ts acquire, drain).
THEOREM QueueIsExact == Spec => []QueueExact
<1>1. Inv /\ QueueExact /\ [Next]_vars => QueueExact'
  BY StepQueue
<1> QED
  BY <1>1, InitQueue, BucketInvariant, PTL DEF Spec

\* Who is served while another waits on stood before it (token-bucket.ts drain).
LEMMA StepServesInOrder ==
    ASSUME Inv, QueueExact, [Next]_vars, NEW c \in Callers, NEW d \in Callers,
           pc[c] = "queued", pc'[c] = "queued", pc[d] # "granted", pc'[d] = "granted"
    PROVE  pc[d] = "queued" /\ Position(d) < Position(c)
<1>1. queue \in Seq(Callers) /\ IsInjective(queue) /\ ToSet(queue) = Waiting
      /\ pc \in [Callers -> {"idle", "queued", "granted", "rejected"}]
  BY DEF Inv, TypeOK, QueueExact
<1>2. c \in ToSet(queue) /\ queue # <<>>
  <2>1. c \in ToSet(queue)
    BY <1>1 DEF Waiting
  <2> QED BY <2>1 DEF ToSet
<1>3. CASE Drain
  <2> DEFINE n == Served(Refilled)
  <2>1. n \in 0 .. Len(queue)
    <3>1. Refilled \in Nat
      BY Arithmetic DEF Inv
    <3> QED BY <1>1, <3>1, ServedPaid
  <2>2. pc' = [x \in Callers |-> IF x \in ToSet(SubSeq(queue, 1, n))
                                 THEN "granted" ELSE pc[x]]
    BY <1>3 DEF Drain
  <2> HIDE DEF n
  <2>3. d \in ToSet(SubSeq(queue, 1, n)) /\ c \notin ToSet(SubSeq(queue, 1, n))
    BY <2>2
  <2>4. PICK i \in 1 .. n : queue[i] = d
    BY <1>1, <2>1, <2>3, SplitQueue
  <2>5. \A j \in 1 .. n : queue[j] # c
    BY <1>1, <2>1, <2>3, SplitQueue
  <2>6. PICK j \in 1 .. Len(queue) : queue[j] = c
    BY <1>1, <1>2 DEF ToSet
  <2>7. d \in ToSet(queue)
    BY <1>1, <2>1, <2>4 DEF ToSet
  <2>8. Position(d) = i /\ Position(c) = j
    BY <1>1, <2>1, <2>4, <2>6 DEF Position, IsInjective
  <2>9. i <= n /\ n < j
    BY <1>1, <2>1, <2>5, <2>6
  <2> QED BY <1>1, <2>1, <2>4, <2>6, <2>7, <2>8, <2>9 DEF Waiting
<1>4. ASSUME NEW x \in Callers, AcquireNow(x) PROVE FALSE
  BY <1>2, <1>4 DEF AcquireNow
<1>5. ASSUME NEW x \in Callers, Enqueue(x) \/ TimedOut(x) \/ Again(x) PROVE FALSE
  BY <1>1, <1>5 DEF Enqueue, TimedOut, Again
<1>6. ASSUME CurrentLevel \/ Tick \/ OpenWindow \/ UNCHANGED vars PROVE FALSE
  BY <1>6 DEF CurrentLevel, Tick, OpenWindow, vars
<1> QED
  BY <1>3, <1>4, <1>5, <1>6 DEF Next

\* No newcomer takes the token the queue waits for, in any execution
\* (token-bucket.ts acquire, drain).
THEOREM ServedInOrder == Spec => NoOvertaking
<1>1. Inv /\ QueueExact /\ [Next]_vars =>
        [\A c, d \in Callers :
            (pc[c] = "queued" /\ pc'[c] = "queued"
               /\ pc[d] # "granted" /\ pc'[d] = "granted")
            => pc[d] = "queued" /\ Position(d) < Position(c)]_vars
  BY StepServesInOrder
<1> QED
  BY <1>1, QueueIsExact, BucketInvariant, PTL DEF Spec, NoOvertaking
=============================================================================

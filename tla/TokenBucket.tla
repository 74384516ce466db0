----------------------------- MODULE TokenBucket -----------------------------
(***************************************************************************)
(* The rate limiter of each LLM provider (llm-gateway/src/token-bucket.ts):*)
(* acquire with its FIFO queue and its timeout, the lazy refill and the    *)
(* drain that a single scheduled callback runs.                            *)
(*                                                                         *)
(* The clock ticks in milliseconds and the level is counted in the         *)
(* milliseconds of refill it stands for: a token costs Cost = 1000 / rate  *)
(* of them, the bucket holds Full = capacity * Cost.                       *)
(***************************************************************************)
EXTENDS Naturals, Sequences, SequencesExt

CONSTANTS
    Callers,      \* each has one acquire at a time, and may call again
    Patient,      \* the callers that pass no timeoutMs
    Cost,         \* ticks of refill per token
    Full,         \* the level of a full bucket
    MaxWindow,    \* bound: ticks the observer's window lasts
    None

ASSUME BucketAssumption ==
    /\ Patient \subseteq Callers
    /\ Cost \in Nat \ {0}
    /\ Full \in Nat /\ Full >= Cost
    /\ MaxWindow \in Nat
    /\ None \notin Nat

VARIABLES
    level,        \* this.level, at the time of the last refill
    lag,          \* ticks since this.lastRefillTs
    queue,        \* this.queue
    drainIn,      \* ticks to the scheduled drain; None: drainScheduled = false
    pc,           \* state of each caller's acquire
    window        \* observer: ticks seen and level spent in a time window

vars == <<level, lag, queue, drainIn, pc, window>>

-----------------------------------------------------------------------------
Waiting == {c \in Callers : pc[c] = "queued"}

Window == [ticks : 0 .. MaxWindow, spent : Nat]

\* The shape of the state; the level never exceeds the capacity (token-bucket.ts
\* fields, refill).
TypeOK ==
    /\ level \in 0 .. Full
    /\ lag \in 0 .. Full
    /\ queue \in Seq(Callers)
    /\ drainIn \in 0 .. Cost \cup {None}
    /\ pc \in [Callers -> {"idle", "queued", "granted", "rejected"}]
    /\ window \in Window

Init ==
    /\ level = Full
    /\ lag = 0
    /\ queue = <<>>
    /\ drainIn = None
    /\ pc = [c \in Callers |-> "idle"]
    /\ window = [ticks |-> 0, spent |-> 0]

-----------------------------------------------------------------------------
\* Faulty variant: no cap.
RefilledUncapped == level + lag

\* The level a refill at this moment leaves.
Refilled == IF level + lag < Full THEN level + lag ELSE Full

\* The delay of scheduleDrain: the deficit of one token, and at least 1.
DrainDelay(lvl) == IF Cost > lvl + 1 THEN Cost - lvl ELSE 1

\* scheduleDrain does nothing while a drain is scheduled.
Scheduled(lvl) == IF drainIn = None THEN DrainDelay(lvl) ELSE drainIn

Spend(cost) == window' = [window EXCEPT !.spent = @ + cost]

\* Faulty variants: the refill forgets its time stamp; a newcomer does not look
\* at the queue.
AcquireKeepsClock(c) ==
    /\ pc[c] = "idle"
    /\ Refilled >= Cost /\ queue = <<>>
    /\ level' = Refilled - Cost
    /\ pc' = [pc EXCEPT ![c] = "granted"]
    /\ Spend(Cost)
    /\ UNCHANGED <<lag, queue, drainIn>>

AcquireOvertakes(c) ==
    /\ pc[c] = "idle"
    /\ Refilled >= Cost
    /\ level' = Refilled - Cost
    /\ lag' = 0
    /\ pc' = [pc EXCEPT ![c] = "granted"]
    /\ Spend(Cost)
    /\ UNCHANGED <<queue, drainIn>>

\* acquire when a token is there and nobody waits.
AcquireNow(c) ==
    /\ pc[c] = "idle"
    /\ Refilled >= Cost /\ queue = <<>>
    /\ level' = Refilled - Cost
    /\ lag' = 0
    /\ pc' = [pc EXCEPT ![c] = "granted"]
    /\ Spend(Cost)
    /\ UNCHANGED <<queue, drainIn>>

\* Faulty variant: no drain is scheduled.
EnqueueUnscheduled(c) ==
    /\ pc[c] = "idle"
    /\ Refilled < Cost \/ queue # <<>>
    /\ level' = Refilled
    /\ lag' = 0
    /\ queue' = Append(queue, c)
    /\ pc' = [pc EXCEPT ![c] = "queued"]
    /\ UNCHANGED <<drainIn, window>>

\* acquire otherwise: the caller queues, and a drain is scheduled.
Enqueue(c) ==
    /\ pc[c] = "idle"
    /\ Refilled < Cost \/ queue # <<>>
    /\ level' = Refilled
    /\ lag' = 0
    /\ queue' = Append(queue, c)
    /\ pc' = [pc EXCEPT ![c] = "queued"]
    /\ drainIn' = Scheduled(Refilled)
    /\ UNCHANGED window

Position(c) == CHOOSE i \in 1 .. Len(queue) : queue[i] = c

\* Faulty variant: the rejected caller stays in the queue.
TimedOutStaysQueued(c) ==
    /\ pc[c] = "queued" /\ c \notin Patient
    /\ pc' = [pc EXCEPT ![c] = "rejected"]
    /\ UNCHANGED <<level, lag, queue, drainIn, window>>

\* The caller's timer, which being served clears: it leaves the queue. The
\* timeout is any length, so the timer may fire at any time.
TimedOut(c) ==
    /\ pc[c] = "queued" /\ c \notin Patient
    /\ queue' = IF c \in ToSet(queue) THEN RemoveAt(queue, Position(c)) ELSE queue
    /\ pc' = [pc EXCEPT ![c] = "rejected"]
    /\ UNCHANGED <<level, lag, drainIn, window>>

\* How many waiters a level serves.
Served(lvl) == IF lvl \div Cost < Len(queue) THEN lvl \div Cost ELSE Len(queue)

\* Faulty variant: no drain is scheduled for the rest.
DrainOnce ==
    LET n    == Served(Refilled)
        left == Refilled - n * Cost
    IN  /\ drainIn = 0
        /\ level' = left
        /\ lag' = 0
        /\ queue' = SubSeq(queue, n + 1, Len(queue))
        /\ pc' = [c \in Callers |-> IF c \in ToSet(SubSeq(queue, 1, n))
                                    THEN "granted" ELSE pc[c]]
        /\ drainIn' = None
        /\ Spend(n * Cost)

\* The scheduled callback: it fires at its time or later, serves the front of
\* the queue and schedules the next drain for the rest.
Drain ==
    LET n    == Served(Refilled)
        left == Refilled - n * Cost
        rest == SubSeq(queue, n + 1, Len(queue))
    IN  /\ drainIn = 0
        /\ level' = left
        /\ lag' = 0
        /\ queue' = rest
        /\ pc' = [c \in Callers |-> IF c \in ToSet(SubSeq(queue, 1, n))
                                    THEN "granted" ELSE pc[c]]
        /\ drainIn' = IF rest # <<>> THEN DrainDelay(left) ELSE None
        /\ Spend(n * Cost)

\* The getter refills; the router reads it before and after every call.
CurrentLevel ==
    /\ level' = Refilled
    /\ lag' = 0
    /\ UNCHANGED <<queue, drainIn, pc, window>>

\* A caller whose acquire is settled may call again.
Again(c) ==
    /\ pc[c] \in {"granted", "rejected"}
    /\ pc' = [pc EXCEPT ![c] = "idle"]
    /\ UNCHANGED <<level, lag, queue, drainIn, window>>

\* A millisecond. A lag that fills the bucket is as good as any longer one.
Tick ==
    /\ lag' = IF lag < Full THEN lag + 1 ELSE Full
    /\ drainIn' = IF drainIn \in {None, 0} THEN drainIn ELSE drainIn - 1
    /\ window' = IF window.ticks < MaxWindow
                 THEN [window EXCEPT !.ticks = @ + 1]
                 ELSE [ticks |-> 0, spent |-> 0]
    /\ UNCHANGED <<level, queue, pc>>

\* The observer may open its window anew at any time.
OpenWindow ==
    /\ window' = [ticks |-> 0, spent |-> 0]
    /\ UNCHANGED <<level, lag, queue, drainIn, pc>>

-----------------------------------------------------------------------------
Next ==
    \/ Drain \/ CurrentLevel \/ Tick \/ OpenWindow
    \/ \E c \in Callers :
          AcquireNow(c) \/ Enqueue(c) \/ TimedOut(c) \/ Again(c)

\* Time passes and a due callback is run. Timeouts need not be, nor do
\* callers have to call or to stop calling.
Fairness == WF_vars(Tick) /\ WF_vars(Drain)

Spec == Init /\ [][Next]_vars /\ Fairness

-----------------------------------------------------------------------------
(* Properties *)

\* In a time window, however placed, no more is granted than a full bucket and
\* the refill of the window: neither the lazy refill, nor the queue, nor the
\* cap lets a provider be called faster (token-bucket.ts refill, drain).
NeverFasterThanRate == window.spent <= Full + window.ticks

\* The queue holds the waiting callers, each once: no token goes to a caller
\* that was rejected, and none waits outside the queue (token-bucket.ts acquire).
QueueExact ==
    /\ ToSet(queue) = Waiting
    /\ IsInjective(queue)

\* While somebody waits a drain is scheduled, at the latest for when the next
\* token is whole: a token that is there never waits for its taker longer than
\* the timer is late (token-bucket.ts scheduleDrain).
DrainComes ==
    queue # <<>> => drainIn # None /\ drainIn <= DrainDelay(Refilled)

\* A caller that is served while another goes on waiting came before it:
\* newcomers do not take the token the queue waits for (token-bucket.ts
\* acquire, drain).
NoOvertaking ==
    [][\A c, d \in Callers :
          (pc[c] = "queued" /\ pc'[c] = "queued"
             /\ pc[d] # "granted" /\ pc'[d] = "granted")
          => pc[d] = "queued" /\ Position(d) < Position(c)]_vars

\* A caller without a timeout is served, however many others keep calling or
\* give up (token-bucket.ts acquire, drain).
PatientServed == \A c \in Patient : pc[c] = "queued" ~> pc[c] = "granted"
=============================================================================

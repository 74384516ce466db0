---------------------------- MODULE GatewayRouter ----------------------------
(***************************************************************************)
(* chat_completion of the LLM gateway (llm-gateway/src/router.ts,          *)
(* retry.ts): the primary provider under its budget, the mark that makes   *)
(* later requests skip it for a while, the fallback with what is left of   *)
(* the total budget, and the retries with backoff in each. Requests run    *)
(* concurrently and share the marks. The wait for a token is what          *)
(* TokenBucket promises: granted, or rejected when its timeout is over.    *)
(*                                                                         *)
(* Every span of time is counted in ticks by a variable of its own; timers *)
(* fire on time, so the bounds shown are those of an idle event loop.      *)
(***************************************************************************)
EXTENDS Integers

CONSTANTS
    Requests,
    Providers,        \* anthropic and infomaniak
    FallbackOf,       \* FALLBACK_MAP
    FallbackEnabled,
    PrimaryBudget,    \* primaryHardTimeoutMs
    TotalBudget,      \* totalBudgetMs
    WaitCap,          \* the 60 s that cap the wait for a token
    AttemptMax,       \* the 60 s the SDK gives an attempt
    MaxRetries,
    Backoffs,         \* the backoffs jitter can make of each attempt's base
    DegradedTtl,
    None

ASSUME RouterAssumption ==
    /\ FallbackOf \in [Providers -> Providers]
    /\ \A p \in Providers : FallbackOf[p] # p
    /\ FallbackEnabled \in BOOLEAN
    /\ {PrimaryBudget, TotalBudget, WaitCap, AttemptMax, MaxRetries, DegradedTtl}
          \subseteq Nat
    /\ PrimaryBudget <= TotalBudget
    /\ Backoffs \in [1 .. MaxRetries -> SUBSET Nat]
    /\ None \notin Providers \cup Int

VARIABLES
    req,          \* the state of each request
    markAge,      \* ticks since the provider was marked degraded, or None
    failAge       \* history: ticks since a primary call of it failed, capped

vars == <<req, markAge, failAge>>

-----------------------------------------------------------------------------
Lesser(a, b)  == IF a < b THEN a ELSE b
Greater(a, b) == IF a > b THEN a ELSE b

Active == {"bucket", "attempt", "backoff"}

\* The longest a callOnce can take: the wait for its token, then retries that
\* may start until the last tick of the budget, then the last attempt.
CallSpan(b) == Lesser(b, WaitCap) + Greater(b - 1, 0) + AttemptMax

\* The longest a request can take: the fallback alone with the whole budget, or
\* a primary that used up more than the budget and one attempt at the fallback.
WorstCase == Greater(CallSpan(TotalBudget), CallSpan(PrimaryBudget) + AttemptMax)

Age == 0 .. DegradedTtl + 1

Request ==
    [stage    : {"idle", "ok", "failed"} \cup Active,
     primary  : Providers \cup {None},    \* the provider resolved for the step
     at       : Providers \cup {None},    \* the provider callOnce is busy with
     budget   : 0 .. TotalBudget,         \* budgetMs of that callOnce
     elapsed  : Nat,                      \* ticks since chatCompletion began
     retryAge : Nat,                      \* ticks since retryWithBackoff began
     left     : Nat,                      \* ticks its present wait may last
     attempts : 0 .. MaxRetries + 1,      \* attempts of retryWithBackoff
     skipAge  : Age \cup {None}]          \* history: failAge of a primary that
                                          \* was skipped, when it was
\* The shape of the state (router.ts, retry.ts).
TypeOK ==
    /\ req \in [Requests -> Request]
    /\ markAge \in [Providers -> Age \cup {None}]
    /\ failAge \in [Providers -> Age]

Blank == [stage |-> "idle", primary |-> None, at |-> None, budget |-> 0,
          elapsed |-> 0, retryAge |-> 0, left |-> 0, attempts |-> 0,
          skipAge |-> None]

Init ==
    /\ req = [r \in Requests |-> Blank]
    /\ markAge = [p \in Providers |-> None]
    /\ failAge = [p \in Providers |-> DegradedTtl + 1]

-----------------------------------------------------------------------------
\* The beginning of callOnce: wait for a token, at most the capped budget.
CallOnce(q, provider, b) ==
    [q EXCEPT !.stage = "bucket", !.at = provider, !.budget = b,
              !.left = Lesser(b, WaitCap), !.attempts = 0, !.retryAge = 0]

\* The promise is settled: nothing else of the request matters any more.
End(stage) == [Blank EXCEPT !.stage = stage]

\* Faulty variant: a mark never expires.
IsDegradedForGood(p) == markAge[p] # None

IsDegraded(p) == markAge[p] # None /\ markAge[p] <= DegradedTtl

Skip(q, p) ==
    IF FallbackEnabled
    THEN CallOnce([q EXCEPT !.skipAge = failAge[p]], FallbackOf[p], TotalBudget)
    ELSE End("failed")

\* chatCompletion up to its first await.
Begin(r, p) ==
    LET q == [req[r] EXCEPT !.primary = p]
    IN  /\ req[r].stage = "idle"
        /\ req' = [req EXCEPT ![r] = IF IsDegraded(p) THEN Skip(q, p)
                                     ELSE CallOnce(q, p, PrimaryBudget)]
        /\ UNCHANGED <<markAge, failAge>>

\* Faulty variant: the fallback gets the total budget afresh.
RemainingAfresh(q) == TotalBudget

Remaining(q) == Greater(0, TotalBudget - q.elapsed)

\* callOnce rejects: the primary is marked and the fallback called, or the
\* request has failed.
CallFails(r) ==
    LET q == req[r]
    IN  IF q.at = q.primary
        THEN /\ failAge' = [failAge EXCEPT ![q.at] = 0]
             /\ IF FallbackEnabled
                THEN /\ markAge' = [markAge EXCEPT ![q.at] = 0]
                     /\ req' = [req EXCEPT ![r] =
                                   CallOnce(q, FallbackOf[q.at], Remaining(q))]
                ELSE /\ req' = [req EXCEPT ![r] = End("failed")]
                     /\ UNCHANGED markAge
        ELSE /\ req' = [req EXCEPT ![r] = End("failed")]
             /\ UNCHANGED <<markAge, failAge>>

\* bucket.acquire.
TokenGranted(r) ==
    /\ req[r].stage = "bucket"
    /\ req' = [req EXCEPT ![r].stage = "attempt", ![r].left = AttemptMax,
                          ![r].attempts = 1]
    /\ UNCHANGED <<markAge, failAge>>

TokenTimeout(r) ==
    /\ req[r].stage = "bucket" /\ req[r].left = 0
    /\ CallFails(r)

\* provider.call.
Answer(r) ==
    /\ req[r].stage = "attempt"
    /\ req' = [req EXCEPT ![r] = End("ok")]
    /\ UNCHANGED <<markAge, failAge>>

\* Any other error, the timeout of the SDK included (defaultIsTransient).
PermanentError(r) ==
    /\ req[r].stage = "attempt"
    /\ CallFails(r)

\* Faulty variant: the backoff alone is compared with the budget.
RetriesWaitOnly(q, wait) == q.attempts <= MaxRetries /\ wait < q.budget

\* Faulty variant: one retry more than maxRetries.
RetriesOneMore(q, wait) ==
    q.attempts <= MaxRetries + 1 /\ q.retryAge + wait < q.budget

Retries(q, wait) == q.attempts <= MaxRetries /\ q.retryAge + wait < q.budget

\* A transient error: back off and try again, or give up.
TransientError(r) ==
    LET q == req[r]
    IN  /\ q.stage = "attempt"
        /\ \E wait \in Backoffs[Lesser(q.attempts, MaxRetries)] :
              IF Retries(q, wait)
              THEN /\ req' = [req EXCEPT ![r].stage = "backoff",
                                         ![r].left = wait]
                   /\ UNCHANGED <<markAge, failAge>>
              ELSE CallFails(r)

\* Faulty variant: a retry starts its attempt without counting it.
SleptUncounted(r) ==
    /\ req[r].stage = "backoff" /\ req[r].left = 0
    /\ req' = [req EXCEPT ![r].stage = "attempt", ![r].left = AttemptMax]
    /\ UNCHANGED <<markAge, failAge>>

Slept(r) ==
    /\ req[r].stage = "backoff" /\ req[r].left = 0
    /\ req' = [req EXCEPT ![r].stage = "attempt", ![r].left = AttemptMax,
                          ![r].attempts = @ + 1]
    /\ UNCHANGED <<markAge, failAge>>

-----------------------------------------------------------------------------
\* An age beyond the time to live is as good as any other.
Aged(age) == IF age = None THEN None ELSE Lesser(age + 1, DegradedTtl + 1)

Later(q) ==
    IF q.stage \in Active
    THEN [q EXCEPT !.elapsed = @ + 1, !.left = @ - 1,
                   !.retryAge = IF q.stage = "bucket" THEN 0 ELSE @ + 1]
    ELSE q

\* Time does not pass beyond a timer that is due.
Tick ==
    /\ \A r \in Requests : req[r].stage \in Active => req[r].left > 0
    /\ req' = [r \in Requests |-> Later(req[r])]
    /\ markAge' = [p \in Providers |-> Aged(markAge[p])]
    /\ failAge' = [p \in Providers |-> Aged(failAge[p])]

RequestStep(r) ==
    \/ TokenGranted(r) \/ TokenTimeout(r) \/ Answer(r)
    \/ PermanentError(r) \/ TransientError(r) \/ Slept(r)

Next ==
    \/ Tick
    \/ \E r \in Requests :
          RequestStep(r) \/ \E p \in Providers : Begin(r, p)

\* Time passes and timers fire; providers need not answer.
Fairness ==
    /\ WF_vars(Tick)
    /\ \A r \in Requests : WF_vars(RequestStep(r))

Spec == Init /\ [][Next]_vars /\ Fairness

-----------------------------------------------------------------------------
(* Properties *)

\* The real bound of a request's duration: what the wait for tokens, the two
\* retry budgets and an attempt in flight can add up to (router.ts
\* chatCompletion, callOnce; retry.ts).
WithinWorstCase == \A r \in Requests : req[r].elapsed <= WorstCase

\* No retry starts once the budget of its callOnce is over: only the first
\* attempt may (retry.ts retryWithBackoff).
RetriesWithinBudget ==
    [][\A r \in Requests :
          req'[r].attempts > 1 /\ req'[r].attempts # req[r].attempts =>
              req[r].retryAge < req[r].budget]_vars

\* A primary is skipped only within DegradedTtl of a failed call to it: one bad
\* spell never keeps a provider out for good (router.ts isDegraded,
\* markDegraded).
SkippedOnlyWhenFresh ==
    \A r \in Requests : req[r].skipAge # None => req[r].skipAge <= DegradedTtl

\* Every request that begins is answered or fails (router.ts chatCompletion).
EveryRequestSettles ==
    \A r \in Requests :
        req[r].stage \in Active ~> req[r].stage \in {"ok", "failed"}

\* The header says of primaryHardTimeoutMs: "Esse 30s NAO e per-attempt timeout
\* ..., e um cap de tempo CUMULATIVO no provider primario antes de cair pro
\* secundario" (router.ts). The code breaks it: neither the wait for a token
\* nor the attempt in flight counts.
PrimaryTimeIsCapped ==
    \A r \in Requests :
        req[r].stage \in Active /\ req[r].at = req[r].primary =>
            req[r].elapsed <= PrimaryBudget
=============================================================================

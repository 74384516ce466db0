------------------------ MODULE GatewayRouter_proofs ------------------------
(***************************************************************************)
(* GatewayRouter for any requests, budgets, backoffs and time to live: the *)
(* types, the longest a request can take, that no retry starts after its   *)
(* budget, and that a primary is skipped only while a failure is fresh.    *)
(* The duration rests on an account of each call: the time it began at,    *)
(* the retries that may still start and one attempt stay within the span   *)
(* its provider has.                                                       *)
(***************************************************************************)
EXTENDS GatewayRouter, TLAPS

\* What a call may take once its token is granted.
Retrying(b) == Greater(b - 1, 0) + AttemptMax

\* How old a request may be while it is busy with its present provider.
Limit(q) == IF q.at = q.primary THEN CallSpan(PrimaryBudget) ELSE WorstCase

Resolved(q) ==
    q.stage \in Active =>
        /\ q.primary \in Providers /\ q.at \in Providers
        /\ q.at = q.primary => q.budget = PrimaryBudget

Waits(q) ==
    q.stage = "bucket" =>
        q.retryAge = 0 /\ q.elapsed + q.left + Retrying(q.budget) <= Limit(q)

Tries(q) ==
    /\ q.stage \in {"attempt", "backoff"} =>
          /\ q.attempts >= 1 /\ q.retryAge <= q.elapsed
          /\ q.elapsed - q.retryAge + Retrying(q.budget) <= Limit(q)
    /\ q.stage = "attempt" => q.elapsed + q.left <= Limit(q)
    /\ q.stage = "backoff" =>
          q.retryAge + q.left < q.budget /\ q.attempts <= MaxRetries

Settled(q) == q.stage \notin Active => q.elapsed = 0

Fresh(q) == q.skipAge # None => q.skipAge <= DegradedTtl

Accounted(q) == Resolved(q) /\ Waits(q) /\ Tries(q) /\ Settled(q) /\ Fresh(q)

\* A mark is never younger than the last failure it stands for.
MarksFail == \A p \in Providers : markAge[p] # None => failAge[p] <= markAge[p]

Inv == TypeOK /\ (\A r \in Requests : Accounted(req[r])) /\ MarksFail

-----------------------------------------------------------------------------
\* The constants are numbers.
LEMMA Numbers ==
    /\ PrimaryBudget \in Nat /\ TotalBudget \in Nat /\ WaitCap \in Nat
    /\ AttemptMax \in Nat /\ MaxRetries \in Nat /\ DegradedTtl \in Nat
    /\ PrimaryBudget <= TotalBudget
    /\ None \notin Providers /\ None \notin Int
BY RouterAssumption

\* The spans are numbers, and the primary's is within that of a request.
LEMMA Spans ==
    /\ CallSpan(PrimaryBudget) \in Nat /\ WorstCase \in Nat
    /\ CallSpan(PrimaryBudget) + AttemptMax <= WorstCase
    /\ CallSpan(TotalBudget) <= WorstCase
BY Numbers DEF CallSpan, WorstCase, Greater, Lesser

\* A call with the whole budget has its span before it.
LEMMA WholeSpan ==
    ASSUME NEW b \in Nat
    PROVE  /\ Lesser(b, WaitCap) \in Nat /\ Retrying(b) \in Nat
           /\ Lesser(b, WaitCap) + Retrying(b) = CallSpan(b)
BY Numbers DEF CallSpan, Lesser, Greater, Retrying

\* A fallback that begins while the primary is within its span stays within the
\* worst case: what it is given shrinks as the request ages.
LEMMA FallbackFits ==
    ASSUME NEW e \in Nat, e <= CallSpan(PrimaryBudget)
    PROVE  LET b == Greater(0, TotalBudget - e)
           IN  /\ b \in 0 .. TotalBudget
               /\ e + Lesser(b, WaitCap) + Retrying(b) <= WorstCase
<1> DEFINE b == Greater(0, TotalBudget - e)
<1> SUFFICES b \in 0 .. TotalBudget /\ e + Lesser(b, WaitCap) + Retrying(b) <= WorstCase
  OBVIOUS
<1>1. b \in 0 .. TotalBudget
  BY Numbers DEF Greater
<1>2. CASE e >= TotalBudget
  <2>1. b = 0
    BY <1>2, Numbers DEF Greater
  <2>2. Lesser(b, WaitCap) = 0 /\ Retrying(b) = AttemptMax
    BY <2>1, Numbers DEF Lesser, Retrying, Greater
  <2> HIDE DEF b
  <2> QED BY <1>1, <2>2, Spans, Numbers
<1>3. CASE e < TotalBudget
  <2>1. b = TotalBudget - e /\ b >= 1
    BY <1>3, Numbers DEF Greater
  <2>2. e + Lesser(b, WaitCap) + Retrying(b) <= CallSpan(TotalBudget)
    BY <2>1, Numbers DEF Lesser, Retrying, Greater, CallSpan
  <2>3. Lesser(b, WaitCap) \in Nat /\ Retrying(b) \in Nat
    BY <1>1, WholeSpan, Numbers
  <2>4. CallSpan(TotalBudget) \in Nat
    BY Numbers DEF CallSpan, Lesser, Greater
  <2> HIDE DEF b
  <2> QED BY <1>1, <2>2, <2>3, <2>4, Spans, Numbers
<1> QED
  BY <1>1, <1>2, <1>3, Numbers

\* A request that is accounted for is within the span of its provider.
LEMMA WithinLimit ==
    ASSUME NEW q \in Request, Accounted(q), q.stage \in Active
    PROVE  q.elapsed <= Limit(q) /\ Limit(q) \in Nat /\ Limit(q) <= WorstCase
<1>1. Limit(q) \in Nat /\ Limit(q) <= WorstCase
  BY Spans, Numbers DEF Limit
<1>2. /\ q.elapsed \in Nat /\ q.left \in Nat /\ q.retryAge \in Nat
      /\ q.budget \in 0 .. TotalBudget
  BY DEF Request
<1>3. Retrying(q.budget) \in Nat /\ Retrying(q.budget) >= q.budget - 1
  BY <1>2, Numbers DEF Retrying, Greater
<1>4. CASE q.stage = "bucket"
  BY <1>1, <1>2, <1>3, <1>4 DEF Accounted, Waits
<1>5. CASE q.stage = "attempt"
  BY <1>1, <1>2, <1>5 DEF Accounted, Tries
<1>6. CASE q.stage = "backoff"
  BY <1>1, <1>2, <1>3, <1>6, Numbers DEF Accounted, Tries
<1> QED
  BY <1>1, <1>4, <1>5, <1>6 DEF Active

-----------------------------------------------------------------------------
(* What the handlers make of a request *)

\* A request that has ended is blank (router.ts chatCompletion).
LEMMA EndAccounted ==
    ASSUME NEW stage \in {"idle", "ok", "failed"}
    PROVE  End(stage) \in Request /\ Accounted(End(stage))
<1>1. End(stage) = [stage |-> stage, primary |-> None, at |-> None, budget |-> 0,
                    elapsed |-> 0, retryAge |-> 0, left |-> 0, attempts |-> 0,
                    skipAge |-> None]
  BY DEF End, Blank
<1>2. End(stage) \in Request
  BY <1>1, Numbers DEF Request
<1> QED
  BY <1>1, <1>2 DEF Accounted, Resolved, Waits, Tries, Settled, Fresh, Active

\* A call that begins early enough is accounted for (callOnce).
LEMMA CallOnceAccounted ==
    ASSUME NEW q \in Request, NEW provider \in Providers, NEW b \in 0 .. TotalBudget,
           q.primary \in Providers, Fresh(q),
           provider = q.primary => b = PrimaryBudget,
           q.elapsed + Lesser(b, WaitCap) + Retrying(b) <=
               (IF provider = q.primary THEN CallSpan(PrimaryBudget) ELSE WorstCase)
    PROVE  CallOnce(q, provider, b) \in Request /\ Accounted(CallOnce(q, provider, b))
<1> DEFINE c == CallOnce(q, provider, b)
<1>1. b \in Nat /\ Lesser(b, WaitCap) \in Nat
  BY WholeSpan, Numbers
<1>2. c \in Request
  <2> DEFINE d == [q EXCEPT !.stage = "bucket", !.at = provider, !.budget = b]
             e == [d EXCEPT !.left = Lesser(b, WaitCap), !.retryAge = 0]
  <2>1. d \in Request
    BY Numbers DEF Request, Active
  <2>2. c = [e EXCEPT !.attempts = 0]
    BY <2>1 DEF CallOnce, Request
  <2>3. e \in Request
    <3> HIDE DEF d
    <3> QED BY <1>1, <2>1 DEF Request
  <2>4. 0 \in 0 .. MaxRetries + 1
    BY Numbers
  <2> HIDE DEF d, e, c
  <2> QED BY <2>2, <2>3, <2>4 DEF Request
<1>3. /\ c.stage = "bucket" /\ c.primary = q.primary /\ c.at = provider /\ c.budget = b
      /\ c.elapsed = q.elapsed /\ c.retryAge = 0 /\ c.left = Lesser(b, WaitCap)
      /\ c.skipAge = q.skipAge
  BY DEF CallOnce, Request
<1> HIDE DEF c
<1> QED
  BY <1>2, <1>3 DEF Accounted, Resolved, Waits, Tries, Settled, Fresh, Active, Limit, c

\* A skipped primary, or a refusal, is accounted for (chatCompletion).
LEMMA SkipAccounted ==
    ASSUME Inv, NEW q \in Request, NEW p \in Providers,
           q.primary = p, q.elapsed = 0, IsDegraded(p)
    PROVE  Skip(q, p) \in Request /\ Accounted(Skip(q, p))
<1> DEFINE s == [q EXCEPT !.skipAge = failAge[p]]
<1>1. CASE FallbackEnabled
  <2>1. failAge[p] \in Age /\ failAge[p] <= DegradedTtl
    BY Numbers DEF Inv, TypeOK, MarksFail, IsDegraded, Age
  <2>2. s \in Request
    BY <2>1 DEF Request
  <2>3. s.primary = p /\ s.elapsed = 0 /\ Fresh(s)
    BY <2>1 DEF Fresh, Request
  <2>4. FallbackOf[p] \in Providers /\ FallbackOf[p] # p
    BY RouterAssumption
  <2>5. TotalBudget \in 0 .. TotalBudget /\ TotalBudget \in Nat
    BY Numbers
  <2>6. 0 + Lesser(TotalBudget, WaitCap) + Retrying(TotalBudget) <= WorstCase
    BY <2>5, WholeSpan, Spans
  <2>7. Skip(q, p) = CallOnce(s, FallbackOf[p], TotalBudget)
    BY <1>1 DEF Skip
  <2> HIDE DEF s
  <2> QED BY <2>2, <2>3, <2>4, <2>5, <2>6, <2>7, CallOnceAccounted
<1>2. CASE ~FallbackEnabled
  BY <1>2, EndAccounted DEF Skip
<1> QED
  BY <1>1, <1>2

\* One request is replaced by one that is accounted for, and the failures and the
\* marks stay in step.
LEMMA ReplaceOne ==
    ASSUME Inv, NEW r \in Requests, NEW q \in Request, Accounted(q),
           req' = [req EXCEPT ![r] = q],
           markAge' \in [Providers -> Age \cup {None}], failAge' \in [Providers -> Age],
           MarksFail'
    PROVE  Inv'
BY DEF Inv, TypeOK

\* A request begins (chatCompletion).
LEMMA BeginInv ==
    ASSUME Inv, NEW r \in Requests, NEW p \in Providers, Begin(r, p)
    PROVE  Inv'
<1> DEFINE q == [req[r] EXCEPT !.primary = p]
           s == IF IsDegraded(p) THEN Skip(q, p) ELSE CallOnce(q, p, PrimaryBudget)
<1>1. req[r] \in Request /\ req[r].stage = "idle" /\ req[r].elapsed = 0 /\ Fresh(req[r])
  BY DEF Inv, TypeOK, Begin, Accounted, Settled, Active
<1>2. q \in Request /\ q.primary = p /\ q.elapsed = 0 /\ Fresh(q)
  BY <1>1 DEF Request, Fresh
<1>3. s \in Request /\ Accounted(s)
  <2> HIDE DEF q
  <2>1. CASE IsDegraded(p)
    BY <1>2, <2>1, SkipAccounted
  <2>2. CASE ~IsDegraded(p)
    <3>1. PrimaryBudget \in 0 .. TotalBudget
          /\ 0 + Lesser(PrimaryBudget, WaitCap) + Retrying(PrimaryBudget)
                <= CallSpan(PrimaryBudget)
      BY WholeSpan, Spans, Numbers
    <3> QED BY <1>2, <2>2, <3>1, CallOnceAccounted
  <2> QED BY <2>1, <2>2
<1>4. req' = [req EXCEPT ![r] = s] /\ UNCHANGED <<markAge, failAge>>
  BY DEF Begin
<1> HIDE DEF s
<1>5. MarksFail' /\ markAge' \in [Providers -> Age \cup {None}]
      /\ failAge' \in [Providers -> Age]
  BY <1>4 DEF Inv, TypeOK, MarksFail
<1> QED
  BY <1>3, <1>4, <1>5, ReplaceOne

\* callOnce rejects: the primary is marked, and the fallback has what is left.
LEMMA CallFailsInv ==
    ASSUME Inv, NEW r \in Requests, req[r].stage \in Active, CallFails(r)
    PROVE  Inv'
<1> DEFINE q == req[r]
<1>1. q \in Request /\ Accounted(q)
  BY DEF Inv, TypeOK
<1>2. q.primary \in Providers /\ q.at \in Providers
  BY <1>1 DEF Accounted, Resolved
<1>3. 0 \in Age
  BY Numbers DEF Age
<1>4. End("failed") \in Request /\ Accounted(End("failed"))
  BY EndAccounted
<1>5. CASE q.at # q.primary
  <2>1. req' = [req EXCEPT ![r] = End("failed")] /\ UNCHANGED <<markAge, failAge>>
    BY <1>5 DEF CallFails
  <2> QED BY <1>4, <2>1, ReplaceOne DEF Inv, TypeOK, MarksFail
<1>6. CASE q.at = q.primary
  <2>1. failAge' = [failAge EXCEPT ![q.at] = 0]
    BY <1>6 DEF CallFails
  <2>2. failAge' \in [Providers -> Age]
    BY <1>3, <2>1 DEF Inv, TypeOK
  <2>3. markAge' = markAge \/ markAge' = [markAge EXCEPT ![q.at] = 0]
    BY <1>6 DEF CallFails
  <2>4. markAge' \in [Providers -> Age \cup {None}]
    BY <1>3, <2>3 DEF Inv, TypeOK
  <2>5. MarksFail'
    <3> SUFFICES ASSUME NEW p \in Providers, markAge'[p] # None
                 PROVE  failAge'[p] <= markAge'[p]
      BY DEF MarksFail
    <3>1. CASE p = q.at
      <4>1. failAge'[p] = 0 /\ markAge'[p] \in Age
        BY <2>1, <2>4, <3>1 DEF Inv, TypeOK
      <4> QED BY <4>1, Numbers DEF Age
    <3>2. CASE p # q.at
      BY <2>1, <2>3, <3>2 DEF Inv, TypeOK, MarksFail
    <3> QED BY <3>1, <3>2
  <2>6. CASE FallbackEnabled
    <3> DEFINE b == Remaining(q)
               c == CallOnce(q, FallbackOf[q.at], b)
    <3>1. FallbackOf[q.at] \in Providers /\ FallbackOf[q.at] # q.primary
      BY <1>2, <1>6, RouterAssumption
    <3>2. q.elapsed \in Nat /\ q.elapsed <= CallSpan(PrimaryBudget)
      <4>1. q.elapsed <= Limit(q)
        BY <1>1, WithinLimit
      <4> QED BY <1>1, <1>6, <4>1 DEF Limit, Request
    <3>3. b \in 0 .. TotalBudget
          /\ q.elapsed + Lesser(b, WaitCap) + Retrying(b) <= WorstCase
      BY <3>2, FallbackFits DEF Remaining
    <3>4. Fresh(q)
      BY <1>1 DEF Accounted
    <3>5. c \in Request /\ Accounted(c)
      <4> HIDE DEF q, b
      <4> QED BY <1>1, <1>2, <3>1, <3>3, <3>4, CallOnceAccounted
    <3>6. req' = [req EXCEPT ![r] = c]
      BY <1>6, <2>6 DEF CallFails
    <3> HIDE DEF c
    <3> QED BY <2>2, <2>4, <2>5, <3>5, <3>6, ReplaceOne
  <2>7. CASE ~FallbackEnabled
    <3>1. req' = [req EXCEPT ![r] = End("failed")]
      BY <1>6, <2>7 DEF CallFails
    <3> QED BY <1>4, <2>2, <2>4, <2>5, <3>1, ReplaceOne
  <2> QED BY <2>6, <2>7
<1> QED
  BY <1>5, <1>6

\* The first attempt begins (callOnce).
LEMMA TokenGrantedInv ==
    ASSUME Inv, NEW r \in Requests, TokenGranted(r)
    PROVE  Inv'
<1> DEFINE q == req[r]
           c == [q EXCEPT !.stage = "attempt", !.left = AttemptMax, !.attempts = 1]
<1>1. q \in Request /\ Accounted(q) /\ q.stage = "bucket"
  BY DEF Inv, TypeOK, TokenGranted
<1>2. 1 \in 0 .. MaxRetries + 1 /\ AttemptMax \in Nat
  BY Numbers
<1>3. c \in Request
  BY <1>1, <1>2 DEF Request, Active
<1>4. /\ c.stage = "attempt" /\ c.left = AttemptMax /\ c.attempts = 1
      /\ c.primary = q.primary /\ c.at = q.at /\ c.budget = q.budget
      /\ c.elapsed = q.elapsed /\ c.retryAge = q.retryAge /\ c.skipAge = q.skipAge
  BY <1>1 DEF Request
<1>5. /\ q.elapsed \in Nat /\ q.left \in Nat /\ q.retryAge \in Nat
      /\ q.budget \in Nat /\ Retrying(q.budget) \in Nat
      /\ Retrying(q.budget) >= AttemptMax /\ Limit(q) \in Nat
  <2>1. q.budget \in Nat /\ Limit(q) \in Nat
    BY <1>1, Numbers, Spans DEF Request, Limit
  <2> QED BY <1>1, <2>1, Numbers DEF Request, Retrying, Greater
<1>6. req' = [req EXCEPT ![r] = c] /\ UNCHANGED <<markAge, failAge>>
  BY <1>1 DEF TokenGranted
<1>7. Limit(c) = Limit(q)
  BY <1>4 DEF Limit
<1> HIDE DEF q, c
<1>8. Accounted(c)
  <2>1. q.retryAge = 0 /\ q.elapsed + q.left + Retrying(q.budget) <= Limit(q)
    BY <1>1 DEF Accounted, Waits
  <2>2. Resolved(c) /\ Waits(c) /\ Settled(c) /\ Fresh(c)
    BY <1>1, <1>4 DEF Accounted, Resolved, Waits, Settled, Fresh, Active
  <2>3. Tries(c)
    BY <1>2, <1>4, <1>5, <1>7, <2>1 DEF Tries
  <2> QED BY <2>2, <2>3 DEF Accounted
<1> QED
  BY <1>3, <1>6, <1>8, ReplaceOne DEF Inv, TypeOK, MarksFail

\* A retry is granted only within its budget; otherwise the call fails
\* (retryWithBackoff).
LEMMA TransientErrorInv ==
    ASSUME Inv, NEW r \in Requests, TransientError(r)
    PROVE  Inv'
<1> DEFINE q == req[r]
<1>1. q \in Request /\ Accounted(q) /\ q.stage = "attempt"
  BY DEF Inv, TypeOK, TransientError
<1>2. q.attempts \in Nat /\ q.attempts >= 1
  BY <1>1, Numbers DEF Request, Accounted, Tries
<1>3. PICK wait \in Backoffs[Lesser(q.attempts, MaxRetries)] :
          IF Retries(q, wait)
          THEN /\ req' = [req EXCEPT ![r].stage = "backoff", ![r].left = wait]
               /\ UNCHANGED <<markAge, failAge>>
          ELSE CallFails(r)
  BY DEF TransientError
<1>4. CASE ~Retries(q, wait)
  BY <1>1, <1>3, <1>4, CallFailsInv DEF Active
<1>5. CASE Retries(q, wait)
  <2> DEFINE c == [q EXCEPT !.stage = "backoff", !.left = wait]
  <2>1. q.attempts <= MaxRetries /\ q.retryAge + wait < q.budget
    BY <1>5 DEF Retries
  <2>2. wait \in Nat
    <3>1. Lesser(q.attempts, MaxRetries) \in 1 .. MaxRetries
      BY <1>2, <2>1, Numbers DEF Lesser
    <3> QED BY <3>1, RouterAssumption
  <2>3. c \in Request
    BY <1>1, <2>2 DEF Request, Active
  <2>4. /\ c.stage = "backoff" /\ c.left = wait /\ c.attempts = q.attempts
        /\ c.primary = q.primary /\ c.at = q.at /\ c.budget = q.budget
        /\ c.elapsed = q.elapsed /\ c.retryAge = q.retryAge /\ c.skipAge = q.skipAge
    BY <1>1 DEF Request
  <2>5. req' = [req EXCEPT ![r] = c] /\ UNCHANGED <<markAge, failAge>>
    BY <1>3, <1>5
  <2>6. Limit(c) = Limit(q)
    BY <2>4 DEF Limit
  <2> HIDE DEF q, c
  <2>7. Accounted(c)
    BY <1>1, <1>2, <2>1, <2>2, <2>4, <2>6
    DEF Accounted, Resolved, Waits, Tries, Settled, Fresh, Active
  <2> QED BY <2>3, <2>5, <2>7, ReplaceOne DEF Inv, TypeOK, MarksFail
<1> QED
  BY <1>4, <1>5

\* The next attempt begins before the budget of the retries is over.
LEMMA SleptInv ==
    ASSUME Inv, NEW r \in Requests, Slept(r)
    PROVE  Inv'
<1> DEFINE q == req[r]
           n == q.attempts + 1
           c == [q EXCEPT !.stage = "attempt", !.left = AttemptMax, !.attempts = n]
<1>1. q \in Request /\ Accounted(q) /\ q.stage = "backoff" /\ q.left = 0
  BY DEF Inv, TypeOK, Slept
<1>2. /\ q.attempts >= 1 /\ q.retryAge <= q.elapsed /\ q.retryAge + 0 < q.budget
      /\ q.elapsed - q.retryAge + Retrying(q.budget) <= Limit(q)
      /\ q.attempts <= MaxRetries
  BY <1>1 DEF Accounted, Tries
<1>3. /\ q.elapsed \in Nat /\ q.retryAge \in Nat /\ q.budget \in Nat
      /\ q.attempts \in Nat /\ Limit(q) \in Nat /\ AttemptMax \in Nat
  BY <1>1, Numbers, Spans DEF Request, Limit
<1>4. q.elapsed + AttemptMax <= Limit(q)
  <2>1. Retrying(q.budget) = q.budget - 1 + AttemptMax
    BY <1>2, <1>3 DEF Retrying, Greater
  <2> QED BY <1>2, <1>3, <2>1
<1>5. n \in 0 .. MaxRetries + 1 /\ n >= 1
  BY <1>2, <1>3, Numbers
<1>6. req' = [req EXCEPT ![r] = c] /\ UNCHANGED <<markAge, failAge>>
  BY <1>1 DEF Slept
<1> HIDE DEF n
<1>7. c \in Request
  BY <1>1, <1>3, <1>5 DEF Request, Active
<1>8. /\ c.stage = "attempt" /\ c.left = AttemptMax /\ c.attempts = n
      /\ c.primary = q.primary /\ c.at = q.at /\ c.budget = q.budget
      /\ c.elapsed = q.elapsed /\ c.retryAge = q.retryAge /\ c.skipAge = q.skipAge
  BY <1>1 DEF Request
<1>9. Limit(c) = Limit(q)
  BY <1>8 DEF Limit
<1> HIDE DEF q, c
<1>10. Accounted(c)
  BY <1>1, <1>2, <1>4, <1>5, <1>8, <1>9
  DEF Accounted, Resolved, Waits, Tries, Settled, Fresh, Active
<1> QED
  BY <1>6, <1>7, <1>10, ReplaceOne DEF Inv, TypeOK, MarksFail

\* Time passes: a request grows old as its wait shortens.
LEMMA LaterAccounted ==
    ASSUME NEW q \in Request, Accounted(q), q.stage \in Active => q.left > 0
    PROVE  Later(q) \in Request /\ Accounted(Later(q))
<1>1. CASE q.stage \notin Active
  BY <1>1 DEF Later
<1>2. CASE q.stage \in Active
  <2> DEFINE e == q.elapsed + 1
             l == q.left - 1
             a == IF q.stage = "bucket" THEN 0 ELSE q.retryAge + 1
             c == [q EXCEPT !.elapsed = e, !.left = l, !.retryAge = a]
  <2>1. q.elapsed \in Nat /\ q.left \in Nat /\ q.retryAge \in Nat /\ q.left > 0
        /\ q.budget \in Nat /\ q.attempts \in Nat
    BY <1>2, Numbers DEF Request
  <2>2. e \in Nat /\ l \in Nat /\ a \in Nat
    BY <2>1
  <2>3. Later(q) = c
    BY <1>2 DEF Later
  <2>4. Limit(q) \in Nat /\ Retrying(q.budget) \in Nat
    BY <2>1, WholeSpan, Spans DEF Limit
  <2>5. /\ c.stage = q.stage /\ c.left = q.left - 1 /\ c.attempts = q.attempts
        /\ c.primary = q.primary /\ c.at = q.at /\ c.budget = q.budget
        /\ c.elapsed = q.elapsed + 1 /\ c.skipAge = q.skipAge
        /\ c.retryAge = IF q.stage = "bucket" THEN 0 ELSE q.retryAge + 1
    BY DEF Request
  <2>6. c \in Request
    <3> HIDE DEF e, l, a
    <3> QED BY <2>2 DEF Request
  <2> HIDE DEF c
  <2>7. Limit(c) = Limit(q)
    BY <2>5 DEF Limit
  <2>8. Resolved(c) /\ Settled(c) /\ Fresh(c)
    BY <1>2, <2>5 DEF Accounted, Resolved, Settled, Fresh
  <2>9. Waits(c)
    BY <2>1, <2>4, <2>5, <2>7 DEF Accounted, Waits
  <2>10. Tries(c)
    <3>1. CASE q.stage = "bucket"
      BY <2>5, <3>1 DEF Tries
    <3>2. CASE q.stage = "attempt"
      BY <2>1, <2>4, <2>5, <2>7, <3>2 DEF Accounted, Tries
    <3>3. CASE q.stage = "backoff"
      BY <2>1, <2>4, <2>5, <2>7, <3>3, Numbers DEF Accounted, Tries
    <3> QED BY <1>2, <3>1, <3>2, <3>3 DEF Active
  <2> QED BY <2>3, <2>6, <2>8, <2>9, <2>10 DEF Accounted
<1> QED
  BY <1>1, <1>2

\* A tick keeps the invariant: marks and failures age together.
LEMMA TickInv ==
    ASSUME Inv, Tick
    PROVE  Inv'
<1>1. req' \in [Requests -> Request] /\ \A r \in Requests : Accounted(req'[r])
  <2>1. ASSUME NEW r \in Requests
        PROVE  Later(req[r]) \in Request /\ Accounted(Later(req[r]))
    BY LaterAccounted DEF Inv, TypeOK, Tick
  <2> QED BY <2>1 DEF Tick
<1>2. ASSUME NEW age \in Age
      PROVE  Aged(age) \in Age /\ Aged(age) # None
  BY Numbers DEF Age, Aged, Lesser
<1>3. Aged(None) = None
  BY DEF Aged
<1>4. markAge' \in [Providers -> Age \cup {None}] /\ failAge' \in [Providers -> Age]
  BY <1>2, <1>3 DEF Inv, TypeOK, Tick
<1>5. MarksFail'
  <2> SUFFICES ASSUME NEW p \in Providers, markAge'[p] # None
               PROVE  failAge'[p] <= markAge'[p]
    BY DEF MarksFail
  <2>1. markAge'[p] = Aged(markAge[p]) /\ failAge'[p] = Aged(failAge[p])
    BY DEF Tick
  <2>2. markAge[p] \in Age /\ failAge[p] \in Age /\ failAge[p] <= markAge[p]
    BY <1>3, <2>1 DEF Inv, TypeOK, MarksFail
  <2> QED BY <2>1, <2>2, Numbers DEF Age, Aged, Lesser
<1> QED
  BY <1>1, <1>4, <1>5 DEF Inv, TypeOK

-----------------------------------------------------------------------------
(* The theorems *)

\* No request is under way, and no provider is marked.
LEMMA InitInv == Init => Inv
<1> SUFFICES ASSUME Init PROVE Inv
  OBVIOUS
<1>1. Blank = End("idle")
  BY DEF Blank, End
<1>2. Blank \in Request /\ Accounted(Blank)
  BY <1>1, EndAccounted
<1>3. DegradedTtl + 1 \in Age
  BY Numbers DEF Age
<1> QED
  BY <1>2, <1>3 DEF Init, Inv, TypeOK, MarksFail

\* Every step keeps the invariant.
LEMMA StepInv == Inv /\ [Next]_vars => Inv'
<1> SUFFICES ASSUME Inv, [Next]_vars PROVE Inv'
  OBVIOUS
<1>1. ASSUME NEW r \in Requests, RequestStep(r)
      PROVE  Inv'
  <2>1. CASE TokenGranted(r)
    BY <2>1, TokenGrantedInv
  <2>2. CASE TokenTimeout(r)
    BY <2>2, CallFailsInv DEF TokenTimeout, Active
  <2>3. CASE Answer(r)
    <3>1. End("ok") \in Request /\ Accounted(End("ok"))
      BY EndAccounted
    <3> QED BY <2>3, <3>1, ReplaceOne DEF Answer, Inv, TypeOK, MarksFail
  <2>4. CASE PermanentError(r)
    BY <2>4, CallFailsInv DEF PermanentError, Active
  <2>5. CASE TransientError(r)
    BY <2>5, TransientErrorInv
  <2>6. CASE Slept(r)
    BY <2>6, SleptInv
  <2> QED BY <1>1, <2>1, <2>2, <2>3, <2>4, <2>5, <2>6 DEF RequestStep
<1>2. CASE UNCHANGED vars
  BY <1>2 DEF vars, Inv, TypeOK, MarksFail
<1> QED
  BY <1>1, <1>2, TickInv, BeginInv DEF Next

\* Inv is invariant (router.ts, retry.ts).
THEOREM RouterInvariant == Spec => []Inv
BY InitInv, StepInv, PTL DEF Spec

\* The state has its type (router.ts, retry.ts).
THEOREM TypeCorrect == Spec => []TypeOK
BY RouterInvariant, PTL DEF Inv

\* No request, whatever its providers do, lasts longer than the two waits for a
\* token, the two budgets and an attempt in flight add up to (router.ts
\* chatCompletion, callOnce; retry.ts).
THEOREM DurationBounded == Spec => []WithinWorstCase
<1>1. Inv => WithinWorstCase
  <2> SUFFICES ASSUME Inv, NEW r \in Requests PROVE req[r].elapsed <= WorstCase
    BY DEF WithinWorstCase
  <2>1. req[r] \in Request /\ Accounted(req[r])
    BY DEF Inv, TypeOK
  <2>2. CASE req[r].stage \in Active
    <3>1. req[r].elapsed <= Limit(req[r]) /\ Limit(req[r]) \in Nat
          /\ Limit(req[r]) <= WorstCase
      BY <2>1, <2>2, WithinLimit
    <3> QED BY <2>1, <3>1, Spans DEF Request
  <2>3. CASE req[r].stage \notin Active
    BY <2>1, <2>3, Spans DEF Accounted, Settled
  <2> QED BY <2>2, <2>3
<1> QED
  BY <1>1, RouterInvariant, PTL

\* A primary is skipped only within its time to live of a failed call to it
\* (router.ts isDegraded, markDegraded).
THEOREM SkipsAreFresh == Spec => []SkippedOnlyWhenFresh
<1>1. Inv => SkippedOnlyWhenFresh
  BY DEF Inv, Accounted, Fresh, SkippedOnlyWhenFresh
<1> QED
  BY <1>1, RouterInvariant, PTL

\* A call that begins, and a request that has ended, have made no attempt.
LEMMA NoAttempts ==
    /\ \A q \in Request, p \in Providers, b \in 0 .. TotalBudget :
          CallOnce(q, p, b).attempts = 0
    /\ \A q \in Request, p \in Providers : Skip(q, p).attempts = 0
    /\ \A stage \in {"ok", "failed"} : End(stage).attempts = 0
<1>1. ASSUME NEW q \in Request, NEW p \in Providers, NEW b
      PROVE  CallOnce(q, p, b).attempts = 0
  BY DEF CallOnce, Request
<1>2. ASSUME NEW stage \in {"ok", "failed"} PROVE End(stage).attempts = 0
  BY DEF End, Blank
<1>3. ASSUME NEW q \in Request, NEW p \in Providers
      PROVE  Skip(q, p).attempts = 0
  <2>1. CASE FallbackEnabled
    BY <2>1 DEF Skip, CallOnce, Request
  <2>2. CASE ~FallbackEnabled
    BY <1>2, <2>2 DEF Skip
  <2> QED BY <2>1, <2>2
<1> QED
  BY <1>1, <1>2, <1>3

\* A call that fails leaves its request without an attempt.
LEMMA FailedHasNone ==
    ASSUME Inv, NEW r \in Requests, req[r].stage \in Active, CallFails(r)
    PROVE  \E q \in Request : q.attempts = 0 /\ req' = [req EXCEPT ![r] = q]
<1>1. req[r] \in Request /\ req[r].at \in Providers /\ req[r].primary \in Providers
  BY DEF Inv, TypeOK, Accounted, Resolved
<1>2. Inv'
  BY CallFailsInv
<1>3. req'[r].attempts = 0 /\ req' = [req EXCEPT ![r] = req'[r]]
  <2>1. CASE req' = [req EXCEPT ![r] = End("failed")]
    BY <2>1, NoAttempts DEF Inv, TypeOK
  <2>2. CASE req' = [req EXCEPT ![r] =
                        CallOnce(req[r], FallbackOf[req[r].at], Remaining(req[r]))]
    <3>1. CallOnce(req[r], FallbackOf[req[r].at], Remaining(req[r])).attempts = 0
      BY <1>1 DEF CallOnce, Request
    <3> QED BY <2>2, <3>1 DEF Inv, TypeOK
  <2> QED BY <2>1, <2>2 DEF CallFails
<1> QED
  BY <1>2, <1>3 DEF Inv, TypeOK

\* The attempts of a request grow beyond the first only when a retry starts, and
\* that is before its budget is over (retry.ts retryWithBackoff).
LEMMA StepRetries ==
    ASSUME Inv, [Next]_vars, NEW r \in Requests,
           req'[r].attempts > 1, req'[r].attempts # req[r].attempts
    PROVE  req[r].retryAge < req[r].budget
<1> DEFINE q == req[r]
<1>1. req \in [Requests -> Request] /\ q \in Request /\ Accounted(q)
  BY DEF Inv, TypeOK
<1>2. ASSUME NEW s \in Requests, NEW n, n.attempts = 0, req' = [req EXCEPT ![s] = n]
      PROVE  FALSE
  BY <1>1, <1>2
<1>3. ASSUME NEW s \in Requests, req[s].stage \in Active, CallFails(s)
      PROVE  FALSE
  BY <1>2, <1>3, FailedHasNone
<1>4. CASE Tick
  <2>1. req'[r] = Later(q)
    BY <1>4 DEF Tick
  <2>2. Later(q).attempts = q.attempts
    BY <1>1 DEF Later, Request
  <2> QED BY <2>1, <2>2
<1>5. CASE UNCHANGED vars
  BY <1>5 DEF vars
<1>6. ASSUME NEW s \in Requests, NEW p \in Providers, Begin(s, p)
      PROVE  FALSE
  <2> DEFINE b == [req[s] EXCEPT !.primary = p]
             n == IF IsDegraded(p) THEN Skip(b, p) ELSE CallOnce(b, p, PrimaryBudget)
  <2>1. b \in Request
    BY <1>1 DEF Request
  <2>2. n.attempts = 0
    <3>1. PrimaryBudget \in 0 .. TotalBudget
      BY Numbers
    <3> HIDE DEF b
    <3> QED BY <2>1, <3>1, NoAttempts
  <2>3. req' = [req EXCEPT ![s] = n]
    BY <1>6 DEF Begin
  <2> HIDE DEF n
  <2> QED BY <1>2, <2>2, <2>3
<1>7. ASSUME NEW s \in Requests, RequestStep(s)
      PROVE  q.retryAge < q.budget
  <2>1. CASE TokenGranted(s)
    BY <1>1, <2>1 DEF TokenGranted, Request
  <2>2. CASE TokenTimeout(s)
    BY <1>3, <2>2 DEF TokenTimeout, Active
  <2>3. CASE Answer(s)
    BY <1>2, <2>3, NoAttempts DEF Answer
  <2>4. CASE PermanentError(s)
    BY <1>3, <2>4 DEF PermanentError, Active
  <2>5. CASE TransientError(s)
    <3>1. CASE CallFails(s)
      BY <1>3, <2>5, <3>1 DEF TransientError, Active
    <3>2. ASSUME NEW wait,
                 req' = [req EXCEPT ![s].stage = "backoff", ![s].left = wait]
          PROVE  FALSE
      BY <1>1, <3>2 DEF Request
    <3> QED BY <2>5, <3>1, <3>2 DEF TransientError
  <2>6. CASE Slept(s)
    <3>1. s = r
      BY <1>1, <2>6 DEF Slept
    <3>2. q.retryAge + q.left < q.budget /\ q.left = 0
      BY <1>1, <2>6, <3>1 DEF Slept, Accounted, Tries
    <3> QED BY <1>1, <3>2 DEF Request
  <2> QED BY <1>7, <2>1, <2>2, <2>3, <2>4, <2>5, <2>6 DEF RequestStep
<1> QED
  BY <1>4, <1>5, <1>6, <1>7 DEF Next

\* No retry starts once the budget of its call is over, whatever the backoffs are
\* (retry.ts retryWithBackoff).
THEOREM RetriesStopInTime == Spec => RetriesWithinBudget
<1>1. Inv /\ [Next]_vars =>
         [\A r \in Requests :
            req'[r].attempts > 1 /\ req'[r].attempts # req[r].attempts =>
                req[r].retryAge < req[r].budget]_vars
  BY StepRetries
<1> QED
  BY <1>1, RouterInvariant, PTL DEF Spec, RetriesWithinBudget
=============================================================================

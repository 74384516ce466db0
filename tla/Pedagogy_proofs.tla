-------------------------- MODULE Pedagogy_proofs ---------------------------
(***************************************************************************)
(* What the program keeps of a child, for any constants: the statuses and  *)
(* the jumps between them, the questions and the cards, what a turn says,  *)
(* what the operator decides, the messages of the parents, the programme,  *)
(* the journey, the helix, the first crisis of a session, and who speaks   *)
(* in a group. Each component has an inductive invariant of its own; the   *)
(* last section puts them together for the behaviours of MCPedagogy.       *)
(***************************************************************************)
EXTENDS MCPedagogy, DrillLoop_proofs, FiniteSetTheorems, WellFoundedInduction, TLAPS

\* A set of numbers that is not empty has a least one.
LEMMA LeastOf ==
  ASSUME NEW S \in SUBSET Nat, S # {}
  PROVE  Min(S) \in S /\ \A n \in S : Min(S) <= n
<1> DEFINE R == {ss \in Nat \X Nat : ss[1] < ss[2]}
<1>1. IsWellFoundedOn(R, Nat)
  BY NatLessThanWellFounded DEF OpToRel
<1>2. PICK m \in S : \A n \in S : ~ (<<n, m>> \in R)
  <2> HIDE DEF R
  <2> QED BY <1>1, WFMin
<1>3. ASSUME NEW n \in S PROVE m <= n
  <2>1. ~ (<<n, m>> \in R)
    BY <1>2
  <2>2. <<n, m>> \in Nat \X Nat
    OBVIOUS
  <2>3. ~ (n < m)
    BY <2>1, <2>2
  <2> QED BY <2>3
<1> QED
  BY <1>3 DEF Min

-----------------------------------------------------------------------------
(* The status matrix *)

\* What a call has read is what the row holds, unless it was overtaken.
ReadIsCurrent ==
  \A w \in Writers : writer[w].at = "loaded" /\ w \notin overtaken
                       => writer[w].current = status[writer[w].dimension]

MatrixIInv == MatrixTypeOK /\ ReadIsCurrent

\* What transition applies is never a jump from what it was given.
LEMMA TransitionNeverJumps ==
  ASSUME NEW current, NEW target
  PROVE  ~Jump(current, Transition(current, target))
BY DEF Jump, Transition

\* ... and is a status if the target is one.
LEMMA TransitionType ==
  ASSUME NEW current, NEW target \in Status
  PROVE  Transition(current, target) \in Status
BY DEF Transition, Status

LEMMA MatrixInitInv == MatrixInit => MatrixIInv
<1> SUFFICES ASSUME MatrixInit PROVE MatrixIInv
  OBVIOUS
<1> (CHOOSE d \in Dimensions : TRUE) \in Dimensions
  BY MatrixAssumption
<1>1. MatrixTypeOK
  BY DEF MatrixInit, MatrixTypeOK, Status
<1>2. ReadIsCurrent
  BY DEF MatrixInit, ReadIsCurrent
<1> QED BY <1>1, <1>2 DEF MatrixIInv

\* A read takes what the row holds; a write marks every other call that has read
\* the row as overtaken.
LEMMA MatrixStepInv == MatrixIInv /\ [MatrixStep]_matrixVars => MatrixIInv'
<1> SUFFICES ASSUME MatrixIInv, [MatrixStep]_matrixVars PROVE MatrixIInv'
  OBVIOUS
<1> USE DEF MatrixIInv
<1>1. ASSUME NEW w \in Writers, LoadStatus(w) PROVE MatrixIInv'
  <2> PICK d \in Dimensions, t \in Status :
        writer' = [writer EXCEPT ![w] = [at |-> "loaded", dimension |-> d,
                                         target |-> t, current |-> status[d]]]
    BY <1>1 DEF LoadStatus
  <2>1. MatrixTypeOK'
    BY <1>1 DEF LoadStatus, MatrixTypeOK
  <2>2. ReadIsCurrent'
    BY <1>1 DEF LoadStatus, MatrixTypeOK, ReadIsCurrent
  <2> QED BY <2>1, <2>2
<1>2. ASSUME NEW w \in Writers, Upsert(w) PROVE MatrixIInv'
  <2> DEFINE d == writer[w].dimension
             applied == Transition(writer[w].current, writer[w].target)
  <2>1. d \in Dimensions /\ applied \in Status
    BY TransitionType DEF MatrixTypeOK
  <2>2. status' = [status EXCEPT ![d] = applied]
    BY <1>2 DEF Upsert
  <2> HIDE DEF applied
  <2>3. MatrixTypeOK'
    BY <1>2, <2>1, <2>2 DEF Upsert, MatrixTypeOK
  <2>4. ReadIsCurrent'
    <3> SUFFICES ASSUME NEW v \in Writers, writer'[v].at = "loaded", v \notin overtaken'
                 PROVE  writer'[v].current = status'[writer'[v].dimension]
      BY DEF ReadIsCurrent
    <3>1. v # w /\ writer'[v] = writer[v]
      BY <1>2 DEF Upsert, MatrixTypeOK
    <3>2. v \notin overtaken /\ writer[v].dimension # d
      BY <1>2, <3>1 DEF Upsert
    <3> QED BY <2>2, <3>1, <3>2 DEF ReadIsCurrent, MatrixTypeOK
  <2> QED BY <2>3, <2>4
<1>3. CASE UNCHANGED matrixVars
  BY <1>3 DEF matrixVars, MatrixTypeOK, ReadIsCurrent
<1> QED BY <1>1, <1>2, <1>3 DEF MatrixStep

\* Types of the rows and of the calls of persistTransition.
THEOREM MatrixTypeCorrect == MatrixSpec => []MatrixTypeOK
<1>1. MatrixIInv => MatrixTypeOK
  BY DEF MatrixIInv
<1> QED BY <1>1, MatrixInitInv, MatrixStepInv, PTL DEF MatrixSpec

\* No write of persistTransition takes a dimension from brejo to pasto or back,
\* unless another call wrote it between the read and the write.
THEOREM JumpOnlyWhenOvertakenHolds == MatrixSpec => JumpOnlyWhenOvertaken
<1>1. ASSUME MatrixIInv, [MatrixStep]_matrixVars,
             NEW w \in Writers, Upsert(w), w \notin overtaken, NEW d \in Dimensions
      PROVE  ~Jump(status[d], status'[d])
  <2>1. CASE d = writer[w].dimension
    <3>1. status'[d] = Transition(writer[w].current, writer[w].target)
      BY <1>1, <2>1 DEF Upsert, MatrixIInv, MatrixTypeOK
    <3>2. status[d] = writer[w].current
      BY <1>1, <2>1 DEF Upsert, MatrixIInv, ReadIsCurrent
    <3> QED BY <3>1, <3>2, TransitionNeverJumps
  <2>2. CASE d # writer[w].dimension
    <3>1. status'[d] = status[d]
      BY <1>1, <2>2 DEF Upsert, MatrixIInv, MatrixTypeOK
    <3> QED BY <3>1 DEF Jump
  <2> QED BY <2>1, <2>2
<1>2. MatrixIInv /\ [MatrixStep]_matrixVars =>
        [\A w \in Writers :
           Upsert(w) /\ w \notin overtaken
             => \A d \in Dimensions : ~Jump(status[d], status'[d])]_matrixVars
  BY <1>1
<1> QED BY <1>2, MatrixInitInv, MatrixStepInv, PTL DEF MatrixSpec, JumpOnlyWhenOvertaken

-----------------------------------------------------------------------------
(* The rotation of the helix *)

ItemsOf(seq) == {seq[i] : i \in 1..Len(seq)}

\* Of a sequence, filter keeps what is in the set and loses nothing of it.
LEMMA FilteredItems ==
  ASSUME NEW D, NEW seq \in Seq(D), NEW S
  PROVE  /\ Filtered(seq, S) \in Seq(D)
         /\ ItemsOf(Filtered(seq, S)) = ItemsOf(seq) \cap S
<1> DEFINE places == PlacesOf(seq, S)
           upto(i) == {k \in places : k <= i}
           rank == [i \in places |-> Cardinality(upto(i))]
           N == Cardinality(places)
           place(n) == CHOOSE i \in places : rank[i] = n
           f == [n \in 1..N |-> seq[place(n)]]
<1>1. /\ places \subseteq 1..Len(seq) /\ Len(seq) \in Nat
      /\ \A i \in 1..Len(seq) : seq[i] \in D /\ (i \in places <=> seq[i] \in S)
  BY DEF PlacesOf
<1>2. Filtered(seq, S) = f
  BY DEF Filtered
<1> HIDE DEF places
<1>3. IsFiniteSet(places) /\ N \in Nat
  <2>1. IsFiniteSet(1..Len(seq))
    BY <1>1, FS_Interval
  <2> QED
    BY <1>1, <2>1, FS_Subset, FS_CardinalityType
<1>4. \A i \in places : /\ IsFiniteSet(upto(i)) /\ i \in upto(i) /\ upto(i) \subseteq places
                        /\ Cardinality(upto(i)) \in 1..N
  <2> SUFFICES ASSUME NEW i \in places
               PROVE  /\ IsFiniteSet(upto(i)) /\ i \in upto(i) /\ upto(i) \subseteq places
                      /\ Cardinality(upto(i)) \in 1..N
    OBVIOUS
  <2>1. i \in upto(i) /\ upto(i) \subseteq places
    BY <1>1
  <2> DEFINE U == upto(i)
  <2> HIDE DEF U
  <2>2. IsFiniteSet(U) /\ Cardinality(U) <= N /\ Cardinality(U) \in Nat
    <3>1. U \in SUBSET places
      BY <2>1 DEF U
    <3> QED
      BY <1>3, <3>1, FS_Subset, FS_CardinalityType
  <2>3. Cardinality(U) # 0
    BY <2>1, <2>2, FS_EmptySet DEF U
  <2>4. Cardinality(U) \in 1..N
    BY <1>3, <2>2, <2>3
  <2> QED
    BY <2>1, <2>2, <2>4 DEF U
<1>5. \A i, j \in places : i < j => Cardinality(upto(i)) # Cardinality(upto(j))
  <2> SUFFICES ASSUME NEW i \in places, NEW j \in places, i < j,
                      Cardinality(upto(i)) = Cardinality(upto(j))
               PROVE  FALSE
    OBVIOUS
  <2>a. places \subseteq Nat
    BY <1>1
  <2>b. \A k \in places : k <= i => k <= j
    BY <2>a
  <2>c. ~(j <= i) /\ j <= j
    BY <2>a
  <2>1. upto(i) \in SUBSET upto(j) /\ j \notin upto(i) /\ j \in upto(j)
    BY <2>b, <2>c
  <2>2. IsFiniteSet(upto(j))
    BY <1>4
  <2> DEFINE U == upto(i)
             V == upto(j)
  <2>3. Cardinality(U) = Cardinality(V)
    OBVIOUS
  <2> HIDE DEF U, V
  <2>4. U = V
    <3>1. U \in SUBSET V /\ IsFiniteSet(V)
      BY <2>1, <2>2 DEF U, V
    <3> QED
      BY <2>3, <3>1, FS_Subset
  <2> QED
    BY <2>1, <2>4 DEF U, V
<1>6. rank \in Injection(places, 1..N)
  <2>1. \A i \in places : rank[i] = Cardinality(upto(i)) /\ rank[i] \in 1..N
    BY <1>4
  <2>2. rank \in [places -> 1..N]
    BY <1>4
  <2>3. \A i, j \in places : rank[i] = rank[j] => i = j
    <3>1. \A i, j \in places : i < j \/ j < i \/ i = j
      BY <1>1
    <3> HIDE DEF rank
    <3> QED
      BY <1>5, <2>1, <3>1
  <2> HIDE DEF rank
  <2> QED
    BY <2>2, <2>3 DEF Injection, IsInjective
<1>7. rank \in Surjection(places, 1..N)
  <2> HIDE DEF rank
  <2>1. IsFiniteSet(1..N) /\ Cardinality(1..N) = N
    BY <1>3, FS_Interval
  <2> QED
    BY <1>6, <2>1, FS_Injection
<1> HIDE DEF rank, upto
<1>8. \A n \in 1..N : place(n) \in places /\ rank[place(n)] = n
  <2>1. \A n \in 1..N : \E i \in places : rank[i] = n
    BY <1>7 DEF Surjection
  <2> QED
    BY <2>1
<1>9. \A i \in places : rank[i] \in 1..N /\ place(rank[i]) = i
  <2>1. \A i, j \in places : rank[i] = rank[j] => i = j
    BY <1>6 DEF Injection, IsInjective
  <2>2. \A i \in places : rank[i] \in 1..N
    BY <1>6 DEF Injection
  <2> QED
    BY <1>8, <2>1, <2>2
<1> HIDE DEF place
<1>10. f \in Seq(D) /\ Len(f) = N /\ \A n \in 1..N : f[n] = seq[place(n)]
  <2>1. \A n \in 1..N : seq[place(n)] \in D
    BY <1>1, <1>8
  <2> HIDE DEF N
  <2> QED
    BY <1>3, <2>1
<1> HIDE DEF f
<1>11. ItemsOf(f) \subseteq ItemsOf(seq) \cap S
  BY <1>1, <1>8, <1>10 DEF ItemsOf
<1>12. ItemsOf(seq) \cap S \subseteq ItemsOf(f)
  <2> SUFFICES ASSUME NEW i \in 1..Len(seq), seq[i] \in S PROVE seq[i] \in ItemsOf(f)
    BY DEF ItemsOf
  <2>1. i \in places
    BY <1>1
  <2>2. rank[i] \in 1..N /\ f[rank[i]] = seq[i]
    BY <1>9, <1>10, <2>1
  <2> QED
    BY <1>10, <2>2 DEF ItemsOf
<1> QED
  BY <1>2, <1>10, <1>11, <1>12

\* find returns one that is in the set, if the sequence has one.
LEMMA FirstIsThere ==
  ASSUME NEW D, NEW seq \in Seq(D), NEW S, ItemsOf(seq) \cap S # {}
  PROVE  First(seq, S) \in ItemsOf(seq) \cap S
<1>1. PlacesOf(seq, S) \in SUBSET Nat /\ PlacesOf(seq, S) # {}
  BY DEF PlacesOf, ItemsOf
<1>2. Min(PlacesOf(seq, S)) \in PlacesOf(seq, S)
  BY <1>1, LeastOf
<1> QED
  BY <1>2 DEF First, PlacesOf, ItemsOf

\* A sequence that is not empty has a first one.
LEMMA HeadIsThere ==
  ASSUME NEW D, NEW seq \in Seq(D), seq # <<>>
  PROVE  seq[1] \in ItemsOf(seq)
BY DEF ItemsOf

LEMMA NoneIsEmpty ==
  ASSUME NEW D, NEW seq \in Seq(D)
  PROVE  seq = <<>> <=> ItemsOf(seq) = {}
<1>1. seq = <<>> => ItemsOf(seq) = {}
  BY DEF ItemsOf
<1> QED
  BY <1>1, HeadIsThere

HelixInv ==
  /\ pair \in Dims \X Dims /\ queue \in Seq(Dims)
  /\ completed \subseteq Dims /\ deferred \subseteq Dims
  /\ resumedActive \in BOOLEAN
  /\ RotationHolds

LEMMA AllDims ==
  /\ CaselDims \in Seq(Dims) /\ ItemsOf(CaselDims) = Dims /\ Len(CaselDims) \in Nat
  /\ Len(CaselDims) >= 3 /\ IsFiniteSet(Dims) /\ Cardinality(Dims) = Len(CaselDims)
<1>1. CaselDims \in Seq(Dims) /\ Len(CaselDims) \in Nat /\ Len(CaselDims) >= 3
  BY HelixAssumption
<1>2. ItemsOf(CaselDims) = Dims
  BY DEF ItemsOf, Dims
<1> DEFINE n == Len(CaselDims)
           c == [i \in 1..n |-> CaselDims[i]]
<1>3. c \in Bijection(1..n, Dims)
  <2>1. c \in [1..n -> Dims]
    BY DEF Dims
  <2>2. \A i, j \in 1..n : c[i] = c[j] => i = j
    BY HelixAssumption
  <2>3. \A d \in Dims : \E i \in 1..n : c[i] = d
    BY DEF Dims
  <2> HIDE DEF c
  <2> QED
    BY <2>1, <2>2, <2>3 DEF Bijection, Injection, Surjection, IsInjective
<1>4. IsFiniteSet(1..n) /\ Cardinality(1..n) = n
  BY <1>1, FS_Interval
<1>5. ExistsBijection(1..n, Dims)
  BY <1>3 DEF ExistsBijection
<1> QED
  BY <1>1, <1>2, <1>4, <1>5, FS_Bijection

\* A ranking has every dimension once.
LEMMA RankingIsOfAll ==
  ASSUME NEW r \in Rankings
  PROVE  /\ r \in Seq(Dims) /\ Len(r) = Len(CaselDims)
         /\ ItemsOf(r) = Dims
         /\ \A i, j \in 1..Len(CaselDims) : r[i] = r[j] => i = j
<1> DEFINE n == Len(CaselDims)
<1>1. r \in [1..n -> Dims] /\ \A i, j \in 1..n : r[i] = r[j] => i = j
  BY DEF Rankings
<1>2. r \in Injection(1..n, Dims)
  BY <1>1 DEF Injection, IsInjective
<1>3. IsFiniteSet(1..n) /\ Cardinality(1..n) = Cardinality(Dims) /\ IsFiniteSet(Dims)
  BY AllDims, FS_Interval
<1>4. r \in Surjection(1..n, Dims)
  BY <1>2, <1>3, FS_Injection
<1>5. \A d \in Dims : \E i \in 1..n : r[i] = d
  BY <1>4 DEF Surjection
<1>6. r \in Seq(Dims) /\ Len(r) = n
  BY <1>1, AllDims
<1> QED
  BY <1>1, <1>5, <1>6 DEF ItemsOf

\* The next pair and its queue: apart from each other, of different dimensions, and
\* with what had its turn they hold all there was.
GoodNext(next) ==
  /\ next.pair \in Dims \X Dims /\ next.queue \in Seq(Dims) /\ next.completed \subseteq Dims
  /\ Dims \ deferred
       \subseteq {next.pair[1], next.pair[2]} \cup ItemsOf(next.queue) \cup next.completed
  /\ next.pair[1] # next.pair[2] \/ resumedActive
  /\ resumedActive \/ ItemsOf(next.queue) \cap {next.pair[1], next.pair[2]} = {}

LEMMA QueuedItems == Queued = ItemsOf(queue) /\ Queued' = ItemsOf(queue')
BY DEF Queued, ItemsOf

LEMMA ReshuffledIsGood ==
  ASSUME NEW r \in Rankings
  PROVE  GoodNext(Reshuffled(r))
<1> DEFINE n == Len(CaselDims)
           q == SubSeq(r, 3, Len(r))
<1>1. /\ r \in Seq(Dims) /\ Len(r) = n /\ n \in Nat /\ n >= 3 /\ ItemsOf(r) = Dims
      /\ \A i, j \in 1..n : r[i] = r[j] => i = j
  BY RankingIsOfAll, AllDims
<1>2. /\ q \in Seq(Dims) /\ Len(q) = n - 2 /\ \A i \in 1..(n - 2) : q[i] = r[i + 2]
  BY <1>1
<1>3. Reshuffled(r) = [pair |-> <<r[1], r[2]>>, queue |-> q, completed |-> {}]
  BY DEF Reshuffled
<1> HIDE DEF q, n
<1>4. r[1] \in Dims /\ r[2] \in Dims /\ r[1] # r[2]
  BY <1>1
<1>5. \A i \in 1..n : r[i] \in {r[1], r[2]} \cup ItemsOf(q)
  <2> SUFFICES ASSUME NEW i \in 1..n, i # 1, i # 2 PROVE r[i] \in ItemsOf(q)
    OBVIOUS
  <2>1. i - 2 \in 1..(n - 2) /\ (i - 2) + 2 = i
    BY <1>1
  <2>2. q[i - 2] = r[i] /\ i - 2 \in 1..Len(q)
    BY <1>2, <2>1
  <2> QED
    BY <2>2 DEF ItemsOf
<1>6. ItemsOf(q) \cap {r[1], r[2]} = {}
  <2> SUFFICES ASSUME NEW i \in 1..(n - 2) PROVE q[i] # r[1] /\ q[i] # r[2]
    BY <1>2 DEF ItemsOf
  <2>1. i + 2 \in 1..n /\ i + 2 # 1 /\ i + 2 # 2 /\ 1 \in 1..n /\ 2 \in 1..n
    BY <1>1
  <2> QED
    BY <1>1, <1>2, <2>1
<1>7. Dims \subseteq {r[1], r[2]} \cup ItemsOf(q)
  BY <1>1, <1>5 DEF ItemsOf
<1> QED
  BY <1>2, <1>3, <1>4, <1>6, <1>7 DEF GoodNext

LEMMA OverlappedIsGood ==
  ASSUME HelixInv, Remaining # <<>>
  PROVE  GoodNext(Overlapped)
<1> DEFINE Z == Remaining[1]
           q == Filtered(queue, Dims \ {Z})
<1>1. pair \in Dims \X Dims /\ queue \in Seq(Dims) /\ completed \subseteq Dims
  BY DEF HelixInv
<1>2. Remaining \in Seq(Dims) /\ ItemsOf(Remaining) = ItemsOf(queue) \cap (Dims \ {pair[1], pair[2]})
  BY <1>1, FilteredItems DEF Remaining
<1>3. Z \in ItemsOf(queue) /\ Z \in Dims /\ Z # pair[1] /\ Z # pair[2]
  BY <1>2, HeadIsThere
<1>4. q \in Seq(Dims) /\ ItemsOf(q) = ItemsOf(queue) \cap (Dims \ {Z})
  BY <1>1, FilteredItems
<1>5. Overlapped = [pair |-> <<pair[2], Z>>, queue |-> q, completed |-> completed \cup {pair[1]}]
  BY DEF Overlapped, Carry, Done
<1> HIDE DEF Z, q
<1>6. /\ Dims = {pair[1], pair[2]} \cup ItemsOf(queue) \cup completed \cup deferred
      /\ resumedActive \/ ItemsOf(queue) \cap {pair[1], pair[2]} = {}
  BY QueuedItems DEF HelixInv, RotationHolds, NoDimensionLost, QueueOfOthers
<1>7. Dims \ deferred \subseteq {pair[2], Z} \cup ItemsOf(q) \cup (completed \cup {pair[1]})
  BY <1>4, <1>6
<1>8. resumedActive \/ ItemsOf(q) \cap {pair[2], Z} = {}
  BY <1>4, <1>6
<1> QED
  BY <1>1, <1>3, <1>4, <1>5, <1>7, <1>8 DEF GoodNext

LEMMA FallbackIsGood ==
  ASSUME HelixInv, ~(Remaining # <<>>)
  PROVE  GoodNext(Fallback)
<1> DEFINE Z == IF Nowhere # {} THEN First(CaselDims, Nowhere)
                ELSE First(CaselDims, Dims \ {Carry})
<1>1. pair \in Dims \X Dims /\ queue \in Seq(Dims) /\ completed \subseteq Dims
  BY DEF HelixInv
<1>2. Dims \ {Carry} # {}
  <2>1. CaselDims[1] \in Dims /\ CaselDims[2] \in Dims /\ CaselDims[1] # CaselDims[2]
    <3>1. 1 \in 1..Len(CaselDims) /\ 2 \in 1..Len(CaselDims)
      BY AllDims
    <3> QED
      BY <3>1, HelixAssumption DEF Dims
  <2> QED
    BY <2>1
<1>3. Z \in Dims /\ Z # Carry
  <2>1. Nowhere \subseteq Dims \ {Carry}
    BY DEF Nowhere
  <2>2. CASE Nowhere # {}
    <3>1. First(CaselDims, Nowhere) \in Dims \cap Nowhere
      BY <2>1, <2>2, AllDims, FirstIsThere
    <3> QED
      BY <2>1, <2>2, <3>1
  <2>3. CASE ~(Nowhere # {})
    <3>1. First(CaselDims, Dims \ {Carry}) \in Dims \cap (Dims \ {Carry})
      BY <1>2, AllDims, FirstIsThere
    <3> QED
      BY <2>3, <3>1
  <2> QED
    BY <2>2, <2>3
<1>4. Fallback = [pair |-> <<pair[2], Z>>, queue |-> queue, completed |-> completed \cup {pair[1]}]
  BY DEF Fallback, Carry, Done
<1> HIDE DEF Z
<1>5. /\ Dims = {pair[1], pair[2]} \cup ItemsOf(queue) \cup completed \cup deferred
      /\ resumedActive \/ ItemsOf(queue) \cap {pair[1], pair[2]} = {}
  BY QueuedItems DEF HelixInv, RotationHolds, NoDimensionLost, QueueOfOthers
<1>6. ItemsOf(queue) \subseteq {pair[1], pair[2]}
  <2>1. Remaining \in Seq(Dims) /\ ItemsOf(Remaining) = ItemsOf(queue) \cap (Dims \ {pair[1], pair[2]})
    BY <1>1, FilteredItems DEF Remaining
  <2>2. ItemsOf(Remaining) = {}
    BY <2>1, NoneIsEmpty
  <2>3. ItemsOf(queue) \subseteq Dims
    BY <1>1 DEF ItemsOf
  <2> QED
    BY <2>1, <2>2, <2>3
<1>7. Dims \ deferred \subseteq {pair[2], Z} \cup ItemsOf(queue) \cup (completed \cup {pair[1]})
  BY <1>5
<1>8. resumedActive \/ ItemsOf(queue) = {}
  BY <1>5, <1>6
<1> QED
  BY <1>1, <1>3, <1>4, <1>7, <1>8 DEF GoodNext, Carry

LEMMA CompleteCycleKeeps ==
  ASSUME HelixInv, CompleteCycle
  PROVE  HelixInv'
<1>1. \A next \in NextPairs : GoodNext(next)
  BY ReshuffledIsGood, OverlappedIsGood, FallbackIsGood DEF NextPairs
<1>2. PICK next \in NextPairs :
        pair' = next.pair /\ queue' = next.queue /\ completed' = next.completed
  BY DEF CompleteCycle
<1>3. deferred' = deferred /\ resumedActive' = resumedActive
  BY DEF CompleteCycle
<1>4. GoodNext(next)
  BY <1>1
<1>5. /\ pair' \in Dims \X Dims /\ queue' \in Seq(Dims) /\ completed' \subseteq Dims
      /\ deferred' \subseteq Dims
  BY <1>2, <1>3, <1>4 DEF GoodNext, HelixInv
<1>6. ItemsOf(queue') \subseteq Dims
  BY <1>5 DEF ItemsOf
<1>7. NoDimensionLost'
  <2>1. Dims \ deferred \subseteq {pair'[1], pair'[2]} \cup ItemsOf(queue') \cup completed'
    BY <1>2, <1>4 DEF GoodNext
  <2> QED
    BY <1>3, <1>5, <1>6, <2>1, QueuedItems DEF NoDimensionLost
<1>8. PairDistinct' /\ QueueOfOthers'
  BY <1>2, <1>3, <1>4, QueuedItems DEF GoodNext, PairDistinct, QueueOfOthers
<1>9. resumedActive' \in BOOLEAN
  BY <1>3 DEF HelixInv
<1> QED
  BY <1>5, <1>7, <1>8, <1>9 DEF HelixInv, RotationHolds

LEMMA DeferKeeps ==
  ASSUME HelixInv, NEW d \in Dims, NEW s \in Dims, DeferDimension(d, s)
  PROVE  HelixInv'
<1>1. /\ pair \in Dims \X Dims /\ queue \in Seq(Dims) /\ completed \subseteq Dims
      /\ deferred \subseteq Dims
      /\ Dims = {pair[1], pair[2]} \cup ItemsOf(queue) \cup completed \cup deferred
  BY QueuedItems DEF HelixInv, RotationHolds, NoDimensionLost
<1>2. /\ pair[1] = pair[2] => resumedActive
      /\ resumedActive \/ ItemsOf(queue) \cap {pair[1], pair[2]} = {}
      /\ resumedActive \in BOOLEAN
  BY QueuedItems DEF HelixInv, RotationHolds, PairDistinct, QueueOfOthers
<1>3. /\ d \in {pair[1], pair[2]} /\ deferred' = deferred \cup {d} /\ completed' = completed
      /\ resumedActive' = resumedActive
  BY DEF DeferDimension, InPair
<1>4. ItemsOf(queue) \subseteq Dims
  BY <1>1 DEF ItemsOf
<1>5. CASE s \in Queued
  <2>1. /\ pair' = IF pair[1] = d THEN <<s, pair[2]>> ELSE <<pair[1], s>>
        /\ queue' = Filtered(queue, Dims \ {s})
    BY <1>5 DEF DeferDimension
  <2>2. queue' \in Seq(Dims) /\ ItemsOf(queue') = ItemsOf(queue) \cap (Dims \ {s})
    BY <1>1, <2>1, FilteredItems
  <2>3. s \in ItemsOf(queue)
    BY <1>5, QueuedItems
  <2>4. \/ pair[1] = d /\ pair'[1] = s /\ pair'[2] = pair[2]
        \/ pair[2] = d /\ pair'[1] = pair[1] /\ pair'[2] = s
    BY <1>3, <2>1
  <2>5. pair' \in Dims \X Dims
    BY <1>1, <2>1
  <2>6. NoDimensionLost'
    BY <1>1, <1>3, <1>4, <2>2, <2>3, <2>4, QueuedItems DEF NoDimensionLost
  <2>7. PairDistinct'
    BY <1>2, <1>3, <2>3, <2>4 DEF PairDistinct
  <2>8. QueueOfOthers'
    BY <1>2, <1>3, <2>2, <2>4, QueuedItems DEF QueueOfOthers
  <2> QED
    BY <1>1, <1>2, <1>3, <2>2, <2>5, <2>6, <2>7, <2>8 DEF HelixInv, RotationHolds
<1>6. CASE s \notin Queued
  <2>1. pair' = pair /\ queue' = queue
    BY <1>6 DEF DeferDimension
  <2>2. NoDimensionLost' /\ PairDistinct' /\ QueueOfOthers'
    BY <1>1, <1>2, <1>3, <2>1, QueuedItems DEF NoDimensionLost, PairDistinct, QueueOfOthers
  <2> QED
    BY <1>1, <1>2, <1>3, <2>1, <2>2 DEF HelixInv, RotationHolds
<1> QED
  BY <1>5, <1>6

LEMMA ResumeKeeps ==
  ASSUME HelixInv, NEW d \in Dims, ResumeDimension(d)
  PROVE  HelixInv'
<1>1. /\ pair \in Dims \X Dims /\ queue \in Seq(Dims) /\ completed \subseteq Dims
      /\ deferred \subseteq Dims
      /\ Dims = {pair[1], pair[2]} \cup ItemsOf(queue) \cup completed \cup deferred
  BY QueuedItems DEF HelixInv, RotationHolds, NoDimensionLost
<1>2. /\ pair[1] = pair[2] => resumedActive
      /\ resumedActive \/ ItemsOf(queue) \cap {pair[1], pair[2]} = {}
      /\ resumedActive \in BOOLEAN
  BY QueuedItems DEF HelixInv, RotationHolds, PairDistinct, QueueOfOthers
<1>3. /\ deferred' = deferred \ {d} /\ completed' = completed /\ pair' = pair
      /\ queue' = IF d \in Queued THEN queue ELSE Append(queue, d)
  BY DEF ResumeDimension
<1>4. resumedActive' = (resumedActive \/ InPair(d))
  BY DEF ResumeDimension
<1>5. queue' \in Seq(Dims) /\ ItemsOf(queue') = ItemsOf(queue) \cup {d}
  <2>1. CASE d \in Queued
    BY <1>1, <1>3, <2>1, QueuedItems
  <2>2. CASE d \notin Queued
    <3>1. /\ queue' \in Seq(Dims) /\ Len(queue') = Len(queue) + 1 /\ queue'[Len(queue) + 1] = d
          /\ \A i \in 1..Len(queue) : queue'[i] = queue[i]
          /\ Len(queue) \in Nat
      BY <1>1, <1>3, <2>2
    <3>2. ItemsOf(queue') \subseteq ItemsOf(queue) \cup {d}
      BY <3>1 DEF ItemsOf
    <3>3. ItemsOf(queue) \cup {d} \subseteq ItemsOf(queue')
      BY <3>1 DEF ItemsOf
    <3> QED
      BY <3>1, <3>2, <3>3
  <2> QED
    BY <2>1, <2>2
<1>6. NoDimensionLost'
  BY <1>1, <1>3, <1>5, QueuedItems DEF NoDimensionLost
<1>7. resumedActive' \in BOOLEAN /\ (resumedActive => resumedActive')
  BY <1>2, <1>4
<1>8. PairDistinct'
  BY <1>2, <1>3, <1>7 DEF PairDistinct
<1>9. QueueOfOthers'
  <2>1. resumedActive' \/ d \notin {pair[1], pair[2]}
    BY <1>4 DEF InPair
  <2> QED
    BY <1>2, <1>3, <1>5, <1>7, <2>1, QueuedItems DEF QueueOfOthers
<1> QED
  BY <1>1, <1>3, <1>5, <1>6, <1>7, <1>8, <1>9 DEF HelixInv, RotationHolds

LEMMA HelixStarts == HelixInit => HelixInv
<1> SUFFICES ASSUME HelixInit PROVE HelixInv
  OBVIOUS
<1>1. /\ pair \in Dims \X Dims /\ pair[1] # pair[2]
      /\ queue = Filtered(CaselDims, Dims \ {pair[1], pair[2]})
      /\ completed = {} /\ deferred = {}
  BY DEF HelixInit
<1>2. resumedActive = FALSE
  BY DEF HelixInit
<1>3. queue \in Seq(Dims) /\ Queued = Dims \cap (Dims \ {pair[1], pair[2]})
  BY <1>1, AllDims, FilteredItems, QueuedItems
<1>4. NoDimensionLost /\ PairDistinct /\ QueueOfOthers
  BY <1>1, <1>3 DEF NoDimensionLost, PairDistinct, QueueOfOthers
<1> QED
  BY <1>1, <1>2, <1>3, <1>4 DEF HelixInv, RotationHolds

LEMMA HelixKeeps == HelixInv /\ [HelixStep]_helixVars => HelixInv'
<1> SUFFICES ASSUME HelixInv, [HelixStep]_helixVars PROVE HelixInv'
  OBVIOUS
<1>1. ASSUME UNCHANGED <<pair, queue, completed, deferred, resumedActive>> PROVE HelixInv'
  BY <1>1 DEF HelixInv, RotationHolds, NoDimensionLost, PairDistinct, QueueOfOthers, Queued
<1>2. CASE CycleStart \/ DayAdvance \/ EnterVacation \/ ExitVacation \/ MarkTriggerFired
  BY <1>1, <1>2 DEF CycleStart, DayAdvance, EnterVacation, ExitVacation, MarkTriggerFired
<1>3. CASE UNCHANGED helixVars
  BY <1>1, <1>3 DEF helixVars
<1> QED
  BY <1>2, <1>3, CompleteCycleKeeps, DeferKeeps, ResumeKeeps DEF HelixStep

-----------------------------------------------------------------------------
(* The event log *)

\* The newest events come first, the others after them, and the last ones are gone.
LEMMA PushedEvents ==
  ASSUME NEW E, NEW old \in Seq(E), NEW new \in Seq(E), NEW limit \in Nat
  PROVE  /\ Pushed(old, new, limit) \in Seq(E)
         /\ Len(Pushed(old, new, limit)) <= limit
         /\ Len(Pushed(old, new, limit)) <= Len(new) + Len(old)
         /\ \A i \in 1 .. Len(Pushed(old, new, limit)) :
              Pushed(old, new, limit)[i] = IF i <= Len(new) THEN new[i] ELSE old[i - Len(new)]
<1> DEFINE all == new \o old
           n == IF Len(all) < limit THEN Len(all) ELSE limit
           p == SubSeq(all, 1, n)
<1>1. Len(new) \in Nat /\ Len(old) \in Nat
  OBVIOUS
<1>2. /\ all \in Seq(E) /\ Len(all) = Len(new) + Len(old)
      /\ \A i \in 1 .. Len(all) : all[i] = IF i <= Len(new) THEN new[i] ELSE old[i - Len(new)]
  BY <1>1
<1>3. Pushed(old, new, limit) = p
  BY DEF Pushed
<1> HIDE DEF all
<1>4. n \in Nat /\ n <= limit /\ n <= Len(all)
  BY <1>1, <1>2
<1> HIDE DEF n
<1>5. p \in Seq(E) /\ Len(p) = n /\ \A i \in 1 .. n : p[i] = all[i]
  BY <1>2, <1>4
<1> QED
  BY <1>1, <1>2, <1>3, <1>4, <1>5

-----------------------------------------------------------------------------
(* The repetition inquiry *)

InqEvent == [type : {"other", "asked", "resolved"}]
              \cup [type : {"executed"}, content : Contents \cup {NoContent}]

Questions == {"asked", "resolved"}

\* The next older event of the two kinds after an answer is a question.
NextIsAsked(seen) ==
  \A i, j \in 1 .. Len(seen) :
    (/\ i < j /\ seen[i].type = "resolved" /\ seen[j].type \in Questions
     /\ \A k \in i + 1 .. j - 1 : seen[k].type \notin Questions)
    => seen[j].type = "asked"

InqInv ==
  /\ InqTypeOK /\ inqLog \in Seq(InqEvent)
  /\ NextIsAsked(inqLog) /\ AskedByOneTurn

\* What is asked of answers is asked of those a turn adds, if what it answers pends.
LEMMA StillAnswered ==
  ASSUME NEW old \in Seq(InqEvent), NEW new \in Seq(InqEvent), NextIsAsked(old),
         \A i \in 1 .. Len(new) : new[i].type = "resolved" => i = Len(new) /\ Pending(old)
  PROVE  NextIsAsked(Pushed(old, new, InqLimit))
<1> DEFINE p == Pushed(old, new, InqLimit)
           n == Len(new)
<1>1. /\ p \in Seq(InqEvent) /\ Len(p) <= n + Len(old) /\ n \in Nat /\ Len(old) \in Nat
      /\ Len(p) \in Nat
      /\ \A i \in 1 .. Len(p) : p[i] = IF i <= n THEN new[i] ELSE old[i - n]
  BY PushedEvents, InqAssumption
<1> HIDE DEF p, n
<1> SUFFICES ASSUME NEW i \in 1 .. Len(p), NEW j \in 1 .. Len(p), i < j,
                    p[i].type = "resolved", p[j].type \in Questions,
                    \A k \in i + 1 .. j - 1 : p[k].type \notin Questions
             PROVE  p[j].type = "asked"
  BY DEF NextIsAsked, p
<1>2. CASE i > n
  <2>1. i - n \in 1 .. Len(old) /\ j - n \in 1 .. Len(old) /\ i - n < j - n
    BY <1>1, <1>2
  <2>2. p[i] = old[i - n] /\ p[j] = old[j - n]
    BY <1>1, <1>2
  <2>3. ASSUME NEW k \in i - n + 1 .. j - n - 1 PROVE old[k].type \notin Questions
    <3>1. k + n \in i + 1 .. j - 1 /\ k + n \in 1 .. Len(p) /\ k + n > n /\ (k + n) - n = k
      BY <1>1, <1>2
    <3>2. p[k + n] = old[k]
      BY <1>1, <3>1
    <3> QED BY <3>1, <3>2
  <2>4. \A k \in (i - n) + 1 .. (j - n) - 1 : old[k].type \notin Questions
    BY <2>3, <1>1
  <2> QED BY <2>1, <2>2, <2>4 DEF NextIsAsked
<1>3. CASE i <= n
  <2>1. i = n /\ Pending(old)
    BY <1>1, <1>3 DEF n
  <2> DEFINE either == IndexesOf(old, "asked") \cup IndexesOf(old, "resolved")
  <2>2. j - n \in 1 .. Len(old) /\ p[j] = old[j - n]
    BY <1>1, <2>1
  <2>3. either \in SUBSET Nat /\ j - n \in either /\ DOMAIN old = 1 .. Len(old)
    BY <2>2 DEF IndexesOf, Questions
  <2>4. Min(either) \in either /\ Min(either) <= j - n
    <3> HIDE DEF either
    <3> QED BY <2>3, LeastOf
  <2>5. Min(either) \in 1 .. Len(old) /\ old[Min(either)].type \in Questions
    BY <2>3, <2>4 DEF IndexesOf, Questions
  <2>6. old[Min(either)].type = "asked"
    BY <2>1 DEF Pending
  <2> HIDE DEF either
  <2>7. CASE Min(either) < j - n
    <3> DEFINE k == Min(either) + n
    <3>1. k \in i + 1 .. j - 1 /\ k \in 1 .. Len(p) /\ k > n /\ k - n = Min(either)
      <4> DEFINE m == Min(either)
      <4>1. m \in 1 .. Len(old) /\ m < j - n
        BY <2>5, <2>7
      <4>2. j - n \in 1 .. Len(old) /\ j \in 1 .. Len(p)
        BY <2>2
      <4> HIDE DEF m
      <4>3. m + n \in i + 1 .. j - 1 /\ m + n \in 1 .. Len(p) /\ m + n > n /\ (m + n) - n = m
        BY <1>1, <2>1, <4>1, <4>2
      <4> QED BY <4>3 DEF m
    <3>2. p[k] = old[Min(either)]
      BY <1>1, <3>1
    <3> HIDE DEF k
    <3>3. p[k].type \notin Questions
      BY <3>1
    <3> QED BY <2>5, <3>2, <3>3
  <2>8. CASE Min(either) = j - n
    BY <2>2, <2>6, <2>8
  <2> QED BY <2>2, <2>4, <2>5, <2>7, <2>8
<1> QED
  BY <1>1, <1>2, <1>3

\* A turn adds the questions it asks, one at most; what leaves the log adds none.
LEMMA AskedGrows ==
  ASSUME NEW old \in Seq(InqEvent), NEW new \in Seq(InqEvent), NEW most \in {0, 1},
         \A i \in 1 .. Len(new) : new[i].type = "asked" => most = 1 /\ i = 1
  PROVE  LET now == IndexesOf(Pushed(old, new, InqLimit), "asked")
         IN  /\ IsFiniteSet(IndexesOf(old, "asked")) /\ IsFiniteSet(now)
             /\ Cardinality(now) <= Cardinality(IndexesOf(old, "asked")) + most
<1> DEFINE p == Pushed(old, new, InqLimit)
           n == Len(new)
           was == IndexesOf(old, "asked")
           now == IndexesOf(p, "asked")
           f == [i \in now \ {1} |-> i - n]
           g == [i \in now |-> i - n]
<1>1. /\ p \in Seq(InqEvent) /\ Len(p) <= n + Len(old) /\ n \in Nat /\ Len(old) \in Nat
      /\ Len(p) \in Nat
      /\ \A i \in 1 .. Len(p) : p[i] = IF i <= n THEN new[i] ELSE old[i - n]
  BY PushedEvents, InqAssumption
<1>2. DOMAIN p = 1 .. Len(p) /\ DOMAIN old = 1 .. Len(old)
  BY <1>1
<1> HIDE DEF p, n
<1>3. was \subseteq 1 .. Len(old) /\ now \subseteq 1 .. Len(p)
  BY <1>2 DEF IndexesOf
<1>4. IsFiniteSet(1 .. Len(old)) /\ IsFiniteSet(1 .. Len(p))
  BY <1>1, FS_Interval
<1>5. IsFiniteSet(was) /\ IsFiniteSet(now)
  <2> HIDE DEF was, now
  <2> QED BY <1>3, <1>4, FS_Subset
<1>6. ASSUME NEW i \in now, i # 1 \/ most = 0 PROVE i - n \in was /\ i \in Nat
  <2>1. i \in 1 .. Len(p) /\ p[i].type = "asked"
    BY <1>2, <1>3 DEF IndexesOf
  <2>2. i > n
    BY <1>1, <1>6, <2>1 DEF n
  <2>3. i - n \in 1 .. Len(old) /\ old[i - n].type = "asked"
    BY <1>1, <2>1, <2>2
  <2> QED BY <1>2, <2>1, <2>3 DEF IndexesOf
<1>7. CASE most = 0
  <2>1. g \in Injection(now, was)
    <3>1. \A i \in now : i - n \in was /\ i \in Nat
      BY <1>6, <1>7
    <3> HIDE DEF now, was
    <3> QED BY <1>1, <3>1 DEF Injection, IsInjective
  <2>2. Cardinality(now) <= Cardinality(was)
    <3> HIDE DEF g, now, was
    <3> QED BY <1>5, <2>1, FS_Injection
  <2>3. Cardinality(was) \in Nat
    <3> HIDE DEF was
    <3> QED BY <1>5, FS_CardinalityType
  <2> QED BY <1>5, <1>7, <2>2, <2>3 DEF p
<1>8. CASE most = 1
  <2>1. f \in Injection(now \ {1}, was)
    <3>1. \A i \in now \ {1} : i - n \in was /\ i \in Nat
      BY <1>6
    <3> HIDE DEF now, was
    <3> QED BY <1>1, <3>1 DEF Injection, IsInjective
  <2>2. Cardinality(now \ {1}) <= Cardinality(was)
    <3> HIDE DEF f, now, was
    <3> QED BY <1>5, <2>1, FS_Injection
  <2>3. Cardinality(was) \in Nat /\ Cardinality(now) \in Nat
    <3> HIDE DEF was, now
    <3> QED BY <1>5, FS_CardinalityType
  <2>4. Cardinality(now \ {1}) = IF 1 \in now THEN Cardinality(now) - 1 ELSE Cardinality(now)
    <3> HIDE DEF now
    <3> QED BY <1>5, FS_RemoveElement
  <2>5. Cardinality(now) <= Cardinality(was) + 1
    <3> HIDE DEF now, was
    <3> QED BY <2>2, <2>3, <2>4
  <2> QED BY <1>5, <1>8, <2>5 DEF p
<1> QED
  BY <1>7, <1>8

LEMMA InquiryStarts == InqInit => InqInv
<1> SUFFICES ASSUME InqInit PROVE InqInv
  OBVIOUS
<1>1. inqLog = <<>> /\ inqLog \in Seq(InqEvent) /\ Len(inqLog) = 0 /\ 0 <= InqLimit
  BY InqAssumption DEF InqInit
<1>2. InqTypeOK
  BY <1>1 DEF InqInit, InqTypeOK, TurnGate
<1>3. NextIsAsked(inqLog)
  BY <1>1 DEF NextIsAsked
<1>4. IndexesOf(inqLog, "asked") = {} /\ {t \in InqTurns : inqTurn[t].ask} = {}
  BY <1>1 DEF IndexesOf, InqInit
<1>5. AskedByOneTurn
  <2>1. Cardinality({}) = 0 /\ Cardinality(InqTurns) \in Nat
    BY InqAssumption, FS_EmptySet, FS_CardinalityType
  <2> QED BY <1>4, <2>1 DEF AskedByOneTurn
<1> QED
  BY <1>1, <1>2, <1>3, <1>5 DEF InqInv

\* A turn that is to ask found no question in the window it read.
LEMMA PlanKeeps ==
  ASSUME InqInv, NEW t \in InqTurns, PlanInquiry(t)
  PROVE  InqInv'
<1> DEFINE new == <<Plain("other")>>
           was == IndexesOf(inqLog, "asked")
           now == IndexesOf(inqLog', "asked")
           due == {u \in InqTurns : inqTurn[u].ask}
<1>1. PICK heldBack \in BOOLEAN, eligible \in SUBSET Contents :
        inqTurn' = [inqTurn EXCEPT ![t] =
                     [at |-> "planned", ask |-> ShouldAsk(inqLog, turnCount, heldBack, eligible)]]
  BY DEF PlanInquiry
<1> DEFINE asks == ShouldAsk(inqLog, turnCount, heldBack, eligible)
<1>2. inqLog \in Seq(InqEvent) /\ new \in Seq(InqEvent) /\ Len(new) = 1
      /\ new[1].type = "other" /\ inqLog' = Pushed(inqLog, new, InqLimit)
  BY DEF InqInv, PlanInquiry, Plain, InqEvent
<1>3. asks \in BOOLEAN /\ (asks => Cardinality(was) < 1)
  BY DEF ShouldAsk, Cap
<1> HIDE DEF new, asks
<1>4. /\ inqTurn' \in [InqTurns -> [at : {"idle", "planned"}, ask : BOOLEAN]]
      /\ \A u \in InqTurns \ {t} : inqTurn'[u] = inqTurn[u]
      /\ inqTurn'[t].ask = asks
  BY <1>1, <1>3 DEF InqInv, InqTypeOK, asks
<1>5. inqLog' \in Seq(InqEvent) /\ Len(inqLog') <= InqLimit
  BY <1>2, PushedEvents, InqAssumption
<1>6. NextIsAsked(inqLog')
  BY <1>2, StillAnswered DEF InqInv
<1>7. IsFiniteSet(was) /\ IsFiniteSet(now) /\ Cardinality(now) <= Cardinality(was)
  <2>1. Cardinality(now) <= Cardinality(was) + 0 /\ IsFiniteSet(was) /\ IsFiniteSet(now)
    BY <1>2, AskedGrows
  <2> HIDE DEF was, now
  <2> QED BY <2>1, FS_CardinalityType
<1>8. due' \subseteq InqTurns /\ due \subseteq InqTurns /\ IsFiniteSet(InqTurns)
      /\ (~asks => due' \subseteq due)
  <2>1. ASSUME ~asks, NEW u \in due' PROVE u \in due
    BY <1>4, <2>1, Zenon
  <2> QED BY <2>1, InqAssumption
<1>9. Cardinality(was) + Cardinality(due) <= Cardinality(InqTurns)
  BY DEF InqInv, AskedByOneTurn
<1>10. Cardinality(now) + Cardinality(due') <= Cardinality(InqTurns)
  <2> HIDE DEF was, now, due
  <2>1. /\ Cardinality(was) \in Nat /\ Cardinality(now) \in Nat
        /\ IsFiniteSet(due') /\ Cardinality(due') \in Nat /\ Cardinality(InqTurns) \in Nat
        /\ Cardinality(due') <= Cardinality(InqTurns) /\ IsFiniteSet(due)
        /\ Cardinality(due) \in Nat
    BY <1>7, <1>8, FS_Subset, FS_CardinalityType
  <2>2. ~asks => Cardinality(due') <= Cardinality(due)
    BY <1>8, <2>1, FS_Subset
  <2> QED BY <1>3, <1>7, <1>9, <2>1, <2>2
<1>11. AskedByOneTurn'
  BY <1>10 DEF AskedByOneTurn
<1>12. InqTypeOK'
  BY <1>4, <1>5 DEF InqInv, InqTypeOK, PlanInquiry
<1> QED
  BY <1>5, <1>6, <1>11, <1>12 DEF InqInv

\* What a turn logs, one list after the other.
LEMMA Joined ==
  ASSUME NEW E, NEW a \in Seq(E), NEW b \in Seq(E)
  PROVE  /\ a \o b \in Seq(E) /\ Len(a \o b) = Len(a) + Len(b)
         /\ \A i \in 1 .. Len(a) : (a \o b)[i] = a[i]
         /\ \A i \in 1 .. Len(b) : (a \o b)[Len(a) + i] = b[i]
OBVIOUS

\* A turn logs one question if it is to ask, and is then no longer to ask; it answers
\* one only if one pends.
LEMMA ExecuteKeeps ==
  ASSUME InqInv, NEW t \in InqTurns, ExecuteTurn(t)
  PROVE  InqInv'
<1> DEFINE was == IndexesOf(inqLog, "asked")
           now == IndexesOf(inqLog', "asked")
           due == {u \in InqTurns : inqTurn[u].ask}
           ask == inqTurn[t].ask
<1>1. PICK empty \in BOOLEAN, c \in Contents \cup {NoContent} :
        inqLog' = Pushed(inqLog,
                     <<Plain(IF ask THEN "asked" ELSE "other"), Played(c)>>
                       \o (IF ~empty /\ Pending(inqLog) THEN <<Plain("resolved")>> ELSE <<>>),
                     InqLimit)
  BY DEF ExecuteTurn
<1> DEFINE two == <<Plain(IF ask THEN "asked" ELSE "other"), Played(c)>>
           reply == IF ~empty /\ Pending(inqLog) THEN <<Plain("resolved")>> ELSE <<>>
           new == two \o reply
<1>2. two \in Seq(InqEvent) /\ Len(two) = 2 /\ two[1].type = (IF ask THEN "asked" ELSE "other")
      /\ two[2].type = "executed"
  BY DEF Plain, Played, InqEvent
<1>3. reply \in Seq(InqEvent) /\ Len(reply) \in {0, 1}
      /\ (Len(reply) = 1 => reply[1].type = "resolved" /\ Pending(inqLog))
  <2>1. Plain("resolved") \in InqEvent /\ Plain("resolved").type = "resolved"
    BY DEF Plain, InqEvent
  <2>2. CASE ~empty /\ Pending(inqLog)
    <3>1. reply = <<Plain("resolved")>>
      BY <2>2
    <3>2. reply \in Seq(InqEvent) /\ Len(reply) = 1 /\ reply[1] = Plain("resolved")
      BY <2>1, <3>1
    <3> QED BY <2>1, <2>2, <3>2
  <2>3. CASE ~(~empty /\ Pending(inqLog))
    <3>1. reply = <<>>
      BY <2>3
    <3>2. reply \in Seq(InqEvent) /\ Len(reply) = 0
      BY <3>1
    <3> QED BY <3>2
  <2> QED BY <2>2, <2>3
<1> HIDE DEF two, reply
<1>4. /\ new \in Seq(InqEvent) /\ Len(new) = 2 + Len(reply)
      /\ new[1] = two[1] /\ new[2] = two[2]
      /\ Len(reply) = 1 => new[3] = reply[1]
  <2>1. /\ new \in Seq(InqEvent) /\ Len(new) = Len(two) + Len(reply)
        /\ \A i \in 1 .. Len(two) : new[i] = two[i]
        /\ \A i \in 1 .. Len(reply) : new[Len(two) + i] = reply[i]
    BY <1>2, <1>3, Joined
  <2>2. 1 \in 1 .. 2 /\ 2 \in 1 .. 2 /\ 1 \in 1 .. 1 /\ 2 + 1 = 3
    OBVIOUS
  <2> HIDE DEF new
  <2> QED BY <1>2, <2>1, <2>2
<1>5. inqLog \in Seq(InqEvent) /\ inqLog' = Pushed(inqLog, new, InqLimit)
  BY <1>1 DEF InqInv, two, reply
<1> HIDE DEF new
<1>6. \A i \in 1 .. Len(new) :
         /\ new[i].type = "resolved" => i = Len(new) /\ Pending(inqLog)
         /\ new[i].type = "asked" => ask /\ i = 1
  <2> TAKE i \in 1 .. Len(new)
  <2>1. CASE i = 1
    BY <1>2, <1>4, <2>1
  <2>2. CASE i = 2
    BY <1>2, <1>4, <2>2
  <2>3. CASE i # 1 /\ i # 2
    <3>1. i = 3 /\ Len(reply) = 1 /\ Len(new) = 3
      <4>1. Len(reply) \in {0, 1} /\ Len(new) = 2 + Len(reply)
        BY <1>3, <1>4
      <4>2. CASE Len(reply) = 0
        BY <2>3, <4>1, <4>2
      <4>3. CASE Len(reply) = 1
        BY <2>3, <4>1, <4>3
      <4> QED BY <4>1, <4>2, <4>3
    <3> QED BY <1>3, <1>4, <3>1
  <2> QED BY <2>1, <2>2, <2>3
<1>7. /\ inqTurn' \in [InqTurns -> [at : {"idle", "planned"}, ask : BOOLEAN]]
      /\ \A u \in InqTurns \ {t} : inqTurn'[u] = inqTurn[u]
      /\ ~inqTurn'[t].ask
  BY DEF InqInv, InqTypeOK, ExecuteTurn
<1>8. inqLog' \in Seq(InqEvent) /\ Len(inqLog') <= InqLimit
  BY <1>4, <1>5, PushedEvents, InqAssumption
<1>9. NextIsAsked(inqLog')
  BY <1>4, <1>5, <1>6, StillAnswered DEF InqInv
<1> DEFINE most == IF ask THEN 1 ELSE 0
<1>10. IsFiniteSet(was) /\ IsFiniteSet(now) /\ Cardinality(now) <= Cardinality(was) + most
  <2>1. most \in {0, 1} /\ \A i \in 1 .. Len(new) : new[i].type = "asked" => most = 1 /\ i = 1
    BY <1>6
  <2> HIDE DEF most
  <2> QED BY <1>4, <1>5, <2>1, AskedGrows
<1>11. due' = due \ {t} /\ due \subseteq InqTurns /\ IsFiniteSet(InqTurns) /\ (ask => t \in due)
  <2>1. \A u : u \in due' <=> u \in due /\ u # t
    BY <1>7, Zenon
  <2>2. due' = due \ {t}
    <3> HIDE DEF due
    <3> QED BY <2>1
  <2> QED BY <2>2, InqAssumption
<1>12. Cardinality(was) + Cardinality(due) <= Cardinality(InqTurns)
  BY DEF InqInv, AskedByOneTurn
<1>13. Cardinality(now) + Cardinality(due') <= Cardinality(InqTurns)
  <2> HIDE DEF was, now, due
  <2>1. /\ Cardinality(was) \in Nat /\ Cardinality(now) \in Nat /\ IsFiniteSet(due)
        /\ Cardinality(due) \in Nat /\ Cardinality(InqTurns) \in Nat
    BY <1>10, <1>11, FS_Subset, FS_CardinalityType
  <2>2. Cardinality(due') = IF t \in due THEN Cardinality(due) - 1 ELSE Cardinality(due)
    BY <1>11, <2>1, FS_RemoveElement
  <2> HIDE DEF ask
  <2>3. CASE ask
    BY <1>10, <1>11, <1>12, <2>1, <2>2, <2>3
  <2>4. CASE ~ask
    BY <1>10, <1>12, <2>1, <2>2, <2>4
  <2> QED BY <2>3, <2>4
<1>14. AskedByOneTurn'
  BY <1>13 DEF AskedByOneTurn
<1>15. turnCount' \in 0 .. TurnGate
  BY DEF InqInv, InqTypeOK, ExecuteTurn, TurnGate
<1>16. InqTypeOK'
  BY <1>7, <1>8, <1>15 DEF InqTypeOK
<1> QED
  BY <1>8, <1>9, <1>14, <1>16 DEF InqInv

LEMMA InquiryKeeps == InqInv /\ [InqStep]_inqVars => InqInv'
<1> SUFFICES ASSUME InqInv, [InqStep]_inqVars PROVE InqInv'
  OBVIOUS
<1>1. CASE UNCHANGED inqVars
  BY <1>1 DEF inqVars, InqInv, InqTypeOK, AskedByOneTurn, NextIsAsked
<1>2. CASE InqStep
  BY <1>2, PlanKeeps, ExecuteKeeps DEF InqStep
<1> QED
  BY <1>1, <1>2

\* AnsweredOnce asks of the least of the older questions what NextIsAsked says.
LEMMA InquiryKept == InqInv => AnsweredOnce /\ AskedByOneTurn
<1> SUFFICES ASSUME InqInv PROVE AnsweredOnce /\ AskedByOneTurn
  OBVIOUS
<1> DEFINE either == IndexesOf(inqLog, "asked") \cup IndexesOf(inqLog, "resolved")
           older(i) == {j \in either : j > i}
<1>1. inqLog \in Seq(InqEvent) /\ DOMAIN inqLog = 1 .. Len(inqLog) /\ Len(inqLog) \in Nat
  BY DEF InqInv
<1>2. either = {j \in 1 .. Len(inqLog) : inqLog[j].type \in Questions}
  BY <1>1 DEF IndexesOf, Questions
<1>3. ASSUME NEW i \in IndexesOf(inqLog, "resolved"), older(i) # {}
      PROVE  inqLog[Min(older(i))].type = "asked"
  <2> DEFINE S == older(i)
             j == Min(S)
  <2>1. i \in 1 .. Len(inqLog) /\ inqLog[i].type = "resolved"
    BY <1>1, <1>3 DEF IndexesOf
  <2>2. S \in SUBSET Nat
    BY <1>2
  <2>3. j \in S /\ \A k \in S : j <= k
    <3> HIDE DEF S
    <3> QED BY <1>3, <2>2, LeastOf DEF S
  <2> HIDE DEF j
  <2>4. j \in 1 .. Len(inqLog) /\ i < j /\ inqLog[j].type \in Questions
    BY <1>2, <2>1, <2>3
  <2>5. ASSUME NEW k \in i + 1 .. j - 1 PROVE inqLog[k].type \notin Questions
    <3>1. k \in 1 .. Len(inqLog) /\ k > i /\ ~(j <= k)
      BY <2>1, <2>4
    <3> QED BY <1>2, <2>3, <3>1
  <2>6. inqLog[j].type = "asked"
    BY <2>1, <2>4, <2>5 DEF InqInv, NextIsAsked
  <2> QED BY <2>6 DEF j
<1>4. AnsweredOnce
  BY <1>3 DEF AnsweredOnce
<1> QED
  BY <1>4 DEF InqInv

-----------------------------------------------------------------------------
(* The cards *)

Kinds == {"none", "pasto", "other", "crossing"}
IssueTurn == [at : {"idle", "turn", "signal", "saving"}, before : [IssueDims -> Status],
         kind : Kinds, serial : 0 .. (MaxCards + 1)]
IssuedCard == [serial : Nat, kind : Kinds, alone : BOOLEAN, inOrder : BOOLEAN]

IssueTyped ==
  /\ IssueTypeOK
  /\ cards \in Seq(IssuedCard) /\ Len(cards) <= MaxCards /\ rises <= moves
  /\ crossed \in [turn : SUBSET IssueTurns, emission : SUBSET IssueTurns]

\* What overlaps nothing is alone.
AloneIsAlone ==
  /\ \A t \in InFlight : t \in crossed.turn \/ InFlight = {t}
  /\ \A t \in Emitting : t \in crossed.emission \/ Emitting = {t}

\* A serial that was taken is that of a card saved since, or of the next one; and the
\* next one's, if nobody else saves meanwhile.
SerialsTaken ==
  \A t \in Emitting :
    /\ issue[t].serial \in 1 .. Len(cards) + 1
    /\ t \in crossed.emission \/ issue[t].serial = Len(cards) + 1

\* A card saved in order has its place for its serial, and all after it have more.
OrderKept ==
  \A i \in 1 .. Len(cards) : cards[i].inOrder =>
    /\ cards[i].serial = i
    /\ \A j \in i + 1 .. Len(cards) : cards[j].serial > i
    /\ \A t \in Emitting : issue[t].serial > i

Earned == {i \in 1 .. Len(cards) : cards[i].kind = "pasto" /\ cards[i].alone}

\* A turn that will have a card for an ascent, or would if it ended now.
Claims(t) ==
  \/ issue[t].at \in {"signal", "saving"} /\ issue[t].kind = "pasto"
  \/ issue[t].at = "turn" /\ \E d \in IssueDims : issue[t].before[d] # "pasto" /\ zone[d] = "pasto"

\* The ascent of a turn that is alone has earned no card yet.
NotYetEarned ==
  /\ Cardinality(Earned) <= rises
  /\ \A t \in InFlight : t \in crossed.turn \/ (Claims(t) => Cardinality(Earned) + 1 <= rises)

IssueInv == IssueTyped /\ AloneIsAlone /\ SerialsTaken /\ OrderKept /\ NotYetEarned

LEMMA IssueTypes ==
  ASSUME IssueTyped
  PROVE  /\ MaxMoves \in Nat /\ MaxCards \in Nat /\ moves \in 0 .. MaxMoves /\ rises \in 0 .. MaxMoves
         /\ zone \in [IssueDims -> Status] /\ issue \in [IssueTurns -> IssueTurn]
         /\ cards \in Seq(IssuedCard) /\ Len(cards) \in Nat /\ Len(cards) <= MaxCards
         /\ DOMAIN cards = 1 .. Len(cards)
         /\ \A i \in 1 .. Len(cards) : cards[i] \in IssuedCard /\ cards[i].serial \in 1 .. i
         /\ rises <= moves
         /\ IsFiniteSet(Earned) /\ Cardinality(Earned) \in Nat
<1>1. /\ cards \in Seq(IssuedCard) /\ Len(cards) \in Nat /\ DOMAIN cards = 1 .. Len(cards)
      /\ \A i \in 1 .. Len(cards) : cards[i] \in IssuedCard
  BY DEF IssueTyped
<1>2. IsFiniteSet(1 .. Len(cards))
  BY <1>1, FS_Interval
<1>3. IsFiniteSet(Earned) /\ Cardinality(Earned) \in Nat
  <2>1. Earned \subseteq 1 .. Len(cards)
    BY DEF Earned
  <2>2. IsFiniteSet(Earned)
    BY <1>2, <2>1, FS_Subset
  <2> QED BY <2>2, FS_CardinalityType
<1>4. \A i \in 1 .. Len(cards) : cards[i].serial \in 1 .. i
  BY <1>1 DEF IssueTyped, IssueTypeOK
<1>5. zone \in [IssueDims -> Status] /\ issue \in [IssueTurns -> IssueTurn]
  BY DEF IssueTyped, IssueTypeOK, IssueTurn, Kinds
<1> QED
  BY <1>1, <1>3, <1>4, <1>5, IssueAssumption DEF IssueTyped, IssueTypeOK

LEMMA CardsStart == IssueInit => IssueInv
<1> SUFFICES ASSUME IssueInit PROVE IssueInv
  OBVIOUS
<1>1. Silent \in IssueTurn /\ Silent.at = "idle"
  BY IssueAssumption DEF Silent, IssueTurn, Kinds, Status
<1>2. issue \in [IssueTurns -> IssueTurn] /\ InFlight = {} /\ Emitting = {}
  BY <1>1 DEF IssueInit, InFlight, Emitting
<1>3. cards = <<>> /\ cards \in Seq(IssuedCard) /\ Len(cards) = 0 /\ 0 <= MaxCards
      /\ 0 \in 0 .. MaxMoves
  BY IssueAssumption DEF IssueInit
<1>4. IssueTyped
  BY <1>2, <1>3 DEF IssueInit, IssueTyped, IssueTypeOK, IssueTurn, Kinds
<1>5. Earned = {}
  BY <1>3 DEF Earned
<1>6. NotYetEarned
  BY <1>2, <1>5, FS_EmptySet DEF NotYetEarned, IssueInit
<1> QED
  BY <1>2, <1>3, <1>4, <1>6 DEF IssueInv, AloneIsAlone, SerialsTaken, OrderKept

\* A turn begins with no ascent to claim; if it overlaps others, none of them is alone.
LEMMA BeginTurnKeeps ==
  ASSUME IssueInv, NEW t \in IssueTurns, BeginTurn(t)
  PROVE  IssueInv'
<1>1. /\ zone \in [IssueDims -> Status] /\ issue \in [IssueTurns -> IssueTurn]
      /\ issue[t].at = "idle" /\ zone' = zone /\ cards' = cards /\ moves' = moves
      /\ rises' = rises
  BY IssueTypes DEF IssueInv, BeginTurn
<1>2. issue' = [issue EXCEPT ![t] = [@ EXCEPT !.at = "turn", !.before = zone]]
  BY <1>1 DEF BeginTurn, IssueTurn
<1>3. issue' \in [IssueTurns -> IssueTurn]
  BY <1>1, <1>2 DEF IssueTurn
<1>4. /\ \A u \in IssueTurns \ {t} : issue'[u] = issue[u]
      /\ issue'[t].at = "turn" /\ issue'[t].before = zone
  BY <1>1, <1>2 DEF IssueTurn
<1>5. /\ t \notin InFlight /\ InFlight' = InFlight \cup {t} /\ Emitting' = Emitting
      /\ t \notin Emitting /\ InFlight \subseteq IssueTurns
  BY <1>1, <1>4 DEF InFlight, Emitting
<1>6. crossed.turn \subseteq IssueTurns /\ crossed.emission \subseteq IssueTurns
  BY DEF IssueInv, IssueTyped
<1>7. /\ crossed'.turn = Crossed(t, InFlight, crossed.turn)
      /\ crossed'.emission = crossed.emission \ {t}
      /\ crossed' = [turn |-> crossed'.turn, emission |-> crossed'.emission]
  BY DEF BeginTurn
<1>8. crossed' \in [turn : SUBSET IssueTurns, emission : SUBSET IssueTurns]
  BY <1>5, <1>6, <1>7 DEF Crossed
<1>9. IssueTyped'
  BY <1>1, <1>3, <1>8 DEF IssueInv, IssueTyped, IssueTypeOK, IssueTurn, Kinds
<1>10. AloneIsAlone'
  BY <1>5, <1>7 DEF IssueInv, AloneIsAlone, Crossed
<1>11. SerialsTaken' /\ OrderKept'
  <2>1. ASSUME NEW u \in Emitting'
        PROVE  /\ u \in Emitting /\ issue'[u] = issue[u]
               /\ u \in crossed'.emission <=> u \in crossed.emission
    BY <1>4, <1>5, <1>7 DEF Emitting
  <2>2. SerialsTaken'
    BY <1>1, <2>1 DEF IssueInv, SerialsTaken
  <2>3. OrderKept'
    BY <1>1, <2>1 DEF IssueInv, OrderKept
  <2> QED BY <2>2, <2>3
<1>12. NotYetEarned'
  <2>1. Earned' = Earned
    BY <1>1 DEF Earned
  <2>2. ~Claims(t)'
    BY <1>1, <1>4 DEF Claims
  <2>3. ASSUME NEW u \in InFlight', u # t PROVE u \in crossed'.turn
    BY <1>5, <1>7, <2>3 DEF Crossed
  <2> QED BY <1>1, <2>1, <2>2, <2>3 DEF IssueInv, NotYetEarned
<1> QED
  BY <1>9, <1>10, <1>11, <1>12 DEF IssueInv

\* The ascent a turn that is alone claims is one it made, or one made since it began.
LEMMA MoveKeeps ==
  ASSUME IssueInv, NEW t \in IssueTurns, Move(t)
  PROVE  IssueInv'
<1>1. /\ zone \in [IssueDims -> Status] /\ issue \in [IssueTurns -> IssueTurn]
      /\ issue[t].at = "turn" /\ issue' = issue /\ cards' = cards /\ crossed' = crossed
      /\ moves \in 0 .. MaxMoves /\ rises \in 0 .. MaxMoves /\ rises <= moves /\ MaxMoves \in Nat
      /\ moves < MaxMoves /\ moves' = moves + 1 /\ Cardinality(Earned) \in Nat
  BY IssueTypes DEF IssueInv, Move
<1>2. PICK d \in IssueDims, to \in Status :
        /\ zone' = [zone EXCEPT ![d] = Transition(@, to)]
        /\ rises' = IF zone[d] # "pasto" /\ zone'[d] = "pasto" THEN rises + 1 ELSE rises
  BY DEF Move
<1>3. zone' \in [IssueDims -> Status] /\ \A e \in IssueDims \ {d} : zone'[e] = zone[e]
  BY <1>1, <1>2, TransitionType
<1>4. rises' \in {rises, rises + 1} /\ rises' \in 0 .. MaxMoves /\ rises' <= moves'
      /\ moves' \in 0 .. MaxMoves
  BY <1>1, <1>2
<1>5. IssueTyped'
  BY <1>1, <1>3, <1>4 DEF IssueInv, IssueTyped, IssueTypeOK
<1>6. InFlight' = InFlight /\ Emitting' = Emitting /\ Earned' = Earned /\ t \in InFlight
  BY <1>1 DEF InFlight, Emitting, Earned
<1>7. AloneIsAlone' /\ SerialsTaken' /\ OrderKept'
  BY <1>1, <1>6 DEF IssueInv, AloneIsAlone, SerialsTaken, OrderKept
<1>8. NotYetEarned'
  <2>1. Cardinality(Earned) <= rises /\ rises <= rises'
    BY <1>1, <1>4 DEF IssueInv, NotYetEarned
  <2>2. ASSUME NEW u \in InFlight, u \notin crossed.turn, Claims(u)'
        PROVE  Cardinality(Earned) + 1 <= rises'
    <3>1. u = t
      BY <1>6, <2>2 DEF IssueInv, AloneIsAlone
    <3>2. CASE Claims(t)
      <4>1. Cardinality(Earned) + 1 <= rises
        BY <2>2, <3>1, <3>2 DEF IssueInv, NotYetEarned
      <4> QED BY <1>1, <1>4, <4>1
    <3>3. CASE ~Claims(t)
      <4>1. PICK e \in IssueDims : issue[t].before[e] # "pasto" /\ zone'[e] = "pasto"
        BY <1>1, <2>2, <3>1 DEF Claims
      <4>2. zone[e] # "pasto"
        BY <1>1, <3>3, <4>1 DEF Claims
      <4>3. e = d
        BY <1>3, <4>1, <4>2
      <4> QED BY <1>1, <1>2, <2>1, <4>1, <4>2, <4>3
    <3> QED BY <3>2, <3>3
  <2>3. Cardinality(Earned) <= rises'
    BY <1>1, <1>4, <2>1
  <2> QED BY <1>1, <1>6, <2>2, <2>3 DEF NotYetEarned
<1> QED
  BY <1>5, <1>7, <1>8 DEF IssueInv

\* What a turn that claims no ascent finds is none either.
LEMMA DetectKeeps ==
  ASSUME IssueInv, NEW t \in IssueTurns, Detect(t)
  PROVE  IssueInv'
<1>1. /\ zone \in [IssueDims -> Status] /\ issue \in [IssueTurns -> IssueTurn]
      /\ issue[t].at = "turn" /\ zone' = zone /\ cards' = cards /\ crossed' = crossed
      /\ moves' = moves /\ rises' = rises /\ Silent \in IssueTurn /\ Silent.at = "idle"
  BY IssueTypes DEF IssueInv, Detect, Silent, IssueTurn, Kinds, Status
<1>2. PICK now \in {zone, issue[t].before}, other \in BOOLEAN :
        \E kind \in {"none", Classify(issue[t].before, now, other)} :
         issue' = [issue EXCEPT ![t] = IF kind = "none" THEN Silent
                                       ELSE [@ EXCEPT !.at = "signal", !.kind = kind]]
  BY DEF Detect
<1>3. PICK kind \in {"none", Classify(issue[t].before, now, other)} :
         issue' = [issue EXCEPT ![t] = IF kind = "none" THEN Silent
                                       ELSE [@ EXCEPT !.at = "signal", !.kind = kind]]
  BY <1>2
<1>4. kind \in Kinds /\ (kind = "pasto" => Claims(t))
  BY <1>1 DEF Classify, Kinds, Claims
<1> DEFINE next == IF kind = "none" THEN Silent
                   ELSE [issue[t] EXCEPT !.at = "signal", !.kind = kind]
<1>5. /\ next \in IssueTurn /\ next.at \in {"idle", "signal"}
      /\ next.at = "signal" => next.kind = kind
  BY <1>1, <1>4 DEF IssueTurn
<1>6. issue' = [issue EXCEPT ![t] = next]
  BY <1>1, <1>3
<1> HIDE DEF next
<1>7. /\ issue' \in [IssueTurns -> IssueTurn] /\ issue'[t] = next
      /\ \A u \in IssueTurns \ {t} : issue'[u] = issue[u]
  BY <1>1, <1>5, <1>6
<1>8. IssueTyped'
  BY <1>1, <1>7 DEF IssueInv, IssueTyped, IssueTypeOK, IssueTurn, Kinds
<1>9. /\ Emitting' = Emitting /\ t \notin Emitting /\ Earned' = Earned
      /\ InFlight' \in {InFlight, InFlight \ {t}}
  <2>1. Emitting' = Emitting /\ t \notin Emitting /\ Earned' = Earned
    BY <1>1, <1>5, <1>7 DEF Emitting, Earned
  <2>2. InFlight' = IF next.at = "idle" THEN InFlight \ {t} ELSE InFlight
    BY <1>1, <1>5, <1>7 DEF InFlight
  <2> QED BY <2>1, <2>2
<1>10. AloneIsAlone'
  <2>1. \A u \in InFlight' : u \in InFlight /\ (InFlight = {u} => InFlight' = {u})
    BY <1>9
  <2> QED BY <1>1, <1>9, <2>1 DEF IssueInv, AloneIsAlone
<1>11. \A u \in Emitting : issue'[u] = issue[u]
  BY <1>7, <1>9 DEF Emitting
<1>12. SerialsTaken' /\ OrderKept'
  BY <1>1, <1>9, <1>11 DEF IssueInv, SerialsTaken, OrderKept
<1>13. NotYetEarned'
  <2>1. ASSUME NEW u \in InFlight', Claims(u)' PROVE u \in InFlight /\ Claims(u)
    <3>1. CASE u = t
      BY <1>1, <1>4, <1>5, <1>7, <2>1, <3>1 DEF Claims, InFlight
    <3>2. CASE u # t
      BY <1>1, <1>7, <2>1, <3>2 DEF Claims, InFlight
    <3> QED BY <3>1, <3>2
  <2> QED BY <1>1, <1>9, <2>1 DEF IssueInv, NotYetEarned
<1> QED
  BY <1>8, <1>10, <1>12, <1>13 DEF IssueInv

\* A serial taken while others are on their way is crossed, and so are theirs.
LEMMA TakeSerialKeeps ==
  ASSUME IssueInv, NEW t \in IssueTurns, TakeSerial(t)
  PROVE  IssueInv'
<1>1. /\ zone \in [IssueDims -> Status] /\ issue \in [IssueTurns -> IssueTurn]
      /\ issue[t].at = "signal" /\ zone' = zone /\ cards' = cards
      /\ moves' = moves /\ rises' = rises /\ Silent \in IssueTurn /\ Silent.at = "idle"
      /\ Len(cards) \in Nat /\ Len(cards) <= MaxCards /\ MaxCards \in Nat
      /\ \A i \in 1 .. Len(cards) : cards[i].serial \in 1 .. i
  BY IssueTypes DEF IssueInv, TakeSerial, Silent, IssueTurn, Kinds, Status
<1>2. t \in InFlight /\ t \notin Emitting /\ Earned' = Earned /\ Emitting \subseteq IssueTurns
  BY <1>1 DEF InFlight, Emitting, Earned
<1>3. CASE issue' = [issue EXCEPT ![t] = Silent] /\ UNCHANGED crossed
  <2>1. /\ issue' \in [IssueTurns -> IssueTurn] /\ issue'[t] = Silent
        /\ \A u \in IssueTurns \ {t} : issue'[u] = issue[u]
    BY <1>1, <1>3
  <2>2. IssueTyped'
    BY <1>1, <1>3, <2>1 DEF IssueInv, IssueTyped, IssueTypeOK, IssueTurn, Kinds
  <2>3. Emitting' = Emitting /\ InFlight' = InFlight \ {t}
    BY <1>1, <2>1 DEF Emitting, InFlight
  <2>4. \A u \in Emitting : issue'[u] = issue[u]
    BY <1>2, <2>1
  <2>5. AloneIsAlone'
    BY <1>2, <1>3, <2>3 DEF IssueInv, AloneIsAlone
  <2>6. SerialsTaken' /\ OrderKept'
    BY <1>1, <1>3, <2>3, <2>4 DEF IssueInv, SerialsTaken, OrderKept
  <2>7. \A u \in InFlight' : u \in InFlight /\ (Claims(u)' => Claims(u))
    BY <1>1, <2>1, <2>3 DEF Claims, InFlight
  <2>8. NotYetEarned'
    BY <1>1, <1>2, <1>3, <2>7 DEF IssueInv, NotYetEarned
  <2> QED BY <2>2, <2>5, <2>6, <2>8 DEF IssueInv
<1>4. CASE /\ issue' = [issue EXCEPT ![t].at = "saving", ![t].serial = Len(cards) + 1]
           /\ crossed' = [crossed EXCEPT !.emission = Crossed(t, Emitting, @)]
  <2> DEFINE next == [issue[t] EXCEPT !.at = "saving", !.serial = Len(cards) + 1]
  <2>1. /\ next \in IssueTurn /\ next.at = "saving" /\ next.serial = Len(cards) + 1
        /\ next.kind = issue[t].kind
    <3> DEFINE n == Len(cards) + 1
    <3>1. n \in 0 .. (MaxCards + 1)
      BY <1>1
    <3> HIDE DEF n
    <3>2. [issue[t] EXCEPT !.at = "saving", !.serial = n] \in IssueTurn
      BY <1>1, <3>1 DEF IssueTurn
    <3>3. LET r == [issue[t] EXCEPT !.at = "saving", !.serial = n]
          IN  r.at = "saving" /\ r.serial = n /\ r.kind = issue[t].kind
      BY <1>1 DEF IssueTurn
    <3> QED BY <3>2, <3>3 DEF n
  <2>2. issue' = [issue EXCEPT ![t] = next]
    BY <1>1, <1>4
  <2> HIDE DEF next
  <2>3. /\ issue' \in [IssueTurns -> IssueTurn] /\ issue'[t] = next
        /\ \A u \in IssueTurns \ {t} : issue'[u] = issue[u]
    BY <1>1, <2>1, <2>2
  <2>4. /\ crossed \in [turn : SUBSET IssueTurns, emission : SUBSET IssueTurns]
        /\ crossed'.turn = crossed.turn
        /\ crossed'.emission = Crossed(t, Emitting, crossed.emission)
        /\ crossed' = [turn |-> crossed'.turn, emission |-> crossed'.emission]
    BY <1>4 DEF IssueInv, IssueTyped
  <2>5. crossed' \in [turn : SUBSET IssueTurns, emission : SUBSET IssueTurns]
    BY <1>2, <2>4 DEF Crossed
  <2>6. IssueTyped'
    BY <1>1, <2>3, <2>5 DEF IssueInv, IssueTyped, IssueTypeOK, IssueTurn, Kinds
  <2>7. InFlight' = InFlight /\ Emitting' = Emitting \cup {t}
    BY <1>1, <1>2, <2>1, <2>3 DEF InFlight, Emitting
  <2>8. AloneIsAlone'
    BY <1>2, <2>4, <2>7 DEF IssueInv, AloneIsAlone, Crossed
  <2>9. \A u \in Emitting : issue'[u] = issue[u] /\ u \in crossed'.emission
    BY <1>2, <2>3, <2>4 DEF Crossed
  <2>10. SerialsTaken'
    BY <1>1, <2>1, <2>3, <2>7, <2>9 DEF IssueInv, SerialsTaken
  <2>11. OrderKept'
    <3>1. ASSUME NEW i \in 1 .. Len(cards), cards[i].inOrder, NEW u \in Emitting'
          PROVE  issue'[u].serial > i
      <4>1. CASE u = t
        BY <1>1, <2>1, <2>3, <4>1
      <4>2. CASE u # t
        BY <2>7, <2>9, <3>1, <4>2 DEF IssueInv, OrderKept
      <4> QED BY <4>1, <4>2
    <3> QED BY <1>1, <3>1 DEF IssueInv, OrderKept
  <2>12. \A u \in InFlight' : u \in InFlight /\ (Claims(u)' => Claims(u))
    BY <1>1, <2>1, <2>3, <2>7 DEF Claims, InFlight
  <2>13. NotYetEarned'
    BY <1>1, <1>2, <2>4, <2>12 DEF IssueInv, NotYetEarned
  <2> QED BY <2>6, <2>8, <2>10, <2>11, <2>13 DEF IssueInv
<1> QED
  BY <1>3, <1>4 DEF TakeSerial

\* The turn that saves is silent afterwards.
LEMMA SavedTurn ==
  ASSUME IssueInv, NEW t \in IssueTurns, Save(t)
  PROVE  /\ issue[t].at = "saving" /\ issue' = [issue EXCEPT ![t] = Silent]
         /\ issue' \in [IssueTurns -> IssueTurn]
         /\ zone' = zone /\ moves' = moves /\ rises' = rises /\ crossed' = crossed
         /\ InFlight' = InFlight \ {t} /\ Emitting' = Emitting \ {t}
         /\ t \in InFlight /\ t \in Emitting
         /\ \A u \in InFlight' : issue'[u] = issue[u] /\ (Claims(u)' => Claims(u))
         /\ \A u \in Emitting' : issue'[u] = issue[u] /\ u \in InFlight'
         /\ AloneIsAlone'
<1>1. /\ issue \in [IssueTurns -> IssueTurn] /\ issue[t].at = "saving"
      /\ issue' = [issue EXCEPT ![t] = Silent] /\ Silent \in IssueTurn /\ Silent.at = "idle"
      /\ zone' = zone /\ moves' = moves /\ rises' = rises /\ crossed' = crossed
  BY IssueTypes DEF IssueInv, Save, Silent, IssueTurn, Kinds, Status
<1>2. /\ issue' \in [IssueTurns -> IssueTurn] /\ issue'[t] = Silent
      /\ \A u \in IssueTurns \ {t} : issue'[u] = issue[u]
  BY <1>1
<1>3. /\ InFlight' = InFlight \ {t} /\ Emitting' = Emitting \ {t}
      /\ t \in InFlight /\ t \in Emitting /\ Emitting \subseteq InFlight
      /\ InFlight \subseteq IssueTurns
  BY <1>1, <1>2 DEF InFlight, Emitting
<1>4. \A u \in InFlight' : issue'[u] = issue[u] /\ (Claims(u)' => Claims(u))
  BY <1>1, <1>2, <1>3 DEF Claims
<1>5. AloneIsAlone'
  BY <1>1, <1>3 DEF IssueInv, AloneIsAlone
<1> QED
  BY <1>1, <1>2, <1>3, <1>4, <1>5

\* A card that is rejected.
LEMMA RejectKeeps ==
  ASSUME IssueInv, NEW t \in IssueTurns, Save(t), UNCHANGED cards
  PROVE  IssueInv'
<1>1. IssueTyped'
  BY SavedTurn DEF IssueInv, IssueTyped, IssueTypeOK, IssueTurn, Kinds
<1>2. SerialsTaken' /\ OrderKept'
  BY SavedTurn DEF IssueInv, SerialsTaken, OrderKept
<1>3. Earned' = Earned
  BY DEF Earned
<1>4. NotYetEarned'
  BY <1>3, SavedTurn DEF IssueInv, NotYetEarned
<1> QED
  BY <1>1, <1>2, <1>4, SavedTurn DEF IssueInv

\* A card that is saved has the serial that was read. If its emission was alone, it is
\* the next one's, and nobody else is on his way with a serial; if its turn was alone,
\* no other turn claims the ascent it was earned by.
LEMMA SaveKeeps ==
  ASSUME IssueInv, NEW t \in IssueTurns, Save(t), cards' # cards
  PROVE  IssueInv'
<1> DEFINE n == Len(cards) + 1
           card == [serial |-> issue[t].serial, kind |-> issue[t].kind,
                    alone |-> t \notin crossed.turn, inOrder |-> t \notin crossed.emission]
<1>1. /\ cards \in Seq(IssuedCard) /\ Len(cards) \in Nat /\ Len(cards) < MaxCards
      /\ cards' = Append(cards, card) /\ MaxCards \in Nat
      /\ issue \in [IssueTurns -> IssueTurn]
      /\ \A i \in 1 .. Len(cards) : cards[i] \in IssuedCard /\ cards[i].serial \in 1 .. i
  BY IssueTypes DEF IssueInv, Save
<1>2. issue[t].serial \in 1 .. n /\ (t \in crossed.emission \/ issue[t].serial = n)
  BY SavedTurn DEF IssueInv, SerialsTaken
<1>3. /\ card \in IssuedCard /\ card.serial = issue[t].serial /\ card.kind = issue[t].kind
      /\ card.alone <=> t \notin crossed.turn
      /\ card.inOrder <=> t \notin crossed.emission
  <2>1. issue[t].serial \in Nat /\ issue[t].kind \in Kinds
    <3>1. issue[t].kind \in Kinds
      BY <1>1 DEF IssueTurn
    <3> QED BY <1>1, <1>2, <3>1
  <2>2. (t \notin crossed.turn) \in BOOLEAN /\ (t \notin crossed.emission) \in BOOLEAN
    OBVIOUS
  <2>3. card \in IssuedCard
    BY <2>1, <2>2 DEF IssuedCard
  <2>4. card.serial = issue[t].serial /\ card.kind = issue[t].kind
    OBVIOUS
  <2>5. card.alone <=> t \notin crossed.turn
    OBVIOUS
  <2>6. card.inOrder <=> t \notin crossed.emission
    OBVIOUS
  <2> QED BY <2>3, <2>4, <2>5, <2>6
<1> HIDE DEF card
<1>4. /\ cards' \in Seq(IssuedCard) /\ Len(cards') = n /\ n \in Nat /\ n <= MaxCards
      /\ cards'[n] = card /\ DOMAIN cards' = 1 .. n
      /\ \A i \in 1 .. Len(cards) : cards'[i] = cards[i]
  BY <1>1, <1>3
<1>5. /\ \A i \in 1 .. n : i = n \/ i \in 1 .. Len(cards)
      /\ n \notin 1 .. Len(cards)
      /\ 1 .. n = (1 .. Len(cards)) \cup {n}
  BY <1>1
<1> HIDE DEF n
<1>6. IssueTyped'
  <2>1. \A i \in DOMAIN cards' : cards'[i].serial \in 1 .. i
    BY <1>1, <1>2, <1>3, <1>4, <1>5
  <2> QED BY <1>4, <2>1, SavedTurn DEF IssueInv, IssueTyped, IssueTypeOK, IssueTurn, Kinds
<1>7. SerialsTaken'
  <2>1. ASSUME NEW u \in Emitting'
        PROVE  issue'[u].serial \in 1 .. n + 1 /\ u \in crossed'.emission
    <3>1. u \in Emitting /\ u # t /\ t \in Emitting /\ issue'[u] = issue[u]
      BY SavedTurn
    <3>2. u \in crossed.emission
      BY <3>1 DEF IssueInv, AloneIsAlone
    <3>3. issue[u].serial \in 1 .. Len(cards) + 1
      BY <3>1 DEF IssueInv, SerialsTaken
    <3> QED BY <1>1, <3>1, <3>2, <3>3, SavedTurn DEF n
  <2> QED BY <1>4, <2>1 DEF SerialsTaken
<1>8. OrderKept'
  <2>1. ASSUME NEW i \in 1 .. Len(cards), cards[i].inOrder
        PROVE  /\ cards'[i].serial = i
               /\ \A j \in i + 1 .. n : cards'[j].serial > i
               /\ \A u \in Emitting' : issue'[u].serial > i
    <3>1. /\ cards[i].serial = i /\ \A j \in i + 1 .. Len(cards) : cards[j].serial > i
      BY <2>1 DEF IssueInv, OrderKept
    <3>2. \A u \in Emitting : issue[u].serial > i
      BY <2>1 DEF IssueInv, OrderKept
    <3>3. ASSUME NEW j \in i + 1 .. n PROVE cards'[j].serial > i
      <4>1. CASE j = n
        BY <1>3, <1>4, <3>2, <4>1, SavedTurn
      <4>2. CASE j # n
        <5>1. j \in i + 1 .. Len(cards) /\ j \in 1 .. Len(cards)
          BY <1>1, <4>2 DEF n
        <5> QED BY <1>4, <3>1, <5>1
      <4> QED BY <4>1, <4>2
    <3>4. \A u \in Emitting' : issue'[u].serial > i
      BY <3>2, SavedTurn
    <3> QED BY <1>4, <3>1, <3>3, <3>4
  <2>2. ASSUME card.inOrder
        PROVE  /\ cards'[n].serial = n
               /\ \A j \in n + 1 .. n : cards'[j].serial > n
               /\ \A u \in Emitting' : issue'[u].serial > n
    <3>1. t \notin crossed.emission
      BY <1>3, <2>2
    <3>2. Emitting' = {}
      BY <3>1, SavedTurn DEF IssueInv, AloneIsAlone
    <3>3. n + 1 .. n = {}
      BY <1>4
    <3> QED BY <1>2, <1>3, <1>4, <3>1, <3>2, <3>3
  <2>3. ASSUME NEW i \in 1 .. n, cards'[i].inOrder
        PROVE  /\ cards'[i].serial = i
               /\ \A j \in i + 1 .. n : cards'[j].serial > i
               /\ \A u \in Emitting' : issue'[u].serial > i
    <3>1. CASE i = n
      BY <1>4, <2>2, <2>3, <3>1
    <3>2. CASE i \in 1 .. Len(cards)
      BY <1>4, <2>1, <2>3, <3>2
    <3> QED BY <1>5, <3>1, <3>2
  <2> QED BY <1>4, <2>3 DEF OrderKept
<1>9. NotYetEarned'
  <2> DEFINE gains == issue[t].kind = "pasto" /\ t \notin crossed.turn
  <2>1. Earned' = IF gains THEN Earned \cup {n} ELSE Earned
    <3>1. Earned' = {i \in 1 .. n : cards'[i].kind = "pasto" /\ cards'[i].alone}
      BY <1>4 DEF Earned
    <3>2. n \in Earned' <=> gains
      BY <1>3, <1>4, <1>5, <3>1
    <3>3. ASSUME NEW i, i # n PROVE i \in Earned' <=> i \in Earned
      BY <1>4, <1>5, <3>1, <3>3 DEF Earned
    <3>4. n \notin Earned
      BY <1>5 DEF Earned
    <3> QED BY <3>2, <3>3, <3>4
  <2>2. /\ IsFiniteSet(Earned) /\ Cardinality(Earned) \in Nat /\ n \notin Earned
        /\ Cardinality(Earned) <= rises /\ rises \in Nat
    BY <1>5, IssueTypes DEF IssueInv, NotYetEarned, Earned
  <2>3. CASE gains
    <3>1. Cardinality(Earned') = Cardinality(Earned) + 1
      BY <2>1, <2>2, <2>3, FS_AddElement
    <3>2. Claims(t)
      BY <2>3, SavedTurn DEF Claims
    <3>3. Cardinality(Earned) + 1 <= rises
      BY <2>3, <3>2, SavedTurn DEF IssueInv, NotYetEarned
    <3>4. InFlight' = {}
      BY <2>3, SavedTurn DEF IssueInv, AloneIsAlone
    <3> QED BY <2>2, <3>1, <3>3, <3>4, SavedTurn DEF NotYetEarned
  <2>4. CASE ~gains
    <3>1. Earned' = Earned
      BY <2>1, <2>4
    <3> QED BY <3>1, SavedTurn DEF IssueInv, NotYetEarned
  <2> QED BY <2>3, <2>4
<1> QED
  BY <1>6, <1>7, <1>8, <1>9, SavedTurn DEF IssueInv

LEMMA CardsKeep == IssueInv /\ [IssueStep]_issueVars => IssueInv'
<1> SUFFICES ASSUME IssueInv, [IssueStep]_issueVars PROVE IssueInv'
  OBVIOUS
<1>1. CASE UNCHANGED issueVars
  <2>1. InFlight' = InFlight /\ Emitting' = Emitting /\ Earned' = Earned
        /\ \A t : Claims(t)' <=> Claims(t)
    BY <1>1 DEF issueVars, InFlight, Emitting, Earned, Claims
  <2> QED BY <1>1, <2>1 DEF issueVars, IssueInv, IssueTyped, IssueTypeOK, AloneIsAlone,
                            SerialsTaken, OrderKept, NotYetEarned
<1>2. CASE IssueStep
  BY <1>2, BeginTurnKeeps, MoveKeeps, DetectKeeps, TakeSerialKeeps, RejectKeeps, SaveKeeps
     DEF IssueStep
<1> QED
  BY <1>1, <1>2

\* A card in order bears its place, those before it less, and those after it more.
LEMMA CardsKept == IssueInv => SerialsDistinct /\ OneCardPerRise
<1> SUFFICES ASSUME IssueInv PROVE SerialsDistinct /\ OneCardPerRise
  OBVIOUS
<1>1. /\ DOMAIN cards = 1 .. Len(cards) /\ Len(cards) \in Nat
      /\ \A i \in 1 .. Len(cards) : cards[i].serial \in 1 .. i
  BY IssueTypes DEF IssueInv
<1>2. ASSUME NEW i \in DOMAIN cards, NEW j \in DOMAIN cards, i # j,
             cards[i].serial = cards[j].serial
      PROVE  ~cards[i].inOrder
  <2>1. i \in 1 .. Len(cards) /\ j \in 1 .. Len(cards)
    BY <1>1
  <2> SUFFICES ASSUME cards[i].inOrder PROVE FALSE
    OBVIOUS
  <2>2. cards[i].serial = i /\ \A k \in i + 1 .. Len(cards) : cards[k].serial > i
    BY <2>1 DEF IssueInv, OrderKept
  <2>3. cards[i].serial \in 1 .. i /\ cards[j].serial \in 1 .. j
    BY <1>1, <2>1
  <2>4. ~(j < i)
    BY <1>2, <2>1, <2>2, <2>3
  <2>5. j \in i + 1 .. Len(cards)
    BY <1>1, <1>2, <2>1, <2>4
  <2>6. cards[j].serial > i
    BY <2>2, <2>5
  <2> QED BY <1>2, <2>2, <2>3, <2>6
<1>3. SerialsDistinct
  BY <1>2 DEF SerialsDistinct
<1>4. {i \in DOMAIN cards : cards[i].kind = "pasto" /\ cards[i].alone} = Earned
  BY <1>1 DEF Earned
<1> QED
  BY <1>3, <1>4 DEF IssueInv, NotYetEarned, OneCardPerRise

-----------------------------------------------------------------------------
(* What a turn says *)

LEMMA ItemRank ==
  ASSUME NEW x \in Content
  PROVE  Rank(x) \in Nat
<1>1. \E i \in DOMAIN Ranking : Ranking[i] = x
  BY DEF Content
<1>2. DOMAIN Ranking \subseteq Nat
  BY DrotaAssumption
<1> QED
  BY <1>1, <1>2 DEF Rank

\* There is a best of any items there are.
LEMMA BestIsOne ==
  ASSUME NEW S \in SUBSET Content, S # {}
  PROVE  BestOf(S) \in S
<1> DEFINE ranks == {Rank(x) : x \in S}
<1>1. ranks \in SUBSET Nat /\ ranks # {}
  BY ItemRank
<1>2. Min(ranks) \in ranks /\ \A n \in ranks : Min(ranks) <= n
  <2> HIDE DEF ranks
  <2> QED BY <1>1, LeastOf
<1>3. PICK x \in S : Rank(x) = Min(ranks)
  BY <1>2
<1>4. \A y \in S : Rank(x) <= Rank(y)
  BY <1>2, <1>3
<1> QED
  BY <1>4 DEF BestOf

\* What selectAction picks is viable, as long as anything is.
LEMMA SelectedIsViable ==
  ASSUME NEW cap \in Nat, NEW helix, Pool \subseteq Content, Viable(cap) # {}
  PROVE  SelectAction(cap, helix) \in Viable(cap)
<1> DEFINE V == Viable(cap)
           costs == {Cost[x] : x \in V}
           cheapest == {x \in V : \A y \in V : Cost[x] <= Cost[y]}
           aligned == cheapest \cap Aligned
           S == IF helix /\ cap # 2 /\ aligned # {} THEN aligned ELSE cheapest
<1>1. V \subseteq Content
  BY DEF Viable
<1>2. costs \in SUBSET Nat /\ costs # {}
  BY <1>1, DrotaAssumption
<1>3. Min(costs) \in costs /\ \A n \in costs : Min(costs) <= n
  <2> HIDE DEF costs
  <2> QED BY <1>2, LeastOf
<1> HIDE DEF V
<1>4. PICK x \in V : Cost[x] = Min(costs)
  BY <1>3
<1>5. x \in cheapest
  BY <1>3, <1>4
<1>6. S \subseteq V /\ S # {} /\ S \subseteq Content
  BY <1>1, <1>5
<1>7. SelectAction(cap, helix) = BestOf(S)
  BY DEF SelectAction, V
<1> HIDE DEF S
<1> QED
  BY <1>6, <1>7, BestIsOne DEF V

Items3 == Content \cup {Inaugural, EmptyPool, NoItem}
TalkText == [item : Items3, about : Content \cup {NoItem}, asks : BOOLEAN,
         concept : Content \cup {NoItem}]

\* What holds of a text whatever the pool was.
Sound(t) ==
  /\ t \in TalkText
  /\ t.concept # NoItem => t.about # NoItem /\ (t.about = t.concept \/ pipeline = "split")
  /\ t.asks => t.item \in Drills /\ t.about = t.item
  /\ pipeline = "legacy" /\ t.item \in Drills => t.asks /\ t.about = t.item

Honours(t) == override # NoItem => t.item = override /\ t.about \in {override, NoItem}

DrotaInv ==
  /\ DrotaTypeOK
  /\ Sound(text)
  /\ at = "execute" /\ spoken > 0 => Honours(text)
  /\ at # "idle" => drillLogged = NoItem
  /\ override # NoItem => at \in {"drota", "execute"}
  /\ LoggedDrillWasAsked

\* The items are no other ids.
LEMMA NoItemIsNone ==
  /\ NoItem \notin Content /\ Inaugural \notin Content /\ EmptyPool \notin Content
  /\ NoItem # Inaugural /\ NoItem # EmptyPool
  /\ Drills \subseteq Content /\ Aligned \subseteq Content
BY DrotaAssumption

\* What a turn says that speaks of no item.
LEMMA SpeaksOfNone ==
  ASSUME NEW x \in Items3, x \notin Drills \/ pipeline # "legacy"
  PROVE  Sound(Said(x, NoItem, FALSE, NoItem))
BY NoItemIsNone DEF Said, Sound, TalkText

\* ... and of one, asked or not.
LEMMA SpeaksOfOne ==
  ASSUME NEW x \in Content, NEW about \in Content, NEW asks \in BOOLEAN,
         pipeline # "legacy", about = x \/ (pipeline = "split" /\ ~asks),
         asks => x \in Drills,
         NEW t \in Presented(x, about, asks)
  PROVE  Sound(t) /\ t.item = x /\ t.about = about
<1>1. PICK concept \in {x, NoItem} : t = Said(x, about, asks, concept)
  BY DEF Presented
<1>2. /\ t.item = x /\ t.about = about /\ t.asks = asks /\ t.concept = concept
      /\ t = [item |-> x, about |-> about, asks |-> asks, concept |-> concept]
  BY <1>1 DEF Said
<1>3. t \in TalkText
  BY <1>1, <1>2 DEF TalkText, Items3
<1>4. t.concept # NoItem => t.about # NoItem /\ (t.about = t.concept \/ pipeline = "split")
  BY <1>1, <1>2, NoItemIsNone
<1>5. t.asks => t.item \in Drills /\ t.about = t.item
  BY <1>2
<1> QED
  BY <1>2, <1>3, <1>4, <1>5 DEF Sound

LEMMA LegacySound ==
  ASSUME DrotaTypeOK, pipeline = "legacy", Pool \subseteq Content,
         override # NoItem => Pool = {override},
         NEW t \in Legacy
  PROVE  Sound(t) /\ Honours(t)
<1>1. CASE Pool = {}
  <2>1. t = Said(EmptyPool, NoItem, FALSE, NoItem) /\ override = NoItem
    BY <1>1 DEF Legacy
  <2>2. Sound(t)
    BY <2>1, SpeaksOfNone, NoItemIsNone DEF Items3
  <2> QED BY <2>1, <2>2 DEF Honours
<1>2. CASE Pool # {}
  <2> DEFINE best == BestOf(Pool)
  <2>1. best \in Pool /\ best \in Content
    BY <1>2, BestIsOne
  <2>2. t \in IF best \in Drills THEN {Said(best, best, TRUE, NoItem)}
              ELSE {Said(best, about, FALSE, NoItem) : about \in {best, NoItem}}
    BY <1>2 DEF Legacy
  <2> HIDE DEF best
  <2>3. CASE best \in Drills
    <3>1. t = Said(best, best, TRUE, NoItem)
      BY <2>2, <2>3
    <3>2. Sound(t)
      BY <2>1, <2>3, <3>1 DEF Sound, Said, TalkText, Items3
    <3> QED BY <2>1, <3>1, <3>2 DEF Honours, Said
  <2>4. CASE best \notin Drills
    <3>1. PICK about \in {best, NoItem} : t = Said(best, about, FALSE, NoItem)
      BY <2>2, <2>4
    <3>2. Sound(t)
      BY <2>1, <2>4, <3>1 DEF Sound, Said, TalkText, Items3
    <3> QED BY <2>1, <3>1, <3>2 DEF Honours, Said
  <2> QED BY <2>3, <2>4
<1> QED
  BY <1>1, <1>2

LEMMA TalksSound ==
  ASSUME DrotaTypeOK, pipeline # "legacy", Pool \subseteq Content,
         override # NoItem => Pool = {override},
         NEW x \in Pool, NEW t \in Talks(x)
  PROVE  Sound(t) /\ Honours(t)
<1>1. x \in Content /\ (override # NoItem => x = override)
  OBVIOUS
<1>2. CASE t = Said(x, NoItem, FALSE, NoItem)
  <2>1. Sound(t)
    BY <1>1, <1>2, SpeaksOfNone DEF Items3
  <2> QED BY <1>1, <1>2, <2>1 DEF Honours, Said
<1>3. CASE t \in Presented(x, x, FALSE)
  <2>1. Sound(t) /\ t.item = x /\ t.about = x
    BY <1>1, <1>3, SpeaksOfOne
  <2> QED BY <1>1, <2>1 DEF Honours
<1>4. CASE x \in Drills /\ t \in Presented(x, x, TRUE)
  <2>1. Sound(t) /\ t.item = x /\ t.about = x
    BY <1>1, <1>4, SpeaksOfOne
  <2> QED BY <1>1, <2>1 DEF Honours
<1>5. CASE pipeline = "split" /\ \E about \in Pool : t \in Presented(x, about, FALSE)
  <2>1. PICK about \in Pool : t \in Presented(x, about, FALSE)
    BY <1>5
  <2>2. Sound(t) /\ t.item = x /\ t.about = about
    BY <1>1, <1>5, <2>1, SpeaksOfOne
  <2>3. override # NoItem => about = override
    BY <2>1
  <2> QED BY <1>1, <2>2, <2>3 DEF Honours
<1> QED
  BY <1>2, <1>3, <1>4, <1>5 DEF Talks, Materialize

LEMMA SimplifiedSound ==
  ASSUME DrotaTypeOK, pipeline # "legacy", Pool \subseteq Content,
         override # NoItem => Pool = {override},
         NEW t \in Simplified
  PROVE  Sound(t) /\ Honours(t)
<1>1. PICK budget \in {"none", "low", "ample"}, mood \in {"low", "fair"}, disengaging \in BOOLEAN :
        t \in TextsWithin(CostCap(budget, mood, disengaging))
  BY DEF Simplified
<1> DEFINE cap == CostCap(budget, mood, disengaging)
<1>2. cap \in Nat
  BY DEF CostCap
<1>3. t \in TextsWithin(cap)
  BY <1>1
<1> HIDE DEF cap
<1>4. CASE Viable(cap) = {}
  <2>1. t = Escalated
    BY <1>3, <1>4 DEF TextsWithin
  <2>2. CASE Pool = {}
    <3>1. t = Said(EmptyPool, NoItem, FALSE, NoItem) /\ override = NoItem
      BY <2>1, <2>2 DEF Escalated
    <3>2. Sound(t)
      BY <3>1, SpeaksOfNone DEF Items3
    <3> QED BY <3>1, <3>2 DEF Honours
  <2>3. CASE Pool # {}
    <3>1. t = Said(BestOf(Pool), NoItem, FALSE, NoItem)
      BY <2>1, <2>3 DEF Escalated
    <3>2. BestOf(Pool) \in Pool /\ BestOf(Pool) \in Items3
      BY <2>3, BestIsOne DEF Items3
    <3>3. Sound(t)
      BY <3>1, <3>2, SpeaksOfNone
    <3> QED BY <3>1, <3>2, <3>3 DEF Honours, Said
  <2> QED BY <2>2, <2>3
<1>5. CASE Viable(cap) # {}
  <2>1. PICK helix \in {FALSE, planned.move \in {"correct", "recall"}} :
          t \in Talks(SelectAction(cap, helix))
    BY <1>3, <1>5 DEF TextsWithin
  <2>2. SelectAction(cap, helix) \in Viable(cap)
    BY <1>2, <1>5, SelectedIsViable
  <2>3. SelectAction(cap, helix) \in Pool
    BY <2>2 DEF Viable
  <2> QED BY <2>1, <2>3, TalksSound
<1> QED
  BY <1>4, <1>5

\* What the flags of a step leave of what was said.
LEMMA SoundKept ==
  ASSUME UNCHANGED <<pipeline, override>>, NEW t
  PROVE  (Sound(t)' <=> Sound(t)) /\ (Honours(t)' <=> Honours(t))
BY DEF Sound, Honours

LEMMA NothingIsSound == NothingSaid \in TalkText /\ Sound(NothingSaid)
<1>1. Sound(Said(NoItem, NoItem, FALSE, NoItem))
  BY SpeaksOfNone, NoItemIsNone DEF Items3
<1> QED
  BY <1>1 DEF NothingSaid, Sound

LEMMA DrotaStarts == DrotaInit => DrotaInv
<1> SUFFICES ASSUME DrotaInit PROVE DrotaInv
  OBVIOUS
<1>1. planned \in [pool : SUBSET Content, move : Moves, discovery : BOOLEAN]
  BY DEF DrotaInit, NothingPlanned, Moves
<1>2. DrotaTypeOK
  BY <1>1, NothingIsSound, DrotaAssumption DEF DrotaInit, DrotaTypeOK, TalkText, Items3
<1> QED
  BY <1>2, NothingIsSound DEF DrotaInit, DrotaInv, LoggedDrillWasAsked

LEMMA PlanPoolKeeps == DrotaInv /\ PlanPool => DrotaInv'
<1> SUFFICES ASSUME DrotaInv, PlanPool PROVE DrotaInv'
  OBVIOUS
<1>1. PICK pool \in SUBSET Content,
           hints \in [compose : BOOLEAN, exit : BOOLEAN, discovering : BOOLEAN, confused : BOOLEAN] :
        \E discovery \in {FALSE, MoveType(hints, Top(pool)) = "discover"} :
          planned' = [pool |-> pool, move |-> MoveType(hints, Top(pool)), discovery |-> discovery]
  BY DEF PlanPool
<1>2. MoveType(hints, Top(pool)) \in Moves
  BY DEF MoveType, Moves
<1>3. planned' \in [pool : SUBSET Content, move : Moves, discovery : BOOLEAN]
  <2> DEFINE move == MoveType(hints, Top(pool))
  <2>1. move \in Moves
    BY <1>2
  <2>2. PICK discovery \in {FALSE, move = "discover"} :
          planned' = [pool |-> pool, move |-> move, discovery |-> discovery]
    BY <1>1
  <2>3. discovery \in BOOLEAN
    OBVIOUS
  <2> HIDE DEF move
  <2> QED BY <2>1, <2>2, <2>3
<1>4. text' = NothingSaid /\ at' = "gate" /\ drillLogged' = NoItem /\ override' = override
      /\ pipeline' = pipeline /\ spoken' = spoken /\ lastItem' = lastItem /\ at = "idle"
  BY DEF PlanPool
<1>5. DrotaTypeOK'
  BY <1>3, <1>4, NothingIsSound DEF DrotaInv, DrotaTypeOK, TalkText, Items3
<1>6. Sound(text)'
  BY <1>4, NothingIsSound DEF Sound
<1> QED
  BY <1>4, <1>5, <1>6 DEF DrotaInv, LoggedDrillWasAsked

LEMMA OptionsGateKeeps == DrotaInv /\ OptionsGate => DrotaInv'
<1> SUFFICES ASSUME DrotaInv, OptionsGate PROVE DrotaInv'
  OBVIOUS
<1>1. DrotaTypeOK'
  BY DEF DrotaInv, DrotaTypeOK, OptionsGate
<1>2. Sound(text)'
  BY DEF DrotaInv, Sound, OptionsGate
<1> QED
  BY <1>1, <1>2 DEF DrotaInv, OptionsGate, LoggedDrillWasAsked

LEMMA EvaluateKeeps == DrotaInv /\ EvaluateAndSelect => DrotaInv'
<1> SUFFICES ASSUME DrotaInv, EvaluateAndSelect PROVE DrotaInv'
  OBVIOUS
<1>1. /\ at = "drota" /\ at' = "execute" /\ pipeline' = pipeline /\ spoken' = spoken
      /\ lastItem' = lastItem /\ planned' = planned /\ override' = override
      /\ drillLogged' = drillLogged
      /\ text' \in IF spoken = 0 THEN {Said(Inaugural, NoItem, FALSE, NoItem)}
                   ELSE IF pipeline = "legacy" THEN Legacy ELSE Simplified
  BY DEF EvaluateAndSelect
<1>2. Pool \subseteq Content /\ (override # NoItem => Pool = {override})
  BY DEF DrotaInv, DrotaTypeOK, Pool
<1>3. Sound(text') /\ (spoken > 0 => Honours(text'))
  <2>1. CASE spoken = 0
    <3>1. text' = Said(Inaugural, NoItem, FALSE, NoItem)
      BY <1>1, <2>1
    <3>2. Sound(text')
      BY <3>1, SpeaksOfNone, NoItemIsNone DEF Items3
    <3> QED BY <2>1, <3>2
  <2>2. CASE spoken # 0 /\ pipeline = "legacy"
    BY <1>1, <1>2, <2>2, LegacySound DEF DrotaInv
  <2>3. CASE spoken # 0 /\ pipeline # "legacy"
    BY <1>1, <1>2, <2>3, SimplifiedSound DEF DrotaInv
  <2> QED BY <2>1, <2>2, <2>3
<1>4. Sound(text)' /\ (spoken' > 0 => Honours(text)')
  BY <1>1, <1>3 DEF Sound, Honours
<1>5. DrotaTypeOK'
  BY <1>1, <1>3 DEF DrotaInv, DrotaTypeOK, Sound, TalkText, Items3
<1>6. drillLogged' = NoItem
  BY <1>1 DEF DrotaInv
<1> QED
  BY <1>1, <1>4, <1>5, <1>6 DEF DrotaInv, LoggedDrillWasAsked

LEMMA ThrowKeeps == DrotaInv /\ TurnThrows => DrotaInv'
<1> SUFFICES ASSUME DrotaInv, TurnThrows PROVE DrotaInv'
  OBVIOUS
<1>1. /\ at' = "idle" /\ planned' = NothingPlanned /\ override' = NoItem /\ text' = NothingSaid
      /\ pipeline' = pipeline /\ spoken' = spoken /\ lastItem' = lastItem
      /\ drillLogged' = drillLogged /\ drillLogged = NoItem
  BY DEF DrotaInv, TurnThrows, TurnEnds
<1>2. NothingPlanned \in [pool : SUBSET Content, move : Moves, discovery : BOOLEAN]
  BY DEF NothingPlanned, Moves
<1>3. DrotaTypeOK'
  BY <1>1, <1>2, NothingIsSound DEF DrotaInv, DrotaTypeOK, TalkText, Items3
<1>4. Sound(text)'
  BY <1>1, NothingIsSound DEF Sound
<1> QED
  BY <1>1, <1>3, <1>4 DEF DrotaInv, LoggedDrillWasAsked

LEMMA ExecuteItemKeeps == DrotaInv /\ Execute => DrotaInv'
<1> SUFFICES ASSUME DrotaInv, Execute PROVE DrotaInv'
  OBVIOUS
<1>1. /\ at' = "idle" /\ planned' = NothingPlanned /\ override' = NoItem /\ text' = text
      /\ pipeline' = pipeline /\ lastItem' = text.item
      /\ drillLogged' \in {NoItem, IF text.item \in Drills THEN text.item ELSE NoItem}
  BY DEF Execute, TurnEnds
<1>2. NothingPlanned \in [pool : SUBSET Content, move : Moves, discovery : BOOLEAN]
  BY DEF NothingPlanned, Moves
<1>3. spoken' \in 0 .. MaxSpoken
  BY DrotaAssumption DEF Execute, DrotaInv, DrotaTypeOK
<1>4. text \in TalkText
  BY DEF DrotaInv, Sound
<1>5. DrotaTypeOK'
  BY <1>1, <1>2, <1>3, <1>4 DEF DrotaInv, DrotaTypeOK, TalkText, Items3
<1>6. Sound(text)'
  BY <1>1 DEF DrotaInv, Sound
<1>7. LoggedDrillWasAsked'
  <2> SUFFICES ASSUME pipeline = "legacy", drillLogged' # NoItem
               PROVE  text.asks /\ text.about = drillLogged'
    BY <1>1 DEF LoggedDrillWasAsked
  <2>1. text.item \in Drills /\ drillLogged' = text.item
    BY <1>1
  <2> QED BY <2>1 DEF DrotaInv, Sound
<1> QED
  BY <1>1, <1>5, <1>6, <1>7 DEF DrotaInv

LEMMA DrotaKeeps == DrotaInv /\ [DrotaStep]_drotaVars => DrotaInv'
<1>1. DrotaInv /\ UNCHANGED drotaVars => DrotaInv'
  BY DEF drotaVars, DrotaInv, DrotaTypeOK, Sound, Honours, LoggedDrillWasAsked
<1> QED
  BY <1>1, PlanPoolKeeps, OptionsGateKeeps, EvaluateKeeps, ThrowKeeps, ExecuteItemKeeps
     DEF DrotaStep

LEMMA DrotaKept == DrotaInv => TalkRecorded
BY DEF DrotaInv, TalkRecorded, OverrideHonoured, LoggedDrillWasAsked, ConceptWasSpoken,
       AskedIsRecorded, Sound, Honours

-----------------------------------------------------------------------------
(* What the operator decides *)

TextOrNone == {0} \cup Texts
DeskPoll == {Quiet} \cup [at : {"asked"}, session : DeskSessions]
          \cup [at : {"read"}, session : DeskSessions, text : TextOrNone, fresh : BOOLEAN]
DecisionRow == [original : TextOrNone, text : Texts, fresh : BOOLEAN]
DeskPost == {Quiet, [at |-> "answered"]}
          \cup [at : {"sent"}, session : DeskSessions, original : TextOrNone, fresh : BOOLEAN]
          \cup [at : {"decided"}, original : TextOrNone, fresh : BOOLEAN, text : TextOrNone]

OnRecord == {r.text : r \in decisions}
UnderWay == IF post.at = "decided" THEN {post.text} ELSE {}
Unrecorded == decided \ (OnRecord \cup UnderWay)

DeskTyped ==
  /\ waits \in [DeskSessions -> TextOrNone] /\ filedCount \in 0 .. MaxFiled
  /\ semiAuto \in BOOLEAN /\ focus \in DeskSessions /\ panel \in TextOrNone
  /\ poll \in [Polls -> DeskPoll] /\ post \in DeskPost
  /\ decisions \subseteq DecisionRow
  /\ deskFaults \in 0 .. MaxDeskFaults /\ behind \in BOOLEAN /\ decided \subseteq Texts

\* No text is numbered before it is submitted, and each waits in one session.
TextsFiled ==
  /\ \A s \in DeskSessions : waits[s] <= filedCount
  /\ \A d \in decided : d <= filedCount
  /\ \A r, s \in DeskSessions : waits[r] = waits[s] => r = s \/ waits[r] = 0

\* What was read and not overtaken is what waits: on its way to the page, on the page,
\* and in the request of a decision, which decides what it was about.
ReadHolds ==
  /\ \A p \in Polls : poll[p].at = "read" /\ poll[p].fresh
                        => poll[p].text = waits[poll[p].session]
  /\ ~behind => panel \in {0, waits[focus]}
  /\ post.at = "sent" /\ post.fresh => post.original = waits[post.session]
  /\ post.at = "decided" /\ post.fresh => post.text = post.original

\* A text is decided once: it waits no longer, and is recorded once at most.
DecidedOnce ==
  /\ \A s \in DeskSessions : waits[s] \notin decided
  /\ OnRecord \subseteq decided
  /\ post.at = "decided" => post.text \notin OnRecord /\ post.text \in decided \cup {0}
  /\ \A q, r \in decisions : q.text = r.text => q = r

LossesCounted == Cardinality(Unrecorded) <= deskFaults

DeskInv ==
  DeskTyped /\ TextsFiled /\ ReadHolds /\ DecidedOnce /\ LossesCounted /\ DecidedAsShown

LEMMA DeskNumbers ==
  /\ MaxFiled \in Nat /\ MaxDeskFaults \in Nat /\ Texts \subseteq Nat /\ 0 \notin Texts
  /\ IsFiniteSet(Texts)
BY DeskAssumption, FS_Interval DEF Texts

LEMMA UnrecordedFinite ==
  ASSUME DeskTyped
  PROVE  IsFiniteSet(Unrecorded) /\ Cardinality(Unrecorded) \in Nat
<1>1. Unrecorded \subseteq Texts
  BY DEF Unrecorded, DeskTyped
<1>2. IsFiniteSet(Unrecorded)
  BY <1>1, DeskNumbers, FS_Subset
<1> QED
  BY <1>2, FS_CardinalityType

LEMMA DeskStarts == DeskInit => DeskInv
<1> SUFFICES ASSUME DeskInit PROVE DeskInv
  OBVIOUS
<1>1. DeskTyped
  <2>1. 0 \in 0 .. MaxFiled /\ 0 \in 0 .. MaxDeskFaults
    BY DeskNumbers
  <2> QED BY <2>1 DEF DeskInit, DeskTyped, DeskPoll, DeskPost, TextOrNone
<1>2. Unrecorded = {} /\ OnRecord = {}
  BY DEF DeskInit, Unrecorded, OnRecord
<1>3. post.at = "idle" /\ \A p \in Polls : poll[p].at = "idle"
  BY DEF DeskInit, Quiet
<1>4. ReadHolds
  BY <1>3 DEF DeskInit, ReadHolds
<1>5. TextsFiled /\ DecidedOnce /\ DecidedAsShown
  BY <1>2, <1>3 DEF DeskInit, TextsFiled, DecidedOnce, DecidedAsShown
<1>6. LossesCounted
  BY <1>2, FS_EmptySet DEF DeskInit, LossesCounted
<1> QED
  BY <1>1, <1>4, <1>5, <1>6 DEF DeskInv

\* A text that comes or goes in a session leaves what was read of it behind.
LEMMA OvertakenReads ==
  ASSUME DeskTyped, ReadHolds, NEW s \in DeskSessions,
         Overtaken(s), UNCHANGED <<focus, panel>>, waits' \in [DeskSessions -> TextOrNone],
         \A r \in DeskSessions \ {s} : waits'[r] = waits[r]
  PROVE  /\ poll' \in [Polls -> DeskPoll] /\ behind' \in BOOLEAN
         /\ \A p \in Polls : poll'[p].at = "read" /\ poll'[p].fresh
                               => poll'[p].text = waits'[poll'[p].session]
         /\ ~behind' => panel' \in {0, waits'[focus']}
<1>1. /\ behind' = (behind \/ focus = s)
      /\ poll' = [p \in Polls |-> IF poll[p].at = "read" /\ poll[p].session = s
                                  THEN [poll[p] EXCEPT !.fresh = FALSE] ELSE poll[p]]
  BY DEF Overtaken
<1>2. behind' \in BOOLEAN /\ (~behind' => panel' \in {0, waits'[focus']})
  BY <1>1 DEF DeskTyped, ReadHolds
<1>3. ASSUME NEW p \in Polls
      PROVE  /\ poll'[p] \in DeskPoll
             /\ poll'[p].at = "read" /\ poll'[p].fresh
                  => poll'[p].text = waits'[poll'[p].session]
  <2>1. CASE poll[p].at = "read" /\ poll[p].session = s
    <3>1. poll[p] \in [at : {"read"}, session : DeskSessions, text : TextOrNone, fresh : BOOLEAN]
      BY <2>1 DEF DeskTyped, DeskPoll, Quiet
    <3>2. poll'[p] = [poll[p] EXCEPT !.fresh = FALSE]
      BY <1>1, <2>1
    <3> QED BY <3>1, <3>2 DEF DeskPoll
  <2>2. CASE ~(poll[p].at = "read" /\ poll[p].session = s)
    <3>1. poll'[p] = poll[p] /\ poll[p] \in DeskPoll
      BY <1>1, <2>2 DEF DeskTyped
    <3>2. ASSUME poll[p].at = "read", poll[p].fresh
          PROVE  poll[p].text = waits'[poll[p].session]
      <4>1. poll[p].session \in DeskSessions
        BY <3>1, <3>2 DEF DeskPoll, Quiet
      <4> QED BY <2>2, <3>2, <4>1 DEF ReadHolds
    <3> QED BY <3>1, <3>2
  <2> QED BY <2>1, <2>2
<1>4. poll' \in [Polls -> DeskPoll]
  <2>1. poll' = [p \in Polls |-> poll'[p]]
    BY <1>1
  <2> QED BY <1>3, <2>1
<1> QED
  BY <1>2, <1>3, <1>4

\* ... and a request that was made of it.
LEMMA OvertakenRequest ==
  ASSUME DeskTyped, ReadHolds, NEW s \in DeskSessions, post' = OvertakenPost(s),
         \A r \in DeskSessions \ {s} : waits'[r] = waits[r]
  PROVE  /\ post' \in DeskPost /\ post'.at = post.at
         /\ post'.at = "sent" /\ post'.fresh => post'.original = waits'[post'.session]
         /\ post.at = "decided" => post' = post
<1>1. CASE post.at = "sent" /\ post.session = s
  <2>1. post \in [at : {"sent"}, session : DeskSessions, original : TextOrNone, fresh : BOOLEAN]
    BY <1>1 DEF DeskTyped, DeskPost, Quiet
  <2>2. post' = [post EXCEPT !.fresh = FALSE]
    BY <1>1 DEF OvertakenPost
  <2> QED BY <1>1, <2>1, <2>2 DEF DeskPost
<1>2. CASE ~(post.at = "sent" /\ post.session = s)
  <2>1. post' = post /\ post \in DeskPost
    BY <1>2 DEF OvertakenPost, DeskTyped
  <2>2. ASSUME post.at = "sent", post.fresh PROVE post.original = waits'[post.session]
    <3>1. post.session \in DeskSessions
      BY <2>1, <2>2 DEF DeskPost, Quiet
    <3> QED BY <1>2, <2>2, <3>1 DEF ReadHolds
  <2> QED BY <2>1, <2>2
<1> QED
  BY <1>1, <1>2

LEMMA FileKeeps ==
  ASSUME DeskInv, NEW s \in DeskSessions, File(s)
  PROVE  DeskInv'
<1> USE DEF DeskInv
<1>1. /\ filedCount < MaxFiled /\ filedCount' = filedCount + 1
      /\ waits' = [waits EXCEPT ![s] = filedCount']
      /\ Overtaken(s) /\ post' = OvertakenPost(s)
      /\ UNCHANGED <<semiAuto, focus, panel, decisions, deskFaults, decided>>
  BY DEF File, pageVars
<1>2. filedCount' \in Texts /\ filedCount \in Nat /\ filedCount' \in 0 .. MaxFiled
  BY <1>1, DeskNumbers DEF DeskTyped, Texts
<1>3. /\ waits' \in [DeskSessions -> TextOrNone] /\ waits'[s] = filedCount'
      /\ \A r \in DeskSessions \ {s} : waits'[r] = waits[r]
  BY <1>1, <1>2 DEF DeskTyped, TextOrNone
<1>4. /\ poll' \in [Polls -> DeskPoll] /\ behind' \in BOOLEAN
      /\ \A p \in Polls : poll'[p].at = "read" /\ poll'[p].fresh
                            => poll'[p].text = waits'[poll'[p].session]
      /\ ~behind' => panel' \in {0, waits'[focus']}
  BY <1>1, <1>3, OvertakenReads
<1>5. /\ post' \in DeskPost /\ post'.at = post.at
      /\ post'.at = "sent" /\ post'.fresh => post'.original = waits'[post'.session]
      /\ post.at = "decided" => post' = post
  BY <1>1, <1>3, OvertakenRequest
<1>6. DeskTyped'
  BY <1>1, <1>2, <1>3, <1>4, <1>5 DEF DeskTyped
<1>7. ReadHolds'
  BY <1>4, <1>5 DEF ReadHolds
<1>8. /\ \A r \in DeskSessions : waits[r] \in Nat /\ waits[r] <= filedCount
      /\ \A d \in decided : d \in Nat /\ d <= filedCount
  <2>1. TextOrNone \subseteq Nat /\ Texts \subseteq Nat
    BY DeskNumbers DEF TextOrNone
  <2> QED BY <2>1 DEF TextsFiled, DeskTyped
<1>9. TextsFiled'
  <2>1. \A r \in DeskSessions : waits'[r] <= filedCount'
    BY <1>1, <1>2, <1>3, <1>8
  <2>2. \A d \in decided' : d <= filedCount'
    BY <1>1, <1>2, <1>8
  <2>3. ASSUME NEW q \in DeskSessions, NEW r \in DeskSessions, waits'[q] = waits'[r]
        PROVE  q = r \/ waits'[q] = 0
    <3>1. CASE q = s \/ r = s
      BY <1>1, <1>2, <1>3, <1>8, <2>3, <3>1
    <3>2. CASE q # s /\ r # s
      BY <1>3, <2>3, <3>2 DEF TextsFiled
    <3> QED BY <3>1, <3>2
  <2> QED BY <2>1, <2>2, <2>3 DEF TextsFiled
<1>10. OnRecord' = OnRecord /\ UnderWay' = UnderWay /\ Unrecorded' = Unrecorded
  BY <1>1, <1>5 DEF OnRecord, UnderWay, Unrecorded
<1>11. DecidedOnce'
  <2>1. \A r \in DeskSessions : waits'[r] \notin decided
    BY <1>1, <1>2, <1>3, <1>8 DEF DecidedOnce
  <2> QED BY <1>1, <1>5, <1>10, <2>1 DEF DecidedOnce
<1>12. LossesCounted' /\ DecidedAsShown'
  BY <1>1, <1>10 DEF LossesCounted, DecidedAsShown
<1> QED
  BY <1>6, <1>7, <1>9, <1>11, <1>12

LEMMA ExpireKeeps ==
  ASSUME DeskInv, NEW s \in DeskSessions, Expire(s)
  PROVE  DeskInv'
<1> USE DEF DeskInv
<1>1. /\ waits' = [waits EXCEPT ![s] = 0]
      /\ Overtaken(s) /\ post' = OvertakenPost(s)
      /\ UNCHANGED <<filedCount, semiAuto, focus, panel, decisions, deskFaults, decided>>
  BY DEF Expire, pageVars
<1>2. /\ waits' \in [DeskSessions -> TextOrNone] /\ waits'[s] = 0
      /\ \A r \in DeskSessions \ {s} : waits'[r] = waits[r]
  BY <1>1 DEF DeskTyped, TextOrNone
<1>3. /\ poll' \in [Polls -> DeskPoll] /\ behind' \in BOOLEAN
      /\ \A p \in Polls : poll'[p].at = "read" /\ poll'[p].fresh
                            => poll'[p].text = waits'[poll'[p].session]
      /\ ~behind' => panel' \in {0, waits'[focus']}
  BY <1>1, <1>2, OvertakenReads
<1>4. /\ post' \in DeskPost /\ post'.at = post.at
      /\ post'.at = "sent" /\ post'.fresh => post'.original = waits'[post'.session]
      /\ post.at = "decided" => post' = post
  BY <1>1, <1>2, OvertakenRequest
<1>5. DeskTyped'
  BY <1>1, <1>2, <1>3, <1>4 DEF DeskTyped
<1>6. ReadHolds'
  BY <1>3, <1>4 DEF ReadHolds
<1>7. TextsFiled'
  <2>1. filedCount \in Nat
    BY DeskNumbers DEF DeskTyped
  <2> QED BY <1>1, <1>2, <2>1 DEF TextsFiled
<1>8. OnRecord' = OnRecord /\ UnderWay' = UnderWay /\ Unrecorded' = Unrecorded
  BY <1>1, <1>4 DEF OnRecord, UnderWay, Unrecorded
<1>9. DecidedOnce'
  <2>1. \A r \in DeskSessions : waits'[r] \notin decided
    BY <1>2, DeskNumbers DEF DecidedOnce, DeskTyped
  <2> QED BY <1>1, <1>4, <1>8, <2>1 DEF DecidedOnce
<1>10. LossesCounted' /\ DecidedAsShown'
  BY <1>1, <1>8 DEF LossesCounted, DecidedAsShown
<1> QED
  BY <1>5, <1>6, <1>7, <1>9, <1>10

\* A poll is asked, or fails.
LEMMA PollLeavesRest ==
  ASSUME DeskInv, NEW p \in Polls, NEW q \in DeskPoll, q.at # "read", poll' = [poll EXCEPT ![p] = q],
         deskFaults' \in {deskFaults, deskFaults + 1}, deskFaults' \in 0 .. MaxDeskFaults,
         UNCHANGED <<waits, filedCount, pageVars, post, decisions, behind, decided>>
  PROVE  DeskInv'
<1> USE DEF DeskInv, pageVars
<1>1. poll' \in [Polls -> DeskPoll] /\ poll'[p] = q /\ \A r \in Polls \ {p} : poll'[r] = poll[r]
  BY DEF DeskTyped
<1>2. DeskTyped'
  BY <1>1 DEF DeskTyped
<1>3. ReadHolds'
  BY <1>1 DEF ReadHolds
<1>4. OnRecord' = OnRecord /\ Unrecorded' = Unrecorded
  BY DEF OnRecord, UnderWay, Unrecorded
<1>5. TextsFiled' /\ DecidedOnce' /\ DecidedAsShown'
  BY <1>4 DEF TextsFiled, DecidedOnce, DecidedAsShown
<1>6. LossesCounted'
  BY <1>4, UnrecordedFinite, DeskNumbers DEF LossesCounted, DeskTyped
<1> QED
  BY <1>2, <1>3, <1>5, <1>6

LEMMA AskPendingKeeps ==
  ASSUME DeskInv, NEW p \in Polls, AskPending(p)
  PROVE  DeskInv'
<1> DEFINE q == [at |-> "asked", session |-> focus]
<1>1. q \in DeskPoll /\ q.at # "read"
  BY DEF DeskPoll, DeskInv, DeskTyped
<1>2. deskFaults' = deskFaults /\ deskFaults \in 0 .. MaxDeskFaults
  BY DEF AskPending, DeskInv, DeskTyped
<1>3. /\ poll' = [poll EXCEPT ![p] = q]
      /\ UNCHANGED <<waits, filedCount, pageVars, post, decisions, behind, decided>>
  BY DEF AskPending
<1> HIDE DEF q
<1> QED
  BY <1>1, <1>2, <1>3, PollLeavesRest

LEMMA AskFailsKeeps ==
  ASSUME DeskInv, NEW p \in Polls, AskFails(p)
  PROVE  DeskInv'
<1>1. Quiet \in DeskPoll /\ Quiet.at # "read"
  BY DEF DeskPoll, Quiet
<1>2. deskFaults' = deskFaults + 1 /\ deskFaults' \in 0 .. MaxDeskFaults
  BY DeskNumbers DEF AskFails, Fault, DeskInv, DeskTyped
<1> QED
  BY <1>1, <1>2, PollLeavesRest DEF AskFails

LEMMA ReadPendingKeeps ==
  ASSUME DeskInv, NEW p \in Polls, ReadPending(p)
  PROVE  DeskInv'
<1> USE DEF DeskInv, pageVars
<1> DEFINE s == poll[p].session
           q == [at |-> "read", session |-> s, text |-> waits[s], fresh |-> TRUE]
<1>1. /\ poll' = [poll EXCEPT ![p] = q] /\ poll[p].at = "asked"
      /\ UNCHANGED <<waits, filedCount, pageVars, post, decisions, deskFaults, behind, decided>>
  BY DEF ReadPending
<1>2. s \in DeskSessions
  BY <1>1 DEF DeskTyped, DeskPoll, Quiet
<1>3. q \in DeskPoll
  BY <1>2 DEF DeskPoll, DeskTyped
<1>4. q.at = "read" /\ q.text = waits[q.session]
  OBVIOUS
<1> HIDE DEF q, s
<1>5. poll' \in [Polls -> DeskPoll] /\ poll'[p] = q /\ \A r \in Polls \ {p} : poll'[r] = poll[r]
  BY <1>1, <1>3 DEF DeskTyped
<1>6. DeskTyped'
  BY <1>1, <1>5 DEF DeskTyped
<1>7. ReadHolds'
  BY <1>1, <1>4, <1>5 DEF ReadHolds
<1>8. OnRecord' = OnRecord /\ Unrecorded' = Unrecorded
  BY <1>1 DEF OnRecord, UnderWay, Unrecorded
<1>9. TextsFiled' /\ DecidedOnce' /\ LossesCounted' /\ DecidedAsShown'
  BY <1>1, <1>8 DEF TextsFiled, DecidedOnce, LossesCounted, DecidedAsShown
<1> QED
  BY <1>6, <1>7, <1>9

\* The page is not behind if what it is shown was read of its session and not overtaken.
LEMMA ShowPendingKeeps ==
  ASSUME DeskInv, NEW p \in Polls, ShowPending(p)
  PROVE  DeskInv'
<1> USE DEF DeskInv, pageVars
<1>1. /\ poll[p].at = "read" /\ panel' = poll[p].text
      /\ behind' = ~(poll[p].fresh /\ poll[p].session = focus)
      /\ poll' = [poll EXCEPT ![p] = Quiet]
      /\ UNCHANGED <<waits, filedCount, semiAuto, focus, post, decisions, deskFaults, decided>>
  BY DEF ShowPending
<1>2. poll[p] \in [at : {"read"}, session : DeskSessions, text : TextOrNone, fresh : BOOLEAN]
  BY <1>1 DEF DeskTyped, DeskPoll, Quiet
<1>3. /\ panel' \in TextOrNone
      /\ behind' \in BOOLEAN
      /\ ~behind' => panel' \in {0, waits[focus]}
  BY <1>1, <1>2 DEF ReadHolds
<1>4. /\ poll' \in [Polls -> DeskPoll] /\ poll'[p].at = "idle"
      /\ \A r \in Polls \ {p} : poll'[r] = poll[r]
  BY <1>1 DEF DeskTyped, DeskPoll, Quiet
<1>5. DeskTyped'
  BY <1>1, <1>3, <1>4 DEF DeskTyped
<1>6. ReadHolds'
  BY <1>1, <1>3, <1>4 DEF ReadHolds
<1>7. OnRecord' = OnRecord /\ Unrecorded' = Unrecorded
  BY <1>1 DEF OnRecord, UnderWay, Unrecorded
<1>8. TextsFiled' /\ DecidedOnce' /\ LossesCounted' /\ DecidedAsShown'
  BY <1>1, <1>7 DEF TextsFiled, DecidedOnce, LossesCounted, DecidedAsShown
<1> QED
  BY <1>5, <1>6, <1>8

\* The page turns, its mode changes, or an answer empties the panel.
LEMMA PageKeeps ==
  ASSUME DeskInv,
         semiAuto' \in BOOLEAN, focus' \in DeskSessions, panel' \in TextOrNone,
         behind' \in BOOLEAN, ~behind' => panel' \in {0, waits[focus']},
         \/ post' = post
         \/ post' = Quiet /\ post.at # "decided",
         UNCHANGED <<waits, filedCount, poll, decisions, deskFaults, decided>>
  PROVE  DeskInv'
<1> USE DEF DeskInv
<1>a. Quiet \in DeskPost /\ Quiet.at = "idle" /\ post \in DeskPost
  BY DEF DeskTyped, DeskPost, Quiet
<1>1. post' \in DeskPost /\ (post' = post \/ (post'.at = "idle" /\ post.at # "decided"))
  <2>1. CASE post' = post
    BY <2>1, <1>a
  <2>2. CASE post' = Quiet /\ post.at # "decided"
    BY <2>2, <1>a
  <2> QED
    BY <2>1, <2>2
<1>2. DeskTyped'
  BY <1>1 DEF DeskTyped
<1>3. ReadHolds'
  BY <1>1 DEF ReadHolds
<1>4. OnRecord' = OnRecord /\ UnderWay' = UnderWay /\ Unrecorded' = Unrecorded
  BY <1>1 DEF OnRecord, UnderWay, Unrecorded
<1>5. TextsFiled' /\ DecidedOnce' /\ LossesCounted' /\ DecidedAsShown'
  BY <1>1, <1>4 DEF TextsFiled, DecidedOnce, LossesCounted, DecidedAsShown
<1> QED
  BY <1>2, <1>3, <1>5

LEMMA TurnToKeeps ==
  ASSUME DeskInv, NEW s \in DeskSessions, TurnTo(s)
  PROVE  DeskInv'
<1>1. /\ semiAuto' = semiAuto /\ focus' = s /\ panel' = panel /\ post' = post
      /\ UNCHANGED <<waits, filedCount, poll, decisions, deskFaults, decided>>
  BY DEF TurnTo
<1>2. behind' = TRUE
  BY DEF TurnTo
<1>3. behind' \in BOOLEAN /\ (~behind' => panel' \in {0, waits[focus']})
  BY <1>2
<1>4. semiAuto' \in BOOLEAN /\ panel' \in TextOrNone
  BY <1>1 DEF DeskInv, DeskTyped
<1> QED
  BY <1>1, <1>3, <1>4, PageKeeps

LEMMA ToggleModeKeeps ==
  ASSUME DeskInv, ToggleMode
  PROVE  DeskInv'
<1>1. /\ semiAuto' \in BOOLEAN /\ focus' = focus /\ panel' \in {0, panel}
      /\ UNCHANGED <<waits, filedCount, poll, post, decisions, deskFaults, behind, decided>>
  BY DEF ToggleMode
<1>2. panel' \in TextOrNone
  BY <1>1 DEF DeskInv, DeskTyped, TextOrNone
<1>3. ~behind => panel \in {0, waits[focus]}
  BY DEF DeskInv, ReadHolds
<1>4. ~behind => panel' \in {0, waits[focus]}
  BY <1>1, <1>3
<1>5. ~behind' => panel' \in {0, waits[focus']}
  BY <1>1, <1>4
<1>6. behind' \in BOOLEAN /\ focus' \in DeskSessions
  BY <1>1 DEF DeskInv, DeskTyped
<1> QED
  BY <1>1, <1>2, <1>5, <1>6, PageKeeps

LEMMA AnsweredKeeps ==
  ASSUME DeskInv, Answered
  PROVE  DeskInv'
<1>1. /\ post.at = "answered" /\ post' = Quiet /\ panel' = 0
      /\ UNCHANGED <<waits, filedCount, semiAuto, focus, poll, decisions, deskFaults, behind,
                     decided>>
  BY DEF Answered
<1> QED
  BY <1>1, PageKeeps DEF DeskInv, DeskTyped, TextOrNone

\* A decision that is made of a page that is not behind is about what waits.
LEMMA SubmitKeeps ==
  ASSUME DeskInv, Submit
  PROVE  DeskInv'
<1> USE DEF DeskInv, pageVars
<1>1. /\ panel # 0 /\ post = Quiet
      /\ post' = [at |-> "sent", session |-> focus, original |-> panel, fresh |-> ~behind]
      /\ UNCHANGED <<waits, filedCount, pageVars, poll, decisions, deskFaults, behind, decided>>
  BY DEF Submit
<1>2. post' \in DeskPost /\ post.at # "decided"
  BY <1>1 DEF DeskTyped, DeskPost, Quiet
<1>3. /\ post'.at = "sent" /\ post'.session = focus /\ post'.original = panel
      /\ post'.fresh <=> ~behind
  BY <1>1
<1>4. DeskTyped'
  BY <1>1, <1>2 DEF DeskTyped
<1>5. ReadHolds'
  BY <1>1, <1>3 DEF ReadHolds
<1>6. OnRecord' = OnRecord /\ UnderWay' = UnderWay /\ Unrecorded' = Unrecorded
  BY <1>1, <1>2, <1>3 DEF OnRecord, UnderWay, Unrecorded
<1>7. TextsFiled' /\ DecidedOnce' /\ LossesCounted' /\ DecidedAsShown'
  BY <1>1, <1>3, <1>6 DEF TextsFiled, DecidedOnce, LossesCounted, DecidedAsShown
<1> QED
  BY <1>4, <1>5, <1>7

\* The text that waits is decided, and waits nowhere any more.
LEMMA ApproveOrEditKeeps ==
  ASSUME DeskInv, ApproveOrEdit
  PROVE  DeskInv'
<1> USE DEF DeskInv, pageVars
<1> DEFINE s == post.session
           w == waits[s]
<1>1. /\ post.at = "sent" /\ decided' = decided \cup ({w} \ {0})
      /\ post' = Decides(w) /\ waits' = [waits EXCEPT ![s] = 0]
      /\ IF w = 0 THEN UNCHANGED <<behind, poll>> ELSE Overtaken(s)
      /\ UNCHANGED <<filedCount, pageVars, decisions, deskFaults>>
  BY DEF ApproveOrEdit
<1>2. post \in [at : {"sent"}, session : DeskSessions, original : TextOrNone, fresh : BOOLEAN]
  BY <1>1 DEF DeskTyped, DeskPost, Quiet
<1>3. s \in DeskSessions /\ w \in TextOrNone /\ (post.fresh => post.original = w)
  BY <1>1, <1>2 DEF DeskTyped, ReadHolds
<1>4. /\ post' \in DeskPost /\ post'.at = "decided" /\ post'.text = w
      /\ post'.original = post.original /\ (post'.fresh <=> post.fresh)
  BY <1>1, <1>2, <1>3 DEF Decides, DeskPost
<1> HIDE DEF s, w
<1>5. /\ waits' \in [DeskSessions -> TextOrNone] /\ waits'[s] = 0
      /\ \A r \in DeskSessions \ {s} : waits'[r] = waits[r]
  BY <1>1, <1>3 DEF DeskTyped, TextOrNone
<1>6. /\ poll' \in [Polls -> DeskPoll] /\ behind' \in BOOLEAN
      /\ \A p \in Polls : poll'[p].at = "read" /\ poll'[p].fresh
                            => poll'[p].text = waits'[poll'[p].session]
      /\ ~behind' => panel' \in {0, waits'[focus']}
  <2>1. CASE w = 0
    <3>1. \A r \in DeskSessions : waits'[r] = waits[r]
      BY <1>5, <2>1 DEF w
    <3>2. waits' = waits
      BY <1>5, <3>1 DEF DeskTyped
    <3> QED BY <1>1, <2>1, <3>2 DEF DeskTyped, ReadHolds
  <2>2. CASE w # 0
    BY <1>1, <1>3, <1>5, <2>2, OvertakenReads
  <2> QED BY <2>1, <2>2
<1>7. DeskTyped'
  <2>1. decided' \subseteq Texts
    BY <1>1, <1>3 DEF DeskTyped, TextOrNone
  <2> QED BY <1>1, <1>4, <1>5, <1>6, <2>1 DEF DeskTyped
<1>8. ReadHolds'
  BY <1>3, <1>4, <1>6 DEF ReadHolds
<1>9. TextsFiled'
  <2>1. filedCount \in Nat /\ w <= filedCount
    BY <1>3, DeskNumbers DEF DeskTyped, TextsFiled, w
  <2> QED BY <1>1, <1>5, <2>1 DEF TextsFiled
<1>10. w \notin decided /\ 0 \notin decided /\ OnRecord \subseteq decided /\ OnRecord' = OnRecord
  BY <1>1, <1>3, DeskNumbers DEF DecidedOnce, DeskTyped, w, OnRecord
<1>11. DecidedOnce'
  <2>1. ASSUME NEW r \in DeskSessions PROVE waits'[r] \notin decided'
    <3>1. CASE r = s
      BY <1>1, <1>5, <1>10, <3>1
    <3>2. CASE r # s
      <4>1. waits'[r] = waits[r] /\ waits[r] \notin decided /\ (waits[r] = w => w = 0)
        BY <1>3, <1>5, <3>2 DEF DecidedOnce, TextsFiled, w
      <4> QED BY <1>1, <4>1
    <3> QED BY <3>1, <3>2
  <2>2. post'.text \notin OnRecord' /\ post'.text \in decided' \cup {0}
    BY <1>1, <1>4, <1>10
  <2> QED BY <1>1, <1>10, <2>1, <2>2 DEF DecidedOnce
<1>12. Unrecorded' = Unrecorded
  <2>1. UnderWay = {} /\ UnderWay' = {w}
    BY <1>1, <1>4 DEF UnderWay
  <2> QED BY <1>1, <1>10, <2>1 DEF Unrecorded
<1>13. LossesCounted' /\ DecidedAsShown'
  BY <1>1, <1>12 DEF LossesCounted, DecidedAsShown
<1> QED
  BY <1>7, <1>8, <1>9, <1>11, <1>13

LEMMA RecordKeeps ==
  ASSUME DeskInv, Record
  PROVE  DeskInv'
<1> USE DEF DeskInv, pageVars
<1> DEFINE row == [original |-> post.original, text |-> post.text, fresh |-> post.fresh]
<1>1. /\ post.at = "decided" /\ decisions' = decisions \cup Rows
      /\ post' = [at |-> "answered"]
      /\ UNCHANGED <<waits, filedCount, pageVars, poll, deskFaults, behind, decided>>
  BY DEF Record
<1>2. post \in [at : {"decided"}, original : TextOrNone, fresh : BOOLEAN, text : TextOrNone]
  BY <1>1 DEF DeskTyped, DeskPost, Quiet
<1>3. post' \in DeskPost /\ post'.at = "answered"
  BY <1>1 DEF DeskPost
<1>4. Rows = IF post.text = 0 THEN {} ELSE {row}
  BY DEF Rows
<1>5. post.text # 0 => row \in DecisionRow
  BY <1>2 DEF DecisionRow, TextOrNone
<1>6. row.text = post.text /\ row.original = post.original /\ row.fresh = post.fresh
  OBVIOUS
<1> HIDE DEF row
<1>7. OnRecord' = IF post.text = 0 THEN OnRecord ELSE OnRecord \cup {post.text}
  BY <1>1, <1>4, <1>6 DEF OnRecord
<1>8. DeskTyped'
  BY <1>1, <1>3, <1>4, <1>5 DEF DeskTyped
<1>9. ReadHolds' /\ TextsFiled'
  BY <1>1, <1>3 DEF ReadHolds, TextsFiled
<1>10. /\ 0 \notin decided /\ post.text \notin OnRecord /\ post.text \in decided \cup {0}
       /\ OnRecord \subseteq decided /\ \A q \in decisions : q.text \in OnRecord
  BY <1>1, DeskNumbers DEF DecidedOnce, DeskTyped, OnRecord
<1>11. DecidedOnce'
  <2>1. \A q, r \in decisions' : q.text = r.text => q = r
    BY <1>1, <1>4, <1>6, <1>10 DEF DecidedOnce
  <2>2. OnRecord' \subseteq decided'
    BY <1>1, <1>7, <1>10
  <2> QED BY <1>1, <1>3, <2>1, <2>2 DEF DecidedOnce
<1>12. Unrecorded' = Unrecorded
  <2>1. UnderWay = {post.text} /\ UnderWay' = {}
    BY <1>1, <1>3 DEF UnderWay
  <2> QED BY <1>1, <1>7, <1>10, <2>1 DEF Unrecorded
<1>13. DecidedAsShown'
  BY <1>1, <1>4, <1>6 DEF DecidedAsShown, ReadHolds
<1> QED
  BY <1>1, <1>8, <1>9, <1>11, <1>12, <1>13 DEF LossesCounted

\* A request that fails loses the record of one decision at most.
LEMMA PostFailsKeeps ==
  ASSUME DeskInv, PostFails
  PROVE  DeskInv'
<1> USE DEF DeskInv, pageVars
<1>1. /\ deskFaults < MaxDeskFaults /\ deskFaults' = deskFaults + 1 /\ post' = Quiet
      /\ UNCHANGED <<waits, filedCount, pageVars, poll, decisions, behind, decided>>
  BY DEF PostFails, Fault
<1>2. /\ post' \in DeskPost /\ post'.at = "idle"
      /\ deskFaults' \in 0 .. MaxDeskFaults /\ deskFaults \in Nat
  BY <1>1, DeskNumbers DEF DeskTyped, DeskPost, Quiet
<1>3. DeskTyped'
  BY <1>1, <1>2 DEF DeskTyped
<1>4. ReadHolds' /\ TextsFiled' /\ DecidedAsShown'
  BY <1>1, <1>2 DEF ReadHolds, TextsFiled, DecidedAsShown
<1>5. OnRecord' = OnRecord /\ UnderWay' = {}
  BY <1>1, <1>2 DEF OnRecord, UnderWay
<1>6. DecidedOnce'
  BY <1>1, <1>2, <1>5 DEF DecidedOnce
<1>7. LossesCounted'
  <2>1. Unrecorded' \subseteq Unrecorded \cup UnderWay /\ UnderWay \subseteq {post.text}
    BY <1>1, <1>5 DEF Unrecorded, UnderWay
  <2>2. IsFiniteSet(Unrecorded) /\ Cardinality(Unrecorded) \in Nat
    BY UnrecordedFinite
  <2>3. /\ IsFiniteSet(Unrecorded \cup {post.text})
        /\ Cardinality(Unrecorded \cup {post.text}) \in Nat
        /\ Cardinality(Unrecorded \cup {post.text}) <= Cardinality(Unrecorded) + 1
    BY <2>2, FS_AddElement, FS_CardinalityType
  <2>4. /\ Unrecorded' \subseteq Unrecorded \cup {post.text}
        /\ IsFiniteSet(Unrecorded') /\ Cardinality(Unrecorded') \in Nat
    BY <2>1, <2>3, FS_Subset, FS_CardinalityType
  <2>5. Cardinality(Unrecorded') <= Cardinality(Unrecorded \cup {post.text})
    BY <2>3, <2>4, FS_Subset
  <2> QED BY <1>1, <1>2, <2>2, <2>3, <2>4, <2>5 DEF LossesCounted
<1> QED
  BY <1>3, <1>4, <1>6, <1>7

LEMMA DeskKeeps == DeskInv /\ [DeskStep]_deskVars => DeskInv'
<1> SUFFICES ASSUME DeskInv, [DeskStep]_deskVars PROVE DeskInv'
  OBVIOUS
<1>1. CASE UNCHANGED deskVars
  <2>1. OnRecord' = OnRecord /\ UnderWay' = UnderWay /\ Unrecorded' = Unrecorded
    BY <1>1 DEF deskVars, OnRecord, UnderWay, Unrecorded
  <2> QED BY <1>1, <2>1 DEF deskVars, pageVars, DeskInv, DeskTyped, TextsFiled, ReadHolds, DecidedOnce,
                            LossesCounted, DecidedAsShown
<1>2. CASE DeskStep
  BY <1>2, FileKeeps, ExpireKeeps, TurnToKeeps, AskPendingKeeps, ReadPendingKeeps,
     ShowPendingKeeps, AskFailsKeeps, ToggleModeKeeps, SubmitKeeps, ApproveOrEditKeeps,
     RecordKeeps, AnsweredKeeps, PostFailsKeeps DEF DeskStep
<1> QED
  BY <1>1, <1>2

\* As many rows as texts that were recorded.
LEMMA DeskInvKept == DeskInv => DeskKept /\ DeskTypeOK
<1> SUFFICES ASSUME DeskInv PROVE DeskKept /\ DeskTypeOK
  OBVIOUS
<1> USE DEF DeskInv
<1> DEFINE f == [r \in decisions |-> r.text]
<1>1. OnRecord \subseteq Texts /\ IsFiniteSet(OnRecord)
  <2>1. OnRecord \subseteq Texts
    BY DEF DecidedOnce, DeskTyped
  <2> QED BY <2>1, DeskNumbers, FS_Subset
<1>2. f \in Injection(decisions, OnRecord) /\ f \in Surjection(decisions, OnRecord)
  BY DEF DecidedOnce, OnRecord, Injection, IsInjective, Surjection
<1>3. Cardinality(decisions) = Cardinality(OnRecord)
  <2> HIDE DEF f
  <2> QED BY <1>1, <1>2, FS_Injection
<1>4. DecisionsRecorded
  BY <1>3 DEF DecisionsRecorded, DecidedOnce, LossesCounted, OnRecord, UnderWay, Unrecorded
<1>5. /\ \A p \in Polls : poll[p].at \in {"idle", "asked", "read"}
      /\ post.at \in {"idle", "sent", "decided", "answered"}
  BY DEF DeskTyped, DeskPoll, DeskPost, Quiet
<1> QED
  BY <1>4, <1>5 DEF DeskKept, DeskTypeOK, DeskTyped, TextOrNone

-----------------------------------------------------------------------------
(* The first messages *)

Approval == [text : Nat, approved : BOOLEAN]
Request == [at : {"idle", "served", "refused"}]
             \cup [at : {"sent"}, approvals : [OnbChildren -> Approval]]

OnbTyped ==
  /\ step \in 9..11
  /\ approvals \in [OnbChildren -> Approval]
  /\ texts \in Nat /\ submits \in Nat /\ onbFaults \in Nat /\ profile \in Nat
  /\ request \in Request
  /\ pending \in [OnbChildren -> SUBSET Nat] /\ delivered \in [OnbChildren -> SUBSET Nat]
  /\ ready \in BOOLEAN /\ surprised \in BOOLEAN

\* What the page or a request on its way marks as approved was approved as it stands.
ApprovalsHold ==
  /\ \A c \in OnbChildren : approvals[c].approved => approvals[c].text \in approvedEver
  /\ request.at = "sent" =>
       \A c \in OnbChildren :
         request.approvals[c].approved => request.approvals[c].text \in approvedEver

\* So is what waits or was sent, and one text waits at most.
OneWaits ==
  \A c \in OnbChildren :
    /\ pending[c] \cup delivered[c] \subseteq approvedEver
    /\ pending[c] = {} \/ \E t \in Nat : pending[c] = {t}

\* A submission that was served left a row that is complete and a profile.
ServedIsWritten ==
  /\ request.at = "sent" => submits # 0
  /\ ready \/ request.at = "served" => record = "complete" /\ profile # 0

\* An approved text is not empty, all are approved in the last step, and in what it
\* submits, unless there was a surprise.
Unsurprised ==
  ~surprised =>
    /\ \A c \in OnbChildren : approvals[c].approved => approvals[c].text # Empty
    /\ step = 11 => AllApproved
    /\ request.at = "sent" => Wanted = OnbChildren

\* Every child of a submission that was served has a message.
Reached ==
  onbFaults = 0 /\ ~surprised /\ (ready \/ request.at = "served") =>
    \A c \in OnbChildren : pending[c] \cup delivered[c] # {}

OnbInv == OnbTyped /\ ApprovalsHold /\ OneWaits /\ ServedIsWritten /\ Unsurprised /\ Reached

LEMMA OnboardingStarts == OnbInit => OnbInv
<1> SUFFICES ASSUME OnbInit PROVE OnbInv
  OBVIOUS
<1>1. OnbTyped
  <2>1. NoText \in Approval /\ NoRequest \in Request
    BY DEF NoText, NoRequest, Approval, Request
  <2>2. approvals \in [OnbChildren -> Approval]
    BY <2>1 DEF OnbInit
  <2>3. pending \in [OnbChildren -> SUBSET Nat] /\ delivered \in [OnbChildren -> SUBSET Nat]
    BY DEF OnbInit
  <2>4. /\ step \in 9..11 /\ request \in Request
        /\ texts \in Nat /\ submits \in Nat /\ onbFaults \in Nat /\ profile \in Nat
    BY <2>1 DEF OnbInit
  <2>5. ready \in BOOLEAN /\ surprised \in BOOLEAN
    BY DEF OnbInit
  <2> QED
    BY <2>2, <2>3, <2>4, <2>5 DEF OnbTyped
<1>2. request.at = "idle" /\ ~ready /\ step = 9
  BY DEF OnbInit, NoRequest
<1>3. \A c \in OnbChildren : ~approvals[c].approved /\ pending[c] = {} /\ delivered[c] = {}
  BY DEF OnbInit, NoText
<1>4. ApprovalsHold /\ OneWaits /\ ServedIsWritten /\ Unsurprised /\ Reached
  BY <1>2, <1>3 DEF ApprovalsHold, OneWaits, ServedIsWritten, Unsurprised, Reached
<1> QED
  BY <1>1, <1>4 DEF OnbInv

\* A step between the steps of the page.
LEMMA PageTurns ==
  ASSUME OnbInv, step' \in 9..11, ~surprised => (step' = 11 => AllApproved),
         UNCHANGED <<approvals, texts, ready, storeVars, request, submits, approvedEver,
                     surprised>>
  PROVE  OnbInv'
<1> USE DEF OnbInv, storeVars
<1>1. OnbTyped' /\ ApprovalsHold' /\ OneWaits' /\ ServedIsWritten' /\ Reached'
  BY DEF OnbTyped, ApprovalsHold, OneWaits, ServedIsWritten, Reached
<1>2. Unsurprised'
  BY DEF Unsurprised, AllApproved, Wanted
<1> QED
  BY <1>1, <1>2

LEMMA NextStepKeeps ==
  ASSUME OnbInv, NextStep
  PROVE  OnbInv'
<1>1. /\ CanAdvance /\ step' = step + 1
      /\ UNCHANGED <<approvals, texts, ready, storeVars, request, submits, approvedEver,
                     surprised>>
  BY DEF NextStep
<1>2. step \in 9..11
  BY DEF OnbInv, OnbTyped
<1>3. step' \in 9..11
  BY <1>1, <1>2 DEF CanAdvance
<1>4. step' = 11 => AllApproved
  BY <1>1, <1>2 DEF CanAdvance
<1> QED
  BY <1>1, <1>3, <1>4, PageTurns

LEMMA PreviousStepKeeps ==
  ASSUME OnbInv, PreviousStep
  PROVE  OnbInv'
<1>1. /\ step > 9 /\ step' = step - 1
      /\ UNCHANGED <<approvals, texts, ready, storeVars, request, submits, approvedEver,
                     surprised>>
  BY DEF PreviousStep
<1>2. step' \in 9..11 /\ step' # 11
  BY <1>1 DEF OnbInv, OnbTyped
<1> QED
  BY <1>1, <1>2, PageTurns

\* A text takes the place of another and is not approved.
LEMMA TextKeeps ==
  ASSUME OnbInv, NEW c \in OnbChildren, NEW t \in Nat, approvals' = Unapproved(c, t),
         texts' \in Nat, surprised' \in BOOLEAN,
         surprised => surprised', step = 11 => surprised',
         UNCHANGED <<step, ready, storeVars, request, submits, approvedEver>>
  PROVE  OnbInv'
<1> USE DEF OnbInv, storeVars
<1>1. /\ approvals' \in [OnbChildren -> Approval] /\ ~approvals'[c].approved
      /\ \A o \in OnbChildren \ {c} : approvals'[o] = approvals[o]
  BY DEF OnbTyped, Unapproved, Approval
<1>2. OnbTyped'
  BY <1>1 DEF OnbTyped
<1>3. ApprovalsHold'
  BY <1>1 DEF ApprovalsHold
<1>4. OneWaits' /\ ServedIsWritten' /\ Reached'
  BY DEF OneWaits, ServedIsWritten, Reached
<1>5. Unsurprised'
  <2> SUFFICES ASSUME ~surprised' PROVE
        /\ \A o \in OnbChildren : approvals'[o].approved => approvals'[o].text # Empty
        /\ step' # 11
        /\ (request.at = "sent" => Wanted = OnbChildren)'
    BY DEF Unsurprised
  <2>1. \A o \in OnbChildren : approvals'[o].approved => approvals'[o].text # Empty
    BY <1>1 DEF Unsurprised
  <2>2. (request.at = "sent" => Wanted = OnbChildren)'
    BY DEF Unsurprised, Wanted
  <2> QED
    BY <2>1, <2>2
<1> QED
  BY <1>2, <1>3, <1>4, <1>5

LEMMA GenerateKeeps ==
  ASSUME OnbInv, NEW c \in OnbChildren, Generate(c)
  PROVE  OnbInv'
<1>1. UNCHANGED <<step, approvals, texts, ready, storeVars, request, submits, approvedEver,
                  surprised>>
  BY DEF Generate
<1>2. step' \in 9..11 /\ (~surprised => (step' = 11 => AllApproved))
  BY <1>1 DEF OnbInv, OnbTyped, Unsurprised
<1> QED
  BY <1>1, <1>2, PageTurns

LEMMA AnswerKeeps ==
  ASSUME OnbInv, NEW a \in asking, a.child \in OnbChildren, Answer(a)
  PROVE  OnbInv'
<1>1. UNCHANGED <<step, ready, storeVars, request, submits, approvedEver>>
  BY DEF Answer
<1>2. CASE Generated(a)
  <2>1. texts' = texts + 1 /\ approvals' = Unapproved(a.child, texts')
    BY <1>2 DEF Generated
  <2>2. texts' \in Nat
    BY <2>1 DEF OnbInv, OnbTyped
  <2>3. surprised' \in BOOLEAN /\ (surprised => surprised') /\ (step = 11 => surprised')
    BY <1>2 DEF Generated, OnbInv, OnbTyped
  <2> QED
    BY <1>1, <2>1, <2>2, <2>3, TextKeeps
<1>3. CASE UNCHANGED <<texts, approvals, surprised>>
  <2>1. step' \in 9..11 /\ (~surprised => (step' = 11 => AllApproved))
    BY <1>1 DEF OnbInv, OnbTyped, Unsurprised
  <2> QED
    BY <1>1, <1>3, <2>1, PageTurns
<1> QED
  BY <1>2, <1>3 DEF Answer

LEMMA SaveEditKeeps ==
  ASSUME OnbInv, NEW c \in OnbChildren, SaveEdit(c)
  PROVE  OnbInv'
<1>1. /\ step = 10 /\ UNCHANGED <<step, ready, storeVars, request, submits, approvedEver>>
      /\ surprised' = surprised
  BY DEF SaveEdit
<1>2. PICK t \in {approvals[c].text, texts + 1, Empty} : approvals' = Unapproved(c, t)
  BY DEF SaveEdit
<1>3. texts' \in {texts, texts + 1}
  BY DEF SaveEdit
<1>4. /\ texts \in Nat /\ approvals[c].text \in Nat /\ surprised \in BOOLEAN /\ Empty \in Nat
  BY OnbAssumption DEF OnbInv, OnbTyped, Approval, Empty
<1>5. texts' \in Nat /\ t \in Nat
  BY <1>2, <1>3, <1>4
<1>6. surprised' \in BOOLEAN /\ (surprised => surprised') /\ (step = 11 => surprised')
  BY <1>1, <1>4
<1> QED
  BY <1>1, <1>2, <1>5, <1>6, TextKeeps

LEMMA ApproveKeeps ==
  ASSUME OnbInv, NEW c \in OnbChildren, Approve(c)
  PROVE  OnbInv'
<1> USE DEF OnbInv, storeVars
<1>1. /\ step = 10 /\ approvals' = [approvals EXCEPT ![c].approved = TRUE]
      /\ approvedEver' = approvedEver \cup {approvals[c].text}
      /\ UNCHANGED <<step, texts, ready, storeVars, request, submits>>
  BY DEF Approve
<1>2. surprised' = (surprised \/ approvals[c].text = Empty)
  BY DEF Approve
<1>3. /\ approvals' \in [OnbChildren -> Approval]
      /\ \A o \in OnbChildren : approvals'[o].text = approvals[o].text
      /\ \A o \in OnbChildren \ {c} : approvals'[o] = approvals[o]
  BY <1>1 DEF OnbTyped, Approval
<1>4. surprised' \in BOOLEAN
  BY <1>2 DEF OnbTyped
<1>5. OnbTyped'
  BY <1>1, <1>3, <1>4 DEF OnbTyped
<1>6. ApprovalsHold'
  BY <1>1, <1>3 DEF ApprovalsHold
<1>7. OneWaits' /\ ServedIsWritten'
  BY <1>1 DEF OneWaits, ServedIsWritten
<1>8. Reached'
  BY <1>1, <1>2 DEF Reached
<1>9. Unsurprised'
  <2> SUFFICES ASSUME ~surprised' PROVE
        /\ \A o \in OnbChildren : approvals'[o].approved => approvals'[o].text # Empty
        /\ step' # 11
        /\ (request.at = "sent" => Wanted = OnbChildren)'
    BY DEF Unsurprised
  <2>1. ~surprised /\ approvals[c].text # Empty
    BY <1>2
  <2>2. \A o \in OnbChildren : approvals'[o].approved => approvals'[o].text # Empty
    BY <1>3, <2>1 DEF Unsurprised
  <2>3. (request.at = "sent" => Wanted = OnbChildren)'
    BY <1>1, <2>1 DEF Unsurprised, Wanted
  <2> QED
    BY <1>1, <2>2, <2>3
<1> QED
  BY <1>5, <1>6, <1>7, <1>8, <1>9

LEMMA FinishKeeps ==
  ASSUME OnbInv, Finish
  PROVE  OnbInv'
<1> USE DEF OnbInv, storeVars, wizardVars
<1>1. /\ step = 11 /\ submits' = submits + 1
      /\ request' = [at |-> "sent", approvals |-> approvals]
      /\ UNCHANGED <<wizardVars, storeVars, approvedEver, surprised>>
  BY DEF Finish
<1>2. request' \in Request /\ request'.at = "sent" /\ request'.approvals = approvals
  BY <1>1 DEF OnbTyped, Request
<1>3. submits' \in Nat /\ submits' # 0
  BY <1>1 DEF OnbTyped
<1>4. OnbTyped'
  BY <1>1, <1>2, <1>3 DEF OnbTyped
<1>5. ApprovalsHold' /\ OneWaits' /\ ServedIsWritten' /\ Reached'
  BY <1>1, <1>2, <1>3 DEF ApprovalsHold, OneWaits, ServedIsWritten, Reached
<1>6. Unsurprised'
  BY <1>1, <1>2 DEF Unsurprised, AllApproved, Wanted
<1> QED
  BY <1>4, <1>5, <1>6

\* The answer is read, or the request is given up.
LEMMA FinishedKeeps ==
  ASSUME OnbInv, Finished
  PROVE  OnbInv'
<1> USE DEF OnbInv, storeVars
<1>1. /\ request' = NoRequest
      /\ UNCHANGED <<step, approvals, texts, storeVars, submits, approvedEver, surprised>>
  BY DEF Finished
<1>2. ready' = (ready \/ request.at = "served")
  BY DEF Finished
<1>3. request' \in Request /\ request'.at = "idle"
  BY <1>1 DEF NoRequest, Request
<1>4. ready' \in BOOLEAN
  BY <1>2 DEF OnbTyped
<1>5. OnbTyped'
  BY <1>1, <1>3, <1>4 DEF OnbTyped
<1>6. ApprovalsHold' /\ OneWaits'
  BY <1>1, <1>3 DEF ApprovalsHold, OneWaits
<1>7. ServedIsWritten' /\ Reached'
  BY <1>1, <1>2, <1>3 DEF ServedIsWritten, Reached
<1>8. Unsurprised'
  BY <1>1, <1>3 DEF Unsurprised, AllApproved
<1> QED
  BY <1>5, <1>6, <1>7, <1>8

LEMMA FinishFailsKeeps ==
  ASSUME OnbInv, FinishFails
  PROVE  OnbInv'
<1> USE DEF OnbInv, storeVars, wizardVars
<1>1. /\ request' = NoRequest
      /\ UNCHANGED <<wizardVars, storeVars, submits, approvedEver, surprised>>
  BY DEF FinishFails
<1>2. request' \in Request /\ request'.at = "idle"
  BY <1>1 DEF NoRequest, Request
<1>3. OnbTyped'
  BY <1>1, <1>2 DEF OnbTyped
<1>4. ApprovalsHold' /\ OneWaits' /\ ServedIsWritten' /\ Reached'
  BY <1>1, <1>2 DEF ApprovalsHold, OneWaits, ServedIsWritten, Reached
<1>5. Unsurprised'
  BY <1>1, <1>2 DEF Unsurprised, AllApproved
<1> QED
  BY <1>3, <1>4, <1>5

LEMMA SaveDraftKeeps ==
  ASSUME OnbInv, SaveDraft
  PROVE  OnbInv'
<1> USE DEF OnbInv, wizardVars
<1>1. /\ record = "complete" => record' = "complete"
      /\ UNCHANGED <<wizardVars, profile, pending, delivered, onbFaults, request, submits,
                     approvedEver, surprised>>
  BY DEF SaveDraft
<1>2. OnbTyped' /\ ApprovalsHold' /\ OneWaits' /\ Reached'
  BY <1>1 DEF OnbTyped, ApprovalsHold, OneWaits, Reached
<1>3. ServedIsWritten'
  BY <1>1 DEF ServedIsWritten
<1>4. Unsurprised'
  BY <1>1 DEF Unsurprised, AllApproved, Wanted
<1> QED
  BY <1>2, <1>3, <1>4

LEMMA ProfileFailsKeeps ==
  ASSUME OnbInv, ProfileFails
  PROVE  OnbInv'
<1> USE DEF OnbInv, wizardVars
<1>1. /\ onbFaults' = onbFaults + 1 /\ record' = "complete" /\ request' = [at |-> "refused"]
      /\ UNCHANGED <<wizardVars, profile, pending, delivered, submits, approvedEver, surprised>>
  BY DEF ProfileFails, OnbFault
<1>2. request' \in Request /\ request'.at = "refused"
  BY <1>1 DEF Request
<1>3. onbFaults' \in Nat /\ onbFaults' # 0
  BY <1>1 DEF OnbTyped
<1>4. OnbTyped'
  BY <1>1, <1>2, <1>3 DEF OnbTyped
<1>5. ApprovalsHold' /\ OneWaits' /\ ServedIsWritten' /\ Reached'
  BY <1>1, <1>2, <1>3 DEF ApprovalsHold, OneWaits, ServedIsWritten, Reached
<1>6. Unsurprised'
  BY <1>1, <1>2 DEF Unsurprised, AllApproved
<1> QED
  BY <1>4, <1>5, <1>6

\* Each child that is wanted gets its approved text in place of the one that waited.
LEMMA CompleteKeeps ==
  ASSUME OnbInv, Complete
  PROVE  OnbInv'
<1> USE DEF OnbInv, wizardVars
<1>1. /\ request.at = "sent" /\ record' = "complete" /\ profile' = submits
      /\ request' = [at |-> "served"] /\ onbFaults' \in {onbFaults, onbFaults + 1}
      /\ UNCHANGED <<wizardVars, delivered, submits, approvedEver, surprised>>
  BY DEF Complete, OnbFault
<1>2. request' \in Request /\ request'.at = "served"
  BY <1>1 DEF Request
<1>3. request.approvals \in [OnbChildren -> Approval]
  BY <1>1 DEF OnbTyped, Request
<1>4. /\ DOMAIN pending' = OnbChildren /\ pending' = [c \in OnbChildren |-> pending'[c]]
      /\ \A c \in OnbChildren :
           \/ pending'[c] = {} \/ pending'[c] = pending[c]
           \/ c \in Wanted /\ pending'[c] = Scheduled(c)
  BY DEF Complete
<1>5. onbFaults' = onbFaults => \A c \in Wanted : pending'[c] = Scheduled(c)
  BY DEF Complete, OnbFault, OnbTyped, Wanted
<1>6. \A c \in Wanted : /\ request.approvals[c].text \in Nat \cap approvedEver
                        /\ Scheduled(c) = {request.approvals[c].text}
  BY <1>1, <1>3 DEF Wanted, Scheduled, ApprovalsHold, Approval
<1>7. pending' \in [OnbChildren -> SUBSET Nat]
  <2>1. \A c \in OnbChildren : pending'[c] \in SUBSET Nat
    BY <1>4, <1>6 DEF OnbTyped
  <2> QED
    BY <1>4, <2>1
<1>8. OnbTyped'
  BY <1>1, <1>2, <1>7 DEF OnbTyped
<1>9. ApprovalsHold'
  BY <1>1, <1>2 DEF ApprovalsHold
<1>10. OneWaits'
  BY <1>1, <1>4, <1>6 DEF OneWaits
<1>11. ServedIsWritten'
  BY <1>1, <1>2 DEF ServedIsWritten, OnbTyped
<1>12. Unsurprised'
  BY <1>1, <1>2 DEF Unsurprised, AllApproved
<1>13. Reached'
  <2> SUFFICES ASSUME onbFaults' = 0, ~surprised', NEW c \in OnbChildren
               PROVE  pending'[c] \cup delivered'[c] # {}
    BY DEF Reached
  <2>1. onbFaults' = onbFaults
    BY <1>1 DEF OnbTyped
  <2>2. c \in Wanted
    BY <1>1 DEF Unsurprised
  <2> QED
    BY <1>5, <1>6, <2>1, <2>2
<1> QED
  BY <1>8, <1>9, <1>10, <1>11, <1>12, <1>13

LEMMA CancelKeeps ==
  ASSUME OnbInv, NEW c \in OnbChildren, CancelMc1(c)
  PROVE  OnbInv'
<1> USE DEF OnbInv, wizardVars
<1>1. /\ pending' = [pending EXCEPT ![c] = {}]
      /\ UNCHANGED <<wizardVars, record, profile, delivered, onbFaults, request, submits,
                     approvedEver>>
  BY DEF CancelMc1
<1>2. surprised' = TRUE
  BY DEF CancelMc1
<1>3. /\ pending' \in [OnbChildren -> SUBSET Nat]
      /\ \A o \in OnbChildren : pending'[o] = {} \/ pending'[o] = pending[o]
  BY <1>1 DEF OnbTyped
<1>4. surprised' \in BOOLEAN
  BY <1>2
<1>5. OnbTyped'
  BY <1>1, <1>3, <1>4 DEF OnbTyped
<1>6. OneWaits'
  BY <1>1, <1>3 DEF OneWaits
<1>7. ApprovalsHold' /\ ServedIsWritten'
  BY <1>1 DEF ApprovalsHold, ServedIsWritten
<1>8. Unsurprised' /\ Reached'
  BY <1>2 DEF Unsurprised, Reached
<1> QED
  BY <1>5, <1>6, <1>7, <1>8

LEMMA DeliverKeeps ==
  ASSUME OnbInv, NEW c \in OnbChildren, DeliverMc1(c)
  PROVE  OnbInv'
<1> USE DEF OnbInv, wizardVars
<1>1. PICK mc1 \in pending[c] :
        /\ pending' = [pending EXCEPT ![c] = @ \ {mc1}]
        /\ delivered' = [delivered EXCEPT ![c] = @ \cup {mc1}]
  BY DEF DeliverMc1
<1>2. UNCHANGED <<wizardVars, record, profile, onbFaults, request, submits, approvedEver,
                  surprised>>
  BY DEF DeliverMc1
<1>3. /\ pending' \in [OnbChildren -> SUBSET Nat] /\ delivered' \in [OnbChildren -> SUBSET Nat]
      /\ pending'[c] = pending[c] \ {mc1} /\ delivered'[c] = delivered[c] \cup {mc1}
      /\ \A o \in OnbChildren \ {c} : pending'[o] = pending[o] /\ delivered'[o] = delivered[o]
  BY <1>1 DEF OnbTyped
<1>4. OnbTyped'
  BY <1>2, <1>3 DEF OnbTyped
<1>5. OneWaits'
  BY <1>1, <1>2, <1>3 DEF OneWaits
<1>6. ApprovalsHold' /\ ServedIsWritten'
  BY <1>2 DEF ApprovalsHold, ServedIsWritten
<1>7. Unsurprised'
  BY <1>2 DEF Unsurprised, AllApproved, Wanted
<1>8. Reached'
  BY <1>2, <1>3 DEF Reached
<1> QED
  BY <1>4, <1>5, <1>6, <1>7, <1>8

\* The bookkeeping of the previews that are asked for.
AskedOfChildren == asking \subseteq [child : OnbChildren, shown : BOOLEAN]

LEMMA AskedOfChildrenStarts == OnbInit => AskedOfChildren
BY DEF OnbInit, AskedOfChildren

LEMMA AskedOfChildrenKeeps ==
  ASSUME AskedOfChildren, OnbStep
  PROVE  AskedOfChildren'
<1> DEFINE A == [child : OnbChildren, shown : BOOLEAN]
<1> USE DEF AskedOfChildren
<1> SUFFICES asking' \subseteq A
  OBVIOUS
<1>1. Left \subseteq A
  BY DEF Left
<1>2. ASSUME NEW c \in OnbChildren, Generate(c) PROVE asking' \subseteq A
  <2>1. asking' = asking \cup {[child |-> c, shown |-> TRUE]}
    BY <1>2 DEF Generate
  <2>2. [child |-> c, shown |-> TRUE] \in A
    OBVIOUS
  <2> QED
    BY <2>1, <2>2
<1>3. ASSUME NEW a \in asking, Answer(a) PROVE asking' \subseteq A
  BY <1>3 DEF Answer
<1>4. CASE NextStep \/ PreviousStep
  BY <1>1, <1>4 DEF NextStep, PreviousStep
<1>5. ASSUME UNCHANGED asking PROVE asking' \subseteq A
  BY <1>5
<1>6. CASE Finish \/ Finished \/ FinishFails \/ SaveDraft \/ ProfileFails \/ Complete
  BY <1>5, <1>6 DEF wizardVars, Finish, Finished, FinishFails, SaveDraft, ProfileFails, Complete
<1>7. ASSUME NEW c \in OnbChildren, Approve(c) \/ SaveEdit(c) \/ CancelMc1(c) \/ DeliverMc1(c)
      PROVE  asking' \subseteq A
  BY <1>5, <1>7 DEF wizardVars, Approve, SaveEdit, CancelMc1, DeliverMc1
<1> HIDE DEF A, AskedOfChildren
<1> QED
  BY <1>2, <1>3, <1>4, <1>6, <1>7 DEF OnbStep

LEMMA OnboardingKeeps ==
  ASSUME OnbInv, AskedOfChildren, OnbStep
  PROVE  OnbInv'
<1>1. \A a \in asking : a.child \in OnbChildren
  BY DEF AskedOfChildren
<1> QED
  BY <1>1, NextStepKeeps, PreviousStepKeeps, FinishKeeps, FinishedKeeps, FinishFailsKeeps,
     GenerateKeeps, ApproveKeeps, SaveEditKeeps, CancelKeeps, DeliverKeeps, AnswerKeeps,
     SaveDraftKeeps, ProfileFailsKeeps, CompleteKeeps DEF OnbStep

LEMMA OnboardingInvKept == OnbInv => OnboardingKept
<1> SUFFICES ASSUME OnbInv PROVE OnboardingKept
  OBVIOUS
<1>1. ASSUME NEW c \in OnbChildren PROVE Cardinality(pending[c]) <= 1
  <2>1. pending[c] = {} \/ \E t \in Nat : pending[c] = {t}
    BY DEF OnbInv, OneWaits
  <2>2. Cardinality(pending[c]) \in {0, 1}
    BY <2>1, FS_EmptySet, FS_Singleton
  <2> QED
    BY <2>2
<1>2. OnlyApprovedWait
  BY <1>1 DEF OnbInv, OneWaits, OnlyApprovedWait
<1>3. ReadyIsReady
  BY DEF OnbInv, ServedIsWritten, Reached, ReadyIsReady
<1> QED
  BY <1>2, <1>3 DEF OnboardingKept

-----------------------------------------------------------------------------
(* The programme of five weeks *)

ProgramInv ==
  /\ week \in 0..Weeks /\ phase \in 0..Phases /\ (week = 0 <=> phase = 0)
  /\ phasesCompleted \in Nat /\ missed \in Nat
  /\ PhasesCounted

\* A week more is as many phases more.
LEMMA WeekMore ==
  ASSUME NEW w \in Nat
  PROVE  Phases * (w + 1 - 1) = Phases * (w - 1) + Phases
<1>1. Phases \in Nat
  BY GardnerAssumption
<1> QED
  BY <1>1

LEMMA ProgramStarts == ProgramInit => ProgramInv
<1> SUFFICES ASSUME ProgramInit PROVE ProgramInv
  OBVIOUS
<1>1. week = 0 /\ phase = 0 /\ phasesCompleted = 0 /\ missed = 0
  BY DEF ProgramInit
<1>2. PhasesCounted
  BY <1>1 DEF PhasesCounted, PlaceIsCounted, MissedPauses
<1> QED
  BY <1>1, <1>2, GardnerAssumption DEF ProgramInv

LEMMA AdvanceCounts ==
  ASSUME ProgramInv, NextPhase
  PROVE  /\ week' \in 0..Weeks /\ phase' \in 0..Phases /\ (week' = 0 <=> phase' = 0)
         /\ phasesCompleted' \in Nat
         /\ PlaceIsCounted'
<1>1. /\ week \in 0..Weeks /\ phase \in 0..Phases /\ (week = 0 <=> phase = 0)
      /\ phasesCompleted \in Nat /\ Weeks \in Nat \ {0} /\ Phases \in Nat \ {0}
  BY GardnerAssumption DEF ProgramInv
<1>2. week # 0 => phasesCompleted = Phases * (week - 1) + (phase - 1)
  BY DEF ProgramInv, PhasesCounted, PlaceIsCounted
<1>3. CASE FirstPhase
  <2>1. week' = 1 /\ phase' = 1 /\ phasesCompleted' = 0
    BY <1>3 DEF FirstPhase
  <2>2. Phases * (1 - 1) + (1 - 1) = 0
    BY <1>1
  <2> QED
    BY <1>1, <2>1, <2>2 DEF PlaceIsCounted
<1>4. CASE PhaseInWeek
  <2>1. /\ week # 0 /\ week' = week /\ phase \in 1..(Phases - 1) /\ phase' = phase + 1
        /\ phasesCompleted' = phasesCompleted + 1
    BY <1>4 DEF PhaseInWeek
  <2> DEFINE before == Phases * (week - 1)
  <2>2. before \in Nat
    BY <1>1, <2>1
  <2>3. phasesCompleted = before + (phase - 1)
    BY <1>2, <2>1
  <2>4. before' = before
    BY <2>1
  <2>5. phasesCompleted' = before + (phase' - 1)
    <3> HIDE DEF before
    <3> QED BY <1>1, <2>1, <2>2, <2>3
  <2>6. phasesCompleted' = Phases * (week' - 1) + (phase' - 1)
    BY <2>1, <2>5
  <2> QED
    BY <1>1, <2>1, <2>6 DEF PlaceIsCounted
<1>5. CASE WeekEnds
  <2>1. week # 0 /\ phase = Phases /\ phasesCompleted' = phasesCompleted + 1
    BY <1>5 DEF WeekEnds
  <2>2. phasesCompleted' = Phases * (week - 1) + Phases
    <3> DEFINE before == Phases * (week - 1)
    <3>1. before \in Nat /\ phasesCompleted = before + (phase - 1)
      BY <1>1, <1>2, <2>1
    <3> HIDE DEF before
    <3>2. phasesCompleted' = before + Phases
      BY <1>1, <2>1, <3>1
    <3> QED BY <3>2 DEF before
  <2>3. phasesCompleted' = Phases * (week + 1 - 1)
    BY <1>1, <2>2, WeekMore
  <2>4. CASE week >= Weeks
    <3>1. week' = 0 /\ phase' = 0
      BY <1>5, <2>4 DEF WeekEnds
    <3>2. week = Weeks /\ week + 1 - 1 = Weeks
      BY <1>1, <2>4
    <3>3. phasesCompleted' = Weeks * Phases
      BY <1>1, <2>3, <3>2
    <3> QED
      BY <1>1, <2>1, <3>1, <3>3 DEF PlaceIsCounted
  <2>5. CASE ~(week >= Weeks)
    <3>1. week' = week + 1 /\ phase' = 1
      BY <1>5, <2>5 DEF WeekEnds
    <3>2. Phases * (week + 1 - 1) \in Nat
      BY <1>1
    <3>3. phasesCompleted' = Phases * (week' - 1) + (phase' - 1)
      <4> DEFINE weeks == Phases * (week + 1 - 1)
      <4>1. weeks + (1 - 1) = weeks
        <5>1. weeks \in Nat
          BY <3>2
        <5> HIDE DEF weeks
        <5> QED BY <5>1
      <4>2. phasesCompleted' = weeks + (1 - 1)
        BY <2>3, <4>1
      <4> QED
        BY <1>1, <3>1, <4>2
    <3> QED
      BY <1>1, <2>1, <2>5, <3>1, <3>3 DEF PlaceIsCounted
  <2> QED
    BY <2>4, <2>5
<1> QED
  BY <1>3, <1>4, <1>5 DEF NextPhase

LEMMA ProgramKeeps ==
  ASSUME ProgramInv, ProgramStep
  PROVE  ProgramInv'
<1> USE DEF ProgramInv, PhasesCounted
<1>1. CASE StartProgram
  <2>1. /\ week' = 1 /\ phase' = 1 /\ phasesCompleted' = 0 /\ missed' = missed
    BY <1>1 DEF StartProgram
  <2>2. excused' = TRUE
    BY <1>1 DEF StartProgram
  <2>3. Phases * (1 - 1) + (1 - 1) = 0
    BY GardnerAssumption
  <2>4. PlaceIsCounted'
    BY <2>1, <2>3 DEF PlaceIsCounted
  <2>5. MissedPauses'
    BY <2>2 DEF MissedPauses
  <2> QED
    BY <2>1, <2>4, <2>5, GardnerAssumption
<1>2. CASE AdvanceProgram
  <2>1. NextPhase /\ UNCHANGED <<paused, missed, excused>>
    BY <1>2 DEF AdvanceProgram
  <2>2. MissedPauses'
    BY <2>1 DEF MissedPauses
  <2> QED
    BY <2>1, <2>2, AdvanceCounts
<1>3. CASE PauseProgram \/ ResumeProgram
  <2>1. UNCHANGED <<week, phase, phasesCompleted, missed>>
    BY <1>3 DEF PauseProgram, ResumeProgram
  <2>2. PlaceIsCounted'
    BY <2>1 DEF PlaceIsCounted
  <2>3. MissedPauses'
    BY <1>3, <2>1 DEF MissedPauses, PauseProgram, ResumeProgram
  <2> QED
    BY <2>1, <2>2, <2>3
<1>4. CASE RecordMissedMilestone
  <2>1. missed' = missed + 1 /\ UNCHANGED <<week, phase, phasesCompleted>>
    BY <1>4 DEF RecordMissedMilestone
  <2>2. PlaceIsCounted'
    BY <2>1 DEF PlaceIsCounted
  <2>3. MissedPauses'
    BY <1>4 DEF MissedPauses, RecordMissedMilestone
  <2>4. missed' \in Nat
    BY <2>1
  <2> QED
    BY <2>1, <2>2, <2>3, <2>4
<1>5. CASE ResetMissedMilestones
  <2>1. missed' = 0 /\ UNCHANGED <<week, phase, paused, phasesCompleted, excused>>
    BY <1>5 DEF ResetMissedMilestones
  <2>2. PlaceIsCounted' /\ MissedPauses'
    BY <2>1 DEF PlaceIsCounted, MissedPauses
  <2> QED
    BY <2>1, <2>2
<1> QED
  BY <1>1, <1>2, <1>3, <1>4, <1>5 DEF ProgramStep

-----------------------------------------------------------------------------
(* The stage of the journey *)

JourneyRow == [stage : JourneyStages, discoveries : Nat, families : Nat,
        forced : JourneyStages \cup {"none"}]

JourneyInv ==
  /\ ledger \in [discoveries : Nat, families : Nat]
  /\ journey \in JourneyRow
  /\ JourneyKept

\* A stage that is computed is the one there was, or mapping when enough was discovered
\* and no parent keeps the child where it is.
LEMMA ComputedStage ==
  ASSUME JourneyInv, NEW j \in JourneyRow
  PROVE  /\ Computed(j) \in JourneyRow /\ Computed(j).forced = j.forced
         /\ \/ Computed(j).stage = j.stage
            \/ /\ Computed(j).stage = "mapping_ready" /\ j.forced # "discovery_only"
               /\ j.stage = "discovery_only"
               /\ ledger.discoveries >= MinDiscoveries /\ ledger.families >= MinFamilies
<1> DEFINE counted == [j EXCEPT !.discoveries = ledger.discoveries, !.families = ledger.families]
<1>1. /\ counted \in JourneyRow /\ counted.stage = j.stage /\ counted.forced = j.forced
      /\ counted.discoveries = ledger.discoveries /\ counted.families = ledger.families
  BY DEF JourneyInv, JourneyRow
<1>2. Computed(j) = IF /\ j.stage = "discovery_only" /\ j.forced # "discovery_only"
                       /\ Enough(counted)
                    THEN [counted EXCEPT !.stage = "mapping_ready"] ELSE counted
  BY DEF Computed
<1>3. Enough(counted) => ledger.discoveries >= MinDiscoveries /\ ledger.families >= MinFamilies
  BY <1>1 DEF Enough
<1> HIDE DEF counted
<1>4. LET m == [counted EXCEPT !.stage = "mapping_ready"]
      IN  m \in JourneyRow /\ m.stage = "mapping_ready" /\ m.forced = j.forced
  BY <1>1 DEF JourneyRow, JourneyStages
<1> QED
  BY <1>1, <1>2, <1>3, <1>4

LEMMA JourneyStarts == JourneyInit => JourneyInv
BY DEF JourneyInit, JourneyInv, JourneyKept, JourneyRow, JourneyStages

LEMMA JourneyKeeps ==
  ASSUME JourneyInv, JourneyStep
  PROVE  JourneyInv'
<1>1. /\ journey \in JourneyRow /\ (journey.forced # "none" => journey.stage = journey.forced)
      /\ journey.stage \in grounds
  BY DEF JourneyInv, JourneyKept
<1>2. /\ Computed(journey) \in JourneyRow /\ Computed(journey).forced = journey.forced
      /\ journey.forced # "none" => Computed(journey).stage = journey.stage
      /\ Computed(journey).stage \in Asked
  BY <1>1, ComputedStage DEF Asked
<1>3. CASE LedgerRewritten
  <2>1. ledger' \in [discoveries : Nat, families : Nat]
    BY <1>3, JourneyAssumption DEF LedgerRewritten, Ledgers
  <2> QED
    BY <1>3, <2>1 DEF LedgerRewritten, JourneyInv, JourneyKept
<1>4. CASE ReadOrCompute
  BY <1>1, <1>2, <1>4 DEF ReadOrCompute, JourneyInv, JourneyKept
<1>5. ASSUME NEW stage \in JourneyStages, ForceStage(stage) PROVE JourneyInv'
  <2>1. /\ journey' = [Computed(journey) EXCEPT !.stage = stage, !.forced = stage]
        /\ grounds' = {stage} /\ ledger' = ledger
    BY <1>5 DEF ForceStage
  <2>2. journey' \in JourneyRow /\ journey'.stage = stage /\ journey'.forced = stage
    BY <1>2, <2>1 DEF JourneyRow
  <2> QED
    BY <2>1, <2>2 DEF JourneyInv, JourneyKept
<1>6. CASE ClearOverride
  <2> DEFINE cleared == [Computed(journey) EXCEPT !.forced = "none"]
  <2>1. journey' = Computed(cleared) /\ grounds' = Asked /\ ledger' = ledger
    BY <1>6 DEF ClearOverride
  <2>2. cleared \in JourneyRow /\ cleared.forced = "none" /\ cleared.stage = Computed(journey).stage
    BY <1>2 DEF JourneyRow
  <2> HIDE DEF cleared
  <2>3. Computed(cleared) \in JourneyRow /\ Computed(cleared).forced = "none"
    BY <2>2, ComputedStage
  <2>4. Computed(cleared).stage \in Asked
    BY <1>2, <2>2, ComputedStage DEF Asked
  <2> QED
    BY <2>1, <2>3, <2>4 DEF JourneyInv, JourneyKept
<1> QED
  BY <1>3, <1>4, <1>5, <1>6 DEF JourneyStep

-----------------------------------------------------------------------------
(* The group of a trio *)

TurnsIn(q, who) == Cardinality({i \in 1..Len(q) : q[i] = who})

LEMMA TurnsAreNat ==
  ASSUME NEW q \in Seq(Nat), NEW who
  PROVE  TurnsIn(q, who) \in Nat /\ IsFiniteSet({i \in 1..Len(q) : q[i] = who})
<1>1. IsFiniteSet(1..Len(q))
  BY FS_Interval
<1>2. IsFiniteSet({i \in 1..Len(q) : q[i] = who})
  BY <1>1, FS_Subset
<1> QED
  BY <1>2, FS_CardinalityType DEF TurnsIn

\* A turn more in the window is at most one turn more of its speaker, and of no other.
LEMMA TurnMore ==
  ASSUME NEW q \in Seq(Nat), NEW W \in Nat \ {0}, Len(q) <= W, NEW x \in Nat, NEW who
  PROVE  LET next == IF Len(q) < W THEN Append(q, x) ELSE Append(Tail(q), x)
         IN  /\ next \in Seq(Nat) /\ Len(next) = IF Len(q) < W THEN Len(q) + 1 ELSE W
             /\ TurnsIn(next, who) \in Nat
             /\ TurnsIn(next, who) <= TurnsIn(q, who) + 1
             /\ x # who => TurnsIn(next, who) <= TurnsIn(q, who)
<1> DEFINE next == IF Len(q) < W THEN Append(q, x) ELSE Append(Tail(q), x)
           gone == IF Len(q) < W THEN 0 ELSE 1
           was == {i \in 1..Len(q) : q[i] = who}
           is == {i \in 1..Len(next) : next[i] = who}
           n == Len(next)
           place == [i \in is \ {n} |-> i + gone]
<1>1. /\ next \in Seq(Nat) /\ n = IF Len(q) < W THEN Len(q) + 1 ELSE W
      /\ n \in Nat /\ next[n] = x
      /\ \A i \in 1..(n - 1) : next[i] = q[i + gone] /\ i + gone \in 1..Len(q)
  <2>1. CASE Len(q) < W
    BY <2>1
  <2>2. CASE ~(Len(q) < W)
    <3>1. Len(q) = W /\ q # <<>>
      BY <2>2
    <3>2. /\ Tail(q) \in Seq(Nat) /\ Len(Tail(q)) = W - 1
          /\ \A i \in 1..(W - 1) : Tail(q)[i] = q[i + 1]
      BY <3>1
    <3> QED
      BY <2>2, <3>1, <3>2
  <2> QED
    BY <2>1, <2>2
<1>2. gone \in Nat
  OBVIOUS
<1> HIDE DEF next, gone
<1>3. place \in Injection(is \ {n}, was)
  <2>1. \A i \in is \ {n} : i \in 1..(n - 1) /\ next[i] = who
    BY <1>1
  <2>2. \A i \in is \ {n} : i + gone \in was
    BY <1>1, <1>2, <2>1
  <2>3. \A i, j \in is \ {n} : i + gone = j + gone => i = j
    BY <1>2, <2>1
  <2> HIDE DEF is, was
  <2> QED
    BY <2>2, <2>3 DEF Injection, IsInjective
<1>4. IsFiniteSet(was) /\ TurnsIn(q, who) = Cardinality(was) /\ Cardinality(was) \in Nat
  BY TurnsAreNat DEF TurnsIn
<1>5. IsFiniteSet(is) /\ TurnsIn(next, who) = Cardinality(is) /\ Cardinality(is) \in Nat
  BY <1>1, TurnsAreNat DEF TurnsIn
<1>6. n \in is => x = who
  BY <1>1
<1> HIDE DEF is, was, place, n
<1>7. Cardinality(is \ {n}) <= Cardinality(was)
  BY <1>3, <1>4, FS_Injection
<1>8. Cardinality(is \ {n}) = IF n \in is THEN Cardinality(is) - 1 ELSE Cardinality(is)
  BY <1>5, FS_RemoveElement
<1>9. Cardinality(is) <= Cardinality(was) + 1 /\ (x # who => Cardinality(is) <= Cardinality(was))
  BY <1>4, <1>5, <1>6, <1>7, <1>8
<1> QED
  BY <1>1, <1>4, <1>5, <1>9 DEF next, n

LEMMA TimesLeq ==
  ASSUME NEW a \in Int, NEW b \in Int, NEW k \in Nat, a <= b
  PROVE  a * k <= b * k
OBVIOUS

LEMMA TimesLess ==
  ASSUME NEW a \in Int, NEW b \in Int, NEW k \in Nat \ {0}, a < b
  PROVE  k * a < k * b
OBVIOUS

TrioTyped == recent \in Seq(Nat) /\ Len(recent) <= RateWindow

\* The bot that spoke was below its share of the turns before: of all but one, as long
\* as the window fills, and of a window when it is full.
ShareKept ==
  recent # <<>> =>
    IF Len(recent) < RateWindow
    THEN (TurnsOf(Bot) - 1) * CapDen <= CapNum * (Len(recent) - 1)
    ELSE (TurnsOf(Bot) - 1) * CapDen < CapNum * RateWindow

TrioInv == TrioTyped /\ ShareKept

\* Of children there is a first one.
LEMMA FirstIsOne ==
  ASSUME TrioTyped, NEW S \in SUBSET Children, S # {}
  PROVE  FirstOf(S) \in S
<1>1. Children \subseteq Nat /\ Tolerance \in [Children -> Nat]
  BY TrioAssumption
<1>2. \A c \in Children : TurnsOf(c) \in Nat
  BY TurnsAreNat DEF TrioTyped, TurnsOf, TurnsIn
<1> DEFINE fewest == {TurnsOf(c) : c \in S}
           quiet == {c \in S : TurnsOf(c) = Min(fewest)}
           least == {Tolerance[c] : c \in quiet}
           short == {c \in quiet : Tolerance[c] = Min(least)}
<1>3. fewest \in SUBSET Nat /\ fewest # {}
  BY <1>2
<1>4. Min(fewest) \in fewest /\ \A t \in fewest : Min(fewest) <= t
  BY <1>3, LeastOf
<1>5. quiet # {} /\ \A c \in S : Min(fewest) <= TurnsOf(c)
  BY <1>4
<1>6. Min(fewest) \in Nat
  BY <1>3, <1>4
<1>7. quiet \subseteq S
  OBVIOUS
<1>8. \A c \in quiet : TurnsOf(c) = Min(fewest)
  OBVIOUS
<1>a. \A c \in S \ quiet : Min(fewest) < TurnsOf(c)
  BY <1>2, <1>5, <1>6
<1> HIDE DEF fewest, quiet
<1>9. least \in SUBSET Nat /\ least # {}
  BY <1>1, <1>5, <1>7
<1>10. Min(least) \in least /\ \A t \in least : Min(least) <= t
  BY <1>9, LeastOf
<1>11. short # {} /\ short \subseteq quiet /\ \A c \in quiet : Min(least) <= Tolerance[c]
  BY <1>10
<1>b. Min(least) \in Nat /\ \A c \in short : Tolerance[c] = Min(least)
  BY <1>9, <1>10
<1>c. \A c \in quiet \ short : Min(least) < Tolerance[c]
  BY <1>1, <1>7, <1>11, <1>b
<1> HIDE DEF least, short
<1>12. short \in SUBSET Nat
  BY <1>1, <1>7, <1>11
<1>13. Min(short) \in short /\ \A c \in short : Min(short) <= c
  BY <1>11, <1>12, LeastOf
<1>14. \A b \in S : Before(Min(short), b)
  <2> SUFFICES ASSUME NEW b \in S PROVE Before(Min(short), b)
    OBVIOUS
  <2>1. TurnsOf(Min(short)) = Min(fewest) /\ Tolerance[Min(short)] = Min(least)
    BY <1>8, <1>11, <1>13, <1>b
  <2>2. CASE b \notin quiet
    BY <1>a, <2>1, <2>2 DEF Before
  <2>3. CASE b \in quiet \ short
    BY <1>8, <1>c, <2>1, <2>3 DEF Before
  <2>4. CASE b \in short
    BY <1>8, <1>11, <1>13, <1>b, <2>1, <2>4 DEF Before
  <2> QED
    BY <2>2, <2>3, <2>4
<1>15. \E a \in S : \A b \in S : Before(a, b)
  BY <1>7, <1>11, <1>13, <1>14
<1> QED
  BY <1>15 DEF FirstOf

LEMMA NextIsChild ==
  ASSUME TrioTyped, NEW E \in SUBSET Children, E # {}
  PROVE  PickNextChild(E) \in Children
<1> DEFINE absent == {c \in E : IsAbsent(c)}
           others == E \ {Latest}
<1>1. absent \subseteq E /\ others \subseteq E
  OBVIOUS
<1>2. FirstOf(E) \in Children
  BY FirstIsOne
<1>3. absent # {} => FirstOf(absent) \in Children
  BY <1>1, FirstIsOne
<1>4. others # {} => FirstOf(others) \in Children
  BY <1>1, FirstIsOne
<1> HIDE DEF absent, others
<1>5. PickNextChild(E) \in {FirstOf(E)} \cup {FirstOf(c) : c \in {absent, others} \ {{}}}
  BY DEF PickNextChild, absent, others
<1> QED
  BY <1>2, <1>3, <1>4, <1>5

LEMMA SpokenShare ==
  ASSUME CapNum # 0, TrioInv, NEW who \in Children \cup {Bot}, Spoken(who), who = Bot => BotSpeaks,
         who # Bot => recent # <<>>
  PROVE  TrioInv'
<1> DEFINE n == Len(recent)
           t == TurnsOf(Bot)
<1>1. /\ RateWindow \in Nat \ {0} /\ CapNum \in Nat \ {0} /\ CapDen \in Nat \ {0}
      /\ Children \subseteq Nat \ {Bot} /\ Bot = 0
  BY TrioAssumption DEF Bot
<1>2. recent \in Seq(Nat) /\ n \in Nat /\ n <= RateWindow /\ who \in Nat
  BY <1>1 DEF TrioInv, TrioTyped
<1>3. /\ recent' \in Seq(Nat) /\ Len(recent') = IF n < RateWindow THEN n + 1 ELSE RateWindow
      /\ TurnsIn(recent', Bot) \in Nat
      /\ TurnsIn(recent', Bot) <= TurnsIn(recent, Bot) + 1
      /\ who # Bot => TurnsIn(recent', Bot) <= TurnsIn(recent, Bot)
  BY <1>1, <1>2, TurnMore DEF Spoken
<1>4. t = TurnsIn(recent, Bot) /\ t' = TurnsIn(recent', Bot) /\ t \in Nat
  BY <1>2, TurnsAreNat DEF TurnsOf, TurnsIn
<1> HIDE DEF t
<1>5. t' \in Nat /\ t' <= t + 1 /\ (who # Bot => t' <= t)
  BY <1>3, <1>4
<1>6. TrioTyped'
  BY <1>1, <1>2, <1>3 DEF TrioTyped
<1>7. Len(recent') - 1 = IF n < RateWindow THEN n ELSE RateWindow - 1
  BY <1>1, <1>2, <1>3
<1> DEFINE share == (t' - 1) * CapDen
           cap == CapNum * n
<1>8. /\ share \in Int /\ cap \in Nat /\ CapNum * RateWindow \in Nat
      /\ n < RateWindow => cap < CapNum * RateWindow
      /\ n = RateWindow => cap = CapNum * RateWindow
  <2>1. share \in Int
    BY <1>1, <1>5
  <2>2. cap \in Nat /\ CapNum * RateWindow \in Nat
    BY <1>1, <1>2
  <2>3. ASSUME n < RateWindow PROVE cap < CapNum * RateWindow
    BY <1>1, <1>2, <2>3, TimesLess
  <2> QED
    BY <2>1, <2>2, <2>3
<1>9. /\ n < RateWindow => share <= cap
      /\ n = RateWindow => share < cap
  <2>1. CASE who = Bot /\ recent = <<>>
    <3>1. t = 0 /\ n = 0
      <4>1. {i \in 1..Len(recent) : recent[i] = Bot} = {} /\ n = 0
        BY <2>1
      <4> QED
        BY <4>1, <1>4, FS_EmptySet DEF TurnsIn
    <3>2. t' - 1 <= 0 /\ t' - 1 \in Int
      <4>1. t' <= 0 + 1
        BY <1>5, <3>1
      <4> QED
        BY <1>4, <1>5, <4>1
    <3>3. share <= 0 * CapDen
      BY <1>1, <3>2, TimesLeq
    <3> QED
      BY <1>1, <1>8, <3>1, <3>3
  <2>2. CASE who = Bot /\ recent # <<>>
    <3>1. t * CapDen < cap
      BY <2>2 DEF BotSpeaks, t
    <3>2. t' - 1 <= t /\ t' - 1 \in Int
      BY <1>4, <1>5
    <3>3. share <= t * CapDen
      BY <1>1, <1>4, <3>2, TimesLeq
    <3>4. t * CapDen \in Nat
      BY <1>1, <1>4
    <3> HIDE DEF share, cap
    <3> QED
      BY <1>8, <3>1, <3>3, <3>4
  <2>3. CASE who # Bot
    <3>1. t' - 1 <= t - 1 /\ t' - 1 \in Int /\ t - 1 \in Int
      BY <1>4, <1>5, <2>3
    <3>2. share <= (t - 1) * CapDen
      BY <1>1, <3>1, TimesLeq
    <3>3. IF n < RateWindow THEN (t - 1) * CapDen <= CapNum * (n - 1)
                            ELSE (t - 1) * CapDen < CapNum * RateWindow
      BY <2>3 DEF TrioInv, ShareKept, t
    <3>4. CapNum * (n - 1) <= cap /\ CapNum * (n - 1) \in Int
      BY <1>1, <1>2, TimesLess
    <3>5. (t - 1) * CapDen \in Int
      BY <1>1, <3>1
    <3> HIDE DEF share, cap
    <3> QED
      BY <1>1, <1>2, <1>8, <3>2, <3>3, <3>4, <3>5
  <2> QED
    BY <2>1, <2>2, <2>3
<1>10. IF Len(recent') < RateWindow
       THEN share <= CapNum * (Len(recent') - 1) ELSE share < CapNum * RateWindow
  <2>1. CASE n + 1 < RateWindow
    <3>1. Len(recent') < RateWindow /\ Len(recent') - 1 = n /\ share <= cap
      BY <1>1, <1>2, <1>3, <1>7, <1>9, <2>1
    <3> QED
      BY <3>1
  <2>2. CASE ~(n + 1 < RateWindow)
    <3>1. ~(Len(recent') < RateWindow)
      BY <1>1, <1>2, <1>3, <2>2
    <3> HIDE DEF share, cap
    <3>2. share < CapNum * RateWindow
      BY <1>1, <1>2, <1>8, <1>9
    <3> QED
      BY <3>1, <3>2
  <2> QED
    BY <2>1, <2>2
<1>11. ShareKept'
  BY <1>10 DEF ShareKept, t
<1> QED
  BY <1>6, <1>11 DEF TrioInv

LEMMA TrioStarts == TrioInit => TrioInv
<1> SUFFICES ASSUME TrioInit PROVE TrioInv
  OBVIOUS
<1>1. recent = <<>>
  BY DEF TrioInit
<1>2. <<>> \in Seq(Nat) /\ Len(<<>>) = 0
  OBVIOUS
<1> QED
  BY <1>1, <1>2, TrioAssumption DEF TrioInv, TrioTyped, ShareKept

LEMMA TrioKeeps ==
  ASSUME CapNum # 0, TrioInv, TrioStep
  PROVE  TrioInv'
<1>1. Bot \notin Children
  BY TrioAssumption
<1>2. CASE BotTurn
  BY <1>2, SpokenShare DEF BotTurn
<1>3. CASE ChildTurn
  <2>1. ~BotSpeaks
    BY <1>3 DEF ChildTurn
  <2>2. PICK s \in BrejoSignals : Spoken(PickNextChild(Children \ s.sensory))
    BY <1>3 DEF ChildTurn
  <2>3. Children \ s.sensory # {}
    BY <2>2, TrioAssumption DEF BrejoSignals, PauseFull
  <2>4. PickNextChild(Children \ s.sensory) \in Children
    BY <2>3, NextIsChild DEF TrioInv
  <2>5. recent # <<>>
    BY <2>1 DEF BotSpeaks
  <2> QED
    BY <1>1, <2>2, <2>4, <2>5, SpokenShare
<1>4. ASSUME NEW c \in Children, Interjection(c) PROVE TrioInv'
  BY <1>1, <1>4, SpokenShare DEF Interjection
<1> QED
  BY <1>2, <1>3, <1>4 DEF TrioStep

LEMMA TrioShare == TrioInv => BotShare
BY TrioAssumption DEF TrioInv, TrioTyped, ShareKept, BotShare

-----------------------------------------------------------------------------
(* The closed loop of the transitions *)

LoopEvent == [type : {"signals"}, signals : Messages \ {{}}]
               \cup [type : {"evaluated"}, fired : BOOLEAN]
               \cup [type : {"executed", "other"}]

Fired == {f \in Seq(BOOLEAN) : Len(f) \in {0, 4}}

LoopTurn == [at : {"idle", "extract", "refresh", "plan", "crisis", "evaluation", "apply",
                   "emit", "execute"},
             seen : Seq(LoopEvent), focus : 1 .. Len(FocusOrder), shown : Messages \cup {{}},
             fired : Fired, next : 1 .. 4]

\* A turn that evaluates has an answer to each rule.
LoopTyped ==
  /\ events \in Seq(LoopEvent) /\ Len(events) <= LogLimit
  /\ matrix \in [FocusDims -> Status]
  /\ loop \in [LoopTurns -> LoopTurn]
  /\ crises \in Nat /\ faults \in 0 .. MaxLoopFaults
  /\ \A t \in LoopTurns : loop[t].at \in {"evaluation", "apply"} => Len(loop[t].fired) = 4

LEMMA RulesAre == Len(Rules) = 4 /\ \A i \in 1 .. 4 : Rules[i].target \in Status
BY DEF Rules, Status

LEMMA LoopTypes == LoopTyped => LoopTypeOK
<1> SUFFICES ASSUME LoopTyped PROVE LoopTypeOK
  OBVIOUS
<1>1. ASSUME NEW t \in LoopTurns
      PROVE  /\ loop[t].at \in {"idle", "extract", "refresh", "plan", "crisis", "evaluation",
                          "apply", "emit", "execute"}
             /\ loop[t].focus \in DOMAIN FocusOrder
             /\ loop[t].fired \in UNION {[1..n -> BOOLEAN] : n \in {0, Len(Rules)}}
             /\ loop[t].next \in DOMAIN Rules
  <2>1. loop[t] \in LoopTurn
    BY DEF LoopTyped
  <2>2. DOMAIN FocusOrder = 1 .. Len(FocusOrder)
    BY LoopAssumption
  <2>3. DOMAIN Rules = 1 .. 4
    BY DEF Rules
  <2>4. loop[t].fired \in Seq(BOOLEAN) /\ Len(loop[t].fired) \in {0, 4}
    BY <2>1 DEF LoopTurn, Fired
  <2> DEFINE n == Len(loop[t].fired)
  <2>5. loop[t].fired \in [1 .. n -> BOOLEAN]
    BY <2>4
  <2>6. loop[t].fired \in UNION {[1..m -> BOOLEAN] : m \in {0, Len(Rules)}}
    BY <2>4, <2>5, RulesAre
  <2> QED
    BY <2>1, <2>2, <2>3, <2>6 DEF LoopTurn
<1> QED
  BY <1>1 DEF LoopTyped, LoopTypeOK

\* The lowest status is that of some dimension, and there is a first one.
LEMMA FocusIsThere ==
  ASSUME NEW m \in [FocusDims -> Status]
  PROVE  Focus(m) \in 1 .. Len(FocusOrder)
<1>1. \A i \in 1 .. Len(FocusOrder) : FocusOrder[i] \in FocusDims
  BY LoopAssumption
<1>2. 1 \in 1 .. Len(FocusOrder) /\ Len(FocusOrder) \in Nat
  BY LoopAssumption
<1>3. m[FocusOrder[1]] \in Status /\ m[FocusOrder[1]] \in Range(m)
  BY <1>1, <1>2 DEF Range
<1>4. \E z \in Status : /\ z \in Range(m)
                        /\ z # "brejo" => "brejo" \notin Range(m)
                        /\ z = "pasto" => "baia" \notin Range(m)
  BY <1>3 DEF Status
<1>5. Lowest(m) \in Range(m)
  BY <1>4 DEF Lowest
<1>6. PICK d \in FocusDims : m[d] = Lowest(m)
  BY <1>5 DEF Range
<1>7. PICK i \in 1 .. Len(FocusOrder) : FocusOrder[i] = d
  BY LoopAssumption DEF FocusDims, Range
<1> DEFINE places == {j \in 1 .. Len(FocusOrder) : m[FocusOrder[j]] = Lowest(m)}
<1>8. places # {} /\ places \in SUBSET Nat /\ places \subseteq 1 .. Len(FocusOrder)
  BY <1>6, <1>7
<1>9. Focus(m) = Min(places)
  BY <1>8 DEF Focus, SelectInSeq
<1> HIDE DEF places
<1> QED
  BY <1>8, <1>9, LeastOf

LEMMA FiresIs == ASSUME NEW rule, NEW seen PROVE Fires(rule, seen) \in BOOLEAN
BY DEF Fires

\* The events a turn logs.
LEMMA EventsAre ==
  /\ \A s \in Messages \ {{}} : Signals(s) \in LoopEvent /\ Signals(s).type = "signals"
                                /\ Signals(s).signals = s
  /\ \A f \in BOOLEAN : Evaluated(f) \in LoopEvent /\ Evaluated(f).type # "signals"
  /\ Executed \in LoopEvent /\ Executed.type # "signals"
  /\ OtherEvent \in LoopEvent /\ OtherEvent.type # "signals"
  /\ \A e \in LoopEvent : e.type = "signals" => e.signals \in Messages \ {{}}
BY DEF LoopEvent, Signals, Evaluated, Executed, OtherEvent

LEMMA RestIs == Rest \in LoopTurn /\ Rest.at = "idle" /\ Rest.shown = {} /\ Rest.fired = <<>>
<1>1. Len(FocusOrder) \in Nat /\ Len(FocusOrder) # 0
  BY LoopAssumption
<1>2. <<>> \in Seq(LoopEvent) /\ <<>> \in Seq(BOOLEAN) /\ Len(<<>>) = 0
  OBVIOUS
<1> QED
  BY <1>1, <1>2 DEF Rest, LoopTurn, Fired

\* How many of the newest n events of a log are signals.
SignalsOf(seen, n) == {i \in 1 .. n : seen[i].type = "signals"}

LEMMA SignalsFinite ==
  ASSUME NEW seen, NEW n \in Nat
  PROVE  /\ IsFiniteSet(SignalsOf(seen, n)) /\ Cardinality(SignalsOf(seen, n)) \in Nat
         /\ Cardinality(SignalsOf(seen, n)) <= n
<1>1. IsFiniteSet(1 .. n) /\ Cardinality(1 .. n) = n
  BY FS_Interval
<1>2. SignalsOf(seen, n) \in SUBSET (1 .. n)
  BY DEF SignalsOf
<1> QED
  BY <1>1, <1>2, FS_Subset, FS_CardinalityType

LEMMA PushedNew ==
  ASSUME NEW old \in Seq(LoopEvent), NEW new \in Seq(LoopEvent)
  PROVE  LET p == Pushed(old, new, LogLimit)
         IN  /\ p \in Seq(LoopEvent) /\ Len(p) <= LogLimit /\ Len(p) <= Len(new) + Len(old)
             /\ \A i \in 1 .. Len(p) :
                  p[i] = IF i <= Len(new) THEN new[i] ELSE old[i - Len(new)]
<1>1. LogLimit \in Nat
  BY LoopAssumption
<1> QED
  BY <1>1, PushedEvents

LEMMA PushedOne ==
  ASSUME NEW old \in Seq(LoopEvent), NEW e \in LoopEvent
  PROVE  LET p == Pushed(old, <<e>>, LogLimit)
         IN  /\ p \in Seq(LoopEvent) /\ Len(p) <= LogLimit
             /\ Len(p) \in Nat /\ Len(p) <= 1 + Len(old) /\ Len(old) \in Nat
             /\ \A i \in 1 .. Len(p) : p[i] = IF i <= 1 THEN e ELSE old[i - 1]
<1> DEFINE new == <<e>>
           p == Pushed(old, new, LogLimit)
<1>1. new \in Seq(LoopEvent) /\ Len(new) = 1 /\ new[1] = e
  OBVIOUS
<1> HIDE DEF new
<1>3. /\ p \in Seq(LoopEvent) /\ Len(p) <= LogLimit /\ Len(p) <= Len(new) + Len(old)
      /\ \A i \in 1 .. Len(p) : p[i] = IF i <= Len(new) THEN new[i] ELSE old[i - Len(new)]
  BY <1>1, PushedNew
<1> HIDE DEF p
<1>4. \A i \in 1 .. Len(p) : i <= 1 => i = 1
  OBVIOUS
<1>5. \A i \in 1 .. Len(p) : p[i] = IF i <= 1 THEN e ELSE old[i - 1]
  BY <1>1, <1>3, <1>4
<1> QED
  BY <1>1, <1>3, <1>5 DEF p, new

LEMMA PushedSome ==
  ASSUME NEW old \in Seq(LoopEvent), NEW e \in LoopEvent
  PROVE  Len(Pushed(old, <<e>>, LogLimit)) # 0
<1> DEFINE all == <<e>> \o old
           n == IF Len(all) < LogLimit THEN Len(all) ELSE LogLimit
<1>1. all \in Seq(LoopEvent) /\ Len(all) = 1 + Len(old) /\ Len(old) \in Nat
  OBVIOUS
<1> HIDE DEF all
<1>2. n \in 1 .. Len(all)
  BY <1>1, LoopAssumption
<1> HIDE DEF n
<1>3. Len(SubSeq(all, 1, n)) = n
  BY <1>1, <1>2
<1> QED
  BY <1>2, <1>3 DEF Pushed, all, n

\* An event that is logged pushes the others one place down.
LEMMA SignalsShift ==
  ASSUME NEW old \in Seq(LoopEvent), NEW e \in LoopEvent,
         NEW n \in 1 .. Len(Pushed(old, <<e>>, LogLimit))
  PROVE  /\ n - 1 \in 0 .. Len(old)
         /\ Cardinality(SignalsOf(Pushed(old, <<e>>, LogLimit), n))
              <= Cardinality(SignalsOf(old, n - 1)) + (IF e.type = "signals" THEN 1 ELSE 0)
<1> DEFINE p == Pushed(old, <<e>>, LogLimit)
           A == SignalsOf(old, n - 1)
           up == [i \in A |-> i + 1]
           B == {up[i] : i \in A}
           one == IF e.type = "signals" THEN {1} ELSE {}
           P == SignalsOf(p, n)
<1>1. <<e>> \in Seq(LoopEvent) /\ Len(<<e>>) = 1 /\ <<e>>[1] = e /\ LogLimit \in Nat
  BY LoopAssumption
<1>2. /\ Len(p) \in Nat /\ Len(p) <= 1 + Len(old) /\ Len(old) \in Nat
      /\ \A i \in 1 .. Len(p) : p[i] = IF i <= 1 THEN e ELSE old[i - 1]
  BY PushedOne
<1> HIDE DEF p
<1>3. n \in Nat /\ n - 1 \in 0 .. Len(old) /\ n - 1 \in Nat /\ n \in 1 .. Len(p)
  BY <1>2 DEF p
<1>4. P \subseteq one \cup B
  <2> SUFFICES ASSUME NEW i \in P, i \notin one PROVE i \in B
    OBVIOUS
  <2>1. i \in 1 .. n /\ p[i].type = "signals" /\ i \in 1 .. Len(p)
    BY <1>3 DEF SignalsOf
  <2>2. i # 1
    BY <1>2, <2>1
  <2>3. i - 1 \in 1 .. (n - 1) /\ old[i - 1].type = "signals"
    BY <1>2, <1>3, <2>1, <2>2
  <2>4. i - 1 \in A /\ (i - 1) + 1 = i
    BY <2>1, <2>3 DEF SignalsOf
  <2> QED
    BY <2>4
<1>5. IsFiniteSet(A) /\ Cardinality(A) \in Nat
  BY <1>3, SignalsFinite
<1>6. IsFiniteSet(B) /\ Cardinality(B) <= Cardinality(A) /\ Cardinality(B) \in Nat
  <2> HIDE DEF A
  <2>1. IsFiniteSet(B) /\ Cardinality(B) <= Cardinality(A)
    <3>1. up \in Surjection(A, B)
      BY DEF Surjection
    <3> HIDE DEF up, B
    <3> QED
      BY <1>5, <3>1, FS_Surjection
  <2> QED
    BY <2>1, FS_CardinalityType
<1>7. IsFiniteSet(one) /\ Cardinality(one) = IF e.type = "signals" THEN 1 ELSE 0
  BY FS_Singleton, FS_EmptySet
<1> HIDE DEF one, A, B, P
<1>8. IsFiniteSet(one \cup B) /\ Cardinality(one \cup B) <= Cardinality(one) + Cardinality(B)
  <2>1. /\ IsFiniteSet(one \cup B) /\ IsFiniteSet(one \cap B)
        /\ Cardinality(one \cup B) = Cardinality(one) + Cardinality(B) - Cardinality(one \cap B)
    BY <1>6, <1>7, FS_Union, FS_Intersection
  <2>2. Cardinality(one \cap B) \in Nat /\ Cardinality(one) \in Nat
    BY <1>7, <2>1, FS_CardinalityType
  <2> QED
    BY <1>6, <2>1, <2>2
<1>9. Cardinality(P) <= Cardinality(one \cup B) /\ Cardinality(P) \in Nat
  <2>1. IsFiniteSet(P) /\ Cardinality(P) <= Cardinality(one \cup B)
    BY <1>4, <1>8, FS_Subset
  <2> QED
    BY <2>1, FS_CardinalityType
<1>10. Cardinality(one \cup B) \in Nat
  BY <1>8, FS_CardinalityType
<1>11. Cardinality(P) <= Cardinality(A) + Cardinality(one) /\ Cardinality(one) \in {0, 1}
  <2>1. Cardinality(one) \in {0, 1}
    BY <1>7
  <2> QED
    BY <1>5, <1>6, <1>8, <1>9, <1>10, <2>1
<1> QED
  BY <1>3, <1>7, <1>11 DEF A, P, p

\* With at most LookBack signals in what is read, the newest are among them.
LEMMA NewestIsSeen ==
  ASSUME NEW seen \in Seq(LoopEvent), NEW s \in Messages \ {{}}, seen # <<>>,
         seen[1] = Signals(s), Cardinality(SignalsOf(seen, Len(seen))) <= 5
  PROVE  s \subseteq Recent(seen)
<1> DEFINE P == SignalPlaces(seen)
           L == {k \in P : k > 1}
<1>1. Len(seen) \in Nat /\ 1 \in 1 .. Len(seen)
  OBVIOUS
<1>2. P = SignalsOf(seen, Len(seen))
  BY DEF SignalPlaces, SignalsOf
<1>3. IsFiniteSet(P) /\ Cardinality(P) \in Nat /\ Cardinality(P) <= 5
  BY <1>1, <1>2, SignalsFinite
<1>4. seen[1].type = "signals" /\ seen[1].signals = s
  BY EventsAre
<1>5. 1 \in P /\ L \in SUBSET P /\ 1 \notin L
  BY <1>1, <1>4 DEF SignalPlaces
<1> HIDE DEF P, L
<1>6. Cardinality(L) < 5
  <2>1. IsFiniteSet(L) /\ Cardinality(L) <= Cardinality(P) /\ Cardinality(L) # Cardinality(P)
    BY <1>3, <1>5, FS_Subset
  <2>2. Cardinality(L) \in Nat
    BY <2>1, FS_CardinalityType
  <2> QED
    BY <1>3, <2>1, <2>2
<1>7. 1 \in LastPlaces(seen)
  <2>1. L = {k \in SignalPlaces(seen) : k > 1} /\ 1 \in SignalPlaces(seen)
    BY <1>5 DEF P, L
  <2>2. Cardinality({k \in SignalPlaces(seen) : k > 1}) < LookBack
    BY <1>6, <2>1 DEF LookBack
  <2> QED
    BY <2>1, <2>2 DEF LastPlaces
<1> QED
  BY <1>4, <1>7 DEF Recent

\* Where nothing is read, there are no signals.
LEMMA NothingToSee ==
  ASSUME NEW seen \in Seq(LoopEvent), Recent(seen) = {}
  PROVE  \A i \in 1 .. Len(seen) : seen[i].type # "signals"
<1> SUFFICES ASSUME NEW j \in 1 .. Len(seen), seen[j].type = "signals" PROVE FALSE
  OBVIOUS
<1> DEFINE n == Len(seen)
           P == SignalPlaces(seen)
           back == {n - i : i \in P}
<1>1. n \in Nat /\ P \subseteq 1 .. n /\ j \in P
  BY DEF SignalPlaces
<1> HIDE DEF P, n
<1>2. back \in SUBSET Nat /\ back # {}
  BY <1>1
<1>3. Min(back) \in back /\ \A x \in back : Min(back) <= x
  <2> HIDE DEF back
  <2> QED BY <1>2, LeastOf
<1>4. PICK i \in P : n - i = Min(back)
  BY <1>3
<1>5. \A k \in P : ~(k > i)
  <2> SUFFICES ASSUME NEW k \in P, k > i PROVE FALSE
    OBVIOUS
  <2>1. n - k \in back
    OBVIOUS
  <2>2. n - i <= n - k
    BY <1>3, <1>4, <2>1
  <2> QED BY <1>1, <2>2
<1>6. {k \in P : k > i} = {}
  BY <1>5
<1>7. i \in LastPlaces(seen)
  <2>1. {k \in SignalPlaces(seen) : k > i} = {} /\ i \in SignalPlaces(seen)
    BY <1>4, <1>6 DEF P
  <2>2. Cardinality({}) = 0
    BY FS_EmptySet
  <2>3. Cardinality({k \in SignalPlaces(seen) : k > i}) = 0
    BY <2>1, <2>2
  <2> QED
    BY <2>1, <2>3 DEF LastPlaces, LookBack
<1>8. i \in 1 .. Len(seen) /\ seen[i].type = "signals" /\ seen[i] \in LoopEvent
  BY <1>1, <1>4 DEF P, SignalPlaces
<1>9. seen[i].signals # {}
  BY <1>8, EventsAre
<1> QED
  BY <1>7, <1>9 DEF Recent

LEMMA LoopTypesStart == LoopInit => LoopTyped
<1> SUFFICES ASSUME LoopInit PROVE LoopTyped
  OBVIOUS
<1>1. events \in Seq(LoopEvent) /\ Len(events) <= LogLimit
  BY LoopAssumption DEF LoopInit
<1>2. loop \in [LoopTurns -> LoopTurn] /\ \A t \in LoopTurns : loop[t].at = "idle"
  BY RestIs DEF LoopInit
<1>3. crises \in Nat /\ faults \in 0 .. MaxLoopFaults
  BY LoopAssumption DEF LoopInit
<1> QED
  BY <1>1, <1>2, <1>3 DEF LoopTyped, LoopInit

\* What a turn logs is an event, and the log stays short.
LEMMA LogIsTyped ==
  ASSUME LoopTyped, NEW e \in LoopEvent, Log(e)
  PROVE  events' \in Seq(LoopEvent) /\ Len(events') <= LogLimit
BY PushedOne DEF LoopTyped, Log

LEMMA ExecutedIsTyped ==
  ASSUME LoopTyped, events' = Pushed(events, <<OtherEvent, Executed>>, LogLimit)
  PROVE  events' \in Seq(LoopEvent) /\ Len(events') <= LogLimit
<1>1. <<OtherEvent, Executed>> \in Seq(LoopEvent)
  BY EventsAre
<1> QED
  BY <1>1, PushedNew DEF LoopTyped

LEMMA FaultsAreTyped ==
  ASSUME LoopTyped, Succeeds \/ Fails
  PROVE  faults' \in 0 .. MaxLoopFaults
BY LoopAssumption DEF LoopTyped, Succeeds, Fails

\* A turn that changes the fields it changes has its type.
LEMMA ReadTyped ==
  ASSUME LoopTyped, NEW t \in LoopTurns, ReadState(t)
  PROVE  LoopTyped'
<1>1. Focus(matrix) \in 1 .. Len(FocusOrder)
  BY FocusIsThere DEF LoopTyped
<1>2. loop[t] \in LoopTurn /\ events \in Seq(LoopEvent)
  BY DEF LoopTyped
<1>3. loop' \in [LoopTurns -> LoopTurn]
  BY <1>1, <1>2 DEF LoopTyped, ReadState, LoopTurn
<1>4. \A u \in LoopTurns : /\ loop'[u].at \in {"evaluation", "apply"} => loop'[u] = loop[u]
  BY DEF LoopTyped, ReadState
<1> QED
  BY <1>3, <1>4 DEF LoopTyped, ReadState

LEMMA ExtractTyped ==
  ASSUME LoopTyped, NEW t \in LoopTurns, Extract(t)
  PROVE  LoopTyped'
<1>1. loop[t] \in LoopTurn
  BY DEF LoopTyped
<1>2. events' \in Seq(LoopEvent) /\ Len(events') <= LogLimit /\ faults' \in 0 .. MaxLoopFaults
  <2>1. CASE \E s \in Messages \ {{}} : Log(Signals(s))
    BY <2>1, EventsAre, LogIsTyped, FaultsAreTyped DEF Extract
  <2>2. CASE UNCHANGED events
    BY <2>2, FaultsAreTyped DEF Extract, LoopTyped
  <2> QED
    BY <2>1, <2>2 DEF Extract
<1>3. /\ loop' \in [LoopTurns -> LoopTurn]
      /\ \A u \in LoopTurns : loop'[u].at \in {"evaluation", "apply"} => loop'[u] = loop[u]
  <2>1. ASSUME NEW s \in Messages, loop' = [loop EXCEPT ![t].at = "refresh", ![t].shown = s]
        PROVE  /\ loop' \in [LoopTurns -> LoopTurn]
               /\ \A u \in LoopTurns :
                    loop'[u].at \in {"evaluation", "apply"} => loop'[u] = loop[u]
    BY <1>1, <2>1 DEF LoopTyped, LoopTurn
  <2>2. CASE loop' = [loop EXCEPT ![t].at = "plan"]
    BY <1>1, <2>2 DEF LoopTyped, LoopTurn
  <2> QED
    BY <2>1, <2>2 DEF Extract
<1> QED
  BY <1>2, <1>3 DEF LoopTyped, Extract

LEMMA RefreshTyped ==
  ASSUME LoopTyped, NEW t \in LoopTurns, RefreshEvents(t)
  PROVE  LoopTyped'
<1>1. loop[t] \in LoopTurn /\ events \in Seq(LoopEvent)
  BY DEF LoopTyped
<1>2. faults' \in 0 .. MaxLoopFaults
  BY FaultsAreTyped DEF RefreshEvents
<1>3. /\ loop' \in [LoopTurns -> LoopTurn]
      /\ \A u \in LoopTurns : loop'[u].at \in {"evaluation", "apply"} => loop'[u] = loop[u]
  <2>1. CASE loop' = [loop EXCEPT ![t].at = "plan", ![t].seen = events]
    BY <1>1, <2>1 DEF LoopTyped, LoopTurn
  <2>2. CASE loop' = [loop EXCEPT ![t].at = "plan", ![t].shown = {}]
    BY <1>1, <2>2 DEF LoopTyped, LoopTurn
  <2> QED
    BY <2>1, <2>2 DEF RefreshEvents
<1> QED
  BY <1>2, <1>3 DEF LoopTyped, RefreshEvents

\* What plan_turn answers: an evaluation of each rule if there is a signal.
LEMMA PlanIs ==
  ASSUME LoopTyped, NEW t \in LoopTurns, PlanTurn(t)
  PROVE  LET seen == loop[t].seen
         IN  \E answers \in Seq(BOOLEAN) :
               /\ Len(answers) = IF Recent(seen) = {} THEN 0 ELSE 4
               /\ loop' = [loop EXCEPT
                    ![t].at = IF Recent(seen) \cap Critical # {} THEN "crisis"
                              ELSE IF Recent(seen) = {} THEN "emit" ELSE "evaluation",
                    ![t].seen = <<>>, ![t].fired = answers, ![t].next = 1]
<1> DEFINE seen == loop[t].seen
           n == IF Recent(seen) = {} THEN 0 ELSE Len(Rules)
           answers == [i \in 1 .. n |-> Fires(Rules[i], seen)]
<1>1. n \in Nat /\ n = IF Recent(seen) = {} THEN 0 ELSE 4
  BY RulesAre
<1>2. \A i \in 1 .. n : Fires(Rules[i], seen) \in BOOLEAN
  BY FiresIs
<1>3. loop' = [loop EXCEPT
           ![t].at = IF Recent(seen) \cap Critical # {} THEN "crisis"
                     ELSE IF answers = <<>> THEN "emit" ELSE "evaluation",
           ![t].seen = <<>>, ![t].fired = answers, ![t].next = 1]
  BY DEF PlanTurn
<1> HIDE DEF n, seen
<1>4. answers \in Seq(BOOLEAN) /\ Len(answers) = n
  BY <1>1, <1>2
<1>5. answers = <<>> <=> n = 0
  BY <1>1, <1>4
<1> HIDE DEF answers
<1>6. (IF answers = <<>> THEN "emit" ELSE "evaluation")
        = IF Recent(seen) = {} THEN "emit" ELSE "evaluation"
  BY <1>1, <1>5
<1>7. loop' = [loop EXCEPT
           ![t].at = IF Recent(seen) \cap Critical # {} THEN "crisis"
                     ELSE IF Recent(seen) = {} THEN "emit" ELSE "evaluation",
           ![t].seen = <<>>, ![t].fired = answers, ![t].next = 1]
  BY <1>3, <1>6
<1> QED
  BY <1>1, <1>4, <1>7 DEF seen

LEMMA PlannedRow ==
  ASSUME NEW row \in LoopTurn, NEW answers \in Fired, NEW seen \in Seq(LoopEvent),
         NEW place \in {"idle", "extract", "refresh", "plan", "crisis", "evaluation", "apply",
                    "emit", "execute"}, NEW next \in 1 .. 4
  PROVE  [row EXCEPT !.at = place, !.seen = seen, !.fired = answers, !.next = next] \in LoopTurn
BY DEF LoopTurn

LEMMA PlanTyped ==
  ASSUME LoopTyped, NEW t \in LoopTurns, PlanTurn(t)
  PROVE  LoopTyped'
<1> DEFINE seen == loop[t].seen
<1>1. loop[t] \in LoopTurn /\ <<>> \in Seq(LoopEvent)
  BY DEF LoopTyped
<1>2. PICK answers \in Seq(BOOLEAN) :
        /\ Len(answers) = IF Recent(seen) = {} THEN 0 ELSE 4
        /\ loop' = [loop EXCEPT
             ![t].at = IF Recent(seen) \cap Critical # {} THEN "crisis"
                       ELSE IF Recent(seen) = {} THEN "emit" ELSE "evaluation",
             ![t].seen = <<>>, ![t].fired = answers, ![t].next = 1]
  BY PlanIs
<1> HIDE DEF seen
<1> DEFINE place == IF Recent(seen) \cap Critical # {} THEN "crisis"
                 ELSE IF Recent(seen) = {} THEN "emit" ELSE "evaluation"
           length == IF Recent(seen) = {} THEN 0 ELSE 4
<1>a. place \in {"crisis", "emit", "evaluation"} /\ (place = "evaluation" => length = 4)
      /\ length \in {0, 4}
  OBVIOUS
<1>b. answers \in Seq(BOOLEAN) /\ Len(answers) = length
      /\ loop' = [loop EXCEPT ![t].at = place, ![t].seen = <<>>, ![t].fired = answers, ![t].next = 1]
  BY <1>2
<1> HIDE DEF place, length
<1>3. loop' \in [LoopTurns -> LoopTurn]
  <2> DEFINE none == <<>>
             row == [loop[t] EXCEPT !.at = place, !.seen = none, !.fired = answers, !.next = 1]
  <2>1. answers \in Fired
    BY <1>a, <1>b DEF Fired
  <2>2. row \in LoopTurn
    <3>1. none \in Seq(LoopEvent)
      BY <1>1
    <3>2. place \in {"idle", "extract", "refresh", "plan", "crisis", "evaluation", "apply",
                  "emit", "execute"}
      BY <1>a
    <3>3. 1 \in 1 .. 4
      OBVIOUS
    <3> HIDE DEF none
    <3> QED
      BY <1>1, <2>1, <3>1, <3>2, <3>3, PlannedRow
  <2>3. loop' = [loop EXCEPT ![t] = row]
    BY <1>b
  <2> HIDE DEF row
  <2> QED
    BY <2>2, <2>3 DEF LoopTyped
<1>4. \A u \in LoopTurns : loop'[u].at \in {"evaluation", "apply"} => Len(loop'[u].fired) = 4
  BY <1>1, <1>a, <1>b DEF LoopTyped
<1> QED
  BY <1>3, <1>4 DEF LoopTyped, PlanTurn

\* The turn that goes on to the next evaluation, or has done them all.
LEMMA NextIs ==
  ASSUME LoopTyped, NEW t \in LoopTurns, loop[t].at \in {"evaluation", "apply"},
         loop' = NextEvaluation(t)
  PROVE  /\ loop' \in [LoopTurns -> LoopTurn]
         /\ \A u \in LoopTurns \ {t} : loop'[u] = loop[u]
         /\ loop'[t].fired = loop[t].fired /\ loop'[t].shown = loop[t].shown
         /\ loop'[t].seen = loop[t].seen
         /\ loop[t].next < 4 => loop'[t].at = "evaluation" /\ loop'[t].next = loop[t].next + 1
         /\ loop[t].next = 4 => loop'[t].at = "emit"
<1>1. loop[t] \in LoopTurn /\ Len(loop[t].fired) = 4 /\ loop[t].next \in 1 .. 4
  BY DEF LoopTyped, LoopTurn
<1>2. loop' = [loop EXCEPT ![t].at = IF loop[t].next < 4 THEN "evaluation" ELSE "emit",
                           ![t].next = IF loop[t].next < 4 THEN @ + 1 ELSE 1]
  BY <1>1 DEF NextEvaluation
<1>3. loop' \in [LoopTurns -> LoopTurn]
  BY <1>1, <1>2 DEF LoopTyped, LoopTurn
<1> QED
  BY <1>1, <1>2, <1>3 DEF LoopTyped

LEMMA LogEvaluationTyped ==
  ASSUME LoopTyped, NEW t \in LoopTurns, LogEvaluation(t)
  PROVE  LoopTyped'
<1> DEFINE f == loop[t].fired[loop[t].next]
<1>1. loop[t] \in LoopTurn /\ loop[t].at = "evaluation" /\ Len(loop[t].fired) = 4
  BY DEF LoopTyped, LogEvaluation
<1>2. f \in BOOLEAN
  BY <1>1 DEF LoopTurn, Fired
<1>3. events' \in Seq(LoopEvent) /\ Len(events') <= LogLimit /\ faults' \in 0 .. MaxLoopFaults
  <2>1. CASE Log(Evaluated(f)) /\ Succeeds
    BY <1>2, <2>1, EventsAre, LogIsTyped, FaultsAreTyped
  <2>2. CASE UNCHANGED events /\ Fails
    BY <2>2, FaultsAreTyped DEF LoopTyped
  <2> QED
    BY <2>1, <2>2 DEF LogEvaluation
<1>4. /\ loop' \in [LoopTurns -> LoopTurn]
      /\ \A u \in LoopTurns : loop'[u].at \in {"evaluation", "apply"} => Len(loop'[u].fired) = 4
  <2>1. CASE f
    <3>1. loop' = [loop EXCEPT ![t].at = "apply"]
      BY <2>1 DEF LogEvaluation
    <3> QED
      BY <1>1, <3>1 DEF LoopTyped, LoopTurn
  <2>2. CASE ~f
    <3>1. loop' = NextEvaluation(t)
      BY <2>2 DEF LogEvaluation
    <3> QED
      BY <1>1, <3>1, NextIs DEF LoopTyped
  <2> QED
    BY <2>1, <2>2
<1> QED
  BY <1>3, <1>4 DEF LoopTyped, LogEvaluation

LEMMA ApplyTyped ==
  ASSUME LoopTyped, NEW t \in LoopTurns, ApplyTransition(t)
  PROVE  LoopTyped'
<1>1. loop[t] \in LoopTurn /\ loop[t].at = "apply" /\ Len(loop[t].fired) = 4
  BY DEF LoopTyped, ApplyTransition
<1>2. events' \in Seq(LoopEvent) /\ Len(events') <= LogLimit /\ faults' \in 0 .. MaxLoopFaults
  <2>1. CASE Log(OtherEvent) /\ Succeeds
    BY <2>1, EventsAre, LogIsTyped, FaultsAreTyped
  <2>2. CASE Fails /\ UNCHANGED <<events, matrix>>
    BY <2>2, FaultsAreTyped DEF LoopTyped
  <2> QED
    BY <2>1, <2>2 DEF ApplyTransition
<1>3. matrix' \in [FocusDims -> Status]
  <2> DEFINE d == FocusOrder[loop[t].focus]
  <2>1. loop[t].next \in 1 .. 4 /\ Rules[loop[t].next].target \in Status
    BY <1>1, RulesAre DEF LoopTurn
  <2>2. Transition(matrix[d], Rules[loop[t].next].target) \in Status
    BY <2>1 DEF Transition, Status
  <2> HIDE DEF d
  <2> QED
    BY <2>2 DEF LoopTyped, ApplyTransition, d
<1>4. /\ loop' \in [LoopTurns -> LoopTurn]
      /\ \A u \in LoopTurns : loop'[u].at \in {"evaluation", "apply"} => Len(loop'[u].fired) = 4
  BY <1>1, NextIs DEF LoopTyped, ApplyTransition
<1> QED
  BY <1>2, <1>3, <1>4 DEF LoopTyped, ApplyTransition

\* A turn that ends, or is about to execute.
LEMMA EndsTyped ==
  ASSUME LoopTyped, NEW t \in LoopTurns, Crisis(t) \/ EmitCandidates(t) \/ ExecutePlaybook(t)
  PROVE  LoopTyped'
<1>1. loop[t] \in LoopTurn
  BY DEF LoopTyped
<1>2. events' \in Seq(LoopEvent) /\ Len(events') <= LogLimit /\ faults' \in 0 .. MaxLoopFaults
  <2>1. CASE Log(OtherEvent) /\ Succeeds
    BY <2>1, EventsAre, LogIsTyped, FaultsAreTyped
  <2>2. CASE UNCHANGED events /\ Fails
    BY <2>2, FaultsAreTyped DEF LoopTyped
  <2>3. CASE ExecutePlaybook(t)
    BY <2>3, ExecutedIsTyped DEF ExecutePlaybook, LoopTyped
  <2> QED
    BY <2>1, <2>2, <2>3 DEF Crisis, EmitCandidates
<1>3. loop' = [loop EXCEPT ![t] = Rest] \/ loop' = [loop EXCEPT ![t].at = "execute"]
  BY DEF Crisis, EmitCandidates, ExecutePlaybook
<1>4. /\ loop' \in [LoopTurns -> LoopTurn]
      /\ \A u \in LoopTurns : loop'[u].at \in {"evaluation", "apply"} => loop'[u] = loop[u]
  <2>1. CASE loop' = [loop EXCEPT ![t] = Rest]
    BY <2>1, RestIs DEF LoopTyped
  <2>2. CASE loop' = [loop EXCEPT ![t].at = "execute"]
    BY <1>1, <2>2 DEF LoopTyped, LoopTurn
  <2> QED
    BY <1>3, <2>1, <2>2
<1>5. matrix' = matrix /\ crises' \in Nat
  BY DEF LoopTyped, Crisis, EmitCandidates, ExecutePlaybook
<1> QED
  BY <1>2, <1>4, <1>5 DEF LoopTyped

LEMMA NewSessionTyped == LoopTyped /\ NewSession => LoopTyped'
<1> SUFFICES ASSUME LoopTyped, NewSession PROVE LoopTyped'
  OBVIOUS
<1>1. events' \in Seq(LoopEvent) /\ Len(events') <= LogLimit
  BY LoopAssumption DEF NewSession
<1>2. matrix' \in [FocusDims -> Status]
  BY DEF NewSession, Status
<1>3. crises' \in Nat /\ faults' \in 0 .. MaxLoopFaults
  BY LoopAssumption DEF NewSession
<1> QED
  BY <1>1, <1>2, <1>3 DEF LoopTyped, NewSession

LEMMA LoopTypesKept == LoopTyped /\ [LoopStep]_loopVars => LoopTyped'
<1>1. CASE UNCHANGED loopVars
  BY <1>1 DEF loopVars, LoopTyped
<1>2. CASE LoopStep
  BY <1>2, NewSessionTyped, ReadTyped, ExtractTyped, RefreshTyped, PlanTyped,
     LogEvaluationTyped, ApplyTyped, EndsTyped DEF LoopStep
<1> QED
  BY <1>1, <1>2

\* One turn after the other: what a turn plans on is the log as it stands, with the
\* signals it logged; or the log before, when reading it back failed.
ReadBack ==
  \A t \in LoopTurns :
    /\ loop[t].at \in {"idle", "extract"} => loop[t].shown = {}
    /\ loop[t].at = "extract" => loop[t].seen = events
    /\ loop[t].at = "refresh" =>
         loop[t].shown # {} /\ events = Pushed(loop[t].seen, <<Signals(loop[t].shown)>>, LogLimit)
    /\ loop[t].at = "plan" =>
         \/ loop[t].shown = {} /\ loop[t].seen = events
         \/ /\ loop[t].shown # {} /\ loop[t].seen = events
            /\ events # <<>> /\ events[1] = Signals(loop[t].shown)
         \/ /\ loop[t].shown = {} /\ faults # 0
            /\ \E s \in Messages \ {{}} : events = Pushed(loop[t].seen, <<Signals(s)>>, LogLimit)

\* The events a turn has still to log, that are no signals, if every call succeeds.
ToLog(l) ==
  CASE l.at \in {"idle", "extract"}   -> 0
    [] l.at \in {"refresh", "crisis"} -> 7
    [] l.at = "plan"       -> IF l.shown = {} THEN 6 ELSE 7
    [] l.at = "evaluation" -> 8 - l.next
    [] l.at = "apply"      -> 7 - l.next
    [] l.at = "emit"       -> 3
    [] OTHER               -> 2

\* Signals are eight events apart, but for the calls that failed, what is still due, and
\* the four evaluations the first signals of a session may be without.
SpacedBy(due) ==
  \A n \in 0 .. Len(events) :
    8 * Cardinality(SignalsOf(events, n)) <= n + faults + due + 3
Spaced == crises = 0 => \A t \in LoopTurns : SpacedBy(ToLog(loop[t]))

InTurn == \A t, u \in LoopTurns : t = u

\* An event that is no signal and is logged, or is not because the call failed, leaves
\* one due less.
LEMMA SpacedOther ==
  ASSUME LoopTyped, NEW due \in Nat, SpacedBy(due + 1), NEW e \in LoopEvent, e.type # "signals",
         (Log(e) /\ Succeeds) \/ (UNCHANGED events /\ Fails)
  PROVE  SpacedBy(due)'
<1>0. events \in Seq(LoopEvent) /\ faults \in Nat
  BY LoopAssumption DEF LoopTyped
<1>1. CASE Log(e) /\ Succeeds
  <2> DEFINE p == Pushed(events, <<e>>, LogLimit)
  <2>1. events' = p /\ faults' = faults
    BY <1>1 DEF Log, Succeeds
  <2>2. SUFFICES ASSUME NEW n \in 0 .. Len(p)
                 PROVE  8 * Cardinality(SignalsOf(p, n)) <= n + faults + due + 3
    BY <2>1 DEF SpacedBy
  <2>3. CASE n = 0
    <3>1. Cardinality(SignalsOf(p, 0)) <= 0 /\ Cardinality(SignalsOf(p, 0)) \in Nat
      BY SignalsFinite
    <3> DEFINE c == Cardinality(SignalsOf(p, 0))
    <3> HIDE DEF c
    <3>2. 8 * c <= n + faults + due + 3
      BY <1>0, <2>3, <3>1 DEF c
    <3> QED
      BY <2>3, <3>2 DEF c
  <2>4. CASE n # 0
    <3>1. n \in 1 .. Len(p)
      BY <1>0, <2>2, <2>4, PushedOne
    <3>2. /\ n - 1 \in 0 .. Len(events)
          /\ Cardinality(SignalsOf(p, n)) <= Cardinality(SignalsOf(events, n - 1)) + 0
      BY <1>0, <3>1, SignalsShift
    <3> DEFINE c == Cardinality(SignalsOf(p, n))
               d == Cardinality(SignalsOf(events, n - 1))
    <3>3. c \in Nat /\ d \in Nat
      BY <1>0, <3>1, <3>2, SignalsFinite
    <3>4. 8 * d <= (n - 1) + faults + (due + 1) + 3
      BY <3>2 DEF SpacedBy
    <3> HIDE DEF c, d
    <3>5. c <= d + 0
      BY <3>2 DEF c, d
    <3>6. n \in Nat
      BY <3>1
    <3>7. 8 * c <= n + faults + due + 3
      BY <1>0, <3>3, <3>4, <3>5, <3>6
    <3> QED
      BY <3>7 DEF c
  <2> QED
    BY <2>3, <2>4
<1>2. CASE UNCHANGED events /\ Fails
  <2>1. events' = events /\ faults' = faults + 1
    BY <1>2 DEF Fails
  <2> SUFFICES ASSUME NEW n \in 0 .. Len(events)
               PROVE  8 * Cardinality(SignalsOf(events, n)) <= n + faults' + due + 3
    BY <2>1 DEF SpacedBy
  <2> DEFINE c == Cardinality(SignalsOf(events, n))
  <2>2. c \in Nat /\ n \in Nat
    BY <1>0, SignalsFinite
  <2>3. 8 * c <= n + faults + (due + 1) + 3
    BY DEF SpacedBy
  <2> HIDE DEF c
  <2>4. 8 * c <= n + faults' + due + 3
    BY <1>0, <2>1, <2>2, <2>3
  <2> QED
    BY <2>4 DEF c
<1> QED
  BY <1>1, <1>2

\* A signal that is logged makes seven more due.
LEMMA SpacedSignals ==
  ASSUME LoopTyped, SpacedBy(0), NEW s \in Messages \ {{}}, Log(Signals(s)), Succeeds
  PROVE  SpacedBy(7)'
<1> DEFINE p == Pushed(events, <<Signals(s)>>, LogLimit)
<1>0. events \in Seq(LoopEvent) /\ faults \in Nat
  BY LoopAssumption DEF LoopTyped
<1>1. events' = p /\ faults' = faults
  BY DEF Log, Succeeds
<1>2. Signals(s) \in LoopEvent
  BY EventsAre
<1>3. SUFFICES ASSUME NEW n \in 0 .. Len(p)
               PROVE  8 * Cardinality(SignalsOf(p, n)) <= n + faults + 7 + 3
  BY <1>1 DEF SpacedBy
<1>4. CASE n = 0
  <2> DEFINE c == Cardinality(SignalsOf(p, 0))
  <2>1. c <= 0 /\ c \in Nat
    BY SignalsFinite
  <2> HIDE DEF c
  <2>2. 8 * c <= n + faults + 7 + 3
    BY <1>0, <1>4, <2>1
  <2> QED
    BY <1>4, <2>2 DEF c
<1>5. CASE n # 0
  <2>1. n \in 1 .. Len(p)
    BY <1>0, <1>2, <1>3, <1>5, PushedOne
  <2>2. /\ n - 1 \in 0 .. Len(events)
        /\ Cardinality(SignalsOf(p, n)) <= Cardinality(SignalsOf(events, n - 1))
                                             + (IF Signals(s).type = "signals" THEN 1 ELSE 0)
    BY <1>0, <1>2, <2>1, SignalsShift
  <2> DEFINE c == Cardinality(SignalsOf(p, n))
             d == Cardinality(SignalsOf(events, n - 1))
             one == IF Signals(s).type = "signals" THEN 1 ELSE 0
  <2>3. c \in Nat /\ d \in Nat /\ one \in {0, 1} /\ n \in Nat
    BY <1>0, <2>1, <2>2, SignalsFinite
  <2>4. 8 * d <= (n - 1) + faults + 0 + 3
    BY <2>2 DEF SpacedBy
  <2> HIDE DEF c, d, one
  <2>5. c <= d + one
    BY <2>2 DEF c, d, one
  <2>6. 8 * c <= n + faults + 7 + 3
    BY <1>0, <2>3, <2>4, <2>5
  <2> QED
    BY <2>6 DEF c
<1> QED
  BY <1>4, <1>5

\* What is due may be more.
LEMMA SpacedMore ==
  ASSUME LoopTyped, NEW due \in Nat, NEW more \in Nat, due <= more, SpacedBy(due)
  PROVE  SpacedBy(more)
<1> SUFFICES ASSUME NEW n \in 0 .. Len(events)
             PROVE  8 * Cardinality(SignalsOf(events, n)) <= n + faults + more + 3
  BY DEF SpacedBy
<1> DEFINE c == Cardinality(SignalsOf(events, n))
<1>1. events \in Seq(LoopEvent) /\ faults \in Nat
  BY LoopAssumption DEF LoopTyped
<1>2. c \in Nat /\ n \in Nat
  BY <1>1, SignalsFinite
<1>3. 8 * c <= n + faults + due + 3
  BY DEF SpacedBy
<1> HIDE DEF c
<1>4. 8 * c <= n + faults + more + 3
  BY <1>1, <1>2, <1>3
<1> QED
  BY <1>4 DEF c

LEMMA SpacedSame ==
  ASSUME NEW due \in Nat, SpacedBy(due), UNCHANGED <<events, faults>>
  PROVE  SpacedBy(due)'
BY DEF SpacedBy

LEMMA ReadSpaced ==
  ASSUME LoopTyped, ReadBack, Spaced, InTurn, NEW t \in LoopTurns, ReadState(t)
  PROVE  ReadBack' /\ Spaced'
<1>1. /\ loop[t].at = "idle" /\ loop[t].shown = {}
      /\ loop'[t].at = "extract" /\ loop'[t].shown = {} /\ loop'[t].seen = events
      /\ UNCHANGED <<events, crises, faults>>
  BY DEF LoopTyped, LoopTurn, ReadBack, ReadState
<1>2. ReadBack'
  BY <1>1 DEF ReadBack, InTurn
<1>3. crises = 0 => SpacedBy(0)
  BY <1>1 DEF Spaced, ToLog
<1>4. crises' = 0 => SpacedBy(0)'
  BY <1>1, <1>3, SpacedSame
<1>5. ToLog(loop'[t]) = 0
  BY <1>1 DEF ToLog
<1>6. Spaced'
  BY <1>4, <1>5 DEF Spaced, InTurn
<1> QED
  BY <1>2, <1>6

LEMMA ExtractSpaced ==
  ASSUME LoopTyped, ReadBack, Spaced, InTurn, NEW t \in LoopTurns, Extract(t)
  PROVE  ReadBack' /\ Spaced'
<1>1. loop[t].at = "extract" /\ loop[t].shown = {} /\ loop[t].seen = events /\ crises' = crises
  BY DEF ReadBack, Extract
<1>2. crises = 0 => SpacedBy(0)
  BY <1>1 DEF Spaced, ToLog
<1>3. CASE Succeeds /\ \E s \in Messages \ {{}} :
             Log(Signals(s)) /\ loop' = [loop EXCEPT ![t].at = "refresh", ![t].shown = s]
  <2>1. PICK s \in Messages \ {{}} :
             Log(Signals(s)) /\ loop' = [loop EXCEPT ![t].at = "refresh", ![t].shown = s]
    BY <1>3
  <2>2. loop'[t].at = "refresh" /\ loop'[t].shown = s /\ loop'[t].seen = loop[t].seen
    BY <2>1 DEF LoopTyped, LoopTurn
  <2>3. events' = Pushed(loop'[t].seen, <<Signals(loop'[t].shown)>>, LogLimit)
    BY <1>1, <2>1, <2>2 DEF Log
  <2>4. ReadBack'
    BY <2>2, <2>3 DEF ReadBack, InTurn
  <2>5. crises' = 0 => SpacedBy(7)'
    BY <1>1, <1>2, <1>3, <2>1, SpacedSignals
  <2>6. ToLog(loop'[t]) = 7
    BY <2>2 DEF ToLog
  <2>7. Spaced'
    BY <2>5, <2>6 DEF Spaced, InTurn
  <2> QED
    BY <2>4, <2>7
<1>4. CASE loop' = [loop EXCEPT ![t].at = "plan"] /\ UNCHANGED events /\ (Succeeds \/ Fails)
  <2>1. loop'[t].at = "plan" /\ loop'[t].shown = {} /\ loop'[t].seen = events'
    BY <1>1, <1>4 DEF LoopTyped, LoopTurn
  <2>2. ReadBack'
    BY <2>1 DEF ReadBack, InTurn
  <2>3. faults' \in {faults, faults + 1}
    BY <1>4 DEF Succeeds, Fails
  <2>4. ASSUME crises = 0 PROVE SpacedBy(6)'
    <3> SUFFICES ASSUME NEW n \in 0 .. Len(events)
                 PROVE  8 * Cardinality(SignalsOf(events, n)) <= n + faults' + 6 + 3
      BY <1>4 DEF SpacedBy
    <3> DEFINE c == Cardinality(SignalsOf(events, n))
    <3>1. events \in Seq(LoopEvent) /\ faults \in Nat
      BY LoopAssumption DEF LoopTyped
    <3>2. c \in Nat /\ n \in Nat
      BY <3>1, SignalsFinite
    <3>3. 8 * c <= n + faults + 0 + 3
      BY <1>2, <2>4 DEF SpacedBy
    <3> HIDE DEF c
    <3> DEFINE f == faults
               g == faults'
    <3>a. f \in Nat /\ g \in Nat /\ f <= g
      BY <2>3, <3>1
    <3>b. 8 * c <= n + f + 0 + 3
      BY <3>3
    <3> HIDE DEF f, g
    <3>c. 8 * c <= n + g + 6 + 3
      BY <3>a, <3>b, <3>2
    <3>4. 8 * c <= n + faults' + 6 + 3
      BY <3>c DEF g
    <3> QED
      BY <3>4 DEF c
  <2>5. ToLog(loop'[t]) = 6
    BY <2>1 DEF ToLog
  <2>6. Spaced'
    BY <1>1, <2>4, <2>5 DEF Spaced, InTurn
  <2> QED
    BY <2>2, <2>6
<1> QED
  BY <1>3, <1>4 DEF Extract

LEMMA RefreshSpaced ==
  ASSUME LoopTyped, ReadBack, Spaced, InTurn, NEW t \in LoopTurns, RefreshEvents(t)
  PROVE  ReadBack' /\ Spaced'
<1> DEFINE s == loop[t].shown
<1>0. events \in Seq(LoopEvent) /\ faults \in Nat /\ loop[t].seen \in Seq(LoopEvent)
      /\ loop[t].shown \in Messages \cup {{}}
  BY LoopAssumption DEF LoopTyped, LoopTurn
<1>1. /\ loop[t].at = "refresh" /\ UNCHANGED <<events, crises>>
      /\ s \in Messages \ {{}} /\ events = Pushed(loop[t].seen, <<Signals(s)>>, LogLimit)
  BY <1>0 DEF ReadBack, RefreshEvents
<1>2. crises = 0 => SpacedBy(7)
  BY <1>1 DEF Spaced, ToLog
<1>3. CASE Succeeds /\ loop' = [loop EXCEPT ![t].at = "plan", ![t].seen = events]
  <2>1. loop'[t].at = "plan" /\ loop'[t].shown = s /\ loop'[t].seen = events'
    BY <1>1, <1>3 DEF LoopTyped, LoopTurn
  <2>2. events # <<>> /\ events[1] = Signals(s)
    <3> DEFINE e == Signals(s)
               p == Pushed(loop[t].seen, <<e>>, LogLimit)
    <3>1. e \in LoopEvent
      BY <1>1, EventsAre
    <3> HIDE DEF e
    <3>2. Len(p) \in Nat /\ \A i \in 1 .. Len(p) : p[i] = IF i <= 1 THEN e ELSE loop[t].seen[i - 1]
      BY <1>0, <3>1, PushedOne
    <3>3. Len(p) # 0
      BY <1>0, <3>1, PushedSome
    <3>4. p[1] = e
      BY <3>2, <3>3
    <3>5. p # <<>>
      BY <3>3
    <3> QED
      BY <1>1, <3>4, <3>5 DEF e
  <2>3. ReadBack'
    BY <1>1, <2>1, <2>2 DEF ReadBack, InTurn
  <2>4. crises' = 0 => SpacedBy(7)'
    BY <1>1, <1>2, <1>3, SpacedSame DEF Succeeds
  <2>5. ToLog(loop'[t]) = 7
    BY <1>1, <2>1 DEF ToLog
  <2>6. Spaced'
    BY <2>4, <2>5 DEF Spaced, InTurn
  <2> QED
    BY <2>3, <2>6
<1>4. CASE Fails /\ loop' = [loop EXCEPT ![t].at = "plan", ![t].shown = {}]
  <2>1. loop'[t].at = "plan" /\ loop'[t].shown = {} /\ loop'[t].seen = loop[t].seen
    BY <1>1, <1>4 DEF LoopTyped, LoopTurn
  <2>2. faults' # 0
    BY <1>0, <1>4 DEF Fails
  <2>3. events' = Pushed(loop'[t].seen, <<Signals(s)>>, LogLimit)
    BY <1>1, <2>1
  <2>4. ReadBack'
    BY <1>1, <2>1, <2>2, <2>3 DEF ReadBack, InTurn
  <2>5. crises' = 0 => SpacedBy(6)'
    <3> DEFINE due == 6
    <3>1. due \in Nat /\ due + 1 = 7
      OBVIOUS
    <3> HIDE DEF due
    <3>2. crises' = 0 => SpacedBy(due)'
      BY <1>1, <1>2, <1>4, <3>1, SpacedOther, EventsAre
    <3> QED
      BY <3>2 DEF due
  <2>6. ToLog(loop'[t]) = 6
    BY <2>1 DEF ToLog
  <2>7. Spaced'
    BY <2>5, <2>6 DEF Spaced, InTurn
  <2> QED
    BY <2>4, <2>7
<1> QED
  BY <1>3, <1>4 DEF RefreshEvents

\* A turn that plans after a failure to read back, and reads nothing, has logged the
\* first signals of all that is left of the log.
LEMMA FirstSignals ==
  ASSUME LoopTyped, NEW t \in LoopTurns, NEW s \in Messages \ {{}}, faults # 0,
         Recent(loop[t].seen) = {},
         events = Pushed(loop[t].seen, <<Signals(s)>>, LogLimit)
  PROVE  SpacedBy(3)
<1> DEFINE old == loop[t].seen
           e == Signals(s)
<1>1. old \in Seq(LoopEvent) /\ events \in Seq(LoopEvent) /\ faults \in Nat /\ e \in LoopEvent
  BY LoopAssumption, EventsAre DEF LoopTyped, LoopTurn
<1>2. \A i \in 1 .. Len(old) : old[i].type # "signals"
  BY <1>1, NothingToSee
<1> HIDE DEF e, old
<1>3. Len(events) \in Nat /\ \A i \in 1 .. Len(events) :
        events[i] = (IF i <= 1 THEN e ELSE old[i - 1]) /\ Len(events) <= 1 + Len(old)
        /\ Len(old) \in Nat
  BY <1>1, PushedOne DEF e, old
<1> SUFFICES ASSUME NEW n \in 0 .. Len(events)
             PROVE  8 * Cardinality(SignalsOf(events, n)) <= n + faults + 3 + 3
  BY DEF SpacedBy
<1>4. SignalsOf(events, n) \subseteq {1} /\ n \in Nat
  <2> SUFFICES ASSUME NEW i \in 1 .. n, events[i].type = "signals" PROVE i = 1
    BY <1>3 DEF SignalsOf
  <2>1. i \in 1 .. Len(events)
    BY <1>3
  <2>2. ASSUME i # 1 PROVE FALSE
    <3>1. events[i] = old[i - 1] /\ i - 1 \in 1 .. Len(old)
      BY <1>3, <2>1, <2>2
    <3> QED
      BY <1>2, <3>1
  <2> QED
    BY <2>2
<1>5. SignalsOf(events, n) \subseteq {1} /\ IsFiniteSet({1}) /\ Cardinality({1}) = 1
  BY <1>4, FS_Singleton
<1> DEFINE c == Cardinality(SignalsOf(events, n))
<1>6. c \in Nat /\ c <= n /\ c <= 1
  <2>1. c <= Cardinality({1})
    BY <1>5, FS_Subset
  <2> QED
    BY <1>4, <1>5, <2>1, SignalsFinite
<1> HIDE DEF c
<1> DEFINE f == faults
<1>7. f \in Nat /\ f # 0
  BY <1>1
<1> HIDE DEF f
<1>8. 8 * c <= n + f + 3 + 3
  <2>1. CASE c = 0
    BY <1>4, <1>7, <2>1
  <2>2. CASE c = 1
    BY <1>4, <1>6, <1>7, <2>2
  <2> QED
    BY <1>6, <2>1, <2>2
<1> QED
  BY <1>8 DEF c, f

\* What a turn reads back shows what it logged, as few calls as failed.
LEMMA ReadBackShows ==
  ASSUME LoopTyped, LogLimit + MaxLoopFaults <= 37, SpacedBy(7), NEW s \in Messages \ {{}},
         events # <<>>, events[1] = Signals(s)
  PROVE  s \subseteq Recent(events)
<1> DEFINE n == Len(events)
           c == Cardinality(SignalsOf(events, n))
           f == faults
<1>1. events \in Seq(LoopEvent) /\ f \in Nat /\ f <= MaxLoopFaults /\ MaxLoopFaults \in Nat
      /\ n \in Nat /\ n <= LogLimit /\ LogLimit \in Nat
  BY LoopAssumption DEF LoopTyped
<1>2. n \in 0 .. Len(events)
  BY <1>1
<1>3. c \in Nat /\ 8 * c <= n + f + 7 + 3
  BY <1>1, <1>2, SignalsFinite DEF SpacedBy
<1>4. c <= 5
  <2> HIDE DEF c, n, f
  <2> QED
    BY <1>1, <1>3
<1> QED
  BY <1>1, <1>4, NewestIsSeen

LEMMA PlanSpaced ==
  ASSUME LoopTyped, ReadBack, Spaced, InTurn, LogLimit + MaxLoopFaults <= 37,
         NEW t \in LoopTurns, PlanTurn(t)
  PROVE  /\ ReadBack' /\ Spaced'
         /\ loop'[t].at \in {"evaluation", "emit"} /\ crises = 0
              => loop[t].shown \cap Critical = {}
<1> DEFINE seen == loop[t].seen
           shown == loop[t].shown
<1>1. PICK answers \in Seq(BOOLEAN) :
        /\ Len(answers) = IF Recent(seen) = {} THEN 0 ELSE 4
        /\ loop' = [loop EXCEPT
             ![t].at = IF Recent(seen) \cap Critical # {} THEN "crisis"
                       ELSE IF Recent(seen) = {} THEN "emit" ELSE "evaluation",
             ![t].seen = <<>>, ![t].fired = answers, ![t].next = 1]
  BY PlanIs
<1>2. /\ loop'[t].at = IF Recent(seen) \cap Critical # {} THEN "crisis"
                       ELSE IF Recent(seen) = {} THEN "emit" ELSE "evaluation"
      /\ loop'[t].next = 1
  BY <1>1 DEF LoopTyped, LoopTurn
<1>3. loop[t].at = "plan" /\ UNCHANGED <<events, crises, faults>>
      /\ seen \in Seq(LoopEvent) /\ shown \in Messages \cup {{}}
  BY DEF PlanTurn, LoopTyped, LoopTurn
<1>4. ReadBack'
  BY <1>2 DEF ReadBack, InTurn
<1>5. crises = 0 => SpacedBy(7)
  <2>1. CASE shown = {}
    <3>1. crises = 0 => SpacedBy(6)
      BY <1>3, <2>1 DEF Spaced, ToLog
    <3> QED
      BY <3>1, SpacedMore
  <2>2. CASE shown # {}
    BY <1>3, <2>2 DEF Spaced, ToLog
  <2> QED
    BY <2>1, <2>2
<1>6. crises = 0 /\ shown # {} => shown \subseteq Recent(seen)
  BY <1>3, <1>5, ReadBackShows DEF ReadBack
<1>7. crises = 0 /\ Recent(seen) = {} => SpacedBy(3)
  <2> SUFFICES ASSUME crises = 0, Recent(seen) = {} PROVE SpacedBy(3)
    OBVIOUS
  <2>1. shown = {}
    BY <1>6
  <2>2. CASE seen = events
    <3>1. \A i \in 1 .. Len(events) : events[i].type # "signals"
      BY <1>3, <2>2, NothingToSee
    <3> SUFFICES ASSUME NEW n \in 0 .. Len(events)
                 PROVE  8 * Cardinality(SignalsOf(events, n)) <= n + faults + 3 + 3
      BY DEF SpacedBy
    <3>2. n \in Nat /\ faults \in Nat /\ events \in Seq(LoopEvent)
      BY LoopAssumption DEF LoopTyped
    <3>3. SignalsOf(events, n) = {}
      BY <3>1, <3>2 DEF SignalsOf
    <3>4. Cardinality(SignalsOf(events, n)) = 0
      BY <3>3, FS_EmptySet
    <3> QED
      BY <3>2, <3>4
  <2>3. CASE faults # 0 /\ \E s \in Messages \ {{}} :
                             events = Pushed(seen, <<Signals(s)>>, LogLimit)
    BY <2>3, FirstSignals
  <2> QED
    BY <1>3, <2>1, <2>2, <2>3 DEF ReadBack
<1>8. ToLog(loop'[t]) = IF loop'[t].at = "emit" THEN 3 ELSE 7
  <2>1. CASE loop'[t].at = "crisis"
    BY <2>1 DEF ToLog
  <2>2. CASE loop'[t].at = "emit"
    BY <2>2 DEF ToLog
  <2>3. CASE loop'[t].at = "evaluation"
    BY <1>2, <2>3 DEF ToLog
  <2> QED
    BY <1>2, <2>1, <2>2, <2>3
<1>10. Spaced'
  <2>1. CASE loop'[t].at = "emit"
    <3>1. crises = 0 => SpacedBy(3)
      BY <1>2, <1>7, <2>1
    <3>2. crises' = 0 => SpacedBy(3)'
      BY <1>3, <3>1, SpacedSame
    <3>3. ToLog(loop'[t]) = 3
      BY <1>8, <2>1
    <3> QED
      BY <3>2, <3>3 DEF Spaced, InTurn
  <2>2. CASE loop'[t].at # "emit"
    <3>1. crises' = 0 => SpacedBy(7)'
      BY <1>3, <1>5, SpacedSame
    <3>2. ToLog(loop'[t]) = 7
      BY <1>8, <2>2
    <3> QED
      BY <3>1, <3>2 DEF Spaced, InTurn
  <2> QED
    BY <2>1, <2>2
<1>11. loop'[t].at \in {"evaluation", "emit"} /\ crises = 0 => shown \cap Critical = {}
  BY <1>2, <1>6
<1> QED
  BY <1>4, <1>10, <1>11

LEMMA LogEvaluationSpaced ==
  ASSUME LoopTyped, ReadBack, Spaced, InTurn, NEW t \in LoopTurns, LogEvaluation(t)
  PROVE  ReadBack' /\ Spaced'
<1> DEFINE f == loop[t].fired[loop[t].next]
<1>1. loop[t] \in LoopTurn /\ loop[t].at = "evaluation" /\ Len(loop[t].fired) = 4
      /\ loop[t].next \in 1 .. 4 /\ crises' = crises
  BY DEF LoopTyped, LogEvaluation, LoopTurn
<1>2. f \in BOOLEAN
  BY <1>1 DEF LoopTurn, Fired
<1>3. PICK k \in 1 .. 4 : k = loop[t].next
  BY <1>1
<1>4. crises = 0 => SpacedBy((7 - k) + 1)
  <2>1. ToLog(loop[t]) = 8 - loop[t].next
    BY <1>1 DEF ToLog
  <2>2. ToLog(loop[t]) = (7 - k) + 1
    BY <1>3, <2>1
  <2> QED
    BY <2>2 DEF Spaced
<1>5. crises' = 0 => SpacedBy(7 - k)'
  <2> DEFINE e == Evaluated(f)
  <2>1. e \in LoopEvent /\ e.type # "signals" /\ 7 - k \in Nat
    BY <1>2, <1>3, EventsAre
  <2>2. (Log(e) /\ Succeeds) \/ (UNCHANGED events /\ Fails)
    BY DEF LogEvaluation
  <2>3. PICK ev \in LoopEvent : ev = e
    BY <2>1
  <2>4. (Log(ev) /\ Succeeds) \/ (UNCHANGED events /\ Fails)
    BY <2>2, <2>3 DEF Log
  <2>5. PICK due \in Nat : due = 7 - k
    BY <2>1
  <2> HIDE DEF e
  <2>6. crises' = 0 => SpacedBy(due)'
    <3>1. crises = 0 => SpacedBy(due + 1)
      BY <1>4, <2>5
    <3> QED
      BY <1>1, <2>1, <2>3, <2>4, <3>1, SpacedOther
  <2> QED
    BY <2>5, <2>6
<1>6. /\ loop'[t].at \in {"apply", "evaluation", "emit"}
      /\ ToLog(loop'[t]) = 7 - k
  <2>1. CASE f
    <3>1. loop'[t].at = "apply" /\ loop'[t].next = k
      BY <1>1, <1>3, <2>1 DEF LogEvaluation, LoopTyped, LoopTurn
    <3> QED
      BY <3>1 DEF ToLog
  <2>2. CASE ~f
    <3>1. loop' = NextEvaluation(t)
      BY <2>2 DEF LogEvaluation
    <3>2. CASE k < 4
      <4>1. loop'[t].at = "evaluation" /\ loop'[t].next = k + 1
        BY <1>1, <1>3, <3>1, <3>2, NextIs
      <4>2. ToLog(loop'[t]) = 8 - (k + 1)
        BY <4>1 DEF ToLog
      <4> QED
        BY <4>1, <4>2
    <3>3. CASE k = 4
      <4>1. loop'[t].at = "emit"
        BY <1>1, <1>3, <3>1, <3>3, NextIs
      <4>2. ToLog(loop'[t]) = 3
        BY <4>1 DEF ToLog
      <4> QED
        BY <3>3, <4>1, <4>2
    <3> QED
      BY <3>2, <3>3
  <2> QED
    BY <2>1, <2>2
<1>7. ReadBack'
  BY <1>6 DEF ReadBack, InTurn
<1>8. Spaced'
  BY <1>5, <1>6 DEF Spaced, InTurn
<1> QED
  BY <1>7, <1>8

LEMMA ApplySpaced ==
  ASSUME LoopTyped, ReadBack, Spaced, InTurn, NEW t \in LoopTurns, ApplyTransition(t)
  PROVE  ReadBack' /\ Spaced'
<1>1. loop[t] \in LoopTurn /\ loop[t].at = "apply" /\ loop[t].next \in 1 .. 4
      /\ crises' = crises /\ loop' = NextEvaluation(t)
  BY DEF LoopTyped, ApplyTransition, LoopTurn
<1>2. PICK k \in 1 .. 4 : k = loop[t].next
  BY <1>1
<1>3. PICK due \in Nat : due = 7 - k
  OBVIOUS
<1>4. crises = 0 => SpacedBy(due)
  <2>1. ToLog(loop[t]) = due
    BY <1>1, <1>2, <1>3 DEF ToLog
  <2> QED
    BY <2>1 DEF Spaced
<1>5. crises' = 0 => SpacedBy(due)'
  <2>1. CASE Log(OtherEvent) /\ Succeeds
    <3>1. crises = 0 => SpacedBy(due + 1)
      BY <1>4, SpacedMore
    <3> QED
      BY <1>1, <2>1, <3>1, EventsAre, SpacedOther
  <2>2. CASE Fails /\ UNCHANGED <<events, matrix>>
    <3>1. crises = 0 => SpacedBy(due + 1)
      BY <1>4, SpacedMore
    <3> QED
      BY <1>1, <2>2, <3>1, EventsAre, SpacedOther
  <2> QED
    BY <2>1, <2>2 DEF ApplyTransition
<1>6. loop'[t].at \in {"evaluation", "emit"} /\ ToLog(loop'[t]) = due
  <2>1. CASE k < 4
    <3>1. loop'[t].at = "evaluation" /\ loop'[t].next = k + 1
      BY <1>1, <1>2, <2>1, NextIs
    <3>2. ToLog(loop'[t]) = 8 - (k + 1)
      BY <3>1 DEF ToLog
    <3> QED
      BY <1>3, <3>1, <3>2
  <2>2. CASE k = 4
    <3>1. loop'[t].at = "emit"
      BY <1>1, <1>2, <2>2, NextIs
    <3>2. ToLog(loop'[t]) = 3
      BY <3>1 DEF ToLog
    <3> QED
      BY <1>3, <2>2, <3>1, <3>2
  <2> QED
    BY <2>1, <2>2
<1>7. ReadBack'
  BY <1>6 DEF ReadBack, InTurn
<1>8. Spaced'
  BY <1>5, <1>6 DEF Spaced, InTurn
<1> QED
  BY <1>7, <1>8

LEMMA EmitSpaced ==
  ASSUME LoopTyped, ReadBack, Spaced, InTurn, NEW t \in LoopTurns, EmitCandidates(t)
  PROVE  ReadBack' /\ Spaced'
<1>1. loop[t].at = "emit" /\ loop'[t].at = "execute" /\ crises' = crises
      /\ ((Log(OtherEvent) /\ Succeeds) \/ (UNCHANGED events /\ Fails))
  BY DEF EmitCandidates, LoopTyped, LoopTurn
<1>2. PICK due \in Nat : due = 2
  OBVIOUS
<1>3. crises = 0 => SpacedBy(due + 1)
  <2>1. ToLog(loop[t]) = due + 1
    BY <1>1, <1>2 DEF ToLog
  <2> QED
    BY <2>1 DEF Spaced
<1>4. crises' = 0 => SpacedBy(due)'
  BY <1>1, <1>3, EventsAre, SpacedOther
<1>5. ToLog(loop'[t]) = due
  BY <1>1, <1>2 DEF ToLog
<1>6. ReadBack'
  BY <1>1 DEF ReadBack, InTurn
<1>7. Spaced'
  BY <1>4, <1>5 DEF Spaced, InTurn
<1> QED
  BY <1>6, <1>7

LEMMA CrisisSpaced ==
  ASSUME LoopTyped, InTurn, NEW t \in LoopTurns, Crisis(t)
  PROVE  ReadBack' /\ Spaced'
<1>1. loop'[t] = Rest /\ crises' # 0
  BY DEF Crisis, LoopTyped
<1>2. ReadBack'
  BY <1>1, RestIs DEF ReadBack, InTurn
<1> QED
  BY <1>1, <1>2 DEF Spaced

LEMMA NewSessionSpaced ==
  ASSUME LoopTyped, ReadBack, NewSession
  PROVE  ReadBack' /\ Spaced'
<1>1. /\ events' = <<>> /\ faults' = 0 /\ loop' = loop
      /\ \A t \in LoopTurns : loop[t].at = "idle"
  BY DEF NewSession
<1>2. ReadBack'
  BY <1>1 DEF ReadBack
<1>3. SpacedBy(0)'
  <2>1. SignalsOf(<<>>, 0) = {}
    BY DEF SignalsOf
  <2>2. Cardinality(SignalsOf(<<>>, 0)) = 0
    BY <2>1, FS_EmptySet
  <2> QED
    BY <1>1, <2>2 DEF SpacedBy
<1>4. \A t \in LoopTurns : ToLog(loop'[t]) = 0
  BY <1>1 DEF ToLog
<1> QED
  BY <1>2, <1>3, <1>4 DEF Spaced

LEMMA ExecuteSpaced ==
  ASSUME LoopTyped, ReadBack, Spaced, InTurn, NEW t \in LoopTurns, ExecutePlaybook(t)
  PROVE  ReadBack' /\ Spaced'
<1> DEFINE new == <<OtherEvent, Executed>>
           p == Pushed(events, new, LogLimit)
<1>1. loop[t].at = "execute" /\ loop'[t] = Rest /\ UNCHANGED <<crises, faults>> /\ events' = p
  BY DEF ExecutePlaybook, LoopTyped
<1>2. ReadBack'
  BY <1>1, RestIs DEF ReadBack, InTurn
<1>3. crises = 0 => SpacedBy(2)
  <2>1. ToLog(loop[t]) = 2
    BY <1>1 DEF ToLog
  <2> QED
    BY <2>1 DEF Spaced
<1>4. /\ new \in Seq(LoopEvent) /\ Len(new) = 2 /\ new[1].type # "signals" /\ new[2].type # "signals"
      /\ events \in Seq(LoopEvent) /\ faults \in Nat /\ Len(events) \in Nat
  BY EventsAre, LoopAssumption DEF LoopTyped
<1> HIDE DEF new
<1>5. /\ Len(p) \in Nat /\ Len(p) <= 2 + Len(events)
      /\ \A i \in 1 .. Len(p) : p[i] = IF i <= Len(new) THEN new[i] ELSE events[i - Len(new)]
  <2>1. /\ p \in Seq(LoopEvent) /\ Len(p) <= LogLimit /\ Len(p) <= Len(new) + Len(events)
        /\ \A i \in 1 .. Len(p) : p[i] = IF i <= Len(new) THEN new[i] ELSE events[i - Len(new)]
    BY <1>4, PushedNew
  <2> HIDE DEF p
  <2> QED
    BY <1>4, <2>1
<1> HIDE DEF p
<1>6. \A i \in 1 .. Len(p) : p[i].type = "signals" =>
        i - 2 \in 1 .. Len(events) /\ events[i - 2].type = "signals"
  <2> SUFFICES ASSUME NEW i \in 1 .. Len(p), p[i].type = "signals"
               PROVE  i - 2 \in 1 .. Len(events) /\ events[i - 2].type = "signals"
    OBVIOUS
  <2>1. CASE i <= 2
    <3>1. i \in {1, 2} /\ p[i] = new[i]
      BY <1>4, <1>5, <2>1
    <3> QED
      BY <1>4, <3>1
  <2>2. CASE ~(i <= 2)
    <3>1. p[i] = events[i - 2]
      BY <1>4, <1>5, <2>2
    <3>2. i - 2 \in 1 .. Len(events)
      BY <1>4, <1>5, <2>2
    <3> QED
      BY <3>1, <3>2
  <2> QED
    BY <2>1, <2>2
<1>7. ASSUME crises = 0, NEW n \in 0 .. Len(p)
      PROVE  8 * Cardinality(SignalsOf(p, n)) <= n + faults + 0 + 3
  <2> DEFINE P == SignalsOf(p, n)
             m == IF n <= 2 THEN 0 ELSE n - 2
             A == SignalsOf(events, m)
             up == [i \in A |-> i + 2]
             B == {up[i] : i \in A}
  <2>1. n \in Nat /\ m \in 0 .. Len(events) /\ m \in Nat
    BY <1>4, <1>5, <1>7
  <2>2. P \subseteq B
    <3> SUFFICES ASSUME NEW i \in P PROVE i \in B
      OBVIOUS
    <3>1. i \in 1 .. n /\ i \in 1 .. Len(p) /\ p[i].type = "signals"
      BY <1>5, <1>7 DEF SignalsOf
    <3>2. i - 2 \in 1 .. Len(events) /\ events[i - 2].type = "signals"
      BY <1>6, <3>1
    <3>3. i - 2 \in 1 .. m
      BY <1>4, <2>1, <3>1, <3>2
    <3>4. i - 2 \in A /\ (i - 2) + 2 = i
      BY <3>1, <3>2, <3>3 DEF SignalsOf
    <3> QED
      BY <3>4
  <2>3. IsFiniteSet(A) /\ Cardinality(A) \in Nat
    BY <2>1, SignalsFinite
  <2>4. 8 * Cardinality(A) <= m + faults + 2 + 3
    BY <1>3, <1>7, <2>1 DEF SpacedBy
  <2>5. Cardinality(A) <= m
    BY <2>1, SignalsFinite
  <2> HIDE DEF A
  <2>6. IsFiniteSet(B) /\ Cardinality(B) <= Cardinality(A)
    <3>1. up \in Surjection(A, B)
      BY DEF Surjection
    <3> HIDE DEF up, B
    <3> QED
      BY <2>3, <3>1, FS_Surjection
  <2> HIDE DEF B, P
  <2>7. Cardinality(P) <= Cardinality(B) /\ Cardinality(P) \in Nat /\ Cardinality(B) \in Nat
    <3>1. IsFiniteSet(P) /\ Cardinality(P) <= Cardinality(B)
      BY <2>2, <2>6, FS_Subset
    <3> QED
      BY <2>6, <3>1, FS_CardinalityType
  <2> DEFINE c == Cardinality(P)
             d == Cardinality(A)
             b == Cardinality(B)
             f == faults
  <2>8. c \in Nat /\ d \in Nat /\ b \in Nat /\ f \in Nat /\ c <= b /\ b <= d /\ d <= m
        /\ 8 * d <= m + f + 2 + 3
    BY <1>4, <2>3, <2>4, <2>5, <2>6, <2>7
  <2> HIDE DEF c, d, b, f
  <2>9. 8 * c <= n + f + 0 + 3
    <3>1. CASE n <= 2
      BY <2>1, <2>8, <3>1
    <3>2. CASE ~(n <= 2)
      BY <2>1, <2>8, <3>2
    <3> QED
      BY <3>1, <3>2
  <2> QED
    BY <2>9 DEF c, f, P
<1>8. crises' = 0 => SpacedBy(0)'
  BY <1>1, <1>7 DEF SpacedBy
<1>9. ToLog(loop'[t]) = 0
  BY <1>1, RestIs DEF ToLog
<1>10. Spaced'
  BY <1>8, <1>9 DEF Spaced, InTurn
<1> QED
  BY <1>2, <1>10

\* Of no turn at rest is anything due.
LEMMA SpacedStarts == LoopInit => ReadBack /\ Spaced
<1> SUFFICES ASSUME LoopInit PROVE ReadBack /\ Spaced
  OBVIOUS
<1>1. events = <<>> /\ faults = 0 /\ \A t \in LoopTurns : loop[t] = Rest
  BY DEF LoopInit
<1>2. SpacedBy(0)
  <2>1. SignalsOf(<<>>, 0) = {}
    BY DEF SignalsOf
  <2>2. Cardinality(SignalsOf(<<>>, 0)) = 0
    BY <2>1, FS_EmptySet
  <2> QED
    BY <1>1, <2>2 DEF SpacedBy
<1>3. \A t \in LoopTurns : ToLog(loop[t]) = 0
  BY <1>1, RestIs DEF ToLog
<1>4. ReadBack
  BY <1>1, RestIs DEF ReadBack
<1> QED
  BY <1>2, <1>3, <1>4 DEF Spaced

LEMMA SpacedKept ==
  ASSUME LoopTyped, ReadBack, Spaced, InTurn, LogLimit + MaxLoopFaults <= 37,
         [LoopStep]_loopVars
  PROVE  /\ ReadBack' /\ Spaced'
         /\ \/ \A t \in LoopTurns :
                 /\ loop[t].at = "plan" /\ loop'[t].at \in {"evaluation", "emit"}
                 /\ crises = 0
                 => loop[t].shown \cap Critical = {}
            \/ UNCHANGED loopVars
<1>1. CASE UNCHANGED loopVars
  <2>1. UNCHANGED <<events, crises, faults, loop>>
    BY <1>1 DEF loopVars
  <2> QED
    BY <1>1, <2>1 DEF ReadBack, Spaced, SpacedBy
<1>2. CASE NewSession
  BY <1>2, NewSessionSpaced DEF NewSession
<1>3. ASSUME NEW t \in LoopTurns,
             \/ ReadState(t) \/ Extract(t) \/ RefreshEvents(t) \/ PlanTurn(t) \/ Crisis(t)
             \/ LogEvaluation(t) \/ ApplyTransition(t) \/ EmitCandidates(t) \/ ExecutePlaybook(t)
      PROVE  /\ ReadBack' /\ Spaced'
             /\ /\ loop[t].at = "plan" /\ loop'[t].at \in {"evaluation", "emit"}
                /\ crises = 0
                => loop[t].shown \cap Critical = {}
  <2>1. CASE PlanTurn(t)
    BY <2>1, PlanSpaced
  <2>2. CASE loop[t].at # "plan"
    BY <1>3, <2>2, ReadSpaced, ExtractSpaced, RefreshSpaced, CrisisSpaced, LogEvaluationSpaced,
       ApplySpaced, EmitSpaced, ExecuteSpaced DEF PlanTurn
  <2> QED
    BY <1>3, <2>1, <2>2 DEF ReadState, Extract, RefreshEvents, Crisis, LogEvaluation,
       ApplyTransition, EmitCandidates, ExecutePlaybook
<1> QED
  BY <1>1, <1>2, <1>3 DEF LoopStep, InTurn

-----------------------------------------------------------------------------
(* The types that the invariants leave open *)

\* The calendar of a cycle of the helix.
Calendar ==
  /\ day \in 0 .. (TotalDays - 1)
  /\ mode \in {"active", "buffer", "vacation"}
  /\ mode # "vacation" => mode = Phase(day)
  /\ mode = "vacation" => vacation
  /\ vacation \in BOOLEAN
  /\ fired \subseteq Cadence

LEMMA FirstDay == 0 \in 0 .. (TotalDays - 1) /\ Phase(0) = "active"
<1>1. ActiveDays \in Nat \ {0} /\ TotalDays \in Nat /\ ActiveDays < TotalDays
  BY HelixAssumption
<1>2. ~ (0 >= ActiveDays) /\ 0 \in 0 .. (TotalDays - 1)
  BY <1>1
<1> QED
  BY <1>2 DEF Phase

LEMMA CalendarStarts == HelixInit => Calendar
<1> SUFFICES ASSUME HelixInit PROVE Calendar
  OBVIOUS
<1>1. day = 0 /\ mode = "active" /\ vacation = FALSE /\ fired = {}
  BY DEF HelixInit
<1> QED
  BY <1>1, FirstDay DEF Calendar

LEMMA CalendarKept == Calendar /\ [HelixStep]_helixVars => Calendar'
<1> SUFFICES ASSUME Calendar, [HelixStep]_helixVars PROVE Calendar'
  OBVIOUS
<1>0. ActiveDays \in Nat \ {0} /\ TotalDays \in Nat /\ ActiveDays < TotalDays
  BY HelixAssumption
<1>1. CASE UNCHANGED <<day, mode, vacation, fired>>
  BY <1>1 DEF Calendar, Phase
<1>2. CASE day' = 0 /\ mode' = "active" /\ fired' = {} /\ UNCHANGED vacation
  <2>1. day' \in 0 .. (TotalDays - 1) /\ mode' = Phase(day')
    BY <1>2, FirstDay DEF Phase
  <2> QED
    BY <1>2, <2>1 DEF Calendar, Phase
<1>3. CASE DayAdvance
  <2>1. day' \in 0 .. (TotalDays - 1)
    BY <1>0, <1>3 DEF DayAdvance, Calendar
  <2>2. mode' = Phase(day') /\ mode' \in {"active", "buffer"} /\ UNCHANGED <<vacation, fired>>
    BY <1>3 DEF DayAdvance, Phase
  <2> QED
    BY <2>1, <2>2 DEF Calendar, Phase
<1>4. CASE EnterVacation
  BY <1>4 DEF EnterVacation, Calendar
<1>5. CASE ExitVacation
  <2>1. mode' = Phase(day') /\ mode' \in {"active", "buffer"} /\ UNCHANGED <<day, fired>>
        /\ vacation' = FALSE
    BY <1>5 DEF ExitVacation, Phase
  <2> QED
    BY <2>1 DEF Calendar, Phase
<1>6. CASE MarkTriggerFired
  <2>1. fired' \subseteq Cadence
    BY <1>6 DEF MarkTriggerFired, DueTriggers, Calendar
  <2> QED
    BY <1>6, <2>1 DEF MarkTriggerFired, Calendar, Phase
<1>7. CASE UNCHANGED helixVars
  BY <1>1, <1>7 DEF helixVars
<1>8. CASE CompleteCycle \/ CycleStart
  BY <1>2, <1>8 DEF CompleteCycle, CycleStart
<1>9. CASE \E d \in Dims : ResumeDimension(d) \/ \E s \in Dims : DeferDimension(d, s)
  BY <1>1, <1>9 DEF ResumeDimension, DeferDimension
<1> QED
  BY <1>3, <1>4, <1>5, <1>6, <1>7, <1>8, <1>9 DEF HelixStep

LEMMA HelixTypes == HelixInv /\ Calendar => HelixTypeOK
BY DEF HelixInv, Calendar, HelixTypeOK

\* A programme misses at most MaxMissed milestones in a row; its phases, as they are
\* counted, are then at most those of its weeks.
ProgramBounded == missed \in 0 .. MaxMissed /\ paused \in BOOLEAN /\ excused \in BOOLEAN

LEMMA BoundedStarts == ProgramInit => ProgramBounded
<1> SUFFICES ASSUME ProgramInit PROVE ProgramBounded
  OBVIOUS
<1>1. missed \in 0 .. MaxMissed
  BY GardnerAssumption DEF ProgramInit
<1>2. paused \in BOOLEAN /\ excused \in BOOLEAN
  BY DEF ProgramInit
<1> QED
  BY <1>1, <1>2 DEF ProgramBounded

LEMMA BoundedKept == ProgramBounded /\ [ProgramStep]_programVars => ProgramBounded'
<1> SUFFICES ASSUME ProgramBounded, [ProgramStep]_programVars PROVE ProgramBounded'
  OBVIOUS
<1>1. MaxMissed \in Nat /\ missed \in 0 .. MaxMissed
  BY GardnerAssumption DEF ProgramBounded
<1>2. CASE RecordMissedMilestone
  <2>1. missed' \in 0 .. MaxMissed
    BY <1>1, <1>2 DEF RecordMissedMilestone
  <2>2. paused' \in BOOLEAN /\ excused' \in BOOLEAN
    BY <1>2 DEF RecordMissedMilestone
  <2> QED
    BY <2>1, <2>2 DEF ProgramBounded
<1>3. CASE ResetMissedMilestones
  BY <1>1, <1>3 DEF ResetMissedMilestones, ProgramBounded
<1>4. CASE StartProgram \/ AdvanceProgram \/ PauseProgram \/ ResumeProgram
  BY <1>4 DEF StartProgram, AdvanceProgram, PauseProgram, ResumeProgram, ProgramBounded
<1>5. CASE UNCHANGED programVars
  BY <1>5 DEF programVars, ProgramBounded
<1> QED
  BY <1>2, <1>3, <1>4, <1>5 DEF ProgramStep

LEMMA ProgramTypes == ProgramInv /\ ProgramBounded => ProgramTypeOK
<1> SUFFICES ASSUME ProgramInv, ProgramBounded PROVE ProgramTypeOK
  OBVIOUS
<1>1. /\ week \in 0 .. Weeks /\ phase \in 0 .. Phases /\ (week = 0 <=> phase = 0)
      /\ phasesCompleted \in Nat /\ Weeks \in Nat \ {0} /\ Phases \in Nat \ {0}
  BY GardnerAssumption DEF ProgramInv
<1>2. Weeks * Phases \in Nat
  BY <1>1
<1>3. phasesCompleted <= Weeks * Phases
  <2>1. CASE week = 0
    <3>1. phasesCompleted = 0 \/ phasesCompleted = Weeks * Phases
      BY <2>1 DEF ProgramInv, PhasesCounted, PlaceIsCounted
    <3> DEFINE all == Weeks * Phases
    <3> HIDE DEF all
    <3>2. all \in Nat /\ (phasesCompleted = 0 \/ phasesCompleted = all)
      BY <1>2, <3>1 DEF all
    <3>3. phasesCompleted <= all
      BY <3>2
    <3> QED
      BY <3>3 DEF all
  <2>2. CASE week # 0
    <3>1. phasesCompleted = Phases * (week - 1) + (phase - 1)
      BY <2>2 DEF ProgramInv, PhasesCounted, PlaceIsCounted
    <3>2. week * Phases <= Weeks * Phases
      BY <1>1, TimesLeq
    <3>3. Phases * (week - 1) + Phases = week * Phases
      <4>1. week \in Nat /\ week + 1 - 1 = week
        BY <1>1
      <4>2. Phases * week = Phases * (week - 1) + Phases
        BY <4>1, WeekMore
      <4> QED
        BY <1>1, <4>2
    <3> DEFINE before == Phases * (week - 1)
               now == week * Phases
               all == Weeks * Phases
    <3>4. before \in Int /\ now \in Int /\ all \in Int
      BY <1>1
    <3> HIDE DEF before, now, all
    <3>5. phasesCompleted = before + (phase - 1) /\ now <= all /\ before + Phases = now
      BY <3>1, <3>2, <3>3 DEF before, now, all
    <3>6. phasesCompleted <= all
      BY <1>1, <3>4, <3>5
    <3> QED
      BY <3>6 DEF all
  <2> QED
    BY <2>1, <2>2
<1>4. phasesCompleted \in 0 .. (Weeks * Phases)
  <2> DEFINE all == Weeks * Phases
  <2> HIDE DEF all
  <2>1. all \in Nat /\ phasesCompleted <= all
    BY <1>2, <1>3 DEF all
  <2>2. phasesCompleted \in 0 .. all
    BY <1>1, <2>1
  <2> QED
    BY <2>2 DEF all
<1> QED
  BY <1>1, <1>4 DEF ProgramBounded, ProgramTypeOK

\* What the ledger counts is bounded by what there is to discover, and so is the row.
LEMMA JourneyTypesStart == JourneyInit => JourneyTypeOK
BY JourneyAssumption DEF JourneyInit, JourneyTypeOK, JourneyStages, Ledgers

CountedRow == [stage : JourneyStages, discoveries : 0 .. MaxDiscovered,
               families : 0 .. MaxDiscovered, forced : JourneyStages \cup {"none"}]

LEMMA ComputedType ==
  ASSUME ledger \in Ledgers, NEW j \in CountedRow
  PROVE  Computed(j) \in CountedRow
<1> DEFINE counted == [j EXCEPT !.discoveries = ledger.discoveries, !.families = ledger.families]
<1>1. counted \in CountedRow
  BY DEF CountedRow, Ledgers
<1> HIDE DEF counted
<1>2. [counted EXCEPT !.stage = "mapping_ready"] \in CountedRow
  BY <1>1 DEF CountedRow, JourneyStages
<1>3. Computed(j) \in {counted, [counted EXCEPT !.stage = "mapping_ready"]}
  BY DEF Computed, counted
<1> QED
  BY <1>1, <1>2, <1>3

LEMMA JourneyTypesKept == JourneyTypeOK /\ [JourneyStep]_journeyVars => JourneyTypeOK'
<1> SUFFICES ASSUME JourneyTypeOK, [JourneyStep]_journeyVars PROVE JourneyTypeOK'
  OBVIOUS
<1>1. ledger \in Ledgers /\ journey \in CountedRow /\ grounds \subseteq JourneyStages
  BY DEF JourneyTypeOK, CountedRow
<1>2. Computed(journey) \in CountedRow /\ Asked \subseteq JourneyStages
  BY <1>1, ComputedType DEF Asked, JourneyStages
<1>3. SUFFICES ledger' \in Ledgers /\ journey' \in CountedRow /\ grounds' \subseteq JourneyStages
  BY DEF JourneyTypeOK, CountedRow, Ledgers
<1>4. CASE LedgerRewritten
  BY <1>1, <1>4 DEF LedgerRewritten
<1>5. CASE ReadOrCompute
  BY <1>1, <1>2, <1>5 DEF ReadOrCompute
<1>6. CASE ClearOverride
  <2> DEFINE cleared == [Computed(journey) EXCEPT !.forced = "none"]
  <2>1. cleared \in CountedRow
    BY <1>2 DEF CountedRow
  <2>2. journey' = Computed(cleared) /\ grounds' = Asked /\ ledger' = ledger
    BY <1>6 DEF ClearOverride
  <2> HIDE DEF cleared
  <2> QED
    BY <1>1, <1>2, <2>1, <2>2, ComputedType
<1>7. ASSUME NEW stage \in JourneyStages, ForceStage(stage)
      PROVE  ledger' \in Ledgers /\ journey' \in CountedRow /\ grounds' \subseteq JourneyStages
  <2>1. /\ journey' = [Computed(journey) EXCEPT !.stage = stage, !.forced = stage]
        /\ grounds' = {stage} /\ ledger' = ledger
    BY <1>7 DEF ForceStage
  <2>2. journey' \in CountedRow
    BY <1>2, <2>1 DEF CountedRow
  <2> QED
    BY <1>1, <2>1, <2>2
<1>8. CASE UNCHANGED journeyVars
  BY <1>1, <1>8 DEF journeyVars
<1> QED
  BY <1>4, <1>5, <1>6, <1>7, <1>8 DEF JourneyStep

\* Who spoke in a group, how long each child kept silent, and how long it was not asked.
LEMMA TrioTypesStart == TrioInit => TrioTypeOK
<1> SUFFICES ASSUME TrioInit PROVE TrioTypeOK
  OBVIOUS
<1>1. Tolerance \in [Children -> Nat \ {0}] /\ RateWindow \in Nat \ {0}
  BY TrioAssumption
<1>2. recent = <<>> /\ silent = [c \in Children |-> 0] /\ waiting = [c \in Children |-> 0]
  BY DEF TrioInit
<1>3. <<>> \in Seq(Children \cup {Bot}) /\ Len(<<>>) = 0
  OBVIOUS
<1>4. \A c \in Children : silent[c] <= Tolerance[c]
  BY <1>1, <1>2
<1> QED
  BY <1>1, <1>2, <1>3, <1>4 DEF TrioTypeOK

LEMMA TrioTypesTyped == TrioTypeOK => TrioTyped
<1> SUFFICES ASSUME TrioTypeOK PROVE TrioTyped
  OBVIOUS
<1>1. Children \cup {Bot} \subseteq Nat
  BY TrioAssumption DEF Bot
<1> QED
  BY <1>1 DEF TrioTypeOK, TrioTyped

LEMMA SpokenType ==
  ASSUME TrioTypeOK, NEW who \in Children \cup {Bot}, Spoken(who)
  PROVE  /\ recent' \in Seq(Children \cup {Bot}) /\ Len(recent') <= RateWindow
         /\ silent' \in [Children -> Nat] /\ \A c \in Children : silent'[c] <= Tolerance[c]
<1> DEFINE P == Children \cup {Bot}
<1>1. /\ recent \in Seq(P) /\ Len(recent) <= RateWindow /\ RateWindow \in Nat \ {0}
      /\ Tolerance \in [Children -> Nat \ {0}]
      /\ silent \in [Children -> Nat] /\ \A c \in Children : silent[c] <= Tolerance[c]
  BY TrioAssumption DEF TrioTypeOK
<1>2. who \in P
  OBVIOUS
<1> HIDE DEF P
<1>3. recent' \in Seq(P) /\ Len(recent') <= RateWindow
  <2>1. CASE Len(recent) < RateWindow
    <3>1. recent' = Append(recent, who)
      BY <2>1 DEF Spoken
    <3> QED
      BY <1>1, <1>2, <2>1, <3>1
  <2>2. CASE ~ (Len(recent) < RateWindow)
    <3>1. recent' = Append(Tail(recent), who) /\ recent # <<>>
      BY <1>1, <2>2 DEF Spoken
    <3>2. Tail(recent) \in Seq(P) /\ Len(Tail(recent)) = Len(recent) - 1
      BY <1>1, <3>1
    <3> QED
      BY <1>1, <1>2, <3>1, <3>2
  <2> QED
    BY <2>1, <2>2
<1>4. /\ silent' \in [Children -> Nat]
      /\ \A c \in Children : silent'[c] <= Tolerance[c]
  BY <1>1 DEF Spoken
<1> QED
  BY <1>3, <1>4 DEF P

LEMMA TrioTypesKept == TrioTypeOK /\ [TrioStep]_trioVars => TrioTypeOK'
<1> SUFFICES ASSUME TrioTypeOK, [TrioStep]_trioVars PROVE TrioTypeOK'
  OBVIOUS
<1>1. waiting \in [Children -> 0 .. RateWindow] /\ RateWindow \in Nat \ {0}
  BY TrioAssumption DEF TrioTypeOK
<1>2. ASSUME NEW who \in Children \cup {Bot}, Spoken(who), waiting' \in [Children -> 0 .. RateWindow]
      PROVE  TrioTypeOK'
  BY <1>2, SpokenType DEF TrioTypeOK
<1>3. CASE BotTurn
  BY <1>1, <1>2, <1>3 DEF BotTurn
<1>4. CASE ChildTurn
  <2>1. PICK s \in BrejoSignals :
          LET next == PickNextChild(Children \ s.sensory)
          IN  /\ Spoken(next)
              /\ waiting' = [c \in Children |->
                            IF c = next \/ c \in s.sensory THEN 0
                            ELSE IF waiting[c] < RateWindow THEN waiting[c] + 1
                            ELSE RateWindow]
    BY <1>4 DEF ChildTurn
  <2>2. Children \ s.sensory # {}
    BY TrioAssumption DEF BrejoSignals, PauseFull
  <2>3. PickNextChild(Children \ s.sensory) \in Children
    BY <2>2, NextIsChild, TrioTypesTyped
  <2>4. waiting' \in [Children -> 0 .. RateWindow]
    BY <1>1, <2>1
  <2> QED
    BY <1>2, <2>1, <2>3, <2>4
<1>5. ASSUME NEW c \in Children, Interjection(c) PROVE TrioTypeOK'
  <2>1. waiting' \in [Children -> 0 .. RateWindow]
    BY <1>1, <1>5 DEF Interjection
  <2> QED
    BY <1>2, <1>5, <2>1 DEF Interjection
<1>6. CASE UNCHANGED trioVars
  BY <1>6 DEF trioVars, TrioTypeOK
<1> QED
  BY <1>3, <1>4, <1>5, <1>6 DEF TrioStep

\* What the page, the requests and the console hold, and how many texts there are at most:
\* those that came, and one for each preview that is asked for.
Draft == [text : 0 .. Empty, approved : BOOLEAN]

OnbBounded ==
  /\ texts \in Nat /\ asking \subseteq [child : OnbChildren, shown : BOOLEAN] /\ IsFiniteSet(asking)
  /\ texts + Cardinality(asking) <= MaxMessages
  /\ approvals \in [OnbChildren -> Draft]
  /\ loading \subseteq OnbChildren /\ draft \in BOOLEAN
  /\ record \in {"none", "in_progress", "complete"}
  /\ submits \in 0 .. MaxSubmits /\ profile \in 0 .. submits /\ onbFaults \in 0 .. MaxOnbFaults

OnbPage == <<texts, asking, approvals, loading>>
OnbStore == <<draft, record, submits, profile, onbFaults>>

LEMMA OnbNumbers ==
  /\ MaxMessages \in Nat /\ MaxSubmits \in Nat /\ MaxOnbFaults \in Nat
  /\ Empty \in Nat /\ Empty = MaxMessages + 1
BY OnbAssumption DEF Empty

LEMMA OnbTypes == OnbInv /\ OnbBounded => OnbTypeOK
<1> SUFFICES ASSUME OnbInv, OnbBounded PROVE OnbTypeOK
  OBVIOUS
<1>1. /\ texts \in Nat /\ Cardinality(asking) \in Nat
      /\ texts + Cardinality(asking) <= MaxMessages
  BY FS_CardinalityType DEF OnbBounded
<1>2. texts \in 0 .. MaxMessages
  BY <1>1, OnbNumbers
<1>3. step \in 9..11 /\ ready \in BOOLEAN /\ request.at \in {"idle", "sent", "served", "refused"}
  BY DEF OnbInv, OnbTyped, Request
<1> QED
  BY <1>2, <1>3 DEF OnbBounded, Draft, OnbTypeOK

LEMMA OnbBoundedStarts == OnbInit => OnbBounded
<1> SUFFICES ASSUME OnbInit PROVE OnbBounded
  OBVIOUS
<1>1. asking = {} /\ texts = 0 /\ IsFiniteSet(asking) /\ Cardinality(asking) = 0
  BY FS_EmptySet DEF OnbInit
<1>2. texts \in Nat /\ texts + Cardinality(asking) <= MaxMessages
  BY <1>1, OnbNumbers
<1>3. approvals \in [OnbChildren -> Draft]
  <2>1. NoText \in Draft
    BY OnbNumbers DEF NoText, Draft
  <2> QED
    BY <2>1 DEF OnbInit
<1>4. loading = {} /\ draft = FALSE /\ record = "none" /\ submits = 0 /\ profile = 0 /\ onbFaults = 0
  BY DEF OnbInit
<1>5. submits \in 0 .. MaxSubmits /\ profile \in 0 .. submits /\ onbFaults \in 0 .. MaxOnbFaults
  BY <1>4, OnbNumbers
<1>6. draft \in BOOLEAN
  BY <1>4
<1> QED
  BY <1>1, <1>2, <1>3, <1>4, <1>5, <1>6 DEF OnbBounded

\* The steps of the page and those of the console leave the others' part as it is.
LEMMA PageBounded ==
  ASSUME OnbBounded, UNCHANGED <<record, submits, profile, onbFaults>>, draft' \in BOOLEAN,
         texts' \in Nat, asking' \subseteq [child : OnbChildren, shown : BOOLEAN],
         IsFiniteSet(asking'), texts' + Cardinality(asking') <= MaxMessages,
         approvals' \in [OnbChildren -> Draft], loading' \subseteq OnbChildren
  PROVE  OnbBounded'
BY DEF OnbBounded

LEMMA StoreBounded ==
  ASSUME OnbBounded, UNCHANGED OnbPage, draft' \in BOOLEAN,
         record' \in {"none", "in_progress", "complete"},
         submits' \in 0 .. MaxSubmits, profile' \in 0 .. submits', onbFaults' \in 0 .. MaxOnbFaults
  PROVE  OnbBounded'
BY DEF OnbBounded, OnbPage

LEMMA AskedElsewhere ==
  ASSUME OnbBounded
  PROVE  /\ Left \subseteq [child : OnbChildren, shown : BOOLEAN] /\ IsFiniteSet(Left)
         /\ Cardinality(Left) <= Cardinality(asking)
         /\ Cardinality(Left) \in Nat /\ Cardinality(asking) \in Nat
<1>1. asking \subseteq [child : OnbChildren, shown : BOOLEAN] /\ IsFiniteSet(asking)
  BY DEF OnbBounded
<1> DEFINE left == [a \in asking |-> [a EXCEPT !.shown = FALSE]]
<1>2. Left = {left[a] : a \in asking}
  BY DEF Left
<1>3. left \in Surjection(asking, Left)
  BY <1>2 DEF Surjection
<1>4. \A a \in asking : [a EXCEPT !.shown = FALSE] \in [child : OnbChildren, shown : BOOLEAN]
  BY <1>1
<1>5. Left \subseteq [child : OnbChildren, shown : BOOLEAN]
  BY <1>4 DEF Left
<1> QED
  BY <1>1, <1>3, <1>5, FS_Surjection, FS_CardinalityType

LEMMA TurnedBounded ==
  ASSUME OnbBounded, loading' = {}, asking' = Left, draft' \in BOOLEAN,
         UNCHANGED <<approvals, texts, record, submits, profile, onbFaults>>
  PROVE  OnbBounded'
<1>1. /\ texts \in Nat /\ texts + Cardinality(asking) <= MaxMessages
      /\ approvals \in [OnbChildren -> Draft]
  BY DEF OnbBounded
<1>2. texts + Cardinality(Left) <= MaxMessages
  BY <1>1, AskedElsewhere, OnbNumbers
<1>3. /\ texts' \in Nat /\ texts' + Cardinality(asking') <= MaxMessages
      /\ approvals' \in [OnbChildren -> Draft]
  BY <1>1, <1>2
<1>4. asking' \subseteq [child : OnbChildren, shown : BOOLEAN] /\ IsFiniteSet(asking')
  BY AskedElsewhere
<1> QED
  BY <1>3, <1>4, PageBounded

LEMMA UnapprovedType ==
  ASSUME OnbBounded, NEW c \in OnbChildren, NEW t \in 0 .. Empty
  PROVE  Unapproved(c, t) \in [OnbChildren -> Draft]
<1>1. [text |-> t, approved |-> FALSE] \in Draft
  BY DEF Draft
<1> QED
  BY <1>1 DEF Unapproved, OnbBounded

LEMMA GenerateBounded ==
  ASSUME OnbBounded, NEW c \in OnbChildren, Generate(c)
  PROVE  OnbBounded'
<1> DEFINE more == [child |-> c, shown |-> TRUE]
<1>1. /\ texts \in Nat /\ IsFiniteSet(asking) /\ Cardinality(asking) \in Nat
      /\ asking \subseteq [child : OnbChildren, shown : BOOLEAN]
      /\ texts + Cardinality(asking) < MaxMessages
      /\ asking' = asking \cup {more}
  BY FS_CardinalityType DEF OnbBounded, Generate
<1>2. more \in [child : OnbChildren, shown : BOOLEAN]
  OBVIOUS
<1> HIDE DEF more
<1>3. IsFiniteSet(asking') /\ Cardinality(asking') <= Cardinality(asking) + 1
      /\ Cardinality(asking') \in Nat
  <2>1. /\ IsFiniteSet(asking \cup {more})
        /\ Cardinality(asking \cup {more}) = IF more \in asking THEN Cardinality(asking)
                                             ELSE Cardinality(asking) + 1
    BY <1>1, FS_AddElement
  <2> QED
    BY <1>1, <2>1
<1>4. texts + Cardinality(asking') <= MaxMessages
  BY <1>1, <1>3, OnbNumbers
<1>5. texts' = texts /\ approvals' \in [OnbChildren -> Draft] /\ loading' \subseteq OnbChildren
  BY DEF Generate, OnbBounded
<1>6. UNCHANGED <<record, submits, profile, onbFaults>> /\ draft' \in BOOLEAN
  BY DEF Generate, OnbBounded, storeVars
<1>7. asking' \subseteq [child : OnbChildren, shown : BOOLEAN]
  BY <1>1, <1>2
<1>8. texts' \in Nat /\ texts' + Cardinality(asking') <= MaxMessages
  BY <1>1, <1>4, <1>5
<1> QED
  BY <1>3, <1>5, <1>6, <1>7, <1>8, PageBounded

LEMMA AnswerBounded ==
  ASSUME OnbBounded, NEW a \in asking, Answer(a)
  PROVE  OnbBounded'
<1>1. /\ texts \in Nat /\ IsFiniteSet(asking) /\ Cardinality(asking) \in Nat
      /\ asking \subseteq [child : OnbChildren, shown : BOOLEAN]
      /\ texts + Cardinality(asking) <= MaxMessages
      /\ asking' = asking \ {a}
  BY FS_CardinalityType DEF OnbBounded, Answer
<1>2. /\ IsFiniteSet(asking') /\ Cardinality(asking') = Cardinality(asking) - 1
      /\ asking' \subseteq [child : OnbChildren, shown : BOOLEAN]
  BY <1>1, FS_RemoveElement
<1>3. a.child \in OnbChildren
  BY <1>1
<1>4. texts' \in {texts, texts + 1} /\ approvals' \in [OnbChildren -> Draft]
  <2>1. CASE Generated(a)
    <3>1. texts' = texts + 1 /\ approvals' = Unapproved(a.child, texts')
      BY <2>1 DEF Generated
    <3>2. Cardinality(asking) >= 1
      BY <1>1, <1>2, FS_CardinalityType
    <3>3. texts + 1 \in 0 .. Empty
      BY <1>1, <3>2, OnbNumbers
    <3>4. Unapproved(a.child, texts + 1) \in [OnbChildren -> Draft]
      BY <1>3, <3>3, UnapprovedType
    <3> QED
      BY <3>1, <3>4
  <2>2. CASE UNCHANGED <<texts, approvals, surprised>>
    BY <2>2 DEF OnbBounded
  <2> QED
    BY <2>1, <2>2 DEF Answer
<1>5. texts' \in Nat /\ texts' + Cardinality(asking') <= MaxMessages
  BY <1>1, <1>2, <1>4, OnbNumbers
<1>6. loading' \subseteq OnbChildren
  BY DEF Answer, OnbBounded
<1>7. UNCHANGED <<record, submits, profile, onbFaults>> /\ draft' \in BOOLEAN
  BY DEF Answer, OnbBounded, storeVars
<1> QED
  BY <1>2, <1>4, <1>5, <1>6, <1>7, PageBounded

LEMMA EditBounded ==
  ASSUME OnbBounded, NEW c \in OnbChildren, SaveEdit(c)
  PROVE  OnbBounded'
<1>1. /\ texts \in Nat /\ IsFiniteSet(asking) /\ Cardinality(asking) \in Nat
      /\ asking \subseteq [child : OnbChildren, shown : BOOLEAN]
      /\ texts + Cardinality(asking) <= MaxMessages /\ loading \subseteq OnbChildren
      /\ approvals \in [OnbChildren -> Draft]
  BY FS_CardinalityType DEF OnbBounded
<1>2. UNCHANGED <<loading, asking, record, submits, profile, onbFaults>> /\ draft' \in BOOLEAN
  BY DEF SaveEdit, OnbBounded, storeVars
<1>3. texts' \in Nat /\ texts' + Cardinality(asking) <= MaxMessages
      /\ approvals' \in [OnbChildren -> Draft]
  <2>1. CASE approvals' = Unapproved(c, approvals[c].text) /\ UNCHANGED texts
    <3>1. approvals[c].text \in 0 .. Empty
      BY <1>1 DEF Draft
    <3> QED
      BY <1>1, <2>1, <3>1, UnapprovedType
  <2>2. CASE /\ texts + Cardinality(asking) < MaxMessages
             /\ texts' = texts + 1
             /\ \E t \in {texts', Empty} : approvals' = Unapproved(c, t)
    <3>1. PICK t \in {texts + 1, Empty} : approvals' = Unapproved(c, t)
      BY <2>2
    <3>2. texts + 1 \in 0 .. Empty /\ Empty \in 0 .. Empty
      BY <1>1, <2>2, OnbNumbers
    <3>3. approvals' \in [OnbChildren -> Draft]
      BY <3>1, <3>2, UnapprovedType
    <3> QED
      BY <1>1, <2>2, <3>3, OnbNumbers
  <2> QED
    BY <2>1, <2>2 DEF SaveEdit
<1> QED
  BY <1>1, <1>2, <1>3, PageBounded

LEMMA OnbBoundedKept == OnbBounded /\ [OnbStep]_onbVars => OnbBounded'
<1> SUFFICES ASSUME OnbBounded, [OnbStep]_onbVars PROVE OnbBounded'
  OBVIOUS
<1>1. /\ submits \in 0 .. MaxSubmits /\ profile \in 0 .. submits /\ onbFaults \in 0 .. MaxOnbFaults
      /\ draft \in BOOLEAN /\ record \in {"none", "in_progress", "complete"}
      /\ MaxSubmits \in Nat /\ MaxOnbFaults \in Nat
  BY OnbNumbers DEF OnbBounded
<1>2. CASE NextStep \/ PreviousStep
  BY <1>1, <1>2, TurnedBounded DEF NextStep, PreviousStep, storeVars
<1>3. CASE Finish
  <2>1. submits' = submits + 1 /\ submits < MaxSubmits /\ UNCHANGED <<profile, onbFaults, draft, record>>
    BY <1>3 DEF Finish, storeVars
  <2>2. submits' \in 0 .. MaxSubmits /\ profile' \in 0 .. submits'
    BY <1>1, <2>1
  <2>3. UNCHANGED OnbPage
    BY <1>3 DEF Finish, OnbPage, wizardVars
  <2> QED
    BY <1>1, <2>1, <2>2, <2>3, StoreBounded
<1>4. CASE UNCHANGED <<OnbPage, OnbStore>>
  BY <1>1, <1>4, StoreBounded DEF OnbStore
<1>5. CASE Finished \/ FinishFails \/ UNCHANGED onbVars
  BY <1>4, <1>5 DEF Finished, FinishFails, OnbPage, OnbStore, wizardVars, storeVars, onbVars
<1>6. ASSUME NEW c \in OnbChildren, CancelMc1(c) \/ DeliverMc1(c) PROVE OnbBounded'
  BY <1>4, <1>6 DEF CancelMc1, DeliverMc1, OnbPage, OnbStore, wizardVars, storeVars
<1>7. ASSUME NEW c \in OnbChildren, Approve(c) PROVE OnbBounded'
  <2>1. approvals' \in [OnbChildren -> Draft]
    BY <1>7 DEF Approve, OnbBounded, Draft
  <2> QED
    BY <1>7, <2>1 DEF Approve, OnbBounded, storeVars
<1>8. CASE SaveDraft
  <2>1. draft' \in BOOLEAN /\ record' \in {"none", "in_progress", "complete"}
    BY <1>1, <1>8 DEF SaveDraft
  <2>2. UNCHANGED <<OnbPage, submits, profile, onbFaults>>
    BY <1>8 DEF SaveDraft, OnbPage, wizardVars
  <2> QED
    BY <1>1, <2>1, <2>2, StoreBounded
<1>9. CASE ProfileFails
  <2>1. onbFaults' \in 0 .. MaxOnbFaults
    BY <1>1, <1>9 DEF ProfileFails, OnbFault
  <2>2. record' = "complete" /\ UNCHANGED <<OnbPage, submits, profile, draft>>
    BY <1>9 DEF ProfileFails, OnbPage, wizardVars
  <2> QED
    BY <1>1, <2>1, <2>2, StoreBounded
<1>10. CASE Complete
  <2>1. onbFaults' \in 0 .. MaxOnbFaults
    BY <1>1, <1>10 DEF Complete, OnbFault
  <2>2. record' = "complete" /\ profile' = submits /\ UNCHANGED <<OnbPage, submits, draft>>
    BY <1>10 DEF Complete, OnbPage, wizardVars
  <2>3. submits \in 0 .. submits
    BY <1>1
  <2> QED
    BY <1>1, <2>1, <2>2, <2>3, StoreBounded
<1> QED
  BY <1>2, <1>3, <1>5, <1>6, <1>7, <1>8, <1>9, <1>10, GenerateBounded, AnswerBounded, EditBounded
     DEF OnbStep

-----------------------------------------------------------------------------
(* Everyone is asked *)

\* The turn of q that is the k-th from its end, and the turns of children in the last m.
Ago(q, k) == q[Len(q) + 1 - k]
ChildTurns(q, m) == Cardinality({k \in 1..m : Ago(q, k) # Bot})

\* In the last m turns c did not speak, and who did, not again within tau turns.
Apart(q, c, m, tau) ==
  \A k \in 1..m :
    /\ Ago(q, k) # c
    /\ \A j \in 1..m : (j < k /\ Ago(q, j) = Ago(q, k) /\ Ago(q, j) # Bot) => k - j > tau

\* next is q and one turn of x more, as far as its last m + 1 turns go.
OneMore(q, next, x, m) ==
  /\ Ago(next, 1) = x
  /\ \A k \in 1..m : Ago(next, k + 1) = Ago(q, k)

LEMMA WindowMoves ==
  ASSUME NEW q \in Seq(Nat), NEW W \in Nat \ {0}, Len(q) <= W, NEW x \in Nat
  PROVE  LET next == IF Len(q) < W THEN Append(q, x) ELSE Append(Tail(q), x)
         IN  /\ next \in Seq(Nat) /\ Len(next) = IF Len(q) < W THEN Len(q) + 1 ELSE W
             /\ \A m \in Nat : m < Len(next) => OneMore(q, next, x, m)
<1> DEFINE next == IF Len(q) < W THEN Append(q, x) ELSE Append(Tail(q), x)
<1>1. CASE Len(q) < W
  <2>1. /\ next \in Seq(Nat) /\ Len(next) = Len(q) + 1 /\ next[Len(next)] = x
        /\ \A i \in 1..Len(q) : next[i] = q[i]
    BY <1>1
  <2> HIDE DEF next
  <2>2. \A k \in 1..Len(q) : next[Len(next) + 1 - (k + 1)] = q[Len(q) + 1 - k]
    BY <2>1
  <2>3. next[Len(next) + 1 - 1] = x
    BY <2>1
  <2>4. ASSUME NEW m \in Nat, m < Len(next) PROVE OneMore(q, next, x, m)
    <3>1. \A k \in 1..m : k \in 1..Len(q)
      BY <2>1, <2>4
    <3> QED
      BY <2>2, <2>3, <3>1 DEF OneMore, Ago
  <2> QED
    BY <1>1, <2>1, <2>4 DEF next
<1>2. CASE ~(Len(q) < W)
  <2>1. Len(q) = W /\ q # <<>>
    BY <1>2
  <2>2. /\ Tail(q) \in Seq(Nat) /\ Len(Tail(q)) = W - 1
        /\ \A i \in 1..(W - 1) : Tail(q)[i] = q[i + 1]
    BY <2>1
  <2>3. /\ next \in Seq(Nat) /\ Len(next) = W /\ next[W] = x
        /\ \A i \in 1..(W - 1) : next[i] = q[i + 1]
    <3>1. next = Append(Tail(q), x)
      BY <1>2
    <3> QED
      BY <2>2, <3>1
  <2> HIDE DEF next
  <2>4. \A k \in 1..(W - 1) : next[Len(next) + 1 - (k + 1)] = q[Len(q) + 1 - k]
    <3> SUFFICES ASSUME NEW k \in 1..(W - 1)
                 PROVE  next[Len(next) + 1 - (k + 1)] = q[Len(q) + 1 - k]
      OBVIOUS
    <3>1. W - k \in 1..(W - 1) /\ Len(next) + 1 - (k + 1) = W - k /\ Len(q) + 1 - k = (W - k) + 1
      BY <2>1, <2>3
    <3> QED
      BY <2>3, <3>1
  <2>5. next[Len(next) + 1 - 1] = x
    BY <2>3
  <2>6. ASSUME NEW m \in Nat, m < Len(next) PROVE OneMore(q, next, x, m)
    <3>1. \A k \in 1..m : k \in 1..(W - 1)
      BY <2>3, <2>6
    <3> QED
      BY <2>4, <2>5, <3>1 DEF OneMore, Ago
  <2> QED
    BY <1>2, <2>3, <2>6 DEF next
<1> QED
  BY <1>1, <1>2

LEMMA ChildTurnsFinite ==
  ASSUME NEW q, NEW m \in Nat
  PROVE  IsFiniteSet({k \in 1..m : Ago(q, k) # Bot}) /\ ChildTurns(q, m) \in Nat
<1>1. IsFiniteSet(1..m)
  BY FS_Interval
<1>2. IsFiniteSet({k \in 1..m : Ago(q, k) # Bot})
  BY <1>1, FS_Subset
<1> QED
  BY <1>2, FS_CardinalityType DEF ChildTurns

\* A turn more of a child is one more of the children, and none is lost.
LEMMA ChildTurnsMore ==
  ASSUME NEW q, NEW next, NEW x, NEW m \in Nat, OneMore(q, next, x, m)
  PROVE  /\ ChildTurns(q, m) <= ChildTurns(next, m + 1)
         /\ x # Bot => ChildTurns(q, m) + 1 <= ChildTurns(next, m + 1)
<1> DEFINE was == {k \in 1..m : Ago(q, k) # Bot}
           is == {k \in 1..(m + 1) : Ago(next, k) # Bot}
           place == [k \in was |-> k + 1]
<1>1. \A k \in was : k + 1 \in is \ {1}
  BY DEF OneMore
<1>2. \A j, k \in was : j + 1 = k + 1 => j = k
  OBVIOUS
<1>3. IsFiniteSet(is) /\ Cardinality(is) \in Nat /\ Cardinality(is) = ChildTurns(next, m + 1)
  <2>1. m + 1 \in Nat
    OBVIOUS
  <2> QED
    BY <2>1, ChildTurnsFinite DEF ChildTurns
<1>4. Cardinality(was) \in Nat /\ Cardinality(was) = ChildTurns(q, m)
  BY ChildTurnsFinite DEF ChildTurns
<1>5. x # Bot => 1 \in is
  BY DEF OneMore
<1> HIDE DEF was, is
<1>6. place \in Injection(was, is \ {1})
  BY <1>1, <1>2 DEF Injection, IsInjective
<1>7. /\ IsFiniteSet(is \ {1})
      /\ Cardinality(is \ {1}) = IF 1 \in is THEN Cardinality(is) - 1 ELSE Cardinality(is)
  BY <1>3, FS_RemoveElement
<1> HIDE DEF place
<1>8. Cardinality(was) <= Cardinality(is \ {1})
  BY <1>6, <1>7, FS_Injection
<1>9. /\ Cardinality(was) <= Cardinality(is)
      /\ x # Bot => Cardinality(was) + 1 <= Cardinality(is)
  BY <1>3, <1>4, <1>5, <1>7, <1>8
<1> QED
  BY <1>3, <1>4, <1>9

\* Turns stay apart if who speaks is not the child, and did not speak in the last tau turns.
LEMMA ApartMore ==
  ASSUME NEW q, NEW next, NEW x, NEW c, NEW m \in Nat, NEW tau \in Nat,
         Apart(q, c, m, tau), OneMore(q, next, x, m), x # c,
         x # Bot => \A k \in 1..m : k <= tau => Ago(q, k) # x
  PROVE  Apart(next, c, m + 1, tau)
<1> SUFFICES ASSUME NEW k \in 1..(m + 1)
             PROVE  /\ Ago(next, k) # c
                    /\ \A j \in 1..(m + 1) :
                         (j < k /\ Ago(next, j) = Ago(next, k) /\ Ago(next, j) # Bot) => k - j > tau
  BY DEF Apart
<1>1. \A i \in 1..(m + 1) : i = 1 \/ (i - 1 \in 1..m /\ Ago(next, i) = Ago(q, i - 1))
  <2> SUFFICES ASSUME NEW i \in 1..(m + 1), i # 1
               PROVE  i - 1 \in 1..m /\ Ago(next, i) = Ago(q, i - 1)
    OBVIOUS
  <2>1. i - 1 \in 1..m /\ (i - 1) + 1 = i
    OBVIOUS
  <2> QED
    BY <2>1 DEF OneMore
<1>2. Ago(next, k) # c
  BY <1>1 DEF OneMore, Apart
<1>3. ASSUME NEW j \in 1..(m + 1), j < k, Ago(next, j) = Ago(next, k), Ago(next, j) # Bot
      PROVE  k - j > tau
  <2>1. k - 1 \in 1..m /\ Ago(next, k) = Ago(q, k - 1)
    BY <1>1, <1>3
  <2>2. CASE j = 1
    <3>1. Ago(q, k - 1) = x /\ x # Bot
      BY <1>3, <2>1, <2>2 DEF OneMore
    <3>2. ~(k - 1 <= tau)
      BY <2>1, <3>1
    <3> QED
      BY <2>2, <3>2
  <2>3. CASE j # 1
    <3>1. j - 1 \in 1..m /\ Ago(next, j) = Ago(q, j - 1) /\ j - 1 < k - 1
      BY <1>1, <1>3, <2>3
    <3>2. (k - 1) - (j - 1) > tau
      BY <1>3, <2>1, <3>1 DEF Apart
    <3> QED
      BY <3>2
  <2> QED
    BY <2>2, <2>3
<1> QED
  BY <1>2, <1>3

\* Of tau + 1 turns on end, each child but the one that waits has at most one.
LEMMA OneEach ==
  ASSUME NEW q, NEW c \in Children, NEW m \in Nat, NEW tau \in Nat, NEW a \in Nat,
         Apart(q, c, m, tau), \A k \in 1..m : Ago(q, k) \in Children \cup {Bot}
  PROVE  LET block == {k \in 1..m : Ago(q, k) # Bot /\ a < k /\ k <= a + tau + 1}
         IN  /\ IsFiniteSet(block) /\ Cardinality(block) \in Nat
             /\ Cardinality(block) <= Cardinality(Children) - 1
<1> DEFINE block == {k \in 1..m : Ago(q, k) # Bot /\ a < k /\ k <= a + tau + 1}
           place == [k \in block |-> Ago(q, k)]
<1>1. \A k \in block : Ago(q, k) \in Children \ {c}
  BY DEF Apart
<1>2. \A j, k \in block : Ago(q, j) = Ago(q, k) => j = k
  <2> SUFFICES ASSUME NEW j \in block, NEW k \in block, Ago(q, j) = Ago(q, k), j < k
               PROVE  FALSE
    OBVIOUS
  <2>1. k - j > tau
    BY DEF Apart
  <2> QED
    BY <2>1
<1> HIDE DEF block
<1>3. place \in Injection(block, Children \ {c})
  BY <1>1, <1>2 DEF Injection, IsInjective
<1>4. /\ IsFiniteSet(Children \ {c})
      /\ Cardinality(Children \ {c}) = Cardinality(Children) - 1
  BY TrioAssumption, FS_RemoveElement
<1> HIDE DEF place
<1>5. IsFiniteSet(block) /\ Cardinality(block) <= Cardinality(Children \ {c})
  BY <1>3, <1>4, FS_Injection
<1>6. Cardinality(block) \in Nat
  BY <1>5, FS_CardinalityType
<1> QED
  BY <1>4, <1>5, <1>6 DEF block

LEMMA TwoEach ==
  ASSUME NEW q, NEW c \in Children, NEW m \in Nat, NEW tau \in Nat, m <= 2 * (tau + 1),
         Apart(q, c, m, tau), \A k \in 1..m : Ago(q, k) \in Children \cup {Bot}
  PROVE  ChildTurns(q, m) <= 2 * (Cardinality(Children) - 1)
<1> DEFINE last == {k \in 1..m : Ago(q, k) # Bot /\ 0 < k /\ k <= 0 + tau + 1}
           before == {k \in 1..m : Ago(q, k) # Bot /\ tau + 1 < k /\ k <= (tau + 1) + tau + 1}
           all == {k \in 1..m : Ago(q, k) # Bot}
<1>1. all = last \cup before /\ last \cap before = {}
  OBVIOUS
<1>2. /\ IsFiniteSet(last) /\ Cardinality(last) \in Nat
      /\ Cardinality(last) <= Cardinality(Children) - 1
  BY OneEach
<1>3. /\ IsFiniteSet(before) /\ Cardinality(before) \in Nat
      /\ Cardinality(before) <= Cardinality(Children) - 1
  BY OneEach, tau + 1 \in Nat
<1>4. ChildTurns(q, m) = Cardinality(all)
  BY DEF ChildTurns
<1> HIDE DEF last, before, all
<1>5. Cardinality(all) = Cardinality(last) + Cardinality(before)
  <2>1. Cardinality(last \cup before)
          = Cardinality(last) + Cardinality(before) - Cardinality(last \cap before)
    BY <1>2, <1>3, FS_Union
  <2>2. Cardinality(last \cap before) = 0
    BY <1>1, FS_EmptySet
  <2> QED
    BY <1>1, <1>2, <1>3, <2>1, <2>2
<1>6. Cardinality(Children) \in Nat
  BY TrioAssumption, FS_CardinalityType
<1> QED
  BY <1>2, <1>3, <1>4, <1>5, <1>6

\* The turns that are not of a child are of the bot.
LEMMA TheRestIsTheBot ==
  ASSUME NEW q \in Seq(Nat), NEW m \in Nat, m <= Len(q)
  PROVE  m <= ChildTurns(q, m) + TurnsIn(q, Bot)
<1> DEFINE mine == {k \in 1..m : Ago(q, k) = Bot}
           theirs == {k \in 1..m : Ago(q, k) # Bot}
           turns == {i \in 1..Len(q) : q[i] = Bot}
           place == [k \in mine |-> Len(q) + 1 - k]
<1>1. \A k \in mine : Len(q) + 1 - k \in turns
  BY DEF Ago
<1>2. \A j, k \in mine : Len(q) + 1 - j = Len(q) + 1 - k => j = k
  OBVIOUS
<1>3. 1..m = mine \cup theirs /\ mine \cap theirs = {}
  OBVIOUS
<1>4. IsFiniteSet(turns) /\ Cardinality(turns) = TurnsIn(q, Bot) /\ TurnsIn(q, Bot) \in Nat
  BY TurnsAreNat DEF TurnsIn
<1>5. IsFiniteSet(theirs) /\ Cardinality(theirs) = ChildTurns(q, m) /\ ChildTurns(q, m) \in Nat
  BY ChildTurnsFinite DEF ChildTurns
<1> HIDE DEF mine, theirs, turns
<1>6. place \in Injection(mine, turns)
  BY <1>1, <1>2 DEF Injection, IsInjective
<1> HIDE DEF place
<1>7. IsFiniteSet(mine) /\ Cardinality(mine) <= Cardinality(turns)
  BY <1>4, <1>6, FS_Injection
<1>8. Cardinality(mine) \in Nat
  BY <1>7, FS_CardinalityType
<1>9. Cardinality(1..m) = m
  BY FS_Interval
<1>10. Cardinality(1..m) = Cardinality(mine) + Cardinality(theirs)
  <2>1. Cardinality(mine \cup theirs)
          = Cardinality(mine) + Cardinality(theirs) - Cardinality(mine \cap theirs)
    BY <1>5, <1>7, FS_Union
  <2>2. Cardinality(mine \cap theirs) = 0
    BY <1>3, FS_EmptySet
  <2>3. Cardinality(1..m) = Cardinality(mine \cup theirs)
    BY <1>3, Zenon
  <2>4. Cardinality(theirs) \in Nat
    BY <1>5
  <2> QED
    BY <1>8, <2>1, <2>2, <2>3, <2>4
<1> QED
  BY <1>4, <1>5, <1>7, <1>8, <1>9, <1>10

\* A child that keeps silent is not among as many of the last turns.
SilentInWindow ==
  \A c \in Children : \A k \in 1..Len(recent) : k <= silent[c] => Ago(recent, k) # c

\* A child waits until it counts as absent, and from then on, for m turns, only while
\* others that are absent too are asked: the turns of those are apart.
WaitsFor(c, tau) ==
  \E m \in 0..(2 * tau + 1) :
    /\ m <= Len(recent) /\ Apart(recent, c, m, tau)
    /\ m > 0 => silent[c] = Tolerance[c]
    /\ waiting[c] <= silent[c] + ChildTurns(recent, m)

\* The window is long enough for all to be absent, and the bot does not fill the turns
\* that are left of two rounds of the children.
WindowSuffices(tau) ==
  /\ tau \in Nat /\ 2 * (tau + 1) <= RateWindow
  /\ \A c \in Children : /\ tau <= Tolerance[c]
                         /\ Tolerance[c] + 2 * (Cardinality(Children) - 1) < RateWindow
  /\ CapNum * RateWindow <= (2 * (tau + 1 - (Cardinality(Children) - 1)) - 1) * CapDen

GroupInv(tau) ==
  TrioTypeOK /\ ShareKept /\ SilentInWindow /\ \A c \in Children : WaitsFor(c, tau)

\* Whoever is asked before a child that is absent is absent too.
LEMMA AbsentFirst ==
  ASSUME TrioTyped, NEW E \in SUBSET Children, NEW c \in E, IsAbsent(c), PickNextChild(E) # c
  PROVE  IsAbsent(PickNextChild(E))
<1> DEFINE absent == {d \in E : IsAbsent(d)}
<1>1. c \in absent /\ absent \in SUBSET Children
  OBVIOUS
<1>2. IsFiniteSet(E)
  BY TrioAssumption, FS_Subset
<1>3. CASE Cardinality(E) = 1
  <2>1. E = {c}
    BY <1>2, <1>3, FS_Singleton
  <2>2. FirstOf(E) = c
    BY <2>1, FirstIsOne
  <2> QED
    BY <1>3, <2>2 DEF PickNextChild
<1>4. CASE Cardinality(E) # 1
  <2>1. FirstOf(absent) \in absent
    <3> HIDE DEF absent
    <3> QED
      BY <1>1, FirstIsOne
  <2>2. PickNextChild(E) = FirstOf(absent)
    BY <1>1, <1>4 DEF PickNextChild
  <2> QED
    BY <2>1, <2>2
<1> QED
  BY <1>3, <1>4

\* What a turn does to the window and to the silence of the children.
LEMMA SpokenMoves ==
  ASSUME TrioTypeOK, NEW who \in Children \cup {Bot}, Spoken(who)
  PROVE  /\ recent \in Seq(Nat) /\ recent' \in Seq(Nat)
         /\ Len(recent') = IF Len(recent) < RateWindow THEN Len(recent) + 1 ELSE RateWindow
         /\ \A m \in Nat : m < Len(recent') => OneMore(recent, recent', who, m)
         /\ \A k \in 1..Len(recent') : Ago(recent', k) \in Children \cup {Bot}
<1>1. /\ recent \in Seq(Nat) /\ Len(recent) <= RateWindow /\ RateWindow \in Nat \ {0} /\ who \in Nat
  BY TrioTypesTyped, TrioAssumption DEF TrioTyped, Bot
<1>2. recent' = IF Len(recent) < RateWindow THEN Append(recent, who) ELSE Append(Tail(recent), who)
  BY DEF Spoken
<1>3. recent' \in Seq(Children \cup {Bot})
  BY SpokenType
<1>4. \A k \in 1..Len(recent') : Ago(recent', k) \in Children \cup {Bot}
  <2> SUFFICES ASSUME NEW k \in 1..Len(recent') PROVE Ago(recent', k) \in Children \cup {Bot}
    OBVIOUS
  <2>1. Len(recent') + 1 - k \in 1..Len(recent')
    BY <1>3
  <2> QED
    BY <1>3, <2>1 DEF Ago
<1> QED
  BY <1>1, <1>2, <1>4, WindowMoves

LEMMA SilenceKeeps ==
  ASSUME TrioTypeOK, SilentInWindow, NEW who \in Children \cup {Bot}, Spoken(who)
  PROVE  SilentInWindow'
<1> SUFFICES ASSUME NEW c \in Children, NEW k \in 1..Len(recent'), k <= silent'[c]
             PROVE  Ago(recent', k) # c
  BY DEF SilentInWindow
<1>1. /\ recent \in Seq(Nat) /\ Len(recent) \in Nat /\ recent' \in Seq(Nat)
      /\ Len(recent') <= Len(recent) + 1 /\ Len(recent') \in Nat
      /\ \A m \in Nat : m < Len(recent') => OneMore(recent, recent', who, m)
  <2>1. Len(recent) <= RateWindow /\ RateWindow \in Nat
    BY TrioAssumption DEF TrioTypeOK
  <2> QED
    BY <2>1, SpokenMoves
<1>2. /\ silent[c] \in Nat /\ c # who /\ silent'[c] <= silent[c] + 1
  <2>1. silent[c] \in Nat /\ Tolerance[c] \in Nat
    BY TrioAssumption DEF TrioTypeOK
  <2>2. silent'[c] = IF c = who THEN 0 ELSE IF silent[c] < Tolerance[c] THEN silent[c] + 1 ELSE silent[c]
    BY DEF Spoken
  <2> QED
    BY <2>1, <2>2
<1>3. silent'[c] \in Nat
  BY SpokenType
<1>4. k - 1 \in Nat /\ OneMore(recent, recent', who, k - 1)
  BY <1>1
<1>5. CASE k = 1
  BY <1>2, <1>4, <1>5 DEF OneMore
<1>6. CASE k # 1
  <2>1. k - 1 \in 1..(k - 1) /\ k - 1 \in 1..Len(recent) /\ k - 1 <= silent[c] /\ (k - 1) + 1 = k
    BY <1>1, <1>2, <1>3, <1>6
  <2>2. Ago(recent', k) = Ago(recent, k - 1)
    BY <1>4, <2>1 DEF OneMore
  <2> QED
    BY <2>1, <2>2 DEF SilentInWindow
<1> QED
  BY <1>5, <1>6

\* In a full window the bot leaves room: the others are not apart for two rounds.
LEMMA TwoRoundsAreTooMany ==
  ASSUME CapNum # 0, NEW tau, WindowSuffices(tau), NEW c \in Children,
         NEW q \in Seq(Nat), 2 * (tau + 1) <= Len(q), Len(q) <= RateWindow,
         \A k \in 1..Len(q) : Ago(q, k) \in Children \cup {Bot},
         IF Len(q) < RateWindow
         THEN (TurnsIn(q, Bot) - 1) * CapDen <= CapNum * (Len(q) - 1)
         ELSE (TurnsIn(q, Bot) - 1) * CapDen < CapNum * RateWindow
  PROVE  ~Apart(q, c, 2 * (tau + 1), tau)
<1> SUFFICES ASSUME Apart(q, c, 2 * (tau + 1), tau) PROVE FALSE
  OBVIOUS
<1> DEFINE m == 2 * (tau + 1)
           others == Cardinality(Children) - 1
           t == TurnsIn(q, Bot)
           children == ChildTurns(q, m)
<1>1. /\ tau \in Nat /\ m \in Nat /\ others \in Int
      /\ RateWindow \in Nat \ {0} /\ CapNum \in Nat \ {0} /\ CapDen \in Nat \ {0}
  BY TrioAssumption, FS_CardinalityType DEF WindowSuffices
<1>2. Len(q) \in Nat
  OBVIOUS
<1>3. children <= 2 * others
  BY <1>1, <1>2, TwoEach
<1>4. m <= children + t
  BY <1>1, <1>2, TheRestIsTheBot
<1>5. t \in Nat /\ children \in Nat
  BY <1>1, <1>2, TurnsAreNat, ChildTurnsFinite
<1>6. (t - 1) * CapDen < CapNum * RateWindow
  <2>1. CASE Len(q) < RateWindow
    <3>1. (t - 1) * CapDen <= CapNum * (Len(q) - 1)
      BY <2>1
    <3>2. CapNum * (Len(q) - 1) < CapNum * RateWindow
      BY <1>1, <1>2, <2>1, TimesLess
    <3> DEFINE share == (t - 1) * CapDen
               cap == CapNum * (Len(q) - 1)
               all == CapNum * RateWindow
    <3>3. share \in Int /\ cap \in Int /\ all \in Int
      BY <1>1, <1>2, <1>5
    <3> SUFFICES share < all
      OBVIOUS
    <3>4. share <= cap /\ cap < all
      BY <3>1, <3>2
    <3> HIDE DEF share, cap, all
    <3> QED
      BY <3>3, <3>4
  <2>2. CASE ~(Len(q) < RateWindow)
    BY <2>2
  <2> QED
    BY <2>1, <2>2
<1> DEFINE left == 2 * (tau + 1 - others) - 1
<1>7. left <= t - 1 /\ left \in Int /\ t - 1 \in Int
  <2> HIDE DEF others, t, children
  <2> QED
    BY <1>1, <1>3, <1>4, <1>5
<1>8. CapNum * RateWindow <= left * CapDen
  BY DEF WindowSuffices
<1> HIDE DEF left, t
<1>9. left * CapDen <= (t - 1) * CapDen
  BY <1>1, <1>7, TimesLeq
<1> DEFINE share == (t - 1) * CapDen
           least == left * CapDen
           all == CapNum * RateWindow
<1>10. share \in Int /\ least \in Int /\ all \in Int
  BY <1>1, <1>5, <1>7
<1>11. share < all /\ all <= least /\ least <= share
  BY <1>6, <1>8, <1>9
<1> HIDE DEF share, least, all
<1> QED
  BY <1>10, <1>11

\* A turn leaves a child waiting as WaitsFor says, if it is asked, or excluded, or who
\* speaks in its place is the bot, or is absent if the child is.
LEMMA WaitsKeeps ==
  ASSUME CapNum # 0, TrioTypeOK, TrioTypeOK', ShareKept', SilentInWindow,
         NEW tau, WindowSuffices(tau),
         NEW who \in Children \cup {Bot}, Spoken(who), NEW c \in Children, WaitsFor(c, tau),
         \/ waiting'[c] = 0
         \/ /\ who # c
            /\ who = Bot => waiting'[c] = waiting[c]
            /\ who # Bot => /\ waiting'[c] <= waiting[c] + 1
                            /\ silent[c] = Tolerance[c] => silent[who] = Tolerance[who]
  PROVE  WaitsFor(c, tau)'
<1>1. /\ tau \in Nat /\ 2 * (tau + 1) <= RateWindow /\ RateWindow \in Nat \ {0}
      /\ Tolerance[c] \in Nat /\ waiting[c] \in Nat /\ waiting'[c] \in Nat
      /\ silent[c] \in Nat /\ silent'[c] \in Nat /\ silent[c] <= Tolerance[c]
  BY TrioAssumption DEF TrioTypeOK, WindowSuffices
<1>2. /\ recent \in Seq(Nat) /\ Len(recent) \in Nat /\ Len(recent) <= RateWindow
      /\ recent' \in Seq(Nat) /\ Len(recent') \in Nat
      /\ Len(recent') = IF Len(recent) < RateWindow THEN Len(recent) + 1 ELSE RateWindow
      /\ \A m \in Nat : m < Len(recent') => OneMore(recent, recent', who, m)
      /\ \A k \in 1..Len(recent') : Ago(recent', k) \in Children \cup {Bot}
  BY SpokenMoves, TrioTypesTyped DEF TrioTyped
<1> DEFINE Good(m) == /\ m <= Len(recent') /\ Apart(recent', c, m, tau)
                      /\ m > 0 => silent'[c] = Tolerance[c]
                      /\ waiting'[c] <= silent'[c] + ChildTurns(recent', m)
<1>3. SUFFICES \E m \in 0..(2 * tau + 1) : Good(m)
  BY DEF WaitsFor
<1>4. ASSUME waiting'[c] <= silent'[c] PROVE Good(0)
  <2>1. ChildTurns(recent', 0) \in Nat
    BY ChildTurnsFinite
  <2>2. Apart(recent', c, 0, tau)
    BY DEF Apart
  <2> QED
    BY <1>1, <1>2, <1>4, <2>1, <2>2
<1>5. 0 \in 0..(2 * tau + 1)
  BY <1>1
<1>6. CASE waiting'[c] = 0
  BY <1>1, <1>4, <1>5, <1>6
<1>7. CASE waiting'[c] # 0
  <2>1. /\ who # c
        /\ who = Bot => waiting'[c] = waiting[c]
        /\ who # Bot => /\ waiting'[c] <= waiting[c] + 1
                        /\ silent[c] = Tolerance[c] => silent[who] = Tolerance[who]
    BY <1>7
  <2>2. silent'[c] = IF silent[c] < Tolerance[c] THEN silent[c] + 1 ELSE silent[c]
    BY <2>1 DEF Spoken
  <2>3. PICK m \in 0..(2 * tau + 1) :
          /\ m <= Len(recent) /\ Apart(recent, c, m, tau)
          /\ m > 0 => silent[c] = Tolerance[c]
          /\ waiting[c] <= silent[c] + ChildTurns(recent, m)
    BY DEF WaitsFor
  <2>4. m \in Nat /\ ChildTurns(recent, m) \in Nat
    <3>1. m \in Nat
      BY <1>1
    <3> QED
      BY <3>1, ChildTurnsFinite
  <2>5. CASE silent[c] < Tolerance[c]
    <3>1. m = 0
      BY <1>1, <2>3, <2>4, <2>5
    <3>2. ChildTurns(recent, 0) = 0
      <4>1. {k \in 1..0 : Ago(recent, k) # Bot} = {}
        OBVIOUS
      <4> QED
        BY <4>1, FS_EmptySet DEF ChildTurns
    <3>3. waiting'[c] <= waiting[c] + 1 /\ waiting[c] <= silent[c]
      BY <1>1, <2>1, <2>3, <3>1, <3>2
    <3> QED
      BY <1>1, <1>4, <1>5, <2>2, <2>5, <3>3
  <2>6. CASE ~(silent[c] < Tolerance[c])
    <3>1. silent[c] = Tolerance[c] /\ silent'[c] = Tolerance[c]
      BY <1>1, <2>2, <2>6
    <3>2. m < Len(recent')
      BY <1>1, <1>2, <2>3, <2>4
    <3>3. OneMore(recent, recent', who, m)
      BY <1>2, <2>4, <3>2
    <3>4. ASSUME who # Bot, NEW k \in 1..m, k <= tau PROVE Ago(recent, k) # who
      <4>1. who \in Children /\ silent[who] = Tolerance[who] /\ tau <= Tolerance[who]
        BY <2>1, <3>1, <3>4 DEF WindowSuffices
      <4>2. Tolerance[who] \in Nat
        BY <4>1, TrioAssumption
      <4>3. k \in 1..Len(recent) /\ k <= silent[who]
        BY <1>1, <1>2, <2>3, <2>4, <3>4, <4>1, <4>2
      <4> QED
        BY <4>1, <4>3 DEF SilentInWindow
    <3>5. Apart(recent', c, m + 1, tau)
      BY <1>1, <2>1, <2>3, <2>4, <3>3, <3>4, ApartMore
    <3>6. waiting'[c] <= silent'[c] + ChildTurns(recent', m + 1)
      <4>1. /\ ChildTurns(recent, m) <= ChildTurns(recent', m + 1)
            /\ who # Bot => ChildTurns(recent, m) + 1 <= ChildTurns(recent', m + 1)
        BY <2>4, <3>3, ChildTurnsMore
      <4>2. ChildTurns(recent', m + 1) \in Nat
        BY <2>4, ChildTurnsFinite, m + 1 \in Nat
      <4>3. waiting[c] <= silent'[c] + ChildTurns(recent, m)
        BY <2>3, <3>1
      <4> QED
        BY <1>1, <2>1, <2>4, <4>1, <4>2, <4>3
    <3>7. m + 1 <= Len(recent') /\ m + 1 \in Nat
      BY <1>2, <2>4, <3>2
    <3>8. m + 1 # 2 * (tau + 1)
      <4> SUFFICES ASSUME m + 1 = 2 * (tau + 1) PROVE FALSE
        OBVIOUS
      <4>1. 2 * (tau + 1) <= Len(recent') /\ Len(recent') # 0 /\ Len(recent') <= RateWindow
        <5>1. 2 * (tau + 1) <= Len(recent') /\ Len(recent') # 0
          BY <3>7, <2>4
        <5> QED
          BY <1>1, <1>2, <5>1
      <4>2. IF Len(recent') < RateWindow
            THEN (TurnsIn(recent', Bot) - 1) * CapDen <= CapNum * (Len(recent') - 1)
            ELSE (TurnsIn(recent', Bot) - 1) * CapDen < CapNum * RateWindow
        <5>1. recent' # <<>>
          BY <4>1
        <5> QED
          BY <5>1 DEF ShareKept, TurnsOf, TurnsIn
      <4>3. ~Apart(recent', c, 2 * (tau + 1), tau)
        BY <1>2, <4>1, <4>2, TwoRoundsAreTooMany
      <4> QED
        BY <3>5, <4>3
    <3>9. m + 1 \in 0..(2 * tau + 1)
      <4>1. tau \in Nat
        BY <1>1
      <4> HIDE DEF Good
      <4> QED
        BY <2>4, <3>8, <4>1
    <3>10. Good(m + 1)
      BY <3>1, <3>5, <3>6, <3>7
    <3> QED
      BY <3>9, <3>10
  <2> QED
    BY <2>5, <2>6
<1> QED
  BY <1>6, <1>7

LEMMA GroupStarts ==
  ASSUME TrioInit, NEW tau \in Nat
  PROVE  GroupInv(tau)
<1>1. TrioTypeOK /\ ShareKept
  BY TrioTypesStart, TrioStarts DEF TrioInv
<1>2. recent = <<>> /\ waiting = [c \in Children |-> 0] /\ silent = [c \in Children |-> 0]
  BY DEF TrioInit
<1>3. SilentInWindow
  BY <1>2 DEF SilentInWindow
<1>4. ASSUME NEW c \in Children PROVE WaitsFor(c, tau)
  <2>1. ChildTurns(recent, 0) \in Nat /\ waiting[c] = 0 /\ silent[c] = 0 /\ Len(recent) = 0
    BY <1>2, ChildTurnsFinite
  <2>2. Apart(recent, c, 0, tau)
    BY DEF Apart
  <2>3. 0 \in 0..(2 * tau + 1)
    OBVIOUS
  <2>4. waiting[c] <= silent[c] + ChildTurns(recent, 0)
    BY <2>1
  <2> QED
    BY <2>1, <2>2, <2>3, <2>4 DEF WaitsFor
<1> QED
  BY <1>1, <1>3, <1>4 DEF GroupInv

LEMMA GroupKeeps ==
  ASSUME CapNum # 0, NEW tau, WindowSuffices(tau), GroupInv(tau), TrioStep
  PROVE  GroupInv(tau)'
<1>1. TrioTypeOK /\ ShareKept /\ SilentInWindow /\ \A c \in Children : WaitsFor(c, tau)
  BY DEF GroupInv
<1>2. TrioTypeOK'
  BY <1>1, TrioTypesKept
<1>3. ShareKept'
  BY <1>1, TrioKeeps, TrioTypesTyped DEF TrioInv
<1>4. /\ Children \subseteq Nat \ {Bot} /\ Tolerance \in [Children -> Nat \ {0}]
      /\ RateWindow \in Nat /\ waiting \in [Children -> 0..RateWindow]
      /\ silent \in [Children -> Nat] /\ \A c \in Children : silent[c] <= Tolerance[c]
  BY <1>1, TrioAssumption DEF TrioTypeOK
<1>5. ASSUME NEW who \in Children \cup {Bot}, Spoken(who),
             \A c \in Children :
               \/ waiting'[c] = 0
               \/ /\ who # c
                  /\ who = Bot => waiting'[c] = waiting[c]
                  /\ who # Bot => /\ waiting'[c] <= waiting[c] + 1
                                  /\ silent[c] = Tolerance[c] => silent[who] = Tolerance[who]
      PROVE  GroupInv(tau)'
  <2>1. SilentInWindow'
    BY <1>1, <1>5, SilenceKeeps
  <2>2. ASSUME NEW c \in Children PROVE WaitsFor(c, tau)'
    BY <1>1, <1>2, <1>3, <1>5, WaitsKeeps
  <2> QED
    BY <1>2, <1>3, <2>1, <2>2 DEF GroupInv
<1>6. CASE BotTurn
  BY <1>4, <1>5, <1>6 DEF BotTurn
<1>7. CASE ChildTurn
  <2>1. PICK s \in BrejoSignals :
          LET next == PickNextChild(Children \ s.sensory)
          IN  /\ Spoken(next)
              /\ waiting' = [c \in Children |->
                            IF c = next \/ c \in s.sensory THEN 0
                            ELSE IF waiting[c] < RateWindow THEN waiting[c] + 1
                            ELSE RateWindow]
    BY <1>7 DEF ChildTurn
  <2> DEFINE E == Children \ s.sensory
  <2>2. E # {}
    BY TrioAssumption DEF BrejoSignals, PauseFull
  <2>3. PickNextChild(E) \in Children
    BY <1>1, <2>2, NextIsChild, TrioTypesTyped
  <2>4. PICK who \in Children : who = PickNextChild(E)
    BY <2>3
  <2>5. ASSUME NEW c \in Children, waiting'[c] # 0
        PROVE  /\ who # c /\ c \in E /\ waiting'[c] <= waiting[c] + 1
               /\ silent[c] = Tolerance[c] => silent[who] = Tolerance[who]
    <3>1. /\ who # c /\ c \in E
          /\ waiting'[c] = IF waiting[c] < RateWindow THEN waiting[c] + 1 ELSE RateWindow
      BY <2>1, <2>4, <2>5
    <3>2. waiting'[c] <= waiting[c] + 1
      BY <1>4, <3>1
    <3>3. ASSUME silent[c] = Tolerance[c] PROVE silent[who] = Tolerance[who]
      <4>1. IsAbsent(c)
        BY <1>4, <3>3 DEF IsAbsent
      <4>2. IsAbsent(PickNextChild(E))
        <5> HIDE DEF E
        <5>1. E \in SUBSET Children
          BY DEF E
        <5> QED
          BY <1>1, <2>4, <3>1, <4>1, <5>1, AbsentFirst, TrioTypesTyped
      <4>3. silent[who] >= Tolerance[who]
        BY <2>4, <4>2 DEF IsAbsent
      <4> QED
        BY <1>4, <2>4, <4>3
    <3> QED
      BY <3>1, <3>2, <3>3
  <2>6. Spoken(who) /\ who # Bot
    BY <1>4, <2>1, <2>4
  <2> QED
    BY <1>5, <2>5, <2>6
<1>8. ASSUME NEW d \in Children, Interjection(d) PROVE GroupInv(tau)'
  <2>1. Spoken(d) /\ \A c \in Children : waiting'[c] = 0
    BY <1>8 DEF Interjection
  <2> QED
    BY <1>5, <2>1
<1> QED
  BY <1>6, <1>7, <1>8 DEF TrioStep

LEMMA EveryoneAsked ==
  ASSUME NEW tau, WindowSuffices(tau), GroupInv(tau)
  PROVE  EveryoneIsAsked
<1> SUFFICES ASSUME NEW c \in Children PROVE waiting[c] < RateWindow
  BY DEF EveryoneIsAsked
<1>1. /\ TrioTypeOK /\ WaitsFor(c, tau) /\ tau \in Nat
      /\ Tolerance[c] + 2 * (Cardinality(Children) - 1) < RateWindow
  BY DEF GroupInv, WindowSuffices
<1>2. /\ waiting[c] \in Nat /\ silent[c] \in Nat /\ silent[c] <= Tolerance[c] /\ Tolerance[c] \in Nat
      /\ RateWindow \in Nat /\ Cardinality(Children) \in Nat
      /\ recent \in Seq(Children \cup {Bot}) /\ Len(recent) \in Nat
  BY <1>1, TrioAssumption, FS_CardinalityType DEF TrioTypeOK
<1>3. PICK m \in 0..(2 * tau + 1) : /\ m <= Len(recent) /\ Apart(recent, c, m, tau)
                                    /\ waiting[c] <= silent[c] + ChildTurns(recent, m)
  BY <1>1 DEF WaitsFor
<1>4. m \in Nat /\ m <= 2 * (tau + 1)
  BY <1>1
<1>5. \A k \in 1..m : Ago(recent, k) \in Children \cup {Bot}
  <2> SUFFICES ASSUME NEW k \in 1..m PROVE Ago(recent, k) \in Children \cup {Bot}
    OBVIOUS
  <2>1. Len(recent) + 1 - k \in 1..Len(recent)
    BY <1>2, <1>3, <1>4
  <2> QED
    BY <1>2, <2>1 DEF Ago
<1>6. ChildTurns(recent, m) <= 2 * (Cardinality(Children) - 1)
  BY <1>1, <1>3, <1>4, <1>5, TwoEach
<1>7. ChildTurns(recent, m) \in Nat
  BY <1>4, ChildTurnsFinite
<1> QED
  BY <1>1, <1>2, <1>3, <1>6, <1>7

\* The window of the code, ten turns, is long enough for a pair and for a trio, whose
\* children are silent from three to five turns before they count as absent.
LEMMA TenTurnsSuffice ==
  ASSUME RateWindow = 10, \A c \in Children : Tolerance[c] \in 3..5,
         \/ Cardinality(Children) = 2 /\ CapNum = 1 /\ CapDen = 4
         \/ Cardinality(Children) = 3 /\ CapNum = 1 /\ CapDen = 5
  PROVE  WindowSuffices(3)
BY DEF WindowSuffices

-----------------------------------------------------------------------------
(* All of it *)

RecordsInv == InqInv /\ IssueInv /\ DrotaInv /\ DeskInv /\ OnbInv /\ AskedOfChildren
              /\ ProgramInv /\ JourneyInv /\ HelixInv

LEMMA RecordsStart == MCInit => RecordsInv
BY InquiryStarts, CardsStart, DrotaStarts, DeskStarts, OnboardingStarts, AskedOfChildrenStarts,
   ProgramStarts, JourneyStarts, HelixStarts DEF MCInit, RecordsInv

\* A step of the whole is one of each component or leaves it alone.
LEMMA ComponentSteps ==
  ASSUME [MCNext]_allVars
  PROVE  /\ [InqStep]_inqVars /\ [IssueStep]_issueVars /\ [DrotaStep]_drotaVars
         /\ [DeskStep]_deskVars /\ [OnbStep]_onbVars
         /\ [ProgramStep]_programVars /\ [JourneyStep]_journeyVars
         /\ [TrioStep]_trioVars /\ [HelixStep]_helixVars /\ [LoopStep]_loopVars
BY DEF MCNext, allVars, Drill, Helix, Program, Group, Matrix, Loop, Inquiry, Cards, Talk, Journey,
       Desk, Wizard

LEMMA OnboardingStays == OnbInv /\ AskedOfChildren /\ UNCHANGED onbVars => (OnbInv /\ AskedOfChildren)'
<1> SUFFICES ASSUME OnbInv, AskedOfChildren, UNCHANGED onbVars PROVE OnbInv' /\ AskedOfChildren'
  OBVIOUS
<1> USE DEF onbVars, wizardVars, storeVars
<1>1. OnbTyped' /\ ApprovalsHold' /\ OneWaits' /\ ServedIsWritten' /\ Reached'
  BY DEF OnbInv, OnbTyped, ApprovalsHold, OneWaits, ServedIsWritten, Reached
<1>2. Unsurprised'
  BY DEF OnbInv, Unsurprised, AllApproved, Wanted
<1>3. AskedOfChildren'
  BY DEF AskedOfChildren
<1> QED
  BY <1>1, <1>2, <1>3 DEF OnbInv

LEMMA ProgrammeStays ==
  /\ ProgramInv /\ UNCHANGED programVars => ProgramInv'
  /\ JourneyInv /\ UNCHANGED journeyVars => JourneyInv'
<1>1. ASSUME ProgramInv, UNCHANGED programVars PROVE ProgramInv'
  <2>1. UNCHANGED <<week, phase, paused, phasesCompleted, missed, excused>>
    BY <1>1 DEF programVars
  <2>2. PlaceIsCounted' /\ MissedPauses'
    BY <1>1, <2>1 DEF ProgramInv, PhasesCounted, PlaceIsCounted, MissedPauses
  <2> QED
    BY <1>1, <2>1, <2>2 DEF ProgramInv, PhasesCounted
<1>2. ASSUME JourneyInv, UNCHANGED journeyVars PROVE JourneyInv'
  BY <1>2 DEF journeyVars, JourneyInv, JourneyKept
<1> QED
  BY <1>1, <1>2

LEMMA RecordsKeep == RecordsInv /\ [MCNext]_allVars => RecordsInv'
<1> SUFFICES ASSUME RecordsInv, [MCNext]_allVars PROVE RecordsInv'
  OBVIOUS
<1>1. InqInv' /\ IssueInv' /\ DrotaInv' /\ DeskInv'
  BY ComponentSteps, InquiryKeeps, CardsKeep, DrotaKeeps, DeskKeeps DEF RecordsInv
<1>2. OnbInv' /\ AskedOfChildren'
  BY ComponentSteps, OnboardingKeeps, AskedOfChildrenKeeps, OnboardingStays DEF RecordsInv
<1>3. ProgramInv' /\ JourneyInv' /\ HelixInv'
  BY ComponentSteps, ProgramKeeps, JourneyKeeps, ProgrammeStays, HelixKeeps DEF RecordsInv
<1> QED
  BY <1>1, <1>2, <1>3 DEF RecordsInv

\* However turns, emissions, polls, requests and drafts overlap, are lost or come late:
\* a question is answered by one message and asked by one turn, a serial is given to one
\* card and an ascent earns one, unless turns or emissions overlap; what is recorded of a
\* turn is what its text spoke of, and of a decision the text the operator was shown; no
\* child is sent a message no parent approved as it stands, and a family is not called
\* ready too early; the programme has counted its phases, and the stage of the journey
\* has its grounds. Whatever is deferred, resumed, substituted and reshuffled, no
\* dimension of the helix falls out of the rotation, and none is active twice, or while it
\* waits, unless one was resumed that had never left the pair.
THEOREM RecordsAreKept == MCSpec => []RecordsKept
<1>1. RecordsInv => RecordsKept
  BY InquiryKept, CardsKept, DrotaKept, DeskInvKept, OnboardingInvKept
     DEF RecordsInv, RecordsKept, ProgramInv, JourneyInv, HelixInv
<1> QED
  BY <1>1, RecordsStart, RecordsKeep, PTL DEF MCSpec

\* The bot of a group has at most the share of its window that is its cap, and one turn
\* more, whatever the history, the pauses and who interjects. With a cap of zero it opens
\* the session all the same.
THEOREM BotKeepsItsShare ==
  ASSUME CapNum # 0
  PROVE  MCSpec => []BotShare
<1>1. MCInit => TrioInv
  BY TrioStarts DEF MCInit
<1>2. TrioInv /\ [MCNext]_allVars => TrioInv'
  <2> SUFFICES ASSUME TrioInv, [MCNext]_allVars PROVE TrioInv'
    OBVIOUS
  <2>1. [TrioStep]_trioVars
    BY ComponentSteps
  <2>2. CASE UNCHANGED trioVars
    BY <2>2 DEF trioVars, TrioInv, TrioTyped, ShareKept, TurnsOf
  <2> QED
    BY <2>1, <2>2, TrioKeeps
<1> QED
  BY <1>1, <1>2, TrioShare, PTL DEF MCSpec

\* A group that follows the hints gives the turn to every child that is not excluded before
\* a window of hints is over, however the turns went before, and the bot keeps to its share.
\* That is so as long as a window holds the silence that makes a child absent and two turns
\* of each of the others, and the cap of the bot leaves those the place they need: the ten
\* turns of the code do for a pair and for a trio (TenTurnsSuffice).
THEOREM GroupModeratedHolds ==
  ASSUME CapNum # 0, NEW tau, WindowSuffices(tau)
  PROVE  MCSpec => []GroupModerated
<1>1. MCInit => GroupInv(tau)
  BY GroupStarts DEF MCInit, WindowSuffices
<1>2. GroupInv(tau) /\ [MCNext]_allVars => GroupInv(tau)'
  <2> SUFFICES ASSUME GroupInv(tau), [MCNext]_allVars PROVE GroupInv(tau)'
    OBVIOUS
  <2>1. [TrioStep]_trioVars
    BY ComponentSteps
  <2>2. CASE UNCHANGED trioVars
    BY <2>2 DEF trioVars, GroupInv, TrioTypeOK, ShareKept, TurnsOf, SilentInWindow, WaitsFor
  <2> QED
    BY <2>1, <2>2, GroupKeeps
<1>3. GroupInv(tau) => GroupModerated
  BY EveryoneAsked, TrioShare, TrioTypesTyped DEF GroupInv, TrioInv, GroupModerated, ModerationHolds
<1> QED
  BY <1>1, <1>2, <1>3, PTL DEF MCSpec

\* If the turns of a child wait for each other, the first crisis of a session is never
\* missed: a turn that does not go to the protocol, while no other of the session has,
\* extracted no distress, no matter how many signals came before. That is so as long as
\* the limit of the events is at most 37, less a call that fails in the session: with
\* the twenty events of the code, up to seventeen failed calls.
THEOREM FirstCrisisSeen ==
  ASSUME InTurn, LogLimit + MaxLoopFaults <= 37
  PROVE  MCSpec => FirstCrisisIsSeen
<1> DEFINE Held == LoopTyped /\ ReadBack /\ Spaced
<1>1. MCInit => Held
  BY LoopTypesStart, SpacedStarts DEF MCInit
<1>2. Held /\ [MCNext]_allVars => [LoopStep]_loopVars
  BY ComponentSteps
<1>3. Held /\ [LoopStep]_loopVars => Held'
  BY LoopTypesKept, SpacedKept
<1>4. Held /\ [LoopStep]_loopVars =>
        [\A t \in LoopTurns :
           /\ loop[t].at = "plan" /\ loop'[t].at \in {"evaluation", "emit"}
           /\ crises = 0
           => loop[t].shown \cap Critical = {}]_loopVars
  BY SpacedKept
<1> HIDE DEF Held
<1> QED
  BY <1>1, <1>2, <1>3, <1>4, PTL DEF MCSpec, FirstCrisisIsSeen

ChildTyped ==
  /\ RecordsInv /\ MatrixIInv /\ LoopTyped /\ IInv
  /\ Calendar /\ ProgramBounded /\ JourneyTypeOK /\ TrioTypeOK /\ OnbBounded

\* What is kept of a child has its type in each of the twelve components: outside of a
\* vacation the mode of the helix is that of its day, the programme counts no more phases
\* than its weeks have, the row of the journey no more than there is to discover, an
\* interval of a drill ends at a date there is, and a page holds no text that never came.
THEOREM ChildTypesHold == MCSpec => []ChildTypeOK
<1>1. MCInit => ChildTyped
  BY RecordsStart, MatrixInitInv, LoopTypesStart, InitType, CalendarStarts, BoundedStarts,
     JourneyTypesStart, TrioTypesStart, OnbBoundedStarts DEF MCInit, ChildTyped
<1>2. ChildTyped /\ [MCNext]_allVars => ChildTyped'
  <2> SUFFICES ASSUME ChildTyped, [MCNext]_allVars PROVE ChildTyped'
    OBVIOUS
  <2>1. [Next]_vars /\ [MatrixStep]_matrixVars
    BY DEF MCNext, allVars, Drill, Helix, Program, Group, Matrix, Loop, Inquiry, Cards, Talk,
       Journey, Desk, Wizard
  <2>2. RecordsInv' /\ LoopTyped' /\ Calendar' /\ ProgramBounded'
    BY ComponentSteps, RecordsKeep, LoopTypesKept, CalendarKept, BoundedKept DEF ChildTyped
  <2>3. JourneyTypeOK' /\ TrioTypeOK' /\ OnbBounded'
    BY ComponentSteps, JourneyTypesKept, TrioTypesKept, OnbBoundedKept DEF ChildTyped
  <2>4. IInv' /\ MatrixIInv'
    BY <2>1, StepType, MatrixStepInv DEF ChildTyped
  <2> QED
    BY <2>2, <2>3, <2>4 DEF ChildTyped
<1>3. ChildTyped => ChildTypeOK
  BY IInvTypes, HelixTypes, ProgramTypes, LoopTypes, DeskInvKept, OnbTypes
     DEF ChildTyped, RecordsInv, MatrixIInv, InqInv, IssueInv, IssueTyped, DrotaInv, ChildTypeOK
<1> QED
  BY <1>1, <1>2, <1>3, PTL DEF MCSpec
=============================================================================

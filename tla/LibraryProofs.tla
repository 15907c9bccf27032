--------------------------- MODULE LibraryProofs ---------------------------
(***************************************************************************)
(* Theorems about components that stand on their own, as MCLibrary checks  *)
(* them: the order tracker, the quote manager, the parquet buffer, the     *)
(* pair backtests, the portfolio and the discovery of pairs; for every set *)
(* of orders, quotes, rows, fills, markets and statistics, and every limit,*)
(* threshold and fee.                                                      *)
(***************************************************************************)
EXTENDS OrderTracker, QuoteManager, ParquetBuffer, PairBacktest, Portfolio, Discover,
        WellFoundedInduction, FiniteSetTheorems, TLAPS

-----------------------------------------------------------------------------
(* Numbers: the least and the greatest of a set, and the sums of a sequence *)

\* A set of naturals that is not empty has a least element.
LEMMA LeastElement ==
  ASSUME NEW S, S \subseteq Nat, S # {}
  PROVE  \E m \in S : \A k \in S : m <= k
<1>1. PICK m \in S : \A k \in S : <<k, m>> \notin OpToRel(<, Nat)
  BY NatLessThanWellFounded, WFMin
<1>2. \A k \in S : ~ (k < m)
  BY <1>1 DEF OpToRel
<1> QED BY <1>2

\* A list of numbers that is bounded has a greatest.
LEMMA GreatestElement ==
  ASSUME NEW k \in Nat, NEW S \in SUBSET (1 .. k), S # {}
  PROVE  \E m \in S : \A n \in S : n <= m
<1> DEFINE T == {k - n : n \in S}
<1>1. T \subseteq Nat /\ T # {}
  <2>1. PICK x \in S : k - x \in T
    OBVIOUS
  <2>2. T \subseteq Nat
    OBVIOUS
  <2> QED BY <2>1, <2>2
<1>2. PICK t \in T : \A u \in T : t <= u
  <2> HIDE DEF T
  <2> QED BY <1>1, LeastElement
<1>3. PICK m \in S : t = k - m
  OBVIOUS
<1>4. ASSUME NEW n \in S PROVE n <= m
  <2>1. k - n \in T
    OBVIOUS
  <2>2. k - m <= k - n
    BY <1>2, <1>3, <2>1
  <2> QED BY <2>2
<1> QED BY <1>4

\* The sums of a sequence are well defined, however long it is.
LEMMA PartialSumsDef ==
  ASSUME NEW w, Len(w) \in Nat
  PROVE  PartialSums(w) = [n \in 0 .. Len(w) |->
                             IF n = 0 THEN 0 ELSE PartialSums(w)[n - 1] + w[n]]
<1> DEFINE Body(f, n) == IF n = 0 THEN 0 ELSE f[n - 1] + w[n]
           Upto(k) == \E f : f = [n \in 0 .. k |-> Body(f, n)]
           Undefined == {k \in Nat : ~ Upto(k)}
<1>1. Upto(0)
  <2> DEFINE f == [n \in 0 .. 0 |-> 0]
  <2>1. f = [n \in 0 .. 0 |-> Body(f, n)]
    OBVIOUS
  <2> QED BY <2>1
<1>2. ASSUME NEW k \in Nat, Upto(k) PROVE Upto(k + 1)
  <2>1. PICK f : f = [n \in 0 .. k |-> Body(f, n)]
    BY <1>2
  <2> DEFINE g == [n \in 0 .. (k + 1) |->
                     IF n = k + 1 THEN f[k] + w[k + 1] ELSE f[n]]
  <2>2. ASSUME NEW n \in 0 .. (k + 1) PROVE g[n] = Body(g, n)
    <3>1. CASE n = k + 1
      <4>1. n # 0 /\ n - 1 = k /\ k \in 0 .. (k + 1) /\ k # k + 1
        BY <3>1
      <4>2. g[k] = f[k] /\ g[n] = f[k] + w[k + 1]
        BY <3>1, <4>1
      <4> HIDE DEF g
      <4> QED BY <3>1, <4>1, <4>2
    <3>2. CASE n # k + 1 /\ n # 0
      <4>1. n \in 0 .. k /\ n - 1 \in 0 .. (k + 1) /\ n - 1 # k + 1
        BY <3>2
      <4>2. g[n] = f[n] /\ g[n - 1] = f[n - 1] /\ f[n] = Body(f, n)
        BY <2>1, <3>2, <4>1
      <4> HIDE DEF g
      <4> QED BY <3>2, <4>2
    <3>3. CASE n = 0
      <4>1. 0 \in 0 .. k /\ 0 # k + 1 /\ f[0] = Body(f, 0)
        BY <2>1
      <4> QED BY <3>3, <4>1
    <3> QED BY <3>1, <3>2, <3>3
  <2>3. g = [n \in 0 .. (k + 1) |-> Body(g, n)]
    <3>1. g = [n \in 0 .. (k + 1) |-> g[n]]
      OBVIOUS
    <3> HIDE DEF g
    <3> QED BY <2>2, <3>1
  <2> QED BY <2>3
<1>3. Undefined = {}
  <2> HIDE DEF Upto
  <2> SUFFICES ASSUME Undefined # {} PROVE FALSE
    OBVIOUS
  <2>1. Undefined \in SUBSET Nat
    OBVIOUS
  <2>2. PICK m \in Undefined : \A k \in Undefined : m <= k
    <3> HIDE DEF Undefined
    <3> QED BY <2>1, LeastElement
  <2>3. m \in Nat /\ ~ Upto(m) /\ m # 0
    BY <1>1
  <2>4. m - 1 \in Nat /\ m - 1 \notin Undefined /\ (m - 1) + 1 = m
    BY <2>2, <2>3
  <2>5. Upto(m - 1)
    BY <2>4
  <2> QED BY <1>2, <2>3, <2>4, <2>5
<1>4. \E f : f = [n \in 0 .. Len(w) |-> Body(f, n)]
  BY <1>3
<1> QED BY <1>4 DEF PartialSums

\* Each sum is the one before and a number more.
LEMMA PartialSumsStep ==
  ASSUME NEW w, Len(w) \in Nat
  PROVE  /\ PartialSums(w)[0] = 0
         /\ \A n \in 1 .. Len(w) : PartialSums(w)[n] = PartialSums(w)[n - 1] + w[n]
<1> DEFINE sums == PartialSums(w)
<1>1. sums = [n \in 0 .. Len(w) |-> IF n = 0 THEN 0 ELSE sums[n - 1] + w[n]]
  BY PartialSumsDef, Zenon
<1> HIDE DEF sums
<1>2. sums[0] = 0 /\ \A n \in 1 .. Len(w) : sums[n] = sums[n - 1] + w[n]
  BY <1>1
<1> QED BY <1>2 DEF sums

\* The sums of two sequences of numbers are the same as long as these are.
LEMMA PartialSumsAgree ==
  ASSUME NEW v, NEW w, NEW k \in Nat, Len(v) \in Nat, Len(w) \in Nat, k <= Len(v), k <= Len(w),
         \A n \in 1 .. k : v[n] \in Int /\ w[n] = v[n]
  PROVE  \A n \in 0 .. k : PartialSums(v)[n] \in Int /\ PartialSums(w)[n] = PartialSums(v)[n]
<1> DEFINE old == PartialSums(v)
           new == PartialSums(w)
           Apart == {n \in 0 .. k : ~ (old[n] \in Int /\ new[n] = old[n])}
<1>1. old[0] = 0 /\ \A n \in 1 .. Len(v) : old[n] = old[n - 1] + v[n]
  BY PartialSumsStep
<1>2. new[0] = 0 /\ \A n \in 1 .. Len(w) : new[n] = new[n - 1] + w[n]
  BY PartialSumsStep
<1> HIDE DEF old, new
<1>3. Apart = {}
  <2> SUFFICES ASSUME Apart # {} PROVE FALSE
    OBVIOUS
  <2>1. Apart \in SUBSET Nat
    OBVIOUS
  <2>2. PICK m \in Apart : \A n \in Apart : m <= n
    <3> HIDE DEF Apart
    <3> QED BY <2>1, LeastElement
  <2>3. m \in 1 .. k /\ m - 1 \in 0 .. k /\ m \in 1 .. Len(v) /\ m \in 1 .. Len(w)
    BY <1>1, <1>2
  <2>4. m - 1 \notin Apart
    BY <2>2, <2>3
  <2>5. old[m - 1] \in Int /\ new[m - 1] = old[m - 1] /\ v[m] \in Int /\ w[m] = v[m]
    BY <2>3, <2>4
  <2>6. old[m] = old[m - 1] + v[m] /\ new[m] = new[m - 1] + w[m]
    BY <1>1, <1>2, <2>3
  <2>7. old[m] \in Int /\ new[m] = old[m]
    BY <2>5, <2>6
  <2> QED BY <2>7
<1> QED BY <1>3 DEF old, new

\* The sums of a list of numbers, the whole of it and one longer by one.
LEMMA PartialSumsOf ==
  ASSUME NEW k \in Nat, NEW v \in [1 .. k -> Int]
  PROVE  /\ Len(v) = k
         /\ PartialSums(v)[0] = 0
         /\ \A n \in 0 .. k : PartialSums(v)[n] \in Int
         /\ \A n \in 1 .. k : PartialSums(v)[n] = PartialSums(v)[n - 1] + v[n]
<1>1. v \in Seq(Int) /\ Len(v) = k
  OBVIOUS
<1>2. /\ PartialSums(v)[0] = 0
      /\ \A n \in 1 .. k : PartialSums(v)[n] = PartialSums(v)[n - 1] + v[n]
  BY <1>1, PartialSumsStep
<1>3. \A n \in 1 .. k : v[n] \in Int /\ v[n] = v[n]
  OBVIOUS
<1>4. \A n \in 0 .. k : PartialSums(v)[n] \in Int
  <2>1. Len(v) \in Nat /\ k <= Len(v)
    BY <1>1
  <2> QED BY <1>3, <2>1, PartialSumsAgree, Zenon
<1> QED BY <1>1, <1>2, <1>4

\* The sums of a list and of one longer by a number.
LEMMA PartialSumsLonger ==
  ASSUME NEW k \in Nat, NEW v \in [1 .. k -> Int], NEW w \in [1 .. (k + 1) -> Int],
         \A n \in 1 .. k : w[n] = v[n]
  PROVE  /\ \A n \in 0 .. k : PartialSums(w)[n] = PartialSums(v)[n]
         /\ PartialSums(w)[k + 1] = PartialSums(v)[k] + w[k + 1]
<1>1. /\ Len(v) = k /\ Len(w) = k + 1
      /\ \A n \in 1 .. (k + 1) : PartialSums(w)[n] = PartialSums(w)[n - 1] + w[n]
  <2>1. k + 1 \in Nat
    OBVIOUS
  <2> QED BY <2>1, PartialSumsOf, Zenon
<1>2. \A n \in 1 .. k : v[n] \in Int /\ w[n] = v[n]
  OBVIOUS
<1>3. \A n \in 0 .. k : PartialSums(w)[n] = PartialSums(v)[n]
  <2>1. Len(v) \in Nat /\ Len(w) \in Nat /\ k <= Len(v) /\ k <= Len(w)
    BY <1>1
  <2> QED BY <1>2, <2>1, PartialSumsAgree, Zenon
<1>4. k + 1 \in 1 .. (k + 1) /\ (k + 1) - 1 = k /\ k \in 0 .. k
  OBVIOUS
<1>5. PartialSums(w)[k + 1] = PartialSums(w)[(k + 1) - 1] + w[k + 1]
  BY <1>1, <1>4
<1> QED BY <1>3, <1>4, <1>5

\* The sums of nothings are nothing.
LEMMA PartialSumsNone ==
  ASSUME NEW w, NEW k \in Nat, Len(w) \in Nat, k <= Len(w), \A n \in 1 .. k : w[n] = 0
  PROVE  PartialSums(w)[k] = 0
<1> DEFINE sums == PartialSums(w)
           Not == {n \in 0 .. k : sums[n] # 0}
<1>1. sums[0] = 0 /\ \A n \in 1 .. Len(w) : sums[n] = sums[n - 1] + w[n]
  BY PartialSumsStep
<1> HIDE DEF sums
<1>2. Not = {}
  <2> SUFFICES ASSUME Not # {} PROVE FALSE
    OBVIOUS
  <2>1. Not \in SUBSET Nat
    OBVIOUS
  <2>2. PICK m \in Not : \A n \in Not : m <= n
    <3> HIDE DEF Not
    <3> QED BY <2>1, LeastElement
  <2>3. m \in 1 .. k /\ m - 1 \in 0 .. k /\ m \in 1 .. Len(w)
    BY <1>1
  <2>4. m - 1 \notin Not
    BY <2>2, <2>3
  <2>5. sums[m - 1] = 0 /\ w[m] = 0 /\ sums[m] = sums[m - 1] + w[m]
    BY <1>1, <2>3, <2>4
  <2> QED BY <2>5
<1>3. k \in 0 .. k
  OBVIOUS
<1> QED BY <1>2, <1>3 DEF sums

-----------------------------------------------------------------------------
(* Sorted lists *)

\* The list of a finite set in a strict order that is total on it has each
\* element once, in this order.
LEMMA InOrderSorts ==
  ASSUME NEW S, IsFiniteSet(S), NEW R,
         \A x \in S : <<x, x>> \notin R,
         \A x, y, z \in S : <<x, y>> \in R /\ <<y, z>> \in R => <<x, z>> \in R,
         \A x, y \in S : x # y => <<x, y>> \in R \/ <<y, x>> \in R
  PROVE  /\ Cardinality(S) \in Nat
         /\ DOMAIN InOrder(S, R) = 1 .. Cardinality(S)
         /\ \A n \in 1 .. Cardinality(S) : InOrder(S, R)[n] \in S
         /\ \A m, n \in 1 .. Cardinality(S) :
              m < n => <<InOrder(S, R)[m], InOrder(S, R)[n]>> \in R
         /\ \A x \in S : \E n \in 1 .. Cardinality(S) : InOrder(S, R)[n] = x
<1> DEFINE N == Cardinality(S)
           Under(x) == {y \in S : <<y, x>> \in R}
           rank == [x \in S |-> Place(S, R, x) + 1]
           order == InOrder(S, R)
<1>1. N \in Nat
  BY FS_CardinalityType
<1>2. ASSUME NEW x \in S
      PROVE  /\ IsFiniteSet(Under(x)) /\ Place(S, R, x) = Cardinality(Under(x))
             /\ Place(S, R, x) \in Nat /\ Place(S, R, x) < N
  <2>1. Under(x) \in SUBSET S /\ x \notin Under(x)
    OBVIOUS
  <2>2. Place(S, R, x) = Cardinality(Under(x))
    BY DEF Place
  <2> HIDE DEF Under
  <2>3. IsFiniteSet(Under(x)) /\ Cardinality(Under(x)) <= N /\ (N = Cardinality(Under(x)) => S = Under(x))
    BY <2>1, FS_Subset
  <2>4. Cardinality(Under(x)) \in Nat
    BY <2>3, FS_CardinalityType
  <2> QED BY <1>1, <2>1, <2>2, <2>3, <2>4
<1> HIDE DEF Under
<1>3. \A x \in S : Place(S, R, x) \in Nat /\ Place(S, R, x) < N
  BY <1>2
<1> USE DEF Under
<1>4. ASSUME NEW x \in S, NEW y \in S, <<x, y>> \in R
      PROVE  Place(S, R, x) < Place(S, R, y)
  <2>1. Under(x) \in SUBSET Under(y) /\ x \in Under(y) /\ x \notin Under(x)
    BY <1>4
  <2>2. /\ IsFiniteSet(Under(y)) /\ Place(S, R, y) = Cardinality(Under(y)) /\ Place(S, R, y) \in Nat
        /\ Place(S, R, x) = Cardinality(Under(x)) /\ Place(S, R, x) \in Nat
    BY <1>2
  <2> HIDE DEF Under
  <2>3. /\ Cardinality(Under(x)) <= Cardinality(Under(y))
        /\ Cardinality(Under(y)) = Cardinality(Under(x)) => Under(y) = Under(x)
    BY <2>1, <2>2, FS_Subset
  <2> QED BY <2>1, <2>2, <2>3
<1> HIDE DEF Under
<1>5. \A x, y \in S : Place(S, R, x) = Place(S, R, y) => x = y
  <2> SUFFICES ASSUME NEW x \in S, NEW y \in S, Place(S, R, x) = Place(S, R, y), x # y PROVE FALSE
    OBVIOUS
  <2>1. Place(S, R, x) < Place(S, R, y) \/ Place(S, R, y) < Place(S, R, x)
    BY <1>4
  <2> QED BY <1>3, <2>1
<1>6. rank \in Injection(S, 1 .. N)
  <2>1. rank \in [S -> 1 .. N]
    BY <1>1, <1>3
  <2>2. \A x, y \in S : rank[x] = rank[y] => x = y
    BY <1>3, <1>5
  <2> HIDE DEF rank
  <2> QED BY <2>1, <2>2 DEF Injection, IsInjective
<1>7. rank \in Surjection(S, 1 .. N)
  <2>1. IsFiniteSet(1 .. N) /\ Cardinality(1 .. N) = N
    BY <1>1, FS_Interval
  <2> HIDE DEF rank
  <2> QED BY <1>6, <2>1, FS_Injection
<1>8. ASSUME NEW n \in 1 .. N PROVE \E x \in S : Place(S, R, x) = n - 1
  <2>1. \E x \in S : rank[x] = n
    BY <1>7 DEF Surjection
  <2> QED BY <1>3, <2>1
<1>9. DOMAIN order = 1 .. N /\ \A n \in 1 .. N : order[n] = CHOOSE x \in S : Place(S, R, x) = n - 1
  BY DEF InOrder
<1> HIDE DEF order, rank
<1>10. \A n \in 1 .. N : order[n] \in S /\ Place(S, R, order[n]) = n - 1
  BY <1>8, <1>9
<1>11. ASSUME NEW m \in 1 .. N, NEW n \in 1 .. N, m < n PROVE <<order[m], order[n]>> \in R
  <2>1. order[m] \in S /\ order[n] \in S /\ Place(S, R, order[m]) = m - 1 /\ Place(S, R, order[n]) = n - 1
    BY <1>10
  <2>2. order[m] # order[n]
    BY <1>11, <2>1
  <2>3. ~ (Place(S, R, order[n]) < Place(S, R, order[m]))
    BY <1>11, <2>1
  <2> QED BY <1>4, <2>1, <2>2, <2>3
<1>12. ASSUME NEW x \in S PROVE \E n \in 1 .. N : order[n] = x
  <2>1. Place(S, R, x) + 1 \in 1 .. N /\ (Place(S, R, x) + 1) - 1 = Place(S, R, x)
    BY <1>1, <1>3
  <2>2. order[Place(S, R, x) + 1] \in S
        /\ Place(S, R, order[Place(S, R, x) + 1]) = (Place(S, R, x) + 1) - 1
    BY <1>10, <2>1
  <2> QED BY <1>5, <2>1, <2>2
<1> QED BY <1>1, <1>9, <1>10, <1>11, <1>12 DEF order

\* The places of a list in their order.
LEMMA AscendingSorts ==
  ASSUME NEW S \in SUBSET Nat, IsFiniteSet(S)
  PROVE  /\ Cardinality(S) \in Nat
         /\ DOMAIN InOrder(S, Ascending(S)) = 1 .. Cardinality(S)
         /\ \A n \in 1 .. Cardinality(S) : InOrder(S, Ascending(S))[n] \in S
         /\ \A m, n \in 1 .. Cardinality(S) :
              m < n => InOrder(S, Ascending(S))[m] < InOrder(S, Ascending(S))[n]
<1> DEFINE R == Ascending(S)
<1>1. \A x, y \in S : (<<x, y>> \in R) <=> (x < y)
  BY DEF Ascending
<1> HIDE DEF R
<1>2. /\ \A x \in S : <<x, x>> \notin R
      /\ \A x, y, z \in S : <<x, y>> \in R /\ <<y, z>> \in R => <<x, z>> \in R
      /\ \A x, y \in S : x # y => <<x, y>> \in R \/ <<y, x>> \in R
  BY <1>1
<1>3. /\ Cardinality(S) \in Nat
      /\ DOMAIN InOrder(S, R) = 1 .. Cardinality(S)
      /\ \A n \in 1 .. Cardinality(S) : InOrder(S, R)[n] \in S
      /\ \A m, n \in 1 .. Cardinality(S) : m < n => <<InOrder(S, R)[m], InOrder(S, R)[n]>> \in R
  BY <1>2, InOrderSorts, Zenon
<1> QED BY <1>1, <1>3 DEF R

-----------------------------------------------------------------------------
(* The order tracker: whatever reports arrive and in whatever order *)

\* An id the tracker does not hold carries no status, fill or exchange id yet:
\* what tracking it later relies on.
FreshUntouched ==
  \A c \in Cid \ (tracker.open \cup tracker.closed) :
    tracker.status[c] = "PENDING" /\ c \notin tracker.bound

\* The inductive invariant.
TrackerInv == TypeOK /\ ClosedIffTerminal /\ IndexExact /\ FreshUntouched

\* What an accepted report is about: a held order, and a status of the table
\* that continues its own.
LEMMA AcceptedReport ==
  ASSUME TrackerInv, NEW c \in Cid, NEW byClient \in BOOLEAN, NEW byExchange \in BOOLEAN,
         NEW status \in OrderStatus,
         Accepts(tracker, c, byClient, byExchange, status)
  PROVE  /\ c \in tracker.open \cup tracker.closed
         /\ tracker.status[c] \in OrderStatus
         /\ Rank(status) >= Rank(tracker.status[c])
         /\ c \in tracker.closed => status = tracker.status[c]
<1>1. c \in tracker.open \cup tracker.closed
  BY DEF Accepts, _find_state
<1>2. tracker.status[c] \in OrderStatus
  BY DEF TrackerInv, TypeOK, Tracker
<1>3. status \in VALID_TRANSITIONS[tracker.status[c]]
  BY DEF Accepts, _is_valid_transition
<1>4. Rank(status) >= Rank(tracker.status[c])
  BY <1>2, <1>3 DEF VALID_TRANSITIONS, Rank, OrderStatus, TERMINAL_STATUSES
<1>5. ASSUME c \in tracker.closed PROVE status = tracker.status[c]
  <2>1. tracker.status[c] \in TERMINAL_STATUSES
    BY <1>5 DEF TrackerInv, ClosedIffTerminal
  <2> QED BY <1>2, <1>3, <2>1 DEF VALID_TRANSITIONS, OrderStatus, TERMINAL_STATUSES
<1> QED BY <1>1, <1>2, <1>4, <1>5

\* A report never lowers a fill and never raises it above the quantity.
LEMMA FillBounded ==
  ASSUME TrackerInv, NEW c \in Cid, NEW f \in 0 .. Qty + 1
  PROVE  LargerFill(tracker, c, f) \in 0 .. Qty /\ LargerFill(tracker, c, f) >= tracker.filled[c]
BY QtyAssumption DEF TrackerInv, TypeOK, Tracker, LargerFill

\* An accepted report keeps the invariant and only advances its order.
LEMMA ReportStep ==
  ASSUME TrackerInv, NEW c \in Cid, NEW byClient \in BOOLEAN, NEW byExchange \in BOOLEAN,
         NEW status \in OrderStatus, NEW f \in 0 .. Qty + 1,
         Report(c, byClient, byExchange, status, f)
  PROVE  /\ TrackerInv'
         /\ \A d \in Cid : /\ Rank(tracker'.status[d]) >= Rank(tracker.status[d])
                           /\ tracker'.filled[d] >= tracker.filled[d]
                           /\ d \in tracker.closed => /\ d \in tracker'.closed
                                                      /\ tracker'.status[d] = tracker.status[d]
<1> DEFINE fill == LargerFill(tracker, c, f)
           closes == status \in TERMINAL_STATUSES
<1>1. /\ c \in tracker.open \cup tracker.closed
      /\ Rank(status) >= Rank(tracker.status[c])
      /\ c \in tracker.closed => status = tracker.status[c]
  BY AcceptedReport DEF Report
<1>2. fill \in 0 .. Qty /\ fill >= tracker.filled[c]
  BY FillBounded
<1>3. /\ tracker'.open = IF closes THEN tracker.open \ {c} ELSE tracker.open
      /\ tracker'.closed = IF closes THEN tracker.closed \cup {c} ELSE tracker.closed
      /\ tracker'.status = [tracker.status EXCEPT ![c] = status]
      /\ tracker'.filled = [tracker.filled EXCEPT ![c] = fill]
      /\ tracker'.bound = IF byExchange THEN tracker.bound \cup {c} ELSE tracker.bound
      /\ tracker'.mapped =
           IF closes /\ c \in tracker'.bound
             THEN (IF byExchange THEN tracker.mapped \cup {c} ELSE tracker.mapped) \ {c}
             ELSE IF byExchange THEN tracker.mapped \cup {c} ELSE tracker.mapped
      /\ tracker' = [open |-> tracker'.open, closed |-> tracker'.closed,
                     status |-> tracker'.status, filled |-> tracker'.filled,
                     bound |-> tracker'.bound, mapped |-> tracker'.mapped]
  BY DEF Report, on_report
<1>4. /\ tracker.open \in SUBSET Cid /\ tracker.closed \in SUBSET Cid
      /\ tracker.status \in [Cid -> OrderStatus] /\ tracker.filled \in [Cid -> 0 .. Qty]
      /\ tracker.bound \in SUBSET Cid /\ tracker.mapped \in SUBSET Cid
  BY DEF TrackerInv, TypeOK, Tracker
<1> HIDE DEF fill
<1>5. TypeOK'
  <2>1. tracker'.status \in [Cid -> OrderStatus] /\ tracker'.filled \in [Cid -> 0 .. Qty]
    BY <1>2, <1>3, <1>4
  <2>2. /\ tracker'.open \in SUBSET Cid /\ tracker'.closed \in SUBSET Cid
        /\ tracker'.bound \in SUBSET Cid /\ tracker'.mapped \in SUBSET Cid
    BY <1>3, <1>4
  <2> QED BY <1>3, <2>1, <2>2 DEF TypeOK, Tracker
<1>6. ASSUME c \in tracker.closed PROVE closes
  BY <1>1, <1>6 DEF TrackerInv, ClosedIffTerminal
<1>7. ClosedIffTerminal'
  <2>1. \A d \in Cid : tracker'.status[d] = IF d = c THEN status ELSE tracker.status[d]
    BY <1>3, <1>4
  <2> QED BY <1>1, <1>3, <1>4, <1>6, <2>1 DEF TrackerInv, ClosedIffTerminal
<1>8. IndexExact'
  BY <1>1, <1>3, <1>6 DEF TrackerInv, IndexExact, ClosedIffTerminal
<1>9. ASSUME NEW d \in Cid
      PROVE  /\ Rank(tracker'.status[d]) >= Rank(tracker.status[d])
             /\ tracker'.filled[d] >= tracker.filled[d]
             /\ d \in tracker.closed => /\ d \in tracker'.closed
                                        /\ tracker'.status[d] = tracker.status[d]
  <2>1. tracker.filled[d] \in Int /\ tracker.status[d] \in OrderStatus
    BY <1>4
  <2>2. Rank(tracker.status[d]) \in Int
    BY <2>1 DEF Rank, OrderStatus, TERMINAL_STATUSES
  <2>3. CASE d = c
    BY <1>1, <1>2, <1>3, <1>4, <2>3
  <2>4. CASE d # c
    BY <1>3, <1>4, <2>1, <2>2, <2>4
  <2> QED BY <2>3, <2>4
<1>10. FreshUntouched'
  <2>1. \A d \in Cid : d # c => tracker'.status[d] = tracker.status[d]
    BY <1>3, <1>4
  <2> QED BY <1>1, <1>3, <2>1 DEF TrackerInv, FreshUntouched
<1> QED BY <1>5, <1>7, <1>8, <1>9, <1>10 DEF TrackerInv

\* Every step keeps the invariant and only advances the orders already held.
LEMMA TrackerStep ==
  ASSUME TrackerInv, [Next]_tracker
  PROVE  /\ TrackerInv'
         /\ \A c \in tracker.open \cup tracker.closed :
              /\ Rank(tracker'.status[c]) >= Rank(tracker.status[c])
              /\ tracker'.filled[c] >= tracker.filled[c]
              /\ c \in tracker.closed =>
                   c \in tracker'.closed /\ tracker'.status[c] = tracker.status[c]
<1>0. /\ tracker.open \cup tracker.closed \subseteq Cid
      /\ \A c \in Cid : /\ tracker.status[c] \in OrderStatus /\ tracker.filled[c] \in Int
                        /\ Rank(tracker.status[c]) \in Int
  <2>1. \A c \in Cid : tracker.status[c] \in OrderStatus /\ tracker.filled[c] \in Int
    BY DEF TrackerInv, TypeOK, Tracker
  <2> QED BY <2>1 DEF TrackerInv, TypeOK, Tracker, Rank, OrderStatus, TERMINAL_STATUSES
<1>1. CASE tracker' = tracker
  BY <1>0, <1>1 DEF TrackerInv, TypeOK, ClosedIffTerminal, IndexExact, FreshUntouched
<1>2. CASE \E c \in Cid : Track(c)
  <2>1. PICK c \in Cid : /\ c \notin tracker.open \cup tracker.closed
                         /\ tracker' = [tracker EXCEPT !.open = @ \cup {c}]
    BY <1>2 DEF Track, CanTrack, track_order
  <2>2. /\ tracker'.open = tracker.open \cup {c} /\ tracker'.closed = tracker.closed
        /\ tracker'.status = tracker.status /\ tracker'.filled = tracker.filled
        /\ tracker'.bound = tracker.bound /\ tracker'.mapped = tracker.mapped
        /\ tracker' \in Tracker
    BY <2>1 DEF TrackerInv, TypeOK, Tracker
  <2>3. tracker.status[c] = "PENDING" /\ c \notin tracker.bound
    BY <2>1 DEF TrackerInv, FreshUntouched
  <2>4. TrackerInv'
    BY <2>1, <2>2, <2>3
       DEF TrackerInv, TypeOK, ClosedIffTerminal, IndexExact, FreshUntouched, TERMINAL_STATUSES
  <2> QED BY <1>0, <2>2, <2>4
<1>3. CASE \E c \in Cid : Bind(c)
  <2>1. PICK c \in Cid : tracker' = bind_exchange_order_id(tracker, c)
    BY <1>3 DEF Bind
  <2>2. CASE c \in tracker.open
    <3>1. /\ tracker'.open = tracker.open /\ tracker'.closed = tracker.closed
          /\ tracker'.status = tracker.status /\ tracker'.filled = tracker.filled
          /\ tracker'.bound = tracker.bound \cup {c}
          /\ tracker'.mapped = tracker.mapped \cup {c}
          /\ tracker' \in Tracker
      BY <2>1, <2>2 DEF bind_exchange_order_id, TrackerInv, TypeOK, Tracker
    <3>2. TrackerInv'
      BY <2>2, <3>1 DEF TrackerInv, TypeOK, ClosedIffTerminal, IndexExact, FreshUntouched
    <3> QED BY <1>0, <3>1, <3>2
  <2>3. CASE c \notin tracker.open
    BY <1>1, <2>1, <2>3 DEF bind_exchange_order_id
  <2> QED BY <2>2, <2>3
<1>4. CASE \E c \in Cid, byClient, byExchange \in BOOLEAN, status \in OrderStatus,
              f \in 0 .. Qty + 1 : Report(c, byClient, byExchange, status, f)
  BY <1>0, <1>4, ReportStep
<1> QED BY <1>1, <1>2, <1>3, <1>4 DEF Next

LEMMA TrackerInit == Init => TrackerInv
<1>1. EmptyTracker \in Tracker
  BY QtyAssumption DEF EmptyTracker, Tracker, OrderStatus
<1> QED BY <1>1 DEF Init, TrackerInv, TypeOK, ClosedIffTerminal, IndexExact, FreshUntouched,
                    EmptyTracker

\* The invariant holds under every sequence of calls.
THEOREM TrackerInvariance == Spec => []TrackerInv
<1>1. TrackerInv /\ [Next]_tracker => TrackerInv'
  BY TrackerStep
<1> QED BY TrackerInit, <1>1, PTL DEF Spec

\* Types, and filled_qty <= qty.
THEOREM TypeCorrect == Spec => []TypeOK
<1>1. TrackerInv => TypeOK
  BY DEF TrackerInv
<1> QED BY <1>1, TrackerInvariance, PTL

\* An order is closed exactly when its status is terminal.
THEOREM ClosedExactlyWhenTerminal == Spec => []ClosedIffTerminal
<1>1. TrackerInv => ClosedIffTerminal
  BY DEF TrackerInv
<1> QED BY <1>1, TrackerInvariance, PTL

\* The exchange-id index is exact.
THEOREM IndexIsExact == Spec => []IndexExact
<1>1. TrackerInv => IndexExact
  BY DEF TrackerInv
<1> QED BY <1>1, TrackerInvariance, PTL

\* No report takes an order back, reopens it, relabels it or lowers its fill.
THEOREM Advance == Spec => OrdersOnlyAdvance
<1> DEFINE Forward == \A c \in tracker.open \cup tracker.closed :
                        /\ Rank(tracker'.status[c]) >= Rank(tracker.status[c])
                        /\ tracker'.filled[c] >= tracker.filled[c]
                        /\ c \in tracker.closed =>
                             c \in tracker'.closed /\ tracker'.status[c] = tracker.status[c]
<1>1. TrackerInv /\ [Next]_tracker => [Forward]_tracker
  BY TrackerStep
<1> HIDE DEF Forward
<1>2. Spec => [][Forward]_tracker
  BY <1>1, TrackerInvariance, PTL DEF Spec
<1> QED BY <1>2 DEF OrdersOnlyAdvance, Forward

-----------------------------------------------------------------------------
(* The quote manager *)

\* Dropping the leading old elements leaves a suffix, and all that went was old.
LEMMA DroppedIsSuffix ==
  ASSUME NEW S, NEW q \in Seq(S), NEW Old
  PROVE  \E k \in 0 .. Len(q) :
           /\ Dropped(q, Old) = SubSeq(q, k + 1, Len(q))
           /\ \A i \in 1 .. k : q[i] \in Old
<1> DEFINE Keep == {i \in 1 .. Len(q) : q[i] \notin Old}
<1>1. \E k \in 0 .. Len(q) : IsLeading(q, Old, k)
  <2>1. CASE Keep = {}
    BY <2>1 DEF IsLeading
  <2>2. CASE Keep # {}
    <3>1. PICK m \in Keep : \A k \in Keep : m <= k
      <4> Keep \subseteq Nat
        OBVIOUS
      <4> HIDE DEF Keep
      <4> QED BY <2>2, LeastElement
    <3>2. m - 1 \in 0 .. Len(q) /\ (m - 1) + 1 = m /\ \A i \in 1 .. m - 1 : i \notin Keep /\ i \in 1 .. Len(q)
      BY <3>1
    <3> QED BY <3>1, <3>2 DEF IsLeading
  <2> QED BY <2>1, <2>2
<1>2. Leading(q, Old) \in 0 .. Len(q) /\ IsLeading(q, Old, Leading(q, Old))
  BY <1>1 DEF Leading
<1> QED BY <1>2 DEF Dropped, IsLeading

\* The timestamps the manager holds are the last cancellations recorded; those
\* it let go left the window long since; and while a cancellation is under way
\* there is room for it.
QuotesOK ==
  /\ clock \in Nat /\ cancel_timestamps \in Seq(Nat) /\ taken \in Seq(Nat)
  /\ Len(cancel_timestamps) <= Len(taken)
  /\ \A i \in 1 .. Len(cancel_timestamps) :
       cancel_timestamps[i] = taken[Len(taken) - Len(cancel_timestamps) + i]
  /\ \A i \in 1 .. Len(taken) - Len(cancel_timestamps) : taken[i] <= clock - Span
  /\ asking # NoQuote => Len(cancel_timestamps) < MaxCancels

\* Pruning keeps this.
LEMMA PrunedIsSuffix ==
  ASSUME QuotesOK, NEW q, q = _prune_cancel_history(cancel_timestamps)
  PROVE  /\ q \in Seq(Nat) /\ Len(q) <= Len(taken)
         /\ \A i \in 1 .. Len(q) : q[i] = taken[Len(taken) - Len(q) + i]
         /\ \A i \in 1 .. Len(taken) - Len(q) : taken[i] <= clock - Span
<1> DEFINE Old == {t \in 0 .. clock : t <= clock - Span}
           n == Len(taken)
           m == Len(cancel_timestamps)
<1>1. PICK k \in 0 .. m :
        q = SubSeq(cancel_timestamps, k + 1, m) /\ \A i \in 1 .. k : cancel_timestamps[i] \in Old
  <2> HIDE DEF Old
  <2>1. cancel_timestamps \in Seq(Nat)
    BY DEF QuotesOK
  <2> QED BY <2>1, DroppedIsSuffix DEF _prune_cancel_history, Old
<1>2. cancel_timestamps \in Seq(Nat) /\ n \in Nat /\ m \in Nat /\ m <= n
  BY DEF QuotesOK
<1>3. q \in Seq(Nat) /\ Len(q) = m - k /\ \A i \in 1 .. m - k : q[i] = cancel_timestamps[k + i]
  BY <1>1, <1>2
<1>4. ASSUME NEW i \in 1 .. m - k PROVE q[i] = taken[n - (m - k) + i]
  <2>1. k + i \in 1 .. m /\ n - m + (k + i) = n - (m - k) + i
    BY <1>2
  <2> QED BY <1>3, <2>1 DEF QuotesOK
<1>5. ASSUME NEW i \in 1 .. n - (m - k) PROVE taken[i] <= clock - Span
  <2>1. CASE i \in 1 .. n - m
    BY <2>1 DEF QuotesOK
  <2>2. CASE i \notin 1 .. n - m
    <3>1. PICK j : j = i - (n - m)
      OBVIOUS
    <3>2. j \in 1 .. k /\ j \in 1 .. m /\ n - m + j = i
      BY <1>2, <2>2, <3>1
    <3>3. taken[i] = cancel_timestamps[j] /\ cancel_timestamps[j] \in Old
      BY <1>1, <3>2 DEF QuotesOK
    <3> QED BY <3>3
  <2> QED BY <2>1, <2>2
<1> QED BY <1>2, <1>3, <1>4, <1>5

LEMMA QuotesInit == QuoteInit => QuotesOK
BY ManagerAssumption DEF QuoteInit, QuotesOK

\* A recorded cancellation is one the limit allows: with MaxCancels recorded or
\* more, the one that many before is no longer held and so out of the window.
LEMMA RecordIsFree ==
  ASSUME QuotesOK, record_cancel
  PROVE  Rate!Free
<1>1. PICK n \in Nat, m \in Nat : n = Len(taken) /\ m = Len(cancel_timestamps)
  BY DEF QuotesOK
<1>2. m < MaxCancels /\ MaxCancels \in Nat /\ m <= n
  BY <1>1, ManagerAssumption DEF record_cancel, QuotesOK
<1>3. CASE n < MaxCancels
  BY <1>1, <1>3 DEF Rate!Free
<1>4. CASE ~ (n < MaxCancels)
  <2>1. n - MaxCancels + 1 \in 1 .. n - m
    BY <1>2, <1>4
  <2>2. taken[n - MaxCancels + 1] <= clock - Span /\ taken[n - MaxCancels + 1] \in Nat
    <3>1. n - MaxCancels + 1 \in 1 .. n
      BY <1>2, <1>4
    <3> QED BY <1>1, <2>1, <3>1 DEF QuotesOK
  <2>3. clock - taken[n - MaxCancels + 1] >= Span
    BY <2>2, ManagerAssumption DEF QuotesOK
  <2> QED BY <1>1, <2>3 DEF Rate!Free
<1> QED BY <1>3, <1>4

\* A cancellation is recorded at the end of both sequences.
LEMMA RecordStep ==
  ASSUME QuotesOK, record_cancel
  PROVE  QuotesOK'
<1>1. PICK n \in Nat, m \in Nat : n = Len(taken) /\ m = Len(cancel_timestamps)
  BY DEF QuotesOK
<1>2. m <= n /\ clock \in Nat /\ clock' = clock /\ asking' = NoQuote
  BY <1>1 DEF record_cancel, QuotesOK
<1>3. taken' \in Seq(Nat) /\ Len(taken') = n + 1 /\ taken'[n + 1] = clock
  BY <1>1 DEF record_cancel, QuotesOK
<1>4. ASSUME NEW i \in 1 .. n PROVE taken'[i] = taken[i]
  BY <1>1 DEF record_cancel, QuotesOK
<1>5. /\ cancel_timestamps' \in Seq(Nat) /\ Len(cancel_timestamps') = m + 1
      /\ cancel_timestamps'[m + 1] = clock
  BY <1>1 DEF record_cancel, QuotesOK
<1>6. ASSUME NEW i \in 1 .. m PROVE cancel_timestamps'[i] = cancel_timestamps[i]
  BY <1>1 DEF record_cancel, QuotesOK
<1>7. Len(taken') - Len(cancel_timestamps') = n - m
  BY <1>3, <1>5
<1>8. ASSUME NEW i \in 1 .. m + 1 PROVE cancel_timestamps'[i] = taken'[n - m + i]
  <2>1. CASE i = m + 1
    <3>1. n - m + i = n + 1
      BY <2>1
    <3> QED BY <1>3, <1>5, <2>1, <3>1
  <2>2. CASE i # m + 1
    <3>1. i \in 1 .. m
      BY <2>2
    <3>2. n - m + i \in 1 .. n
      BY <1>2, <3>1
    <3> QED BY <1>1, <1>4, <1>6, <3>1, <3>2 DEF QuotesOK
  <2> QED BY <2>1, <2>2
<1>9. ASSUME NEW i \in 1 .. n - m PROVE taken'[i] <= clock - Span
  <2>1. i \in 1 .. n
    BY <1>2
  <2> QED BY <1>1, <1>4, <2>1 DEF QuotesOK
<1>10. Len(cancel_timestamps') <= Len(taken')
  BY <1>2, <1>3, <1>5
<1> QED BY <1>2, <1>3, <1>5, <1>7, <1>8, <1>9, <1>10 DEF QuotesOK

\* Every step keeps it, and is one that the rolling limit allows, or none.
LEMMA QuotesStep ==
  ASSUME QuotesOK, [QuoteNext]_quotes
  PROVE  QuotesOK' /\ [Rate!Next]_<<clock, taken>>
<1>1. ASSUME NEW q \in Quote, CancelAllowed(q) \/ CancelRefused(q)
      PROVE  QuotesOK' /\ UNCHANGED <<clock, taken>>
  <2>1. UNCHANGED <<clock, taken>>
    BY <1>1 DEF CancelAllowed, CancelRefused
  <2>2. PICK p : p = _prune_cancel_history(cancel_timestamps)
    OBVIOUS
  <2>3. cancel_timestamps' = p /\ (asking' # NoQuote => Len(p) < MaxCancels)
    BY <1>1, <2>2 DEF CancelAllowed, CancelRefused
  <2>4. /\ p \in Seq(Nat) /\ Len(p) <= Len(taken)
        /\ \A i \in 1 .. Len(p) : p[i] = taken[Len(taken) - Len(p) + i]
        /\ \A i \in 1 .. Len(taken) - Len(p) : taken[i] <= clock - Span
    BY <2>2, PrunedIsSuffix
  <2> QED BY <2>1, <2>3, <2>4 DEF QuotesOK
<1>2. ASSUME NEW q \in Quote, register_quote(q) PROVE QuotesOK' /\ UNCHANGED <<clock, taken>>
  BY <1>2 DEF register_quote, QuotesOK
<1>3. CASE record_cancel
  <2>1. Rate!Take
    BY <1>3, RecordIsFree DEF record_cancel, Rate!Take
  <2> QED BY <1>3, <2>1, RecordStep DEF Rate!Next
<1>4. CASE CancelFails
  BY <1>4 DEF CancelFails, QuotesOK
<1>5. CASE ClockTick
  <2>1. clock' \in Nat /\ clock' > clock /\ UNCHANGED <<taken, cancel_timestamps, asking>>
    BY <1>5 DEF ClockTick, QuotesOK
  <2>2. Rate!Pass
    BY <2>1 DEF Rate!Pass
  <2>3. ASSUME NEW i \in 1 .. Len(taken) - Len(cancel_timestamps) PROVE taken[i] <= clock' - Span
    <3>1. taken[i] <= clock - Span /\ i \in 1 .. Len(taken)
      BY DEF QuotesOK
    <3>2. taken[i] \in Nat
      BY <3>1 DEF QuotesOK
    <3> QED BY <2>1, <3>1, <3>2, ManagerAssumption DEF QuotesOK
  <2> QED BY <2>1, <2>2, <2>3 DEF QuotesOK, Rate!Next
<1>6. CASE UNCHANGED quotes
  BY <1>6 DEF quotes, QuotesOK
<1> QED BY <1>1, <1>2, <1>3, <1>4, <1>5, <1>6 DEF QuoteNext

\* The manager implements the rolling limit, for any limit and any length of
\* the window, although it asks before the requests and records after them.
THEOREM QuoteRefinement == QuoteSpec => RateSpec
<1>1. QuoteInit => Rate!Init
  BY DEF QuoteInit, Rate!Init
<1>2. QuotesOK /\ [QuoteNext]_quotes => QuotesOK'
  BY QuotesStep
<1>3. QuotesOK /\ [QuoteNext]_quotes => [Rate!Next]_<<clock, taken>>
  BY QuotesStep
<1> QED BY <1>1, <1>2, <1>3, QuotesInit, PTL DEF QuoteSpec, RateSpec, Rate!Spec

\* So any MaxCancels + 1 recorded cancellations span the window at least.
THEOREM CancellationsAreSpaced == QuoteSpec => []Rate!Spaced
<1>1. QuoteInit => Rate!Spaced
  BY DEF QuoteInit, Rate!Spaced
<1>2. ASSUME QuotesOK, [QuoteNext]_quotes, Rate!Spaced
      PROVE  Rate!Spaced'
  <2>1. CASE UNCHANGED taken
    BY <1>2, <2>1 DEF Rate!Spaced
  <2>2. CASE Rate!Take
    <3>1. PICK n \in Nat : n = Len(taken) /\ DOMAIN taken = 1 .. n
      BY <1>2 DEF QuotesOK
    <3>2. DOMAIN taken' = 1 .. n + 1 /\ taken'[n + 1] = clock
      BY <1>2, <2>2, <3>1 DEF Rate!Take, QuotesOK
    <3>3. ASSUME NEW i \in 1 .. n PROVE taken'[i] = taken[i]
      BY <1>2, <2>2, <3>1 DEF Rate!Take, QuotesOK
    <3>4. ASSUME NEW i \in 1 .. n + 1, i + MaxCancels \in 1 .. n + 1
          PROVE  taken'[i + MaxCancels] - taken'[i] >= Span
      <4>1. i \in 1 .. n
        BY <3>4, ManagerAssumption
      <4>2. CASE i + MaxCancels \in 1 .. n
        BY <1>2, <3>1, <3>3, <4>1, <4>2 DEF Rate!Spaced
      <4>3. CASE i + MaxCancels = n + 1
        <5>1. ~ (n < MaxCancels) /\ i = n - MaxCancels + 1
          BY <4>1, <4>3, ManagerAssumption
        <5>2. clock - taken[i] >= Span
          BY <2>2, <3>1, <5>1 DEF Rate!Take, Rate!Free
        <5> QED BY <3>2, <3>3, <4>1, <4>3, <5>2
      <4>4. i + MaxCancels \in 1 .. n \/ i + MaxCancels = n + 1
        BY <3>4
      <4> QED BY <4>2, <4>3, <4>4
    <3> QED BY <3>2, <3>4 DEF Rate!Spaced
  <2>3. UNCHANGED taken \/ Rate!Take
    BY <1>2, QuotesStep DEF Rate!Next, Rate!Pass
  <2> QED BY <2>1, <2>2, <2>3
<1>3. QuotesOK /\ [QuoteNext]_quotes => QuotesOK'
  BY QuotesStep
<1> QED BY <1>1, <1>2, <1>3, QuotesInit, PTL DEF QuoteSpec

-----------------------------------------------------------------------------
(* The parquet buffer *)

BufferOK ==
  /\ ms \in 0 .. MaxMs /\ starts \in 0 .. MaxStarts
  /\ DOMAIN files = Names
  /\ tasks \in [1 .. MaxStarts -> {"none", "new", "sleeping", "cancelled", "done"}]
  /\ DOMAIN buffer = Kind /\ DOMAIN recorded = Kind

\* No row recorded is missing without a cause.
RowsKept == \A k \in Kind : recorded[k] \subseteq buffer[k] \cup InFiles(k) \cup lost

\* No task is between its cancellation and its last flush.
AllEnded == \A i \in 1 .. MaxStarts : tasks[i] # "cancelled"

\* What a stop has to see written leaves the memory before the last of the
\* cancelled tasks ends, and a stop waits for that.
Drained ==
  /\ due \subseteq Rows(recorded)
  /\ \A i \in 1 .. MaxStarts : i > starts => tasks[i] = "none"
  /\ stopper # "waiting" => AllEnded
  /\ AllEnded => Rows(buffer) \cap due = {}

BufferInv == BufferOK /\ RowsKept /\ Drained

\* A flush empties both buffers, and a row it or an earlier one held is in a
\* file or lost, whichever writes failed and whichever files they took.
LEMMA FlushEffect ==
  ASSUME BufferOK, RowsKept, NEW failed, NEW torn, flush(failed, torn),
         recorded' = recorded
  PROVE  /\ \A k \in Kind : buffer'[k] = {}
         /\ DOMAIN files' = Names /\ DOMAIN buffer' = Kind
         /\ RowsKept'
<1> DEFINE unwritten == UNION {buffer[k] : k \in failed}
           taken_over == UNION {files[<<k, ms>>] : k \in (Batches \ failed) \cup torn}
<1>1. /\ buffer' = [k \in Kind |-> {}]
      /\ files' = [n \in Names |->
                     IF n[2] # ms \/ n[1] \notin (Batches \ failed) \cup torn THEN files[n]
                     ELSE IF n[1] \in torn THEN {} ELSE buffer[n[1]]]
      /\ lost' = lost \cup unwritten \cup taken_over
      /\ torn \subseteq failed /\ failed \subseteq Batches /\ Batches \subseteq Kind
  <2>1. Batches \subseteq Kind
    BY DEF Batches
  <2> QED BY <2>1 DEF flush
<1> HIDE DEF unwritten, taken_over
<1>2. ASSUME NEW k \in Kind, NEW r \in recorded[k]
      PROVE  r \in InFiles(k)' \cup lost'
  <2>1. CASE r \in buffer[k] /\ k \in failed
    <3>1. r \in unwritten
      BY <2>1 DEF unwritten
    <3> QED BY <1>1, <3>1
  <2>2. CASE r \in buffer[k] /\ k \notin failed
    <3>1. k \in Batches /\ k \notin torn
      BY <1>1, <2>2 DEF Batches
    <3>2. <<k, ms>> \in Names /\ ms \in 0 .. MaxMs
      BY DEF BufferOK, Names
    <3>3. files'[<<k, ms>>] = buffer[k]
      BY <1>1, <2>2, <3>1, <3>2
    <3> QED BY <2>2, <3>2, <3>3 DEF InFiles
  <2>3. CASE r \in InFiles(k)
    <3>1. PICK t \in 0 .. MaxMs : r \in files[<<k, t>>]
      BY <2>3 DEF InFiles
    <3>2. <<k, t>> \in Names
      BY DEF Names
    <3>3. CASE t = ms /\ k \in (Batches \ failed) \cup torn
      <4>1. r \in taken_over
        BY <3>1, <3>3, Zenon DEF taken_over
      <4> QED BY <1>1, <4>1
    <3>4. CASE ~ (t = ms /\ k \in (Batches \ failed) \cup torn)
      <4>1. files'[<<k, t>>] = files[<<k, t>>]
        BY <1>1, <3>2, <3>4
      <4> QED BY <3>1, <4>1 DEF InFiles
    <3> QED BY <3>3, <3>4
  <2>4. CASE r \in lost
    BY <1>1, <2>4
  <2> QED BY <1>2, <2>1, <2>2, <2>3, <2>4 DEF RowsKept
<1>3. RowsKept'
  BY <1>2 DEF RowsKept
<1> QED BY <1>1, <1>3

LEMMA BufferInvInit == BufferInit => BufferInv
<1> SUFFICES ASSUME BufferInit PROVE BufferInv
  OBVIOUS
<1>1. BufferOK
  BY BufferAssumption DEF BufferInit, BufferOK
<1>2. RowsKept
  BY DEF BufferInit, RowsKept
<1>3. Drained
  BY DEF BufferInit, Drained, AllEnded, Rows
<1> QED BY <1>1, <1>2, <1>3 DEF BufferInv

\* Every step keeps the invariant.
LEMMA BufferInvStep ==
  ASSUME BufferInv, [BufferNext]_parquet
  PROVE  BufferInv'
<1> USE DEF BufferInv
<1>1. ASSUME NEW k \in Kind, NEW r \in Row, Record(k, r) PROVE BufferInv'
  <2>1. /\ buffer' = [buffer EXCEPT ![k] = @ \cup {r}]
        /\ recorded' = [recorded EXCEPT ![k] = @ \cup {r}]
        /\ UNCHANGED <<ms, files, lost, tasks, starts, stopper, due>>
        /\ r \notin Rows(recorded)
    BY <1>1 DEF Record, control
  <2>2. \A j \in Kind : /\ buffer'[j] = buffer[j] \cup (IF j = k THEN {r} ELSE {})
                        /\ recorded'[j] = recorded[j] \cup (IF j = k THEN {r} ELSE {})
    BY <2>1 DEF BufferOK
  <2>3. BufferOK'
    BY <2>1 DEF BufferOK
  <2>4. RowsKept'
    BY <2>1, <2>2 DEF RowsKept, InFiles
  <2>5. Rows(buffer)' = Rows(buffer) \cup {r} /\ Rows(recorded) \subseteq Rows(recorded)'
    BY <2>2 DEF Rows
  <2>6. Drained'
    BY <2>1, <2>5 DEF Drained, AllEnded
  <2> QED BY <2>3, <2>4, <2>6
<1>2. CASE Start
  <2>1. /\ starts' = starts + 1 /\ starts < MaxStarts
        /\ tasks' = [tasks EXCEPT ![starts + 1] = "new"]
        /\ UNCHANGED <<ms, buffer, files, lost, stopper, due, recorded>>
    BY <1>2 DEF Start, memory
  <2>2. starts + 1 \in 1 .. MaxStarts /\ tasks[starts + 1] = "none"
    BY <2>1, BufferAssumption DEF BufferOK, Drained
  <2>3. BufferOK'
    BY <2>1, <2>2, BufferAssumption DEF BufferOK
  <2>4. \A i \in 1 .. MaxStarts : tasks'[i] = IF i = starts + 1 THEN "new" ELSE tasks[i]
    BY <2>1, <2>2 DEF BufferOK
  <2>5. AllEnded' <=> AllEnded
    BY <2>2, <2>4 DEF AllEnded
  <2>6. \A i \in 1 .. MaxStarts : i > starts' => tasks'[i] = "none"
    BY <2>1, <2>4, BufferAssumption DEF BufferOK, Drained
  <2> QED BY <2>1, <2>3, <2>5, <2>6 DEF RowsKept, InFiles, Drained
<1>3. CASE Stop
  <2>1. /\ stopper' = "waiting" /\ starts > 0
        /\ tasks' = [tasks EXCEPT ![starts] =
                 CASE @ = "new" -> "done" [] @ = "sleeping" -> "cancelled" [] OTHER -> @]
        /\ due' = IF tasks[starts] = "sleeping" THEN Rows(recorded) ELSE due
        /\ UNCHANGED <<ms, buffer, files, lost, starts, recorded>>
    BY <1>3 DEF Stop, memory
  <2>2. starts \in 1 .. MaxStarts
    BY <2>1, BufferAssumption DEF BufferOK
  <2>3. \A i \in 1 .. MaxStarts :
          tasks'[i] = IF i # starts THEN tasks[i]
                      ELSE CASE tasks[i] = "new" -> "done"
                             [] tasks[i] = "sleeping" -> "cancelled"
                             [] OTHER -> tasks[i]
    BY <2>1, <2>2 DEF BufferOK
  <2>4. BufferOK'
    BY <2>1, <2>2 DEF BufferOK
  <2>5. RowsKept'
    BY <2>1 DEF RowsKept, InFiles
  <2>6. \A i \in 1 .. MaxStarts : i > starts => tasks'[i] = "none"
    BY <2>3, BufferAssumption DEF BufferOK, Drained
  <2>7. CASE tasks[starts] = "sleeping"
    <3>1. tasks'[starts] = "cancelled"
      BY <2>2, <2>3, <2>7
    <3>2. ~ AllEnded'
      BY <2>2, <3>1 DEF AllEnded
    <3> QED BY <2>1, <2>4, <2>5, <2>6, <2>7, <3>2 DEF Drained
  <2>8. CASE tasks[starts] # "sleeping"
    <3>1. AllEnded' => AllEnded
      BY <2>2, <2>3, <2>8 DEF AllEnded
    <3> QED BY <2>1, <2>4, <2>5, <2>6, <2>8, <3>1 DEF Drained
  <2> QED BY <2>7, <2>8
<1>4. CASE StopReturns
  <2>1. /\ \A i \in 1 .. starts : tasks[i] # "cancelled"
        /\ UNCHANGED <<ms, buffer, files, lost, tasks, starts, due, recorded>>
    BY <1>4 DEF StopReturns, memory
  <2>2. AllEnded
    BY <2>1, BufferAssumption DEF AllEnded, BufferOK, Drained
  <2> QED BY <2>1, <2>2 DEF BufferOK, RowsKept, InFiles, Drained, AllEnded
<1>5. CASE Crash
  <2>1. /\ lost' = lost \cup Rows(buffer) /\ buffer' = [k \in Kind |-> {}]
        /\ tasks' = [i \in 1 .. MaxStarts |-> IF tasks[i] = "none" THEN "none" ELSE "done"]
        /\ due' = {} /\ UNCHANGED <<ms, files, starts, recorded>>
    BY <1>5 DEF Crash
  <2>2. BufferOK'
    BY <2>1 DEF BufferOK
  <2>3. RowsKept'
    BY <2>1 DEF RowsKept, InFiles, Rows
  <2>4. Drained'
    BY <2>1 DEF Drained, AllEnded
  <2> QED BY <2>2, <2>3, <2>4
<1>6. CASE Tick
  <2>1. ms' \in 0 .. MaxMs
    BY <1>6, BufferAssumption DEF Tick, BufferOK
  <2>2. UNCHANGED <<buffer, files, lost, tasks, starts, stopper, due, recorded>>
    BY <1>6 DEF Tick, memory, control
  <2> QED BY <2>1, <2>2 DEF BufferOK, RowsKept, InFiles, Drained, AllEnded
<1>7. ASSUME NEW i \in 1 .. MaxStarts, TaskBegins(i) PROVE BufferInv'
  <2>1. /\ tasks' = [tasks EXCEPT ![i] = "sleeping"] /\ tasks[i] = "new"
        /\ UNCHANGED <<ms, buffer, files, lost, starts, stopper, due, recorded>>
    BY <1>7 DEF TaskBegins, memory
  <2>2. \A j \in 1 .. MaxStarts : tasks'[j] = IF j = i THEN "sleeping" ELSE tasks[j]
    BY <2>1 DEF BufferOK
  <2>3. AllEnded' <=> AllEnded
    BY <2>1, <2>2 DEF AllEnded
  <2>4. BufferOK' /\ \A j \in 1 .. MaxStarts : j > starts => tasks'[j] = "none"
    BY <2>1, <2>2 DEF BufferOK, Drained
  <2> QED BY <2>1, <2>3, <2>4 DEF RowsKept, InFiles, Drained
<1>8. ASSUME NEW i \in 1 .. MaxStarts, NEW failed, NEW torn, TaskFlushes(i, failed, torn)
      PROVE  BufferInv'
  <2>1. flush(failed, torn) /\ UNCHANGED <<ms, tasks, starts, stopper, due, recorded>>
    BY <1>8 DEF TaskFlushes, control
  <2>2. /\ \A k \in Kind : buffer'[k] = {}
        /\ DOMAIN files' = Names /\ DOMAIN buffer' = Kind
        /\ RowsKept'
    BY <2>1, FlushEffect
  <2>3. Rows(buffer)' = {}
    BY <2>2 DEF Rows
  <2> QED BY <2>1, <2>2, <2>3 DEF BufferOK, Drained, AllEnded
<1>9. ASSUME NEW i \in 1 .. MaxStarts, NEW failed, NEW torn, TaskEnds(i, failed, torn)
      PROVE  BufferInv'
  <2>1. /\ flush(failed, torn) /\ tasks' = [tasks EXCEPT ![i] = "done"]
        /\ tasks[i] = "cancelled"
        /\ UNCHANGED <<ms, starts, stopper, due, recorded>>
    BY <1>9 DEF TaskEnds
  <2>2. /\ \A k \in Kind : buffer'[k] = {}
        /\ DOMAIN files' = Names /\ DOMAIN buffer' = Kind
        /\ RowsKept'
    BY <2>1, FlushEffect
  <2>3. Rows(buffer)' = {}
    BY <2>2 DEF Rows
  <2>4. stopper = "waiting" /\ ~ (i > starts)
    BY <2>1 DEF Drained, AllEnded
  <2>5. \A j \in 1 .. MaxStarts : tasks'[j] = IF j = i THEN "done" ELSE tasks[j]
    BY <2>1 DEF BufferOK
  <2>6. BufferOK'
    BY <2>1, <2>2 DEF BufferOK
  <2> QED BY <2>1, <2>2, <2>3, <2>4, <2>5, <2>6 DEF Drained
<1>10. CASE UNCHANGED parquet
  <2>1. UNCHANGED <<ms, buffer, files, lost, tasks, starts, stopper, due, recorded>>
    BY <1>10 DEF parquet, memory, control
  <2> QED BY <2>1 DEF BufferOK, RowsKept, InFiles, Drained, AllEnded
<1> QED BY <1>1, <1>2, <1>3, <1>4, <1>5, <1>6, <1>7, <1>8, <1>9, <1>10 DEF BufferNext

\* For any rows, any clock and any number of tasks: no row vanishes but by a
\* failed write, a file of the same millisecond or a crash, and what was
\* recorded before a stop of a running task is not in memory when it returns.
THEOREM RowsAreAccounted == BufferSpec => []RowsAccounted
<1>1. BufferInv /\ [BufferNext]_parquet => BufferInv'
  BY BufferInvStep
<1>2. BufferInv => RowsAccounted
  BY DEF BufferInv, RowsKept, Drained, RowsAccounted
<1> QED BY <1>1, <1>2, BufferInvInit, PTL DEF BufferSpec

-----------------------------------------------------------------------------
(* The pair backtests: the trades are explained by the ticks they name *)

\* What a trade's record holds.
Trade == [entry_idx : Nat, exit_idx : Nat, side : {-1, 1}, entry_spread : Int,
          exit_spread : Int, pnl : Int]

\* Trades of the first k ticks.
TradesUpTo(k) ==
  {ts \in Seq(Trade) : \A n \in DOMAIN ts : /\ 1 <= ts[n].entry_idx
                                            /\ ts[n].entry_idx <= ts[n].exit_idx
                                            /\ ts[n].exit_idx <= k}

\* They are trades of the ticks up to a later one too.
LEMMA UpToLater ==
  ASSUME NEW k \in Nat, NEW ts \in TradesUpTo(k)
  PROVE  ts \in TradesUpTo(k + 1)
<1>1. ts \in Seq(Trade)
  BY DEF TradesUpTo
<1>2. ASSUME NEW n \in DOMAIN ts
      PROVE  /\ 1 <= ts[n].entry_idx /\ ts[n].entry_idx <= ts[n].exit_idx
             /\ ts[n].exit_idx <= k + 1
  <2>1. ts[n] \in Trade
    BY <1>1, <1>2
  <2>2. ts[n].exit_idx \in Nat
    BY <2>1 DEF Trade
  <2> QED BY <1>2, <2>2 DEF TradesUpTo
<1> QED BY <1>1, <1>2 DEF TradesUpTo

\* Gain and Gains over any sums b of the returns, not just those of a state.
GainIn(b, t) == t.side * (b[t.exit_idx] - b[t.entry_idx - 1]) - 2 * Fee
GainsIn(b, ts) == PartialSums([n \in DOMAIN ts |-> GainIn(b, ts[n])])

\* One trade's gain is a number.
LEMMA GainIsInt ==
  ASSUME NEW b, NEW k \in Nat, \A n \in 0 .. k : b[n] \in Int, NEW t \in Trade,
         1 <= t.entry_idx, t.entry_idx <= t.exit_idx, t.exit_idx <= k
  PROVE  GainIn(b, t) \in Int
<1>1. /\ t.side \in {-1, 1} /\ Fee \in Int
      /\ t.exit_idx \in 0 .. k /\ t.entry_idx - 1 \in 0 .. k
  BY BacktestAssumption DEF Trade
<1>2. b[t.exit_idx] \in Int /\ b[t.entry_idx - 1] \in Int
  BY <1>1
<1> DEFINE high == b[t.exit_idx]
           low == b[t.entry_idx - 1]
<1>3. GainIn(b, t) = t.side * (high - low) - 2 * Fee
  BY DEF GainIn
<1> HIDE DEF high, low
<1> QED BY <1>1, <1>2, <1>3 DEF high, low

\* The gains of trades are those of their ticks: other sums that agree on these
\* make no difference.
LEMMA GainsAgree ==
  ASSUME NEW k \in Nat, NEW b, NEW c, \A n \in 0 .. k : b[n] \in Int /\ c[n] = b[n],
         NEW ts \in TradesUpTo(k)
  PROVE  /\ \A n \in DOMAIN ts : GainIn(c, ts[n]) = GainIn(b, ts[n])
         /\ GainsIn(c, ts) = GainsIn(b, ts)
         /\ GainsIn(b, ts)[0] = 0
         /\ \A n \in 0 .. Len(ts) : GainsIn(b, ts)[n] \in Int
<1> DEFINE v == [n \in DOMAIN ts |-> GainIn(b, ts[n])]
           w == [n \in DOMAIN ts |-> GainIn(c, ts[n])]
<1>1. PICK l \in Nat : l = Len(ts) /\ DOMAIN ts = 1 .. l
  BY DEF TradesUpTo
<1>2. ASSUME NEW n \in DOMAIN ts
      PROVE  GainIn(c, ts[n]) = GainIn(b, ts[n]) /\ GainIn(b, ts[n]) \in Int
  <2>1. PICK t \in Trade : /\ t = ts[n] /\ 1 <= t.entry_idx
                           /\ t.entry_idx <= t.exit_idx /\ t.exit_idx <= k
    BY <1>2 DEF TradesUpTo
  <2>2. t.exit_idx \in 0 .. k /\ t.entry_idx - 1 \in 0 .. k
    BY <2>1 DEF Trade
  <2>3. GainIn(c, t) = GainIn(b, t)
    BY <2>2 DEF GainIn
  <2> QED BY <2>1, <2>3, GainIsInt
<1>3. v = w /\ v \in [1 .. l -> Int]
  BY <1>1, <1>2
<1>4. GainsIn(b, ts) = PartialSums(v) /\ GainsIn(c, ts) = PartialSums(w)
  BY Zenon DEF GainsIn
<1> HIDE DEF v, w
<1> QED BY <1>1, <1>2, <1>3, <1>4, PartialSumsOf

\* A further trade leaves the gains before it as they are.
LEMMA GainsAppend ==
  ASSUME NEW k \in Nat, NEW b, \A n \in 0 .. k : b[n] \in Int,
         NEW ts \in TradesUpTo(k), NEW t \in Trade,
         1 <= t.entry_idx, t.entry_idx <= t.exit_idx, t.exit_idx <= k
  PROVE  /\ Append(ts, t) \in TradesUpTo(k)
         /\ \A n \in 0 .. Len(ts) : GainsIn(b, Append(ts, t))[n] = GainsIn(b, ts)[n]
         /\ GainsIn(b, Append(ts, t))[Len(ts) + 1] = GainsIn(b, ts)[Len(ts)] + GainIn(b, t)
<1> DEFINE longer == Append(ts, t)
           v == [n \in DOMAIN ts |-> GainIn(b, ts[n])]
           w == [n \in DOMAIN longer |-> GainIn(b, longer[n])]
<1>1. PICK l \in Nat : l = Len(ts)
  BY DEF TradesUpTo
<1>2. /\ DOMAIN ts = 1 .. l /\ DOMAIN longer = 1 .. (l + 1)
      /\ longer \in Seq(Trade) /\ longer[l + 1] = t
      /\ \A n \in 1 .. l : longer[n] = ts[n] /\ ts[n] \in Trade
  BY <1>1 DEF TradesUpTo
<1> HIDE DEF longer
<1>3. longer \in TradesUpTo(k)
  BY <1>2 DEF TradesUpTo
<1>4. v \in [1 .. l -> Int]
  BY <1>2, GainIsInt DEF TradesUpTo
<1>5. w \in [1 .. (l + 1) -> Int] /\ (\A n \in 1 .. l : w[n] = v[n]) /\ w[l + 1] = GainIn(b, t)
  <2>1. GainIn(b, t) \in Int
    BY GainIsInt
  <2> QED BY <1>2, <1>4, <2>1
<1>6. GainsIn(b, ts) = PartialSums(v) /\ GainsIn(b, longer) = PartialSums(w)
  BY Zenon DEF GainsIn
<1> HIDE DEF v, w
<1>7. /\ \A n \in 0 .. l : PartialSums(w)[n] = PartialSums(v)[n]
      /\ PartialSums(w)[l + 1] = PartialSums(v)[l] + w[l + 1]
  BY <1>4, <1>5, PartialSumsLonger
<1> QED BY <1>1, <1>3, <1>5, <1>6, <1>7 DEF longer

\* What the trades made together: the last of the sums.
Made == Gains(trades)[Len(trades)]

BacktestTypes ==
  /\ kind \in {"bar", "tick"}
  /\ idx \in 0 .. MaxTicks
  /\ position \in {-1, 0, 1}
  /\ entry_idx \in Nat /\ entry_spread \in Int /\ entry_equity \in Int
  /\ equity_value \in Int
  /\ trades \in TradesUpTo(idx)
  /\ skipped \subseteq 1 .. idx

\* What the loop remembers of an entry at tick e, at tick i: the spread of the
\* entry's tick, and the equity before its fee, which is what the trades before
\* it made; over ticks, the holding limit was met only at ticks it skipped.
EntryExplained(e, i) ==
  /\ LastExit(Len(trades)) < e /\ 1 <= e
  /\ kind = "tick" => e + MaxHold .. i \subseteq skipped

InTrade ==
  position # 0 => /\ EntryExplained(entry_idx, idx) /\ entry_idx <= idx
                  /\ entry_spread = Spread[entry_idx] /\ entry_equity = Made

BacktestInv == BacktestTypes /\ InTrade /\ TradesAreExplained

\* The gains of a state, by the lemmas above.
LEMMA GainsHere ==
  /\ \A t : Gain(t) = GainIn(BookedReturns, t)
  /\ \A ts : Gains(ts) = GainsIn(BookedReturns, ts)
<1>1. \A t : Gain(t) = GainIn(BookedReturns, t)
  BY DEF Gain, Earned, GainIn
<1>2. ASSUME NEW ts PROVE Gains(ts) = GainsIn(BookedReturns, ts)
  <2>1. [n \in DOMAIN ts |-> Gain(ts[n])] = [n \in DOMAIN ts |-> GainIn(BookedReturns, ts[n])]
    BY <1>1
  <2> QED BY <2>1, Zenon DEF Gains, GainsIn
<1> QED BY <1>1, <1>2

\* The same of the state after a step.
LEMMA GainsNext ==
  /\ \A n \in DOMAIN trades' : Gain(trades[n])' = GainIn(BookedReturns', trades'[n])
  /\ Gains(trades)' = GainsIn(BookedReturns', trades')
<1>1. ASSUME NEW n \in DOMAIN trades'
      PROVE  Gain(trades[n])' = GainIn(BookedReturns', trades'[n])
  BY DEF Gain, Earned, GainIn
<1>2. [n \in DOMAIN trades |-> Gain(trades[n])]'
        = [n \in DOMAIN trades' |-> GainIn(BookedReturns', trades'[n])]
  BY <1>1
<1>3. Gains(trades)' = GainsIn(BookedReturns', trades')
  BY <1>2, Zenon DEF Gains, GainsIn
<1> QED BY <1>1, <1>3

\* The next tick adds its return to the sums, or nothing if it is skipped.
LEMMA BookedGrows ==
  ASSUME BacktestTypes, idx < MaxTicks, idx' = idx + 1,
         skipped' \in {skipped, skipped \cup {idx'}}
  PROVE  /\ \A n \in 0 .. idx : BookedReturns[n] \in Int /\ BookedReturns'[n] = BookedReturns[n]
         /\ BookedReturns'[idx']
              = BookedReturns[idx] + (IF idx' \in skipped' THEN 0 ELSE Return[idx'])
         /\ \A n \in 0 .. idx' : BookedReturns'[n] \in Int
<1> DEFINE v == [i \in 1 .. idx |-> IF i \in skipped THEN 0 ELSE Return[i]]
           w == [i \in 1 .. idx' |-> IF i \in skipped' THEN 0 ELSE Return[i]]
<1>1. /\ idx \in Nat /\ idx' = idx + 1 /\ idx' \in 1 .. MaxTicks /\ 1 .. idx \subseteq 1 .. MaxTicks
      /\ Return \in [1 .. MaxTicks -> Int]
  BY BacktestAssumption DEF BacktestTypes
<1>2. v \in [1 .. idx -> Int]
  BY <1>1
<1>3. w \in [1 .. (idx + 1) -> Int] /\ \A n \in 1 .. idx : w[n] = v[n]
  BY <1>1
<1>4. w[idx + 1] = IF idx' \in skipped' THEN 0 ELSE Return[idx']
  BY <1>1
<1>5. BookedReturns = PartialSums(v) /\ BookedReturns' = PartialSums(w)
  BY Zenon DEF BookedReturns
<1> HIDE DEF v, w
<1>6. \A n \in 0 .. idx : BookedReturns[n] \in Int
  BY <1>1, <1>2, <1>5, PartialSumsOf
<1>7. /\ \A n \in 0 .. idx : BookedReturns'[n] = BookedReturns[n]
      /\ BookedReturns'[idx + 1] = BookedReturns[idx] + w[idx + 1]
  BY <1>1, <1>2, <1>3, <1>5, PartialSumsLonger
<1>8. \A n \in 0 .. idx + 1 : BookedReturns'[n] \in Int
  <2>1. idx + 1 \in Nat
    BY <1>1
  <2> QED BY <1>3, <1>5, <2>1, PartialSumsOf
<1> QED BY <1>1, <1>4, <1>6, <1>7, <1>8

\* The sums of the ticks seen are numbers.
LEMMA BookedIsInt ==
  ASSUME BacktestTypes
  PROVE  \A n \in 0 .. idx : BookedReturns[n] \in Int
<1> DEFINE v == [i \in 1 .. idx |-> IF i \in skipped THEN 0 ELSE Return[i]]
<1>1. idx \in Nat /\ v \in [1 .. idx -> Int]
  BY BacktestAssumption DEF BacktestTypes
<1>2. BookedReturns = PartialSums(v)
  BY Zenon DEF BookedReturns
<1> HIDE DEF v
<1> QED BY <1>1, <1>2, PartialSumsOf

\* So is what the trades made.
LEMMA MadeIsInt ==
  ASSUME BacktestTypes
  PROVE  Made \in Int
<1>1. idx \in Nat /\ trades \in TradesUpTo(idx) /\ Len(trades) \in 0 .. Len(trades)
  BY BacktestAssumption DEF BacktestTypes, TradesUpTo
<1> QED BY <1>1, BookedIsInt, GainsAgree, GainsHere DEF Made

\* A tick that ends no trade: the trades are as they were, and as explained.
LEMMA TradesStay ==
  ASSUME BacktestInv, idx < MaxTicks, idx' = idx + 1,
         skipped' \in {skipped, skipped \cup {idx'}}, UNCHANGED <<kind, trades>>
  PROVE  /\ Made' = Made
         /\ trades \in TradesUpTo(idx') /\ skipped' \subseteq 1 .. idx' /\ idx' \in 0 .. MaxTicks
         /\ \A n \in DOMAIN trades' :
              ReportsItsTicks(trades[n], LastExit(n - 1), Gains(trades)[n])'
<1>1. /\ BacktestTypes /\ TradesAreExplained
      /\ idx \in Nat /\ MaxTicks \in Nat /\ trades \in TradesUpTo(idx)
  BY BacktestAssumption DEF BacktestInv, BacktestTypes
<1>2. \A n \in 0 .. idx : BookedReturns[n] \in Int /\ BookedReturns'[n] = BookedReturns[n]
  BY <1>1, BookedGrows
<1>3. /\ \A n \in DOMAIN trades :
           GainIn(BookedReturns', trades[n]) = GainIn(BookedReturns, trades[n])
      /\ GainsIn(BookedReturns', trades) = GainsIn(BookedReturns, trades)
  BY <1>1, <1>2, GainsAgree
<1>4. /\ \A n \in DOMAIN trades : Gain(trades[n])' = GainIn(BookedReturns', trades[n])
      /\ Gains(trades)' = GainsIn(BookedReturns', trades)
  BY GainsNext
<1>5. Made' = Made
  BY <1>3, <1>4, GainsHere DEF Made
<1>6. ASSUME NEW n \in DOMAIN trades
      PROVE  ReportsItsTicks(trades[n], LastExit(n - 1), Gains(trades)[n])'
  <2>1. ReportsItsTicks(trades[n], LastExit(n - 1), Gains(trades)[n])
    BY <1>1, <1>6 DEF TradesAreExplained
  <2>2. Gain(trades[n])' = Gain(trades[n]) /\ Gains(trades)'[n] = Gains(trades)[n]
    BY <1>3, <1>4, <1>6, GainsHere
  <2>3. LastExit(n - 1)' = LastExit(n - 1) /\ skipped \subseteq skipped'
    BY DEF LastExit
  <2> QED BY <2>1, <2>2, <2>3 DEF ReportsItsTicks
<1>7. trades \in TradesUpTo(idx')
  BY <1>1, UpToLater
<1>8. skipped' \subseteq 1 .. idx' /\ idx' \in 0 .. MaxTicks
  BY <1>1 DEF BacktestTypes
<1> QED BY <1>5, <1>6, <1>7, <1>8

LEMMA BacktestInvInit == BacktestInit => BacktestInv
<1> SUFFICES ASSUME BacktestInit PROVE BacktestInv
  OBVIOUS
<1>1. /\ trades = <<>> /\ trades \in TradesUpTo(0) /\ Len(trades) = 0 /\ DOMAIN trades = {}
      /\ idx = 0 /\ position = 0 /\ equity_value = 0
  BY DEF BacktestInit, TradesUpTo
<1>2. BacktestTypes
  BY <1>1, BacktestAssumption DEF BacktestInit, BacktestTypes
<1>3. Gains(trades)[Len(trades)] = 0
  <2>1. \A n \in 0 .. 0 : BookedReturns[n] \in Int
    BY <1>1, <1>2, BookedIsInt
  <2> QED BY <1>1, <2>1, GainsAgree, GainsHere
<1>4. TradesAreExplained
  BY <1>1, <1>3 DEF TradesAreExplained
<1> QED BY <1>1, <1>2, <1>4 DEF BacktestInv, InTrade

\* A side times a sum of returns, for the provers: it is one of two.
LEMMA SideTimes ==
  ASSUME NEW p \in {-1, 1}, NEW x \in Int, NEW y \in Int, NEW r \in Int
  PROVE  /\ p * r \in Int /\ p * (x - y) \in Int
         /\ p * ((x + r) - y) = p * (x - y) + p * r
<1>1. CASE p = 1
  BY <1>1
<1>2. CASE p = -1
  BY <1>2
<1> QED BY <1>1, <1>2

\* A tick with a position p keeps the books straight, whether or not it ends the
\* trade, if they are straight before its return.
LEMMA HeldStep ==
  ASSUME BacktestInv, idx < MaxTicks, idx' = idx + 1, UNCHANGED <<kind, skipped>>,
         NEW p \in {-1, 1}, NEW z \in Int, NEW equity \in Int, Held(p, z, equity),
         NEW e \in 1 .. idx', entry_idx' = e, EntryExplained(e, idx),
         entry_spread' = Spread[e], entry_equity' = Made,
         equity - Made = p * (BookedReturns[idx] - BookedReturns[e - 1]) - Fee
  PROVE  BacktestInv'
<1> DEFINE after == equity + p * Return[idx']
           paid == after - Fee
           made == Made
           earned == p * (BookedReturns'[idx'] - BookedReturns'[e - 1])
           t == [entry_idx |-> e, exit_idx |-> idx', side |-> p, entry_spread |-> Spread[e],
                 exit_spread |-> Spread[idx'], pnl |-> pnl(paid, made)]
<1>1. /\ BacktestTypes /\ TradesAreExplained /\ Fee \in Int /\ made \in Int
      /\ idx \in Nat /\ MaxTicks \in Nat /\ idx' \in 1 .. MaxTicks /\ idx' \in Nat /\ e \in Nat
      /\ e - 1 \in 0 .. idx /\ idx' \notin skipped' /\ e \in 1 .. MaxTicks
      /\ trades \in TradesUpTo(idx) /\ MaxHold \in Nat
  BY MadeIsInt, BacktestAssumption DEF BacktestInv, BacktestTypes
<1>2. Return[idx'] \in Int /\ Spread[idx'] \in Int /\ Spread[e] \in Int
  BY <1>1, BacktestAssumption
<1>3. /\ \A n \in 0 .. idx' : BookedReturns'[n] \in Int
      /\ BookedReturns'[idx'] = BookedReturns[idx] + Return[idx']
      /\ BookedReturns'[e - 1] = BookedReturns[e - 1]
      /\ BookedReturns[idx] \in Int /\ BookedReturns[e - 1] \in Int
  BY <1>1, BookedGrows
<1>4. /\ after \in Int /\ paid \in Int /\ earned \in Int
      /\ after - made = earned - Fee
  <2> DEFINE x == BookedReturns[idx]
             y == BookedReturns[e - 1]
             r == Return[idx']
  <2>1. x \in Int /\ y \in Int /\ r \in Int /\ earned = p * ((x + r) - y)
    BY <1>2, <1>3
  <2>2. equity - made = p * (x - y) - Fee /\ after = equity + p * r
    OBVIOUS
  <2> HIDE DEF x, y, r, earned, made, after
  <2>3. p * r \in Int /\ p * (x - y) \in Int /\ p * ((x + r) - y) = p * (x - y) + p * r
    BY <2>1, SideTimes
  <2> QED BY <1>1, <2>1, <2>2, <2>3 DEF paid
<1>5. /\ Made' = made \/ trades' # trades
      /\ trades' = trades =>
           /\ Made' = made
           /\ \A n \in DOMAIN trades' :
                ReportsItsTicks(trades[n], LastExit(n - 1), Gains(trades)[n])'
      /\ trades \in TradesUpTo(idx') /\ skipped' \subseteq 1 .. idx' /\ idx' \in 0 .. MaxTicks
  <2>1. trades \in TradesUpTo(idx')
    BY <1>1, UpToLater
  <2>2. skipped' \subseteq 1 .. idx' /\ idx' \in 0 .. MaxTicks
    BY <1>1 DEF BacktestTypes
  <2> QED BY <2>1, <2>2, TradesStay
<1>6. CASE Exits(p, z, idx' - e)
  <2>1. /\ equity_value' = paid /\ trades' = Append(trades, t) /\ position' = 0
    BY <1>6 DEF Held
  <2>2. t \in Trade
    BY <1>1, <1>2, <1>4 DEF Trade, pnl
  <2>3. t.entry_idx = e /\ t.exit_idx = idx' /\ t.side = p /\ t.entry_spread = Spread[e]
        /\ t.exit_spread = Spread[idx'] /\ t.pnl = IF kind = "tick" THEN paid - made ELSE paid
    BY DEF pnl
  <2> HIDE DEF t
  <2>4. GainIn(BookedReturns', t) = earned - 2 * Fee
    BY <2>3, Zenon DEF GainIn
  <2> HIDE DEF earned, after, paid
  <2>5. paid - made = earned - 2 * Fee
    BY <1>1, <1>4 DEF paid
  <2>6. /\ \A n \in 0 .. idx : BookedReturns[n] \in Int /\ BookedReturns'[n] = BookedReturns[n]
        /\ 1 <= t.entry_idx /\ t.entry_idx <= t.exit_idx /\ t.exit_idx <= idx'
    BY <1>1, <2>3, BookedGrows
  <2>7. PICK l \in Nat : l = Len(trades)
    BY <1>1 DEF TradesUpTo
  <2>8. /\ l = Len(trades) /\ DOMAIN trades = 1 .. l /\ DOMAIN trades' = 1 .. (l + 1)
        /\ Len(trades') = l + 1 /\ trades'[l + 1] = t
        /\ \A n \in 1 .. l : trades'[n] = trades[n]
    <3>1. trades \in Seq(Trade) /\ DOMAIN trades = 1 .. l
      BY <1>1, <2>7 DEF TradesUpTo
    <3>2. trades' \in Seq(Trade) /\ Len(trades') = l + 1
      BY <2>7, <2>1, <2>2, <3>1
    <3>3. DOMAIN trades' = 1 .. (l + 1)
      BY <3>2
    <3>4. /\ trades'[l + 1] = t
          /\ \A n \in 1 .. l : trades'[n] = trades[n]
      BY <2>7, <2>1, <2>2, <3>1
    <3> QED BY <2>7, <3>1, <3>2, <3>3, <3>4
  <2>9. /\ \A n \in 1 .. l : GainIn(BookedReturns', trades[n]) = GainIn(BookedReturns, trades[n])
        /\ GainsIn(BookedReturns', trades) = GainsIn(BookedReturns, trades)
    <3>1. idx \in Nat /\ trades \in TradesUpTo(idx)
      BY <1>1
    <3>2. \A n \in 0 .. idx : BookedReturns[n] \in Int /\ BookedReturns'[n] = BookedReturns[n]
      BY <2>6
    <3>3. /\ \A n \in DOMAIN trades :
               GainIn(BookedReturns', trades[n]) = GainIn(BookedReturns, trades[n])
          /\ GainsIn(BookedReturns', trades) = GainsIn(BookedReturns, trades)
      BY <3>1, <3>2, GainsAgree
    <3> QED BY <2>8, <3>3
  <2>10. /\ trades' \in TradesUpTo(idx')
        /\ \A n \in 0 .. l :
             GainsIn(BookedReturns', trades')[n] = GainsIn(BookedReturns', trades)[n]
        /\ GainsIn(BookedReturns', trades')[l + 1]
             = GainsIn(BookedReturns', trades)[l] + GainIn(BookedReturns', t)
    <3>1. /\ idx' \in Nat /\ trades \in TradesUpTo(idx') /\ t \in Trade
          /\ \A n \in 0 .. idx' : BookedReturns'[n] \in Int
          /\ 1 <= t.entry_idx /\ t.entry_idx <= t.exit_idx /\ t.exit_idx <= idx'
      BY <1>1, <1>3, <1>5, <2>2, <2>6
    <3>2. /\ Append(trades, t) \in TradesUpTo(idx')
          /\ \A n \in 0 .. Len(trades) :
               GainsIn(BookedReturns', Append(trades, t))[n] = GainsIn(BookedReturns', trades)[n]
          /\ GainsIn(BookedReturns', Append(trades, t))[Len(trades) + 1]
               = GainsIn(BookedReturns', trades)[Len(trades)] + GainIn(BookedReturns', t)
      BY <3>1, GainsAppend
    <3> QED BY <2>1, <2>8, <3>2
  <2>11. /\ \A n \in 1 .. (l + 1) : Gain(trades[n])' = GainIn(BookedReturns', trades'[n])
         /\ Gains(trades)' = GainsIn(BookedReturns', trades')
    BY <2>8, GainsNext
  <2>12. /\ \A n \in 1 .. l : Gains(trades)'[n] = Gains(trades)[n]
         /\ \A n \in 1 .. l : Gain(trades[n])' = Gain(trades[n])
    BY <2>8, <2>9, <2>10, <2>11, GainsHere
  <2>13. made = GainsIn(BookedReturns', trades)[l]
    BY <2>8, <2>9, GainsHere DEF Made
  <2>14. Gains(trades)'[l + 1] = paid /\ Gain(trades[l + 1])' = paid - made
    <3>1. Gain(trades[l + 1])' = paid - made
      BY <2>4, <2>5, <2>8, <2>11
    <3>2. Gains(trades)'[l + 1] = made + (paid - made)
      BY <2>4, <2>5, <2>10, <2>11, <2>13
    <3> HIDE DEF made
    <3> QED BY <1>1, <1>4, <3>1, <3>2
  <2>15. /\ \A n \in 0 .. l : LastExit(n)' = LastExit(n)
         /\ LastExit(l) < e
    BY <2>8 DEF LastExit, EntryExplained
  <2>16. ASSUME NEW n \in DOMAIN trades'
         PROVE  ReportsItsTicks(trades[n], LastExit(n - 1), Gains(trades)[n])'
    <3>1. CASE n \in 1 .. l
      <4>1. ReportsItsTicks(trades[n], LastExit(n - 1), Gains(trades)[n])
        BY <1>1, <2>8, <3>1 DEF TradesAreExplained
      <4>2. n - 1 \in 0 .. l
        BY <2>8, <3>1
      <4> QED BY <2>8, <2>12, <2>15, <3>1, <4>1, <4>2 DEF ReportsItsTicks
    <3>2. CASE n = l + 1
      <4>1. n - 1 = l /\ l \in 0 .. l /\ trades'[n] = t
        BY <2>8, <3>2
      <4>2. LastExit(n - 1)' < e
        BY <2>15, <4>1
      <4>3. t.exit_idx - 1 = idx
        BY <1>1, <2>3
      <4>4. kind' = "tick" => t.entry_idx + MaxHold .. t.exit_idx - 1 \subseteq skipped'
        BY <2>3, <4>3 DEF EntryExplained
      <4>5. t.pnl = IF kind' = "tick" THEN Gain(trades[n])' ELSE Gains(trades)'[n]
        BY <2>3, <2>14, <3>2
      <4> QED BY <1>1, <2>3, <4>1, <4>2, <4>4, <4>5 DEF ReportsItsTicks
    <3> QED BY <2>8, <3>1, <3>2
  <2>17. equity_value' - Gains(trades)'[Len(trades')] = 0
    BY <1>4, <2>1, <2>8, <2>14
  <2>18. TradesAreExplained'
    BY <2>1, <2>16, <2>17 DEF TradesAreExplained
  <2>19. BacktestTypes'
    BY <1>1, <1>2, <1>4, <1>5, <2>1, <2>10 DEF BacktestTypes
  <2> QED BY <2>1, <2>18, <2>19 DEF BacktestInv, InTrade
<1>7. CASE ~ Exits(p, z, idx' - e)
  <2>1. equity_value' = after /\ position' = p /\ UNCHANGED trades
    BY <1>7 DEF Held
  <2>2. BacktestTypes'
    BY <1>1, <1>2, <1>4, <1>5, <2>1 DEF BacktestTypes
  <2>3. EntryExplained(e, idx)'
    <3>1. LastExit(Len(trades))' = LastExit(Len(trades))
      BY <2>1 DEF LastExit
    <3>2. kind' = "tick" => e + MaxHold .. idx' \subseteq skipped'
      <4>1. kind = "tick" => ~ (idx' - e >= MaxHold)
        BY <1>7 DEF Exits
      <4>2. kind = "tick" => idx' < e + MaxHold
        BY <1>1, <4>1
      <4> QED BY <1>1, <4>2
    <3> QED BY <3>1, <3>2 DEF EntryExplained
  <2>4. InTrade'
    BY <1>1, <1>5, <2>1, <2>3 DEF InTrade
  <2>5. equity_value' - Gains(trades)'[Len(trades')] = Earned(position, entry_idx, idx)' - Fee
    <3>1. Gains(trades)'[Len(trades')] = made
      BY <1>5, <2>1 DEF Made
    <3>2. Earned(position, entry_idx, idx)' = earned
      BY <2>1 DEF Earned
    <3> QED BY <1>4, <2>1, <3>1, <3>2
  <2>6. position' # 0
    BY <2>1
  <2>7. TradesAreExplained'
    BY <1>5, <2>1, <2>5, <2>6 DEF TradesAreExplained
  <2> QED BY <2>2, <2>4, <2>7 DEF BacktestInv
<1> QED BY <1>6, <1>7

LEMMA BacktestInvStep ==
  ASSUME BacktestInv, [BacktestNext]_backtest
  PROVE  BacktestInv'
<1>0. /\ BacktestTypes /\ InTrade /\ TradesAreExplained /\ Made \in Int /\ Fee \in Int
      /\ idx \in Nat /\ position \in {-1, 0, 1} /\ equity_value \in Int
      /\ MaxTicks \in Nat /\ MaxHold \in Nat
      /\ trades \in TradesUpTo(idx) /\ \A n \in 0 .. idx : BookedReturns[n] \in Int
  BY MadeIsInt, BookedIsInt, BacktestAssumption DEF BacktestInv, BacktestTypes
<1>1. ASSUME idx < MaxTicks, idx' = idx + 1,
             \/ skipped' = skipped \cup {idx'}
             \/ skipped' = skipped /\ position = 0,
             UNCHANGED <<kind, position, entry_idx, entry_spread, entry_equity,
                         equity_value, trades>>
      PROVE  BacktestInv'
  <2>1. /\ Made' = Made
        /\ trades \in TradesUpTo(idx') /\ skipped' \subseteq 1 .. idx' /\ idx' \in 0 .. MaxTicks
        /\ \A n \in DOMAIN trades' :
             ReportsItsTicks(trades[n], LastExit(n - 1), Gains(trades)[n])'
    BY <1>1, TradesStay
  <2>2. BacktestTypes'
    BY <1>0, <1>1, <2>1 DEF BacktestTypes
  <2>3. CASE position = 0
    <3>1. equity_value' - Gains(trades)'[Len(trades')] = 0
      BY <1>0, <1>1, <2>1, <2>3 DEF TradesAreExplained, Made
    <3> QED BY <1>1, <2>1, <2>2, <2>3, <3>1 DEF BacktestInv, InTrade, TradesAreExplained
  <2>4. CASE position # 0
    <3>1. /\ entry_idx \in Nat /\ 1 <= entry_idx /\ entry_idx <= idx
          /\ skipped' = skipped \cup {idx'}
          /\ EntryExplained(entry_idx, idx)
      BY <1>0, <1>1, <2>4 DEF InTrade, EntryExplained, BacktestTypes
    <3>2. EntryExplained(entry_idx, idx)'
      <4>1. LastExit(Len(trades))' = LastExit(Len(trades))
        BY <1>1 DEF LastExit
      <4>2. ASSUME kind = "tick", NEW i \in entry_idx + MaxHold .. idx' PROVE i \in skipped'
        <5>1. i = idx' \/ i \in entry_idx + MaxHold .. idx
          BY <1>0, <1>1, <3>1
        <5> QED BY <3>1, <4>2, <5>1 DEF EntryExplained
      <4> QED BY <1>1, <3>1, <4>1, <4>2 DEF EntryExplained
    <3>3. InTrade'
      BY <1>0, <1>1, <2>1, <2>4, <3>1, <3>2 DEF InTrade
    <3>4. /\ BookedReturns'[idx'] = BookedReturns[idx]
          /\ BookedReturns'[entry_idx - 1] = BookedReturns[entry_idx - 1]
      <4>1. /\ entry_idx - 1 \in 0 .. idx /\ BookedReturns[idx] \in Int
            /\ BookedReturns[idx] + 0 = BookedReturns[idx]
        BY <1>0, <3>1
      <4> QED BY <1>0, <1>1, <3>1, <4>1, BookedGrows
    <3>5. Earned(position, entry_idx, idx)' = Earned(position, entry_idx, idx)
      BY <1>1, <3>4 DEF Earned
    <3>6. equity_value' - Gains(trades)'[Len(trades')] = Earned(position, entry_idx, idx)' - Fee
      BY <1>0, <1>1, <2>1, <2>4, <3>5 DEF TradesAreExplained, Made
    <3> QED BY <1>1, <2>1, <2>2, <2>4, <3>3, <3>6 DEF BacktestInv, TradesAreExplained
  <2> QED BY <2>3, <2>4
<1>2. CASE Skip
  BY <1>1, <1>2 DEF Skip, NextTick, entry
<1>3. ASSUME NEW z \in ZValue, Flat(z) PROVE BacktestInv'
  BY <1>1, <1>3 DEF Flat, NextTick, entry
<1>4. ASSUME NEW z \in ZValue, Enter(z) PROVE BacktestInv'
  <2> DEFINE p == Entry(z)
  <2>1. /\ z \in Int /\ p \in {-1, 1} /\ position = 0
        /\ idx < MaxTicks /\ idx' = idx + 1 /\ UNCHANGED <<kind, skipped>>
        /\ entry_idx' = idx' /\ entry_spread' = Spread[idx'] /\ entry_equity' = equity_value
        /\ Held(p, z, equity_value - Fee)
    BY <1>4, BacktestAssumption DEF Enter, NextTick, ZValue, Entry
  <2> HIDE DEF p
  <2>2. equity_value = Made
    BY <1>0, <2>1 DEF TradesAreExplained, Made
  <2>3. EntryExplained(idx', idx)
    <3> DEFINE n == Len(trades)
    <3>1. n \in Nat /\ (n # 0 => n \in DOMAIN trades /\ trades[n] \in Trade)
      BY <1>0 DEF TradesUpTo
    <3>2. LastExit(n) <= idx /\ LastExit(n) \in Nat
      <4>1. CASE n = 0
        BY <1>0, <4>1 DEF LastExit
      <4>2. CASE n # 0
        <5>1. trades[n].exit_idx \in Nat
          BY <3>1, <4>2 DEF Trade
        <5> HIDE DEF n
        <5>2. trades[n].exit_idx <= idx
          BY <1>0, <3>1, <4>2 DEF TradesUpTo
        <5> QED BY <4>2, <5>1, <5>2 DEF LastExit
      <4> QED BY <4>1, <4>2
    <3>3. idx' + MaxHold .. idx = {}
      BY <1>0, <2>1
    <3> QED BY <1>0, <2>1, <3>2, <3>3 DEF EntryExplained
  <2>4. /\ idx' \in 1 .. idx' /\ equity_value - Fee \in Int /\ idx' - 1 = idx
        /\ BookedReturns[idx] \in Int
    BY <1>0, <2>1
  <2>5. (equity_value - Fee) - Made = p * (BookedReturns[idx] - BookedReturns[idx' - 1]) - Fee
    <3>1. p * (BookedReturns[idx] - BookedReturns[idx' - 1]) = 0
      BY <2>1, <2>4
    <3> QED BY <1>0, <2>2, <3>1
  <2> QED BY <2>1, <2>2, <2>3, <2>4, <2>5, HeldStep
<1>5. ASSUME NEW z \in ZValue, Hold(z) PROVE BacktestInv'
  <2>1. /\ z \in Int /\ position \in {-1, 1} /\ position # 0
        /\ idx < MaxTicks /\ idx' = idx + 1 /\ UNCHANGED <<kind, skipped>>
        /\ entry_idx' = entry_idx /\ entry_spread' = entry_spread /\ entry_equity' = entry_equity
        /\ Held(position, z, equity_value)
    BY <1>0, <1>5, BacktestAssumption DEF Hold, NextTick, ZValue, entry
  <2>2. /\ EntryExplained(entry_idx, idx) /\ entry_idx \in 1 .. idx'
        /\ entry_spread = Spread[entry_idx] /\ entry_equity = Made
    BY <1>0, <2>1 DEF InTrade, EntryExplained, BacktestTypes
  <2>3. equity_value - Made = position * (BookedReturns[idx] - BookedReturns[entry_idx - 1]) - Fee
    BY <1>0, <2>1 DEF TradesAreExplained, Made, Earned
  <2> QED BY <1>0, <2>1, <2>2, <2>3, HeldStep
<1>6. CASE UNCHANGED backtest
  BY <1>6 DEF backtest, entry, BacktestInv, BacktestTypes, InTrade, EntryExplained, LastExit,
              TradesAreExplained, ReportsItsTicks, Made, Gains, Gain, Earned, BookedReturns
<1> QED BY <1>2, <1>3, <1>4, <1>5, <1>6 DEF BacktestNext

\* For any series of spreads and returns, thresholds, fee, holding limit and
\* number of ticks: each trade reports the spreads of its ticks and what their
\* returns made, none is held beyond the limit but across skipped ticks, and the
\* equity is what the trades made together and the open one has made so far.
THEOREM TradesExplainTheEquity == BacktestSpec => []TradesAreExplained
<1>1. BacktestInv /\ [BacktestNext]_backtest => BacktestInv'
  BY BacktestInvStep
<1>2. BacktestInv => TradesAreExplained
  BY DEF BacktestInv
<1> QED BY <1>1, <1>2, BacktestInvInit, PTL DEF BacktestSpec

-----------------------------------------------------------------------------
(* The portfolio: positions are the sums of their fills, and their average *)
(* prices come from the fills that built them                              *)

\* What a fill holds.
LEMMA FillIsOf ==
  ASSUME NEW f \in FillOf
  PROVE  /\ f.symbol \in Name /\ f.qty \in Nat /\ f.qty > 0 /\ f.price \in Nat /\ f.price > 0
         /\ signed_qty(f) \in Int /\ Abs(signed_qty(f)) = f.qty /\ signed_qty(f) # 0
<1>1. f.symbol \in Name /\ f.qty \in Lot /\ f.price \in Price /\ f.side \in {"BUY", "SELL"}
  BY DEF FillOf
<1>2. f.qty \in Nat /\ f.qty > 0 /\ f.price \in Nat /\ f.price > 0
  <2>1. f.qty \in Nat \ {0} /\ f.price \in Nat \ {0}
    BY <1>1, PortfolioAssumption, Zenon
  <2> QED BY <2>1
<1>3. signed_qty(f) = f.qty \/ signed_qty(f) = - f.qty
  BY DEF signed_qty
<1> QED BY <1>1, <1>2, <1>3 DEF Abs

\* The net quantities of a symbol, and after one fill more.
LEMMA NetSums ==
  ASSUME NEW fs \in Seq(FillOf), NEW s \in Name, NEW f \in FillOf
  PROVE  /\ Net(fs, s)[0] = 0
         /\ \A n \in 0 .. Len(fs) : /\ Net(fs, s)[n] \in Int
                                    /\ Net(Append(fs, f), s)[n] = Net(fs, s)[n]
         /\ f.symbol = s => Net(Append(fs, f), s)[Len(fs) + 1] = Net(fs, s)[Len(fs)] + signed_qty(f)
         /\ f.symbol # s => Net(Append(fs, f), s)[Len(fs) + 1] = Net(fs, s)[Len(fs)]
<1> DEFINE longer == Append(fs, f)
           v == [i \in DOMAIN fs |-> IF fs[i].symbol = s THEN signed_qty(fs[i]) ELSE 0]
           w == [i \in DOMAIN longer |-> IF longer[i].symbol = s THEN signed_qty(longer[i]) ELSE 0]
<1>1. PICK k \in Nat : k = Len(fs)
  OBVIOUS
<1>2. /\ DOMAIN fs = 1 .. k /\ DOMAIN longer = 1 .. (k + 1)
      /\ longer[k + 1] = f
      /\ \A n \in 1 .. k : longer[n] = fs[n] /\ fs[n] \in FillOf
  BY <1>1
<1> HIDE DEF longer
<1>3. v \in [1 .. k -> Int]
  BY <1>2, FillIsOf
<1>4. w \in [1 .. (k + 1) -> Int] /\ \A n \in 1 .. k : w[n] = v[n]
  BY <1>2, FillIsOf
<1>5. w[k + 1] = IF f.symbol = s THEN signed_qty(f) ELSE 0
  BY <1>2
<1>6. Net(fs, s) = PartialSums(v) /\ Net(longer, s) = PartialSums(w)
  BY Zenon DEF Net
<1> HIDE DEF v, w
<1>7. /\ PartialSums(v)[0] = 0
      /\ \A n \in 0 .. k : PartialSums(v)[n] \in Int
  BY <1>3, PartialSumsOf
<1>8. /\ \A n \in 0 .. k : PartialSums(w)[n] = PartialSums(v)[n]
      /\ PartialSums(w)[k + 1] = PartialSums(v)[k] + w[k + 1]
  BY <1>3, <1>4, PartialSumsLonger
<1>9. PartialSums(v)[k] \in Int
  BY <1>7
<1>10. /\ f.symbol = s => PartialSums(w)[k + 1] = PartialSums(v)[k] + signed_qty(f)
       /\ f.symbol # s => PartialSums(w)[k + 1] = PartialSums(v)[k]
  BY <1>5, <1>8, <1>9
<1> QED BY <1>1, <1>6, <1>7, <1>8, <1>10 DEF longer

\* What was paid for a position since the fill k, after one fill more.
LEMMA PaidLonger ==
  ASSUME NEW fs \in Seq(FillOf), NEW s \in Name, NEW f \in FillOf, NEW k \in 1 .. Len(fs)
  PROVE  /\ Paid(fs, s, k)[Len(fs)] \in Int
         /\ f.symbol = s => Paid(Append(fs, f), s, k)[Len(fs) + 1]
                              = Paid(fs, s, k)[Len(fs)] + f.qty * f.price
         /\ f.symbol # s => Paid(Append(fs, f), s, k)[Len(fs) + 1] = Paid(fs, s, k)[Len(fs)]
<1> DEFINE longer == Append(fs, f)
           v == [i \in DOMAIN fs |->
                   IF i < k \/ fs[i].symbol # s THEN 0
                   ELSE IF i = k THEN Abs(Net(fs, s)[k]) * fs[k].price
                   ELSE fs[i].qty * fs[i].price]
           w == [i \in DOMAIN longer |->
                   IF i < k \/ longer[i].symbol # s THEN 0
                   ELSE IF i = k THEN Abs(Net(longer, s)[k]) * longer[k].price
                   ELSE longer[i].qty * longer[i].price]
<1>1. PICK N \in Nat : N = Len(fs)
  OBVIOUS
<1>2. /\ DOMAIN fs = 1 .. N /\ DOMAIN longer = 1 .. (N + 1)
      /\ longer[N + 1] = f
      /\ \A n \in 1 .. N : longer[n] = fs[n] /\ fs[n] \in FillOf
      /\ k \in 1 .. N
  BY <1>1
<1>3. Net(fs, s)[k] \in Int /\ Net(longer, s)[k] = Net(fs, s)[k]
  <2>1. k \in 0 .. Len(fs)
    OBVIOUS
  <2> QED BY <2>1, NetSums
<1> HIDE DEF longer
<1>4. PICK net \in Int : net = Net(fs, s)[k] /\ Net(longer, s)[k] = net
  BY <1>3
<1>5. Abs(net) * fs[k].price \in Int /\ longer[k] = fs[k]
  <2>1. Abs(net) \in Int /\ fs[k].price \in Int
    BY <1>2, FillIsOf DEF Abs
  <2> QED BY <1>2, <2>1
<1>6. \A n \in 1 .. N : fs[n].qty * fs[n].price \in Int
  <2> SUFFICES ASSUME NEW n \in 1 .. N PROVE fs[n].qty * fs[n].price \in Int
    OBVIOUS
  <2>1. fs[n].qty \in Int /\ fs[n].price \in Int
    BY <1>2, FillIsOf
  <2> QED BY <2>1
<1>7. f.qty * f.price \in Int
  <2>1. f.qty \in Int /\ f.price \in Int
    BY FillIsOf
  <2> QED BY <2>1
<1>8. v \in [1 .. N -> Int]
  BY <1>2, <1>4, <1>5, <1>6
<1>9. \A n \in 1 .. N : w[n] = v[n]
  BY <1>2, <1>4, <1>5
<1>10. w[N + 1] = IF f.symbol # s THEN 0 ELSE f.qty * f.price
  BY <1>2
<1>11. w \in [1 .. (N + 1) -> Int]
  <2>1. \A n \in 1 .. (N + 1) : w[n] \in Int
    <3>1. \A n \in 1 .. N : w[n] \in Int
      <4> HIDE DEF v, w
      <4> QED BY <1>8, <1>9
    <3>2. w[N + 1] \in Int
      <4> HIDE DEF w
      <4> QED BY <1>7, <1>10
    <3> HIDE DEF w
    <3> QED BY <3>1, <3>2
  <2>2. w = [n \in 1 .. (N + 1) |-> w[n]]
    BY <1>2
  <2> HIDE DEF w
  <2> QED BY <2>1, <2>2
<1>12. Paid(fs, s, k) = PartialSums(v) /\ Paid(longer, s, k) = PartialSums(w)
  BY Zenon DEF Paid
<1> HIDE DEF v, w
<1>13. PartialSums(v)[N] \in Int
  BY <1>8, PartialSumsOf
<1>14. PartialSums(w)[N + 1] = PartialSums(v)[N] + w[N + 1]
  BY <1>8, <1>9, <1>11, PartialSumsLonger
<1>15. /\ f.symbol = s => PartialSums(w)[N + 1] = PartialSums(v)[N] + f.qty * f.price
       /\ f.symbol # s => PartialSums(w)[N + 1] = PartialSums(v)[N]
  BY <1>10, <1>13, <1>14
<1> QED BY <1>1, <1>12, <1>13, <1>15 DEF longer

\* What was paid for a position that the last fill opened or turned.
LEMMA PaidFirst ==
  ASSUME NEW fs \in Seq(FillOf), NEW s \in Name, NEW f \in FillOf, f.symbol = s
  PROVE  Paid(Append(fs, f), s, Len(fs) + 1)[Len(fs) + 1]
           = Abs(Net(fs, s)[Len(fs)] + signed_qty(f)) * f.price
<1> DEFINE longer == Append(fs, f)
           k == Len(fs) + 1
           w == [i \in DOMAIN longer |->
                   IF i < k \/ longer[i].symbol # s THEN 0
                   ELSE IF i = k THEN Abs(Net(longer, s)[k]) * longer[k].price
                   ELSE longer[i].qty * longer[i].price]
<1>1. PICK N \in Nat : N = Len(fs)
  OBVIOUS
<1>2. DOMAIN longer = 1 .. (N + 1) /\ longer[N + 1] = f /\ k = N + 1
  BY <1>1
<1>3. PICK net \in Int : net = Net(fs, s)[N] + signed_qty(f) /\ Net(longer, s)[k] = net
  <2>1. Net(fs, s)[N] \in Int
    BY <1>1, NetSums
  <2>2. Net(longer, s)[k] = Net(fs, s)[N] + signed_qty(f) /\ signed_qty(f) \in Int
    BY <1>1, NetSums, FillIsOf
  <2> QED BY <2>1, <2>2
<1> HIDE DEF longer, k
<1>4. Abs(net) * f.price \in Int
  <2>1. Abs(net) \in Int /\ f.price \in Int
    BY FillIsOf DEF Abs
  <2> QED BY <2>1
<1>5. \A n \in 1 .. N : w[n] = 0
  BY <1>2
<1>6. w[N + 1] = Abs(net) * f.price
  BY <1>2, <1>3
<1>7. w \in [1 .. (N + 1) -> Int]
  <2>1. \A n \in 1 .. (N + 1) : w[n] \in Int
    <3> HIDE DEF w
    <3> QED BY <1>4, <1>5, <1>6
  <2>2. w = [n \in 1 .. (N + 1) |-> w[n]]
    BY <1>2
  <2> HIDE DEF w
  <2> QED BY <2>1, <2>2
<1>8. Paid(longer, s, k) = PartialSums(w)
  BY Zenon DEF Paid
<1> HIDE DEF w
<1>9. N + 1 \in Nat /\ N + 1 \in 1 .. (N + 1) /\ (N + 1) - 1 = N
  OBVIOUS
<1>10. Len(w) = N + 1 /\ \A n \in 1 .. (N + 1) : PartialSums(w)[n] = PartialSums(w)[n - 1] + w[n]
  BY <1>7, <1>9, PartialSumsOf, Zenon
<1>11. PartialSums(w)[N] = 0
  <2>1. Len(w) \in Nat /\ N <= Len(w)
    BY <1>10
  <2> QED BY <1>5, <2>1, PartialSumsNone, Zenon
<1>12. PartialSums(w)[N + 1] = PartialSums(w)[(N + 1) - 1] + w[N + 1]
  BY <1>9, <1>10
<1>13. PartialSums(w)[N + 1] = Abs(net) * f.price
  BY <1>4, <1>6, <1>9, <1>11, <1>12
<1> QED BY <1>1, <1>2, <1>3, <1>8, <1>13 DEF longer

\* Multiplying keeps the order.
LEMMA Monotone ==
  ASSUME NEW a \in Nat, NEW b \in Int, NEW c \in Int, b <= c
  PROVE  a * b <= a * c
<1>1. PICK e \in Nat : c = b + e
  <2>1. c - b \in Nat /\ c = b + (c - b)
    OBVIOUS
  <2> QED BY <2>1
<1>2. a * c = a * b + a * e /\ a * e \in Nat /\ a * b \in Int
  BY <1>1
<1> QED BY <1>2

\* An average of a lots at n / d and m at the price r: it is no less than what
\* is below both, and no more than what is above.
LEMMA AverageBetween ==
  ASSUME NEW a \in Nat, NEW m \in Nat, NEW n \in Int, NEW d \in Nat, NEW r \in Nat, NEW y \in Nat
  PROVE  /\ y * d <= n /\ y <= r => y * ((a + m) * d) <= a * n + (m * r) * d
         /\ y * d >= n /\ y >= r => y * ((a + m) * d) >= a * n + (m * r) * d
<1>1. y * ((a + m) * d) = a * (y * d) + (m * y) * d
  OBVIOUS
<1> DEFINE yd == y * d
           my == m * y
           mr == m * r
<1>2. yd \in Int /\ my \in Int /\ mr \in Int
  OBVIOUS
<1>3. /\ y <= r => my <= mr
      /\ y >= r => my >= mr
  BY Monotone
<1> DEFINE low == a * yd
           an == a * n
           myd == my * d
           mrd == mr * d
<1>4. myd = d * my /\ mrd = d * mr
  <2> HIDE DEF my, mr
  <2> QED BY <1>2
<1>5. /\ yd <= n => low <= an
      /\ yd >= n => low >= an
  <2> HIDE DEF yd
  <2> QED BY <1>2, Monotone
<1>6. /\ my <= mr => myd <= mrd
      /\ my >= mr => myd >= mrd
  <2> HIDE DEF my, mr, myd, mrd
  <2>1. /\ my <= mr => d * my <= d * mr
        /\ my >= mr => d * my >= d * mr
    BY <1>2, Monotone
  <2> QED BY <1>4, <2>1
<1>7. low \in Int /\ an \in Int /\ myd \in Int /\ mrd \in Int
  <2> HIDE DEF yd, my, mr
  <2> QED BY <1>2
<1>8. y * ((a + m) * d) = low + myd /\ an + mrd = a * n + (m * r) * d
  BY <1>1
<1> DEFINE left == y * ((a + m) * d)
           right == a * n + (m * r) * d
<1>9. left = low + myd /\ right = an + mrd
  BY <1>8
<1>10. /\ yd <= n /\ y <= r => left <= right
       /\ yd >= n /\ y >= r => left >= right
  <2> HIDE DEF left, right, low, an, myd, mrd, yd, my, mr
  <2> QED BY <1>3, <1>5, <1>6, <1>7, <1>9
<1> QED BY <1>10

\* If n / d was the mean of a lots that cost c, it is that of them and m more.
LEMMA AverageIsMean ==
  ASSUME NEW a \in Nat, NEW m \in Nat, NEW n \in Int, NEW d \in Nat, NEW r \in Nat, NEW c \in Int,
         n * a = d * c,
         NEW an, an = a * n + (m * r) * d, NEW ad, ad = (a + m) * d
  PROVE  an * (a + m) = ad * (c + m * r)
<1> DEFINE t == a * n + (m * r) * d
           b == a + m
           e == c + m * r
<1>1. t \in Int /\ b \in Int /\ e \in Int
  OBVIOUS
<1>2. t = d * e
  <2>1. d * e = d * c + d * (m * r) /\ d * (m * r) = (m * r) * d /\ a * n = n * a
    OBVIOUS
  <2> QED BY <2>1
<1>3. (b * d) * e = t * b
  <2> HIDE DEF t, b, e
  <2>1. (b * d) * e = b * (d * e)
    BY <1>1
  <2>2. b * t = t * b
    BY <1>1
  <2> QED BY <1>2, <2>1, <2>2
<1>4. an = t /\ ad = b * d
  OBVIOUS
<1> QED BY <1>3, <1>4, Zenon

\* A fill that opened the position to a side did so alone.
LEMMA OpensOnce ==
  ASSUME NEW fs \in Seq(FillOf), NEW s \in Name, NEW j \in 1 .. Len(fs), NEW k \in 1 .. Len(fs),
         Opens(fs, s, j), Opens(fs, s, k)
  PROVE  j = k
<1>1. ASSUME NEW i \in 1 .. Len(fs), NEW n \in 1 .. Len(fs), Opens(fs, s, i), Opens(fs, s, n), i < n
      PROVE  FALSE
  <2>1. n - 1 \in i .. Len(fs)
    BY <1>1
  <2>2. Sign(Net(fs, s)[n - 1]) = Sign(Net(fs, s)[Len(fs)])
    BY <1>1, <2>1 DEF Opens
  <2>3. Sign(Net(fs, s)[n - 1]) # Sign(Net(fs, s)[Len(fs)])
    BY <1>1 DEF Opens
  <2> QED BY <2>2, <2>3
<1> QED BY <1>1

\* A fill that leaves the side as it is.
LEMMA SideStays ==
  ASSUME NEW fs \in Seq(FillOf), NEW s \in Name, NEW f \in FillOf, NEW k \in 1 .. Len(fs),
         Opens(fs, s, k),
         Sign(Net(Append(fs, f), s)[Len(fs) + 1]) = Sign(Net(fs, s)[Len(fs)])
  PROVE  /\ Opens(Append(fs, f), s, k)
         /\ \A i \in Entries(fs, s, k) : i \in Entries(Append(fs, f), s, k)
         /\ \A i \in Entries(Append(fs, f), s, k) : i \in Entries(fs, s, k) \/ i = Len(fs) + 1
         /\ (Len(fs) + 1 \in Entries(Append(fs, f), s, k))
              <=> (f.symbol = s /\ Sign(signed_qty(f)) = Sign(Net(fs, s)[Len(fs)]))
<1> DEFINE longer == Append(fs, f)
<1>1. PICK N \in Nat : N = Len(fs) /\ Len(longer) = N + 1 /\ N >= 1
  OBVIOUS
<1>2. /\ longer[N + 1] = f
      /\ \A n \in 1 .. N : longer[n] = fs[n]
      /\ k \in 1 .. N
  BY <1>1
<1>3. \A n \in 0 .. N : Net(longer, s)[n] = Net(fs, s)[n]
  BY <1>1, NetSums
<1> DEFINE side == Sign(Net(fs, s)[N])
<1>4. Sign(Net(longer, s)[N + 1]) = side
  BY <1>1
<1> HIDE DEF longer
<1>5. Opens(longer, s, k)
  <2>1. \A j \in k .. N : Sign(Net(fs, s)[j]) = side
    BY <1>1 DEF Opens
  <2>2. Sign(Net(fs, s)[k - 1]) # side
    BY <1>1 DEF Opens
  <2>3. k - 1 \in 0 .. N
    BY <1>2
  <2>4. Sign(Net(longer, s)[k - 1]) # side
    BY <1>3, <2>2, <2>3
  <2>5. ASSUME NEW j \in k .. (N + 1) PROVE Sign(Net(longer, s)[j]) = side
    <3>1. CASE j = N + 1
      BY <1>4, <3>1
    <3>2. CASE j # N + 1
      <4>1. j \in Int /\ k \in Int /\ 1 <= k /\ k <= j /\ j <= N + 1
        BY <1>2
      <4> HIDE DEF side
      <4>2. j \in k .. N /\ j \in 0 .. N
        BY <3>2, <4>1
      <4> QED BY <1>3, <2>1, <4>2
    <3> QED BY <3>1, <3>2
  <2> QED BY <1>1, <1>4, <2>4, <2>5 DEF Opens
<1> HIDE DEF side
<1>6. \A i : i \in Entries(fs, s, k)
               <=> (i \in k .. N /\ fs[i].symbol = s /\ Sign(signed_qty(fs[i])) = side)
  BY <1>1 DEF Entries, side
<1>7. \A i : i \in Entries(longer, s, k)
               <=> (i \in k .. (N + 1) /\ longer[i].symbol = s /\ Sign(signed_qty(longer[i])) = side)
  BY <1>1, <1>4 DEF Entries
<1>8. \A i \in k .. N : i \in 1 .. N /\ i \in k .. (N + 1) /\ longer[i] = fs[i]
  BY <1>2
<1>9. \A i \in Entries(fs, s, k) : i \in Entries(longer, s, k)
  BY <1>6, <1>7, <1>8
<1>10. ASSUME NEW i \in Entries(longer, s, k), i # N + 1 PROVE i \in Entries(fs, s, k)
  <2>1. i \in k .. (N + 1) /\ longer[i].symbol = s /\ Sign(signed_qty(longer[i])) = side
    BY <1>7
  <2>2. i \in k .. N
    BY <1>10, <2>1
  <2> QED BY <1>6, <1>8, <2>1, <2>2
<1>11. (N + 1 \in Entries(longer, s, k)) <=> (f.symbol = s /\ Sign(signed_qty(f)) = side)
  <2>1. N + 1 \in k .. (N + 1)
    BY <1>2
  <2> QED BY <1>2, <1>7, <2>1
<1> QED BY <1>1, <1>5, <1>9, <1>10, <1>11 DEF longer, side

\* A fill that opens a position, or turns it over.
LEMMA SideTurns ==
  ASSUME NEW fs \in Seq(FillOf), NEW s \in Name, NEW f \in FillOf, f.symbol = s,
         Sign(Net(Append(fs, f), s)[Len(fs) + 1]) # Sign(Net(fs, s)[Len(fs)]),
         Sign(Net(Append(fs, f), s)[Len(fs) + 1]) = Sign(signed_qty(f))
  PROVE  /\ Opens(Append(fs, f), s, Len(fs) + 1)
         /\ Len(fs) + 1 \in Entries(Append(fs, f), s, Len(fs) + 1)
<1> DEFINE longer == Append(fs, f)
<1>1. PICK N \in Nat : N = Len(fs) /\ Len(longer) = N + 1
  OBVIOUS
<1>2. longer[N + 1] = f
  BY <1>1
<1>3. Net(longer, s)[N] = Net(fs, s)[N]
  <2>1. N \in 0 .. Len(fs)
    BY <1>1
  <2> QED BY <2>1, NetSums
<1> HIDE DEF longer
<1>4. Opens(longer, s, N + 1)
  <2>1. (N + 1) - 1 = N /\ \A j \in (N + 1) .. (N + 1) : j = N + 1
    OBVIOUS
  <2> QED BY <1>1, <1>3, <2>1 DEF Opens, longer
<1>5. N + 1 \in Entries(longer, s, N + 1)
  <2>1. N + 1 \in (N + 1) .. (N + 1)
    OBVIOUS
  <2> QED BY <1>1, <1>2, <2>1 DEF Entries, longer
<1> QED BY <1>1, <1>4, <1>5 DEF longer

Position == [qty : Int, avg : [n : Nat, d : Nat \ {0}]]

\* Nothing was taken off the position in s since the fill k.
OnlyEntries(fs, s, k) == \A i \in k .. Len(fs) : fs[i].symbol = s => i \in Entries(fs, s, k)

\* The average price n / d of q lots is explained from the fill k on, which
\* opened the position or turned it.
Explained(fs, s, q, n, d, k) ==
  /\ Opens(fs, s, k)
  /\ \E i \in Entries(fs, s, k) : fs[i].price * d <= n
  /\ \E i \in Entries(fs, s, k) : fs[i].price * d >= n
  /\ OnlyEntries(fs, s, k) => n * Abs(q) = d * Paid(fs, s, k)[Len(fs)]

\* The inductive invariant, of one symbol's position p after the fills fs.
Booked(fs, s, p) ==
  /\ p \in Position
  /\ p.qty = Net(fs, s)[Len(fs)]
  /\ p.qty = 0 => p.avg = NoPosition.avg
  /\ p.qty # 0 => \E k \in 1 .. Len(fs) : Explained(fs, s, p.qty, p.avg.n, p.avg.d, k)

\* A fill that turns the position over, or opens one.
LEMMA TurnExplained ==
  ASSUME NEW fs \in Seq(FillOf), NEW s \in Name, NEW f \in FillOf, f.symbol = s,
         NEW q \in Int, q = Net(fs, s)[Len(fs)], NEW n \in Nat, NEW d \in Nat,
         Sign(q + signed_qty(f)) # Sign(q), Sign(q + signed_qty(f)) = Sign(signed_qty(f)),
         n = f.price * d
  PROVE  Explained(Append(fs, f), s, q + signed_qty(f), n, d, Len(fs) + 1)
<1> DEFINE longer == Append(fs, f)
           k == Len(fs) + 1
           new == q + signed_qty(f)
<1>1. k \in Nat /\ Len(longer) = k /\ longer[k] = f /\ Len(fs) \in Nat
  OBVIOUS
<1>2. Net(longer, s)[k] = new
  BY NetSums
<1>3. Opens(longer, s, k) /\ k \in Entries(longer, s, k)
  <2>1. Sign(Net(longer, s)[k]) # Sign(Net(fs, s)[Len(fs)]) /\ Sign(Net(longer, s)[k]) = Sign(signed_qty(f))
    BY <1>2
  <2> QED BY <2>1, SideTurns
<1>4. Paid(longer, s, k)[k] = Abs(new) * f.price
  BY PaidFirst
<1>5. f.price \in Nat /\ new \in Int /\ Abs(new) \in Int
  BY FillIsOf DEF Abs
<1> HIDE DEF longer, k, new
<1>6. n * Abs(new) = d * (Abs(new) * f.price)
  <2>1. \A a \in Int, r \in Int : (r * d) * a = d * (a * r)
    OBVIOUS
  <2> QED BY <1>5, <2>1
<1>7. longer[k].price * d <= n /\ longer[k].price * d >= n
  <2>1. longer[k].price * d = n
    BY <1>1
  <2> QED BY <2>1
<1>8. /\ \E i \in Entries(longer, s, k) : longer[i].price * d <= n
      /\ \E i \in Entries(longer, s, k) : longer[i].price * d >= n
  BY <1>3, <1>7
<1>9. n * Abs(new) = d * Paid(longer, s, k)[Len(longer)]
  BY <1>1, <1>4, <1>6
<1> QED BY <1>3, <1>8, <1>9 DEF Explained, longer, k, new

\* A fill of another symbol.
LEMMA OtherExplained ==
  ASSUME NEW fs \in Seq(FillOf), NEW s \in Name, NEW f \in FillOf, f.symbol # s,
         NEW q \in Int, NEW n \in Nat, NEW d \in Nat, NEW k \in 1 .. Len(fs),
         Explained(fs, s, q, n, d, k)
  PROVE  Explained(Append(fs, f), s, q, n, d, k)
<1> DEFINE longer == Append(fs, f)
<1>1. /\ Len(longer) = Len(fs) + 1 /\ Len(fs) \in Nat
      /\ \A i \in k .. Len(fs) : longer[i] = fs[i] /\ i \in k .. (Len(fs) + 1)
  OBVIOUS
<1>2. Net(longer, s)[Len(fs) + 1] = Net(fs, s)[Len(fs)]
  BY NetSums
<1>3. /\ Opens(longer, s, k)
      /\ \A i \in Entries(fs, s, k) : i \in Entries(longer, s, k)
      /\ \A i \in Entries(longer, s, k) : i \in Entries(fs, s, k) \/ i = Len(fs) + 1
      /\ Len(fs) + 1 \notin Entries(longer, s, k)
  <2>1. Opens(fs, s, k) /\ Sign(Net(longer, s)[Len(fs) + 1]) = Sign(Net(fs, s)[Len(fs)])
    BY <1>2 DEF Explained
  <2> QED BY <2>1, SideStays
<1>4. Paid(longer, s, k)[Len(longer)] = Paid(fs, s, k)[Len(fs)]
  BY <1>1, PaidLonger
<1> HIDE DEF longer
<1>5. \A i \in Entries(fs, s, k) : longer[i] = fs[i] /\ i \in Entries(longer, s, k)
  BY <1>1, <1>3 DEF Entries
<1>6. /\ \E i \in Entries(longer, s, k) : longer[i].price * d <= n
      /\ \E i \in Entries(longer, s, k) : longer[i].price * d >= n
  BY <1>5 DEF Explained
<1>7. ASSUME OnlyEntries(longer, s, k) PROVE OnlyEntries(fs, s, k)
  <2>1. ASSUME NEW i \in k .. Len(fs), fs[i].symbol = s PROVE i \in Entries(fs, s, k)
    <3>1. i \in Entries(longer, s, k)
      BY <1>1, <1>7, <2>1 DEF OnlyEntries
    <3> QED BY <1>3, <3>1
  <2> QED BY <2>1 DEF OnlyEntries
<1>8. OnlyEntries(longer, s, k) => n * Abs(q) = d * Paid(longer, s, k)[Len(longer)]
  BY <1>4, <1>7 DEF Explained
<1> QED BY <1>3, <1>6, <1>8 DEF Explained, longer

\* A fill that takes lots off the position.
LEMMA LessExplained ==
  ASSUME NEW fs \in Seq(FillOf), NEW s \in Name, NEW f \in FillOf, f.symbol = s,
         NEW q \in Int, q = Net(fs, s)[Len(fs)], NEW n \in Nat, NEW d \in Nat,
         NEW k \in 1 .. Len(fs), Explained(fs, s, q, n, d, k),
         Sign(q + signed_qty(f)) = Sign(q), Sign(signed_qty(f)) # Sign(q)
  PROVE  Explained(Append(fs, f), s, q + signed_qty(f), n, d, k)
<1> DEFINE longer == Append(fs, f)
<1>1. /\ Len(longer) = Len(fs) + 1 /\ Len(fs) \in Nat /\ longer[Len(fs) + 1] = f
      /\ \A i \in k .. Len(fs) : longer[i] = fs[i]
      /\ Len(fs) + 1 \in k .. Len(longer)
  OBVIOUS
<1>2. Net(longer, s)[Len(fs) + 1] = q + signed_qty(f)
  BY NetSums
<1>3. /\ Opens(longer, s, k)
      /\ \A i \in Entries(fs, s, k) : i \in Entries(longer, s, k)
      /\ Len(fs) + 1 \notin Entries(longer, s, k)
  <2>1. Opens(fs, s, k) /\ Sign(Net(longer, s)[Len(fs) + 1]) = Sign(Net(fs, s)[Len(fs)])
    BY <1>2 DEF Explained
  <2> QED BY <2>1, SideStays
<1> HIDE DEF longer
<1>4. \A i \in Entries(fs, s, k) : longer[i] = fs[i] /\ i \in Entries(longer, s, k)
  BY <1>1, <1>3 DEF Entries
<1>5. /\ \E i \in Entries(longer, s, k) : longer[i].price * d <= n
      /\ \E i \in Entries(longer, s, k) : longer[i].price * d >= n
  BY <1>4 DEF Explained
<1>6. ~ OnlyEntries(longer, s, k)
  BY <1>1, <1>3 DEF OnlyEntries
<1> QED BY <1>3, <1>5, <1>6 DEF Explained, longer

\* A fill that adds to the position.
LEMMA MoreExplained ==
  ASSUME NEW fs \in Seq(FillOf), NEW s \in Name, NEW f \in FillOf, f.symbol = s,
         NEW q \in Int, q = Net(fs, s)[Len(fs)], NEW n \in Nat, NEW d \in Nat,
         NEW k \in 1 .. Len(fs), Explained(fs, s, q, n, d, k),
         Sign(q + signed_qty(f)) = Sign(q), Sign(signed_qty(f)) = Sign(q),
         Abs(q + signed_qty(f)) = Abs(q) + f.qty
  PROVE  Explained(Append(fs, f), s, q + signed_qty(f),
                   Abs(q) * n + (f.qty * f.price) * d, Abs(q + signed_qty(f)) * d, k)
<1> DEFINE longer == Append(fs, f)
           last == Len(fs) + 1
           a == Abs(q)
           m == f.qty
           r == f.price
           an == a * n + (m * r) * d
           ad == (a + m) * d
           new == q + signed_qty(f)
<1>1. /\ Len(longer) = last /\ last \in Nat /\ longer[last] = f
      /\ \A i \in k .. Len(fs) : longer[i] = fs[i] /\ i \in k .. last /\ fs[i] \in FillOf
  OBVIOUS
<1>2. Net(longer, s)[last] = new
  BY NetSums
<1>3. /\ Opens(longer, s, k)
      /\ \A i \in Entries(fs, s, k) : i \in Entries(longer, s, k)
      /\ \A i \in Entries(longer, s, k) : i \in Entries(fs, s, k) \/ i = last
      /\ last \in Entries(longer, s, k)
  <2>1. Opens(fs, s, k) /\ Sign(Net(longer, s)[last]) = Sign(Net(fs, s)[Len(fs)])
    BY <1>2 DEF Explained
  <2> QED BY <2>1, SideStays
<1>4. /\ Paid(longer, s, k)[last] = Paid(fs, s, k)[Len(fs)] + m * r
      /\ Paid(fs, s, k)[Len(fs)] \in Int
  BY PaidLonger
<1>5. a \in Nat /\ m \in Nat /\ r \in Nat /\ longer[last].price = r
  <2>1. a \in Nat
    BY DEF Abs
  <2>2. m \in Nat /\ r \in Nat
    BY FillIsOf
  <2>3. longer[last].price = r
    BY <1>1
  <2> QED BY <2>1, <2>2, <2>3
<1> HIDE DEF longer, last, a, m, r
<1>6. \A i \in Entries(fs, s, k) :
        longer[i] = fs[i] /\ i \in Entries(longer, s, k) /\ fs[i].price \in Nat
  BY <1>1, <1>3, FillIsOf DEF Entries
<1>7. \E i \in Entries(longer, s, k) : longer[i].price * ad <= an
  <2>1. PICK i \in Entries(fs, s, k) : fs[i].price * d <= n
    BY DEF Explained
  <2>2. PICK x \in Nat : x = fs[i].price
    BY <1>6
  <2>3. CASE x <= r
    <3>1. x * d <= n /\ x <= r
      BY <2>1, <2>2, <2>3
    <3>2. x * ad <= an
      BY <1>5, <3>1, AverageBetween
    <3> HIDE DEF an, ad
    <3> QED BY <1>6, <2>2, <3>2
  <2>4. CASE r <= x
    <3>1. r * d <= n
      <4>1. d * r <= d * x
        BY <1>5, <2>4, Monotone
      <4>2. r * d = d * r /\ x * d = d * x /\ r * d \in Int /\ x * d \in Int
        BY <1>5
      <4>3. x * d <= n
        BY <2>1, <2>2
      <4> QED BY <4>1, <4>2, <4>3
    <3>2. r * ad <= an
      <4>1. r <= r
        BY <1>5
      <4> QED BY <1>5, <3>1, <4>1, AverageBetween
    <3> HIDE DEF an, ad
    <3> QED BY <1>3, <1>5, <3>2
  <2> QED BY <1>5, <2>3, <2>4
<1>8. \E i \in Entries(longer, s, k) : longer[i].price * ad >= an
  <2>1. PICK i \in Entries(fs, s, k) : fs[i].price * d >= n
    BY DEF Explained
  <2>2. PICK x \in Nat : x = fs[i].price
    BY <1>6
  <2>3. CASE x >= r
    <3>1. x * d >= n /\ x >= r
      BY <2>1, <2>2, <2>3
    <3>2. x * ad >= an
      BY <1>5, <3>1, AverageBetween
    <3> HIDE DEF an, ad
    <3> QED BY <1>6, <2>2, <3>2
  <2>4. CASE r >= x
    <3>1. r * d >= n
      <4>1. d * x <= d * r
        BY <1>5, <2>4, Monotone
      <4>2. r * d = d * r /\ x * d = d * x /\ r * d \in Int /\ x * d \in Int
        BY <1>5
      <4>3. x * d >= n
        BY <2>1, <2>2
      <4> QED BY <4>1, <4>2, <4>3
    <3>2. r * ad >= an
      <4>1. r >= r
        BY <1>5
      <4> QED BY <1>5, <3>1, <4>1, AverageBetween
    <3> HIDE DEF an, ad
    <3> QED BY <1>3, <1>5, <3>2
  <2> QED BY <1>5, <2>3, <2>4
<1>9. ASSUME OnlyEntries(longer, s, k) PROVE OnlyEntries(fs, s, k)
  <2>1. ASSUME NEW i \in k .. Len(fs), fs[i].symbol = s PROVE i \in Entries(fs, s, k)
    <3>1. i \in Entries(longer, s, k) /\ i # last
      BY <1>1, <1>9, <2>1 DEF OnlyEntries, last
    <3> QED BY <1>3, <3>1
  <2> QED BY <2>1 DEF OnlyEntries
<1>10. Abs(new) = a + m
  BY DEF a, m
<1>11. OnlyEntries(longer, s, k) => an * Abs(new) = ad * Paid(longer, s, k)[Len(longer)]
  <2> SUFFICES ASSUME OnlyEntries(longer, s, k)
               PROVE  an * Abs(new) = ad * Paid(longer, s, k)[Len(longer)]
    OBVIOUS
  <2>1. PICK c \in Int : c = Paid(fs, s, k)[Len(fs)]
    BY <1>4
  <2>2. n * a = d * c
    BY <1>9, <2>1 DEF Explained, a
  <2>3. an * (a + m) = ad * (c + m * r)
    <3>1. n \in Int /\ an = a * n + (m * r) * d /\ ad = (a + m) * d
      OBVIOUS
    <3> HIDE DEF an, ad
    <3> QED BY <1>5, <2>2, <3>1, AverageIsMean
  <2> HIDE DEF an, ad
  <2> QED BY <1>1, <1>4, <1>10, <2>1, <2>3
<1>12. Explained(longer, s, new, an, ad, k)
  <2> HIDE DEF an, ad, new
  <2> QED BY <1>3, <1>7, <1>8, <1>11 DEF Explained
<1> QED BY <1>10, <1>12 DEF longer, last, a, m, r

\* A fill of another symbol leaves a position as it is, and explained.
LEMMA BookedOther ==
  ASSUME NEW fs \in Seq(FillOf), NEW s \in Name, NEW f \in FillOf, f.symbol # s, NEW p,
         Booked(fs, s, p)
  PROVE  Booked(Append(fs, f), s, p)
<1> DEFINE longer == Append(fs, f)
<1>1. Len(longer) = Len(fs) + 1 /\ \A k \in 1 .. Len(fs) : k \in 1 .. Len(longer)
  OBVIOUS
<1>2. p \in Position /\ p.qty \in Int /\ p.avg.n \in Nat /\ p.avg.d \in Nat
  BY DEF Booked, Position
<1>3. p.qty = Net(longer, s)[Len(longer)]
  BY <1>1, NetSums DEF Booked
<1>4. ASSUME p.qty # 0
      PROVE  \E k \in 1 .. Len(longer) : Explained(longer, s, p.qty, p.avg.n, p.avg.d, k)
  <2>1. PICK k \in 1 .. Len(fs) : Explained(fs, s, p.qty, p.avg.n, p.avg.d, k)
    BY <1>4 DEF Booked
  <2>2. Explained(longer, s, p.qty, p.avg.n, p.avg.d, k)
    BY <1>2, <2>1, OtherExplained
  <2> QED BY <1>1, <2>2
<1> HIDE DEF longer
<1> QED BY <1>2, <1>3, <1>4 DEF Booked, longer

\* A fill of the symbol: the position closes, opens or grows, turns over, or
\* shrinks.
LEMMA BookedOwn ==
  ASSUME NEW fs \in Seq(FillOf), NEW s \in Name, NEW f \in FillOf, f.symbol = s, NEW p,
         Booked(fs, s, p)
  PROVE  Booked(Append(fs, f), s, apply_fill(p, f))
<1> DEFINE longer == Append(fs, f)
           last == Len(fs) + 1
           new == p.qty + signed_qty(f)
           after == apply_fill(p, f)
<1>1. /\ Len(longer) = last /\ last \in 1 .. Len(longer)
      /\ \A k \in 1 .. Len(fs) : k \in 1 .. Len(longer)
  OBVIOUS
<1>2. /\ p \in Position /\ p.qty \in Int /\ p.avg.n \in Nat /\ p.avg.d \in Nat /\ p.avg.d # 0
      /\ p.avg \in [n : Nat, d : Nat \ {0}]
  BY DEF Booked, Position
<1>3. p.qty = Net(fs, s)[Len(fs)]
  BY DEF Booked
<1>4. new = Net(longer, s)[Len(longer)]
  BY <1>1, <1>3, NetSums
<1>5. /\ f.qty \in Nat /\ f.qty # 0 /\ f.price \in Nat
      /\ signed_qty(f) \in Int /\ signed_qty(f) # 0 /\ Abs(signed_qty(f)) = f.qty
  BY FillIsOf
<1>6. PICK q \in Int, m \in Int : q = p.qty /\ m = signed_qty(f)
  BY <1>2, <1>5
<1>7. CASE new = 0
  <2>1. after.qty = new /\ after.avg = NoPosition.avg /\ after = [qty |-> new, avg |-> NoPosition.avg]
    BY <1>7 DEF apply_fill
  <2>2. NoPosition.avg \in [n : Nat, d : Nat \ {0}]
    BY DEF NoPosition
  <2>3. new \in Int
    BY <1>7
  <2>4. after \in Position
    <3> HIDE DEF after, new
    <3> QED BY <2>1, <2>2, <2>3 DEF Position
  <2> HIDE DEF after, longer, last, new
  <2> QED BY <1>4, <1>7, <2>1, <2>4 DEF Booked, longer, after
<1>8. ASSUME NEW n \in Nat, NEW d \in Nat \ {0}, NEW k \in 1 .. Len(longer),
             new # 0, after = [qty |-> new, avg |-> [n |-> n, d |-> d]],
             Explained(longer, s, new, n, d, k)
      PROVE  Booked(longer, s, after)
  <2>1. after.qty = new /\ after.avg.n = n /\ after.avg.d = d
    BY <1>8
  <2>2. new \in Int
    BY <1>2, <1>5
  <2>3. after \in Position
    <3> HIDE DEF after, new
    <3> QED BY <1>8, <2>2 DEF Position
  <2> HIDE DEF after, longer, last, new
  <2> QED BY <1>4, <1>8, <2>1, <2>3 DEF Booked
<1>9. CASE new # 0 /\ Adds(p.qty, signed_qty(f))
  <2> DEFINE an == Abs(p.qty) * p.avg.n + (f.qty * f.price) * p.avg.d
             ad == Abs(new) * p.avg.d
  <2>1. after = [qty |-> new, avg |-> [n |-> an, d |-> ad]]
    BY <1>9, Zenon DEF apply_fill, Weighed
  <2>2. q = 0 \/ (q > 0 /\ m > 0) \/ (q < 0 /\ m < 0)
    BY <1>6, <1>9 DEF Adds
  <2>3. /\ Sign(q + m) = Sign(m) /\ Abs(q + m) = Abs(q) + Abs(m)
        /\ q # 0 => Sign(q + m) = Sign(q)
        /\ q = 0 => Sign(q + m) # Sign(q)
    BY <1>5, <1>6, <2>2 DEF Sign, Abs
  <2>4. an \in Nat /\ ad \in Nat /\ ad # 0
    <3>1. Abs(p.qty) \in Nat /\ Abs(new) \in Nat /\ Abs(new) # 0
      BY <1>2, <1>5, <1>9 DEF Abs
    <3>2. Abs(p.qty) * p.avg.n \in Nat /\ (f.qty * f.price) \in Nat
      BY <1>2, <1>5, <3>1
    <3>3. (f.qty * f.price) * p.avg.d \in Nat
      BY <1>2, <3>2
    <3>4. Abs(new) * p.avg.d \in Nat /\ Abs(new) * p.avg.d # 0
      <4>1. \A x \in Nat, y \in Nat : x # 0 /\ y # 0 => x * y \in Nat /\ x * y # 0
        OBVIOUS
      <4> QED BY <1>2, <3>1, <4>1
    <3> QED BY <3>2, <3>3, <3>4
  <2>5. ad \in Nat \ {0}
    BY <2>4
  <2>6. CASE q = 0
    <3>1. p.avg.n = 0 /\ p.avg.d = 1
      BY <1>6, <2>6 DEF Booked, NoPosition
    <3>2. Abs(p.qty) = 0 /\ Abs(new) = f.qty
      BY <1>5, <1>6, <2>6 DEF Abs
    <3>3. an = f.price * ad
      BY <1>5, <3>1, <3>2
    <3>4. Sign(p.qty + signed_qty(f)) # Sign(p.qty) /\ Sign(p.qty + signed_qty(f)) = Sign(signed_qty(f))
      BY <1>6, <2>3, <2>6
    <3>5. Explained(longer, s, new, an, ad, last)
      <4> HIDE DEF an, ad
      <4> QED BY <1>2, <1>3, <2>4, <3>3, <3>4, TurnExplained
    <3> HIDE DEF an, ad, after
    <3> QED BY <1>1, <1>8, <1>9, <2>1, <2>4, <2>5, <3>5 DEF after
  <2>7. CASE q # 0
    <3>1. PICK k \in 1 .. Len(fs) : Explained(fs, s, p.qty, p.avg.n, p.avg.d, k)
      BY <1>6, <2>7 DEF Booked
    <3>2. /\ Sign(p.qty + signed_qty(f)) = Sign(p.qty) /\ Sign(signed_qty(f)) = Sign(p.qty)
          /\ Abs(p.qty + signed_qty(f)) = Abs(p.qty) + f.qty
      BY <1>5, <1>6, <2>3, <2>7
    <3>3. Explained(longer, s, new, an, ad, k)
      BY <1>2, <1>3, <3>1, <3>2, MoreExplained
    <3> HIDE DEF an, ad, after
    <3> QED BY <1>1, <1>8, <1>9, <2>1, <2>4, <2>5, <3>3 DEF after
  <2> QED BY <2>6, <2>7
<1>10. CASE new # 0 /\ ~ Adds(p.qty, signed_qty(f)) /\ Flips(p.qty, new)
  <2>1. after = [qty |-> new, avg |-> [n |-> f.price, d |-> 1]]
    BY <1>10, Zenon DEF apply_fill
  <2>2. Sign(p.qty + signed_qty(f)) # Sign(p.qty) /\ Sign(p.qty + signed_qty(f)) = Sign(signed_qty(f))
    <3>1. (q > 0 /\ q + m < 0) \/ (q < 0 /\ q + m > 0)
      BY <1>6, <1>10 DEF Flips
    <3>2. Sign(q + m) # Sign(q) /\ Sign(q + m) = Sign(m)
      BY <3>1 DEF Sign
    <3> QED BY <1>6, <3>2
  <2>3. f.price = f.price * 1 /\ 1 \in Nat /\ 1 \in Nat \ {0}
    BY <1>5
  <2>4. Explained(longer, s, new, f.price, 1, last)
    BY <1>2, <1>3, <1>5, <2>2, <2>3, TurnExplained
  <2> HIDE DEF after
  <2> QED BY <1>1, <1>5, <1>8, <1>10, <2>1, <2>3, <2>4 DEF after
<1>11. CASE new # 0 /\ ~ Adds(p.qty, signed_qty(f)) /\ ~ Flips(p.qty, new)
  <2>1. after = [qty |-> new, avg |-> p.avg] /\ p.avg = [n |-> p.avg.n, d |-> p.avg.d]
    <3>1. after = [qty |-> new, avg |-> p.avg]
      BY <1>11, Zenon DEF apply_fill
    <3>2. p.avg = [n |-> p.avg.n, d |-> p.avg.d]
      BY <1>2
    <3> QED BY <3>1, <3>2
  <2>2. q # 0 /\ ((q > 0 /\ m < 0 /\ q + m > 0) \/ (q < 0 /\ m > 0 /\ q + m < 0))
    <3>1. q # 0 /\ ~ (q > 0 /\ m > 0) /\ ~ (q < 0 /\ m < 0)
      BY <1>6, <1>11 DEF Adds
    <3>2. ~ (q > 0 /\ q + m < 0) /\ ~ (q < 0 /\ q + m > 0) /\ q + m # 0 /\ m # 0
      BY <1>5, <1>6, <1>11 DEF Flips
    <3> QED BY <3>1, <3>2
  <2>3. Sign(p.qty + signed_qty(f)) = Sign(p.qty) /\ Sign(signed_qty(f)) # Sign(p.qty)
    <3>1. Sign(q + m) = Sign(q) /\ Sign(m) # Sign(q)
      BY <2>2 DEF Sign
    <3> QED BY <1>6, <3>1
  <2>4. PICK k \in 1 .. Len(fs) : Explained(fs, s, p.qty, p.avg.n, p.avg.d, k)
    BY <1>6, <2>2 DEF Booked
  <2>5. Explained(longer, s, new, p.avg.n, p.avg.d, k)
    BY <1>2, <1>3, <2>3, <2>4, LessExplained
  <2>6. p.avg.d \in Nat \ {0} /\ k \in 1 .. Len(longer)
    BY <1>1, <1>2
  <2>7. after = [qty |-> new, avg |-> [n |-> p.avg.n, d |-> p.avg.d]]
    BY <2>1, Zenon
  <2> HIDE DEF after
  <2> QED BY <1>2, <1>8, <1>11, <2>5, <2>6, <2>7 DEF after
<1> QED BY <1>7, <1>9, <1>10, <1>11

\* The inductive invariant, of all symbols.
PortfolioInv ==
  /\ fills \in Seq(FillOf)
  /\ positions \in [Name -> Position]
  /\ \A s \in Name : Booked(fills, s, positions[s])

LEMMA PortfolioInvInit == PortfolioInit => PortfolioInv
<1> SUFFICES ASSUME PortfolioInit PROVE PortfolioInv
  OBVIOUS
<1>1. fills = <<>> /\ fills \in Seq(FillOf) /\ Len(fills) = 0
  BY DEF PortfolioInit
<1>2. NoPosition \in Position /\ NoPosition.qty = 0
  BY DEF NoPosition, Position
<1>3. positions = [s \in Name |-> NoPosition]
  BY DEF PortfolioInit
<1>4. ASSUME NEW s \in Name PROVE Net(<<>>, s)[0] = 0
  <2> DEFINE v == [i \in DOMAIN <<>> |->
                     IF <<>>[i].symbol = s THEN signed_qty(<<>>[i]) ELSE 0]
  <2>1. v \in [1 .. 0 -> Int]
    OBVIOUS
  <2>2. Net(<<>>, s) = PartialSums(v)
    BY Zenon DEF Net
  <2> HIDE DEF v
  <2> QED BY <2>1, <2>2, PartialSumsOf
<1>5. ASSUME NEW s \in Name PROVE Booked(fills, s, positions[s])
  <2>1. positions[s] = NoPosition
    BY <1>3
  <2> QED BY <1>1, <1>2, <1>4, <2>1 DEF Booked
<1>6. positions \in [Name -> Position]
  BY <1>2, <1>3
<1> QED BY <1>1, <1>5, <1>6 DEF PortfolioInv

LEMMA PortfolioInvStep == PortfolioInv /\ [PortfolioNext]_portfolio => PortfolioInv'
<1> SUFFICES ASSUME PortfolioInv, [PortfolioNext]_portfolio PROVE PortfolioInv'
  OBVIOUS
<1>1. CASE UNCHANGED portfolio
  BY <1>1 DEF PortfolioInv, portfolio
<1>2. CASE PortfolioNext
  <2>1. PICK f \in FillOf : on_fill(f)
    BY <1>2 DEF PortfolioNext
  <2>2. fills' = Append(fills, f) /\ fills \in Seq(FillOf) /\ fills' \in Seq(FillOf)
    BY <2>1 DEF on_fill, PortfolioInv
  <2>3. f.symbol \in Name
    BY FillIsOf
  <2>4. /\ positions' = [positions EXCEPT ![f.symbol] = apply_fill(positions[f.symbol], f)]
        /\ positions \in [Name -> Position]
    BY <2>1 DEF on_fill, PortfolioInv
  <2>5. ASSUME NEW s \in Name PROVE Booked(fills', s, positions'[s])
    <3>1. Booked(fills, s, positions[s])
      BY DEF PortfolioInv
    <3>2. CASE f.symbol = s
      <4>1. positions'[s] = apply_fill(positions[s], f)
        BY <2>3, <2>4, <3>2
      <4>2. Booked(Append(fills, f), s, apply_fill(positions[s], f))
        BY <2>2, <3>1, <3>2, BookedOwn
      <4> QED BY <2>2, <4>1, <4>2
    <3>3. CASE f.symbol # s
      <4>1. positions'[s] = positions[s]
        BY <2>4, <3>3
      <4>2. Booked(Append(fills, f), s, positions[s])
        BY <2>2, <3>1, <3>3, BookedOther
      <4> QED BY <2>2, <4>1, <4>2
    <3> QED BY <3>2, <3>3
  <2>6. positions' \in [Name -> Position]
    <3>1. \A s \in Name : positions'[s] \in Position
      BY <2>5 DEF Booked
    <3>2. DOMAIN positions' = Name /\ positions' = [s \in Name |-> positions'[s]]
      BY <2>4
    <3> QED BY <3>1, <3>2
  <2> QED BY <2>2, <2>5, <2>6 DEF PortfolioInv
<1> QED BY <1>1, <1>2

\* AverageIsExplained, for every set of symbols, lots and prices and any number
\* of fills: on_fill and apply_fill keep each position the sum of its fills, with
\* an average price between those it was entered at since it was last turned.
THEOREM AveragePriceIsExplained == PortfolioSpec => []AverageIsExplained
<1>1. PortfolioInv => AverageIsExplained
  <2> SUFFICES ASSUME PortfolioInv, NEW s \in Name
               PROVE  LET p == positions[s]
                          first == CHOOSE k \in DOMAIN fills : Opens(fills, s, k)
                          entries == Entries(fills, s, first)
                      IN  /\ p.qty = Net(fills, s)[Len(fills)]
                          /\ p.qty = 0 => p.avg = NoPosition.avg
                          /\ p.qty # 0 =>
                               /\ \E i \in entries : fills[i].price * p.avg.d <= p.avg.n
                               /\ \E i \in entries : fills[i].price * p.avg.d >= p.avg.n
                               /\ {i \in first .. Len(fills) : fills[i].symbol = s} = entries =>
                                    p.avg.n * Abs(p.qty) = p.avg.d * Paid(fills, s, first)[Len(fills)]
    BY Zenon DEF AverageIsExplained
  <2> DEFINE p == positions[s]
             first == CHOOSE k \in DOMAIN fills : Opens(fills, s, k)
  <2>1. Booked(fills, s, p) /\ fills \in Seq(FillOf) /\ DOMAIN fills = 1 .. Len(fills)
    BY DEF PortfolioInv
  <2>2. ASSUME p.qty # 0 PROVE Explained(fills, s, p.qty, p.avg.n, p.avg.d, first)
    <3>1. PICK k \in 1 .. Len(fills) : Explained(fills, s, p.qty, p.avg.n, p.avg.d, k)
      BY <2>1, <2>2 DEF Booked
    <3>2. k \in DOMAIN fills /\ Opens(fills, s, k)
      BY <2>1, <3>1 DEF Explained
    <3>3. first \in DOMAIN fills /\ Opens(fills, s, first)
      BY <3>2, Zenon
    <3>4. first = k
      <4> HIDE DEF first
      <4> QED BY <2>1, <3>2, <3>3, OpensOnce
    <3> QED BY <3>1, <3>4
  <2> HIDE DEF first, p
  <2>3. {i \in first .. Len(fills) : fills[i].symbol = s} = Entries(fills, s, first)
          => OnlyEntries(fills, s, first)
    BY DEF OnlyEntries
  <2> QED BY <2>1, <2>2, <2>3 DEF Booked, Explained, first, p
<1> QED BY <1>1, PortfolioInvInit, PortfolioInvStep, PTL DEF PortfolioSpec

-----------------------------------------------------------------------------
(* The discovery of pairs: what is traded are the best of the last cycle *)

\* The universe of a list: instruments with a symbol, each symbol once.
IsUniverse(universe, N) ==
  /\ universe \in [1 .. N -> Meta]
  /\ \A n \in 1 .. N : universe[n].symbol \in Symbol
  /\ \A m, n \in 1 .. N : universe[m].symbol = universe[n].symbol => m = n

\* update_from_exchange leaves a universe, whatever list it reads.
LEMMA UniverseIsOne ==
  ASSUME NEW raw \in Market
  PROVE  \E N \in Nat : IsUniverse(update_from_exchange(raw), N)
<1> DEFINE S == FirstListed(raw)
           firsts == InOrder(S, Ascending(S))
           universe == update_from_exchange(raw)
<1>1. raw \in Seq(Meta)
  BY DiscoverAssumption
<1>2. PICK k \in Nat : k = Len(raw) /\ DOMAIN raw = 1 .. k
  BY <1>1
<1>3. /\ S \in SUBSET (1 .. k) /\ S \in SUBSET Nat
      /\ \A i \in S : i \in Listed(raw)
  BY <1>2 DEF FirstListed, Listed
<1>4. \A i \in Listed(raw) : i \in 1 .. k /\ raw[i] \in Meta /\ raw[i].symbol # Missing
  BY <1>1, <1>2 DEF Listed
<1>5. IsFiniteSet(S)
  <2>1. IsFiniteSet(1 .. k)
    BY FS_Interval
  <2> HIDE DEF S
  <2> QED BY <1>3, <2>1, FS_Subset
<1>6. PICK N \in Nat :
        /\ N = Cardinality(S) /\ DOMAIN firsts = 1 .. N
        /\ \A n \in 1 .. N : firsts[n] \in S
        /\ \A m, n \in 1 .. N : m < n => firsts[m] < firsts[n]
  <2> HIDE DEF S
  <2> QED BY <1>3, <1>5, AscendingSorts, Zenon
<1>7. ASSUME NEW i \in S
      PROVE  /\ LastListed(raw, i) \in Listed(raw)
             /\ raw[LastListed(raw, i)].symbol = raw[i].symbol
  <2> DEFINE T == Others(raw, i)
  <2>1. i \in T /\ T \in SUBSET (1 .. k)
    BY <1>3, <1>4 DEF Others
  <2>2. \E m \in T : \A n \in T : n <= m
    <3> HIDE DEF T
    <3> QED BY <2>1, GreatestElement
  <2>3. LastListed(raw, i) \in T
    BY <2>2, Zenon DEF LastListed
  <2> QED BY <2>3 DEF Others
<1>8. /\ DOMAIN universe = 1 .. N
      /\ \A n \in 1 .. N : universe[n] = raw[LastListed(raw, firsts[n])]
      /\ universe = [n \in 1 .. N |-> universe[n]]
  BY <1>6 DEF update_from_exchange
<1>9. ASSUME NEW i \in S, NEW j \in S, raw[i].symbol = raw[j].symbol PROVE i = j
  <2>1. i \in Others(raw, j) /\ j \in Others(raw, i)
    BY <1>3, <1>9 DEF Others
  <2>2. i <= j /\ j <= i
    BY <2>1 DEF FirstListed
  <2>3. i \in Nat /\ j \in Nat
    BY <1>3
  <2> QED BY <2>2, <2>3
<1> HIDE DEF universe, firsts, S
<1>10. ASSUME NEW n \in 1 .. N
       PROVE  /\ universe[n] \in Meta /\ universe[n].symbol \in Symbol
              /\ universe[n].symbol = raw[firsts[n]].symbol
  <2>1. firsts[n] \in S
    BY <1>6
  <2>2. PICK l \in Listed(raw) : universe[n] = raw[l] /\ raw[l].symbol = raw[firsts[n]].symbol
    BY <1>7, <1>8, <2>1
  <2>3. raw[l] \in Meta /\ raw[l].symbol # Missing
    BY <1>4, <2>2
  <2>4. raw[l].symbol \in Symbol
    BY <2>3 DEF Meta
  <2> QED BY <2>2, <2>3, <2>4
<1>11. ASSUME NEW m \in 1 .. N, NEW n \in 1 .. N, universe[m].symbol = universe[n].symbol
       PROVE  m = n
  <2>1. firsts[m] \in S /\ firsts[n] \in S /\ raw[firsts[m]].symbol = raw[firsts[n]].symbol
    BY <1>6, <1>10, <1>11
  <2>2. firsts[m] = firsts[n] /\ firsts[m] \in Nat
    BY <1>3, <1>9, <2>1
  <2>3. ~ (m < n) /\ ~ (n < m)
    BY <1>6, <2>2
  <2> QED BY <2>3
<1>12. universe \in [1 .. N -> Meta]
  BY <1>8, <1>10
<1> QED BY <1>10, <1>11, <1>12 DEF IsUniverse, universe

\* The scores of a cycle over a universe.
ScoresOver(N) == SUBSET ((1 .. N) \X (1 .. N) \X Int)

\* The pairs with a score, as a cycle reports them.
Reported(universe, scores) == {Scoring(universe, p) : p \in Scored(scores)}

\* The sort puts the pairs with a score in the order of Before.
LEMMA SortingSorts ==
  ASSUME NEW N \in Nat, NEW S \in ScoresOver(N), IsFiniteSet(S)
  PROVE  /\ Cardinality(S) \in Nat
         /\ DOMAIN InOrder(S, Sorting(S)) = 1 .. Cardinality(S)
         /\ \A n \in 1 .. Cardinality(S) : InOrder(S, Sorting(S))[n] \in S
         /\ \A m, n \in 1 .. Cardinality(S) :
              m < n => Before(InOrder(S, Sorting(S))[m], InOrder(S, Sorting(S))[n])
         /\ \A p \in S : \E n \in 1 .. Cardinality(S) : InOrder(S, Sorting(S))[n] = p
<1> DEFINE R == Sorting(S)
<1>1. \A p, q \in S : (<<p, q>> \in R) <=> Before(p, q)
  BY DEF Sorting
<1>2. \A p \in S : /\ p[1] \in Int /\ p[2] \in Int /\ p[3] \in Int
                   /\ p = <<p[1], p[2], p[3]>>
  BY DEF ScoresOver
<1> HIDE DEF R
<1>3. \A p \in S : <<p, p>> \notin R
  BY <1>1, <1>2 DEF Before, Earlier
<1>4. ASSUME NEW p \in S, NEW q \in S, NEW r \in S, <<p, q>> \in R, <<q, r>> \in R
      PROVE  <<p, r>> \in R
  <2>1. Before(p, q) /\ Before(q, r)
    BY <1>1, <1>4
  <2>2. Before(p, r)
    BY <1>2, <2>1 DEF Before, Earlier
  <2> QED BY <1>1, <2>2
<1>5. ASSUME NEW p \in S, NEW q \in S, p # q PROVE <<p, q>> \in R \/ <<q, p>> \in R
  <2>1. p[1] # q[1] \/ p[2] # q[2] \/ p[3] # q[3]
    BY <1>2, <1>5
  <2>2. Before(p, q) \/ Before(q, p)
    BY <1>2, <2>1 DEF Before, Earlier
  <2> QED BY <1>1, <2>2
<1>6. /\ \A x, y, z \in S : <<x, y>> \in R /\ <<y, z>> \in R => <<x, z>> \in R
      /\ \A x, y \in S : x # y => <<x, y>> \in R \/ <<y, x>> \in R
  BY <1>4, <1>5
<1>7. /\ Cardinality(S) \in Nat
      /\ DOMAIN InOrder(S, R) = 1 .. Cardinality(S)
      /\ \A n \in 1 .. Cardinality(S) : InOrder(S, R)[n] \in S
      /\ \A m, n \in 1 .. Cardinality(S) : m < n => <<InOrder(S, R)[m], InOrder(S, R)[n]>> \in R
      /\ \A p \in S : \E n \in 1 .. Cardinality(S) : InOrder(S, R)[n] = p
  <2>1. \A x \in S : <<x, x>> \notin R
    BY <1>3
  <2>2. IsFiniteSet(S)
    OBVIOUS
  <2>3. /\ Cardinality(S) \in Nat
        /\ DOMAIN InOrder(S, R) = 1 .. Cardinality(S)
        /\ \A n \in 1 .. Cardinality(S) : InOrder(S, R)[n] \in S
        /\ \A m, n \in 1 .. Cardinality(S) : m < n => <<InOrder(S, R)[m], InOrder(S, R)[n]>> \in R
    BY <1>6, <2>1, <2>2, InOrderSorts, Zenon
  <2>4. \A x \in S : \E n \in 1 .. Cardinality(S) : InOrder(S, R)[n] = x
    <3> SUFFICES ASSUME NEW x \in S PROVE \E n \in 1 .. Cardinality(S) : InOrder(S, R)[n] = x
      OBVIOUS
    <3> QED BY <1>6, <2>1, <2>2, InOrderSorts
  <2> QED BY <2>3, <2>4
<1> QED BY <1>1, <1>7 DEF R

\* What a cycle keeps are the best of the pairs with a score.
LEMMA BestIsBest ==
  ASSUME NEW N \in Nat, NEW universe, IsUniverse(universe, N),
         NEW scores \in ScoresOver(N), IsFiniteSet(scores), NEW k \in Nat
  PROVE  BestOf(Reported(universe, scores), k, Best(universe, scores, k))
<1> DEFINE S == Scored(scores)
           order == InOrder(S, Sorting(S))
           C == Cardinality(S)
           K == Least(k, C)
           pairs == Best(universe, scores, k)
           chosen == {Scoring(universe, p) : p \in S}
<1>1. S \in ScoresOver(N) /\ IsFiniteSet(S)
  <2>1. S \in SUBSET scores
    BY DEF Scored
  <2>2. IsFiniteSet(S)
    <3> HIDE DEF S
    <3> QED BY <2>1, FS_Subset
  <2> QED BY <2>1, <2>2 DEF ScoresOver
<1>2. \A p \in S : /\ p[1] \in 1 .. N /\ p[2] \in 1 .. N /\ p[3] \in Int
                   /\ p = <<p[1], p[2], p[3]>>
  BY <1>1 DEF ScoresOver
<1> HIDE DEF S
<1>3. /\ C \in Nat /\ DOMAIN order = 1 .. C
      /\ \A n \in 1 .. C : order[n] \in S
      /\ \A m, n \in 1 .. C : m < n => Before(order[m], order[n])
      /\ \A p \in S : \E n \in 1 .. C : order[n] = p
  BY <1>1, SortingSorts, Zenon
<1>4. pairs = [n \in 1 .. K |-> Scoring(universe, order[n])]
  BY Zenon DEF Best, S
<1> HIDE DEF order, C
<1>5. K \in 0 .. C /\ K \in Nat
  BY <1>3 DEF Least
<1> HIDE DEF K, pairs
<1>6. /\ Len(pairs) = K /\ DOMAIN pairs = 1 .. K
      /\ \A n \in 1 .. K : pairs[n] = Scoring(universe, order[n]) /\ order[n] \in S /\ n \in 1 .. C
  <2>1. DOMAIN pairs = 1 .. K /\ \A n \in 1 .. K : pairs[n] = Scoring(universe, order[n])
    BY <1>4
  <2>2. Len(pairs) = K
    <3>1. pairs \in [1 .. K -> {pairs[n] : n \in 1 .. K}]
      BY <1>4
    <3>2. pairs \in Seq({pairs[n] : n \in 1 .. K})
      BY <1>5, <3>1
    <3> QED BY <1>5, <2>1, <3>2
  <2> QED BY <1>3, <1>5, <2>1, <2>2
<1>7. ASSUME NEW p \in S, NEW q \in S, Scoring(universe, p) = Scoring(universe, q) PROVE p = q
  <2>1. /\ universe[p[1]].symbol = universe[q[1]].symbol
        /\ universe[p[2]].symbol = universe[q[2]].symbol
        /\ p[3] = q[3]
    BY <1>7 DEF Scoring
  <2>2. p[1] = q[1] /\ p[2] = q[2]
    BY <1>2, <2>1 DEF IsUniverse
  <2> QED BY <1>2, <2>1, <2>2
<1>8. \A p \in S : Scoring(universe, p).score = p[3] /\ p[3] \in Int
  BY <1>2 DEF Scoring
<1>9. ASSUME NEW m \in 1 .. C, NEW n \in 1 .. C, m < n
      PROVE  order[m][3] >= order[n][3]
  <2>1. order[m] \in S /\ order[n] \in S /\ Before(order[m], order[n])
    BY <1>3, <1>9
  <2>2. order[m][3] \in Int /\ order[n][3] \in Int
    BY <1>2, <2>1
  <2>3. order[m][3] > order[n][3] \/ order[m][3] = order[n][3]
    BY <2>1 DEF Before
  <2> QED BY <2>2, <2>3
<1>10. \A m, n \in 1 .. C : order[m] = order[n] => m = n
  <2> SUFFICES ASSUME NEW m \in 1 .. C, NEW n \in 1 .. C, order[m] = order[n], m < n PROVE FALSE
    BY <1>3
  <2>1. Before(order[m], order[m]) /\ order[m] \in S
    BY <1>3
  <2> QED BY <1>2, <2>1 DEF Before, Earlier
<1>11. Cardinality(chosen) = C
  <2> DEFINE f == [p \in S |-> Scoring(universe, p)]
  <2>1. f \in Bijection(S, chosen)
    BY <1>7 DEF Bijection, Injection, Surjection, IsInjective
  <2>2. ExistsBijection(S, chosen)
    <3> HIDE DEF f, chosen
    <3> QED BY <2>1 DEF ExistsBijection
  <2> HIDE DEF chosen
  <2> QED BY <1>1, <2>2, FS_Bijection DEF C
<1> DEFINE kept == {pairs[i] : i \in DOMAIN pairs}
<1>12. Cardinality(kept) = K
  <2>1. \A m, n \in 1 .. K : pairs[m] = pairs[n] => m = n
    BY <1>6, <1>7, <1>10
  <2> DEFINE f == [n \in 1 .. K |-> pairs[n]]
  <2>2. f \in Bijection(1 .. K, kept)
    BY <1>6, <2>1 DEF Bijection, Injection, Surjection, IsInjective
  <2>3. ExistsBijection(1 .. K, kept)
    <3> HIDE DEF f, kept
    <3> QED BY <2>2 DEF ExistsBijection
  <2> HIDE DEF kept
  <2> QED BY <1>5, <2>3, FS_CountingElements
<1>13. kept \subseteq chosen
  BY <1>6
<1>14. ASSUME NEW i \in DOMAIN pairs, NEW j \in DOMAIN pairs, i < j
       PROVE  pairs[i].score >= pairs[j].score
  <2>1. /\ i \in 1 .. C /\ j \in 1 .. C /\ order[i] \in S /\ order[j] \in S
        /\ pairs[i] = Scoring(universe, order[i]) /\ pairs[j] = Scoring(universe, order[j])
    BY <1>6
  <2>2. pairs[i].score = order[i][3] /\ pairs[j].score = order[j][3]
    BY <1>8, <2>1
  <2> QED BY <1>9, <1>14, <2>1, <2>2
<1>15. ASSUME NEW left \in chosen \ kept, NEW i \in DOMAIN pairs
       PROVE  left.score <= pairs[i].score
  <2>1. PICK p \in S : left = Scoring(universe, p)
    OBVIOUS
  <2>2. PICK n \in 1 .. C : order[n] = p
    BY <1>3
  <2>3. n \notin 1 .. K
    <3>1. ASSUME n \in 1 .. K PROVE FALSE
      <4>1. pairs[n] = left /\ n \in DOMAIN pairs
        BY <1>6, <2>1, <2>2, <3>1
      <4> QED BY <4>1
    <3> QED BY <3>1
  <2>4. i \in 1 .. K /\ i \in 1 .. C /\ pairs[i] = Scoring(universe, order[i]) /\ order[i] \in S
    BY <1>6
  <2>5. i < n
    BY <1>5, <2>2, <2>3, <2>4
  <2>6. order[i][3] >= order[n][3]
    BY <1>9, <2>4, <2>5
  <2>7. pairs[i].score = order[i][3] /\ left.score = order[n][3] /\ order[i][3] \in Int /\ order[n][3] \in Int
    BY <1>8, <2>1, <2>2, <2>4
  <2> QED BY <2>6, <2>7
<1> HIDE DEF chosen
<1>16. Len(pairs) = Least(k, Cardinality(chosen)) /\ Cardinality(kept) = Len(pairs)
  BY <1>6, <1>11, <1>12 DEF K
<1>17. BestOf(chosen, k, pairs)
  BY <1>13, <1>14, <1>15, <1>16, Zenon DEF BestOf
<1> QED BY <1>17 DEF Reported, chosen, S, pairs

\* A score is a number.
LEMMA ScorePairIsInt ==
  ASSUME NEW stats, NEW limits,
         stats.corr \in Int, stats.r2 \in Int, stats.instability \in Int, stats.penalty \in Int
  PROVE  score_pair(stats, limits) \in Int
<1> DEFINE sum == 40 * stats.corr + 35 * stats.r2 - 15 * stats.instability - 10 * stats.penalty
<1>1. sum \in Int
  OBVIOUS
<1>2. Positive(sum) \in Int
  <2> HIDE DEF sum
  <2> QED BY <1>1 DEF Positive
<1>3. score_pair(stats, limits) = 0 \/ score_pair(stats, limits) = Positive(sum)
  BY Zenon DEF score_pair, sum
<1> HIDE DEF sum
<1> QED BY <1>2, <1>3

\* So is that of precomputed statistics, ...
LEMMA MajorScoreIsInt ==
  ASSUME NEW matrix \in Matrix, NEW b, NEW a, b.symbol \in Symbol, a.symbol \in Symbol
  PROVE  MajorScore(matrix, b, a) \in Int
<1>1. matrix[b.symbol][a.symbol] \in Stats \cup {Missing}
  BY DEF Matrix
<1>2. CASE matrix[b.symbol][a.symbol] = Missing
  BY <1>2 DEF MajorScore
<1>3. CASE matrix[b.symbol][a.symbol] # Missing
  <2>1. PICK stats \in Stats : stats = matrix[b.symbol][a.symbol]
    BY <1>1, <1>3
  <2>2. stats.corr \in Int /\ stats.r2 \in Int /\ stats.instability \in Int /\ stats.penalty \in Int
    BY DEF Stats
  <2>3. score_pair(stats, MajorLimits) \in Int
    BY <2>2, ScorePairIsInt
  <2>4. MajorScore(matrix, b, a) = score_pair(stats, MajorLimits)
    BY <1>3, <2>1, Zenon DEF MajorScore
  <2> QED BY <2>3, <2>4
<1> QED BY <1>2, <1>3

\* ... a penalty, ...
LEMMA PenaltyIsInt ==
  ASSUME NEW ratio \in Int, NEW cfg \in Config
  PROVE  liquidity_penalty_by_ratio(ratio, cfg) \in Int
<1>1. cfg.target \in Int /\ cfg.minRatio \in Int /\ cfg.maxRatio \in Int
  BY DiscoverAssumption
<1> DEFINE span == IF ratio <= cfg.target THEN cfg.target - cfg.minRatio ELSE cfg.maxRatio - cfg.target
           part == Least(100, (100 * Abs(ratio - cfg.target)) \div span)
<1>2. span \in Int
  BY <1>1
<1>3. \/ liquidity_penalty_by_ratio(ratio, cfg) = 100
      \/ liquidity_penalty_by_ratio(ratio, cfg) = 0
      \/ ~ (span <= 0) /\ liquidity_penalty_by_ratio(ratio, cfg) = part
  BY Zenon DEF liquidity_penalty_by_ratio
<1>4. 100 * Abs(ratio - cfg.target) \in Int
  <2>1. Abs(ratio - cfg.target) \in Int
    BY <1>1 DEF Abs
  <2> QED BY <2>1
<1>5. ASSUME ~ (span <= 0) PROVE part \in Int
  <2> HIDE DEF span
  <2> DEFINE x == 100 * Abs(ratio - cfg.target)
  <2>1. x \in Int /\ span \in Int /\ span > 0
    BY <1>2, <1>4, <1>5
  <2> HIDE DEF x
  <2>2. x \div span \in Int
    BY <2>1
  <2> QED BY <2>2 DEF Least, x
<1> HIDE DEF span, part
<1> QED BY <1>3, <1>5

\* ... a total ...
LEMMA TotalIsInt ==
  ASSUME NEW k \in Nat, NEW w \in [1 .. k -> Int]
  PROVE  Total(w) \in Int
<1>1. Len(w) = k /\ k \in 0 .. k
  BY PartialSumsOf
<1>2. PartialSums(w)[k] \in Int
  BY <1>1, PartialSumsOf
<1> QED BY <1>1, <1>2 DEF Total

\* ... and an average.
LEMMA AverageIsInt ==
  ASSUME NEW history \in History, NEW b \in Symbol, NEW a \in Symbol, NEW cfg \in Config,
         NEW metric \in {"corr", "r2", "instability", "half_life"}
  PROVE  wavg(history, b, a, cfg, metric) \in Int
<1>1. /\ cfg.timeframes \in Seq(Timeframe) /\ cfg.weights \in [Timeframe -> Nat]
      /\ history \in [Timeframe -> Matrix]
  BY DiscoverAssumption
<1>2. PICK k \in Nat : DOMAIN cfg.timeframes = 1 .. k /\ \A i \in 1 .. k : cfg.timeframes[i] \in Timeframe
  <2>1. PICK tfs \in Seq(Timeframe) : tfs = cfg.timeframes
    BY <1>1
  <2>2. PICK k \in Nat : k = Len(tfs) /\ DOMAIN tfs = 1 .. k
    OBVIOUS
  <2>3. \A i \in 1 .. k : tfs[i] \in Timeframe
    BY <2>2
  <2> QED BY <2>1, <2>2, <2>3
<1> DEFINE known == Known(history, b, a, cfg)
           weight(i) == cfg.weights[cfg.timeframes[i]]
           uses == [i \in DOMAIN cfg.timeframes |-> IF i \in known THEN weight(i) ELSE 0]
           parts == [i \in DOMAIN cfg.timeframes |->
                       IF i \in known THEN weight(i) * history[cfg.timeframes[i]][b][a][metric] ELSE 0]
<1>3. \A i \in 1 .. k : weight(i) \in Int
  BY <1>1, <1>2
<1>4. ASSUME NEW i \in 1 .. k, i \in known
      PROVE  weight(i) * history[cfg.timeframes[i]][b][a][metric] \in Int
  <2>1. history[cfg.timeframes[i]] \in Matrix
    BY <1>1, <1>2
  <2>2. history[cfg.timeframes[i]][b][a] \in Stats \cup {Missing}
    BY <2>1 DEF Matrix
  <2>3. history[cfg.timeframes[i]][b][a] # Missing
    BY <1>4 DEF Known
  <2>4. PICK stats \in Stats : stats = history[cfg.timeframes[i]][b][a]
    BY <2>2, <2>3
  <2>5. stats[metric] \in Int
    BY DEF Stats
  <2>6. weight(i) \in Int
    BY <1>3
  <2> HIDE DEF weight
  <2> QED BY <2>4, <2>5, <2>6
<1> HIDE DEF known
<1>5. uses \in [1 .. k -> Int]
  BY <1>2, <1>3
<1>6. parts \in [1 .. k -> Int]
  <2> HIDE DEF weight
  <2> QED BY <1>2, <1>4
<1>7. wavg(history, b, a, cfg, metric)
        = IF Total(uses) > 0 THEN Total(parts) \div Total(uses) ELSE 0
  BY Zenon DEF wavg, known
<1> HIDE DEF uses, parts
<1>8. Total(uses) \in Int /\ Total(parts) \in Int
  BY <1>5, <1>6, TotalIsInt
<1>9. CASE Total(uses) > 0
  <2>1. Total(parts) \div Total(uses) \in Int
    BY <1>8, <1>9
  <2> QED BY <1>7, <1>9, <2>1
<1>10. CASE ~ (Total(uses) > 0)
  BY <1>7, <1>10
<1> QED BY <1>9, <1>10

\* A pair with a score has a ratio in range.
LEMMA PairScoreIsInt ==
  ASSUME NEW history \in History, NEW b \in Meta, NEW a \in Meta, NEW cfg \in Config,
         b.symbol \in Symbol, a.symbol \in Symbol
  PROVE  /\ PairScore(history, b, a, cfg) \in Int
         /\ PairScore(history, b, a, cfg) > 0 =>
              a.volume > 0 /\ (100 * b.volume) \div a.volume <= cfg.maxRatio
<1> DEFINE ratio == (100 * b.volume) \div a.volume
           average(metric) == wavg(history, b.symbol, a.symbol, cfg, metric)
           stats == [corr |-> average("corr"), r2 |-> average("r2"),
                     instability |-> average("instability"), half_life |-> average("half_life"),
                     penalty |-> liquidity_penalty_by_ratio(ratio, cfg)]
           full == score_pair(stats, cfg)
<1>1. a.volume \in Int /\ b.volume \in Int /\ cfg.minRatio \in Int /\ cfg.maxRatio \in Int
  BY DiscoverAssumption DEF Meta
<1>2. \/ PairScore(history, b, a, cfg) = 0
      \/ /\ ~ (a.volume <= 0) /\ ratio \in cfg.minRatio .. cfg.maxRatio
         /\ PairScore(history, b, a, cfg) = full
  BY Zenon DEF PairScore
<1>3. ASSUME ~ (a.volume <= 0) PROVE ratio \in Int
  <2>1. 100 * b.volume \in Int /\ a.volume > 0
    BY <1>1, <1>3
  <2> QED BY <1>1, <2>1
<1>4. /\ average("corr") \in Int /\ average("r2") \in Int /\ average("instability") \in Int
  BY AverageIsInt
<1> HIDE DEF average, ratio
<1>5. ASSUME ~ (a.volume <= 0) PROVE full \in Int
  <2>1. liquidity_penalty_by_ratio(ratio, cfg) \in Int
    BY <1>3, <1>5, PenaltyIsInt
  <2>2. /\ stats.corr \in Int /\ stats.r2 \in Int /\ stats.instability \in Int
        /\ stats.penalty \in Int
    BY <1>4, <2>1
  <2> HIDE DEF stats
  <2> QED BY <2>2, ScorePairIsInt
<1> HIDE DEF full
<1>6. CASE PairScore(history, b, a, cfg) = 0
  BY <1>6
<1>7. CASE /\ ~ (a.volume <= 0) /\ ratio \in cfg.minRatio .. cfg.maxRatio
           /\ PairScore(history, b, a, cfg) = full
  <2>1. full \in Int /\ a.volume > 0 /\ ratio <= cfg.maxRatio
    BY <1>1, <1>3, <1>5, <1>7
  <2> QED BY <1>7, <2>1 DEF ratio
<1> QED BY <1>2, <1>6, <1>7

\* Twice the same volume is a ratio of 100 percent.
LEMMA SameVolume ==
  ASSUME NEW v \in Int, v > 0
  PROVE  (100 * v) \div v = 100
OBVIOUS

\* The loops of the cycle c, over the places As and Bs of a universe, meet the
\* pairs that c wants, and score them with numbers.
Meets(c, universe, N, As, Bs) ==
  /\ IsUniverse(universe, N) /\ As \in SUBSET (1 .. N) /\ Bs \in SUBSET (1 .. N)
  /\ c.universe = {universe[i] : i \in DOMAIN universe}
  /\ \A i, j \in 1 .. N : (i \in As /\ j \in Bs) <=> Wanted(c, universe[j], universe[i])
  /\ \A i, j \in 1 .. N : ScoreOf(c, universe[j], universe[i]) \in Int

\* What they score.
Met(c, universe, As, Bs) ==
  {<<p[1], p[2], ScoreOf(c, universe[p[2]], universe[p[1]])>> : p \in As \X Bs}

\* What a cycle may choose is what its loops scored.
LEMMA ChosenIsScored ==
  ASSUME NEW N \in Nat, NEW universe, NEW c, NEW As, NEW Bs, Meets(c, universe, N, As, Bs)
  PROVE  /\ Met(c, universe, As, Bs) \in ScoresOver(N)
         /\ IsFiniteSet(Met(c, universe, As, Bs))
         /\ Chosen(c) = Reported(universe, Met(c, universe, As, Bs))
<1> DEFINE scores == Met(c, universe, As, Bs)
<1>1. IsUniverse(universe, N) /\ As \in SUBSET (1 .. N) /\ Bs \in SUBSET (1 .. N)
  BY DEF Meets
<1>2. c.universe = {universe[i] : i \in DOMAIN universe}
  BY DEF Meets
<1>3. \A i, j \in 1 .. N : (i \in As /\ j \in Bs) <=> Wanted(c, universe[j], universe[i])
  BY DEF Meets
<1>4. \A i, j \in 1 .. N : ScoreOf(c, universe[j], universe[i]) \in Int
  BY DEF Meets
<1> DEFINE triple(p) == <<p[1], p[2], ScoreOf(c, universe[p[2]], universe[p[1]])>>
           Score(i, j) == ScoreOf(c, universe[j], universe[i])
<1>5. DOMAIN universe = 1 .. N
  BY <1>1 DEF IsUniverse
<1>6. \A t : t \in scores <=> \E i \in As, j \in Bs : t = <<i, j, Score(i, j)>>
  <2>1. \A t : t \in scores <=> \E p \in As \X Bs : t = triple(p)
    BY Zenon DEF Met
  <2>2. \A p \in As \X Bs : p[1] \in As /\ p[2] \in Bs
    OBVIOUS
  <2>3. \A i \in As, j \in Bs : <<i, j>> \in As \X Bs /\ <<i, j>>[1] = i /\ <<i, j>>[2] = j
    OBVIOUS
  <2>4. ASSUME NEW t \in scores PROVE \E i \in As, j \in Bs : t = <<i, j, Score(i, j)>>
    <3>1. PICK p \in As \X Bs : t = triple(p)
      BY <2>1, Zenon
    <3>2. t = <<p[1], p[2], Score(p[1], p[2])>>
      BY <3>1, Zenon
    <3> QED BY <2>2, <3>2, Zenon
  <2>5. ASSUME NEW i \in As, NEW j \in Bs PROVE <<i, j, Score(i, j)>> \in scores
    <3>1. triple(<<i, j>>) = <<i, j, Score(i, j)>>
      <4>1. <<i, j>>[1] = i /\ <<i, j>>[2] = j
        OBVIOUS
      <4> QED BY <4>1, Zenon
    <3> HIDE DEF triple
    <3> QED BY <2>1, <2>3, <3>1, Zenon
  <2> HIDE DEF Score
  <2> QED BY <2>4, <2>5, Zenon
<1>7. \A i \in As, j \in Bs : i \in 1 .. N /\ j \in 1 .. N /\ Score(i, j) \in Int
  BY <1>1, <1>4
<1>8. scores \in ScoresOver(N)
  <2> HIDE DEF Score
  <2>1. \A t \in scores : t \in (1 .. N) \X (1 .. N) \X Int
    BY <1>6, <1>7
  <2> QED BY <2>1 DEF ScoresOver
<1>9. IsFiniteSet(scores)
  <2>1. IsFiniteSet(1 .. N)
    BY FS_Interval
  <2>2. IsFiniteSet(As) /\ IsFiniteSet(Bs)
    BY <1>1, <2>1, FS_Subset
  <2>3. IsFiniteSet(As \X Bs)
    BY <2>2, FS_Product
  <2> DEFINE f == [p \in As \X Bs |-> triple(p)]
  <2>4. f \in Surjection(As \X Bs, scores)
    <3>1. f \in [As \X Bs -> scores]
      BY DEF Met
    <3>2. \A t \in scores : \E p \in As \X Bs : f[p] = t
      BY DEF Met
    <3> HIDE DEF f
    <3> QED BY <3>1, <3>2 DEF Surjection
  <2> HIDE DEF f
  <2> QED BY <2>3, <2>4, FS_Surjection
<1> DEFINE Pick(i, j) == [a |-> universe[i].symbol, b |-> universe[j].symbol, score |-> Score(i, j)]
<1>10. \A x : x \in Chosen(c) <=>
        \E i, j \in 1 .. N : Wanted(c, universe[j], universe[i]) /\ Score(i, j) > 0 /\ x = Pick(i, j)
  <2> DEFINE W(q) == Wanted(c, q[2], q[1]) /\ ScoreOf(c, q[2], q[1]) > 0
             M(p) == [a |-> p[1].symbol, b |-> p[2].symbol, score |-> ScoreOf(c, p[2], p[1])]
             U == c.universe
  <2>1. \A x : x \in Chosen(c) <=> \E p \in U \X U : W(p) /\ x = M(p)
    BY DEF Chosen
  <2>2. \A p \in U \X U : \E i, j \in 1 .. N : p = <<universe[i], universe[j]>>
    BY <1>5, <1>2
  <2>3. \A i, j \in 1 .. N :
          /\ <<universe[i], universe[j]>> \in U \X U
          /\ W(<<universe[i], universe[j]>>) <=> (Wanted(c, universe[j], universe[i]) /\ Score(i, j) > 0)
          /\ M(<<universe[i], universe[j]>>) = Pick(i, j)
    BY <1>5, <1>2
  <2> HIDE DEF W, M, U, Score, Pick
  <2>4. ASSUME NEW x, x \in Chosen(c)
        PROVE  \E i, j \in 1 .. N : Wanted(c, universe[j], universe[i]) /\ Score(i, j) > 0 /\ x = Pick(i, j)
    <3>1. PICK p \in U \X U : W(p) /\ x = M(p)
      BY <2>1, <2>4, Zenon
    <3>2. PICK i \in 1 .. N, j \in 1 .. N : p = <<universe[i], universe[j]>>
      BY <2>2, Zenon
    <3>3. /\ W(p) <=> (Wanted(c, universe[j], universe[i]) /\ Score(i, j) > 0)
          /\ M(p) = Pick(i, j)
      BY <2>3, <3>2, Zenon
    <3> QED BY <3>1, <3>3, Zenon
  <2>5. ASSUME NEW x, NEW i \in 1 .. N, NEW j \in 1 .. N,
               Wanted(c, universe[j], universe[i]), Score(i, j) > 0, x = Pick(i, j)
        PROVE  x \in Chosen(c)
    <3>1. PICK p \in U \X U : p = <<universe[i], universe[j]>>
      BY <2>3, Zenon
    <3>2. W(p) /\ M(p) = Pick(i, j)
      BY <2>3, <2>5, <3>1, Zenon
    <3> QED BY <2>1, <2>5, <3>2, Zenon
  <2> QED BY <2>4, <2>5, Zenon
<1>11. \A x : x \in {Scoring(universe, p) : p \in Scored(scores)} <=>
        \E i \in As, j \in Bs : Score(i, j) > 0 /\ x = Pick(i, j)
  <2>1. \A x : x \in {Scoring(universe, p) : p \in Scored(scores)} <=>
          \E t \in scores : t[3] > 0 /\ x = Scoring(universe, t)
    BY DEF Scored
  <2>2. \A i \in As, j \in Bs :
          /\ <<i, j, Score(i, j)>>[3] = Score(i, j)
          /\ Scoring(universe, <<i, j, Score(i, j)>>) = Pick(i, j)
    BY DEF Scoring
  <2> HIDE DEF Score, Pick
  <2>3. ASSUME NEW x, NEW t \in scores, t[3] > 0, x = Scoring(universe, t)
        PROVE  \E i \in As, j \in Bs : Score(i, j) > 0 /\ x = Pick(i, j)
    <3>1. PICK i \in As, j \in Bs : t = <<i, j, Score(i, j)>>
      BY <1>6, Zenon
    <3>2. t[3] = Score(i, j) /\ Scoring(universe, t) = Pick(i, j)
      BY <2>2, <3>1, Zenon
    <3>3. Score(i, j) > 0
      BY <2>3, <3>2, Zenon
    <3> QED BY <2>3, <3>2, <3>3, Zenon
  <2>4. ASSUME NEW x, NEW i \in As, NEW j \in Bs, Score(i, j) > 0, x = Pick(i, j)
        PROVE  \E t \in scores : t[3] > 0 /\ x = Scoring(universe, t)
    <3>1. PICK t \in scores : t = <<i, j, Score(i, j)>>
      BY <1>6, Zenon
    <3>2. t[3] = Score(i, j) /\ Scoring(universe, t) = Pick(i, j)
      BY <2>2, <3>1, Zenon
    <3>3. t[3] > 0
      BY <2>4, <3>2, Zenon
    <3> QED BY <2>4, <3>2, <3>3, Zenon
  <2> QED BY <2>1, <2>3, <2>4, Zenon
<1>12. \A x : x \in Chosen(c) <=> x \in {Scoring(universe, p) : p \in Scored(scores)}
  <2> HIDE DEF Score, Pick
  <2> QED BY <1>7, <1>10, <1>11, <1>3
<1>13. Chosen(c) = {Scoring(universe, p) : p \in Scored(scores)}
  <2> DEFINE S == {Scoring(universe, p) : p \in Scored(scores)}
             T == Chosen(c)
  <2>1. \A x : x \in T <=> x \in S
    BY <1>12
  <2> HIDE DEF S, T
  <2>2. T = S
    BY <2>1
  <2> QED BY <2>2 DEF S, T
<1> QED BY <1>8, <1>9, <1>13 DEF Reported

\* The pairs a cycle c leaves.
Ranked(c, pairs) ==
  /\ BestOf(Chosen(c), Top(c), pairs)
  /\ \A i \in DOMAIN pairs :
       pairs[i].a # pairs[i].b
         \/ (c.kind = "auto" /\ c.cfg.anchors = {} /\ c.cfg.maxRatio >= 100)

\* A cycle whose loops run over the places it wants leaves the pairs ranked.
LEMMA CycleRanks ==
  ASSUME NEW N \in Nat, NEW universe, NEW c, NEW As, NEW Bs, Meets(c, universe, N, As, Bs),
         Top(c) \in Nat,
         \A a, b \in c.universe :
           Wanted(c, b, a) /\ ScoreOf(c, b, a) > 0 /\ a.symbol = b.symbol =>
             c.kind = "auto" /\ c.cfg.anchors = {} /\ c.cfg.maxRatio >= 100
  PROVE  Ranked(c, Best(universe, Met(c, universe, As, Bs), Top(c)))
<1> DEFINE scores == Met(c, universe, As, Bs)
           pairs == Best(universe, scores, Top(c))
<1>1. /\ scores \in ScoresOver(N) /\ IsFiniteSet(scores)
      /\ Chosen(c) = Reported(universe, scores)
  <2>1. Meets(c, universe, N, As, Bs)
    OBVIOUS
  <2>2. /\ Met(c, universe, As, Bs) \in ScoresOver(N)
        /\ IsFiniteSet(Met(c, universe, As, Bs))
        /\ Chosen(c) = Reported(universe, Met(c, universe, As, Bs))
    BY <2>1, ChosenIsScored
  <2> QED BY <2>2
<1>2. BestOf(Chosen(c), Top(c), pairs)
  <2>1. BestOf(Reported(universe, scores), Top(c), pairs)
    <3>1. IsUniverse(universe, N)
      BY DEF Meets
    <3> HIDE DEF scores
    <3> QED BY <1>1, <3>1, BestIsBest DEF pairs
  <2> QED BY <1>1, <2>1, Zenon
<1>3. ASSUME NEW i \in DOMAIN pairs
      PROVE  pairs[i].a # pairs[i].b
               \/ (c.kind = "auto" /\ c.cfg.anchors = {} /\ c.cfg.maxRatio >= 100)
  <2> HIDE DEF pairs
  <2>1. pairs[i] \in Chosen(c)
    BY <1>2, Zenon DEF BestOf
  <2>2. PICK p \in c.universe \X c.universe :
          /\ Wanted(c, p[2], p[1]) /\ ScoreOf(c, p[2], p[1]) > 0
          /\ pairs[i] = [a |-> p[1].symbol, b |-> p[2].symbol, score |-> ScoreOf(c, p[2], p[1])]
    BY <2>1 DEF Chosen
  <2>3. p[1] \in c.universe /\ p[2] \in c.universe
    BY <2>2
  <2>4. pairs[i].a = p[1].symbol /\ pairs[i].b = p[2].symbol
    BY <2>2
  <2> QED BY <2>2, <2>3, <2>4, Zenon
<1> QED BY <1>2, <1>3, Zenon DEF Ranked

\* run_discovery_cycle leaves the pairs ranked ...
LEMMA MajorRanks ==
  ASSUME NEW raw \in Market, NEW matrix \in Matrix, run_discovery_cycle(raw, matrix)
  PROVE  TopPairsRanked'
<1> DEFINE universe == update_from_exchange(raw)
           candidates == filter_by_min_volume(universe, MajorVolume)
           As == {i \in candidates : IsMajor(universe[i])}
           Bs == {i \in candidates : ~ IsMajor(universe[i])}
           scores == {<<p[1], p[2], MajorScore(matrix, universe[p[2]], universe[p[1]])>> : p \in As \X Bs}
           U == {universe[i] : i \in DOMAIN universe}
           c == [kind |-> "major", universe |-> U, matrix |-> matrix]
<1>1. PICK N \in Nat : IsUniverse(universe, N)
  BY UniverseIsOne
<1>2. top_pairs' = Best(universe, scores, MajorTop) /\ cycle' = c
  BY Zenon DEF run_discovery_cycle
<1> HIDE DEF universe
<1>3. c.kind = "major" /\ c.universe = U /\ c.matrix = matrix
  BY Zenon
<1>4. /\ DOMAIN universe = 1 .. N
      /\ \A i \in 1 .. N : universe[i] \in Meta /\ universe[i].symbol \in Symbol
  BY <1>1 DEF IsUniverse
<1>5. As \in SUBSET (1 .. N) /\ Bs \in SUBSET (1 .. N)
  BY <1>4 DEF filter_by_min_volume
<1> HIDE DEF c
<1>6. \A b, a : ScoreOf(c, b, a) = MajorScore(matrix, b, a)
  BY <1>3, Zenon DEF ScoreOf
<1>7. \A b, a : Wanted(c, b, a)
        <=> (IsMajor(a) /\ ~ IsMajor(b) /\ a.volume >= MajorVolume /\ b.volume >= MajorVolume)
  BY <1>3, Zenon DEF Wanted
<1>8. ASSUME NEW i \in 1 .. N, NEW j \in 1 .. N
      PROVE  (i \in As /\ j \in Bs) <=> Wanted(c, universe[j], universe[i])
  BY <1>4, <1>7 DEF filter_by_min_volume
<1>9. ASSUME NEW i \in 1 .. N, NEW j \in 1 .. N
      PROVE  ScoreOf(c, universe[j], universe[i]) \in Int
  BY <1>4, <1>6, MajorScoreIsInt
<1>10. scores = Met(c, universe, As, Bs)
  BY <1>6 DEF Met
<1>11. Top(c) = MajorTop /\ MajorTop \in Nat
  BY <1>3, DiscoverAssumption, Zenon DEF Top
<1>12. \A a, b \in c.universe : Wanted(c, b, a) => a.symbol # b.symbol
  BY <1>7 DEF IsMajor
<1> HIDE DEF As, Bs, scores, U
<1>13. Ranked(c, Best(universe, scores, Top(c)))
  <2>1. c.universe = {universe[i] : i \in DOMAIN universe}
    BY <1>3 DEF U
  <2>2. Top(c) \in Nat
    BY <1>11
  <2>3. \A a, b \in c.universe :
          Wanted(c, b, a) /\ ScoreOf(c, b, a) > 0 /\ a.symbol = b.symbol =>
            c.kind = "auto" /\ c.cfg.anchors = {} /\ c.cfg.maxRatio >= 100
    BY <1>12, Zenon
  <2>4. /\ \A i, j \in 1 .. N : (i \in As /\ j \in Bs) <=> Wanted(c, universe[j], universe[i])
        /\ \A i, j \in 1 .. N : ScoreOf(c, universe[j], universe[i]) \in Int
    BY <1>8, <1>9, Zenon
  <2>5. Meets(c, universe, N, As, Bs)
    BY <1>1, <1>5, <2>1, <2>4, Zenon DEF Meets
  <2> QED BY <1>10, <2>2, <2>3, <2>5, CycleRanks, Zenon
<1>14. Ranked(cycle', top_pairs')
  BY <1>2, <1>11, <1>13, Zenon
<1> QED BY <1>14 DEF TopPairsRanked, Ranked

\* ... and so does run_auto_discovery_multi_tf, where a symbol can only meet
\* itself at the ratio of a volume to itself.
LEMMA AutoRanks ==
  ASSUME NEW raw \in Market, NEW history \in History, NEW cfg \in Config,
         run_auto_discovery(raw, history, cfg)
  PROVE  TopPairsRanked'
<1> DEFINE universe == update_from_exchange(raw)
           As == filter_for_discovery(universe, cfg.minVolume, Missing, cfg.anchors, {})
           Bs == filter_for_discovery(universe, cfg.minVolume, cfg.maxVolume, {},
                                      cfg.excluded \cup cfg.anchors)
           scores == {<<p[1], p[2], PairScore(history, universe[p[2]], universe[p[1]], cfg)>> :
                        p \in As \X Bs}
           U == {universe[i] : i \in DOMAIN universe}
           c == [kind |-> "auto", universe |-> U, history |-> history, cfg |-> cfg]
           k == AtLeastOne(cfg.top_k)
<1>1. PICK N \in Nat : IsUniverse(universe, N)
  BY UniverseIsOne
<1>2. /\ top_pairs' = IF As = {} THEN <<>> ELSE Best(universe, scores, k)
      /\ cycle' = c
  BY Zenon DEF run_auto_discovery
<1> HIDE DEF universe
<1>3. c.kind = "auto" /\ c.universe = U /\ c.history = history /\ c.cfg = cfg
  BY Zenon
<1>4. /\ DOMAIN universe = 1 .. N
      /\ \A i \in 1 .. N : universe[i] \in Meta /\ universe[i].symbol \in Symbol
  BY <1>1 DEF IsUniverse
<1>5. As \in SUBSET (1 .. N) /\ Bs \in SUBSET (1 .. N)
  BY <1>4 DEF filter_for_discovery
<1>6. cfg.maxVolume \in Int /\ cfg.maxVolume # Missing /\ k \in Nat /\ cfg.maxRatio \in Int
  <2>1. cfg.maxVolume \in Int /\ cfg.maxRatio \in Int /\ cfg.top_k \in Int
    BY DiscoverAssumption
  <2>2. cfg.maxVolume # Missing
    BY DiscoverAssumption
  <2>3. k \in Nat
    BY <2>1 DEF AtLeastOne
  <2> QED BY <2>1, <2>2, <2>3
<1> HIDE DEF c, k
<1>7. \A b, a : ScoreOf(c, b, a) = PairScore(history, b, a, cfg)
  <2>1. c.kind # "major"
    BY <1>3
  <2> QED BY <1>3, <2>1, Zenon DEF ScoreOf
<1>8. \A b, a : Wanted(c, b, a)
        <=> /\ a.trading /\ a.volume >= cfg.minVolume /\ b.trading /\ b.volume >= cfg.minVolume
            /\ b.volume <= cfg.maxVolume
            /\ a.symbol \in cfg.anchors \/ cfg.anchors = {}
            /\ b.symbol \notin cfg.anchors \cup cfg.excluded
  <2>1. c.kind # "major"
    BY <1>3
  <2> QED BY <1>3, <2>1, Zenon DEF Wanted
<1>9. ASSUME NEW i \in 1 .. N, NEW j \in 1 .. N
      PROVE  (i \in As /\ j \in Bs) <=> Wanted(c, universe[j], universe[i])
  <2>1. i \in As <=> /\ universe[i].trading /\ universe[i].volume >= cfg.minVolume
                     /\ universe[i].symbol \in cfg.anchors \/ cfg.anchors = {}
    BY <1>4 DEF filter_for_discovery
  <2>2. j \in Bs <=> /\ universe[j].trading /\ universe[j].volume >= cfg.minVolume
                     /\ universe[j].volume <= cfg.maxVolume
                     /\ universe[j].symbol \notin cfg.anchors \cup cfg.excluded
    BY <1>4, <1>6 DEF filter_for_discovery
  <2> HIDE DEF As, Bs
  <2> QED BY <1>8, <2>1, <2>2, Zenon
<1>10. ASSUME NEW i \in 1 .. N, NEW j \in 1 .. N
       PROVE  ScoreOf(c, universe[j], universe[i]) \in Int
  BY <1>4, <1>7, PairScoreIsInt
<1>11. scores = Met(c, universe, As, Bs)
  BY <1>7 DEF Met
<1>12. Top(c) = k
  <2>1. c.kind # "major"
    BY <1>3
  <2> QED BY <1>3, <2>1, Zenon DEF Top, k
<1>13. ASSUME NEW a \in U, NEW b \in U,
              Wanted(c, b, a), ScoreOf(c, b, a) > 0, a.symbol = b.symbol
       PROVE  c.kind = "auto" /\ c.cfg.anchors = {} /\ c.cfg.maxRatio >= 100
  <2>1. cfg.anchors = {}
    BY <1>8, <1>13
  <2>2. a = b /\ a \in Meta /\ a.symbol \in Symbol
    <3>1. PICK i \in 1 .. N, j \in 1 .. N : a = universe[i] /\ b = universe[j]
      BY <1>4
    <3> QED BY <1>1, <1>4, <1>13, <3>1 DEF IsUniverse
  <2>3. PairScore(history, a, a, cfg) > 0
    BY <1>7, <1>13, <2>2
  <2>4. a.volume > 0 /\ (100 * a.volume) \div a.volume <= cfg.maxRatio
    BY <2>2, <2>3, PairScoreIsInt
  <2>5. a.volume \in Int
    BY <2>2 DEF Meta
  <2>6. (100 * a.volume) \div a.volume = 100
    BY <2>4, <2>5, SameVolume
  <2>7. cfg.maxRatio >= 100
    BY <1>6, <2>4, <2>6
  <2> QED BY <1>3, <2>1, <2>7
<1> HIDE DEF As, Bs, scores, U
<1>14. Ranked(c, Best(universe, scores, Top(c)))
  <2>1. c.universe = {universe[i] : i \in DOMAIN universe}
    BY <1>3 DEF U
  <2>2. Top(c) \in Nat
    BY <1>6, <1>12
  <2>3. \A a, b \in c.universe :
          Wanted(c, b, a) /\ ScoreOf(c, b, a) > 0 /\ a.symbol = b.symbol =>
            c.kind = "auto" /\ c.cfg.anchors = {} /\ c.cfg.maxRatio >= 100
    BY <1>3, <1>13, Zenon
  <2>4. /\ \A i, j \in 1 .. N : (i \in As /\ j \in Bs) <=> Wanted(c, universe[j], universe[i])
        /\ \A i, j \in 1 .. N : ScoreOf(c, universe[j], universe[i]) \in Int
    BY <1>9, <1>10, Zenon
  <2>5. Meets(c, universe, N, As, Bs)
    BY <1>1, <1>5, <2>1, <2>4, Zenon DEF Meets
  <2> QED BY <1>11, <2>2, <2>3, <2>5, CycleRanks, Zenon
<1>15. As = {} => Best(universe, scores, k) = <<>>
  <2> SUFFICES ASSUME As = {} PROVE Best(universe, scores, k) = <<>>
    OBVIOUS
  <2>1. Scored(scores) = {}
    BY DEF scores, Scored
  <2>2. Cardinality(Scored(scores)) = 0
    BY <2>1, FS_EmptySet
  <2>3. Least(k, Cardinality(Scored(scores))) = 0
    BY <1>6, <2>2 DEF Least
  <2> DEFINE order == InOrder(Scored(scores), Sorting(Scored(scores)))
  <2>4. Best(universe, scores, k) = [n \in 1 .. 0 |-> Scoring(universe, order[n])]
    BY <2>3, Zenon DEF Best
  <2> HIDE DEF order
  <2> QED BY <2>4
<1>16. Ranked(cycle', top_pairs')
  BY <1>2, <1>12, <1>14, <1>15, Zenon
<1> QED BY <1>16 DEF TopPairsRanked, Ranked

\* TopPairsRanked, for every exchange's list, every history of statistics and
\* every configuration: the sort of the cycle and its cut keep the best pairs, and
\* a cycle that raises keeps those of the last one that returned.
THEOREM PairsAreRanked == DiscoverSpec => []TopPairsRanked
<1>1. DiscoverInit => TopPairsRanked
  BY DEF DiscoverInit, TopPairsRanked
<1>2. TopPairsRanked /\ [DiscoverNext]_discovery => TopPairsRanked'
  <2> SUFFICES ASSUME TopPairsRanked, [DiscoverNext]_discovery PROVE TopPairsRanked'
    OBVIOUS
  <2>1. ASSUME NEW raw \in Market, NEW history \in History, NEW tf \in Timeframe,
               run_discovery_cycle(raw, history[tf])
        PROVE  TopPairsRanked'
    <3>1. history[tf] \in Matrix
      BY DiscoverAssumption
    <3> QED BY <2>1, <3>1, MajorRanks
  <2>2. ASSUME NEW raw \in Market, NEW history \in History, NEW cfg \in Config,
               run_auto_discovery(raw, history, cfg)
        PROVE  TopPairsRanked'
    BY <2>2, AutoRanks
  <2>3. ASSUME UNCHANGED <<top_pairs, cycle>> PROVE TopPairsRanked'
    BY <2>3 DEF TopPairsRanked, BestOf, Chosen, Top, Wanted, ScoreOf
  <2>4. ASSUME NEW raw \in Market, CycleRaises(raw) PROVE TopPairsRanked'
    BY <2>3, <2>4 DEF CycleRaises
  <2> QED BY <2>1, <2>2, <2>3, <2>4 DEF DiscoverNext, discovery
<1> QED BY <1>1, <1>2, PTL DEF DiscoverSpec
=============================================================================

--------------------------- MODULE DepthBookProofs ---------------------------
(***************************************************************************)
(* Theorems about DepthBook, for every venue, every feed and any number of *)
(* events: the local book is always a book of the venue, the stream never  *)
(* rewinds it, a failed replay loses no update, and the synchronizer       *)
(* implements VenueMirror.                                                 *)
(***************************************************************************)
EXTENDS DepthBook, WellFoundedInduction, TLAPS

\* Induction over the naturals, stated with a set instead of a predicate so
\* that the first-order provers can use it: the loops of the code (the replay
\* of the depth buffer) are proved correct for any number of turns with it.
LEMMA NatInductionOnSets ==
  ASSUME NEW T, 0 \in T, \A n \in Nat : n \in T => n + 1 \in T
  PROVE  \A n \in Nat : n \in T
<1> DEFINE Missing == Nat \ T
<1> SUFFICES ASSUME Missing # {} PROVE FALSE
  OBVIOUS
<1>1. PICK m \in Missing : \A k \in Missing : <<k, m>> \notin OpToRel(<, Nat)
  <2>1. Missing \subseteq Nat
    OBVIOUS
  <2> HIDE DEF Missing
  <2> QED BY <2>1, NatLessThanWellFounded, WFMin
<1>2. \A k \in Missing : ~ (k < m)
  BY <1>1 DEF OpToRel
<1>3. m - 1 \in T /\ (m - 1) + 1 = m /\ m - 1 \in Nat
  BY <1>2
<1> QED BY <1>3

\* The books the local book may be: empty, or the venue's at last_update_id.
VenueBook == {b \in BookState : b.last # None => b.levels = Venue[b.last]}

\* A snapshot of the venue is a venue book.
LEMMA SnapshotIsVenueBook ==
  ASSUME NEW s \in Id
  PROVE  load_snapshot(s) \in VenueBook
BY VenueAssumption DEF load_snapshot, VenueBook, BookState

\* The updates of the abstract mirror are the ranges of the feed's events.
MirrorUpdate(n) == <<CoveredFrom(n), Event[n].final>>

\* A snapshot is the beginning of its own chain.
LEMMA ChainStart ==
  ASSUME NEW s \in Id
  PROVE  s \in Mirror!Chain(s)
BY DEF Mirror!Chain, Mirror!Id, Id

\* An event that continues an id of a chain takes the chain to its last id.
LEMMA ChainLonger ==
  ASSUME NEW s, NEW i \in Mirror!Chain(s), NEW n \in EventNo,
         Mirror!Continues(MirrorUpdate(n), i)
  PROVE  Event[n].final \in Mirror!Chain(s)
<1> DEFINE u == MirrorUpdate(n)
           Ranges == {<<CoveredFrom(m), Event[m].final>> : m \in EventNo}
<1>1. u \in Ranges /\ u[2] = Event[n].final
  BY DEF MirrorUpdate
<1>2. u[2] \in Mirror!Id
  BY <1>1, EventAssumption DEF Mirror!Id, Id
<1>3. ASSUME NEW S \in SUBSET Mirror!Id, s \in S, Mirror!Closed(S) PROVE u[2] \in S
  <2>1. i \in S
    BY <1>3 DEF Mirror!Chain
  <2> HIDE DEF u
  <2> QED BY <1>1, <1>3, <2>1 DEF Mirror!Closed, u
<1> QED BY <1>1, <1>2, <1>3 DEF Mirror!Chain

\* Applying one event to a venue book gives a venue book that is no older,
\* and contains the event unless the event was refused.
LEMMA ApplyKeepsVenueBook ==
  ASSUME NEW b \in VenueBook, NEW n \in EventNo, ~ Raises(b, n)
  PROVE  /\ apply(b, n) \in VenueBook
         /\ apply(b, n).last \in Id
         /\ b.last \in Id
         /\ apply(b, n).last >= b.last
         /\ Event[n].final <= apply(b, n).last
         /\ apply(b, n) # b => /\ apply(b, n).last > b.last
                              /\ apply(b, n).last = Event[n].final
                              /\ Mirror!Continues(MirrorUpdate(n), b.last)
<1> DEFINE u == Event[n].final
<1>0. /\ b.last \in Id /\ b.last \in Int /\ b.last # None
      /\ b.levels = Venue[b.last] /\ b.levels \in [Level -> Nat]
      /\ b.from_snapshot \in BOOLEAN
      /\ b = [last |-> b.last, from_snapshot |-> b.from_snapshot, levels |-> b.levels]
  BY VenueAssumption DEF Raises, VenueBook, BookState, Id
<1>1. /\ u \in Id /\ u \in Int /\ Event[n].first \in Int /\ Event[n].prev \in Int
      /\ 0 < Event[n].first /\ Event[n].first <= u /\ Event[n].prev < Event[n].first
      /\ Event[n].prev >= 0
  BY EventAssumption, VenueAssumption DEF EventNo, Id
<1>2. CASE Ignored(b, n)
  BY <1>0, <1>1, <1>2 DEF Ignored, apply
<1>3. CASE ~ Ignored(b, n)
  <2>1. can_accept(b, n) /\ b.last < u
    BY <1>0, <1>1, <1>3 DEF Raises, Ignored
  <2>2. b.last \in (CoveredFrom(n) - 1) .. u
    BY <1>0, <1>1, <2>1 DEF can_accept, Contiguous, CoveredFrom, HasPrev
  <2>3. ASSUME NEW l \in Level, l \notin Touched(n)
        PROVE  Venue[b.last][l] = Venue[u][l]
    BY <2>2, <2>3 DEF Touched
  <2>4. Venue[u] \in [Level -> Nat]
    BY <1>1, VenueAssumption
  <2>5. _upsert_levels(b.levels, n) = Venue[u]
    <3>1. ASSUME NEW l \in Level
          PROVE  _upsert_levels(b.levels, n)[l] = Venue[u][l]
      BY <1>0, <2>3 DEF _upsert_levels
    <3> QED BY <3>1, <2>4 DEF _upsert_levels
  <2>6. apply(b, n) = [last |-> u, from_snapshot |-> FALSE, levels |-> Venue[u]]
    BY <1>3, <2>5 DEF apply
  <2>7. Mirror!Continues(MirrorUpdate(n), b.last)
    <3>1. CoveredFrom(n) \in Int
      BY <1>1 DEF CoveredFrom
    <3> QED BY <1>0, <1>1, <2>1, <2>2, <3>1 DEF Mirror!Continues, MirrorUpdate
  <2> QED BY <1>0, <1>1, <2>1, <2>4, <2>6, <2>7 DEF VenueBook, BookState
<1> QED BY <1>2, <1>3

\* The recursive function of the replay loop is well defined: it is the
\* function its definition describes, for every number of events.
LEMMA ReplayRunDef ==
  ASSUME NEW b, NEW buf
  PROVE  ReplayRun(b, buf) =
           [n \in 0 .. NumEvents |->
              IF n = 0 THEN [book |-> b, ok |-> TRUE]
              ELSE ReplayStep(ReplayRun(b, buf)[n - 1], n, buf)]
<1> DEFINE Body(f, n) == IF n = 0 THEN [book |-> b, ok |-> TRUE]
                         ELSE ReplayStep(f[n - 1], n, buf)
           Upto(k) == \E f : f = [n \in 0 .. k |-> Body(f, n)]
           T == {k \in Nat : Upto(k)}
<1>1. 0 \in T
  <2> DEFINE f == [n \in 0 .. 0 |-> [book |-> b, ok |-> TRUE]]
  <2>1. f = [n \in 0 .. 0 |-> Body(f, n)]
    OBVIOUS
  <2>2. Upto(0)
    BY <2>1
  <2> QED BY <2>2
<1>2. ASSUME NEW k \in Nat, k \in T PROVE k + 1 \in T
  <2>1. PICK f : f = [n \in 0 .. k |-> Body(f, n)]
    BY <1>2
  <2> DEFINE g == [n \in 0 .. (k + 1) |->
                     IF n = k + 1 THEN ReplayStep(f[k], k + 1, buf) ELSE f[n]]
  <2>2. ASSUME NEW n \in 0 .. (k + 1) PROVE g[n] = Body(g, n)
    <3>1. CASE n = k + 1
      <4>1. n # 0 /\ n - 1 = k /\ k \in 0 .. (k + 1) /\ k # k + 1
        BY <3>1
      <4>2. g[k] = f[k] /\ g[n] = ReplayStep(f[k], k + 1, buf)
        BY <3>1, <4>1
      <4> HIDE DEF g
      <4> QED BY <3>1, <4>1, <4>2
    <3>2. CASE n # k + 1 /\ n # 0
      <4>1. n \in 0 .. k /\ n - 1 \in 0 .. (k + 1) /\ n - 1 # k + 1
        BY <3>2
      <4>2. g[n] = f[n] /\ g[n - 1] = f[n - 1] /\ f[n] = Body(f, n)
        BY <2>1, <3>2, <4>1
      <4> HIDE DEF g
      <4> QED BY <3>2, <4>2
    <3>3. CASE n = 0
      <4>1. 0 \in 0 .. k /\ 0 # k + 1 /\ f[0] = Body(f, 0)
        BY <2>1
      <4> QED BY <3>3, <4>1
    <3> QED BY <3>1, <3>2, <3>3
  <2>3. g = [n \in 0 .. (k + 1) |-> Body(g, n)]
    <3>1. g = [n \in 0 .. (k + 1) |-> g[n]]
      OBVIOUS
    <3> HIDE DEF g
    <3> QED BY <2>2, <3>1
  <2>4. Upto(k + 1)
    BY <2>3
  <2> QED BY <2>4
<1>3. NumEvents \in T
  <2> HIDE DEF T
  <2> QED BY <1>1, <1>2, NatInductionOnSets, EventAssumption
<1>4. \E f : f = [n \in 0 .. NumEvents |-> Body(f, n)]
  BY <1>3
<1> QED BY <1>4 DEF ReplayRun

\* What the loop guarantees after any number of turns, started on a snapshot:
\* the book is a venue book no older than the snapshot, on a chain of events
\* that begins there, and while nothing was raised it contains every buffered
\* event that had its turn.
LEMMA ReplaySound ==
  ASSUME NEW s \in Id, NEW buf \in SUBSET EventNo
  PROVE  LET r == Replay(load_snapshot(s), buf) IN
         /\ r.book \in VenueBook
         /\ r.book.last \in Id
         /\ r.book.last >= s
         /\ r.book.last \in Mirror!Chain(s)
         /\ r.ok \in BOOLEAN
         /\ r.ok => \A n \in buf : Event[n].final <= r.book.last
<1> DEFINE run == ReplayRun(load_snapshot(s), buf)
           Good(n) == /\ DOMAIN run[n] = {"book", "ok"}
                      /\ run[n] = [book |-> run[n].book, ok |-> run[n].ok]
                      /\ run[n].book \in VenueBook
                      /\ run[n].book.last \in Id
                      /\ run[n].book.last >= s
                      /\ run[n].book.last \in Mirror!Chain(s)
                      /\ run[n].ok \in BOOLEAN
                      /\ run[n].ok => \A m \in buf : m <= n => Event[m].final <= run[n].book.last
           T == {n \in Nat : n \in 0 .. NumEvents => Good(n)}
<1>0. NumEvents \in Nat /\ Id \subseteq Int /\ \A m \in EventNo : Event[m].final \in Id
  BY EventAssumption, VenueAssumption DEF Id
<1>00. run = [n \in 0 .. NumEvents |->
                IF n = 0 THEN [book |-> load_snapshot(s), ok |-> TRUE]
                ELSE ReplayStep(run[n - 1], n, buf)]
  BY ReplayRunDef, Zenon
<1> HIDE DEF run
<1>1. 0 \in T
  <2>1. run[0] = [book |-> load_snapshot(s), ok |-> TRUE]
    BY <1>00, <1>0
  <2>2. load_snapshot(s).last = s /\ s \in Int
    BY <1>0 DEF load_snapshot
  <2>3. \A m \in buf : ~ (m <= 0)
    BY DEF EventNo
  <2>4. load_snapshot(s) \in VenueBook
    BY SnapshotIsVenueBook
  <2>5. run[0].book = load_snapshot(s) /\ run[0].ok = TRUE /\ DOMAIN run[0] = {"book", "ok"}
    BY <2>1
  <2>6. Good(0)
    BY <2>1, <2>2, <2>3, <2>4, <2>5, ChainStart
  <2> QED BY <2>6
<1>2. ASSUME NEW k \in Nat, k \in T PROVE k + 1 \in T
  <2> SUFFICES ASSUME k + 1 \in 0 .. NumEvents PROVE Good(k + 1)
    BY DEF T
  <2>1. Good(k) /\ k + 1 \in EventNo /\ k + 1 # 0 /\ (k + 1) - 1 = k
    BY <1>0, <1>2 DEF EventNo
  <2>2. run[k + 1] = ReplayStep(run[k], k + 1, buf)
    BY <1>00, <2>1
  <2>3. \A m \in buf : m <= k + 1 => m <= k \/ m = k + 1
    BY DEF EventNo
  <2>4. CASE k + 1 \notin buf \/ ~ run[k].ok
    BY <2>1, <2>2, <2>3, <2>4 DEF ReplayStep
  <2>5. CASE k + 1 \in buf /\ run[k].ok /\ Raises(run[k].book, k + 1)
    <3>1. run[k + 1] = [book |-> run[k].book, ok |-> FALSE]
      BY <2>1, <2>2, <2>5 DEF ReplayStep
    <3> QED BY <2>1, <3>1
  <2>6. CASE k + 1 \in buf /\ run[k].ok /\ ~ Raises(run[k].book, k + 1)
    <3>1. run[k + 1] = [book |-> apply(run[k].book, k + 1), ok |-> TRUE]
      BY <2>1, <2>2, <2>6 DEF ReplayStep
    <3>2. /\ apply(run[k].book, k + 1) \in VenueBook
          /\ apply(run[k].book, k + 1).last \in Id
          /\ apply(run[k].book, k + 1).last >= run[k].book.last
          /\ Event[k + 1].final <= apply(run[k].book, k + 1).last
          /\ apply(run[k].book, k + 1) # run[k].book =>
               /\ apply(run[k].book, k + 1).last = Event[k + 1].final
               /\ Mirror!Continues(MirrorUpdate(k + 1), run[k].book.last)
      BY <2>1, <2>6, ApplyKeepsVenueBook
    <3> DEFINE new == apply(run[k].book, k + 1)
    <3>3. new.last \in Int /\ run[k].book.last \in Int /\ s \in Int
      BY <1>0, <2>1, <3>2
    <3> HIDE DEF new
    <3>4. new.last >= s
      BY <2>1, <3>2, <3>3 DEF new
    <3>5. ASSUME NEW m \in buf, m <= k + 1 PROVE Event[m].final <= new.last
      <4>1. Event[m].final \in Int
        BY <1>0
      <4>2. CASE m = k + 1
        BY <3>2, <4>2 DEF new
      <4>3. CASE m <= k
        BY <2>1, <2>6, <3>2, <3>3, <4>1, <4>3 DEF new
      <4> QED BY <2>3, <3>5, <4>2, <4>3
    <3>6. new.last \in Mirror!Chain(s)
      BY <2>1, <3>2, ChainLonger DEF new
    <3> QED BY <3>1, <3>2, <3>4, <3>5, <3>6 DEF new
  <2> QED BY <2>4, <2>5, <2>6
<1>3. NumEvents \in T
  <2> HIDE DEF T
  <2> QED BY <1>0, <1>1, <1>2, NatInductionOnSets
<1>4. Good(NumEvents) /\ \A m \in buf : m <= NumEvents
  BY <1>0, <1>3 DEF EventNo
<1> QED BY <1>4 DEF Replay, run

\* The inductive invariant: the types, the book, the fact that a synchronizer
\* that calls itself synced has a book, and the plan.
Inv ==
  /\ TypeOK
  /\ book \in VenueBook
  /\ synced => book.last # None
  /\ PlanFromVenueBook

\* Whatever snapshot arrives, the inductive invariant survives the replay of
\* the buffer, wherever the replay stops, and every buffered update is in the
\* book or still in the buffer.
LEMMA SnapshotStep ==
  ASSUME Inv, NEW s \in Id, apply_snapshot(s)
  PROVE  /\ Inv'
         /\ \A n \in buffer : n \in buffer' \/ Event[n].final <= book'.last
<1> DEFINE r == Replay(load_snapshot(s), Bridging(s))
<1>1. Bridging(s) \in SUBSET EventNo
  BY DEF Bridging, Inv, TypeOK
<1>2. /\ r.book \in VenueBook /\ r.book.last \in Id /\ r.book.last >= s
      /\ r.ok \in BOOLEAN
      /\ r.ok => \A n \in Bridging(s) : Event[n].final <= r.book.last
  BY <1>1, ReplaySound
<1>3. /\ book' = r.book
      /\ buffer' = IF r.ok THEN {} ELSE Bridging(s)
      /\ synced' = (r.ok \/ synced)
      /\ gapped' = (gapped /\ ~ r.ok)
      /\ loaded' = s
      /\ plan' = plan
  BY DEF apply_snapshot
<1> HIDE DEF r
<1>4. book'.last # None
  BY <1>2, <1>3, VenueAssumption DEF Id
<1>5. TypeOK'
  BY <1>1, <1>2, <1>3 DEF Inv, TypeOK, VenueBook
<1>6. Inv'
  BY <1>2, <1>3, <1>4, <1>5 DEF Inv, PlanFromVenueBook
<1>7. ASSUME NEW n \in buffer PROVE n \in buffer' \/ Event[n].final <= book'.last
  <2>1. /\ Event[n].final \in Int /\ s \in Int /\ r.book.last \in Int
    BY <1>2, EventAssumption, VenueAssumption DEF Inv, TypeOK, Id
  <2>2. CASE Event[n].final >= s + 1
    BY <1>2, <1>3, <2>2 DEF Bridging
  <2>3. CASE ~ (Event[n].final >= s + 1)
    BY <1>2, <1>3, <2>1, <2>3
  <2> QED BY <2>2, <2>3
<1> QED BY <1>6, <1>7

\* The same for the arrival of one event, which moreover never takes the book
\* back.
LEMMA UpdateStep ==
  ASSUME Inv, NEW n \in EventNo, on_depth_update(n)
  PROVE  /\ Inv'
         /\ buffer \subseteq buffer'
         /\ book' # book => book'.last > book.last
<1>1. CASE BufferUpdate(n)
  BY <1>1 DEF BufferUpdate, Inv, TypeOK, PlanFromVenueBook
<1>2. CASE ApplyUpdate(n)
  <2>1. /\ apply(book, n) \in VenueBook /\ apply(book, n).last \in Id
        /\ apply(book, n) # book => apply(book, n).last > book.last
    BY <1>2, ApplyKeepsVenueBook DEF ApplyUpdate, Inv
  <2>2. book'.last # None
    BY <1>2, <2>1, VenueAssumption DEF ApplyUpdate, Id
  <2> QED BY <1>2, <2>1, <2>2 DEF ApplyUpdate, Inv, TypeOK, VenueBook, PlanFromVenueBook
<1>3. CASE RejectUpdate(n)
  BY <1>3 DEF RejectUpdate, Inv, TypeOK, PlanFromVenueBook
<1> QED BY <1>1, <1>2, <1>3 DEF on_depth_update

\* A plan made from an invariant state is armed only on a venue book.
LEMMA PlanStep ==
  ASSUME Inv, generate_quote_plan
  PROVE  Inv'
<1>1. should_arm(book.levels) \in Reason
  BY DEF should_arm, Reason
<1>2. /\ plan'.armed \in BOOLEAN /\ plan'.reason \in Reason
      /\ plan'.at = book.last /\ plan'.gapped \in BOOLEAN
      /\ plan' = [armed |-> plan'.armed, reason |-> plan'.reason,
                  at |-> plan'.at, gapped |-> plan'.gapped]
  BY <1>1 DEF generate_quote_plan, Inv, TypeOK, Reason
<1>3. TypeOK'
  BY <1>2 DEF generate_quote_plan, Inv, TypeOK, BookState
<1>4. PlanFromVenueBook'
  BY DEF generate_quote_plan, Inv, VenueBook, PlanFromVenueBook
<1> QED BY <1>3, <1>4 DEF generate_quote_plan, Inv

LEMMA ResetStep ==
  ASSUME Inv, reset
  PROVE  Inv'
<1>1. EmptyBook \in VenueBook /\ EmptyBook.last = None
  BY DEF EmptyBook, EmptyLevels, VenueBook, BookState
<1> QED BY <1>1 DEF reset, Inv, TypeOK, VenueBook, PlanFromVenueBook

LEMMA InitInv == Init => Inv
<1>1. EmptyBook \in VenueBook /\ EmptyBook.last = None
  BY DEF EmptyBook, EmptyLevels, VenueBook, BookState
<1>2. /\ NoPlan \in [armed : BOOLEAN, reason : Reason, at : Id \cup {None}, gapped : BOOLEAN]
      /\ NoPlan.armed = FALSE
  BY DEF NoPlan, Reason
<1>3. Init => TypeOK
  BY <1>1, <1>2 DEF Init, TypeOK, VenueBook
<1> QED BY <1>1, <1>2, <1>3 DEF Init, Inv, PlanFromVenueBook

LEMMA NextInv == Inv /\ [Next]_vars => Inv'
<1> SUFFICES ASSUME Inv, [Next]_vars PROVE Inv'
  OBVIOUS
<1>1. CASE \E n \in EventNo : on_depth_update(n)
  BY <1>1, UpdateStep
<1>2. CASE \E s \in Id : apply_snapshot(s)
  BY <1>2, SnapshotStep
<1>3. CASE reset
  BY <1>3, ResetStep
<1>4. CASE generate_quote_plan
  BY <1>4, PlanStep
<1>5. CASE UNCHANGED vars
  BY <1>5 DEF vars, Inv, TypeOK, PlanFromVenueBook
<1> QED BY <1>1, <1>2, <1>3, <1>4, <1>5 DEF Next

\* The invariant holds of every behaviour of the synchronizer.
THEOREM Invariance == Spec => []Inv
  BY InitInv, NextInv, PTL DEF Spec

\* Type correctness of the synchronizer and the plan.
THEOREM TypeCorrect == Spec => []TypeOK
<1>1. Inv => TypeOK
  BY DEF Inv
<1> QED BY <1>1, Invariance, PTL

\* Whatever is lost, duplicated, reordered or interrupted, the local book is
\* the venue's book at its last_update_id.
THEOREM BookFaithful == Spec => []BookIsVenue
<1>1. Inv => BookIsVenue
  BY DEF Inv, VenueBook, BookIsVenue
<1> QED BY <1>1, Invariance, PTL

\* A plan is armed only on a book the venue really had.
THEOREM PlanFaithful == Spec => []PlanFromVenueBook
<1>1. Inv => PlanFromVenueBook
  BY DEF Inv
<1> QED BY <1>1, Invariance, PTL

\* A replay that fails loses no update a later snapshot needs.
THEOREM ReplayLosesNothing == Spec => NoUpdateLost
<1> DEFINE Kept == reset \/ \A n \in buffer : n \in buffer' \/ Event[n].final <= book'.last
<1>1. Inv /\ [Next]_vars => [Kept]_vars
  <2> SUFFICES ASSUME Inv, Next PROVE Kept
    OBVIOUS
  <2>1. CASE \E n \in EventNo : on_depth_update(n)
    BY <2>1, UpdateStep
  <2>2. CASE \E s \in Id : apply_snapshot(s)
    BY <2>2, SnapshotStep
  <2>3. CASE generate_quote_plan
    BY <2>3 DEF generate_quote_plan
  <2> QED BY <2>1, <2>2, <2>3 DEF Next
<1> HIDE DEF Kept
<1>2. Spec => [][Kept]_vars
  BY <1>1, Invariance, PTL DEF Spec
<1> QED BY <1>2 DEF NoUpdateLost, Kept

\* The stream alone never takes the book to an older update id.
THEOREM NoRewind == Spec => StreamNeverRewinds
<1> DEFINE Forward == (\E n \in EventNo : on_depth_update(n)) /\ book' # book
                        => book'.last > book.last
<1>1. Inv => Forward
  BY UpdateStep
<1> HIDE DEF Forward
<1>2. Spec => [][Forward]_vars
  BY <1>1, Invariance, PTL DEF Spec
<1> QED BY <1>2 DEF StreamNeverRewinds, Forward

\* The synchronizer implements the abstract mirror of the venue: a snapshot
\* moves the book along a chain that begins there, an event that is applied
\* continues it, a reset drops it, and everything else leaves it as it is.
THEOREM Refinement == Spec => MirrorSpec
<1>1. Init => Mirror!Init
  BY DEF Init, EmptyBook, EmptyLevels, Mirror!Init, Mirror!EmptyBook
<1>2. ASSUME Inv, Inv', [Next]_vars
      PROVE  [Mirror!Next]_<<book.last, book.levels, loaded>>
  <2>0. book'.last # None => book'.levels = Venue[book'.last]
    BY <1>2 DEF Inv, VenueBook
  <2>1. CASE book' = book /\ loaded' = loaded
    BY <2>1
  <2>2. CASE reset
    BY <2>2 DEF reset, EmptyBook, EmptyLevels, Mirror!Next, Mirror!Drop, Mirror!EmptyBook
  <2>3. ASSUME NEW s \in Id, apply_snapshot(s) PROVE Mirror!Next
    <3>1. Bridging(s) \in SUBSET EventNo
      BY <1>2 DEF Bridging, Inv, TypeOK
    <3>2. book'.last \in Id /\ book'.last \in Mirror!Chain(s) /\ loaded' = s
      BY <2>3, <3>1, ReplaySound DEF apply_snapshot
    <3>3. book'.levels = Venue[book'.last]
      BY <2>0, <3>2, VenueAssumption DEF Id
    <3>4. s \in Mirror!Id
      BY DEF Mirror!Id, Id
    <3> QED BY <3>2, <3>3, <3>4 DEF Mirror!Next, Mirror!Load
  <2>4. ASSUME NEW n \in EventNo, ApplyUpdate(n), book' # book PROVE Mirror!Next
    <3>1. /\ book'.last = Event[n].final /\ book'.last \in Id /\ book.last \in Id
          /\ Mirror!Continues(MirrorUpdate(n), book.last) /\ loaded' = loaded
      BY <1>2, <2>4, ApplyKeepsVenueBook DEF ApplyUpdate, Inv
    <3>2. book'.levels = Venue[book'.last] /\ book.last # None
      BY <2>0, <3>1, VenueAssumption DEF Id
    <3>3. Mirror!Follow(MirrorUpdate(n))
      BY <3>1, <3>2 DEF Mirror!Follow, MirrorUpdate
    <3> QED BY <3>3 DEF Mirror!Next, MirrorUpdate
  <2>5. CASE Next /\ ~ reset /\ ~ (book' = book /\ loaded' = loaded)
    BY <2>3, <2>4, <2>5
       DEF Next, on_depth_update, BufferUpdate, ApplyUpdate, RejectUpdate, generate_quote_plan
  <2> QED BY <1>2, <2>1, <2>2, <2>5 DEF vars
<1> QED BY <1>1, <1>2, Invariance, PTL DEF Spec, MirrorSpec, Mirror!Spec
=============================================================================

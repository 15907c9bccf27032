----------------------------- MODULE DepthBook -----------------------------
(***************************************************************************)
(* The local order book of wickhunter/marketdata: LocalOrderBook (snapshot *)
(* + diff rules), BookSynchronizer (buffer until a snapshot arrives, then  *)
(* replay) and the gate SignalEngine puts in front of the quote plan.      *)
(*                                                                         *)
(* The venue's book is a constant function of the update id, and a diff    *)
(* event carries the absolute new size of every level that changed in the  *)
(* ids it covers.  Deliveries are unrestricted: any event may arrive at    *)
(* any time, any number of times, in any order, or never.                  *)
(***************************************************************************)
EXTENDS Integers, FiniteSetsExt

CONSTANTS
  Price,          \* the price ticks of the model, a finite set of positive integers
  MaxId,          \* the last update id of the venue (bound)
  Venue,          \* Venue[i]: the book of the venue at update id i
  NumEvents,      \* how many diff events the feed has (bound)
  Event,          \* Event[n] = [first, final, prev], in the order of (first, final)
  Baseline,       \* SignalEngine.baseline_depth_5bp
  EdgeCoversCost, \* QuoteEngine: theta1 * 1e4 >= min_expected_edge_bps
  None            \* Python's None

Side  == {"bid", "ask"}
Level == Side \X Price
Id    == 0 .. MaxId
EventNo == 1 .. NumEvents

ASSUME PriceAssumption == Price \subseteq Nat \ {0} /\ IsFiniteSet(Price)

ASSUME VenueAssumption ==
  /\ MaxId \in Nat
  /\ Venue \in [Id -> [Level -> Nat]]
  /\ None \notin Int

\* A feed numbers its events in the order of (U, u); pu is 0 when it sends
\* none, and otherwise the previous event's u.  No two events share (U, u).
ASSUME EventAssumption ==
  /\ NumEvents \in Nat
  /\ Event \in [EventNo -> [first : Id, final : Id, prev : Id]]
  /\ \A n \in EventNo :
       /\ 0 < Event[n].first /\ Event[n].first <= Event[n].final
       /\ Event[n].prev < Event[n].first
  /\ \A m, n \in EventNo :
       m < n => \/ Event[m].first < Event[n].first
                \/ /\ Event[m].first = Event[n].first
                   /\ Event[m].final < Event[n].final

ASSUME SignalAssumption == Baseline \in Int /\ EdgeCoversCost \in BOOLEAN

VARIABLES
  book,           \* LocalOrderBook: last_update_id, _from_snapshot, bids and asks
  buffer,         \* BookSynchronizer._buffer, as the set of the events it holds
  synced,         \* BookSynchronizer._synced
  gapped,         \* history: a sequence gap was raised since the last good snapshot
  loaded,         \* history: the id of the last snapshot that was loaded, or None
  plan            \* the last QuotePlan, with the id and the gapped it was made under

vars == <<book, buffer, synced, gapped, loaded, plan>>

EmptyLevels == [l \in Level |-> 0]
EmptyBook == [last |-> None, from_snapshot |-> FALSE, levels |-> EmptyLevels]
NoPlan == [armed |-> FALSE, reason |-> "none", at |-> None, gapped |-> FALSE]

-----------------------------------------------------------------------------
(* The diff events of the venue *)

\* Does the feed send pu?  A missing one is read as 0.
HasPrev(n) == Event[n].prev > 0

\* The first id whose changes an event carries: pu + 1 when the feed sends pu.
CoveredFrom(n) == IF HasPrev(n) THEN Event[n].prev + 1 ELSE Event[n].first

\* The levels an event lists: those that had another size somewhere between
\* the id before the event and its last id.
Touched(n) ==
  {l \in Level : \E i \in (CoveredFrom(n) - 1) .. Event[n].final :
                    Venue[i][l] # Venue[Event[n].final][l]}

-----------------------------------------------------------------------------
(* LocalOrderBook *)

load_snapshot(s) == [last |-> s, from_snapshot |-> TRUE, levels |-> Venue[s]]

\* Mutant of Contiguous: a range that starts behind a gap is taken.
ContiguousAfterGap(b, n) == b.last + 1 <= Event[n].final

Contiguous(b, n) == Event[n].first <= b.last + 1 /\ b.last + 1 <= Event[n].final

can_accept(b, n) ==
  /\ b.last # None
  /\ IF ~ b.from_snapshot /\ HasPrev(n)
       THEN Event[n].prev = b.last
       ELSE Contiguous(b, n)

\* An update that ends at or before the book is silently ignored.
Ignored(b, n) == b.last # None /\ Event[n].final <= b.last

\* apply raises ValueError: no snapshot, or a sequence gap.
Raises(b, n) == b.last = None \/ (~ Ignored(b, n) /\ ~ can_accept(b, n))

\* Mutant of _upsert_levels: a size of zero does not remove the level.
_upsert_levels_keep_zero(levels, n) ==
  [l \in Level |-> IF l \in Touched(n) /\ Venue[Event[n].final][l] > 0
                     THEN Venue[Event[n].final][l] ELSE levels[l]]

_upsert_levels(levels, n) ==
  [l \in Level |-> IF l \in Touched(n) THEN Venue[Event[n].final][l] ELSE levels[l]]

\* Mutant of apply: the book is labelled with the id it expects next.
apply_labelled_next(b, n) ==
  IF Raises(b, n) \/ Ignored(b, n) THEN b
  ELSE [last |-> Event[n].final + 1, from_snapshot |-> FALSE,
        levels |-> _upsert_levels(b.levels, n)]

\* Mutant of apply: the book is labelled with the first id of the range.
apply_labelled_first(b, n) ==
  IF Raises(b, n) \/ Ignored(b, n) THEN b
  ELSE [last |-> Event[n].first, from_snapshot |-> FALSE,
        levels |-> _upsert_levels(b.levels, n)]

apply(b, n) ==
  IF Raises(b, n) \/ Ignored(b, n) THEN b
  ELSE [last |-> Event[n].final, from_snapshot |-> FALSE,
        levels |-> _upsert_levels(b.levels, n)]

-----------------------------------------------------------------------------
(* BookSynchronizer *)

\* An update arrives before the book is synchronized: it is buffered.
BufferUpdate(n) ==
  /\ ~ synced
  /\ buffer' = buffer \cup {n}
  /\ UNCHANGED <<book, synced, gapped, loaded, plan>>

\* An update arrives afterwards and is applied, or ignored as already seen.
ApplyUpdate(n) ==
  /\ synced
  /\ ~ Raises(book, n)
  /\ book' = apply(book, n)
  /\ UNCHANGED <<buffer, synced, gapped, loaded, plan>>

\* It does not continue the book: apply raises and nothing else changes, not
\* even _synced.
RejectUpdate(n) ==
  /\ synced
  /\ Raises(book, n)
  /\ gapped' = TRUE
  /\ UNCHANGED <<book, buffer, synced, loaded, plan>>

on_depth_update(n) == BufferUpdate(n) \/ ApplyUpdate(n) \/ RejectUpdate(n)

\* One turn of the replay loop; after an exception the loop is over.
ReplayStep(r, n, buf) ==
  IF n \notin buf \/ ~ r.ok THEN r
  ELSE IF Raises(r.book, n) THEN [r EXCEPT !.ok = FALSE]
  ELSE [r EXCEPT !.book = apply(r.book, n)]

\* The loop over the sorted buffer: the n-th value is the state after the
\* first n events of the feed, in the order of (U, u), have had their turn.
ReplayRun(b, buf) ==
  LET run[n \in 0 .. NumEvents] ==
        IF n = 0 THEN [book |-> b, ok |-> TRUE] ELSE ReplayStep(run[n - 1], n, buf)
  IN  run

Replay(b, buf) == ReplayRun(b, buf)[NumEvents]

\* Mutant of Bridging: the update that ends right after the snapshot is dropped.
BridgingLate(s) == {n \in buffer : Event[n].final > s + 1}

\* The updates that may bridge from the snapshot to the stream.
Bridging(s) == {n \in buffer : Event[n].final >= s + 1}

\* Mutant of apply_snapshot: a replay that raises puts the old book back.
apply_snapshot_undone(s) ==
  LET r == Replay(load_snapshot(s), Bridging(s)) IN
  /\ book' = IF r.ok \/ book.last = None THEN r.book ELSE book
  /\ loaded' = s
  /\ buffer' = IF r.ok THEN {} ELSE Bridging(s)
  /\ synced' = (r.ok \/ synced)
  /\ gapped' = (gapped /\ ~ r.ok)
  /\ UNCHANGED plan

\* The replay can raise half way: the book then stays where it stopped, the
\* filtered buffer is kept and _synced is what it was.
apply_snapshot(s) ==
  LET r == Replay(load_snapshot(s), Bridging(s)) IN
  /\ book' = r.book
  /\ loaded' = s
  /\ buffer' = IF r.ok THEN {} ELSE Bridging(s)
  /\ synced' = (r.ok \/ synced)
  /\ gapped' = (gapped /\ ~ r.ok)
  /\ UNCHANGED plan

reset ==
  /\ book' = EmptyBook
  /\ buffer' = {}
  /\ synced' = FALSE
  /\ gapped' = FALSE
  /\ loaded' = None
  /\ UNCHANGED plan
-----------------------------------------------------------------------------
(* The metrics of the book and the quote plan *)

Prices(levels, side) == {p \in Price : levels[<<side, p>>] > 0}

best_bid(levels) == Max(Prices(levels, "bid"))
best_ask(levels) == Min(Prices(levels, "ask"))

TwoSided(levels) == Prices(levels, "bid") # {} /\ Prices(levels, "ask") # {}

\* spread_bps > 30, the spread being (ask - bid) / ((ask + bid) / 2)
TooWide(levels) ==
  LET bid == best_bid(levels)
      ask == best_ask(levels)
  IN  20000 * (ask - bid) > 30 * (ask + bid)

\* The bid size no further than 5 bps below the best bid.
depth_5bp_bid(levels) ==
  LET near == {p \in Prices(levels, "bid") : 10000 * p >= 9995 * best_bid(levels)}
  IN  MapThenSumSet(LAMBDA p : levels[<<"bid", p>>], near)

\* The first reason not to arm, in the order of the code's early returns.
should_arm(levels) ==
  IF Baseline <= 0 THEN "invalid_baseline"
  ELSE IF ~ TwoSided(levels) THEN "missing_spread"
  ELSE IF ~ EdgeCoversCost THEN "edge_below_cost"
  ELSE IF 10 * depth_5bp_bid(levels) > 4 * Baseline THEN "insufficient_depth_collapse"
  ELSE IF TooWide(levels) THEN "spread_too_wide" ELSE "ok"

\* Without a synchronized book there is no plan; otherwise the plan is built
\* from whatever the book holds.
generate_quote_plan ==
  LET reason == IF synced THEN should_arm(book.levels) ELSE "not_synced" IN
  /\ plan' = [armed |-> reason = "ok", reason |-> reason,
              at |-> book.last, gapped |-> gapped]
  /\ UNCHANGED <<book, buffer, synced, gapped, loaded>>

-----------------------------------------------------------------------------
Init ==
  /\ book = EmptyBook
  /\ buffer = {}
  /\ synced = FALSE
  /\ gapped = FALSE
  /\ loaded = None
  /\ plan = NoPlan

Next ==
  \/ \E n \in EventNo : on_depth_update(n)
  \/ \E s \in Id : apply_snapshot(s)
  \/ reset
  \/ generate_quote_plan

Spec == Init /\ [][Next]_vars

-----------------------------------------------------------------------------
(* Properties *)

BookState == [last : Id \cup {None}, from_snapshot : BOOLEAN, levels : [Level -> Nat]]
Reason == {"none", "not_synced", "invalid_baseline", "missing_spread", "edge_below_cost",
           "insufficient_depth_collapse", "spread_too_wide", "ok"}

\* Type invariant of the synchronizer and of the plan made from it.
TypeOK ==
  /\ book \in BookState
  /\ buffer \subseteq EventNo
  /\ synced \in BOOLEAN
  /\ gapped \in BOOLEAN
  /\ loaded \in Id \cup {None}
  /\ plan \in [armed : BOOLEAN, reason : Reason, at : Id \cup {None}, gapped : BOOLEAN]

\* The local book is exactly the venue's book at last_update_id, whatever was
\* lost, duplicated or reordered, and also when a replay stopped half way
\* (LocalOrderBook.apply, BookSynchronizer.apply_snapshot).
BookIsVenue == book.last # None => book.levels = Venue[book.last]

\* A plan is armed only on a book the venue really had: the collapse that
\* should_arm saw was there (SignalEngine.generate_quote_plan).
PlanFromVenueBook ==
  plan.armed => plan.at # None /\ should_arm(Venue[plan.at]) = "ok"

\* Every update that was buffered is, after any step but a reset, in the book
\* or still in the buffer: a replay that fails loses nothing a later snapshot
\* needs (BookSynchronizer.apply_snapshot).
NoUpdateLost ==
  [][reset \/ \A n \in buffer : n \in buffer' \/ Event[n].final <= book'.last]_vars

\* Only a snapshot or a reset may take the book to an older id: the stream
\* never does, however late or often an event is delivered.
StreamNeverRewinds ==
  [][(\E n \in EventNo : on_depth_update(n)) /\ book' # book
       => book'.last > book.last]_vars

\* The abstract specification this one implements: the book always comes from
\* the last snapshot loaded, by updates that leave no gap and never take it
\* back, whether they were applied as they arrived, replayed from the buffer or
\* replayed as far as a replay came before it raised
\* (LocalOrderBook.can_accept, BookSynchronizer.apply_snapshot).
Mirror == INSTANCE VenueMirror
            WITH at <- book.last, view <- book.levels, loaded <- loaded,
                 Update <- {<<CoveredFrom(n), Event[n].final>> : n \in EventNo}
MirrorSpec == Mirror!Spec

\* docs/wickhunter_prd.md:211-213 stops the machine on an order-book gap: no
\* plan may be armed from a book whose sequence is known to be broken.
NoPlanAfterGap == ~ (plan.armed /\ plan.gapped)
=============================================================================

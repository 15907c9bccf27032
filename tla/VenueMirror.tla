---------------------------- MODULE VenueMirror ----------------------------
(***************************************************************************)
(* What a local order book promises to the rest of WickHunter.  The book   *)
(* shown is one the venue really had, at the update id it is labelled      *)
(* with.  It gets there from the snapshot it was loaded from along an      *)
(* unbroken chain of updates: it is never older than that snapshot,        *)
(* updates take it forward only, and one that leaves a gap takes it        *)
(* nowhere.  DepthBook implements this specification.                      *)
(***************************************************************************)
EXTENDS Integers

CONSTANTS
  Level,      \* the (side, price) pairs of the book
  MaxId,      \* the last update id of the venue in this behaviour
  Venue,      \* Venue[i]: the size of every level at update id i
  Update,     \* the updates, as pairs of the first and the last id they cover
  None        \* no book yet

VARIABLES
  at,         \* the update id of the book shown, or None
  view,       \* the book shown
  loaded      \* the id of the snapshot it comes from, or None

Id == 0 .. MaxId
EmptyBook == [l \in Level |-> 0]

\* An update continues a book when it covers the next id.
Continues(u, i) == u[1] <= i + 1 /\ i < u[2]

\* The ids a book can be taken to from a snapshot by updates without a gap:
\* those in every set that holds the snapshot and is closed under updates.
Closed(S) == \A i \in S : \A u \in Update : Continues(u, i) => u[2] \in S
Chain(s) == {i \in Id : \A S \in SUBSET Id : s \in S /\ Closed(S) => i \in S}

Init == at = None /\ view = EmptyBook /\ loaded = None

\* A snapshot, and as many of the updates received before it as continue it.
Load(s) == loaded' = s /\ at' \in Chain(s) /\ view' = Venue[at']

\* One update that continues the book.
Follow(u) ==
  /\ at # None
  /\ Continues(u, at)
  /\ at' = u[2]
  /\ view' = Venue[at']
  /\ UNCHANGED loaded

\* The book is thrown away.
Drop == at' = None /\ view' = EmptyBook /\ loaded' = None

Next == Drop \/ (\E s \in Id : Load(s)) \/ (\E u \in Update : Follow(u))

Spec == Init /\ [][Next]_<<at, view, loaded>>
=============================================================================

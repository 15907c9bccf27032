--------------------------- MODULE RollingWindow ---------------------------
(***************************************************************************)
(* A rolling window over a sequence: what is left when the leading         *)
(* elements of a kind are dropped.                                         *)
(***************************************************************************)
EXTENDS Naturals, Sequences

\* k is the number of leading elements of q that are in Old.
IsLeading(q, Old, k) ==
  /\ k \in 0 .. Len(q)
  /\ \A i \in 1 .. k : q[i] \in Old
  /\ k < Len(q) => q[k + 1] \notin Old

Leading(q, Old) == CHOOSE k \in 0 .. Len(q) : IsLeading(q, Old, k)

\* q without its leading elements in Old.
Dropped(q, Old) == SubSeq(q, Leading(q, Old) + 1, Len(q))
=============================================================================

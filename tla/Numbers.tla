------------------------------ MODULE Numbers ------------------------------
(***************************************************************************)
(* Arithmetic that several modules share.                                  *)
(***************************************************************************)
EXTENDS Integers, Sequences

Abs(n) == IF n < 0 THEN -n ELSE n
Positive(n) == IF n > 0 THEN n ELSE 0
Least(a, b) == IF a < b THEN a ELSE b

\* The sums of a sequence of numbers: of its first n at n.
PartialSums(w) ==
  LET sum[n \in 0 .. Len(w)] == IF n = 0 THEN 0 ELSE sum[n - 1] + w[n]
  IN  sum
=============================================================================

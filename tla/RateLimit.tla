----------------------------- MODULE RateLimit -----------------------------
(***************************************************************************)
(* What a rolling limit on cancellations promises, however it counts them: *)
(* a cancellation is taken only if fewer than Limit were taken in the last *)
(* Span seconds.  QuoteManager implements it.                              *)
(***************************************************************************)
EXTENDS Integers, Sequences

CONSTANTS
  Limit,          \* how many in a window
  Span            \* the length of the window

VARIABLES
  now,            \* the clock
  taken           \* when the cancellations were taken

\* Fewer than Limit were taken in the last Span seconds: the last but
\* Limit - 1 is long ago.
Free == Len(taken) < Limit \/ now - taken[Len(taken) - Limit + 1] >= Span

Take == Free /\ taken' = Append(taken, now) /\ UNCHANGED now

Pass == now' > now /\ UNCHANGED taken

Init == now = 0 /\ taken = <<>>

Next == Take \/ Pass

Spec == Init /\ [][Next]_<<now, taken>>

\* Any Limit + 1 cancellations span at least Span seconds.
Spaced ==
  \A i \in DOMAIN taken : i + Limit \in DOMAIN taken => taken[i + Limit] - taken[i] >= Span
=============================================================================

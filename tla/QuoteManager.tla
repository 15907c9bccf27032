---------------------------- MODULE QuoteManager ----------------------------
(***************************************************************************)
(* QuoteManager of wickhunter/execution/quote_manager.py, as the adapter   *)
(* uses it (_cancel_active_quote_if_due of core/mature_engine.py): it asks *)
(* whether a quote may be cancelled, makes its requests, which take time   *)
(* and may fail, and records the cancellation if one succeeded.            *)
(***************************************************************************)
EXTENDS Integers, Sequences, RollingWindow

CONSTANTS
  Quote,          \* client ids, each used for one quote
  MaxCancels,     \* max_cancels_per_10s
  Span,           \* the ten seconds of _prune_cancel_history
  MinLive,        \* min_order_live_seconds
  MaxClock,       \* bound on the clock
  NoQuote         \* no quote, and no entry for one

ASSUME ManagerAssumption ==
  /\ MaxCancels \in Nat \ {0} /\ Span \in Nat \ {0}
  /\ MinLive \in Nat /\ MaxClock \in Nat /\ NoQuote \notin Quote

VARIABLES
  clock,             \* time.time(), which is taken not to step back
  active_quotes,     \* creation times, by client id, or NoQuote
  cancel_timestamps,
  asking,            \* the quote whose cancellation is under way, or NoQuote
  taken              \* history: when cancellations were recorded

quotes == <<clock, active_quotes, cancel_timestamps, asking, taken>>

Rate == INSTANCE RateLimit WITH Limit <- MaxCancels, now <- clock

-----------------------------------------------------------------------------
\* Mutant of _prune_cancel_history: a second too many is forgotten.
_prune_cancel_history_early(q) == Dropped(q, {t \in 0 .. clock : t <= clock - Span + 1})

\* The timestamps are in order, so that those too old are the leading ones.
_prune_cancel_history(q) == Dropped(q, {t \in 0 .. clock : t <= clock - Span})

\* The quote has lived long enough; one that is not known is as old as time.
OldEnough(q) == active_quotes[q] # NoQuote => clock - active_quotes[q] >= MinLive

\* can_cancel: yes, and the requests to the venue begin.
CancelAllowed(q) ==
  /\ asking = NoQuote
  /\ OldEnough(q)
  /\ cancel_timestamps' = _prune_cancel_history(cancel_timestamps)
  /\ Len(cancel_timestamps') < MaxCancels
  /\ asking' = q
  /\ UNCHANGED <<clock, active_quotes, taken>>

\* can_cancel: no, for the rate, which prunes; a refusal for the age changes
\* nothing.
CancelRefused(q) ==
  /\ asking = NoQuote
  /\ OldEnough(q)
  /\ cancel_timestamps' = _prune_cancel_history(cancel_timestamps)
  /\ Len(cancel_timestamps') >= MaxCancels
  /\ UNCHANGED <<clock, active_quotes, asking, taken>>

\* An accepted submission registers its quote.
register_quote(q) ==
  /\ asking = NoQuote /\ active_quotes[q] = NoQuote
  /\ active_quotes' = [active_quotes EXCEPT ![q] = clock]
  /\ UNCHANGED <<clock, cancel_timestamps, asking, taken>>

\* The venue cancelled the quote, or no longer has it (-2011).
record_cancel ==
  /\ asking # NoQuote
  /\ cancel_timestamps' = Append(cancel_timestamps, clock)
  /\ active_quotes' = [active_quotes EXCEPT ![asking] = NoQuote]
  /\ asking' = NoQuote
  /\ taken' = Append(taken, clock)
  /\ UNCHANGED clock

\* The cancellation failed: it is not recorded, however many requests it took.
CancelFails ==
  /\ asking # NoQuote
  /\ asking' = NoQuote
  /\ UNCHANGED <<clock, active_quotes, cancel_timestamps, taken>>

\* Time passes, between two calls and between the requests of one.
ClockTick ==
  /\ clock < MaxClock /\ clock' = clock + 1
  /\ UNCHANGED <<active_quotes, cancel_timestamps, asking, taken>>

QuoteInit ==
  /\ clock = 0 /\ active_quotes = [q \in Quote |-> NoQuote]
  /\ cancel_timestamps = <<>> /\ asking = NoQuote /\ taken = <<>>

QuoteNext ==
  \/ \E q \in Quote : CancelAllowed(q) \/ CancelRefused(q) \/ register_quote(q)
  \/ record_cancel \/ CancelFails \/ ClockTick

QuoteSpec == QuoteInit /\ [][QuoteNext]_quotes

-----------------------------------------------------------------------------
(* Properties *)

\* Recorded cancellations keep to the rolling limit, although the manager asks
\* its question before the requests and records after them, and prunes only
\* when it is asked.
RateSpec == Rate!Spec
=============================================================================

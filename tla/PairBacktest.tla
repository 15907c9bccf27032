---------------------------- MODULE PairBacktest ----------------------------
(***************************************************************************)
(* The trading loop of the pair backtests: run_pair_backtest over bars     *)
(* (backtest/pair_backtest.py) and run_okx_tick_pair_backtest over ticks   *)
(* (backtest/okx_tick_pair_backtest.py), which has a holding limit and     *)
(* keeps the equity of the entry.                                          *)
(*                                                                         *)
(* The spread of a tick, log(b) - beta * log(a), and the return it books,  *)
(* ret_b - beta * ret_a of percentage changes, are two series that the     *)
(* loop reads and never relates; nor does this module.                     *)
(***************************************************************************)
EXTENDS Numbers

CONSTANTS
  EntryZ, ExitZ,  \* entry_z and exit_z
  AllowLong, AllowShort,
  Fee,            \* fee_per_side
  MaxHold,        \* max_hold_ticks
  MaxZ,           \* bound on the z-scores that are finite, either way
  MaxTicks,       \* the ticks of the loop, numbered from 1 (bound)
  Spread,         \* the spread at each tick
  Return          \* returns_b - beta * returns_a at each tick

ASSUME BacktestAssumption ==
  /\ {EntryZ, ExitZ, Fee, MaxHold, MaxZ, MaxTicks} \subseteq Nat
  /\ AllowLong \in BOOLEAN /\ AllowShort \in BOOLEAN
  /\ Spread \in [1 .. MaxTicks -> Int] /\ Return \in [1 .. MaxTicks -> Int]

VARIABLES
  kind,           \* "bar" or "tick"
  idx,            \* the last tick seen, 0 before the first
  position,       \* 1 long spread, -1 short spread, 0 none
  entry_idx, entry_spread, entry_equity,    \* of the last entry
  equity_value,
  trades,         \* the trades reported
  skipped         \* history: the ticks without a finite z-score

ZValue == -MaxZ .. MaxZ

entry == <<entry_idx, entry_spread, entry_equity>>
backtest == <<kind, idx, position, entry, equity_value, trades, skipped>>

-----------------------------------------------------------------------------
NextTick == idx < MaxTicks /\ idx' = idx + 1

\* The side a z-score makes the loop enter on.
Entry(z) ==
  IF AllowLong /\ z <= -EntryZ THEN 1 ELSE IF AllowShort /\ z >= EntryZ THEN -1 ELSE 0

\* exit_long or exit_short.
Reverts(p, z) == IF p = 1 THEN z >= -ExitZ ELSE z <= ExitZ

\* exit_long, exit_short or exit_timeout.
Exits(p, z, hold) == Reverts(p, z) \/ (kind = "tick" /\ hold >= MaxHold)

\* Mutant of pnl: the equity of the entry is taken after its fee.
pnl_after_entry_fee(equity, base) == IF kind = "tick" THEN equity - base + Fee ELSE equity

\* What a trade is reported to have made: a bar's is the equity so far.
pnl(equity, base) == IF kind = "tick" THEN equity - base ELSE equity

\* A z-score that is not finite: the loop goes on to the next tick, in a
\* position or not.
Skip ==
  /\ NextTick
  /\ skipped' = skipped \cup {idx'}
  /\ UNCHANGED <<kind, position, entry, equity_value, trades>>

\* Flat, and no entry.
Flat(z) ==
  /\ NextTick
  /\ position = 0 /\ Entry(z) = 0
  /\ UNCHANGED <<kind, position, entry, equity_value, trades, skipped>>

\* A tick with a position p: it earns its return, the entry's tick too, and may
\* end the trade.
Held(p, z, equity) ==
  LET after == equity + p * Return[idx']
      paid == after - Fee
  IN  IF Exits(p, z, idx' - entry_idx')
      THEN /\ equity_value' = paid
           /\ trades' = Append(trades, [entry_idx |-> entry_idx', exit_idx |-> idx', side |-> p,
                                        entry_spread |-> entry_spread',
                                        exit_spread |-> Spread[idx'],
                                        pnl |-> pnl(paid, entry_equity')])
           /\ position' = 0
      ELSE /\ equity_value' = after /\ position' = p
           /\ UNCHANGED trades

\* Flat, and an entry, which pays its fee.
Enter(z) ==
  /\ NextTick
  /\ position = 0 /\ Entry(z) # 0
  /\ entry_idx' = idx' /\ entry_spread' = Spread[idx'] /\ entry_equity' = equity_value
  /\ Held(Entry(z), z, equity_value - Fee)
  /\ UNCHANGED <<kind, skipped>>

Hold(z) ==
  /\ NextTick
  /\ position # 0
  /\ UNCHANGED <<kind, entry, skipped>>
  /\ Held(position, z, equity_value)

BacktestInit ==
  /\ kind \in {"bar", "tick"}
  /\ idx = 0 /\ position = 0
  /\ entry_idx = 0 /\ entry_spread = 0 /\ entry_equity = 0
  /\ equity_value = 0 /\ trades = <<>> /\ skipped = {}

BacktestNext == Skip \/ \E z \in ZValue : Flat(z) \/ Enter(z) \/ Hold(z)

BacktestSpec == BacktestInit /\ [][BacktestNext]_backtest

-----------------------------------------------------------------------------
(* Properties *)

\* The returns a position could have earned up to each tick seen: those of the
\* ticks that were not skipped.
BookedReturns == PartialSums([i \in 1 .. idx |-> IF i \in skipped THEN 0 ELSE Return[i]])

\* What a position of side p earned from tick a to tick b, both included.
Earned(p, a, b) == p * (BookedReturns[b] - BookedReturns[a - 1])

\* What a trade made: the returns of its ticks, the first and the last too,
\* less two fees.
Gain(t) == Earned(t.side, t.entry_idx, t.exit_idx) - 2 * Fee

\* The sums of the gains: of the first n trades at n.
Gains(ts) == PartialSums([n \in DOMAIN ts |-> Gain(ts[n])])

\* A trade after the one that ended at tick last, with the gains total so far.
\* It reports the spreads of its ticks and what it made, over ticks, or the
\* equity reached, over bars; over ticks it is held beyond the limit only
\* across ticks that were skipped.
ReportsItsTicks(t, last, total) ==
  /\ last < t.entry_idx /\ t.entry_idx <= t.exit_idx
  /\ t.entry_spread = Spread[t.entry_idx] /\ t.exit_spread = Spread[t.exit_idx]
  /\ t.pnl = IF kind = "tick" THEN Gain(t) ELSE total
  /\ kind = "tick" => t.entry_idx + MaxHold .. t.exit_idx - 1 \subseteq skipped

LastExit(n) == IF n = 0 THEN 0 ELSE trades[n].exit_idx

\* The trades do not overlap and each is explained by the ticks it names; and
\* the equity is what they made together, also while a position is open.
TradesAreExplained ==
  /\ \A n \in DOMAIN trades : ReportsItsTicks(trades[n], LastExit(n - 1), Gains(trades)[n])
  /\ equity_value - Gains(trades)[Len(trades)]
       = IF position = 0 THEN 0 ELSE Earned(position, entry_idx, idx) - Fee
=============================================================================

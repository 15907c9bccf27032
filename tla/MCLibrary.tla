------------------------------ MODULE MCLibrary ------------------------------
(***************************************************************************)
(* Components that stand on their own, each on a small instance: the order *)
(* tracker, the closing of an OKX position, the quote manager, the parquet *)
(* buffer, the pair backtests, the discovery of pairs and the portfolio.  A *)
(* behaviour is one of a single component, the unit; the others stay as     *)
(* they begin.                                                             *)
(***************************************************************************)
EXTENDS OrderTracker, OkxClose, QuoteManager, ParquetBuffer,
        PairBacktest, Discover, Portfolio

VARIABLE unit

-----------------------------------------------------------------------------
(* The prices of the backtests: no two sets of ticks earn the same, and no  *)
(* two ticks have the same spread.                                         *)

Spreads == <<5, -3, 8, 0, -9, 4, 1>>
Returns == <<1, -2, 4, 8, -16, -32, 64>>

-----------------------------------------------------------------------------
(* The inputs of the discovery *)

Listing(s, volume, trading) ==
  [symbol |-> s, volume |-> volume, trading |-> trading, valid |-> TRUE]

\* Lists with the anchor first, with a symbol listed twice, with a market that
\* is closed and one without a symbol, and with a number that is none.
Markets ==
  { <<Listing("BTC", 100, TRUE), Listing("X", 10, TRUE), Listing("Y", 20, TRUE)>>,
    <<Listing("Y", 100, TRUE), Listing("X", 100, TRUE), Listing("BTC", 50, TRUE),
      Listing("X", 5, TRUE)>>,
    <<Listing("X", 10, TRUE), Listing(Missing, 10, TRUE), Listing("BTC", 100, FALSE),
      Listing("Y", 30, TRUE)>>,
    <<Listing("X", 10, TRUE), [Listing("BTC", 100, TRUE) EXCEPT !.valid = FALSE],
      Listing("Y", 30, TRUE)>> }

Good == [corr |-> 90, r2 |-> 80, instability |-> 10, half_life |-> 60, penalty |-> 100]
Fair == [corr |-> 75, r2 |-> 40, instability |-> 50, half_life |-> 300, penalty |-> 0]
Weak == [corr |-> 50, r2 |-> 40, instability |-> 10, half_life |-> 60, penalty |-> 0]

\* X is good, weak or unknown in each timeframe; the others are fair in one and
\* good or unknown in the other.
Histories ==
  {[tf \in Timeframe |-> [b \in Symbol |-> [a \in Symbol |->
      IF b = "X" THEN x[tf] ELSE IF tf = "1d" THEN other ELSE Fair]]] :
     x \in [Timeframe -> {Missing, Good, Weak}], other \in {Good, Missing}}

Configuration(anchors, excluded, maxRatio, timeframes, top_k) ==
  [anchors |-> anchors, excluded |-> excluded, minVolume |-> 5, maxVolume |-> 50,
   minRatio |-> 2, maxRatio |-> maxRatio, target |-> 10,
   corr |-> 70, r2 |-> 35, instability |-> 60, shortest |-> 10, longest |-> 600,
   timeframes |-> timeframes, weights |-> [tf \in Timeframe |-> IF tf = "1d" THEN 2 ELSE 1],
   top_k |-> top_k]

Both == <<"1d", "4h">>

Configurations ==
  { Configuration({"BTC"}, {}, 35, <<"1d">>, 1), Configuration({"BTC"}, {}, 35, Both, 2),
    Configuration({"BTC"}, {"X"}, 35, Both, 0), Configuration({}, {}, 100, Both, 3),
    Configuration({}, {"Y"}, 35, Both, 3) }

-----------------------------------------------------------------------------
MCInit ==
  /\ unit \in {"tracker", "close", "quotes", "parquet", "backtest", "pairs", "portfolio"}
  /\ Init /\ CloseInit /\ QuoteInit /\ BufferInit /\ BacktestInit /\ DiscoverInit
  /\ PortfolioInit
  /\ unit # "close" => pos = 0
  /\ unit # "backtest" => kind = "bar"

MCNext ==
  /\ UNCHANGED unit
  /\ \/ unit = "tracker" /\ Next
        /\ UNCHANGED <<close, quotes, parquet, backtest, discovery, portfolio>>
     \/ unit = "close" /\ CloseNext
        /\ UNCHANGED <<tracker, quotes, parquet, backtest, discovery, portfolio>>
     \/ unit = "quotes" /\ QuoteNext
        /\ UNCHANGED <<tracker, close, parquet, backtest, discovery, portfolio>>
     \/ unit = "parquet" /\ BufferNext
        /\ UNCHANGED <<tracker, close, quotes, backtest, discovery, portfolio>>
     \/ unit = "backtest" /\ BacktestNext
        /\ UNCHANGED <<tracker, close, quotes, parquet, discovery, portfolio>>
     \/ unit = "pairs" /\ DiscoverNext
        /\ UNCHANGED <<tracker, close, quotes, parquet, backtest, portfolio>>
     \/ unit = "portfolio" /\ PortfolioNext
        /\ UNCHANGED <<tracker, close, quotes, parquet, backtest, discovery>>

MCSpec ==
  MCInit /\ [][MCNext]_<<unit, tracker, close, quotes, parquet, backtest, discovery, portfolio>>
=============================================================================

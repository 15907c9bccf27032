------------------------------ MODULE Discover ------------------------------
(***************************************************************************)
(* DiscoverEngine of wickhunter/strategy/discover.py, which chooses the    *)
(* pairs to trade: a cycle rebuilds the universe from the exchange's list  *)
(* (universe.py), walks through the anchors and the candidates, scores     *)
(* each pair (pair_selector.py), sorts and keeps the best.                 *)
(*                                                                         *)
(* Ratios, correlations and scores are whole percents.                     *)
(***************************************************************************)
EXTENDS Numbers, Ordering

CONSTANTS
  Symbol, Timeframe,
  MajorSymbol,    \* BTCUSDT and ETHUSDT, the anchors of run_discovery_cycle
  MajorTop,       \* the 5 pairs it keeps
  MajorVolume,    \* the volume it asks for
  Market,         \* the lists an exchange may send
  History,        \* the statistics a pair may have, by timeframe; only the precomputed
                  \* ones of run_discovery_cycle bring a liquidity penalty of their own
  Config,         \* DiscoverConfig, for one timeframe or several
  Missing         \* what a list or a history does not have

Meta == [symbol : Symbol \cup {Missing}, volume : Int, trading : BOOLEAN, valid : BOOLEAN]
Stats == [corr : Int, r2 : Int, instability : Int, half_life : Int, penalty : Int]
Matrix == [Symbol -> [Symbol -> Stats \cup {Missing}]]

ASSUME DiscoverAssumption ==
  /\ MajorTop \in Nat /\ MajorVolume \in Int /\ Missing \notin Symbol \cup Stats \cup Int
  /\ Market \subseteq Seq(Meta)
  /\ History \subseteq [Timeframe -> Matrix]
  /\ \A cfg \in Config :
       /\ {cfg.minVolume, cfg.maxVolume, cfg.minRatio, cfg.maxRatio, cfg.target, cfg.top_k} \subseteq Int
       /\ cfg.timeframes \in Seq(Timeframe) /\ cfg.weights \in [Timeframe -> Nat]

VARIABLES
  active_instruments,   \* the universe, in the order of insertion
  top_pairs,
  cycle                 \* history: the inputs of the last cycle that returned

discovery == <<active_instruments, top_pairs, cycle>>

-----------------------------------------------------------------------------
(* UniverseManager *)

\* Entries without a symbol are passed over; one with a number that is none
\* raises.
Bad(raw) == {i \in DOMAIN raw : raw[i].symbol # Missing /\ ~ raw[i].valid}

\* The entries that are read, up to the first that raises.
Listed(raw) == {i \in DOMAIN raw : raw[i].symbol # Missing /\ \A j \in Bad(raw) : i < j}

Others(raw, i) == {j \in Listed(raw) : raw[j].symbol = raw[i].symbol}

\* A symbol stands in the dictionary where it was listed first, with what was
\* listed last.
FirstListed(raw) == {i \in Listed(raw) : \A j \in Others(raw, i) : i <= j}
LastListed(raw, i) == CHOOSE k \in Others(raw, i) : \A j \in Others(raw, i) : j <= k

update_from_exchange(raw) ==
  LET firsts == InOrder(FirstListed(raw), Ascending(FirstListed(raw)))
  IN  [n \in DOMAIN firsts |-> raw[LastListed(raw, firsts[n])]]

\* A filter keeps the order, so that a set of places tells what it keeps.
filter_by_min_volume(universe, least) == {i \in DOMAIN universe : universe[i].volume >= least}

\* A market that is trading has that status, and the quote asset asked for.  An
\* empty set of allowed symbols allows every symbol.
filter_for_discovery(universe, least, most, allow, deny) ==
  {i \in DOMAIN universe :
    /\ universe[i].trading /\ universe[i].volume >= least
    /\ most # Missing => universe[i].volume <= most
    /\ allow # {} => universe[i].symbol \in allow
    /\ universe[i].symbol \notin deny}

-----------------------------------------------------------------------------
(* PairSelector *)

\* The score of a pair, 0 below the thresholds.
score_pair(stats, limits) ==
  IF \/ stats.corr < limits.corr \/ stats.r2 < limits.r2
     \/ stats.instability > limits.instability
     \/ stats.half_life < limits.shortest \/ stats.half_life > limits.longest
  THEN 0
  ELSE Positive(40 * stats.corr + 35 * stats.r2 - 15 * stats.instability - 10 * stats.penalty)

\* 0 at the target ratio, 100 at the edges of the range.
liquidity_penalty_by_ratio(ratio, cfg) ==
  LET span == IF ratio <= cfg.target THEN cfg.target - cfg.minRatio ELSE cfg.maxRatio - cfg.target
  IN  IF ratio <= 0 \/ ratio \notin cfg.minRatio .. cfg.maxRatio THEN 100
      ELSE IF span <= 0 THEN (IF ratio = cfg.target THEN 0 ELSE 100)
      ELSE Least(100, (100 * Abs(ratio - cfg.target)) \div span)

-----------------------------------------------------------------------------
(* DiscoverEngine *)

\* The timeframes in which both series of a pair are long enough.
Known(history, b, a, cfg) ==
  {i \in DOMAIN cfg.timeframes : history[cfg.timeframes[i]][b][a] # Missing}

Total(w) == PartialSums(w)[Len(w)]

\* The average of a metric over the known timeframes, by their weights.
wavg(history, b, a, cfg, metric) ==
  LET known == Known(history, b, a, cfg)
      weight(i) == cfg.weights[cfg.timeframes[i]]
      used == Total([i \in DOMAIN cfg.timeframes |-> IF i \in known THEN weight(i) ELSE 0])
      total == Total([i \in DOMAIN cfg.timeframes |->
                        IF i \in known THEN weight(i) * history[cfg.timeframes[i]][b][a][metric] ELSE 0])
  IN  IF used > 0 THEN total \div used ELSE 0

\* What a pair scores in a cycle over a configuration; run_auto_discovery is
\* the cycle over one timeframe.
PairScore(history, b, a, cfg) ==
  LET ratio == (100 * b.volume) \div a.volume
      average(metric) == wavg(history, b.symbol, a.symbol, cfg, metric)
  IN  IF Known(history, b.symbol, a.symbol, cfg) = {} \/ a.volume <= 0
           \/ ratio \notin cfg.minRatio .. cfg.maxRatio
      THEN 0
      ELSE score_pair([corr |-> average("corr"), r2 |-> average("r2"),
                       instability |-> average("instability"), half_life |-> average("half_life"),
                       penalty |-> liquidity_penalty_by_ratio(ratio, cfg)], cfg)

\* A pair with its score, as <<place of the anchor, place of the candidate,
\* score>>: the loops keep those with one.
Scored(scores) == {p \in scores : p[3] > 0}

\* The order of the loops, and that of the sort, which is stable.
Earlier(p, q) == p[1] < q[1] \/ (p[1] = q[1] /\ p[2] < q[2])
Before(p, q) == p[3] > q[3] \/ (p[3] = q[3] /\ Earlier(p, q))
Sorting(S) == {pq \in S \X S : Before(pq[1], pq[2])}

Scoring(universe, p) ==
  [a |-> universe[p[1]].symbol, b |-> universe[p[2]].symbol, score |-> p[3]]

\* Mutant of Best: the first scores are kept, and sorted then.
BestOfFirst(universe, scores, k) ==
  LET kept == {p \in Scored(scores) : Cardinality({q \in Scored(scores) : Earlier(q, p)}) < k}
      order == InOrder(kept, Sorting(kept))
  IN  [n \in DOMAIN order |-> Scoring(universe, order[n])]

\* Sorted by score, the best first, and cut.
Best(universe, scores, k) ==
  LET order == InOrder(Scored(scores), Sorting(Scored(scores)))
  IN  [n \in 1 .. Least(k, Cardinality(Scored(scores))) |-> Scoring(universe, order[n])]

\* Thresholds of score_pair that run_discovery_cycle leaves at their defaults.
MajorLimits == [corr |-> 70, r2 |-> 35, instability |-> 60, shortest |-> 10, longest |-> 600]

IsMajor(m) == m.symbol \in MajorSymbol

\* The precomputed statistics of a pair, which may be missing; they hold the
\* penalty too.
MajorScore(matrix, b, a) ==
  IF matrix[b.symbol][a.symbol] = Missing THEN 0
  ELSE score_pair(matrix[b.symbol][a.symbol], MajorLimits)

run_discovery_cycle(raw, matrix) ==
  LET universe == update_from_exchange(raw)
      candidates == filter_by_min_volume(universe, MajorVolume)
      As == {i \in candidates : IsMajor(universe[i])}
      Bs == {i \in candidates : ~ IsMajor(universe[i])}
      scores == {<<p[1], p[2], MajorScore(matrix, universe[p[2]], universe[p[1]])>> : p \in As \X Bs}
  IN  /\ Bad(raw) = {}
      /\ active_instruments' = universe
      /\ top_pairs' = Best(universe, scores, MajorTop)
      /\ cycle' = [kind |-> "major", universe |-> {universe[i] : i \in DOMAIN universe}, matrix |-> matrix]

\* What a configuration keeps: top_k, but at least one.
AtLeastOne(k) == IF k > 1 THEN k ELSE 1

\* run_auto_discovery_multi_tf; without an anchor the cycle ends empty.
run_auto_discovery(raw, history, cfg) ==
  LET universe == update_from_exchange(raw)
      anchors == filter_for_discovery(universe, cfg.minVolume, Missing, cfg.anchors, {})
      candidates == filter_for_discovery(universe, cfg.minVolume, cfg.maxVolume, {},
                                         cfg.excluded \cup cfg.anchors)
      scores == {<<p[1], p[2], PairScore(history, universe[p[2]], universe[p[1]], cfg)>> :
                   p \in anchors \X candidates}
  IN  /\ Bad(raw) = {}
      /\ active_instruments' = universe
      /\ top_pairs' = IF anchors = {} THEN <<>> ELSE Best(universe, scores, AtLeastOne(cfg.top_k))
      /\ cycle' = [kind |-> "auto", universe |-> {universe[i] : i \in DOMAIN universe},
                   history |-> history, cfg |-> cfg]

\* An entry of the list raises out of the cycle: the universe has been cleared
\* and half rebuilt, the pairs are those of the last one.
CycleRaises(raw) ==
  /\ Bad(raw) # {}
  /\ active_instruments' = update_from_exchange(raw)
  /\ UNCHANGED <<top_pairs, cycle>>

DiscoverInit == active_instruments = <<>> /\ top_pairs = <<>> /\ cycle = Missing

DiscoverNext ==
  \E raw \in Market :
    \/ \E history \in History :
         \/ \E tf \in Timeframe : run_discovery_cycle(raw, history[tf])
         \/ \E cfg \in Config : run_auto_discovery(raw, history, cfg)
    \/ CycleRaises(raw)

DiscoverSpec == DiscoverInit /\ [][DiscoverNext]_discovery

-----------------------------------------------------------------------------
(* Properties *)

\* May a pair be chosen in the cycle c, its score aside?
Wanted(c, b, a) ==
  LET cfg == c.cfg
      Open(m) == m.trading /\ m.volume >= cfg.minVolume
  IN  IF c.kind = "major"
      THEN IsMajor(a) /\ ~ IsMajor(b) /\ a.volume >= MajorVolume /\ b.volume >= MajorVolume
      ELSE /\ Open(a) /\ Open(b) /\ b.volume <= cfg.maxVolume
           /\ a.symbol \in cfg.anchors \/ cfg.anchors = {}
           /\ b.symbol \notin cfg.anchors \cup cfg.excluded

ScoreOf(c, b, a) ==
  IF c.kind = "major" THEN MajorScore(c.matrix, b, a) ELSE PairScore(c.history, b, a, c.cfg)

Chosen(c) ==
  {[a |-> p[1].symbol, b |-> p[2].symbol, score |-> ScoreOf(c, p[2], p[1])] :
     p \in {q \in c.universe \X c.universe : Wanted(c, q[2], q[1]) /\ ScoreOf(c, q[2], q[1]) > 0}}

Top(c) == IF c.kind = "major" THEN MajorTop ELSE AtLeastOne(c.cfg.top_k)

\* These are the best pairs of the cycle: as many as asked for if there are,
\* each once, the best first, none left out that scores more than one kept.
BestOf(chosen, top, pairs) ==
  LET kept == {pairs[i] : i \in DOMAIN pairs}
  IN  /\ kept \subseteq chosen
      /\ Len(pairs) = Least(top, Cardinality(chosen))
      /\ Cardinality(kept) = Len(pairs)
      /\ \A i, j \in DOMAIN pairs : i < j => pairs[i].score >= pairs[j].score
      /\ \A left \in chosen \ kept, i \in DOMAIN pairs : left.score <= pairs[i].score

\* The pairs to trade are the best of the last cycle that returned, whatever
\* raised since, and no symbol is paired with itself, unless all symbols are
\* anchors and a volume equal to the anchor's is in range.
TopPairsRanked ==
  cycle # Missing =>
    /\ BestOf(Chosen(cycle), Top(cycle), top_pairs)
    /\ \A i \in DOMAIN top_pairs :
         top_pairs[i].a # top_pairs[i].b
           \/ (cycle.kind = "auto" /\ cycle.cfg.anchors = {} /\ cycle.cfg.maxRatio >= 100)
=============================================================================

-------------------------- MODULE MCBinanceAdapter --------------------------
(* Small instances of BinanceAdapter for TLC. *)
EXTENDS BinanceAdapter, TLC

Symmetry == Permutations(QuoteCid)
=============================================================================

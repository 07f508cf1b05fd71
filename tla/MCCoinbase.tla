----------------------------- MODULE MCCoinbase -----------------------------
(* Instances of Coinbase: one height for each family of coinbase rules.      *)
EXTENDS Coinbase

\* Version 1 at genesis, then 3 (decomposed outputs), 12 (at most the reward)
\* and 13 (exactly the reward and the fees).
Versions == [h \in 0..3 |-> <<1, 3, 12, 13>>[h + 1]]
=============================================================================

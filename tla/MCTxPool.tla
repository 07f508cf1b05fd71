------------------------------ MODULE MCTxPool ------------------------------
(***************************************************************************)
(* Instances of TxPool for TLC.                                            *)
(***************************************************************************)
EXTENDS TxPool, TLC

CONSTANTS t1, t2, t3, k1, k2

\* t1 and t2 spend the same key image k1.  t3 spends k2 and refers to an output of t1.
ImagesConflict == t1 :> {k1} @@ t2 :> {k1} @@ t3 :> {k2}
NeedsFirst     == t1 :> {} @@ t2 :> {} @@ t3 :> {t1}
\* or to none: a block of t3 may come before one of t1 and t2
NeedsNothing   == t1 :> {} @@ t2 :> {} @@ t3 :> {}
Weights        == t1 :> 2 @@ t2 :> 1 @@ t3 :> 2
FeeRanks       == t1 :> 1 @@ t2 :> 2 @@ t3 :> 3

AllAccepted    == [v \in {1, 2} |-> {t1, t2, t3}]
\* the rules of version 2 refuse t1
ForkAccepted   == (1 :> {t1, t2, t3}) @@ (2 :> {t2, t3})

BlocksSmall    == {{t1}, {t2}, {t3}, {t1, t2}}
=============================================================================

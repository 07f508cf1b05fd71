---------------------------- MODULE MCBlockchain ----------------------------
(* Small block trees for Blockchain.  "a" and "b" chains share the transaction x, and the b   *)
(* chain has a branch of its own.                                                           *)
EXTENDS Blockchain, TLC

CONSTANTS g, a1, a2, b1, b2, b3, c3, x, y, z

MCBlocks     == {a1, a2, b1, b2, b3, c3}
MCparent     == a1 :> g @@ a2 :> a1 @@ b1 :> g @@ b2 :> b1 @@ b3 :> b2 @@ c3 :> b2
MCdifficulty == a1 :> 2 @@ a2 :> 1 @@ b1 :> 1 @@ b2 :> 1 @@ b3 :> 2 @@ c3 :> 1
MCtxs        == a1 :> {x} @@ a2 :> {y} @@ b1 :> {} @@ b2 :> {x, z} @@ b3 :> {} @@ c3 :> {x}
BothAccept   == 1 :> {x, y, z} @@ 2 :> {x, y, z}

\* Two equal chains, the second one block longer: enough for pop_blocks and for the fork.
TwoBlocks     == {a1, a2, b1, b2, b3}
TwoParent     == a1 :> g @@ a2 :> a1 @@ b1 :> g @@ b2 :> b1 @@ b3 :> b2
TwoDifficulty == [b \in TwoBlocks |-> 1]
TwoTxs        == a1 :> {} @@ a2 :> {y} @@ b1 :> {} @@ b2 :> {} @@ b3 :> {z}
OldRules      == 1 :> {x, z} @@ 2 :> {x, y, z}
=============================================================================

---------------------------- MODULE MCBlockQueue ----------------------------
(* Peers on one chain, and peers on two chains that part after the first block. *)
EXTENDS BlockQueue, TLC

CONSTANTS c1, c2

SameChain == [c \in {c1, c2} |-> <<"x1", "x2", "x3", "x4">>]
TwoChains == c1 :> <<"x1", "x2", "x3">> @@ c2 :> <<"x1", "y2", "y3">>

BothNetworks == {SameChain, TwoChains}
=============================================================================

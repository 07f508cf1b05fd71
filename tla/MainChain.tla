------------------------------ MODULE MainChain ------------------------------
(***************************************************************************)
(* What the blockchain promises whoever holds m_blockchain_lock: one chain *)
(* of blocks that grows, loses its last block, or is replaced as a whole,  *)
(* in one step, by a chain with more work.  Module Blockchain takes a      *)
(* replacement apart into pops, connected blocks and a possible roll-back. *)
(***************************************************************************)
EXTENDS Integers, Sequences

CONSTANTS
  Blocks,        \* ids of the blocks above the genesis block
  Genesis,       \* id of the genesis block
  parent,        \* [Blocks -> Blocks \cup {Genesis}]
  work,          \* [Blocks \cup {Genesis} -> Nat]: of the chain that ends in a block
  txs            \* [Blocks -> sets of transactions]

VARIABLE chain

\* Each block sits on its parent, and no transaction is in two blocks.
IsChain(c) ==
  /\ c[1] = Genesis
  /\ \A i, k \in 2 .. Len(c) : /\ c[i] \in Blocks
                               /\ parent[c[i]] = c[i - 1]
                               /\ i # k => txs[c[i]] \cap txs[c[k]] = {}

Last(c) == c[Len(c)]

Init == chain = <<Genesis>>

Extend == \E b \in Blocks : IsChain(Append(chain, b)) /\ chain' = Append(chain, b)

Remove == Len(chain) > 1 /\ chain' = SubSeq(chain, 1, Len(chain) - 1)

Replace == IsChain(chain') /\ work[Last(chain')] > work[Last(chain)]

Next == Extend \/ Remove \/ Replace

Spec == Init /\ [][Next]_chain
=============================================================================

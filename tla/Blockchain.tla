----------------------------- MODULE Blockchain -----------------------------
(***************************************************************************)
(* The main chain, the alternative chains and the switch between them      *)
(* (cryptonote_core/blockchain.cpp): add_new_block,                        *)
(* handle_block_to_main_chain, handle_alternative_block,                   *)
(* switch_to_alternative_blockchain, rollback_blockchain_switching and     *)
(* pop_blocks.                                                             *)
(*                                                                         *)
(* A block is known by its id; its parent, difficulty and transactions are *)
(* fixed.  Whether a block passes the checks of its content is fixed too   *)
(* (it depends on the block and its ancestors only) and is chosen in the   *)
(* initial state.  Whether its transactions are at hand depends on the     *)
(* pool, which is the set of transactions it holds (module TxPool has its  *)
(* inside).  A switch of chains is a job that works through its blocks     *)
(* while the locks are held.                                               *)
(***************************************************************************)
EXTENDS Integers, Sequences, FiniteSets

CONSTANTS
  Blocks,        \* ids of the blocks above the genesis block
  Genesis,       \* id of the genesis block
  parent,        \* [Blocks -> Blocks \cup {Genesis}]: prev_id
  difficulty,    \* [Blocks -> Nat]
  Txs,           \* transactions
  txs,           \* [Blocks -> SUBSET Txs]: tx_hashes
  accepted,      \* [{1, 2} -> SUBSET Txs]: what the rules of a version accept
  ForkHeight,    \* blocks from this height on are of version 2
  Faults,        \* the verdicts of this instance
  MaxFaulty,     \* bound: how many blocks fail a check
  Events,        \* which of "pop", "loss" and "restart" happen in this instance
  MaxEvents,     \* bound: how many of them
  Served         \* blocks of the chain the peers follow and keep sending

ASSUME BlockAssumption ==
  /\ Genesis \notin Blocks
  /\ parent \in [Blocks -> Blocks \cup {Genesis}]
  /\ difficulty \in [Blocks -> Nat \ {0}]
  /\ txs \in [Blocks -> SUBSET Txs]
  /\ accepted \in [{1, 2} -> SUBSET Txs]
  /\ ForkHeight \in Nat /\ MaxEvents \in Nat /\ MaxFaulty \in Nat
  /\ Events \subseteq {"pop", "loss", "restart"}
  /\ Served \subseteq Blocks
  /\ Faults \subseteq {"ok", "header", "inputs", "miner"}

\* A block's id is the hash of a block that holds the id of its parent: no block is an ancestor
\* of itself.
ASSUME TreeAssumption ==
  \A S \in SUBSET Blocks : S # {} => \E b \in S : parent[b] \notin S

VARIABLES
  verdict,           \* [Blocks -> Faults]: which check a block fails; never changes
  main,              \* the main chain, from the genesis block to the tail
  alt,               \* the alt_blocks table
  m_invalid_blocks,  \* blocks known to have wrong inputs
  pool,              \* transactions in the pool
  spent,             \* counts the events
  popped,            \* history: pop_blocks was called
  job                \* the switch in progress

vars == <<verdict, main, alt, m_invalid_blocks, pool, spent, popped, job>>

----------------------------------------------------------------------------
(* Verdicts.  "header": any check made before transactions are taken from  *)
(* the pool; "inputs": the input check of one of the transactions;         *)
(* "miner": a check made after the transactions.                           *)

\* The stages of switch_to_alternative_blockchain.
Stages == {"idle", "disconnect", "connect", "rollback", "restore", "orphan"}

\* No switch in progress.  alt_chain, disconnected_chain and split_height are the locals of the
\* function; at and again are the positions in alt_chain and in disconnected_chain; origin, the
\* chain the switch started from, is history.
Idle ==
  [stage |-> "idle", alt_chain |-> <<>>, disconnected_chain |-> <<>>, split_height |-> 0,
   at |-> 1, again |-> 1, origin |-> <<>>]

Elements(s) == { s[i] : i \in DOMAIN s }

get_tail_id == main[Len(main)]

\* Height of a block and cumulative difficulty of the chain that ends in it.
height[b \in Blocks \cup {Genesis}] == IF b = Genesis THEN 0 ELSE height[parent[b]] + 1

cumulative_difficulty[b \in Blocks \cup {Genesis}] ==
  IF b = Genesis THEN 1 ELSE cumulative_difficulty[parent[b]] + difficulty[b]

Mined(c)    == UNION { txs[b] : b \in Elements(c) \ {Genesis} }
Version(h)  == IF h >= ForkHeight THEN 2 ELSE 1

have_block(b) == b \in Elements(main) \cup alt \cup m_invalid_blocks

\* tx_memory_pool::validate, called when the version in force changes with the chain's length.
Validated(p, before, after) ==
  IF Version(before) = Version(after) THEN p ELSE p \cap accepted[Version(after)]

----------------------------------------------------------------------------
(* One block of the main chain. *)

\* handle_block_to_main_chain gets as far as the transactions; `extra' is the supplement.
HeaderPasses(b, extra) ==
  /\ parent[b] = get_tail_id
  /\ verdict[b] # "header"
  /\ extra \subseteq accepted[Version(Len(main))]

\* The transactions it can take: in the pool or the supplement, and not in the chain yet.
AtHand(b, extra) == (txs[b] \cap (pool \cup extra)) \ Mined(main)

Connects(b, extra) ==
  /\ HeaderPasses(b, extra)
  /\ AtHand(b, extra) = txs[b]
  /\ verdict[b] = "ok"

Connect(b) ==
  /\ main' = Append(main, b)
  /\ pool' = Validated(pool \ txs[b], Len(main), Len(main) + 1)
  /\ UNCHANGED m_invalid_blocks

\* Mutant: what was taken is not returned to the pool.
RefuseForgetful(b, extra) ==
  /\ pool' = pool \ txs[b] /\ UNCHANGED main
  /\ \/ /\ HeaderPasses(b, extra) /\ verdict[b] = "inputs" /\ AtHand(b, extra) # {}
        /\ m_invalid_blocks' = m_invalid_blocks \cup {b}
     \/ /\ ~ (HeaderPasses(b, extra) /\ verdict[b] = "inputs" /\ AtHand(b, extra) = txs[b])
        /\ UNCHANGED m_invalid_blocks

\* Mutant: a block whose transactions are missing is remembered as invalid.
RefuseMissing(b, extra) ==
  /\ UNCHANGED <<main, pool>>
  /\ m_invalid_blocks' = m_invalid_blocks \cup {b}

\* handle_block_to_main_chain refuses it.  What it took from the pool goes back.  A block that
\* fails the input check is remembered, unless a transaction before the faulty one was missing.
Refuse(b, extra) ==
  /\ UNCHANGED <<main, pool>>
  /\ \/ /\ HeaderPasses(b, extra) /\ verdict[b] = "inputs" /\ AtHand(b, extra) # {}
        /\ m_invalid_blocks' = m_invalid_blocks \cup {b}
     \/ /\ ~ (HeaderPasses(b, extra) /\ verdict[b] = "inputs" /\ AtHand(b, extra) = txs[b])
        /\ UNCHANGED m_invalid_blocks

\* pop_block_from_blockchain: the transactions go to the pool, as kept by a block.
Pop ==
  /\ main' = SubSeq(main, 1, Len(main) - 1)
  /\ pool' = Validated(pool \cup txs[get_tail_id], Len(main), Len(main) - 1)
  /\ UNCHANGED m_invalid_blocks

----------------------------------------------------------------------------
(* Alternative blocks. *)

\* build_alt_chain: the alternative ancestors of a block, oldest first.
AltAncestors[b \in Blocks \cup {Genesis}] ==
  IF b \notin alt THEN <<>> ELSE Append(AltAncestors[parent[b]], b)

\* handle_alternative_block stores the block: its parent is known, the alternative chain it
\* extends starts below the top of the main chain and connects to it, and its own checks pass.
AltAccepts(b, extra) ==
  LET chain == AltAncestors[parent[b]] IN
  /\ parent[b] \in alt \cup Elements(main)
  /\ chain # <<>> => /\ Len(main) > height[chain[1]]
                     /\ parent[chain[1]] \in Elements(main)
  /\ verdict[b] # "header"
  /\ extra \subseteq accepted[Version(height[b])]
  /\ b \notin alt

Heavier(b) == cumulative_difficulty[get_tail_id] < cumulative_difficulty[b]

----------------------------------------------------------------------------
(* add_new_block: a block arrives, with its transactions or without. *)

ReceiveMain(b, extra) ==
  /\ job = Idle /\ ~ have_block(b)
  /\ parent[b] = get_tail_id
  /\ \/ Connects(b, extra) /\ Connect(b)
     \/ ~ Connects(b, extra) /\ Refuse(b, extra)
  /\ UNCHANGED <<verdict, alt, spent, popped, job>>

\* An alternative block is stored, and its chain adopted when it has more work.
ReceiveAlt(b, extra) ==
  /\ job = Idle /\ ~ have_block(b)
  /\ parent[b] # get_tail_id
  /\ AltAccepts(b, extra)
  /\ alt' = alt \cup {b}
  /\ pool' = pool \cup (extra \ Mined(main))
  /\ job' = IF Heavier(b)
            THEN [Idle EXCEPT !.stage = "disconnect", !.origin = main,
                              !.alt_chain = Append(AltAncestors[parent[b]], b)]
            ELSE job
  /\ UNCHANGED <<verdict, main, m_invalid_blocks, spent, popped>>

Receive(b) ==
  \E extra \in {{}, txs[b]} : ReceiveMain(b, extra) \/ ReceiveAlt(b, extra)

----------------------------------------------------------------------------
(* switch_to_alternative_blockchain. *)

\* Mutant: the list of old blocks is built back to front.
DisconnectReversed ==
  /\ job.stage = "disconnect"
  /\ \/ /\ get_tail_id # parent[job.alt_chain[1]]
        /\ Pop
        /\ job' = [job EXCEPT !.disconnected_chain = Append(@, get_tail_id)]
     \/ /\ get_tail_id = parent[job.alt_chain[1]]
        /\ job' = [job EXCEPT !.stage = "connect", !.split_height = Len(main)]
        /\ UNCHANGED <<main, pool, m_invalid_blocks>>
  /\ UNCHANGED <<verdict, alt, spent, popped>>

Disconnect ==
  /\ job.stage = "disconnect"
  /\ \/ /\ get_tail_id # parent[job.alt_chain[1]]
        /\ Pop
        /\ job' = [job EXCEPT !.disconnected_chain = <<get_tail_id>> \o @]
     \/ /\ get_tail_id = parent[job.alt_chain[1]]
        /\ job' = [job EXCEPT !.stage = "connect", !.split_height = Len(main)]
        /\ UNCHANGED <<main, pool, m_invalid_blocks>>
  /\ UNCHANGED <<verdict, alt, spent, popped>>

ConnectNext ==
  /\ job.stage = "connect" /\ job.at <= Len(job.alt_chain)
  /\ LET b == job.alt_chain[job.at] IN
     \/ /\ Connects(b, {}) /\ Connect(b)
        /\ job' = [job EXCEPT !.at = @ + 1]
     \/ /\ ~ Connects(b, {}) /\ Refuse(b, {})
        /\ job' = [job EXCEPT !.stage = "rollback"]
  /\ UNCHANGED <<verdict, alt, spent, popped>>

\* Mutant: the old blocks are pushed newest first.
PushNextReversed ==
  /\ job.stage = "connect" /\ job.at > Len(job.alt_chain)
  /\ job.again <= Len(job.disconnected_chain)
  /\ LET b == job.disconnected_chain[Len(job.disconnected_chain) + 1 - job.again] IN
     alt' = IF AltAccepts(b, {}) THEN alt \cup {b} ELSE alt
  /\ job' = [job EXCEPT !.again = @ + 1]
  /\ UNCHANGED <<verdict, main, m_invalid_blocks, pool, spent, popped>>

\* Everything is connected: the old blocks become alternative ones; a failure is only logged.
PushNext ==
  /\ job.stage = "connect" /\ job.at > Len(job.alt_chain)
  /\ job.again <= Len(job.disconnected_chain)
  /\ LET b == job.disconnected_chain[job.again] IN
     alt' = IF AltAccepts(b, {}) THEN alt \cup {b} ELSE alt
  /\ job' = [job EXCEPT !.again = @ + 1]
  /\ UNCHANGED <<verdict, main, m_invalid_blocks, pool, spent, popped>>

SwitchDone ==
  /\ job.stage = "connect" /\ job.at > Len(job.alt_chain)
  /\ job.again > Len(job.disconnected_chain)
  /\ alt' = alt \ Elements(job.alt_chain)
  /\ job' = Idle
  /\ UNCHANGED <<verdict, main, m_invalid_blocks, pool, spent, popped>>

\* rollback_blockchain_switching: back to the split, then the old blocks again; it gives up at
\* the first that fails, and its caller does not look at the result.
RollbackPop ==
  /\ job.stage = "rollback"
  /\ \/ /\ Len(main) # job.split_height
        /\ Pop
        /\ UNCHANGED job
     \/ /\ Len(main) = job.split_height
        /\ job' = [job EXCEPT !.stage = "restore"]
        /\ UNCHANGED <<main, pool, m_invalid_blocks>>
  /\ UNCHANGED <<verdict, alt, spent, popped>>

RestoreNext ==
  /\ job.stage = "restore" /\ job.again <= Len(job.disconnected_chain)
  /\ LET b == job.disconnected_chain[job.again] IN
     \/ /\ Connects(b, {}) /\ Connect(b)
        /\ job' = [job EXCEPT !.again = @ + 1]
     \/ /\ ~ Connects(b, {}) /\ Refuse(b, {})
        /\ job' = [job EXCEPT !.stage = "orphan"]
  /\ UNCHANGED <<verdict, alt, spent, popped>>

\* Mutant: the block that failed is kept.
OrphanAltChainLater ==
  /\ \/ job.stage = "restore" /\ job.again > Len(job.disconnected_chain)
     \/ job.stage = "orphan"
  /\ alt' = alt \ { job.alt_chain[i] : i \in job.at + 1 .. Len(job.alt_chain) }
  /\ job' = Idle
  /\ UNCHANGED <<verdict, main, m_invalid_blocks, pool, spent, popped>>

\* The block that failed and those after it are forgotten.
OrphanAltChain ==
  /\ \/ job.stage = "restore" /\ job.again > Len(job.disconnected_chain)
     \/ job.stage = "orphan"
  /\ alt' = alt \ { job.alt_chain[i] : i \in job.at .. Len(job.alt_chain) }
  /\ job' = Idle
  /\ UNCHANGED <<verdict, main, m_invalid_blocks, pool, spent, popped>>

SwitchStep ==
  Disconnect \/ ConnectNext \/ PushNext \/ SwitchDone \/ RollbackPop \/ RestoreNext \/ OrphanAltChain

----------------------------------------------------------------------------
(* The rest of the node. *)

\* pop_blocks; a call for several blocks is several calls for one.  The genesis block stays.
PopBlocks ==
  /\ job = Idle /\ "pop" \in Events /\ spent < MaxEvents
  /\ Len(main) > 1
  /\ Pop
  /\ spent' = spent + 1
  /\ popped' = TRUE
  /\ UNCHANGED <<verdict, alt, job>>

\* The pool takes a relayed transaction, or drops one (timeout, flush_txes).
PoolGains(t) ==
  /\ job = Idle
  /\ t \in accepted[Version(Len(main))] \ (pool \cup Mined(main))
  /\ pool' = pool \cup {t}
  /\ UNCHANGED <<verdict, main, alt, m_invalid_blocks, spent, popped, job>>

PoolLoses(t) ==
  /\ job = Idle /\ "loss" \in Events /\ spent < MaxEvents
  /\ t \in pool
  /\ pool' = pool \ {t}
  /\ spent' = spent + 1
  /\ UNCHANGED <<verdict, main, alt, m_invalid_blocks, popped, job>>

\* A restart forgets the invalid blocks, and the alternative ones unless --keep-alt-blocks.
Restart ==
  /\ job = Idle /\ "restart" \in Events /\ spent < MaxEvents
  /\ m_invalid_blocks' = {}
  /\ alt' \in {alt, {}}
  /\ spent' = spent + 1
  /\ UNCHANGED <<verdict, main, pool, popped, job>>

flush_invalid_blocks ==
  /\ job = Idle
  /\ m_invalid_blocks' = {}
  /\ UNCHANGED <<verdict, main, alt, pool, spent, popped, job>>

----------------------------------------------------------------------------
Init ==
  /\ verdict \in [Blocks -> Faults]
  /\ \A b \in Blocks : verdict[b] = "inputs" => txs[b] # {}
  /\ Cardinality({ b \in Blocks : verdict[b] # "ok" }) <= MaxFaulty
  /\ main = <<Genesis>>
  /\ alt = {} /\ m_invalid_blocks = {} /\ pool = {}
  /\ spent = 0 /\ popped = FALSE
  /\ job = Idle

Next ==
  \/ \E b \in Blocks : Receive(b)
  \/ SwitchStep
  \/ PopBlocks
  \/ \E t \in Txs : PoolGains(t) \/ PoolLoses(t)
  \/ Restart
  \/ flush_invalid_blocks

Spec == Init /\ [][Next]_vars

\* A switch in progress runs to its end; peers send the blocks of their chain again and
\* again, with the transactions, and add_new_block gets the locks again and again.
FairSpec ==
  /\ Spec
  /\ WF_vars(SwitchStep)
  /\ \A b \in Served : SF_vars(ReceiveMain(b, txs[b]) \/ ReceiveAlt(b, txs[b]))

----------------------------------------------------------------------------
(* Properties. *)

\* The chain as whoever takes m_blockchain_lock sees it: a switch in progress holds the lock.
Seen == IF job = Idle THEN main ELSE job.origin

MC == INSTANCE MainChain WITH chain <- Seen, work <- cumulative_difficulty

\* add_new_block and pop_blocks implement a chain that changes in single steps: through every
\* switch, refused block, missing transaction and roll-back, whoever takes the lock finds each
\* block on its parent and no transaction twice; the chain grows by a block, loses its last
\* one to pop_blocks or is replaced by one with more work, and a switch that fails leaves no trace.
ImplementsMainChain == MC!Spec

\* rollback_blockchain_switching removes the blocks that were connected and adds the old ones
\* again: a switch that fails leaves the chain it found.
RollbackRestores ==
  [][job.stage \in {"restore", "orphan"} /\ job' = Idle => main' = job.origin]_vars

\* Until someone pops blocks, the tail has at least the work of every alternative block the node
\* holds, between calls: handle_alternative_block switches as soon as a chain is heavier, and a
\* switch that fails forgets the block that made it heavier.
TailIsHeaviest ==
  job = Idle /\ ~ popped =>
    \A b \in alt : cumulative_difficulty[b] <= cumulative_difficulty[get_tail_id]

\* During a switch no transaction of the chain being replaced is lost: each is in the chain or in
\* the pool (pop_block_from_blockchain and return_txs_to_pool put it there), so the old
\* blocks can be connected again.
OldTxsAtHand == Mined(job.origin) \subseteq pool \cup Mined(main)

\* A switch that succeeds keeps every block it disconnected as an alternative one, so the node
\* can switch back to that chain.
OldChainKept ==
  [][job.stage = "connect" /\ job' = Idle => Elements(job.disconnected_chain) \subseteq alt']_vars

\* Blocks that connect, given that their transactions come with them.
Good[b \in Blocks \cup {Genesis}] ==
  \/ b = Genesis
  \/ Good[parent[b]] /\ verdict[b] = "ok"

\* Unless someone pops blocks, the node ends on a chain with at least the work of the good part of
\* the chain its peers follow: a fork that is long enough is adopted, whatever order its blocks
\* came in and whatever switch failed for want of a transaction before (handle_alternative_block).
Converges ==
  <>[](job = Idle /\ ~ popped => \A b \in Served :
         Good[b] => cumulative_difficulty[b] <= cumulative_difficulty[get_tail_id])

=============================================================================

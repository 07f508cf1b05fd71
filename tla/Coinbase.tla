------------------------------ MODULE Coinbase ------------------------------
(* The money a block may create: get_block_reward, the coinbase transaction  *)
(* that create_block_template builds with it, the check of a coinbase by     *)
(* validate_miner_transaction, and already_generated_coins, the running      *)
(* total kept with every block of the main chain and of the alternatives.    *)
(*                                                                           *)
(* A block is reduced to the true sum of its coinbase outputs, whether every *)
(* output is a digit followed by zeros, and the sum of its fees.  Amounts    *)
(* are unsigned words of the code: sums of the code are taken modulo U64.    *)
EXTENDS Integers, Sequences, SequencesExt, FiniteSets

CONSTANTS
  MONEY_SUPPLY,     \* the coins of the genesis transaction
  U64,              \* 2^64
  MaxHeight,        \* bound on the height of the main chain
  hf_version,       \* the hard fork version in force at each height
  Amounts,          \* sums of coinbase outputs that blocks may carry
  Fees,             \* sums of fees of a block's transactions
  TxWeight,         \* the weight of a pool transaction
  RefWeight,        \* DYNAMIC_FEE_REFERENCE_TRANSACTION_WEIGHT
  MedianWeight,     \* the median the fee is computed from
  FeeMask,          \* the fee quantization mask
  ClampThreshold    \* BASE_REWARD_CLAMP_THRESHOLD

\* GENESIS_TX pays MONEY_SUPPLY, 3 * 10^18, less than half of 2^64.  Balanced
\* transactions cannot pay more in fees than there are coins.
ASSUME CoinbaseAssumption ==
  /\ MONEY_SUPPLY \in Nat \ {0}
  /\ U64 \in Nat /\ 2 * MONEY_SUPPLY < U64
  /\ MaxHeight \in Nat
  /\ hf_version \in [0..MaxHeight -> Nat]
  /\ hf_version[0] = 1
  /\ Amounts \subseteq Nat
  /\ Fees \subseteq 0..MONEY_SUPPLY
  /\ 0 \in Fees
  /\ TxWeight \in Nat \ {0} /\ RefWeight \in Nat /\ MedianWeight \in Nat \ {0}
  /\ FeeMask \in Nat \ {0} /\ ClampThreshold \in Nat \ {0}

VARIABLES
  chain,     \* the main chain, the genesis block first
  coins,     \* already_generated_coins stored with each block of the chain
  alt,       \* height and already_generated_coins of the alternative blocks
  btc,       \* the block template handed to the miner
  found      \* the fate of the last block the miner found

vars == <<chain, coins, alt, btc, found>>

HF_VERSION_EXACT_COINBASE == 13

Block == [money : Nat, decomposed : BOOLEAN, fee : 0..MONEY_SUPPLY]

\* The blocks that peers send: any coinbase, any fees.
PeerBlocks == [money : Amounts, decomposed : BOOLEAN, fee : Fees]

genesis == [money |-> MONEY_SUPPLY, decomposed |-> TRUE, fee |-> 0]

NoTemplate == [prev |-> <<>>, height |-> 0, coins |-> 0, block |-> genesis]

AltRecord == [height : Nat, coins : 0..(U64 - 1)]

\* What a module of this kind may hold: the chain starts at the genesis block
\* and every block has its running total.
TypeOK ==
  /\ chain \in Seq(Block) /\ Len(chain) \in 1..(MaxHeight + 1)
  /\ chain[1] = genesis
  /\ coins \in Seq(0..(U64 - 1)) /\ Len(coins) = Len(chain)
  /\ alt \subseteq AltRecord
  /\ btc \in [prev : Seq(Block), height : Nat, coins : 0..(U64 - 1), block : Block]
  /\ found \in [fee : 0..MONEY_SUPPLY, verdict : {"none", "added", "aside", "failed"}]

----------------------------------------------------------------------------
(* Rewards and fees. *)

get_block_reward(generated) ==
  IF generated >= MONEY_SUPPLY THEN 0
  ELSE IF generated = 0 THEN MONEY_SUPPLY ELSE 0

\* Variant: the total is not capped.
add_uncapped(generated, reward) == (generated + reward) % U64

\* A new total never passes MONEY_SUPPLY.
add_generated(generated, reward) ==
  IF reward < (MONEY_SUPPLY - generated) % U64 THEN generated + reward ELSE MONEY_SUPPLY

get_dynamic_base_fee(reward) ==
  LET lo == ((reward * RefWeight) \div MedianWeight) \div MedianWeight
      fee == lo - (lo \div 20)
  IN  IF fee = 0 THEN 1 ELSE fee

check_fee(fee, generated) ==
  LET needed == TxWeight * get_dynamic_base_fee(get_block_reward(generated))
      quantized == ((needed + FeeMask - 1) \div FeeMask) * FeeMask
  IN  fee >= quantized - (quantized \div 50)

\* The fees of a template: none, or those of transactions the pool let in.
TemplateFees(generated) == {f \in Fees : f = 0 \/ check_fee(f, generated)}

\* Variant: templates keep paying a final subsidy of one coin.
construct_with_subsidy(generated, fee, version) ==
  [money |-> 1, decomposed |-> TRUE, fee |-> fee]

\* Without a reward the coinbase has no output, whatever the fees.
construct_miner_tx(generated, fee, version) ==
  LET reward == get_block_reward(generated)
      paid == IF version \in {2, 3} THEN reward - (reward % ClampThreshold) ELSE reward
  IN  [money |-> paid, decomposed |-> reward = 0 \/ version \in {2, 3}, fee |-> fee]

\* Variant: the outputs are not checked for overflow.
prevalidate_nothing(b) == TRUE

prevalidate_miner_transaction(b) == b.money < U64

ExactCoinbase(version) == version < 2 \/ version >= HF_VERSION_EXACT_COINBASE

money_in_use(b) == b.money % U64

validate_miner_transaction(b, generated, version) ==
  LET base == get_block_reward(generated)
      allowed == (base + b.fee) % U64
  IN  /\ version = 3 => b.decomposed
      /\ money_in_use(b) <= allowed
      /\ IF ExactCoinbase(version)
           THEN money_in_use(b) = allowed
           ELSE (money_in_use(b) - b.fee) % U64 <= base

\* The reward that validate_miner_transaction hands back.
base_reward(b, generated, version) ==
  IF ExactCoinbase(version) THEN get_block_reward(generated)
                            ELSE (money_in_use(b) - b.fee) % U64

----------------------------------------------------------------------------
(* Blocks. *)

tail_coins == coins[Len(coins)]

next_version == hf_version[Len(chain)]

Accepted(b) ==
  /\ prevalidate_miner_transaction(b)
  /\ validate_miner_transaction(b, tail_coins, next_version)

AddToMain(b) ==
  /\ chain' = Append(chain, b)
  /\ coins' = Append(coins, add_generated(tail_coins, base_reward(b, tail_coins, next_version)))

alt_coins(generated, b) == add_generated(generated, money_in_use(b))

AddToAlt(height, generated, b) ==
  alt' = alt \cup {[height |-> height, coins |-> alt_coins(generated, b)]}

----------------------------------------------------------------------------
(* Steps. *)

\* Blockchain::init on an empty database adds the genesis block.
Init ==
  /\ chain = <<genesis>>
  /\ coins = <<add_generated(0, base_reward(genesis, 0, hf_version[0]))>>
  /\ prevalidate_miner_transaction(genesis)
  /\ validate_miner_transaction(genesis, 0, hf_version[0])
  /\ alt = {}
  /\ btc = NoTemplate
  /\ found = [fee |-> 0, verdict |-> "none"]

\* A block on top of the chain: from a peer, or from a branch being switched to.
handle_block_to_main_chain(b) ==
  /\ Len(chain) <= MaxHeight
  /\ Accepted(b)
  /\ AddToMain(b)
  /\ UNCHANGED <<alt, btc, found>>

\* A block elsewhere: on an older block of the chain or on an alternative one.
handle_alternative_block(b) ==
  /\ prevalidate_miner_transaction(b)
  /\ \/ \E i \in 1..(Len(chain) - 1) : AddToAlt(i, coins[i], b)
     \/ \E a \in alt : a.height < MaxHeight /\ AddToAlt(a.height + 1, a.coins, b)
  /\ UNCHANGED <<chain, coins, btc, found>>

pop_block ==
  /\ Len(chain) > 1
  /\ chain' = Front(chain)
  /\ coins' = Front(coins)
  /\ UNCHANGED <<alt, btc, found>>

template(prev, height, generated, fee) ==
  [prev |-> prev, height |-> height, coins |-> generated,
   block |-> construct_miner_tx(generated, fee, hf_version[height])]

\* A template on a block of the main chain, or on an alternative block.
create_block_template ==
  /\ \/ \E i \in 1..Len(chain) :
          /\ i <= MaxHeight
          /\ \E f \in TemplateFees(coins[i]) :
               btc' = template(SubSeq(chain, 1, i), i, coins[i], f)
     \/ \E a \in alt :
          /\ a.height < MaxHeight
          /\ \E f \in TemplateFees(a.coins) :
               btc' = template(<<>>, a.height + 1, a.coins, f)
  /\ UNCHANGED <<chain, coins, alt, found>>

Verdict(v) == found' = [fee |-> btc.block.fee, verdict |-> v]

\* A node that mines goes on with a template on the new tail.
update_miner_block_template ==
  \/ btc' = NoTemplate
  \/ /\ Len(chain') <= MaxHeight
     /\ \E f \in TemplateFees(tail_coins') :
          btc' = template(chain', Len(chain'), tail_coins', f)

\* The miner found a block: it extends the tail it was built on, or it has
\* become an alternative block, or its parent is gone from the chain.
handle_block_found ==
  /\ btc # NoTemplate
  /\ \/ /\ btc.prev = chain
        /\ Accepted(btc.block)
        /\ AddToMain(btc.block)
        /\ Verdict("added")
        /\ UNCHANGED alt
     \/ /\ btc.prev = chain
        /\ ~ Accepted(btc.block)
        /\ Verdict("failed")
        /\ UNCHANGED <<chain, coins, alt>>
     \/ /\ btc.prev # chain
        /\ btc.prev = <<>> \/ IsPrefix(btc.prev, chain)
        /\ prevalidate_miner_transaction(btc.block)
        /\ AddToAlt(btc.height, btc.coins, btc.block)
        /\ Verdict("aside")
        /\ UNCHANGED <<chain, coins>>
     \/ /\ btc.prev # <<>> /\ ~ IsPrefix(btc.prev, chain)
        /\ Verdict("aside")
        /\ UNCHANGED <<chain, coins, alt>>
  /\ update_miner_block_template

Next ==
  \/ \E b \in PeerBlocks : handle_block_to_main_chain(b) \/ handle_alternative_block(b)
  \/ pop_block
  \/ create_block_template
  \/ handle_block_found

Spec == Init /\ [][Next]_vars

----------------------------------------------------------------------------
(* Properties. *)

\* The whole supply is issued by the genesis block and the running total stays
\* at it: no block of the chain or of an alternative, in any order of growth,
\* pops and templates, is stored with another total, from which a later
\* get_block_reward could issue the supply again.
GeneratedIsSupply ==
  /\ \A i \in 1..Len(coins) : coins[i] = MONEY_SUPPLY
  /\ \A a \in alt : a.coins = MONEY_SUPPLY

\* Under every version of the rules a block above genesis that
\* validate_miner_transaction let in pays out, without wrapping, exactly its fees:
\* no coin is created and no fee is burned (fee_burning_test.cpp says fees are).
\* (Not every block that does so is let in: version 3 wants decomposed outputs.)
PaysItsFees ==
  \A i \in 2..Len(chain) : chain[i].money = chain[i].fee

\* A block the miner found from a template without transactions is never
\* refused by the node that built the template.
EmptyBlockAccepted == found.verdict = "failed" => found.fee > 0

\* handle_block_found's assertion "mined block failed verification" never fires.
MinedBlockAccepted == found.verdict # "failed"
=============================================================================

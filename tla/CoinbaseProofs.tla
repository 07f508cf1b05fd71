--------------------------- MODULE CoinbaseProofs ---------------------------
(* Theorems about Coinbase, for every supply, word size, schedule of         *)
(* versions, and every coinbase and fee a block may carry.                   *)
EXTENDS Coinbase, TLAPS, SequenceTheorems

----------------------------------------------------------------------------
(* The rules. *)

\* Once the supply is issued there is no reward and the total stays.
LEMMA IssuedStays ==
  ASSUME NEW r \in Nat
  PROVE  /\ get_block_reward(MONEY_SUPPLY) = 0
         /\ add_generated(MONEY_SUPPLY, r) = MONEY_SUPPLY
<1>1. MONEY_SUPPLY \in Nat /\ U64 \in Nat /\ U64 > 0
  BY CoinbaseAssumption DEF CoinbaseAssumption
<1>2. get_block_reward(MONEY_SUPPLY) = 0
  BY <1>1 DEF get_block_reward
<1>3. (MONEY_SUPPLY - MONEY_SUPPLY) % U64 = 0
  BY <1>1
<1> QED
  BY <1>1, <1>2, <1>3 DEF add_generated

\* Words.
LEMMA SmallMod ==
  ASSUME NEW x \in Nat, x < U64
  PROVE  x % U64 = x
<1>1. U64 \in Nat /\ U64 > 0
  BY CoinbaseAssumption DEF CoinbaseAssumption
<1> QED
  BY <1>1

\* The difference of two words wraps to zero only when they are equal.
LEMMA WrappedDifference ==
  ASSUME NEW x \in Nat, NEW y \in Nat, x <= y, y < U64, (x - y) % U64 = 0
  PROVE  x = y
<1>1. U64 \in Nat /\ U64 > 0
  BY CoinbaseAssumption DEF CoinbaseAssumption
<1>2. CASE x < y
  <2>1. x - y + U64 \in 1..(U64 - 1)
    BY <1>1, <1>2
  <2>2. (x - y) % U64 = x - y + U64
    BY <1>1, <1>2, <2>1
  <2> QED
    BY <2>1, <2>2
<1> QED
  BY <1>2

\* The money of an accepted block, under every version of the rules.
LEMMA AcceptedPaysFees ==
  ASSUME NEW b \in Block, NEW v \in Nat,
         prevalidate_miner_transaction(b),
         validate_miner_transaction(b, MONEY_SUPPLY, v)
  PROVE  b.money = b.fee
<1>1. MONEY_SUPPLY \in Nat /\ U64 \in Nat /\ 2 * MONEY_SUPPLY < U64
  BY CoinbaseAssumption DEF CoinbaseAssumption
<1>2. b.money \in Nat /\ b.fee \in 0..MONEY_SUPPLY
  BY DEF Block
<1>3. b.money < U64 /\ b.fee \in Nat /\ b.fee < U64
  BY <1>1, <1>2 DEF prevalidate_miner_transaction
<1>4. money_in_use(b) = b.money
  BY <1>2, <1>3, SmallMod DEF money_in_use
<1>5. get_block_reward(MONEY_SUPPLY) = 0
  BY IssuedStays
<1>6. (0 + b.fee) % U64 = b.fee
  <2>1. 0 + b.fee = b.fee
    BY <1>3
  <2> QED
    BY <1>3, <2>1, SmallMod
<1>7. b.money <= b.fee
  BY <1>4, <1>5, <1>6 DEF validate_miner_transaction
<1>8. CASE ExactCoinbase(v)
  BY <1>4, <1>5, <1>6, <1>8 DEF validate_miner_transaction
<1>9. CASE ~ ExactCoinbase(v)
  <2>1. (b.money - b.fee) % U64 <= 0
    BY <1>4, <1>5, <1>9 DEF validate_miner_transaction
  <2>2. (b.money - b.fee) % U64 \in 0..(U64 - 1)
    BY <1>1, <1>2
  <2>3. (b.money - b.fee) % U64 = 0
    BY <1>1, <2>1, <2>2
  <2> QED
    BY <1>2, <1>3, <1>7, <2>3, WrappedDifference
<1> QED
  BY <1>8, <1>9

\* A coinbase without outputs and a block without fees is always let in.
LEMMA EmptyIsAccepted ==
  ASSUME NEW b \in Block, NEW v \in Nat,
         b.money = 0, b.fee = 0, b.decomposed
  PROVE  /\ prevalidate_miner_transaction(b)
         /\ validate_miner_transaction(b, MONEY_SUPPLY, v)
<1>1. U64 \in Nat /\ U64 > 0
  BY CoinbaseAssumption DEF CoinbaseAssumption
<1>2. 0 % U64 = 0 /\ (0 + 0) % U64 = 0 /\ (0 - 0) % U64 = 0
  BY <1>1
<1>3. money_in_use(b) = 0
  BY <1>2 DEF money_in_use
<1>4. get_block_reward(MONEY_SUPPLY) = 0
  BY IssuedStays
<1>5. prevalidate_miner_transaction(b)
  BY <1>1 DEF prevalidate_miner_transaction
<1>6. validate_miner_transaction(b, MONEY_SUPPLY, v)
  BY <1>2, <1>3, <1>4 DEF validate_miner_transaction
<1> QED
  BY <1>5, <1>6

----------------------------------------------------------------------------
(* The invariant. *)

\* A template carries the whole supply as its total and an empty coinbase, and
\* a block found with it stays within the bound on the height.
TemplateEmpty ==
  btc # NoTemplate =>
    /\ btc.coins = MONEY_SUPPLY
    /\ btc.block.money = 0
    /\ btc.block.decomposed = TRUE
    /\ Len(btc.prev) <= MaxHeight

ChainOK ==
  /\ chain \in Seq(Block) /\ Len(chain) \in 1..(MaxHeight + 1)
  /\ chain[1] = genesis
  /\ coins \in Seq(0..(U64 - 1)) /\ Len(coins) = Len(chain)
  /\ \A i \in 1..Len(coins) : coins[i] = MONEY_SUPPLY
  /\ PaysItsFees

AltOK == alt \subseteq AltRecord /\ \A a \in alt : a.coins = MONEY_SUPPLY

BtcOK ==
  /\ btc \in [prev : Seq(Block), height : Nat, coins : 0..(U64 - 1), block : Block]
  /\ TemplateEmpty

FoundOK ==
  /\ found \in [fee : 0..MONEY_SUPPLY, verdict : {"none", "added", "aside", "failed"}]
  /\ EmptyBlockAccepted

IInv == ChainOK /\ AltOK /\ BtcOK /\ FoundOK

\* The supply is a word, and a peer's block is a block.
LEMMA Constants ==
  /\ MONEY_SUPPLY \in 0..(U64 - 1)
  /\ PeerBlocks \subseteq Block
  /\ genesis \in Block
<1>1. MONEY_SUPPLY \in 0..(U64 - 1)
  BY CoinbaseAssumption DEF CoinbaseAssumption
<1>2. PeerBlocks \subseteq Block
  BY CoinbaseAssumption DEF CoinbaseAssumption, PeerBlocks, Block
<1>3. genesis \in Block
  BY CoinbaseAssumption DEF CoinbaseAssumption, genesis, Block
<1> QED
  BY <1>1, <1>2, <1>3

LEMMA MoneyIsNat ==
  ASSUME NEW b \in Block
  PROVE  money_in_use(b) \in Nat /\ (money_in_use(b) - b.fee) % U64 \in Nat
<1>1. U64 \in Nat /\ U64 > 0 /\ b.money \in Nat /\ b.fee \in Int
  BY CoinbaseAssumption DEF CoinbaseAssumption, Block
<1>2. money_in_use(b) \in Nat
  BY <1>1 DEF money_in_use
<1>3. (money_in_use(b) - b.fee) % U64 \in Nat
  BY <1>1, <1>2
<1> QED
  BY <1>2, <1>3

\* A total of the chain, the last one included, is the supply.
LEMMA TailIsSupply ==
  ASSUME ChainOK
  PROVE  tail_coins = MONEY_SUPPLY
  BY DEF ChainOK, tail_coins

\* An accepted block keeps the chain in order.
LEMMA MainPreserves ==
  ASSUME ChainOK, NEW b \in Block, Len(chain) <= MaxHeight, Accepted(b), AddToMain(b)
  PROVE  ChainOK'
<1>1. tail_coins = MONEY_SUPPLY
  BY TailIsSupply
<1>2. next_version \in Nat
  BY CoinbaseAssumption DEF CoinbaseAssumption, next_version, ChainOK
<1>3. b.money = b.fee
  BY <1>1, <1>2, AcceptedPaysFees DEF Accepted
<1>4. base_reward(b, MONEY_SUPPLY, next_version) \in Nat
  BY MoneyIsNat, IssuedStays DEF base_reward
<1>5. add_generated(tail_coins, base_reward(b, tail_coins, next_version)) = MONEY_SUPPLY
  BY <1>1, <1>4, IssuedStays
<1>6. chain' = Append(chain, b) /\ coins' = Append(coins, MONEY_SUPPLY)
  BY <1>5 DEF AddToMain
<1>7. /\ chain' \in Seq(Block) /\ Len(chain') \in 1..(MaxHeight + 1)
      /\ chain'[1] = genesis
  BY <1>6, CoinbaseAssumption DEF ChainOK, CoinbaseAssumption
<1>8. /\ coins' \in Seq(0..(U64 - 1)) /\ Len(coins') = Len(chain')
      /\ \A i \in 1..Len(coins') : coins'[i] = MONEY_SUPPLY
  BY <1>6, Constants DEF ChainOK
<1>9. PaysItsFees'
  BY <1>3, <1>6 DEF ChainOK, PaysItsFees
<1> QED
  BY <1>7, <1>8, <1>9 DEF ChainOK

\* A sequence without its last element.
LEMMA FrontFact ==
  ASSUME NEW S, NEW s \in Seq(S), Len(s) > 1
  PROVE  /\ SubSeq(s, 1, Len(s) - 1) \in Seq(S)
         /\ Len(SubSeq(s, 1, Len(s) - 1)) = Len(s) - 1
         /\ \A i \in 1..(Len(s) - 1) : SubSeq(s, 1, Len(s) - 1)[i] = s[i]
  OBVIOUS

\* So does dropping a block above genesis.
LEMMA PopPreserves ==
  ASSUME ChainOK, pop_block
  PROVE  ChainOK'
<1>1. /\ chain' = SubSeq(chain, 1, Len(chain) - 1)
      /\ coins' = SubSeq(coins, 1, Len(coins) - 1)
      /\ Len(chain) > 1
  BY DEF pop_block, Front
<1>2. MaxHeight \in Nat
  BY CoinbaseAssumption DEF CoinbaseAssumption
<1>3. /\ chain' \in Seq(Block) /\ Len(chain') = Len(chain) - 1
      /\ \A i \in 1..(Len(chain) - 1) : chain'[i] = chain[i]
  BY <1>1, FrontFact DEF ChainOK
<1>4. /\ coins' \in Seq(0..(U64 - 1)) /\ Len(coins') = Len(coins) - 1
      /\ \A i \in 1..(Len(coins) - 1) : coins'[i] = coins[i]
  <2>1. coins \in Seq(0..(U64 - 1)) /\ Len(coins) > 1
    BY <1>1 DEF ChainOK
  <2> QED
    BY <1>1, <2>1, FrontFact, Zenon
<1>5. PaysItsFees'
  BY <1>1, <1>3 DEF ChainOK, PaysItsFees
<1> QED
  BY <1>1, <1>2, <1>3, <1>4, <1>5 DEF ChainOK

\* An alternative block on a parent with the whole supply has it too.
LEMMA AltPreserves ==
  ASSUME AltOK, NEW b \in Block, NEW h \in Nat, AddToAlt(h, MONEY_SUPPLY, b)
  PROVE  AltOK'
<1>1. alt_coins(MONEY_SUPPLY, b) = MONEY_SUPPLY
  BY MoneyIsNat, IssuedStays DEF alt_coins
<1> QED
  BY <1>1, Constants DEF AddToAlt, AltOK, AltRecord

\* A template on a parent with the whole supply has an empty coinbase.
LEMMA TemplatePreserves ==
  ASSUME NEW p \in Seq(Block), NEW h \in Nat, NEW f \in Fees, Len(p) <= MaxHeight,
         btc' = template(p, h, MONEY_SUPPLY, f)
  PROVE  BtcOK'
<1> DEFINE b == construct_miner_tx(MONEY_SUPPLY, f, hf_version[h])
<1>1. get_block_reward(MONEY_SUPPLY) = 0
  BY IssuedStays
<1>2. 0 - (0 % ClampThreshold) = 0
  BY CoinbaseAssumption DEF CoinbaseAssumption
<1>3. b = [money |-> 0, decomposed |-> TRUE, fee |-> f]
  BY <1>1, <1>2 DEF construct_miner_tx
<1>4. b \in Block
  BY <1>3, CoinbaseAssumption DEF CoinbaseAssumption, Block
<1>5. btc' = [prev |-> p, height |-> h, coins |-> MONEY_SUPPLY, block |-> b]
  BY DEF template
<1>6. btc' \in [prev : Seq(Block), height : Nat, coins : 0..(U64 - 1), block : Block]
  BY <1>4, <1>5, Constants
<1>7. TemplateEmpty'
  BY <1>3, <1>5 DEF TemplateEmpty
<1> QED
  BY <1>6, <1>7 DEF BtcOK

\* Having no template is fine.
LEMMA NoTemplatePreserves ==
  ASSUME btc' = NoTemplate
  PROVE  BtcOK'
<1>1. <<>> \in Seq(Block)
  OBVIOUS
<1>2. 0 \in 0..(U64 - 1)
  BY CoinbaseAssumption DEF CoinbaseAssumption
<1>3. btc' \in [prev : Seq(Block), height : Nat, coins : 0..(U64 - 1), block : Block]
  BY <1>1, <1>2, Constants DEF NoTemplate
<1>4. TemplateEmpty'
  BY DEF TemplateEmpty, NoTemplate
<1> QED
  BY <1>3, <1>4 DEF BtcOK

\* The template a mining node goes on with.
LEMMA UpdatePreserves ==
  ASSUME ChainOK', update_miner_block_template
  PROVE  BtcOK'
<1>1. CASE btc' = NoTemplate
  BY <1>1, NoTemplatePreserves
<1>2. CASE /\ Len(chain') <= MaxHeight
           /\ \E f \in TemplateFees(tail_coins') :
                btc' = template(chain', Len(chain'), tail_coins', f)
  <2>1. PICK f \in TemplateFees(tail_coins') :
             btc' = template(chain', Len(chain'), tail_coins', f)
    BY <1>2
  <2>2. tail_coins' = MONEY_SUPPLY /\ chain' \in Seq(Block) /\ Len(chain') \in Nat
    BY DEF ChainOK, tail_coins
  <2>3. f \in Fees
    BY <2>1 DEF TemplateFees
  <2> QED
    BY <1>2, <2>1, <2>2, <2>3, TemplatePreserves
<1> QED
  BY <1>1, <1>2 DEF update_miner_block_template

----------------------------------------------------------------------------
(* Initial states and steps. *)

\* The genesis block passes the rules and issues the supply.
LEMMA InitIInv == Init => IInv
<1> SUFFICES ASSUME Init PROVE IInv
  OBVIOUS
<1>1. /\ MONEY_SUPPLY \in Nat /\ MONEY_SUPPLY > 0 /\ U64 \in Nat /\ MONEY_SUPPLY < U64
      /\ hf_version[0] = 1 /\ MaxHeight \in Nat
  BY CoinbaseAssumption DEF CoinbaseAssumption
<1>2. base_reward(genesis, 0, 1) = MONEY_SUPPLY
  BY <1>1 DEF base_reward, ExactCoinbase, get_block_reward
<1>3. (MONEY_SUPPLY - 0) % U64 = MONEY_SUPPLY
  <2>1. MONEY_SUPPLY - 0 = MONEY_SUPPLY
    BY <1>1
  <2> QED
    BY <1>1, <2>1, SmallMod
<1>4. add_generated(0, MONEY_SUPPLY) = MONEY_SUPPLY
  BY <1>1, <1>3 DEF add_generated
<1>5. chain = <<genesis>> /\ coins = <<MONEY_SUPPLY>>
  BY <1>1, <1>2, <1>4 DEF Init
<1>6. ChainOK
  BY <1>1, <1>5, Constants DEF ChainOK, PaysItsFees
<1>7. AltOK
  BY DEF Init, AltOK
<1>8. BtcOK
  <2>1. <<>> \in Seq(Block)
    OBVIOUS
  <2>2. 0 \in 0..(U64 - 1)
    BY <1>1
  <2> QED
    BY <2>1, <2>2, Constants DEF Init, BtcOK, TemplateEmpty, NoTemplate
<1>9. FoundOK
  BY <1>1 DEF Init, FoundOK, EmptyBlockAccepted
<1> QED
  BY <1>6, <1>7, <1>8, <1>9 DEF IInv

\* Any operation on the chain, the alternatives, the template or the miner.
LEMMA NextIInv == IInv /\ [Next]_vars => IInv'
<1> SUFFICES ASSUME IInv, [Next]_vars PROVE IInv'
  OBVIOUS
<1>0. ChainOK /\ AltOK /\ BtcOK /\ FoundOK
  BY DEF IInv
<1>1. ASSUME NEW b \in PeerBlocks, handle_block_to_main_chain(b)
      PROVE  IInv'
  <2>1. ChainOK'
    BY <1>0, <1>1, MainPreserves, Constants DEF handle_block_to_main_chain
  <2>2. AltOK' /\ BtcOK' /\ FoundOK'
    BY <1>0, <1>1 DEF handle_block_to_main_chain, AltOK, BtcOK, TemplateEmpty, FoundOK,
                      EmptyBlockAccepted
  <2> QED
    BY <2>1, <2>2 DEF IInv
<1>2. ASSUME NEW b \in PeerBlocks, handle_alternative_block(b)
      PROVE  IInv'
  <2>1. b \in Block
    BY Constants
  <2>2. ASSUME \E i \in 1..(Len(chain) - 1) : AddToAlt(i, coins[i], b)
        PROVE  AltOK'
    <3>1. PICK i \in 1..(Len(chain) - 1) : AddToAlt(i, coins[i], b)
      BY <2>2
    <3>2. i \in Nat /\ coins[i] = MONEY_SUPPLY
      BY <1>0 DEF ChainOK
    <3> QED
      BY <1>0, <2>1, <3>1, <3>2, AltPreserves
  <2>3. ASSUME \E a \in alt : a.height < MaxHeight /\ AddToAlt(a.height + 1, a.coins, b)
        PROVE  AltOK'
    <3>1. PICK a \in alt : AddToAlt(a.height + 1, a.coins, b)
      BY <2>3
    <3>2. a.height + 1 \in Nat /\ a.coins = MONEY_SUPPLY
      BY <1>0 DEF AltOK, AltRecord
    <3> QED
      BY <1>0, <2>1, <3>1, <3>2, AltPreserves
  <2>4. AltOK'
    BY <1>2, <2>2, <2>3 DEF handle_alternative_block
  <2>5. ChainOK' /\ BtcOK' /\ FoundOK'
    BY <1>0, <1>2 DEF handle_alternative_block, ChainOK, PaysItsFees, BtcOK, TemplateEmpty,
                      FoundOK, EmptyBlockAccepted
  <2> QED
    BY <2>4, <2>5 DEF IInv
<1>3. CASE pop_block
  <2>1. ChainOK'
    BY <1>0, <1>3, PopPreserves
  <2>2. AltOK' /\ BtcOK' /\ FoundOK'
    BY <1>0, <1>3 DEF pop_block, AltOK, BtcOK, TemplateEmpty, FoundOK, EmptyBlockAccepted
  <2> QED
    BY <2>1, <2>2 DEF IInv
<1>4. CASE create_block_template
  <2>1. ASSUME NEW i \in 1..Len(chain), i <= MaxHeight, NEW f \in TemplateFees(coins[i]),
               btc' = template(SubSeq(chain, 1, i), i, coins[i], f)
        PROVE  BtcOK'
    <3>1. coins[i] = MONEY_SUPPLY /\ i \in Nat /\ f \in Fees
      BY <1>0 DEF ChainOK, TemplateFees
    <3>2. SubSeq(chain, 1, i) \in Seq(Block) /\ Len(SubSeq(chain, 1, i)) <= MaxHeight
      BY <1>0, <2>1 DEF ChainOK
    <3> QED
      BY <2>1, <3>1, <3>2, TemplatePreserves
  <2>2. ASSUME NEW a \in alt, NEW f \in TemplateFees(a.coins),
               btc' = template(<<>>, a.height + 1, a.coins, f)
        PROVE  BtcOK'
    <3>1. a.coins = MONEY_SUPPLY /\ a.height + 1 \in Nat /\ f \in Fees
      BY <1>0 DEF AltOK, AltRecord, TemplateFees
    <3>2. <<>> \in Seq(Block) /\ Len(<<>>) <= MaxHeight
      BY CoinbaseAssumption DEF CoinbaseAssumption
    <3> QED
      BY <2>2, <3>1, <3>2, TemplatePreserves
  <2>3. BtcOK'
    BY <1>4, <2>1, <2>2 DEF create_block_template
  <2>4. ChainOK' /\ AltOK' /\ FoundOK'
    BY <1>0, <1>4 DEF create_block_template, ChainOK, PaysItsFees, AltOK, FoundOK,
                      EmptyBlockAccepted
  <2> QED
    BY <2>3, <2>4 DEF IInv
<1>5. CASE handle_block_found
  <2>1. /\ btc.block \in Block /\ btc.height \in Nat /\ btc.coins = MONEY_SUPPLY
        /\ btc.block.money = 0 /\ btc.block.decomposed = TRUE
        /\ btc.block.fee \in 0..MONEY_SUPPLY
        /\ btc.prev = chain => Len(chain) <= MaxHeight
    BY <1>0, <1>5 DEF handle_block_found, BtcOK, TemplateEmpty, Block
  <2>2. ASSUME NEW v \in {"added", "aside"}, Verdict(v)
        PROVE  FoundOK'
    BY <2>1, <2>2 DEF Verdict, FoundOK, EmptyBlockAccepted
  <2>3. ASSUME ~ Accepted(btc.block), Verdict("failed"), Len(chain) <= MaxHeight
        PROVE  FoundOK'
    <3>1. next_version \in Nat /\ tail_coins = MONEY_SUPPLY
      BY <1>0, <2>3, TailIsSupply, CoinbaseAssumption DEF CoinbaseAssumption, next_version, ChainOK
    <3>2. btc.block.fee # 0
      BY <2>1, <2>3, <3>1, EmptyIsAccepted DEF Accepted
    <3>3. btc.block.fee > 0
      BY <2>1, <3>2, CoinbaseAssumption DEF CoinbaseAssumption
    <3> QED
      BY <2>1, <2>3, <3>3 DEF Verdict, FoundOK, EmptyBlockAccepted
  <2>4. ASSUME /\ btc.prev = chain
               /\ Accepted(btc.block)
               /\ AddToMain(btc.block)
               /\ Verdict("added")
               /\ UNCHANGED alt
        PROVE  ChainOK' /\ AltOK' /\ FoundOK'
    <3>1. ChainOK'
      BY <1>0, <2>1, <2>4, MainPreserves
    <3>2. AltOK'
      BY <1>0, <2>4 DEF AltOK
    <3> QED
      BY <2>2, <2>4, <3>1, <3>2
  <2>5. ASSUME /\ btc.prev = chain
               /\ ~ Accepted(btc.block)
               /\ Verdict("failed")
               /\ UNCHANGED <<chain, coins, alt>>
        PROVE  ChainOK' /\ AltOK' /\ FoundOK'
    <3>1. ChainOK' /\ AltOK'
      BY <1>0, <2>5 DEF ChainOK, PaysItsFees, AltOK
    <3> QED
      BY <2>1, <2>3, <2>5, <3>1
  <2>6. ASSUME /\ AddToAlt(btc.height, btc.coins, btc.block)
               /\ Verdict("aside")
               /\ UNCHANGED <<chain, coins>>
        PROVE  ChainOK' /\ AltOK' /\ FoundOK'
    <3>1. AltOK'
      BY <1>0, <2>1, <2>6, AltPreserves
    <3>2. ChainOK'
      BY <1>0, <2>6 DEF ChainOK, PaysItsFees
    <3> QED
      BY <2>2, <2>6, <3>1, <3>2
  <2>7. ASSUME Verdict("aside") /\ UNCHANGED <<chain, coins, alt>>
        PROVE  ChainOK' /\ AltOK' /\ FoundOK'
    <3>1. ChainOK' /\ AltOK'
      BY <1>0, <2>7 DEF ChainOK, PaysItsFees, AltOK
    <3> QED
      BY <2>2, <2>7, <3>1
  <2>8. ChainOK' /\ AltOK' /\ FoundOK'
    BY <1>5, <2>4, <2>5, <2>6, <2>7 DEF handle_block_found
  <2>9. BtcOK'
    BY <1>5, <2>8, UpdatePreserves DEF handle_block_found
  <2> QED
    BY <2>8, <2>9 DEF IInv
<1>6. CASE UNCHANGED vars
  BY <1>0, <1>6 DEF vars, IInv, ChainOK, PaysItsFees, AltOK, BtcOK, TemplateEmpty, FoundOK,
                    EmptyBlockAccepted
<1> QED
  BY <1>1, <1>2, <1>3, <1>4, <1>5, <1>6 DEF Next

----------------------------------------------------------------------------
(* Theorems. *)

\* The chain, the alternatives, the template and the miner's verdicts stay in
\* the inductive invariant.
THEOREM CoinbaseInvariant == Spec => []IInv
  BY InitIInv, NextIInv, PTL DEF Spec

\* The variables keep their types and every chain starts at the genesis block
\* that Blockchain::init added.
THEOREM TypeCorrect == Spec => []TypeOK
<1>1. IInv => TypeOK
  BY DEF IInv, ChainOK, AltOK, BtcOK, FoundOK, TypeOK
<1> QED
  BY <1>1, CoinbaseInvariant, PTL

\* The supply is issued once: every total that handle_block_to_main_chain and
\* handle_alternative_block store is MONEY_SUPPLY.
THEOREM SupplyIssuedOnce == Spec => []GeneratedIsSupply
<1>1. IInv => GeneratedIsSupply
  BY DEF IInv, ChainOK, AltOK, GeneratedIsSupply
<1> QED
  BY <1>1, CoinbaseInvariant, PTL

\* Under every schedule of versions validate_miner_transaction lets in only
\* blocks that pay out exactly their fees.
THEOREM CoinsConserved == Spec => []PaysItsFees
<1>1. IInv => PaysItsFees
  BY DEF IInv, ChainOK
<1> QED
  BY <1>1, CoinbaseInvariant, PTL

\* handle_block_found refuses no block found from a template without fees.
THEOREM EmptyTemplatesWork == Spec => []EmptyBlockAccepted
<1>1. IInv => EmptyBlockAccepted
  BY DEF IInv, FoundOK
<1> QED
  BY <1>1, CoinbaseInvariant, PTL
=============================================================================

------------------------------- MODULE TxPool -------------------------------
(***************************************************************************)
(* The transaction pool (cryptonote_core/tx_pool.cpp) and the calls the    *)
(* blockchain makes into it while it adds, refuses and pops blocks         *)
(* (cryptonote_core/blockchain.cpp).                                       *)
(*                                                                         *)
(* The pool lives in two places: `pool' is the txpool table of the         *)
(* database, the rest of the pool is memory: the index of spent key        *)
(* images, the container sorted by fee, the running weight, the cache of   *)
(* input checks, the list of timed out transactions and the cached block   *)
(* template.                                                               *)
(*                                                                         *)
(* All operations hold the pool lock.  The ones that work through a list   *)
(* of transactions are a `job': one step per transaction, and nothing else *)
(* runs until the job is done.  The order within a job is left open (the   *)
(* code's order is that of a block, or of hashes in the database).         *)
(***************************************************************************)
EXTENDS Integers, Sequences, FiniteSets, FiniteSetsExt

CONSTANTS
  Txs,               \* transactions (by hash)
  KeyImages,         \* key images
  images,            \* [Txs -> non-empty sets of key images]
  needs,             \* [Txs -> sets of transactions whose outputs it refers to]
  weight,            \* [Txs -> weights]
  fee_rank,          \* [Txs -> Nat]: higher is a higher fee per unit of weight
  accepted,          \* [{1, 2} -> SUBSET Txs]: what the rules of a version accept
  ForkHeight,        \* version 2 is in force once the chain has this many blocks
  max_weight,        \* m_txpool_max_weight
  MineStem,          \* m_mine_stem_txes
  max_total_weight,  \* the largest block a template may fill
  Relays,            \* relay methods transactions arrive with
  Blocks,            \* transaction sets of blocks
  MaxBlocks,         \* bound: blocks above the first one
  MaxDrift           \* bound: how far above the pool's weight the running total may be
                     \* for another transaction to arrive

RelayOrder == <<"none", "local", "forward", "stem", "fluff", "block">>

ASSUME TxAssumption ==
  /\ images \in [Txs -> SUBSET KeyImages \ {{}}]
  /\ needs \in [Txs -> SUBSET Txs]
  /\ weight \in [Txs -> Nat \ {0}]
  /\ fee_rank \in [Txs -> Nat]
  /\ \A t, u \in Txs : fee_rank[t] = fee_rank[u] => t = u
  /\ accepted \in [{1, 2} -> SUBSET Txs]

ASSUME PoolAssumption ==
  /\ ForkHeight \in Nat /\ max_weight \in Nat /\ max_total_weight \in Nat
  /\ MaxBlocks \in Nat /\ MaxDrift \in Nat
  /\ MineStem \in BOOLEAN
  /\ Relays \subseteq {"none", "local", "forward", "stem", "fluff"}
  /\ Blocks \subseteq SUBSET Txs

VARIABLES
  chain,                     \* the blocks above the first one, each a set of transactions
  pool,                      \* the txpool table: transaction -> meta data
  m_spent_key_images,        \* key image -> pool transactions that spend it
  m_txs_by_fee,              \* transactions in the sorted container
  m_txpool_weight,           \* running total
  m_timed_out_transactions,  \* transactions that were removed as stuck
  m_input_cache,             \* transaction -> result of its input check
  m_btc,                     \* the cached block template, while it may be reused
  job                        \* what the holder of the lock is doing

vars == <<chain, pool, m_spent_key_images, m_txs_by_fee, m_txpool_weight,
          m_timed_out_transactions, m_input_cache, m_btc, job>>

NoTemplate == [valid |-> FALSE, txs |-> {}]
NoChain    == <<{}, "never">>   \* null_hash: no chain top
NoMetas    == [t \in {} |-> {}]

\* What the lock's holder is doing: todo is left of the list it works through.
Job(kind, todo) == [kind |-> kind, todo |-> todo, block |-> {}, extra |-> {}, pooled |-> {}, before |-> {},
                    current |-> {}, restore |-> {}, metas |-> NoMetas]
Idle == Job("idle", {})

----------------------------------------------------------------------------
(* The chain as the pool sees it. *)

Mined(c)   == UNION { c[i] : i \in DOMAIN c }
Spent(c)   == UNION { images[t] : t \in Mined(c) }
Version(c) == IF Len(c) >= ForkHeight THEN 2 ELSE 1

\* Blockchain::check_tx_inputs: the outputs referred to exist, no key image is
\* spent on the chain, and the version's rules on inputs are met.
InputsOK(t) ==
  /\ needs[t] \subseteq Mined(chain)
  /\ images[t] \cap Spent(chain) = {}
  /\ t \in accepted[Version(chain)]

----------------------------------------------------------------------------
(* Meta data and relay methods. *)

RelayRank(r) == CHOOSE i \in DOMAIN RelayOrder : RelayOrder[i] = r

NewMeta(relay, seen) == [relay |-> relay, double_spend_seen |-> seen, last_failed_id |-> NoChain]

kept_by_block(t) == pool[t].relay = "block"

\* txpool_tx_matches_category(t, legacy): false for a transaction not in the pool.
MatchesLegacy(t) == t \in DOMAIN pool /\ pool[t].relay \in {"none", "fluff", "block"}

Without(f, S) == [t \in DOMAIN f \ S |-> f[t]]
With(f, t, v) == [u \in DOMAIN f \cup {t} |-> IF u = t THEN v ELSE f[u]]

WeightOf(S) == MapThenSumSet(LAMBDA t : weight[t], S)

----------------------------------------------------------------------------
(* add_tx and take_tx, as the values they compute. *)

have_tx_keyimges_as_spent(t) ==
  \E k \in images[t] :
    /\ m_spent_key_images[k] # {}
    /\ \/ m_spent_key_images[k] # {t}
       \/ MatchesLegacy(t)

\* The index fails to take t as a whole or not at all: a relayed transaction was
\* just found unspent, and one from a block is refused when it is already public.
insert_key_images_ok(t, relay) ==
  \A k \in images[t] :
    /\ relay # "block" => m_spent_key_images[k] \subseteq {t}
    /\ t \notin m_spent_key_images[k] \/ ~MatchesLegacy(t)

IndexWith(t) == [k \in KeyImages |-> m_spent_key_images[k] \cup (IF k \in images[t] THEN {t} ELSE {})]

IndexWithout(index, S) == [k \in KeyImages |-> index[k] \ S]

check_tx_inputs(t, kept) ==
  IF ~kept /\ t \in DOMAIN m_input_cache THEN m_input_cache[t] ELSE InputsOK(t)

CacheWith(t, kept) ==
  IF kept \/ t \in DOMAIN m_input_cache THEN m_input_cache
  ELSE With(m_input_cache, t, InputsOK(t))

\* What prune removes: from the lowest fee up, as long as the weight is above the
\* limit, never the best paying one and never one kept by a block.
PruneSet(table, sorted, total) ==
  LET cand  == { t \in sorted : /\ \E u \in sorted : fee_rank[u] > fee_rank[t]
                                /\ t \in DOMAIN table
                                /\ table[t].relay # "block" }
      lower(t) == { u \in cand : fee_rank[u] < fee_rank[t] }
  IN  { t \in cand : total - WeightOf(lower(t)) > max_weight }

reduce_txpool_weight(total, w) == IF w > total THEN 0 ELSE total - w

\* The dandelion++ loop rule: a stem transaction that comes back as stem is fluffed.
EffectiveRelay(t, relay) ==
  IF relay = "stem" /\ t \in DOMAIN pool /\ pool[t].relay = "stem" THEN "fluff" ELSE relay

\* Mutant: a transaction that timed out is welcome again.
RefusedNotTimedOut(t, kept, version, nic, fee_good) ==
  \/ version # nic /\ t \notin accepted[version]
  \/ ~kept /\ ~fee_good

\* Early returns of add_tx before the inputs are looked at.  fee_good stands for the
\* relay rules that do not depend on the pool: fee, size of extra, unlock time.
RefusedAtOnce(t, kept, version, nic, fee_good) ==
  \/ ~kept /\ t \in m_timed_out_transactions
  \/ version # nic /\ t \notin accepted[version]
  \/ ~kept /\ ~fee_good

\* add_tx enters t, or enters it again with a higher relay method.
Enters(t, relay) ==
  /\ insert_key_images_ok(t, relay)
  /\ IF check_tx_inputs(t, relay = "block")
     THEN t \in DOMAIN pool => RelayRank(EffectiveRelay(t, relay)) > RelayRank(pool[t].relay)
     ELSE relay = "block" /\ t \notin DOMAIN pool

\* add_tx reports success without a change of the table: t is there already with a
\* relay method at least as high.
AlreadyThere(t, relay) ==
  /\ check_tx_inputs(t, relay = "block")
  /\ t \in DOMAIN pool
  /\ RelayRank(EffectiveRelay(t, relay)) <= RelayRank(pool[t].relay)

\* Mutant: that a block had it is not recorded.
MetaEnteredRelayed(t, relay) ==
  IF check_tx_inputs(t, relay = "block")
  THEN NewMeta(IF relay = "block" THEN "fluff" ELSE EffectiveRelay(t, relay), FALSE)
  ELSE NewMeta(relay, have_tx_keyimges_as_spent(t))

MetaEntered(t, relay) ==
  IF check_tx_inputs(t, relay = "block")
  THEN NewMeta(EffectiveRelay(t, relay), FALSE)
  ELSE NewMeta(relay, have_tx_keyimges_as_spent(t))

\* Mutant: prune leaves the key images of what it removes.
AccountKeepImages(t, table, index, sorted) ==
  LET total == m_txpool_weight + weight[t]
      out   == PruneSet(table, sorted, total)
  IN  /\ pool' = Without(table, out)
      /\ m_spent_key_images' = index
      /\ m_txs_by_fee' = sorted \ out
      /\ m_txpool_weight' = reduce_txpool_weight(total, WeightOf(out))
      /\ m_btc' = NoTemplate

\* The end of a successful add_tx: the weight grows, the cookie moves on, prune runs.
Account(t, table, index, sorted) ==
  LET total == m_txpool_weight + weight[t]
      out   == PruneSet(table, sorted, total)
  IN  /\ pool' = Without(table, out)
      /\ m_spent_key_images' = IndexWithout(index, out)
      /\ m_txs_by_fee' = sorted \ out
      /\ m_txpool_weight' = reduce_txpool_weight(total, WeightOf(out))
      /\ m_btc' = NoTemplate

\* mark_double_spend(t): every pool transaction with a key image of t is marked.
mark_double_spend(t) ==
  LET marked == { u \in DOMAIN pool : \E k \in images[t] : u \in m_spent_key_images[k] }
  IN  /\ pool' = [u \in DOMAIN pool |-> IF u \in marked THEN [pool[u] EXCEPT !.double_spend_seen = TRUE]
                                        ELSE pool[u]]
      /\ m_btc' = IF pool' = pool THEN m_btc ELSE NoTemplate

\* add_tx as a whole; `added' is its result.
add_tx(t, relay, version, nic, fee_good, added) ==
  LET kept == relay = "block"
  IN  \/ /\ ~added
         /\ RefusedAtOnce(t, kept, version, nic, fee_good)
         /\ UNCHANGED <<pool, m_spent_key_images, m_txs_by_fee, m_txpool_weight, m_input_cache, m_btc>>
      \/ /\ ~added
         /\ ~RefusedAtOnce(t, kept, version, nic, fee_good)
         /\ ~kept /\ have_tx_keyimges_as_spent(t)
         /\ mark_double_spend(t)
         /\ UNCHANGED <<m_spent_key_images, m_txs_by_fee, m_txpool_weight, m_input_cache>>
      \/ /\ ~RefusedAtOnce(t, kept, version, nic, fee_good)
         /\ kept \/ ~have_tx_keyimges_as_spent(t)
         /\ m_input_cache' = CacheWith(t, kept)
         /\ \/ /\ added /\ Enters(t, relay)
               /\ Account(t, With(pool, t, MetaEntered(t, relay)), IndexWith(t), m_txs_by_fee \cup {t})
            \/ /\ added /\ AlreadyThere(t, relay)
               /\ Account(t, pool, m_spent_key_images, m_txs_by_fee)
            \/ /\ ~added /\ ~Enters(t, relay) /\ ~AlreadyThere(t, relay)
               /\ m_btc' = IF insert_key_images_ok(t, relay) /\ kept THEN NoTemplate ELSE m_btc
               /\ UNCHANGED <<pool, m_spent_key_images, m_txs_by_fee, m_txpool_weight>>

\* Mutant: the transaction stays in the sorted container.
take_tx_keep_sorted(t) ==
  /\ pool' = Without(pool, {t})
  /\ m_spent_key_images' = IndexWithout(m_spent_key_images, {t})
  /\ m_txs_by_fee' = m_txs_by_fee
  /\ m_txpool_weight' = reduce_txpool_weight(m_txpool_weight, weight[t])
  /\ m_btc' = NoTemplate

take_tx(t) ==
  /\ pool' = Without(pool, {t})
  /\ m_spent_key_images' = IndexWithout(m_spent_key_images, {t})
  /\ m_txs_by_fee' = m_txs_by_fee \ {t}
  /\ m_txpool_weight' = reduce_txpool_weight(m_txpool_weight, weight[t])
  /\ m_btc' = NoTemplate

----------------------------------------------------------------------------
(* Transactions that arrive one at a time. *)

Locked == job # Idle

DriftBounded == m_txpool_weight <= WeightOf(DOMAIN pool) + MaxDrift

\* core::add_new_tx: a transaction from a peer, the RPC or a wallet.
RelayTx(t, relay) ==
  /\ ~Locked
  /\ DriftBounded
  /\ ~MatchesLegacy(t) /\ t \notin Mined(chain)
  /\ \E fee_good, added \in BOOLEAN : add_tx(t, relay, Version(chain), 0, fee_good, added)
  /\ UNCHANGED <<chain, m_timed_out_transactions, job>>

\* handle_alternative_block: a transaction that came with an alternative block.
SupplementTx(t) ==
  /\ ~Locked
  /\ DriftBounded
  /\ ~MatchesLegacy(t) /\ t \notin Mined(chain)
  /\ \E v \in {1, 2}, added \in BOOLEAN :
       t \in accepted[v] /\ add_tx(t, "block", v, v, TRUE, added)
  /\ UNCHANGED <<chain, m_timed_out_transactions, job>>

\* Mutant: the relay method is set, not upgraded.
SetRelayedAnyway(t, relay) ==
  /\ ~Locked
  /\ t \in DOMAIN pool
  /\ pool' = [pool EXCEPT ![t].relay = relay]
  /\ m_txs_by_fee' = IF relay = "fluff" THEN m_txs_by_fee \cup {t} ELSE m_txs_by_fee
  /\ UNCHANGED <<chain, m_spent_key_images, m_txpool_weight, m_timed_out_transactions, m_input_cache, m_btc, job>>

\* set_relayed, after t was sent to peers with the given method.
SetRelayed(t, relay) ==
  /\ ~Locked
  /\ t \in DOMAIN pool
  /\ RelayRank(relay) > RelayRank(pool[t].relay)
  /\ pool' = [pool EXCEPT ![t].relay = relay]
  /\ m_txs_by_fee' = IF relay = "fluff" THEN m_txs_by_fee \cup {t} ELSE m_txs_by_fee
  /\ UNCHANGED <<chain, m_spent_key_images, m_txpool_weight, m_timed_out_transactions, m_input_cache, m_btc, job>>

\* Mutant: the cookie does not move.
RemoveStuckSilently(stuck) ==
  /\ ~Locked
  /\ stuck # {} /\ stuck \subseteq DOMAIN pool
  /\ pool' = Without(pool, stuck)
  /\ m_spent_key_images' = IndexWithout(m_spent_key_images, stuck)
  /\ m_txs_by_fee' = m_txs_by_fee \ stuck
  /\ m_txpool_weight' = reduce_txpool_weight(m_txpool_weight, WeightOf(stuck))
  /\ m_timed_out_transactions' = m_timed_out_transactions \cup stuck
  /\ m_btc' = m_btc
  /\ UNCHANGED <<chain, m_input_cache, job>>

\* remove_stuck_transactions: the set `stuck' is older than the pool keeps.
RemoveStuck(stuck) ==
  /\ ~Locked
  /\ stuck # {} /\ stuck \subseteq DOMAIN pool
  /\ pool' = Without(pool, stuck)
  /\ m_spent_key_images' = IndexWithout(m_spent_key_images, stuck)
  /\ m_txs_by_fee' = m_txs_by_fee \ stuck
  /\ m_txpool_weight' = reduce_txpool_weight(m_txpool_weight, WeightOf(stuck))
  /\ m_timed_out_transactions' = m_timed_out_transactions \cup stuck
  /\ m_btc' = NoTemplate
  /\ UNCHANGED <<chain, m_input_cache, job>>

\* Blockchain::flush_txes_from_pool.
FlushTx(t) ==
  /\ ~Locked
  /\ t \in DOMAIN pool
  /\ take_tx(t)
  /\ UNCHANGED <<chain, m_timed_out_transactions, m_input_cache, job>>

----------------------------------------------------------------------------
(* Mining. *)

Eligible(t) == MatchesLegacy(t) \/ (MineStem /\ t \in DOMAIN pool /\ pool[t].relay = "stem")

\* is_transaction_ready_to_go.
Ready(t) == pool[t].last_failed_id # chain /\ check_tx_inputs(t, FALSE)

\* fill_block_template, by decreasing fee: fill[S] is the set `in' the template and the
\* set `asked' whose readiness was looked at, once the transactions of S were considered.
Fill ==
  LET lowest(S) == CHOOSE t \in S : \A u \in S : fee_rank[t] <= fee_rank[u]
      fill[S \in SUBSET (m_txs_by_fee \cap DOMAIN pool)] ==
        IF S = {} THEN [in |-> {}, asked |-> {}]
        ELSE LET t     == lowest(S)
                 f     == fill[S \ {t}]
                 asked == Eligible(t) /\ WeightOf(f.in) + weight[t] <= max_total_weight
                 in    == asked /\ Ready(t) /\ \A u \in f.in : images[u] \cap images[t] = {}
             IN  [in    |-> IF in THEN f.in \cup {t} ELSE f.in,
                  asked |-> IF asked THEN f.asked \cup {t} ELSE f.asked]
  IN  fill[m_txs_by_fee \cap DOMAIN pool]

\* create_block_template when the cached one cannot be reused.
CreateBlockTemplate ==
  /\ ~Locked
  /\ ~m_btc.valid
  /\ LET f      == Fill
         fresh  == { t \in f.asked : pool[t].last_failed_id # chain }
         failed == { t \in fresh : ~check_tx_inputs(t, FALSE) }
     IN  /\ m_btc' = [valid |-> TRUE, txs |-> f.in]
         /\ m_input_cache' = [t \in DOMAIN m_input_cache \cup fresh |-> check_tx_inputs(t, FALSE)]
         /\ pool' = [t \in DOMAIN pool |-> IF t \in failed THEN [pool[t] EXCEPT !.last_failed_id = chain]
                                           ELSE pool[t]]
  /\ UNCHANGED <<chain, m_spent_key_images, m_txs_by_fee, m_txpool_weight, m_timed_out_transactions, job>>

----------------------------------------------------------------------------
(* Blocks on top of the main chain: handle_block_to_main_chain. *)

PoolUnchanged == UNCHANGED <<pool, m_spent_key_images, m_txs_by_fee, m_txpool_weight, m_btc>>

\* A block arrives; `extra' are the transactions sent along with it, which were checked
\* against the version's rules.
BlockBegin(b, extra) ==
  /\ ~Locked
  /\ extra \subseteq accepted[Version(chain)]
  /\ Len(chain) < MaxBlocks
  /\ job' = [Job("block", b) EXCEPT !.block = b, !.extra = extra, !.before = b \cap DOMAIN pool]
  /\ PoolUnchanged
  /\ UNCHANGED <<chain, m_timed_out_transactions, m_input_cache>>

\* return_txs_to_pool takes over: only what was found in the pool goes back.
Refuse(pooled) == job' = [Job("return", pooled) EXCEPT !.before = job.before]

\* Mutant: what was taken for a failing check is forgotten.
BlockTxForgetful(t) ==
  LET found  == t \in DOMAIN pool
      pooled == IF found THEN job.pooled \cup {t} ELSE job.pooled
  IN  /\ job.kind = "block" /\ t \in job.todo
      /\ \/ /\ t \in Mined(chain)
            /\ Refuse(job.pooled)
            /\ PoolUnchanged
         \/ /\ t \notin Mined(chain)
            /\ ~found /\ t \notin job.extra
            /\ Refuse(job.pooled)
            /\ PoolUnchanged
         \/ /\ t \notin Mined(chain)
            /\ found \/ t \in job.extra
            /\ IF found THEN take_tx(t) ELSE PoolUnchanged
            /\ IF InputsOK(t)
               THEN job' = [job EXCEPT !.todo = @ \ {t}, !.pooled = pooled]
               ELSE Refuse(job.pooled)
      /\ UNCHANGED <<chain, m_timed_out_transactions, m_input_cache>>

\* One transaction of the block: not on the chain yet, taken from the pool or from
\* the ones sent along, and its inputs checked.
BlockTx(t) ==
  LET found  == t \in DOMAIN pool
      pooled == IF found THEN job.pooled \cup {t} ELSE job.pooled
  IN  /\ job.kind = "block" /\ t \in job.todo
      /\ \/ /\ t \in Mined(chain)
            /\ Refuse(job.pooled)
            /\ PoolUnchanged
         \/ /\ t \notin Mined(chain)
            /\ ~found /\ t \notin job.extra
            /\ Refuse(job.pooled)
            /\ PoolUnchanged
         \/ /\ t \notin Mined(chain)
            /\ found \/ t \in job.extra
            /\ IF found THEN take_tx(t) ELSE PoolUnchanged
            /\ IF InputsOK(t)
               THEN job' = [job EXCEPT !.todo = @ \ {t}, !.pooled = pooled]
               ELSE Refuse(pooled)
      /\ UNCHANGED <<chain, m_timed_out_transactions, m_input_cache>>

\* The checks after the transactions fail (the miner transaction), or the database
\* refuses a key image that two transactions of the block share.
BlockRefused ==
  /\ job.kind = "block" /\ job.todo = {}
  /\ Refuse(job.pooled)
  /\ PoolUnchanged
  /\ UNCHANGED <<chain, m_timed_out_transactions, m_input_cache>>

\* Mutant: the pool is not validated.
AfterChainChangeNothing ==
  job' = Idle

\* What follows a change of the chain: when the version in force changed, the whole
\* pool is validated under the new one.
AfterChainChange ==
  job' = IF Version(chain') # Version(chain)
         THEN [Job("validate", DOMAIN pool) EXCEPT !.metas = pool]
         ELSE Idle

BlockConnected ==
  /\ job.kind = "block" /\ job.todo = {}
  /\ \A t, u \in job.block : t # u => images[t] \cap images[u] = {}
  /\ chain' = Append(chain, job.block)
  /\ m_input_cache' = NoMetas
  /\ m_btc' = NoTemplate
  /\ AfterChainChange
  /\ UNCHANGED <<pool, m_spent_key_images, m_txs_by_fee, m_txpool_weight, m_timed_out_transactions>>

\* return_txs_to_pool, one transaction.
ReturnTx(t) ==
  /\ job.kind = "return" /\ t \in job.todo
  /\ \E added \in BOOLEAN : add_tx(t, "block", Version(chain), Version(chain), TRUE, added)
  /\ job' = [job EXCEPT !.todo = @ \ {t}]
  /\ UNCHANGED <<chain, m_timed_out_transactions>>

ReturnDone ==
  /\ job.kind = "return" /\ job.todo = {}
  /\ job' = Idle
  /\ PoolUnchanged
  /\ UNCHANGED <<chain, m_timed_out_transactions, m_input_cache>>

----------------------------------------------------------------------------
(* A block taken off the chain: pop_block_from_blockchain. *)

PopBegin ==
  /\ ~Locked
  /\ chain # <<>>
  /\ chain' = SubSeq(chain, 1, Len(chain) - 1)
  /\ job' = [Job("pop", chain[Len(chain)]) EXCEPT !.block = chain[Len(chain)]]
  /\ PoolUnchanged
  /\ UNCHANGED <<m_timed_out_transactions, m_input_cache>>

PopTx(t) ==
  /\ job.kind = "pop" /\ t \in job.todo
  /\ \E added \in BOOLEAN : add_tx(t, "block", Version(chain), Version(chain), TRUE, added)
  /\ job' = [job EXCEPT !.todo = @ \ {t}]
  /\ UNCHANGED <<chain, m_timed_out_transactions>>

\* Mutant: on_blockchain_dec keeps the cached input checks.
PopDoneKeepCache ==
  /\ job.kind = "pop" /\ job.todo = {}
  /\ m_input_cache' = m_input_cache
  /\ m_btc' = NoTemplate
  /\ job' = IF Version(Append(chain, job.block)) # Version(chain)
            THEN [Job("validate", DOMAIN pool) EXCEPT !.metas = pool]
            ELSE Idle
  /\ UNCHANGED <<chain, pool, m_spent_key_images, m_txs_by_fee, m_txpool_weight, m_timed_out_transactions>>

PopDone ==
  /\ job.kind = "pop" /\ job.todo = {}
  /\ m_input_cache' = NoMetas
  /\ m_btc' = NoTemplate
  /\ job' = IF Version(Append(chain, job.block)) # Version(chain)
            THEN [Job("validate", DOMAIN pool) EXCEPT !.metas = pool]
            ELSE Idle
  /\ UNCHANGED <<chain, pool, m_spent_key_images, m_txs_by_fee, m_txpool_weight, m_timed_out_transactions>>

----------------------------------------------------------------------------
(* tx_memory_pool::validate, for the version now in force. *)

\* Out with the next one.  When prune already removed it there is nothing to add back.
ValidateTake(t) ==
  /\ job.kind = "validate" /\ job.current = {} /\ job.restore = {} /\ t \in job.todo
  /\ IF t \in DOMAIN pool
     THEN /\ take_tx(t)
          /\ job' = [job EXCEPT !.todo = @ \ {t}, !.current = {t}]
     ELSE /\ PoolUnchanged
          /\ job' = [job EXCEPT !.todo = @ \ {t}]
  /\ UNCHANGED <<chain, m_timed_out_transactions, m_input_cache>>

\* Back in with its relay method, under the rules of the version now in force.
ValidateAdd(t) ==
  /\ job.kind = "validate" /\ job.current = {t}
  /\ \E fee_good, added \in BOOLEAN :
       /\ add_tx(t, job.metas[t].relay, Version(chain), 0, fee_good, added)
       /\ job' = [job EXCEPT !.current = {}, !.restore = IF added THEN {t} ELSE {}]
  /\ UNCHANGED <<chain, m_timed_out_transactions>>

\* update_txpool_tx: the meta data it had when validate started, unless prune took it.
ValidateRestore(t) ==
  /\ job.kind = "validate" /\ job.restore = {t}
  /\ pool' = IF t \in DOMAIN pool THEN [pool EXCEPT ![t] = job.metas[t]] ELSE pool
  /\ job' = [job EXCEPT !.restore = {}]
  /\ UNCHANGED <<chain, m_spent_key_images, m_txs_by_fee, m_txpool_weight, m_timed_out_transactions, m_input_cache, m_btc>>

ValidateDone ==
  /\ job.kind = "validate" /\ job.todo = {} /\ job.current = {} /\ job.restore = {}
  /\ job' = Idle
  /\ m_btc' = NoTemplate
  /\ UNCHANGED <<chain, pool, m_spent_key_images, m_txs_by_fee, m_txpool_weight, m_timed_out_transactions, m_input_cache>>

----------------------------------------------------------------------------
(* Restart: everything but the database is rebuilt by tx_memory_pool::init. *)

\* insert_key_images for every entry of the table: first those not kept by a block.
InitAccepts(table) ==
  \A t \in DOMAIN table : table[t].relay # "block" =>
    \A u \in DOMAIN table : u # t /\ table[u].relay # "block" => images[t] \cap images[u] = {}

Restart ==
  /\ ~Locked
  /\ InitAccepts(pool)
  /\ m_spent_key_images' = [k \in KeyImages |-> { t \in DOMAIN pool : k \in images[t] }]
  /\ m_txs_by_fee' = DOMAIN pool
  /\ m_txpool_weight' = WeightOf(DOMAIN pool)
  /\ m_timed_out_transactions' = {}
  /\ m_input_cache' = NoMetas
  /\ m_btc' = NoTemplate
  /\ UNCHANGED <<chain, pool, job>>

----------------------------------------------------------------------------
Init ==
  /\ chain = <<>>
  /\ pool = NoMetas
  /\ m_spent_key_images = [k \in KeyImages |-> {}]
  /\ m_txs_by_fee = {}
  /\ m_txpool_weight = 0
  /\ m_timed_out_transactions = {}
  /\ m_input_cache = NoMetas
  /\ m_btc = NoTemplate
  /\ job = Idle

\* The steps of the thread that holds the lock.
JobStep ==
  \/ \E t \in Txs : BlockTx(t) \/ ReturnTx(t) \/ PopTx(t)
  \/ \E t \in Txs : ValidateTake(t) \/ ValidateAdd(t) \/ ValidateRestore(t)
  \/ BlockRefused
  \/ BlockConnected
  \/ ReturnDone
  \/ PopDone
  \/ ValidateDone

Next ==
  \/ \E t \in Txs, relay \in Relays : RelayTx(t, relay)
  \/ \E t \in Txs, relay \in Relays : SetRelayed(t, relay)
  \/ \E t \in Txs : SupplementTx(t)
  \/ \E t \in Txs : FlushTx(t)
  \/ \E stuck \in SUBSET Txs : RemoveStuck(stuck)
  \/ CreateBlockTemplate
  \/ \E b \in Blocks : \E extra \in SUBSET b : BlockBegin(b, extra)
  \/ PopBegin
  \/ Restart
  \/ JobStep

Spec == Init /\ [][Next]_vars

----------------------------------------------------------------------------
(* Properties. *)

\* The index of spent key images holds exactly the pool's transactions, each under each
\* of its key images, whatever add_tx, take_tx, prune, validate and init did.
KeyImageIndex ==
  \A k \in KeyImages : m_spent_key_images[k] = { t \in DOMAIN pool : k \in images[t] }

\* Two transactions that arrived by relay never spend the same key image: this is what
\* init insists on, so a node can always be restarted with the pool it has.
OneRelayedSpender == InitAccepts(pool)

\* The container that mining and pruning walk holds what the table holds.
SortedMatchesPool == m_txs_by_fee = DOMAIN pool

\* A cached result of an input check is still the result on the chain as it is now.
InputCacheCoherent ==
  job.kind # "pop" => \A t \in DOMAIN m_input_cache : m_input_cache[t] = InputsOK(t)

\* A template that is still handed out can be mined: all of it is in the pool, passes the
\* input checks on the chain as it is now and no key image is spent twice.
TemplateMinable ==
  ~Locked /\ m_btc.valid =>
    /\ m_btc.txs \subseteq DOMAIN pool
    /\ \A t \in m_btc.txs : InputsOK(t) /\ Eligible(t)
    /\ \A t, u \in m_btc.txs : t # u => images[t] \cap images[u] = {}
    /\ WeightOf(m_btc.txs) <= max_total_weight

\* A transaction that timed out is only back in the pool because a block had it.
TimedOutOnlyByBlock ==
  \A t \in m_timed_out_transactions \cap DOMAIN pool : kept_by_block(t)

\* After a fork, no relayed transaction of the pool breaks the rules of the version in
\* force: what the old rules let in was thrown out by validate.
PoolMeetsVersion ==
  ~Locked => \A t \in DOMAIN pool : kept_by_block(t) \/ t \in accepted[Version(chain)]

\* The transactions of a refused block that were in the pool when it came (job.before, a
\* history of the run) are all there again when it is done.
RefusedBlockReturnsAll ==
  job.kind = "return" => job.before \subseteq job.todo \cup DOMAIN pool

\* A transaction that stays in the pool never becomes more private than it was.
RelayNeverDowngraded ==
  [][\A t \in DOMAIN pool \cap DOMAIN pool' : RelayRank(pool'[t].relay) >= RelayRank(pool[t].relay)]_vars

=============================================================================

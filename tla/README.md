# Oxyra node: TLA+ verification project

Oxyra is a fork of the Monero node. This directory keeps TLA+ models of the parts of the
node whose correctness rests on long sequences of operations by several actors: which
rules are in force, what the transaction pool holds, which chain the node is on and what it
remembers of it, what it downloads from whom and over what connection, how its threads wait
for each other, and how many coins exist. Paths below are relative to the
repository's `src/` directory (`src/cryptonote_core/...`).

## 1. Inventory

| Part | State | Operations | Talks to | What is hard |
|---|---|---|---|---|
| Hard fork state machine (`cryptonote_basic/hardfork.cpp`) | window of votes, fork index, `hf_versions` table | `add`, `on_block_popped`, `reorganize_from_chain_height`, `init` | block database, chain switches | three algorithms maintain the same state; pops leave table entries behind |
| Transaction pool (`cryptonote_core/tx_pool.cpp`) | txpool table; in memory: key image index, fee order, weight, input cache, time-outs, block template | add, take, prune, validate, relay, time-out, template, restart | blocks connected, refused, popped; database batches | memory and table maintained apart; jobs that prune what they iterate over |
| Main and alternative chains (`cryptonote_core/blockchain.cpp`) | main chain, `alt_blocks`, `m_invalid_blocks` | add, alternative block, switch, roll-back, pop, restart | pool, hard fork | partial failure in a switch |
| Block download queue (`cryptonote_protocol/block_queue.cpp`) | spans, `requested_hashes`, `have_blocks` | reserve, fill, flush, remove | protocol handler threads | threads act between two calls; lost connections |
| Coin emission (`cryptonote_basic_impl.cpp`, `cryptonote_tx_utils.cpp`, `blockchain.cpp`) | `already_generated_coins` per block, template | coinbase construction and validation, fees | miner, chain | unsigned arithmetic; builder and validator apart |
| Chain caches (`blockchain.cpp`, `contrib/epee/include/rolling_median.h`) | difficulty window, long-term weight median, effective median | moved by each block, asked by RPC threads | pops, switches, batches | staleness; two views of the chain |
| Protocol synchronisation (`cryptonote_protocol_handler.inl`) | state per connection | handshake, standby, idle kick | queue | liveness |
| TCP connections and levin calls (`contrib/epee/include/net`) | state and queues of a connection; pending handlers, timers | start, read, write, throttle, interrupt, terminate; invoke, answer, time-out, close | sockets, the protocol handler | time-out against late answer, closing from several threads |
| Dandelion++ (`levin_notify.cpp`, `net/dandelionpp.cpp`) | stem map, fluff queues | epoch change, relay | pool, peers | stale mapping |
| Peer lists (`p2p/`) | white, gray, anchor lists | add, promote, evict | connections | limits |
| Thread pool (`common/threadpool.cpp`) | queue, waiters | submit, run, wait | blocks, transactions, wallet, DNS | waiters that run others' jobs, exceptions |
| Miner threads (`miner.cpp`) | pause count | pause, resume | templates | lost resume |
| LMDB storage (`blockchain_db/lmdb`) | transaction gate and count, batch | begin, resize, batch start/stop/abort | everything | deadlock at a resize |
| RPC payments, wallet, multisig | credits; wallet chain; key exchange rounds | | | duplicates, reorganisations |
| Cryptography, RPC translation, command line, catalogues of translated messages, Swift bridge | none, or bytes | | | not a matter for a model checker |

`PROJECT.json` lists every part with its status and every hazard with its line.

## 2. Modules

Each component has one module with its state, actions and properties, an `MC` module with
small instances for TLC, and, where theorems are proved, a `Proofs` module (two for `LevinConnection`).
Definitions keep the names of the C++ functions and members they stand for. Operators
marked *Mutant* in their comments are wrong variants of the definition after them; they are
not part of any specification and serve to show that the properties can fail.

### HardFork
`chain` and `hf_versions` are database tables, `versions` and `current_fork_index` the
members of the object. `last_versions` is the histogram of `versions` and is not a variable.
Operations run under the blockchain lock; `phase` says where a chain switch stands, and
keeps other operations out, since a switch calls the object many times under one lock.
`AddBlock`, `PopBlock`, `Restart` are the single calls; `SwitchBegin`, `SwitchPop`,
`SwitchAdd`, `SwitchSucceed`, `SwitchFail`, `RollbackPop`, `RollbackReorganize`,
`RestoreBlock`, `RestoreDone`, `RescanStep`, `RescanDone` are the steps of
`switch_to_alternative_blockchain`, `rollback_blockchain_switching` and of the loop of
`reorganize_from_block_height`.

### TxPool and TxPoolBatch
`pool` is the txpool table, `m_spent_key_images`, `m_txs_by_fee`, `m_txpool_weight`,
`m_timed_out_transactions`, `m_input_cache` and `m_btc` are memory. `job` is what the holder
of the pool lock is doing: handling a block (`BlockBegin`, `BlockTx`, then `BlockConnected`
or `BlockRefused`), returning transactions (`ReturnTx`), popping a block (`PopBegin`,
`PopTx`, `PopDone`), or validating the pool after a fork was crossed (`ValidateTake`,
`ValidateAdd`, `ValidateRestore`, `ValidateDone`). The pruning at the end of every addition
is part of the addition. Single-call operations are `RelayTx`, `SetRelayed`,
`SupplementTx`, `FlushTx`, `RemoveStuck`, `CreateBlockTemplate` and `Restart`.
Transactions are model values with key images, a weight, a fee rank, the transactions they
refer to and the versions that accept them. `TxPoolBatch` composes the pool with the database
batch around incoming blocks, which is rolled back when `add_block` throws; after a block that
failed the batch gets no other (`NextBlock`).

### Blockchain
`main`, `alt`, `m_invalid_blocks` are the tables; `pool` is reduced to the set of
transactions at hand; `job` is a switch in progress with the locals of
`switch_to_alternative_blockchain`. What a block fails on (nothing, its header, its inputs,
its miner transaction) is fixed per block and chosen in the initial state, so each run covers
every combination. `ReceiveMain` and `ReceiveAlt` are `add_new_block`; `Disconnect`,
`ConnectNext`, `PushNext`, `SwitchDone`, `RollbackPop`, `RestoreNext`, `OrphanAltChain` are the
steps of a switch; `PopBlocks`, `Restart`, `PoolGains`, `PoolLoses` and
`flush_invalid_blocks` are the environment and the console.

`MainChain` is the abstract specification: one chain that grows by a block, loses one, or is
replaced in one step by a chain with more work. `Blockchain` implements it
(`ImplementsMainChain`) with the chain seen by whoever gets `m_blockchain_lock`: `main` between
calls, and the chain the switch began with while one is in progress.

### RollingMedian and ChainCaches
`RollingMedian` has the functions of `rolling_median_t`: two heaps that grow from the middle of
one array, addressed by positive and negative indices, and a circular queue of the last `N` items.
`ChainCaches` has the caches of `Blockchain` in one record `c`, with a rolling median inside: the
window of timestamps and difficulties with the height and id it belongs to, the difficulty it
gave for a top block, the long-term weights and the effective median, twice which templates are
filled up to. No block is refused for its weight: `get_block_reward` ignores it in this
fork. `committed` is the chain other threads see while a batch is open; `AskDifficulty` is an RPC thread that reads
it and moves the same caches. `AddBlock`, `Switch` (with its roll-back), `PopBlocks`,
`PopBlocksFails`, `AltBlock`, `BatchStart`, `BatchStop`, `BatchAbort` and `Restart` are the calls of
the writer. The fork version is fixed per behaviour: "old" stands for 5 to 9, "long term" for
12 to 14 and "scaling" for 15 on, the three ways the limit is computed.

### BlockQueue
`blocks`, `requested_hashes`, `have_blocks` are the members of `block_queue`. `asked` is what
each connection waits for, `adding` the span the thread with `m_sync_lock` is working on:
`StartAdding` and `FinishAdding` are separate steps because `try_add_next_blocks` does
not hold the queue's mutex in between. `Request`, `RequestNext`, `Response`, `Drop`, `Orphan`
and `OldSpan` are the calls of the protocol handler.

### LevinConnection and AsyncCalls
`tcp` is `m_state` of class `connection`, with the operations it waits for and those it cancelled;
`handlers`, `timer`, `timer_cancelled`, `results` are the calls of `async_invoke`; `pc` and `left`
are the threads that send, `release` and `recv` the threads in `cancel_handler` and `handle_recv`.
A handler of the io_context is one action, cut where it gives up `m_state.lock`. An operation that
was cancelled may still have completed, so its handler may find either result. Time-outs may
happen at any time. `AsyncCalls` is what a caller is promised: a call is refused at once, or its
callback is called once, with the answer or an error (`Safety`), and eventually.

### ThreadPool, LmdbEnv and NodeThreads
`ThreadPool` and `LmdbEnv` have the calls of `tools::threadpool` and of the transactions of
`BlockchainLMDB` as fragments of actions; `NodeThreads` composes them with the recursive locks
`m_incoming_tx_lock`, `m_transactions_lock` and `m_blockchain_lock`. A routine of the node or the
wallet is written as the sequence of its calls that can wait, or that others wait for (`Code`);
`stack` has the routines each thread is in, as a thread that waits for its jobs takes other
threads' jobs meanwhile. `setting` is fixed: which pool threads there are and what each other thread
executes. A job may throw: through the queue this sets the error of its waiter (`EndRoutine`),
and when `submit` ran the job itself the caller unwinds, through the destructor of its waiter
(`Unwound`). `CloseGate`, `Drained` and `Resize` are `do_resize`, which `batch_start` may need.

### Coinbase
A block is the true sum of its coinbase outputs, whether the outputs are decomposed, and its
fees. Sums of the code are taken modulo `U64`. `chain` and `coins` are the main chain with its
running totals, `alt` the totals stored with alternative blocks, `btc` the template,
`found` the verdict on the last block the miner found.
In this fork the genesis transaction pays the whole supply and `get_block_reward` is then
zero for ever.

### How the modules fit together
`HardFork` and `TxPool` both see chain switches; `Blockchain` has the switch itself, with the
pool and the versions reduced to what it reads. The reductions are those the other modules
justify: `TxPool` shows that a refused block gives the pool its transactions back
(`RefusedBlockReturnsAll`), on which `OldTxsAtHand` of `Blockchain` relies, and `HardFork` shows
that a roll-back is not refused by a block's version (`RestoreAccepted`). `ChainCaches` has its own
small tree, and takes a switch as one step of the lock's holder, as `ImplementsMainChain` allows.
That a batch belongs to one thread, which `ChainCaches` and `TxPoolBatch` assume, is `BatchIsMine`
of `NodeThreads`.

## 3. Runs

| Run | Shows |
|---|---|
| `hardfork_scheduled` | three forks at fixed heights, as in the shipped tables: through growth, pops, switches, failed switches and restarts, the version in force depends on the height alone, the table matches the chain, roll-backs are accepted, and the window is the one of the last blocks but for the entries that pops put in front, of which a switch or a restart leaves none |
| `hardfork_voted` | forks that need votes, on a chain that only grows (`GrowSpec`): the window is exact, a version in force was earned, a restart changes nothing |
| `txpool_fork` | two conflicting transactions and a dependent one in a pool too small for all, with a fork after the first block that refuses one of them: index, order and relay methods stay right in every order of arrivals, blocks, pops, flushes, time-outs and restarts; input cache, template and pool are never stale once the lock is free; refused blocks lose nothing |
| `txpool_batch_abort` | **violated**: a block of a batch connects, the next throws and the batch is aborted; the first one's transactions are in the table again, their key images are not in the index |
| `chain_switch` | a tree of six blocks of which up to two are faulty, in every way, with up to three pops, lost transactions and restarts: the chain others see is that of `MainChain`, switches end on the heavier chain or restore the old one, nothing of the old chain is lost, and the node converges to its peers' chain |
| `chain_fork_rollback` | **violated**: a switch that pops below a fork and fails leaves the chain short |
| `queue_sync` | peers on one chain, or on two of which one has a bad block; a peer may be lost at any time: no request is orphaned, every scheduled span is awaited, on one chain `have_blocks` only has what was downloaded and the node gets all blocks |
| `coinbase_supply` | one height for each family of coinbase rules: supply issued once, blocks let in pay exactly their fees, empty templates work |
| `coinbase_mined` | **violated**: a template with fees makes a block its own node refuses |
| `levin_calls` | two calls, a call against a command of the peer, a call under the speed limit, and HTTP with and without SSL: callbacks are called once, messages are not mixed on the wire, no connection is lost unfinished, closing ends |
| `chain_caches` | the rolling median equals the sorting median; difficulty, long-term weights and the effective median of weights are what the blocks below the tip give, whatever was added, popped, switched, rolled back or lost with a batch, and whoever asked meanwhile |
| `node_threads` | a node that takes in blocks and transactions while others read, a wallet that refreshes, DNS look-ups from two sides: waits tell what the jobs did, a resize of the database is alone, a batch is never another thread's, and nobody waits for ever, with one exception (section 4) |

### Bounds, and why they are enough
* `HardFork`: chains of 5 blocks (7 when they only grow) with a window of 3 and forks at 3 and
  4: the window is full and slides, and a switch or roll-back crosses two forks at once.
* `TxPool`: three transactions, two key images, together heavier than
  `max_weight`, so pruning happens inside every kind of job; two blocks, so a pop crosses the
  fork and comes back. `MaxDrift` bounds how far the running weight may exceed the real
  one before another transaction arrives.
* `Blockchain`: three branches, one of them off the second branch, with a transaction that both
  sides mine; a switch of up to three blocks forward and two back. `MaxFaulty` bounds the blocks that
  fail verification: one on each side of a switch. `MaxEvents` bounds pops, losses
  and restarts, not the blocks received or gained by the pool.
* `BlockQueue`: chains of three or four blocks (`Networks`) in spans of one or two (`Sizes`), so spans
  overlap, queue up and go stale. Connections are never reopened: a new connection has a new id.
* `LevinConnection`: a request of two chunks with a send queue that is full at once, so a sender
  waits while others want to send; two calls, so one times out or is answered while the other is
  being added; one or two commands of the peer.
* `ChainCaches`: two branches of two and four blocks with windows of three long-term weights, two
  weights and two difficulties, so each window fills and moves. A block has one of two weights, chosen
  so that in every family of versions each bound of the long-term weight and of the effective median is
  met in one behaviour and missed in another; an old value is left in the array of the median. `RollingMedian` on its own is compared for sizes 6
  and 7 (two levels of heap) on all sequences of nine of three values.
* `NodeThreads`: up to four callers with none, one or two pool threads, two jobs per caller: enough for a
  waiter to run another's job, for all threads to be active with work queued, and for the gate to
  close between the two parts of a nested reading. Each caller executes its routine once.
* `Coinbase`: `U64 = 16`, a supply of 5 and a sum of outputs of 17, which wraps to 1.

### Fairness
* `Blockchain`: weak fairness of the steps of a switch, and strong fairness of receiving each
  block of the peers' chain with its transactions: peers announce and resend blocks as long
  as a node is behind, and the lock is repeatedly free.
* `BlockQueue`: a connection that can ask does, an asked connection answers or is dropped (the
  idle check drops silent peers), and blocks that can be added are. Nothing is assumed of
  connections outside `Reliable` but that they answer or go.
* `LevinConnection`: threads run, posted handlers are called and timers expire; an operation on the
  bare socket completes once it is cancelled. Nothing is assumed of the peer, nor of an operation of
  the SSL stream, which is composed of several so that a cancel may fall between two: `ClosingEnds`
  is stated for connections without SSL.
* `NodeThreads`: every thread is run by the operating system (weak fairness of its next step). Routines
  are executed once, so no stronger fairness of locks or of the spinning at the gate is needed.

`CHECK_DEADLOCK FALSE` is used for the queue, the connection and the threads: a node that has
everything, a connection that is closed and threads that have returned stop.

## 4. Where code and text disagree
The findings of `PROJECT.json`, with the quotation. The first three are violated runs; the fourth is a
property that holds and that the text denies:
1. `construct_miner_tx` returns a coinbase without outputs when the reward is zero, whatever
   the fees, and `validate_miner_transaction` wants exactly the fees: the assertion "mined block
   failed verification" fires for any template with a paying transaction.
2. `rollback_blockchain_switching` re-adds the old blocks from the pool, but the pool was
   validated for the older version when the switch popped below a fork.
3. `cleanup_handle_incoming_blocks` aborts a batch without the pool's memory.
4. `fee_burning_test.cpp:39` and `:48` say that the fees of blocks above genesis are burned;
   `PaysItsFees` shows that each such block on the chain pays out its fees.

Further differences met while modelling, visible in the actions but without a run of their own:
* after a plain pop the vote window is not that of the last N blocks (`hardfork.h:265`) and
  under voting the index follows the height alone (`hardfork.h:205`); the next switch or
  restart repairs the window, and no shipped schedule has votes. This is why `hardfork_voted`
  uses `GrowSpec`;
* a transaction that comes twice by stem is counted twice in the running weight
  (`tx_pool.h:420`), so the pool may prune before it is full (`MaxDrift` bounds how often);
* a function that reads the database within a reading of its own, without `m_blockchain_lock`
  (`get_output_distribution` for an amount, `get_output_histogram`), and a resize can wait for each
  other for good: the resize holds the gate and waits for the outer reading, the inner one waits at the
  gate (`db_lmdb.cpp:376`, `:610`). `Finishes` names this as its only exception, and
  `node_threads` reaches it. Users of `db_rtxn_guard` all hold the lock and are safe;
* `do_resize` leaves the gate closed when LMDB refuses the new size (`db_lmdb.cpp:613`);
* after an aborted batch the effective median is that of the failed blocks until the next block
  is added, so `LimitOfTail` leaves these states out;
* a job that `submit` runs itself and that throws leaves `depth` incremented
  (`threadpool.cpp:91`): the thread runs its later jobs in place;
* `get_dynamic_base_fee_estimate_2021_scaling` copies the rolling median without the lock of the
  chain (not modelled: only the estimate could suffer);
* `set_relayed` makes a transaction minable without moving the cookie (`tx_pool.h:652`);
* after `pop_blocks` an alternative chain that starts on the new top is not considered again
  (`blockchain.cpp:1831`), so `Converges` is stated for runs without pops;
* with peers on two chains `add_blocks` records blocks under another span's hashes
  (`block_queue.cpp:50`), so `HaveIsDownloaded` is stated for peers on one chain;
* `generate_genesis_block` stamps the block with the current time, so two nodes agree on it
  only when their database was created by the same call.

## 5. Proofs
All theorems hold for every value of the constants that meets the named assumptions.

* **HardForkProofs** (`ScheduleAssumption`, `BoundsAssumption`). The inductive invariant adds to
  the type invariant the bookkeeping of a switch (`SwitchBookkeeping`: the split lies on
  the chain, saved blocks fit back), that stored and saved blocks carry the version the
  schedule gives for their height, that every block votes for its own version or a later one, and
  that the index is the ideal one. `RestoreAccepted` is not inductive: it needs the versions of
  saved blocks *and* the index at the height where they go back. Results: `TypeCorrect`,
  `HfTable`, `CurrentVersion`, `Restore`; the last two without voting. `WindowInv` follows the
  window at every step: `stale`, a history variable, counts the entries that pops put in front (the version
  of a popped height, `on_block_popped`), and each of the others is the vote of its block, counted from the
  top. A push onto a full window drops one of the stale entries first, a rebuilt window has none, and the loop
  that re-adds blocks refuses none of them, as each has the ideal version: `NewestVotes`, without
  voting (with it the loop may refuse a block and leave a hole). For a node that
  only adds blocks and restarts (`GrowSpec`), with or without voting, `GrowInv` gives `WindowRolls`,
  `RestartKeeps` and, when the first fork needs no votes (`FirstForkFree`: so in `hardforks.cpp`, and in
  `HardFork::init` for an empty schedule), `VersionEarned`.
* **TxPoolProofs** (`TxAssumption`, `PoolAssumption`). `PoolInv` (table well formed, index exact, no
  two relayed entries share a key image, fee order exact) is kept by each primitive (adding,
  taking, pruning); lemmas state that once per primitive. `ValidateInv` is needed because
  `validate` puts back old meta data: the transaction it holds is not in the pool, and what it
  put back still has its old relay method. Results: `KeyImages_Indexed`, `RestartAccepted`,
  `SortedIsPool`, `TimedOut`, and the action property `RelayMonotone`. `CacheIsCoherent`: each cached
  answer of `check_tx_inputs` is the one the chain would give now. `VersionMet` rests on `VersionInv`: while
  `validate` is under way, what breaks the new rules is still on the list that it goes through, and while
  a block is being popped the pool meets the rules of the chain that has the block.
* **CoinbaseProofs** (`CoinbaseAssumption`; `2 * MONEY_SUPPLY < U64` holds for 3 * 10^18 and 2^64).
  `ChainOK`, `AltOK`, `BtcOK` and `FoundOK`: every total is the supply, so every reward is zero, so
  the wrapped difference `money - fee` is zero, and below `U64` that means equal. A
  template on a stale tail stays acceptable because its coinbase is empty. Results:
  `SupplyIssuedOnce`, `CoinsConserved`, `EmptyTemplatesWork`, `TypeCorrect`.
* **BlockQueueProofs** (`QueueAssumption`: chains are sequences, of which two that share a block share
  what is below it). `RequestedHasSpan` needs the shape of the queue only (`QueueOK`), kept by
  `erase_block`, `set_span_hashes`, `add_blocks` and `reserve_span`, one lemma each. `ScheduledIsAsked`
  needs `Awaited` and that a request is never for no hashes (`AskedOK`): an answer without blocks would leave the span
  scheduled with nobody to bring it. For the second request of a late span that rests on the first span
  of the queue being one of its spans, hence on heights being natural numbers. Results:
  `RequestedAlwaysHasSpan`, `ScheduledAlwaysAsked`. `HaveAlwaysDownloaded` needs `HaveInv`: while peers are
  on one chain, the hashes of a span or of a request depend on its height alone (`SpanAt`), so when
  `add_blocks` puts a filled span in the place of another, what the old one brought, the new one brings,
  and an answer that comes late brings the blocks it was asked for.
* **BlockchainProofs** (`BlockAssumption`; `TreeAssumption`: a block has its parent's hash in it, so going
  from parent to parent ends outside any set of blocks). `IInv` says that the chain is well formed
  and, in the middle of a switch, how far it has come: below the split old chain and main chain
  agree, above it the main chain is the part of the alternative chain connected so far, the old
  blocks are those disconnected, and of these the alternative table has the ones put there. It is kept
  without further conditions: `ChainWellFormed`, `OldChainStays`. `OldTxsAtHand`, `TailIsHeaviest`,
  `RollbackRestores` and the refinement of `MainChain` need every block of the roll-back to go back in,
  for which its transactions must still be in the pool. A pop that changes the version in force runs `validate`,
  which drops what the other version does not accept, which is why the theorems `OldTxsNeverLost`, `HeaviestTail`,
  `RollbackWorks` and `Refinement` have the hypothesis `[]NoForkInSwitch` (no switch crosses a
  fork that changes the rules). Without it `RollbackRestores` is false: the run `chain_fork_rollback` has
  the counterexample.
  `RefinementSameRules` states the refinement with a hypothesis on the constants alone.
* **NodeThreadsProofs** (`ThreadAssumption`: what a handler is made of is one
  of the routines, the threads of a setting are threads). `Counting`, the facts about finite sets that the lemmas
  assume, is itself proved (`CountingHolds`). Transactions are counted by tokens: each thread holds one for every
  transaction it has begun or is about to, the count `num_active_txns` is the number of tokens, and the
  thread that resizes has closed the gate and then waited until it was 0. `ResizeAlone` alone
  is not inductive: a thread that has passed the gate and been counted opens its transaction later. Every routine
  of every thread keeps the invariant, at any depth of the call stack and with any number of workers: `Counted`,
  `ResizeIsAlone`, `BatchIsOwn`.
* **LevinConnectionInvariant** and **LevinConnectionProofs** (`ConnectionAssumption`: requests have at least one
  chunk, the thread that answers commands is none of the calls). For any number of calls of any size, any limit on
  the send queue and any settings. The first module has the invariant and the steps that queue nothing
  (`HandlerStepInv`, `CallStepInv`), the second sending and the theorems. `IInv` has four parts. `TcpInv`: each function under the lock, lemma by
  lemma, keeps `Core` (what is under way fits the status) and `Watched` (a running connection has a timer that will
  go off; a closing one has something to come that calls `on_interrupted` or `on_terminating` again). With
  `wait_release` standing for the thread in `release_protocol` this gives `ConnectionNotLost`, the assertion of the
  destructor. `CallsInv`: one call at most is inside the lock of the handlers, and a call that was sent and not
  called back has a timer that has not called it back yet. `ChunkInv`: `ChunksTogether` says nothing of the queue, so it needs that
  what is queued continues what is on the wire, and that only the sender in `wait_consume` has more to come:
  `MessagesWhole`. `MatchInv`: answers carry no number, so that an answer is taken for the right call needs the
  answers on their way, then the last chunks in the queue, to be those of the waiting calls in the same
  order, unless the first of them was answered too late, after which no answer is taken. From these,
  `CalledBackOnce`: the steps of the connection are steps of `AsyncCalls`, so a call is called back at most
  once, and with its own answer. That it is called back at all is left to TLC.

Only model-checked:

* liveness (`Converges`, `Synced`, `ClosingEnds`, `Finishes`, and the half of `CallsBackOnce` that says a callback
  comes): fairness and ENABLED are outside the prover;
* `TemplateMinable` and `RefusedBlockReturnsAll`: the first is about what the recursive function `Fill`
  selects, the second about sums of weights over the pool before and after pruning. Both need
  induction over data, and so does what `height` and `cumulative_difficulty` compute for every input;
* `ChainCaches`: the heaps of `RollingMedian` are RECURSIVE operators, and what they compute is out of
  the prover's reach;
* `WaitTells` of `NodeThreads`: not attempted yet.

## 6. Left out
Within modelled parts: pruned transactions and the `goto leave` path they take, the
incremental pool information for wallets, relay timers, the parsed transaction cache;
checkpoints and the switch they force, database exceptions inside a switch; download rates,
pruning stripes, the limits that put a connection in standby; the server that accepts connections
(`boosted_tcp_server`) and what HTTP parses; `next_difficulty` (abstracted to its input) and
`recalculate_difficulties`; `destroy` and `recycle` of the thread pool; write transactions without
a batch, failures of LMDB, and another process that resizes the database (`lmdb_resized`, where two
counted transactions may wait for each other, `db_lmdb.cpp:500`); output keys, unlock times and
the fitting of the coinbase's size into a template. Parts without a module are listed with
their reason in `PROJECT.json`; among them the catalogues under `translations/`, which are by far the
largest files of the repository and have no behaviour.

## 7. Plan
1. *Storage*: a second process on the database, and LMDB calls that fail, in `NodeThreads`.
2. *Propagation*: stem map and epochs, stem to fluff; an abstract specification ("a
   transaction given to the node is eventually public") which relay through pool and
   Dandelion++ implements.
3. *Peers and payments*: peer lists at their limits, RPC credits across templates.
4. *Wallet*: refresh against a node that reorganises; multisig key exchange rounds.
5. *Miner*: pauses and template changes under running threads.
6. *Proofs*: `WaitTells` for `NodeThreads`; the blocks a fork inside a switch does allow, in place of `NoForkInSwitch`.

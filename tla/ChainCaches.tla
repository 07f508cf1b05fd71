----------------------------- MODULE ChainCaches -----------------------------
(***************************************************************************)
(* What Blockchain keeps between blocks to validate the next one: the      *)
(* window of timestamps and difficulties and the difficulty it gives, the  *)
(* rolling median of long-term weights, and the effective median of the    *)
(* weights (blockchain.cpp).  Each is moved on block by block, and must be *)
(* what the blocks below the tip give however the tip got there.           *)
(*                                                                         *)
(* Templates are filled, and blobs from peers are refused, by twice the    *)
(* effective median.  No block is refused for its weight: get_block_reward *)
(* takes the weight and does not look at it.                               *)
(*                                                                         *)
(* The writer adds blocks in a batch, under m_blockchain_lock for one      *)
(* block or switch at a time; m_tx_pool's lock keeps other writers out for *)
(* the whole batch.  Between two blocks of a batch another thread may ask  *)
(* for the difficulty: it reads the chain as last committed, and moves the *)
(* same caches.                                                            *)
(*                                                                         *)
(* next_difficulty is abstracted to the blocks it is given, verification   *)
(* to "may fail"; the fork version does not change.                        *)
(***************************************************************************)
EXTENDS Integers, FiniteSets, SequencesExt

CONSTANTS
  Blocks, Genesis, parent,   \* a tree
  Weights, GenesisWeight,    \* the weights each block may have
  Versions,                  \* of "old" (5 to 9), "long term" (12 to 14), "scaling" (from 15): fork versions
  LongWindow, RewardWindow, DifficultyCount,
  Garbage,                   \* what malloc may leave in the array of the rolling median
  Zone, Surge                \* CRYPTONOTE_BLOCK_GRANTED_FULL_REWARD_ZONE_V5, .._SURGE_FACTOR

VARIABLES
  weight,      \* of each block, fixed
  version,     \* fork version, fixed
  c,           \* the chain as the writer sees it, and the caches
  committed,   \* the chain as other threads see it
  batch,       \* "no" batch, an "open" one, or one in which a block "failed"
  aborted      \* a batch was aborted, and the weight limit not computed since

vars == <<weight, version, c, committed, batch, aborted>>

INSTANCE RollingMedian WITH N <- LongWindow

None == "null_hash"

Min2(a, b) == IF a < b THEN a ELSE b
Max2(a, b) == IF a > b THEN a ELSE b

\* The last n of s, or fewer.
LastN(s, n) == SubSeq(s, Max2(1, Len(s) - n + 1), Len(s))

Tail_id(s) == s.chain[Len(s.chain)]

----------------------------------------------------------------------------
(* Methods of Blockchain, from a value s of c to the next. *)

\* The last blocks but the genesis block, as get_difficulty_for_next_block collects them.
Recent(chain) == LastN(SubSeq(chain, 2, Len(chain)), DifficultyCount)

\* Mutant: the flag of a pop is not looked at.
trusted_height_always(s) == s.window_height

\* m_reset_timestamps_and_difficulties_height.
trusted_height(s) == IF s.reset THEN 0 ELSE s.window_height

get_difficulty_for_next_block(s) ==
  IF Tail_id(s) = s.top THEN s
  ELSE LET h == Len(s.chain)
           t == trusted_height(s)
           w == IF t # 0 /\ h - t = 1 /\ Len(s.window) >= DifficultyCount
                THEN LastN(Append(s.window, Tail_id(s)), DifficultyCount)
                ELSE Recent(s.chain)
       IN  [s EXCEPT !.window = w, !.window_height = h, !.top = Tail_id(s), !.difficulty = w]

\* The cached median ends one block below the tip.
follows(s, count) ==
  /\ count = s.rm.sz \/ (count = s.rm.sz + 1 /\ s.rm.sz < LongWindow)
  /\ Len(s.chain) > 1 /\ s.chain[Len(s.chain) - 1] = s.rm_tip

\* get_long_term_block_weight_median for the last blocks.
get_long_term_block_weight_median(s) ==
  LET h     == Len(s.chain)
      count == Min2(LongWindow, h)
  IN  CASE count = s.rm.sz /\ Tail_id(s) = s.rm_tip -> s
        [] ~ (count = s.rm.sz /\ Tail_id(s) = s.rm_tip) /\ follows(s, count) ->
             [s EXCEPT !.rm_tip = Tail_id(s), !.rm = insert(s.rm, s.ltw[h])]
        [] OTHER ->
             [s EXCEPT !.rm_tip = Tail_id(s), !.rm = FoldLeft(insert, clear(s.rm), LastN(s.ltw, LongWindow))]

\* get_next_long_term_block_weight, given the long-term median.
LongTermWeight(w, long_term_median) ==
  LET m == Max2(Zone, long_term_median) IN
  CASE version = "old"       -> w
    [] version = "long term" -> Min2(w, m + (m * 2) \div 5)
    [] version = "scaling"   -> Min2(Max2(w, (m * 10) \div 17), m + (m * 7) \div 10)

\* update_next_cumulative_weight_limit, given the medians of the weights.
EffectiveMedian(short, long) ==
  LET m == Max2(Zone, long) IN
  Max2(Zone, CASE version = "old"       -> short
               [] version = "long term" -> Min2(Max2(Zone, short), Surge * m)
               [] version = "scaling"   -> Min2(Max2(m, short), Surge * m))

WeightsOf(chain) == [i \in 1 .. Len(chain) |-> IF i = 1 THEN GenesisWeight ELSE weight[chain[i]]]

\* The functions use the rolling median from the version that has long-term weights on.
WithMedian(s) == IF version = "old" THEN s ELSE get_long_term_block_weight_median(s)

set_limit(s) ==
  [s EXCEPT !.median = EffectiveMedian(MedianOf(LastN(WeightsOf(s.chain), RewardWindow)), median(s.rm))]

update_next_cumulative_weight_limit(s) == set_limit(WithMedian(s))

\* Mutant: get_next_long_term_block_weight takes the median as update_next_cumulative_weight_limit left it.
median_as_left(s) == s

\* The median get_next_long_term_block_weight asks for.
median_below(s) == WithMedian(s)

\* add_block of b to the database, whose long-term weight comes from the median of s.
add_block(s, b) ==
  [s EXCEPT !.chain = Append(@, b), !.ltw = Append(@, LongTermWeight(weight[b], median(s.rm)))]

\* handle_block_to_main_chain.  `fails' says where a check fails, if one does: before add_block or in it.
handle_block_to_main_chain(s, b, fails) ==
  LET d == get_difficulty_for_next_block(s) IN
  CASE fails = "verification" -> d
    [] fails = "database" -> [median_below(d) EXCEPT !.success = FALSE]
    [] fails = "no" ->
         get_difficulty_for_next_block(update_next_cumulative_weight_limit(add_block(median_below(d), b)))

reset_window(s) == [s EXCEPT !.window_height = 0, !.reset = TRUE]

\* pop_block_from_blockchain, until n blocks are left.
pop_until(s, n) ==
  IF Len(s.chain) = n THEN s
  ELSE reset_window([s EXCEPT !.chain = SubSeq(@, 1, n), !.ltw = SubSeq(@, 1, n)])

\* The next block of a switch, unless one before it was not added.
add_next(s, b, fails) == IF Tail_id(s) = parent[b] THEN handle_block_to_main_chain(s, b, fails) ELSE s

\* Those of the path from place first on; the block at place bad, if it is one, fails.
add_path(s, path, first, bad, fails) ==
  FoldLeft(LAMBDA t, i : add_next(t, path[i], IF i = bad THEN fails ELSE "no"),
           s, [k \in 1 .. Len(path) - first + 1 |-> first + k - 1])

Path[b \in Blocks \cup {Genesis}] == IF b = Genesis THEN <<Genesis>> ELSE Append(Path[parent[b]], b)

CommonLength(p, q) == Cardinality({i \in 1 .. Min2(Len(p), Len(q)) : p[i] = q[i]})

\* The first part of switch_to_alternative_blockchain and of rollback_blockchain_switching.
pop_and_update(s, n) == update_next_cumulative_weight_limit(pop_until(reset_window(s), n))

\* The end of switch_to_alternative_blockchain from old to path, with t: a block that is not added
\* means rollback_blockchain_switching.  The disconnected blocks go through handle_alternative_block,
\* unless they are discarded.
finish_switch(t, old, path, split, discard) ==
  IF t.chain # path THEN add_path(pop_and_update(t, split), old, split + 1, 0, "no")
  ELSE IF discard \/ split = Len(old) THEN t ELSE reset_window(t)

\* switch_to_alternative_blockchain to path, of which the block at place bad, if it is a place, fails.
switch_to_alternative_blockchain(s, path, bad, fails, discard) ==
  LET split == CommonLength(s.chain, path) IN
  finish_switch(add_path(pop_and_update(s, split), path, split + 1, bad, fails), s.chain, path, split, discard)

\* Mutant: the blocks are popped, and the weight limit stays.
pop_blocks_only(s, n) == pop_until(s, n)

\* pop_blocks, in a batch of its own.
pop_blocks(s, n) == update_next_cumulative_weight_limit(pop_until(s, n))

\* cleanup_handle_incoming_blocks after a batch that went well.
clean_window(s) == IF s.reset THEN [s EXCEPT !.window_height = 0, !.reset = FALSE] ELSE s

\* The constructor and init.
initial(chain, ltw, data) ==
  update_next_cumulative_weight_limit(get_difficulty_for_next_block(
    [chain |-> chain, ltw |-> ltw, rm |-> clear([data |-> data]), rm_tip |-> None, window |-> <<>>,
     window_height |-> 0, reset |-> TRUE, top |-> None, difficulty |-> <<>>, median |-> 0,
     success |-> TRUE]))

----------------------------------------------------------------------------
Init ==
  /\ weight \in [Blocks -> UNION {Weights[b] : b \in Blocks}]
  /\ \A b \in Blocks : weight[b] \in Weights[b]
  /\ version \in Versions
  /\ c \in {initial(<<Genesis>>, <<GenesisWeight>>, [n \in 0 .. LongWindow - 1 |-> g]) : g \in Garbage}
  /\ committed = [chain |-> <<Genesis>>, ltw |-> <<GenesisWeight>>]
  /\ batch = "no"
  /\ aborted = FALSE

\* prepare_handle_incoming_blocks.
BatchStart ==
  /\ batch = "no"
  /\ batch' = "open"
  /\ c' = [c EXCEPT !.success = TRUE]
  /\ UNCHANGED <<weight, version, committed, aborted>>

\* A caller hands over no more blocks of the batch after one that fails.
after_block(added) == batch' = IF added THEN "open" ELSE "failed"

\* The next block of the batch extends the chain; fails says what is wrong with it, if anything is.
AddBlock(b, fails) ==
  /\ batch = "open"
  /\ parent[b] = Tail_id(c)
  /\ c' = handle_block_to_main_chain(c, b, fails)
  /\ after_block(c'.chain # c.chain)
  /\ aborted' = (aborted /\ c'.chain = c.chain)
  /\ UNCHANGED <<weight, version, committed>>

\* handle_alternative_block: the block does not extend the chain, and has less work, fails a check or
\* is an orphan.
AltBlock(b) ==
  /\ batch = "open"
  /\ parent[b] # Tail_id(c) /\ b \notin ToSet(c.chain)
  /\ c' = reset_window(c)
  /\ UNCHANGED <<weight, version, committed, batch, aborted>>

\* handle_alternative_block: the chain of the block has more work.
Switch(b, bad, fails, discard) ==
  /\ batch = "open"
  /\ Len(Path[b]) > Len(c.chain) /\ parent[b] # Tail_id(c)
  /\ bad > CommonLength(c.chain, Path[b])
  /\ c' = switch_to_alternative_blockchain(reset_window(c), Path[b], bad, fails, discard)
  /\ after_block(c'.chain = Path[b])
  /\ aborted' = FALSE
  /\ UNCHANGED <<weight, version, committed>>

\* cleanup_handle_incoming_blocks.
BatchStop ==
  /\ batch # "no" /\ c.success
  /\ c' = clean_window(c)
  /\ committed' = [chain |-> c.chain, ltw |-> c.ltw]
  /\ batch' = "no"
  /\ UNCHANGED <<weight, version, aborted>>

\* cleanup_handle_incoming_blocks: the database goes back to what was committed, the caches do not,
\* because of a block that was not added, or because the commit throws.
BatchAbort ==
  /\ batch # "no"
  /\ c' = [c EXCEPT !.chain = committed.chain, !.ltw = committed.ltw]
  /\ batch' = "no"
  /\ aborted' = TRUE
  /\ UNCHANGED <<weight, version, committed>>

PopBlocks(n) ==
  /\ batch = "no"
  /\ n < Len(c.chain)
  /\ c' = pop_blocks(c, n)
  /\ committed' = [chain |-> c'.chain, ltw |-> c'.ltw]
  /\ aborted' = FALSE
  /\ UNCHANGED <<weight, version, batch>>

\* pop_blocks, when a pop throws.
PopBlocksFails ==
  /\ batch = "no"
  /\ c' = reset_window(c)
  /\ UNCHANGED <<weight, version, committed, batch, aborted>>

\* get_difficulty_for_next_block on another thread.
AskDifficulty ==
  LET seen == get_difficulty_for_next_block([c EXCEPT !.chain = committed.chain, !.ltw = committed.ltw]) IN
  /\ c' = [seen EXCEPT !.chain = c.chain, !.ltw = c.ltw]
  /\ UNCHANGED <<weight, version, committed, batch, aborted>>

\* The node stops, or crashes, and starts again.
Restart ==
  /\ c' \in {initial(committed.chain, committed.ltw, [n \in 0 .. LongWindow - 1 |-> g]) : g \in Garbage}
  /\ batch' = "no"
  /\ aborted' = FALSE
  /\ UNCHANGED <<weight, version, committed>>

Next ==
  \/ BatchStart
  \/ \E b \in Blocks, fails \in {"no", "verification", "database"} : AddBlock(b, fails)
  \/ \E b \in Blocks : AltBlock(b)
  \/ \E b \in Blocks, discard \in BOOLEAN : Switch(b, Len(Path[b]) + 1, "no", discard)
  \/ \E b \in Blocks, fails \in {"verification", "database"} :
       \E bad \in DOMAIN Path[b] : Switch(b, bad, fails, FALSE)
  \/ BatchStop
  \/ BatchAbort
  \/ \E n \in 1 .. Len(c.chain) : PopBlocks(n)
  \/ PopBlocksFails
  \/ AskDifficulty
  \/ Restart

Spec == Init /\ [][Next]_vars

----------------------------------------------------------------------------
\* The difficulty kept for a block is computed from the blocks below that block, whatever was popped,
\* switched, aborted, or asked for by another thread in the middle of a batch.
DifficultyOfTop == c.top # None => c.difficulty = Recent(Path[c.top])

\* Long-term weights of the chain that ends in b, by the definition: each from the median of the
\* weights below it.
LongTermWeights[b \in Blocks \cup {Genesis}] ==
  IF b = Genesis THEN <<GenesisWeight>>
  ELSE LET p == LongTermWeights[parent[b]] IN
       Append(p, LongTermWeight(weight[b], MedianOf(LastN(p, LongWindow))))

\* The long-term weight stored with each block is a function of the blocks below it: nodes that came
\* to the same chain along different ways (pops, switches, failed batches, restarts) agree on it.
\* It rests on get_long_term_block_weight_median and on the two heaps of rolling_median_t.
WeightsFromBlocks ==
  /\ c.ltw = LongTermWeights[Tail_id(c)]
  /\ committed.ltw = LongTermWeights[committed.chain[Len(committed.chain)]]

\* The effective median that create_block_template and check_incoming_block_size go by
\* (m_current_block_cumul_weight_median, and the limit of twice it) is the one the chain as it stands
\* gives: a node does not fill a template, or refuse a blob, by the weights of blocks it has left.  The
\* exception is the time after an aborted batch, until update_next_cumulative_weight_limit is called again.
LimitOfTail ==
  ~ aborted =>
    c.median = LET l == LongTermWeights[Tail_id(c)] IN
               EffectiveMedian(MedianOf(LastN(WeightsOf(c.chain), RewardWindow)), MedianOf(LastN(l, LongWindow)))
=============================================================================

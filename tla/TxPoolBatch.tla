----------------------------- MODULE TxPoolBatch -----------------------------
(***************************************************************************)
(* The pool inside the database batch that surrounds incoming blocks       *)
(* (Blockchain::prepare_handle_incoming_blocks and                         *)
(* cleanup_handle_incoming_blocks).  The batch holds the blocks and the    *)
(* txpool table; when it is aborted both go back to what they were, and    *)
(* the memory side of the pool stays as it is.                             *)
(***************************************************************************)
EXTENDS TxPool

VARIABLE batch   \* the open batch: what the database held when it was opened

batchVars == <<vars, batch>>

NoBatch == [open |-> FALSE, success |-> TRUE, failed |-> FALSE, chain |-> <<>>, pool |-> NoMetas]

\* prepare_handle_incoming_blocks.
BatchStart ==
  /\ ~batch.open /\ ~Locked
  /\ batch' = [NoBatch EXCEPT !.open = TRUE, !.chain = chain, !.pool = pool]
  /\ UNCHANGED vars

\* The next block of the batch.  After one that failed the callers clean up and hand over no other.
NextBlock ==
  /\ ~batch.failed
  /\ \E b \in Blocks : BlockBegin(b, b \cap accepted[Version(chain)])

\* All checks of the block have passed but that of its miner transaction; the database throws for a
\* key image that the block spends twice.
MayThrow ==
  /\ job.kind = "block" /\ job.todo = {}
  /\ \E t, u \in job.block : t # u /\ images[t] \cap images[u] # {}

\* Blocks are handled inside a batch; m_batch_success is lost when add_block throws, and kept when the
\* block is refused before it.
BatchedBlock ==
  /\ batch.open
  /\ NextBlock \/ JobStep
  /\ \E throws \in BOOLEAN :
       /\ throws => MayThrow
       /\ batch' = [batch EXCEPT !.success = @ /\ ~throws, !.failed = @ \/ job'.kind = "return"]

\* cleanup_handle_incoming_blocks.
BatchStop ==
  /\ batch.open /\ ~Locked /\ batch.success
  /\ batch' = NoBatch
  /\ UNCHANGED vars

BatchAbort ==
  /\ batch.open /\ ~Locked /\ ~batch.success
  /\ chain' = batch.chain
  /\ pool' = batch.pool
  /\ batch' = NoBatch
  /\ UNCHANGED <<m_spent_key_images, m_txs_by_fee, m_txpool_weight, m_timed_out_transactions,
                 m_input_cache, m_btc, job>>

\* Everything else happens outside of a batch.
Unbatched ==
  /\ ~batch.open
  /\ Next
  /\ job'.kind # "block"
  /\ UNCHANGED batch

BatchInit == Init /\ batch = NoBatch
BatchNext == BatchStart \/ BatchedBlock \/ BatchStop \/ BatchAbort \/ Unbatched
BatchSpec == BatchInit /\ [][BatchNext]_batchVars
=============================================================================

---------------------------- MODULE MCTxPoolBatch ----------------------------
(***************************************************************************)
(* TxPoolBatch on the instances of MCTxPool.                               *)
(***************************************************************************)
EXTENDS MCTxPool, TxPoolBatch
=============================================================================

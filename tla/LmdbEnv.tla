------------------------------- MODULE LmdbEnv -------------------------------
(***************************************************************************)
(* Transactions of BlockchainLMDB and the resize of its map                *)
(* (blockchain_db/lmdb/db_lmdb.cpp): creation_gate, num_active_txns, the   *)
(* read transaction of each thread and the one batch.  Action fragments,   *)
(* as in ThreadPool.  Another process that resizes the file (lmdb_resized) *)
(* is not modelled.                                                        *)
(***************************************************************************)
EXTENDS Integers

CONSTANT None

VARIABLES
  gate,             \* the thread that holds creation_gate
  num_active_txns,
  rtxn,             \* threads whose read transaction is open (m_rf_txn)
  batch             \* the thread whose batch is active (m_batch_active, m_write_txn, m_writer)

db == <<gate, num_active_txns, rtxn, batch>>

DbInit == gate = None /\ num_active_txns = 0 /\ rtxn = {} /\ batch = None

\* Constructor of mdb_txn_safe.
mdb_txn_safe ==
  /\ gate = None
  /\ num_active_txns' = num_active_txns + 1
  /\ UNCHANGED <<gate, rtxn, batch>>

\* block_rtxn_start opens nothing: the thread reads through its batch or its open transaction.
has_txn(t) == batch = t \/ t \in rtxn

\* The count of the mdb_txn_safe goes over to the transaction: a read keeps the object until its end,
\* db_rtxn_guard counts the transaction and drops the object.
open_rtxn(t) ==
  /\ rtxn' = rtxn \cup {t}
  /\ UNCHANGED <<gate, num_active_txns, batch>>

\* The end of a read transaction, or of the mdb_txn_safe of a thread that had one (uncheck).
close_rtxn(t, opened) ==
  /\ rtxn' = IF opened THEN rtxn \ {t} ELSE rtxn
  /\ num_active_txns' = num_active_txns - 1
  /\ UNCHANGED <<gate, batch>>

\* do_resize.
prevent_new_txns(t) ==
  /\ gate = None
  /\ gate' = t
  /\ UNCHANGED <<num_active_txns, rtxn, batch>>

\* Mutant: open transactions are not waited for.
no_wait == TRUE

wait_no_active_txns == num_active_txns = 0

\* mdb_env_set_mapsize and allow_new_txns.
allow_new_txns ==
  /\ gate' = None
  /\ UNCHANGED <<num_active_txns, rtxn, batch>>

\* batch_start, with the mdb_txn_safe counted.
begin_batch(t) ==
  /\ batch' = t
  /\ rtxn' = rtxn \ {t}
  /\ UNCHANGED <<gate, num_active_txns>>

\* batch_stop and batch_abort.
end_batch ==
  /\ batch' = None
  /\ num_active_txns' = num_active_txns - 1
  /\ UNCHANGED <<gate, rtxn>>
=============================================================================

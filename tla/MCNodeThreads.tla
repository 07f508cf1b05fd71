---------------------------- MODULE MCNodeThreads ----------------------------
EXTENDS NodeThreads

MCThreads == {"w1", "w2", "a", "b", "c", "d"}

LeafJobs == {"longhash 1", "longhash 2", "derive", "parse 1", "parse 2"}
OtherJobs == {"ring 1", "ring 2", "cache 1", "cache 2", "pull", "query 1", "query 2", "query 3", "query 4"}

MCRoutines == LeafJobs \cup OtherJobs \cup
  {"incoming_blocks", "incoming_tx", "take_tx", "set_relayed", "get_objects", "get_height", "get_distribution",
   "load_txt 1", "load_txt 2", "refresh", "process"}

MCLeaf(f) == f \in LeafJobs

(* The compute pool of a node that takes in blocks and transactions while others read, with and
   without the lock; that of a wallet; the pool for I/O, asked from two sides. *)
MCSettings ==
  {[workers |-> {"w1"}, callers |-> [a |-> "incoming_blocks", b |-> "incoming_tx", c |-> "get_height"]],
   [workers |-> {}, callers |-> [a |-> "incoming_blocks", b |-> "get_distribution", c |-> "get_objects", d |-> "set_relayed"]],
   [workers |-> {"w1", "w2"}, callers |-> [a |-> "refresh"]],
   [workers |-> {}, callers |-> [a |-> "refresh"]],
   [workers |-> {"w1"}, callers |-> [a |-> "load_txt 1", b |-> "load_txt 2"]]}
=============================================================================

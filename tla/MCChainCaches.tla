---------------------------- MODULE MCChainCaches ----------------------------
(* Two branches above a1, long enough to fill every window and to move it. *)
EXTENDS ChainCaches

MCparent == [a1 |-> "G", a2 |-> "a1", b2 |-> "a1", b3 |-> "b2", b4 |-> "b3"]

MCBlocks == DOMAIN MCparent

(* Each of the bounds of get_next_long_term_block_weight and of                 *)
(* update_next_cumulative_weight_limit is met, and missed, with a long-term     *)
(* median below the zone and with one above it.                                 *)
MCWeights == [a1 |-> {3, 60}, a2 |-> {14, 36}, b2 |-> {3, 60}, b3 |-> {3, 36}, b4 |-> {14, 36}]

(* Rolling medians of an even and of an odd size, with heaps of two levels. *)
RM6 == INSTANCE RollingMedian WITH N <- 6
RM7 == INSTANCE RollingMedian WITH N <- 7

InsertKeepsMedian ==
  /\ RM6!KeepsMedian(RM6!clear([data |-> [n \in 0 .. 5 |-> 1]]), <<>>, 0 .. 2, 9)
  /\ RM7!KeepsMedian(RM7!clear([data |-> [n \in 0 .. 6 |-> 1]]), <<>>, 0 .. 2, 9)

\* rolling_median_t::insert keeps, in two heaps and a circular queue, the value misc_utils::median
\* gives for the last N items: for every sequence of up to 9 of 3 values, after a clear that leaves
\* old values in the array.  The heaps of the object Blockchain keeps are in order.
RollingMedianRight == InsertKeepsMedian /\ HeapsOrdered(c.rm)
=============================================================================

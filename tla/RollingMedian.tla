---------------------------- MODULE RollingMedian ----------------------------
(***************************************************************************)
(* epee rolling_median_t: the median of the last N items, kept in a        *)
(* circular queue `data' and two heaps that share the array `heap': a min  *)
(* heap at 1, 2, ... and a max heap at -1, -2, ..., with the median at 0.  *)
(* heap holds indexes into data, and pos is its inverse.  An object is a   *)
(* record r; every method is an operator from r to the next r.             *)
(***************************************************************************)
EXTENDS Integers, Sequences, FiniteSetsExt, TLC

CONSTANT N      \* allocated size

\* Division of C: it rounds towards zero.
Half(i) == IF i < 0 THEN - ((- i) \div 2) ELSE i \div 2

mmless(r, i, j) == r.data[r.heap[i]] < r.data[r.heap[j]]

mmexchange(r, i, j) ==
  [r EXCEPT !.heap = [@ EXCEPT ![i] = r.heap[j], ![j] = r.heap[i]],
            !.pos  = [@ EXCEPT ![r.heap[j]] = i, ![r.heap[i]] = j]]

RECURSIVE minSortDown(_, _), maxSortDown(_, _), minSortUp(_, _), maxSortUp(_, _)

\* Mutant: of the two children the first is compared.
minSortDown_first(r, p) ==
  IF 2 * p <= r.minCt /\ mmless(r, 2 * p, p) THEN minSortDown(mmexchange(r, 2 * p, p), 2 * p) ELSE r

minSortDown(r, p) ==
  LET k == 2 * p
      i == IF k < r.minCt /\ mmless(r, k + 1, k) THEN k + 1 ELSE k
  IN  IF k <= r.minCt /\ mmless(r, i, Half(i)) THEN minSortDown(mmexchange(r, i, Half(i)), i) ELSE r

maxSortDown(r, p) ==
  LET k == 2 * p
      i == IF k > - r.maxCt /\ mmless(r, k, k - 1) THEN k - 1 ELSE k
  IN  IF k >= - r.maxCt /\ mmless(r, Half(i), i) THEN maxSortDown(mmexchange(r, Half(i), i), i) ELSE r

\* These two also say whether the item came to the place of the median.
minSortUp(r, i) ==
  IF i > 0 /\ mmless(r, i, Half(i)) THEN minSortUp(mmexchange(r, i, Half(i)), Half(i))
  ELSE [r |-> r, top |-> i = 0]

maxSortUp(r, i) ==
  IF i < 0 /\ mmless(r, Half(i), i) THEN maxSortUp(mmexchange(r, Half(i), i), Half(i))
  ELSE [r |-> r, top |-> i = 0]

\* Whatever is in data stays; it is not looked at again.
clear(r) ==
  LET place(n) == ((n + 1) \div 2) * (IF n % 2 = 1 THEN -1 ELSE 1) IN
  [data |-> r.data, idx |-> 0, minCt |-> 0, maxCt |-> 0, sz |-> 0,
   pos  |-> [n \in 0 .. N - 1 |-> place(n)],
   heap |-> [p \in - (N \div 2) .. (N - 1) \div 2 |-> CHOOSE n \in 0 .. N - 1 : place(n) = p]]

\* What is left to do once an item went up from a heap, or from the median.
from_min(u) ==
  IF u.top /\ mmless(u.r, 0, -1) THEN maxSortDown(mmexchange(u.r, 0, -1), -1) ELSE u.r

from_max(u) ==
  IF u.top /\ u.r.minCt > 0 /\ mmless(u.r, 1, 0) THEN minSortDown(mmexchange(u.r, 1, 0), 1) ELSE u.r

down_max(u) == IF u.top THEN maxSortDown(u.r, -1) ELSE u.r
down_min(u) == IF u.top THEN minSortDown(u.r, 1) ELSE u.r

at_max(r) == IF r.maxCt > 0 THEN down_max(maxSortUp(r, -1)) ELSE r
at_min(r) == IF r.minCt > 0 THEN down_min(minSortUp(r, 1)) ELSE r

\* The item at place p was old, and is v now.
settle(r, p, old, v) ==
  CASE p > 0 /\ r.minCt < (N - 1) \div 2  -> from_min(minSortUp([r EXCEPT !.minCt = @ + 1], p))
    [] p > 0 /\ r.minCt >= (N - 1) \div 2 -> IF v > old THEN minSortDown(r, p) ELSE from_min(minSortUp(r, p))
    [] p < 0 /\ r.maxCt < N \div 2        -> from_max(maxSortUp([r EXCEPT !.maxCt = @ + 1], p))
    [] p < 0 /\ r.maxCt >= N \div 2       -> IF v < old THEN maxSortDown(r, p) ELSE from_max(maxSortUp(r, p))
    [] OTHER -> at_min(at_max(r))

insert(r, v) ==
  settle([r EXCEPT !.data[r.idx] = v, !.idx = (@ + 1) % N, !.sz = Min({@ + 1, N})],
         r.pos[r.idx], r.data[r.idx], v)

get_mid(a, b) == (a \div 2) + (b \div 2) + ((a % 2) + (b % 2)) \div 2

median(r) ==
  LET v == r.data[r.heap[0]] IN
  IF r.minCt < r.maxCt THEN get_mid(v, r.data[r.heap[-1]]) ELSE v

\* epee misc_utils::median of a vector: the reference.
MedianOf(s) ==
  LET v == SortSeq(s, <)
      n == Len(s) \div 2
  IN  CASE s = <<>> -> 0
        [] s # <<>> /\ Len(s) % 2 = 1 -> v[n + 1]
        [] OTHER -> get_mid(v[n], v[n + 1])

\* pos and heap are inverse; the min heap grows from the median at 0, and the max heap falls.
HeapsOrdered(r) ==
  /\ \A i \in DOMAIN r.heap : r.pos[r.heap[i]] = i
  /\ \A i \in 1 .. r.minCt : ~ mmless(r, i, i \div 2)
  /\ \A i \in 1 .. r.maxCt : ~ mmless(r, - (i \div 2), - i)

\* For every sequence of n more values, the rolling median is the median of the last N of all.
RECURSIVE KeepsMedian(_, _, _, _)
KeepsMedian(r, s, values, n) ==
  /\ s # <<>> => median(r) = MedianOf(SubSeq(s, Len(s) - r.sz + 1, Len(s))) /\ r.sz = Min({Len(s), N})
  /\ n > 0 => \A v \in values : KeepsMedian(insert(r, v), Append(s, v), values, n - 1)
=============================================================================

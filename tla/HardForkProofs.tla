--------------------------- MODULE HardForkProofs ---------------------------
(* Theorems about HardFork, for every schedule, window size and chain height. *)
EXTENDS HardFork, TLAPS, SequenceTheorems, FiniteSetTheorems, WellFoundedInduction

----------------------------------------------------------------------------
(* Largest elements. *)

\* A segment of a sequence is a sequence over the same set.
LEMMA SegmentFact ==
  ASSUME NEW S, NEW s \in Seq(S), NEW m \in 1..(Len(s) + 1), NEW n \in (m - 1)..Len(s)
  PROVE  /\ SubSeq(s, m, n) \in Seq(S)
         /\ Len(SubSeq(s, m, n)) = n - m + 1
<1>1. m \in Int /\ n \in Int /\ \A i \in m..n : s[i] \in S
  BY ElementOfSeq
<1>2. SubSeq(s, m, n) \in Seq(S)
  BY <1>1, SubSeqProperties, Zenon
<1>3. Len(SubSeq(s, m, n)) = n - m + 1
  OBVIOUS
<1> QED
  BY <1>2, <1>3

\* A sequence with one more element.
LEMMA AppendFact ==
  ASSUME NEW S, NEW s \in Seq(S), NEW v \in S
  PROVE  /\ Append(s, v) \in Seq(S) /\ Len(Append(s, v)) = Len(s) + 1
         /\ \A i \in 1..Len(s) : Append(s, v)[i] = s[i]
         /\ Append(s, v)[Len(s) + 1] = v
BY AppendProperties

\* A sequence without its last element.
LEMMA FrontFact ==
  ASSUME NEW S, NEW s \in Seq(S), Len(s) > 0
  PROVE  /\ SubSeq(s, 1, Len(s) - 1) \in Seq(S)
         /\ Len(SubSeq(s, 1, Len(s) - 1)) = Len(s) - 1
<1>1. 1 \in 1..(Len(s) + 1) /\ Len(s) - 1 \in (1 - 1)..Len(s)
  OBVIOUS
<1>2. /\ SubSeq(s, 1, Len(s) - 1) \in Seq(S)
      /\ Len(SubSeq(s, 1, Len(s) - 1)) = (Len(s) - 1) - 1 + 1
  BY <1>1, SegmentFact, Zenon
<1>3. (Len(s) - 1) - 1 + 1 = Len(s) - 1
  OBVIOUS
<1> QED
  BY <1>2, <1>3, Zenon

\* Every non-empty set of naturals has a least element.
LEMMA LeastNatural ==
  ASSUME NEW T, T \subseteq Nat, T # {}
  PROVE  \E x \in T : \A y \in T : x <= y
<1>1. IsWellFoundedOn(OpToRel(<, Nat), Nat)
  BY NatLessThanWellFounded
<1>2. PICK x \in T : \A y \in T : ~ (<<y, x>> \in OpToRel(<, Nat))
  BY <1>1, WFMin, Zenon
<1>3. \A y \in T : ~ (y < x)
  BY <1>2 DEF OpToRel
<1> QED
  BY <1>3, SMT

\* Every non-empty set of indices up to N has a largest element.
LEMMA LargestIndex ==
  ASSUME NEW N \in Nat, NEW T, T \subseteq 1..N, T # {}
  PROVE  \E x \in T : \A y \in T : y <= x
<1> DEFINE U == {N - x : x \in T}
<1>1. U \subseteq Nat
  OBVIOUS
<1>2. PICK t \in T : TRUE
  OBVIOUS
<1>3. \A y \in T : N - y \in U
  OBVIOUS
<1> HIDE DEF U
<1>4. PICK u \in U : \A v \in U : u <= v
  BY <1>1, <1>2, <1>3, LeastNatural
<1>5. PICK x \in T : u = N - x
  BY DEF U
<1>6. \A y \in T : N - x <= N - y
  BY <1>3, <1>4, <1>5
<1> QED
  BY <1>6

\* Forks are the indices 1..Len(heights), and entries have their types.
LEMMA ForksFacts ==
  /\ Len(heights) \in Nat \ {0}
  /\ Forks = 1..Len(heights)
  /\ 1 \in Forks
  /\ \A n \in Forks : /\ heights[n].version \in Nat \ {0}
                      /\ heights[n].height \in Nat
                      /\ heights[n].threshold \in Nat
  /\ ForkVersions \subseteq Nat
<1>1. heights \in Seq(ForkRecords) /\ Len(heights) > 0
  BY ScheduleAssumption DEF ScheduleAssumption
<1>2. Forks = 1..Len(heights) /\ Len(heights) \in Nat
  BY <1>1 DEF Forks
<1>3. \A n \in Forks : heights[n] \in ForkRecords
  BY <1>1, <1>2, ElementOfSeq
<1>4. \A n \in Forks : /\ heights[n].version \in Nat \ {0}
                       /\ heights[n].height \in Nat
                       /\ heights[n].threshold \in Nat
  BY <1>3 DEF ForkRecords
<1>5. Len(heights) \in Nat \ {0} /\ 1 \in Forks
  BY <1>1, <1>2
<1> QED
  BY <1>2, <1>4, <1>5 DEF ForkVersions

\* Highest returns the largest element of a non-empty set of forks.
LEMMA HighestFact ==
  ASSUME NEW S, S \subseteq Forks, S # {}
  PROVE  Highest(S) \in S /\ \A m \in S : m <= Highest(S)
<1>1. \E x \in S : \A y \in S : y <= x
  BY ForksFacts, LargestIndex
<1> QED
  BY <1>1 DEF Highest

----------------------------------------------------------------------------
(* The fork index. *)

\* Counting votes yields a fork, never an earlier one.
LEMMA RaiseIndexType ==
  ASSUME NEW win, NEW index \in Forks, NEW h
  PROVE  RaiseIndex(win, index, h) \in Forks /\ RaiseIndex(win, index, h) >= index
<1>1. VotedForks(win, h) \subseteq Forks
  BY DEF VotedForks
<1>2. get_voted_fork_index(win, index, h) \in Forks
  BY <1>1, HighestFact DEF get_voted_fork_index
<1> QED
  BY <1>2, ForksFacts DEF RaiseIndex

\* What get_ideal_version computes: the last fork whose height has come.
LEMMA IdealFact ==
  ASSUME NEW h \in Nat
  PROVE  /\ get_ideal_index(h) \in Forks
         /\ get_ideal_index(h) > 1 => h >= heights[get_ideal_index(h)].height
         /\ \A n \in Forks : n > 1 /\ h >= heights[n].height => n <= get_ideal_index(h)
<1> DEFINE due == { n \in Forks : n > 1 /\ h >= heights[n].height }
<1>1. due \subseteq Forks
  OBVIOUS
<1>2. CASE due = {}
  BY <1>2, ForksFacts DEF get_ideal_index
<1>3. CASE due # {}
  <2>1. Highest(due) \in due /\ \A m \in due : m <= Highest(due)
    BY <1>1, <1>3, HighestFact
  <2> QED
    BY <2>1, <1>3 DEF get_ideal_index
<1> QED
  BY <1>2, <1>3

\* A higher chain never has an earlier ideal fork.
LEMMA IdealMonotone ==
  ASSUME NEW h \in Nat, NEW k \in Nat, h <= k
  PROVE  get_ideal_index(h) <= get_ideal_index(k)
<1>1. get_ideal_index(h) \in Forks /\ get_ideal_index(k) \in Forks
  BY IdealFact
<1>2. CASE get_ideal_index(h) = 1
  BY <1>1, <1>2, ForksFacts
<1>3. CASE get_ideal_index(h) > 1
  <2>1. h >= heights[get_ideal_index(h)].height
    BY <1>3, IdealFact
  <2>2. k >= heights[get_ideal_index(h)].height
    BY <2>1, <1>1, ForksFacts
  <2> QED
    BY <2>2, <1>1, <1>3, IdealFact
<1> QED
  BY <1>1, <1>2, <1>3, ForksFacts

\* At height 0 the first fork is in force.
LEMMA IdealAtZero == get_ideal_index(0) = 1
<1>1. \A n \in Forks : n > 1 => heights[n].height > 0
  BY ForksFacts, ScheduleAssumption DEF ScheduleAssumption
<1>2. get_ideal_index(0) \in Forks /\ (get_ideal_index(0) > 1 => 0 >= heights[get_ideal_index(0)].height)
  BY IdealFact
<1> QED
  BY <1>1, <1>2, ForksFacts

\* Without voting, counting votes moves the index to the ideal one.
LEMMA RaiseIndexIdeal ==
  ASSUME NoVoting, NEW win \in Seq(Nat), NEW index \in Forks, NEW h \in Nat,
         index <= get_ideal_index(h)
  PROVE  RaiseIndex(win, index, h) = get_ideal_index(h)
<1>1. \A n \in Forks : accumulated_votes(win, n) \in Nat
  <2> TAKE n \in Forks
  <2>1. IsFiniteSet(DOMAIN win)
    BY FS_Interval
  <2>2. IsFiniteSet({i \in DOMAIN win : \E m \in n..Len(heights) : win[i] = heights[m].version})
    BY <2>1, FS_Subset
  <2> QED
    BY <2>2, FS_CardinalityType DEF accumulated_votes
<1>2. \A n \in Forks : ThresholdOf(n) = 0
  BY BoundsAssumption DEF BoundsAssumption, ThresholdOf, NoVoting
<1>3. VotedForks(win, h) = { n \in Forks : h >= heights[n].height }
  BY <1>1, <1>2 DEF VotedForks
<1>4. get_ideal_index(h) \in Forks
  BY IdealFact
<1>5. CASE VotedForks(win, h) = {}
  <2>1. get_ideal_index(h) = 1
    BY <1>3, <1>4, <1>5, IdealFact, ForksFacts
  <2> QED
    BY <2>1, <1>5, ForksFacts DEF RaiseIndex, get_voted_fork_index
<1>6. CASE VotedForks(win, h) # {}
  <2> DEFINE v == Highest(VotedForks(win, h))
  <2>1. v \in VotedForks(win, h) /\ \A m \in VotedForks(win, h) : m <= v
    BY <1>3, <1>6, HighestFact
  <2> HIDE DEF v
  <2>a. v \in Forks /\ h >= heights[v].height
    BY <2>1, <1>3
  <2>b. v > 1 => v <= get_ideal_index(h)
    BY <2>a, IdealFact
  <2>2. v <= get_ideal_index(h)
    BY <2>a, <2>b, <1>4, ForksFacts
  <2>3. get_ideal_index(h) > 1 => get_ideal_index(h) <= v
    BY <2>1, <1>3, <1>4, IdealFact
  <2>4. v = get_ideal_index(h)
    BY <2>1, <2>2, <2>3, <1>3, <1>4, ForksFacts
  <2> QED
    BY <2>4, <1>4, <1>6, ForksFacts DEF RaiseIndex, get_voted_fork_index, v
<1> QED
  BY <1>5, <1>6

----------------------------------------------------------------------------
(* What the calls do to the window and to the index. *)

\* A vote is a natural number.
LEMMA VoteType ==
  ASSUME NEW b \in Blocks
  PROVE  VoteOf(b) \in Nat /\ get_block_vote(b) \in Nat /\ b.major_version \in ForkVersions
<1>1. b.minor_version \in Nat /\ b.major_version \in ForkVersions
  BY BoundsAssumption DEF BoundsAssumption, Blocks
<1>2. max_version \in Nat
  BY ForksFacts DEF max_version
<1>3. get_block_vote(b) \in Nat
  BY <1>1 DEF get_block_vote
<1> QED
  BY <1>1, <1>2, <1>3 DEF VoteOf, get_effective_version

\* Pushing a vote keeps the window within its size and makes it non-empty.
LEMMA PushVoteType ==
  ASSUME NEW win \in Seq(Nat), Len(win) <= window_size, NEW v \in Nat
  PROVE  /\ PushVote(win, v) \in Seq(Nat)
         /\ Len(PushVote(win, v)) <= window_size
         /\ Len(PushVote(win, v)) > 0
<1> USE BoundsAssumption DEF BoundsAssumption
<1>1. CASE Len(win) >= window_size
  <2> DEFINE kept == SubSeq(win, Len(win) - window_size + 2, Len(win))
  <2>1. Len(win) = window_size /\ Len(win) \in Nat
    BY <1>1
  <2>2. \A i \in (Len(win) - window_size + 2)..Len(win) : win[i] \in Nat
    BY <2>1, ElementOfSeq
  <2>3. kept \in Seq(Nat) /\ Len(kept) = window_size - 1
    BY <2>1, <2>2, SubSeqProperties
  <2> HIDE DEF kept
  <2>4. Append(kept, v) \in Seq(Nat) /\ Len(Append(kept, v)) = window_size
    BY <2>3, AppendProperties
  <2> QED
    BY <2>4, <1>1 DEF PushVote, kept
<1>2. CASE ~(Len(win) >= window_size)
  <2>1. Append(win, v) \in Seq(Nat) /\ Len(Append(win, v)) = Len(win) + 1
    BY AppendProperties
  <2> QED
    BY <2>1, <1>2 DEF PushVote
<1> QED
  BY <1>1, <1>2

\* The votes of a stretch of the chain form a window of that length.
LEMMA VotesType ==
  ASSUME NEW c \in Seq(Blocks), NEW lo \in Nat, NEW hi \in Nat, lo <= hi, hi < Len(c)
  PROVE  Votes(c, lo, hi) \in Seq(Nat) /\ Len(Votes(c, lo, hi)) = hi - lo + 1
<1>1. \A i \in 1..(hi - lo + 1) : c[lo + i] \in Blocks
  BY ElementOfSeq
<1>2. \A i \in 1..(hi - lo + 1) : VoteOf(c[lo + i]) \in Nat
  BY <1>1, VoteType
<1> DEFINE n == hi - lo + 1
<1>3. n \in Nat
  OBVIOUS
<1>4. Votes(c, lo, hi) \in [1..n -> Nat]
  BY <1>2 DEF Votes
<1> HIDE DEF n
<1> QED
  BY <1>3, <1>4 DEF n

\* The part of the state the operations add, pop and reorganise work on.
WindowOK ==
  /\ versions \in Seq(Nat)
  /\ Len(versions) <= window_size
  /\ current_fork_index \in Forks

TableOK == hf_versions \in [0..MaxHeight -> ForkVersions \cup {0}]

\* The table holds versions, 0 where nothing was recorded yet.
LEMMA TableEntry ==
  ASSUME TableOK, NEW h \in 0..MaxHeight
  PROVE  hf_versions[h] \in Nat
<1>1. hf_versions[h] \in ForkVersions \cup {0}
  BY DEF TableOK
<1>2. \A x \in ForkVersions \cup {0} : x \in Nat
  BY ForksFacts
<1> QED
  BY <1>1, <1>2, Zenon

\* HardFork::add keeps the types and, when it accepts the block, records its version.
LEMMA AddFacts ==
  ASSUME WindowOK, TableOK, NEW b \in Blocks, NEW h \in 0..MaxHeight, add(b, h)
  PROVE  /\ WindowOK' /\ TableOK'
         /\ Len(versions) > 0 => Len(versions') > 0
         /\ do_check(b) => Len(versions') > 0 /\ hf_versions' = [hf_versions EXCEPT ![h] = b.major_version]
         /\ ~do_check(b) => UNCHANGED <<hf_versions, versions, current_fork_index>>
<1> USE BoundsAssumption DEF BoundsAssumption, WindowOK, TableOK
<1>1. CASE do_check(b)
  <2> DEFINE w == PushVote(versions, VoteOf(b))
  <2>1. w \in Seq(Nat) /\ Len(w) <= window_size /\ Len(w) > 0
    BY PushVoteType, VoteType
  <2>2. versions' = w /\ current_fork_index' = RaiseIndex(w, current_fork_index, h + 1)
    BY <1>1 DEF add
  <2>3. hf_versions' = [hf_versions EXCEPT ![h] = b.major_version]
    BY <1>1 DEF add, do_check
  <2> HIDE DEF w
  <2>4. current_fork_index' \in Forks
    BY <2>2, RaiseIndexType
  <2>5. b.major_version \in ForkVersions
    BY VoteType
  <2> QED
    BY <2>1, <2>2, <2>3, <2>4, <2>5, <1>1
<1>2. CASE ~do_check(b)
  BY <1>2 DEF add
<1> QED
  BY <1>1, <1>2

\* Without voting, add moves the index from the ideal of h to the ideal of h + 1.
LEMMA AddIdeal ==
  ASSUME NoVoting, WindowOK, NEW b \in Blocks, NEW h \in Nat, add(b, h), do_check(b),
         current_fork_index = get_ideal_index(h)
  PROVE  current_fork_index' = get_ideal_index(h + 1)
<1> DEFINE w == PushVote(versions, VoteOf(b))
<1>1. w \in Seq(Nat)
  BY PushVoteType, VoteType DEF WindowOK
<1>2. current_fork_index' = RaiseIndex(w, current_fork_index, h + 1)
  BY DEF add
<1> HIDE DEF w
<1>3. current_fork_index <= get_ideal_index(h + 1)
  BY IdealMonotone
<1> QED
  BY <1>1, <1>2, <1>3, RaiseIndexIdeal DEF WindowOK

\* Popping a block keeps the types and the window's length, cuts the chain by one
\* and sets the index to the ideal one.
LEMMA PopFacts ==
  ASSUME WindowOK, TableOK, chain \in Seq(Blocks), Len(chain) <= MaxHeight,
         Len(versions) > 0, pop_block
  PROVE  /\ WindowOK' /\ TableOK'
         /\ Len(versions') > 0
         /\ chain' \in Seq(Blocks)
         /\ Len(chain) > 1 /\ Len(chain') = Len(chain) - 1
         /\ \A i \in 1..Len(chain') : chain'[i] = chain[i]
         /\ current_fork_index' = get_ideal_index(Len(chain'))
         /\ UNCHANGED hf_versions
<1> USE BoundsAssumption DEF BoundsAssumption, WindowOK, TableOK
<1>1. Len(chain) \in Nat /\ Len(chain) > 1
  BY DEF pop_block, db_height
<1>2. \A i \in 1..(Len(chain) - 1) : chain[i] \in Blocks
  BY <1>1, ElementOfSeq
<1>3. /\ chain' \in Seq(Blocks) /\ Len(chain') = Len(chain) - 1
      /\ \A i \in 1..Len(chain') : chain'[i] = chain[i]
  BY <1>1, <1>2, SubSeqProperties DEF pop_block, db_height
<1>4. hf_versions[Len(chain) - 1] \in Nat
  <2>1. Len(chain) - 1 \in 0..MaxHeight
    BY <1>1
  <2> QED
    BY <2>1, TableEntry, Zenon
<1>5. versions \in Seq(Nat) /\ Len(versions) > 0
  BY Zenon
<1> DEFINE rest == SubSeq(versions, 1, Len(versions) - 1)
<1>6. rest \in Seq(Nat) /\ Len(rest) = Len(versions) - 1
  BY <1>5, FrontFact, Zenon
<1>7. versions' = <<hf_versions[Len(chain) - 1]>> \o rest
  BY DEF pop_block, on_block_popped, db_height
<1> HIDE DEF rest
<1>8. versions' \in Seq(Nat) /\ Len(versions') = Len(versions)
  BY <1>4, <1>6, <1>7, ConcatProperties
<1>9. current_fork_index' = get_ideal_index(Len(chain) - 1)
  BY DEF pop_block, on_block_popped, db_height
<1>10. get_ideal_index(Len(chain) - 1) \in Forks
  BY <1>1, IdealFact
<1> QED
  BY <1>1, <1>3, <1>8, <1>9, <1>10 DEF pop_block

\* reorganize_from_chain_height rebuilds a non-empty window and yields a fork;
\* without voting, on a chain of ideal versions, it yields the ideal one.
LEMMA ReorganizeFacts ==
  ASSUME TypeOK, NEW h \in 1..Len(chain), reorganize_from_chain_height(h)
  PROVE  /\ WindowOK'
         /\ Len(versions') > 0
         /\ stale' = 0
         /\ NoVoting /\ HfTableMatchesChain /\ BlocksHaveIdealVersion
              => current_fork_index' = get_ideal_index(h)
<1> USE BoundsAssumption DEF BoundsAssumption
<1> DEFINE lo  == IF h >= window_size THEN h - window_size ELSE 0
           win == Votes(chain, lo, h - 1)
           sv  == IF h = 1 THEN 1 ELSE hf_versions[h - 1]
           keep == { n \in 1..current_fork_index : heights[n].version <= sv }
<1>1. /\ chain \in Seq(Blocks) /\ Len(chain) \in Nat /\ Len(chain) <= MaxHeight
      /\ current_fork_index \in Forks
      /\ hf_versions \in [0..MaxHeight -> ForkVersions \cup {0}]
  BY DEF TypeOK, db_height
<1>2. lo \in Nat /\ lo <= h - 1 /\ h - lo <= window_size /\ h - 1 \in Nat /\ h - 1 < Len(chain)
  OBVIOUS
<1>3. win \in Seq(Nat) /\ Len(win) = h - lo
  <2> HIDE DEF lo
  <2>1. Votes(chain, lo, h - 1) \in Seq(Nat) /\ Len(Votes(chain, lo, h - 1)) = (h - 1) - lo + 1
    BY <1>1, <1>2, VotesType
  <2> QED
    BY <2>1, <1>2
<1>4. sv \in Nat
  <2>1. h - 1 \in 0..MaxHeight
    BY <1>1
  <2>2. hf_versions[h - 1] \in Nat
    BY <2>1, <1>1, TableEntry, Zenon DEF TableOK
  <2> QED
    BY <2>2
<1>5. /\ versions' = win
      /\ current_fork_index' = RaiseIndex(win, StepBackIndex(sv), h)
      /\ stale' = 0
  BY DEF reorganize_from_chain_height
<1>6. keep \subseteq Forks
  BY <1>1, ForksFacts
<1>7. StepBackIndex(sv) \in Forks /\ (StepBackIndex(sv) = 1 \/ StepBackIndex(sv) \in keep)
  <2>1. CASE keep = {}
    BY <2>1, ForksFacts DEF StepBackIndex
  <2>2. CASE keep # {}
    <3>1. Highest(keep) \in keep
      BY <2>2, <1>6, HighestFact
    <3> QED
      BY <3>1, <2>2, <1>6 DEF StepBackIndex
  <2> QED
    BY <2>1, <2>2
<1>8. current_fork_index' \in Forks
  BY <1>5, <1>7, RaiseIndexType
<1>9. ASSUME NoVoting, HfTableMatchesChain, BlocksHaveIdealVersion
      PROVE  current_fork_index' = get_ideal_index(h)
  <2>1. get_ideal_index(h) \in Forks /\ get_ideal_index(h - 1) \in Forks
    BY <1>2, IdealFact
  <2>2. get_ideal_index(h - 1) <= get_ideal_index(h)
    BY <1>2, IdealMonotone
  <2>3. \A m, n \in Forks : m < n => heights[m].version < heights[n].version
    BY ScheduleAssumption DEF ScheduleAssumption
  <2>4. h # 1 => sv = heights[get_ideal_index(h - 1)].version
    <3> SUFFICES ASSUME h # 1 PROVE hf_versions[h - 1] = heights[get_ideal_index(h - 1)].version
      OBVIOUS
    <3>1. hf_versions[h - 1] = chain[(h - 1) + 1].major_version
      BY <1>2, <1>9 DEF HfTableMatchesChain, db_height
    <3>2. chain[h].major_version = heights[get_ideal_index(h - 1)].version
      BY <1>9 DEF BlocksHaveIdealVersion
    <3> QED
      BY <3>1, <3>2
  <2>5. StepBackIndex(sv) <= get_ideal_index(h)
    <3>1. CASE StepBackIndex(sv) = 1
      BY <3>1, <2>1, ForksFacts
    <3>2. CASE StepBackIndex(sv) \in keep /\ h # 1
      <4>1. heights[StepBackIndex(sv)].version <= heights[get_ideal_index(h - 1)].version
        BY <3>2, <2>4
      <4>2. ~(get_ideal_index(h - 1) < StepBackIndex(sv))
        BY <4>1, <2>1, <2>3, <1>7, ForksFacts
      <4> QED
        BY <4>2, <2>1, <2>2, <1>7, ForksFacts
    <3>3. CASE StepBackIndex(sv) \in keep /\ h = 1
      <4>1. heights[StepBackIndex(sv)].version <= 1
        BY <3>3
      <4>2. ~(1 < StepBackIndex(sv))
        BY <4>1, <2>3, <1>7, ForksFacts
      <4> QED
        BY <4>2, <2>1, <1>7, ForksFacts
    <3> QED
      BY <3>1, <3>2, <3>3, <1>7
  <2> HIDE DEF win, sv
  <2> QED
    BY <2>5, <1>3, <1>5, <1>7, <1>9, RaiseIndexIdeal
<1> QED
  <2> HIDE DEF win
  <2>1. Len(win) <= window_size /\ Len(win) > 0
    BY <1>2, <1>3
  <2> QED
    BY <2>1, <1>3, <1>5, <1>8, <1>9 DEF WindowOK

----------------------------------------------------------------------------
(* The inductive invariant. *)

\* The count of the window's entries that pops put there stays a number.
LEMMA StaleType ==
  ASSUME IInv, \/ \E b \in Blocks, h \in Nat : add(b, h)
               \/ pop_block
  PROVE  stale' \in Nat
<1>1. stale \in Nat
  BY DEF IInv, TypeOK
<1>2. StaleAfterPush \in Nat /\ StaleAfterPop \in Nat
  BY <1>1 DEF StaleAfterPush, StaleAfterPop
<1>3. stale' \in {stale, StaleAfterPush, StaleAfterPop}
  BY DEF add, pop_block
<1> QED
  BY <1>1, <1>2, <1>3, Zenon

\* Adding an acceptable block to the top of the chain.
LEMMA AddBlockFacts ==
  ASSUME IInv, phase # "rescan", NEW b \in Blocks, db_height < MaxHeight, do_check(b), add_block(b)
  PROVE  /\ chain' \in Seq(Blocks) /\ Len(chain') = Len(chain) + 1
         /\ \A i \in 1..Len(chain) : chain'[i] = chain[i]
         /\ chain'[Len(chain) + 1] = b
         /\ WindowOK' /\ TableOK' /\ Len(versions') > 0 /\ stale' \in Nat
         /\ HfTableMatchesChain'
         /\ \A i \in 1..Len(chain') : get_block_vote(chain'[i]) >= chain'[i].major_version
         /\ NoVoting => /\ current_fork_index' = get_ideal_index(Len(chain'))
                        /\ \A i \in 1..Len(chain') :
                             chain'[i].major_version = heights[get_ideal_index(i - 1)].version
<1> USE BoundsAssumption DEF BoundsAssumption
<1>1. chain \in Seq(Blocks) /\ Len(chain) \in Nat /\ Len(chain) < MaxHeight /\ WindowOK /\ TableOK
  BY DEF IInv, TypeOK, WindowOK, TableOK, db_height
<1>2. /\ chain' \in Seq(Blocks) /\ Len(chain') = Len(chain) + 1
      /\ \A i \in 1..Len(chain) : chain'[i] = chain[i]
      /\ chain'[Len(chain) + 1] = b
  BY <1>1, AppendProperties DEF add_block
<1>3. add(b, Len(chain)) /\ Len(chain) \in 0..MaxHeight
  BY <1>1 DEF add_block, db_height
<1>4. /\ WindowOK' /\ TableOK' /\ Len(versions') > 0
      /\ hf_versions' = [hf_versions EXCEPT ![Len(chain)] = b.major_version]
  BY <1>1, <1>3, AddFacts
<1>5. HfTableMatchesChain'
  <2> SUFFICES ASSUME NEW h \in 0..(Len(chain') - 1)
               PROVE  hf_versions'[h] = chain'[h + 1].major_version
    BY DEF HfTableMatchesChain, db_height
  <2>1. CASE h = Len(chain)
    BY <2>1, <1>1, <1>2, <1>3, <1>4 DEF TableOK
  <2>2. CASE h # Len(chain)
    <3>1. h \in 0..(Len(chain) - 1) /\ h + 1 \in 1..Len(chain)
      BY <2>2, <1>1, <1>2
    <3>2. hf_versions[h] = chain[h + 1].major_version
      BY <3>1 DEF IInv, HfTableMatchesChain, db_height
    <3>3. h \in 0..MaxHeight /\ chain'[h + 1] = chain[h + 1]
      BY <3>1, <1>1, <1>2
    <3>4. hf_versions'[h] = hf_versions[h]
      BY <3>3, <2>2, <1>1, <1>4 DEF TableOK
    <3> QED
      BY <3>2, <3>3, <3>4
  <2> QED
    BY <2>1, <2>2
<1>6. \A i \in 1..Len(chain') : get_block_vote(chain'[i]) >= chain'[i].major_version
  <2>1. get_block_vote(b) >= b.major_version
    BY DEF do_check
  <2>2. \A i \in 1..Len(chain) : get_block_vote(chain[i]) >= chain[i].major_version
    BY DEF IInv, VotesBackVersions
  <2> QED
    BY <2>1, <2>2, <1>1, <1>2
<1>7. ASSUME NoVoting
      PROVE  /\ current_fork_index' = get_ideal_index(Len(chain'))
             /\ \A i \in 1..Len(chain') :
                  chain'[i].major_version = heights[get_ideal_index(i - 1)].version
  <2>1. current_fork_index = get_ideal_index(Len(chain))
    BY <1>1, <1>7, IdealAtZero
       DEF IInv, CurrentVersionIsIdeal, BlocksHaveIdealVersion, db_height
  <2>2. current_fork_index' = get_ideal_index(Len(chain) + 1)
    BY <2>1, <1>1, <1>3, <1>7, AddIdeal
  <2>3. b.major_version = heights[get_ideal_index(Len(chain))].version
    BY <2>1 DEF do_check
  <2>4. \A i \in 1..Len(chain) : chain[i].major_version = heights[get_ideal_index(i - 1)].version
    BY <1>7 DEF IInv, BlocksHaveIdealVersion
  <2> QED
    BY <2>2, <2>3, <2>4, <1>1, <1>2
<1>8. stale' \in Nat
  BY <1>3, StaleType
<1> QED
  BY <1>2, <1>4, <1>5, <1>6, <1>7, <1>8

\* Taking a block off the top of the chain.
LEMMA PopBlockFacts ==
  ASSUME IInv, phase # "rescan", pop_block
  PROVE  /\ chain' \in Seq(Blocks) /\ Len(chain) > 1 /\ Len(chain') = Len(chain) - 1
         /\ \A i \in 1..Len(chain') : chain'[i] = chain[i]
         /\ WindowOK' /\ TableOK' /\ Len(versions') > 0 /\ stale' \in Nat
         /\ HfTableMatchesChain'
         /\ \A i \in 1..Len(chain') : get_block_vote(chain'[i]) >= chain'[i].major_version
         /\ current_fork_index' = get_ideal_index(Len(chain'))
         /\ NoVoting => \A i \in 1..Len(chain') :
                             chain'[i].major_version = heights[get_ideal_index(i - 1)].version
<1>1. /\ chain \in Seq(Blocks) /\ Len(chain) \in Nat /\ Len(chain) <= MaxHeight
      /\ WindowOK /\ TableOK /\ (Len(chain) > 0 => Len(versions) > 0)
  BY DEF IInv, TypeOK, WindowOK, TableOK, db_height
<1>2. Len(chain) > 1
  BY DEF pop_block, db_height
<1>3. /\ WindowOK' /\ TableOK' /\ Len(versions') > 0
      /\ chain' \in Seq(Blocks) /\ Len(chain') = Len(chain) - 1
      /\ \A i \in 1..Len(chain') : chain'[i] = chain[i]
      /\ current_fork_index' = get_ideal_index(Len(chain'))
      /\ UNCHANGED hf_versions
  <2>1. Len(versions) > 0
    BY <1>1, <1>2
  <2> QED
    BY <2>1, <1>1, PopFacts, Zenon
<1>4. HfTableMatchesChain'
  BY <1>1, <1>2, <1>3 DEF IInv, HfTableMatchesChain, db_height
<1>5. \A i \in 1..Len(chain') : get_block_vote(chain'[i]) >= chain'[i].major_version
  BY <1>1, <1>2, <1>3 DEF IInv, VotesBackVersions
<1>6. NoVoting => \A i \in 1..Len(chain') :
                     chain'[i].major_version = heights[get_ideal_index(i - 1)].version
  BY <1>1, <1>2, <1>3 DEF IInv, BlocksHaveIdealVersion
<1>7. stale' \in Nat
  BY StaleType
<1> QED
  BY <1>2, <1>3, <1>4, <1>5, <1>6, <1>7

\* The initial state satisfies the invariant.
LEMMA InitIInv == Init => IInv
<1> SUFFICES ASSUME Init PROVE IInv
  OBVIOUS
<1> USE BoundsAssumption DEF BoundsAssumption, Init
<1>1. Len(chain) = 0 /\ Len(saved) = 0
  BY EmptySeq
<1>2. TypeOK
  <2>1. chain \in Seq(Blocks) /\ saved \in Seq(Blocks) /\ versions \in Seq(Nat) /\ Len(versions) = 0
    BY EmptySeq
  <2>2. current_fork_index \in Forks
    BY ForksFacts
  <2>3. hf_versions \in [0..MaxHeight -> ForkVersions \cup {0}]
    OBVIOUS
  <2>4. split \in 0..MaxHeight /\ next \in 0..MaxHeight /\ phase \in Phases
    BY DEF Phases
  <2>6. stale \in Nat
    BY Zenon
  <2>5. db_height <= MaxHeight /\ ~(db_height > 0) /\ Len(versions) <= window_size
    BY <1>1, <2>1 DEF db_height
  <2> QED
    BY <2>1, <2>2, <2>3, <2>4, <2>5, <2>6, Zenon DEF TypeOK
<1>3. SwitchBookkeeping
  BY <1>1 DEF SwitchBookkeeping
<1>4. HfTableMatchesChain /\ VotesBackVersions
  BY <1>1 DEF HfTableMatchesChain, VotesBackVersions, db_height
<1>5. BlocksHaveIdealVersion /\ CurrentVersionIsIdeal
  BY <1>1 DEF BlocksHaveIdealVersion, CurrentVersionIsIdeal, db_height
<1> QED
  BY <1>2, <1>3, <1>4, <1>5 DEF IInv

\* A block added to the main chain keeps the invariant.
LEMMA AddBlockIInv ==
  ASSUME IInv, NEW b \in Blocks, AddBlock(b) \/ SwitchAdd(b)
  PROVE  IInv'
<1> USE BoundsAssumption DEF BoundsAssumption
<1>1. /\ phase \in {"idle", "connect"} /\ db_height < MaxHeight /\ do_check(b) /\ add_block(b)
      /\ UNCHANGED <<phase, split, saved, next>>
  BY DEF AddBlock, SwitchAdd
<1>2. /\ chain' \in Seq(Blocks) /\ Len(chain') = Len(chain) + 1
      /\ WindowOK' /\ TableOK' /\ Len(versions') > 0 /\ stale' \in Nat
      /\ HfTableMatchesChain'
      /\ \A i \in 1..Len(chain') : get_block_vote(chain'[i]) >= chain'[i].major_version
      /\ NoVoting => /\ current_fork_index' = get_ideal_index(Len(chain'))
                     /\ \A i \in 1..Len(chain') :
                          chain'[i].major_version = heights[get_ideal_index(i - 1)].version
  BY <1>1, AddBlockFacts
<1>3. Len(chain) \in Nat /\ Len(saved) \in Nat /\ split \in Nat
  BY DEF IInv, TypeOK
<1>4. TypeOK'
  <2>1. /\ phase' \in Phases /\ split' \in 0..MaxHeight /\ saved' \in Seq(Blocks)
        /\ next' \in 0..MaxHeight /\ stale' \in Nat
    BY <1>1, <1>2, Zenon DEF IInv, TypeOK
  <2>2. Len(chain) < MaxHeight /\ Len(chain') = Len(chain) + 1
    BY <1>1, <1>2, Zenon DEF db_height
  <2>3. Len(chain') <= MaxHeight
    BY ONLY <2>2, <1>3, BoundsAssumption DEF BoundsAssumption
  <2> QED
    BY <2>1, <2>3, <1>2, Zenon DEF TypeOK, WindowOK, TableOK, db_height
<1>5. SwitchBookkeeping'
  BY <1>1, <1>2, <1>3 DEF IInv, SwitchBookkeeping, db_height
<1>6. VotesBackVersions'
  BY <1>1, <1>2 DEF IInv, VotesBackVersions
<1>7. BlocksHaveIdealVersion'
  BY <1>1, <1>2, <1>3 DEF IInv, BlocksHaveIdealVersion, db_height, RestoreHeight, NoVoting
<1>8. CurrentVersionIsIdeal'
  BY <1>1, <1>2 DEF CurrentVersionIsIdeal, db_height, NoVoting
<1> QED
  BY <1>2, <1>4, <1>5, <1>6, <1>7, <1>8 DEF IInv

\* A popped block keeps the invariant, in pop_blocks, in a switch and in a roll-back.
LEMMA PopIInv ==
  ASSUME IInv, PopBlock \/ SwitchPop \/ RollbackPop
  PROVE  IInv'
<1> USE BoundsAssumption DEF BoundsAssumption
<1>1. /\ phase \in {"idle", "disconnect", "rollback"} /\ pop_block
      /\ phase' \in {phase, "connect"}
      /\ phase' = "connect" => phase = "disconnect"
      /\ phase = "rollback" => Len(chain) # split
      /\ phase = "disconnect" => phase' = IF Len(chain) - 1 = split THEN "connect" ELSE "disconnect"
      /\ UNCHANGED <<split, saved, next>>
  BY DEF PopBlock, SwitchPop, RollbackPop, db_height
<1>2. /\ chain' \in Seq(Blocks) /\ Len(chain) > 1 /\ Len(chain') = Len(chain) - 1
      /\ WindowOK' /\ TableOK' /\ Len(versions') > 0 /\ stale' \in Nat
      /\ HfTableMatchesChain'
      /\ \A i \in 1..Len(chain') : get_block_vote(chain'[i]) >= chain'[i].major_version
      /\ current_fork_index' = get_ideal_index(Len(chain'))
      /\ NoVoting => \A i \in 1..Len(chain') :
                        chain'[i].major_version = heights[get_ideal_index(i - 1)].version
  BY <1>1, PopBlockFacts
<1>3. Len(chain) \in Nat /\ Len(chain) <= MaxHeight /\ Len(saved) \in Nat /\ split \in Nat
  BY DEF IInv, TypeOK, db_height
<1>4. TypeOK'
  BY <1>1, <1>2, <1>3 DEF IInv, TypeOK, WindowOK, TableOK, db_height, Phases
<1>5. SwitchBookkeeping'
  BY <1>1, <1>2, <1>3 DEF IInv, SwitchBookkeeping, db_height
<1>6. VotesBackVersions'
  BY <1>1, <1>2 DEF IInv, VotesBackVersions
<1>7. BlocksHaveIdealVersion'
  <2> SUFFICES ASSUME NoVoting
               PROVE  /\ Len(chain') # 0
                      /\ \A i \in 1..Len(chain') :
                           chain'[i].major_version = heights[get_ideal_index(i - 1)].version
                      /\ phase' \in {"disconnect", "connect", "rollback", "restore"} =>
                           \A i \in 1..Len(saved') :
                             saved'[i].major_version = heights[get_ideal_index(RestoreHeight' + i - 1)].version
    BY DEF BlocksHaveIdealVersion, db_height, NoVoting
  <2>1. phase' \in {"disconnect", "connect", "rollback", "restore"}
          => phase \in {"disconnect", "connect", "rollback", "restore"} /\ RestoreHeight' = RestoreHeight
    BY <1>1 DEF RestoreHeight
  <2>2. phase' \in {"disconnect", "connect", "rollback", "restore"} =>
          \A i \in 1..Len(saved) :
            saved[i].major_version = heights[get_ideal_index(RestoreHeight + i - 1)].version
    BY <2>1 DEF IInv, BlocksHaveIdealVersion
  <2>3. saved' = saved
    BY <1>1
  <2>4. phase' \in {"disconnect", "connect", "rollback", "restore"} =>
          \A i \in 1..Len(saved') :
            saved'[i].major_version = heights[get_ideal_index(RestoreHeight' + i - 1)].version
    BY <2>1, <2>2, <2>3, Zenon
  <2>5. Len(chain') # 0
    <3>1. Len(chain) > 1 /\ Len(chain') = Len(chain) - 1
      BY <1>2, Zenon
    <3> QED
      BY ONLY <3>1, <1>3
  <2>6. \A i \in 1..Len(chain') :
          chain'[i].major_version = heights[get_ideal_index(i - 1)].version
    BY <1>2, Zenon
  <2> QED
    BY <2>4, <2>5, <2>6, Zenon
<1>8. CurrentVersionIsIdeal'
  BY <1>1, <1>2 DEF CurrentVersionIsIdeal, db_height, NoVoting
<1> QED
  BY <1>2, <1>4, <1>5, <1>6, <1>7, <1>8 DEF IInv

\* The steps that start a reorganisation of the window keep the invariant.
LEMMA ReorganizeIInv ==
  ASSUME IInv, SwitchSucceed \/ RollbackReorganize \/ RestoreDone
  PROVE  IInv'
<1> USE BoundsAssumption DEF BoundsAssumption
<1>1. /\ phase \in {"connect", "rollback", "restore"}
      /\ reorganize_from_chain_height(split)
      /\ UNCHANGED <<chain, hf_versions, split>>
      /\ \/ phase' = "rescan" /\ next' = split /\ saved' = <<>>
         \/ phase = "rollback" /\ phase' = "restore" /\ Len(chain) = split /\ UNCHANGED <<next, saved>>
  BY DEF SwitchSucceed, RollbackReorganize, RestoreDone, db_height
<1>2. /\ Len(chain) \in Nat /\ Len(chain) <= MaxHeight /\ Len(saved) \in Nat /\ split \in Nat
      /\ split >= 1 /\ split <= Len(chain)
  BY <1>1 DEF IInv, TypeOK, SwitchBookkeeping, db_height
<1>3. /\ WindowOK' /\ Len(versions') > 0 /\ stale' = 0
      /\ NoVoting => current_fork_index' = get_ideal_index(split)
  <2>1. split \in 1..Len(chain) /\ TypeOK /\ HfTableMatchesChain /\ BlocksHaveIdealVersion
    BY <1>2 DEF IInv
  <2> QED
    BY <2>1, <1>1, ReorganizeFacts, Zenon
<1>4. saved' \in Seq(Blocks) /\ Len(saved') \in Nat
  BY <1>1, EmptySeq DEF IInv, TypeOK
<1>5. TypeOK'
  <2>1. next' \in 0..MaxHeight /\ phase' \in Phases
    BY <1>1, <1>2 DEF IInv, TypeOK, Phases
  <2>2. stale' \in Nat
    BY <1>3, Zenon
  <2> QED
    BY <2>1, <2>2, <1>1, <1>2, <1>3, <1>4 DEF IInv, TypeOK, WindowOK, db_height
<1>6. SwitchBookkeeping'
  BY <1>1, <1>2, <1>4 DEF IInv, SwitchBookkeeping, db_height
<1>7. HfTableMatchesChain'
  BY <1>1 DEF IInv, HfTableMatchesChain, db_height
<1>8. VotesBackVersions'
  <2>1. CASE saved' = <<>>
    BY <2>1, <1>1, EmptySeq DEF IInv, VotesBackVersions
  <2>2. CASE saved' = saved
    BY <2>2, <1>1 DEF IInv, VotesBackVersions
  <2> QED
    BY <2>1, <2>2, <1>1
<1>9. BlocksHaveIdealVersion'
  <2> SUFFICES ASSUME NoVoting
               PROVE  /\ Len(chain') # 0
                      /\ \A i \in 1..Len(chain') :
                           chain'[i].major_version = heights[get_ideal_index(i - 1)].version
                      /\ phase' \in {"disconnect", "connect", "rollback", "restore"} =>
                           \A i \in 1..Len(saved') :
                             saved'[i].major_version = heights[get_ideal_index(RestoreHeight' + i - 1)].version
    BY DEF BlocksHaveIdealVersion, db_height, NoVoting
  <2>1. chain' = chain /\ Len(chain') # 0
    BY <1>1, <1>2
  <2>2. \A i \in 1..Len(chain) : chain[i].major_version = heights[get_ideal_index(i - 1)].version
    BY DEF IInv, BlocksHaveIdealVersion
  <2>3. ASSUME phase' \in {"disconnect", "connect", "rollback", "restore"}
        PROVE  phase = "rollback" /\ RestoreHeight' = RestoreHeight /\ saved' = saved
    BY <2>3, <1>1 DEF RestoreHeight, db_height
  <2>4. phase = "rollback" =>
          \A i \in 1..Len(saved) :
            saved[i].major_version = heights[get_ideal_index(RestoreHeight + i - 1)].version
    BY DEF IInv, BlocksHaveIdealVersion
  <2> QED
    BY <2>1, <2>2, <2>3, <2>4, Zenon
<1>10. CurrentVersionIsIdeal'
  BY <1>1, <1>2, <1>3 DEF CurrentVersionIsIdeal, db_height, NoVoting
<1> QED
  BY <1>5, <1>6, <1>7, <1>8, <1>9, <1>10 DEF IInv

\* A restart rebuilds the same index from the database.
LEMMA RestartIInv ==
  ASSUME IInv, Restart
  PROVE  IInv'
<1> USE BoundsAssumption DEF BoundsAssumption
<1>1. /\ phase = "idle" /\ stale' = 0
      /\ UNCHANGED <<chain, hf_versions, phase, split, saved, next>>
  BY DEF Restart
<1>2. chain \in Seq(Blocks) /\ Len(chain) \in Nat /\ Len(chain) <= MaxHeight /\ TableOK
  BY DEF IInv, TypeOK, TableOK, db_height
<1>3. /\ WindowOK' /\ (Len(chain) > 0 => Len(versions') > 0)
      /\ Len(chain) = 0 => current_fork_index' = 1
      /\ NoVoting /\ Len(chain) > 0 => current_fork_index' = get_ideal_index(Len(chain))
  <2>1. CASE Len(chain) = 0
    <3>1. versions' = <<>> /\ current_fork_index' = 1
      BY <2>1 DEF Restart, db_height
    <3>2. versions' \in Seq(Nat) /\ Len(versions') = 0
      BY <3>1, EmptySeq
    <3> QED
      BY <2>1, <3>1, <3>2, ForksFacts DEF WindowOK
  <2>2. CASE Len(chain) > 0
    <3> DEFINE lo == IF Len(chain) > window_size THEN Len(chain) - window_size ELSE 0
               i0 == IndexOfVersion(hf_versions[Len(chain) - 1])
    <3>1. lo \in Nat /\ lo <= Len(chain) - 1 /\ Len(chain) - lo <= window_size /\ Len(chain) - 1 \in Nat
      BY <2>2, <1>2
    <3>2. RescannedWindow = Votes(chain, lo, Len(chain) - 1)
      BY DEF RescannedWindow, db_height
    <3>3. /\ versions' = RescannedWindow
          /\ current_fork_index' = RaiseIndex(RescannedWindow, i0, Len(chain))
      BY <2>2 DEF Restart, RescannedIndex, db_height
    <3> HIDE DEF lo
    <3>4. RescannedWindow \in Seq(Nat) /\ Len(RescannedWindow) = Len(chain) - lo
      <4>1. Votes(chain, lo, Len(chain) - 1) \in Seq(Nat)
            /\ Len(Votes(chain, lo, Len(chain) - 1)) = (Len(chain) - 1) - lo + 1
        BY <3>1, <1>2, VotesType
      <4> QED
        BY <4>1, <3>1, <3>2
    <3>5. i0 \in Forks
      BY ForksFacts DEF IndexOfVersion
    <3>6. current_fork_index' \in Forks
      BY <3>3, <3>5, RaiseIndexType
    <3>7. ASSUME NoVoting PROVE current_fork_index' = get_ideal_index(Len(chain))
      <4>1. get_ideal_index(Len(chain) - 1) \in Forks /\ get_ideal_index(Len(chain)) \in Forks
        BY <3>1, <1>2, IdealFact
      <4>2. hf_versions[Len(chain) - 1] = chain[(Len(chain) - 1) + 1].major_version
        BY <2>2, <1>2 DEF IInv, HfTableMatchesChain, db_height
      <4>3. chain[Len(chain)].major_version = heights[get_ideal_index(Len(chain) - 1)].version
        BY <2>2, <1>2, <3>7 DEF IInv, BlocksHaveIdealVersion
      <4>4. hf_versions[Len(chain) - 1] = heights[get_ideal_index(Len(chain) - 1)].version
        BY <4>2, <4>3, <1>2
      <4>5. heights[i0].version = heights[get_ideal_index(Len(chain) - 1)].version
        BY <4>1, <4>4 DEF IndexOfVersion
      <4>6. \A m, n \in Forks : m < n => heights[m].version < heights[n].version
        BY ScheduleAssumption DEF ScheduleAssumption
      <4>7. i0 = get_ideal_index(Len(chain) - 1)
        <5> DEFINE j == get_ideal_index(Len(chain) - 1)
        <5>1. i0 \in Nat /\ j \in Nat /\ i0 \in Forks /\ j \in Forks
          BY <3>5, <4>1, ForksFacts
        <5>2. heights[i0].version \in Nat /\ heights[i0].version = heights[j].version
          BY <5>1, <4>5, ForksFacts
        <5> HIDE DEF i0, j
        <5>3. ~(i0 < j) /\ ~(j < i0)
          BY <5>1, <5>2, <4>6
        <5>4. i0 = j
          BY <5>1, <5>3
        <5> QED
          BY <5>4 DEF j
      <4>8. get_ideal_index(Len(chain) - 1) <= get_ideal_index(Len(chain))
        BY <3>1, <1>2, IdealMonotone
      <4> HIDE DEF i0
      <4> QED
        BY <4>7, <4>8, <3>3, <3>4, <3>5, <3>7, <1>2, RaiseIndexIdeal
    <3>8. versions' \in Seq(Nat) /\ Len(versions') <= window_size /\ Len(versions') > 0
      BY <3>1, <3>3, <3>4
    <3> QED
      BY <3>6, <3>7, <3>8, <2>2 DEF WindowOK
  <2> QED
    BY <2>1, <2>2, <1>2
<1>4. TypeOK'
  <2>1. stale' \in Nat
    BY <1>1, Zenon
  <2> QED
    BY <2>1, <1>1, <1>2, <1>3 DEF IInv, TypeOK, WindowOK, db_height
<1>5. SwitchBookkeeping' /\ HfTableMatchesChain' /\ VotesBackVersions'
  BY <1>1 DEF IInv, SwitchBookkeeping, HfTableMatchesChain, VotesBackVersions, db_height
<1>6. BlocksHaveIdealVersion'
  <2> SUFFICES ASSUME NoVoting
               PROVE  /\ Len(chain') = 0 => current_fork_index' = 1
                      /\ \A i \in 1..Len(chain') :
                           chain'[i].major_version = heights[get_ideal_index(i - 1)].version
                      /\ phase' \notin {"disconnect", "connect", "rollback", "restore"}
    BY DEF BlocksHaveIdealVersion, db_height, NoVoting
  <2>1. \A i \in 1..Len(chain) : chain[i].major_version = heights[get_ideal_index(i - 1)].version
    BY DEF IInv, BlocksHaveIdealVersion
  <2> QED
    BY <2>1, <1>1, <1>3
<1>7. CurrentVersionIsIdeal'
  BY <1>1, <1>3 DEF CurrentVersionIsIdeal, db_height, NoVoting
<1> QED
  BY <1>4, <1>5, <1>6, <1>7 DEF IInv

\* Starting a switch remembers the blocks above the split.
LEMMA SwitchBeginIInv ==
  ASSUME IInv, NEW h \in 1..MaxHeight, SwitchBegin(h)
  PROVE  IInv'
<1> USE BoundsAssumption DEF BoundsAssumption
<1>1. /\ phase = "idle" /\ phase' = "disconnect" /\ h \in 1..(Len(chain) - 1) /\ split' = h
      /\ saved' = SubSeq(chain, h + 1, Len(chain))
      /\ UNCHANGED <<chain, hf_versions, versions, current_fork_index, next, stale>>
  BY DEF SwitchBegin, db_height
<1>2. chain \in Seq(Blocks) /\ Len(chain) \in Nat /\ Len(chain) <= MaxHeight
  BY DEF IInv, TypeOK, db_height
<1>3. /\ saved' \in Seq(Blocks) /\ Len(saved') = Len(chain) - h
      /\ \A i \in 1..Len(saved') : h + i \in 1..Len(chain) /\ saved'[i] = chain[h + i]
  <2>1. h + 1 \in 1..(Len(chain) + 1) /\ Len(chain) \in (h + 1) - 1 .. Len(chain)
    BY <1>1, <1>2
  <2>2. saved' \in Seq(Blocks)
    <3>1. SubSeq(chain, h + 1, Len(chain)) \in Seq(Blocks)
      BY ONLY <1>2, <2>1, SegmentFact
    <3> QED
      BY <3>1, <1>1, Zenon
  <2>3. Len(saved') = Len(chain) - (h + 1) + 1 /\ \A i \in 1..(Len(chain) - (h + 1) + 1) : saved'[i] = chain[(h + 1) + i - 1]
    BY <1>1, <1>2, <2>1
  <2>4. h \in 1..(Len(chain) - 1)
    BY <1>1, Zenon
  <2> QED
    BY ONLY <2>2, <2>3, <2>4, <1>2
<1>4. TypeOK'
  BY <1>1, <1>2, <1>3 DEF IInv, TypeOK, Phases, db_height
<1>5. SwitchBookkeeping'
  BY <1>1, <1>2, <1>3 DEF SwitchBookkeeping, db_height
<1>6. HfTableMatchesChain' /\ CurrentVersionIsIdeal'
  BY <1>1 DEF IInv, HfTableMatchesChain, CurrentVersionIsIdeal, db_height, NoVoting
<1>7. VotesBackVersions'
  BY <1>1, <1>3 DEF IInv, VotesBackVersions
<1>8. BlocksHaveIdealVersion'
  <2> SUFFICES ASSUME NoVoting
               PROVE  /\ Len(chain') # 0
                      /\ \A i \in 1..Len(chain') :
                           chain'[i].major_version = heights[get_ideal_index(i - 1)].version
                      /\ \A i \in 1..Len(saved') :
                           saved'[i].major_version = heights[get_ideal_index(RestoreHeight' + i - 1)].version
    BY DEF BlocksHaveIdealVersion, db_height, NoVoting
  <2>1. \A i \in 1..Len(chain) : chain[i].major_version = heights[get_ideal_index(i - 1)].version
    BY DEF IInv, BlocksHaveIdealVersion
  <2>2. RestoreHeight' = h
    BY <1>1 DEF RestoreHeight
  <2> QED
    BY <2>1, <2>2, <1>1, <1>2, <1>3
<1> QED
  BY <1>4, <1>5, <1>6, <1>7, <1>8 DEF IInv

\* A failed candidate block, the end of the re-adding loop, and a step that does
\* nothing only change the phase.
LEMMA PhaseIInv ==
  ASSUME IInv, SwitchFail \/ RescanDone \/ UNCHANGED vars
  PROVE  IInv'
<1>1. /\ UNCHANGED <<chain, hf_versions, versions, current_fork_index, split, saved, next, stale>>
      /\ \/ phase' = phase
         \/ phase = "connect" /\ phase' = "rollback"
         \/ phase = "rescan" /\ next = db_height /\ phase' = "idle"
  BY DEF SwitchFail, RescanDone, vars
<1>2. TypeOK' /\ SwitchBookkeeping'
  BY <1>1 DEF IInv, TypeOK, SwitchBookkeeping, Phases, db_height
<1>3. HfTableMatchesChain' /\ VotesBackVersions'
  BY <1>1 DEF IInv, HfTableMatchesChain, VotesBackVersions, db_height
<1>4. BlocksHaveIdealVersion'
  BY <1>1 DEF IInv, BlocksHaveIdealVersion, RestoreHeight, NoVoting, db_height
<1>5. CurrentVersionIsIdeal'
  BY <1>1 DEF IInv, CurrentVersionIsIdeal, NoVoting, db_height
<1> QED
  BY <1>2, <1>3, <1>4, <1>5 DEF IInv

\* Without voting the first disconnected block is acceptable again.
LEMMA RestoreAcceptedFromIInv == IInv => RestoreAccepted
<1> SUFFICES ASSUME IInv, NoVoting, phase = "restore", saved # <<>>
             PROVE  do_check(Head(saved))
  BY DEF RestoreAccepted
<1>1. saved \in Seq(Blocks) /\ Len(saved) \in Nat /\ Len(saved) >= 1 /\ Head(saved) = saved[1]
  BY EmptySeq DEF IInv, TypeOK
<1>2. Len(chain) \in Nat /\ Len(chain) >= 1
  BY DEF IInv, TypeOK, SwitchBookkeeping, db_height
<1>3. RestoreHeight + 1 - 1 = Len(chain)
  BY <1>2 DEF RestoreHeight, db_height
<1>4. saved[1].major_version = heights[get_ideal_index(Len(chain))].version
  BY <1>1, <1>3 DEF IInv, BlocksHaveIdealVersion
<1>5. current_fork_index = get_ideal_index(Len(chain))
  BY <1>2 DEF IInv, CurrentVersionIsIdeal, db_height
<1>6. get_block_vote(saved[1]) >= saved[1].major_version
  BY <1>1 DEF IInv, VotesBackVersions
<1> QED
  BY <1>1, <1>4, <1>5, <1>6 DEF do_check

\* Putting a disconnected block back keeps the invariant.
LEMMA RestoreBlockIInv ==
  ASSUME IInv, RestoreBlock
  PROVE  IInv'
<1> USE BoundsAssumption DEF BoundsAssumption
<1>1. /\ phase = "restore" /\ saved # <<>> /\ UNCHANGED <<split, next>>
  BY DEF RestoreBlock
<1>2. /\ Len(chain) \in Nat /\ Len(saved) \in Nat /\ split \in Nat /\ Len(chain) >= 1
      /\ Len(chain) + Len(saved) <= MaxHeight /\ saved \in Seq(Blocks)
  BY <1>1 DEF IInv, TypeOK, SwitchBookkeeping, db_height
<1>3. CASE do_check(Head(saved))
  <2>1. add_block(Head(saved)) /\ saved' = Tail(saved) /\ phase' = "restore"
    BY <1>1, <1>3 DEF RestoreBlock
  <2>2. /\ Head(saved) \in Blocks /\ Tail(saved) \in Seq(Blocks) /\ Len(saved) >= 1
        /\ Len(Tail(saved)) = Len(saved) - 1
        /\ \A i \in 1..Len(Tail(saved)) : i + 1 \in 1..Len(saved) /\ Tail(saved)[i] = saved[i + 1]
    BY <1>1, <1>2, HeadTailProperties, EmptySeq
  <2>3. db_height < MaxHeight
    BY <1>2, <2>2 DEF db_height
  <2>4. /\ chain' \in Seq(Blocks) /\ Len(chain') = Len(chain) + 1
        /\ WindowOK' /\ TableOK' /\ Len(versions') > 0 /\ stale' \in Nat
        /\ HfTableMatchesChain'
        /\ \A i \in 1..Len(chain') : get_block_vote(chain'[i]) >= chain'[i].major_version
        /\ NoVoting => /\ current_fork_index' = get_ideal_index(Len(chain'))
                       /\ \A i \in 1..Len(chain') :
                            chain'[i].major_version = heights[get_ideal_index(i - 1)].version
    BY <1>1, <1>3, <2>1, <2>2, <2>3, AddBlockFacts
  <2>10. Len(chain') = Len(chain) + 1 /\ Len(chain') <= MaxHeight
    BY <1>2, <2>2, <2>4
  <2>5. TypeOK'
    <3>1. /\ phase' \in Phases /\ split' \in 0..MaxHeight /\ saved' \in Seq(Blocks)
          /\ next' \in 0..MaxHeight
      BY <1>1, <2>1, <2>2, Zenon DEF IInv, TypeOK
    <3> QED
      BY <2>4, <2>10, <3>1, Zenon DEF TypeOK, WindowOK, TableOK, db_height
  <2>6. SwitchBookkeeping'
    BY <1>1, <1>2, <2>1, <2>2, <2>10 DEF IInv, SwitchBookkeeping, db_height
  <2>7. VotesBackVersions'
    BY <2>1, <2>2, <2>4 DEF IInv, VotesBackVersions
  <2>8. BlocksHaveIdealVersion'
    <3> SUFFICES ASSUME NoVoting
                 PROVE  /\ Len(chain') # 0
                        /\ \A i \in 1..Len(chain') :
                             chain'[i].major_version = heights[get_ideal_index(i - 1)].version
                        /\ \A i \in 1..Len(saved') :
                             saved'[i].major_version = heights[get_ideal_index(RestoreHeight' + i - 1)].version
      BY DEF BlocksHaveIdealVersion, db_height, NoVoting
    <3>1. RestoreHeight' = Len(chain) + 1 /\ RestoreHeight = Len(chain)
      BY <1>1, <2>1, <2>4 DEF RestoreHeight, db_height
    <3>2. \A i \in 1..Len(saved) :
            saved[i].major_version = heights[get_ideal_index(Len(chain) + i - 1)].version
      BY <1>1, <3>1 DEF IInv, BlocksHaveIdealVersion
    <3>3. ASSUME NEW i \in 1..Len(Tail(saved))
          PROVE  Tail(saved)[i].major_version = heights[get_ideal_index((Len(chain) + 1) + i - 1)].version
      <4>1. (Len(chain) + 1) + i - 1 = Len(chain) + (i + 1) - 1
        BY <1>2, <2>2
      <4> QED
        BY <4>1, <3>2, <2>2
    <3>4. Len(chain') # 0
      BY <1>2, <2>4
    <3>5. \A i \in 1..Len(saved') :
            saved'[i].major_version = heights[get_ideal_index(RestoreHeight' + i - 1)].version
      BY <2>1, <3>1, <3>3, Zenon
    <3> QED
      BY <2>4, <3>4, <3>5, Zenon
  <2>9. CurrentVersionIsIdeal'
    BY <2>1, <2>4 DEF CurrentVersionIsIdeal, db_height, NoVoting
  <2> QED
    BY <2>4, <2>5, <2>6, <2>7, <2>8, <2>9 DEF IInv
<1>4. CASE ~do_check(Head(saved))
  <2>1. /\ phase' = "idle" /\ saved' = <<>>
        /\ UNCHANGED <<chain, hf_versions, versions, current_fork_index, stale>>
    BY <1>4 DEF RestoreBlock
  <2>2. TypeOK' /\ SwitchBookkeeping'
    BY <1>1, <2>1, EmptySeq DEF IInv, TypeOK, SwitchBookkeeping, Phases, db_height
  <2>3. HfTableMatchesChain' /\ VotesBackVersions'
    BY <2>1, EmptySeq DEF IInv, HfTableMatchesChain, VotesBackVersions, db_height
  <2>4. ~NoVoting
    BY <1>1, <1>4, RestoreAcceptedFromIInv DEF RestoreAccepted
  <2>5. BlocksHaveIdealVersion' /\ CurrentVersionIsIdeal'
    BY <2>4 DEF BlocksHaveIdealVersion, CurrentVersionIsIdeal, NoVoting
  <2> QED
    BY <2>2, <2>3, <2>5 DEF IInv
<1> QED
  BY <1>3, <1>4

\* One round of the re-adding loop keeps the invariant.
LEMMA RescanStepIInv ==
  ASSUME IInv, RescanStep
  PROVE  IInv'
<1> USE BoundsAssumption DEF BoundsAssumption
<1> DEFINE b == chain[next + 1]
<1>1. /\ phase = "rescan" /\ next < Len(chain) /\ add(b, next) /\ next' = next + 1
      /\ UNCHANGED <<chain, phase, split, saved>>
  BY DEF RescanStep, db_height
<1>2. /\ Len(chain) \in Nat /\ Len(chain) <= MaxHeight /\ split \in Nat /\ split >= 1
      /\ next \in Nat /\ split <= next /\ next \in 0..MaxHeight /\ chain \in Seq(Blocks)
      /\ WindowOK /\ TableOK /\ Len(versions) > 0
  BY <1>1 DEF IInv, TypeOK, SwitchBookkeeping, WindowOK, TableOK, db_height
<1>3. b \in Blocks /\ next + 1 \in 1..Len(chain)
  BY <1>1, <1>2, ElementOfSeq
<1>4. hf_versions[next] = b.major_version
  BY <1>1, <1>2 DEF IInv, HfTableMatchesChain, db_height
<1>13. stale' \in Nat
  BY <1>1, <1>2, <1>3, StaleType
<1>5. /\ WindowOK' /\ TableOK' /\ Len(versions') > 0
      /\ do_check(b) => hf_versions' = [hf_versions EXCEPT ![next] = b.major_version]
      /\ ~do_check(b) => UNCHANGED <<hf_versions, versions, current_fork_index>>
  BY <1>1, <1>2, <1>3, AddFacts
<1>6. ASSUME NoVoting
      PROVE  current_fork_index' = get_ideal_index(next + 1)
  <2>1. current_fork_index = get_ideal_index(next)
    BY <1>1, <1>2, <1>6 DEF IInv, CurrentVersionIsIdeal, db_height
  <2>2. b.major_version = heights[get_ideal_index((next + 1) - 1)].version
    BY <1>3, <1>6 DEF IInv, BlocksHaveIdealVersion
  <2>3. (next + 1) - 1 = next
    BY <1>2
  <2>4. get_block_vote(b) >= b.major_version
    BY <1>3 DEF IInv, VotesBackVersions
  <2>5. do_check(b)
    BY <2>1, <2>2, <2>3, <2>4 DEF do_check
  <2> QED
    BY <1>1, <1>2, <1>3, <1>6, <2>1, <2>5, AddIdeal
<1> HIDE DEF b
<1>7. hf_versions' = hf_versions
  <2>1. hf_versions \in [0..MaxHeight -> ForkVersions \cup {0}]
    BY DEF IInv, TypeOK
  <2> QED
    BY <2>1, <1>2, <1>4, <1>5
<1>8. TypeOK'
  BY <1>1, <1>2, <1>5, <1>13 DEF IInv, TypeOK, WindowOK, TableOK, db_height
<1>9. SwitchBookkeeping'
  BY <1>1, <1>2 DEF IInv, SwitchBookkeeping, db_height
<1>10. HfTableMatchesChain' /\ VotesBackVersions'
  BY <1>1, <1>7 DEF IInv, HfTableMatchesChain, VotesBackVersions, db_height
<1>11. BlocksHaveIdealVersion'
  BY <1>1, <1>2 DEF IInv, BlocksHaveIdealVersion, db_height, NoVoting
<1>12. CurrentVersionIsIdeal'
  BY <1>1, <1>6 DEF CurrentVersionIsIdeal, db_height, NoVoting
<1> QED
  BY <1>8, <1>9, <1>10, <1>11, <1>12 DEF IInv

\* Every step of the system keeps the invariant.
LEMMA NextIInv == IInv /\ [Next]_vars => IInv'
<1> SUFFICES ASSUME IInv, [Next]_vars PROVE IInv'
  OBVIOUS
<1>1. ASSUME NEW b \in Blocks, AddBlock(b) \/ SwitchAdd(b) PROVE IInv'
  BY <1>1, AddBlockIInv
<1>2. ASSUME NEW h \in 1..MaxHeight, SwitchBegin(h) PROVE IInv'
  BY <1>2, SwitchBeginIInv
<1>3. CASE PopBlock \/ SwitchPop \/ RollbackPop
  BY <1>3, PopIInv
<1>4. CASE SwitchSucceed \/ RollbackReorganize \/ RestoreDone
  BY <1>4, ReorganizeIInv
<1>5. CASE SwitchFail \/ RescanDone \/ UNCHANGED vars
  BY <1>5, PhaseIInv
<1>6. CASE Restart
  BY <1>6, RestartIInv
<1>7. CASE RestoreBlock
  BY <1>7, RestoreBlockIInv
<1>8. CASE RescanStep
  BY <1>8, RescanStepIInv
<1> QED
  BY <1>1, <1>2, <1>3, <1>4, <1>5, <1>6, <1>7, <1>8 DEF Next

\* The inductive invariant holds in every reachable state of HardFork, for every
\* fork schedule, window size and chain length.
THEOREM InductiveInvariant == Spec => []IInv
BY InitIInv, NextIInv, PTL DEF Spec

\* versions.back() and heights[current_fork_index] are always defined and the
\* window never outgrows window_size (hardfork.cpp add, on_block_popped).
THEOREM TypeCorrect == Spec => []TypeOK
<1>1. IInv => TypeOK
  BY DEF IInv
<1> QED
  BY <1>1, InductiveInvariant, PTL

\* The hf_versions table agrees with the blocks stored at every height, through
\* pops, switches, roll-backs and the re-adding loop, with or without voting.
THEOREM HfTable == Spec => []HfTableMatchesChain
<1>1. IInv => HfTableMatchesChain
  BY DEF IInv
<1> QED
  BY <1>1, InductiveInvariant, PTL

\* Without voting the version in force depends on the height alone.
THEOREM CurrentVersion == Spec => []CurrentVersionIsIdeal
<1>1. IInv => CurrentVersionIsIdeal
  BY DEF IInv
<1> QED
  BY <1>1, InductiveInvariant, PTL

\* Without voting a roll-back never meets a block its own version check refuses.
THEOREM Restore == Spec => []RestoreAccepted
BY RestoreAcceptedFromIInv, InductiveInvariant, PTL

----------------------------------------------------------------------------
(* The window of votes. *)

\* The first height of the window of a chain of h blocks, and the window.
WindowStart(h) == IF h > window_size THEN h - window_size ELSE 0

WindowAt(c, h) == Votes(c, WindowStart(h), h - 1)

LEMMA WindowStartFact ==
  ASSUME NEW h \in Nat
  PROVE  /\ WindowStart(h) \in Nat /\ WindowStart(h) <= h /\ h - WindowStart(h) \in Nat
         /\ h - WindowStart(h) <= window_size
         /\ h - WindowStart(h) < window_size =>
              WindowStart(h + 1) = WindowStart(h) /\ (h + 1) - WindowStart(h + 1) = h - WindowStart(h) + 1
         /\ h - WindowStart(h) >= window_size =>
              /\ WindowStart(h + 1) = WindowStart(h) + 1 /\ h - WindowStart(h) = window_size
              /\ (h + 1) - WindowStart(h + 1) = window_size
BY BoundsAssumption DEF BoundsAssumption, WindowStart

LEMMA WindowIs ==
  ASSUME NEW c \in Seq(Blocks), NEW h \in 0..Len(c)
  PROVE  /\ WindowAt(c, h) \in Seq(Nat)
         /\ Len(WindowAt(c, h)) = h - WindowStart(h)
         /\ \A i \in 1..(h - WindowStart(h)) : WindowAt(c, h)[i] = VoteOf(c[WindowStart(h) + i])
<1> DEFINE lo == WindowStart(h)
           n == h - lo
<1>1. lo \in Nat /\ n \in Nat /\ h \in Nat /\ Len(c) \in Nat
  BY WindowStartFact
<1> HIDE DEF lo
<1>2. (h - 1) - lo + 1 = n
  BY <1>1
<1>3. WindowAt(c, h) = [i \in 1..n |-> VoteOf(c[lo + i])]
  BY <1>2 DEF WindowAt, Votes, lo
<1>4. \A i \in 1..n : VoteOf(c[lo + i]) \in Nat
  <2> TAKE i \in 1..n
  <2>1. lo + i \in 1..Len(c)
    BY <1>1
  <2>2. c[lo + i] \in Blocks
    BY <2>1, ElementOfSeq
  <2> QED
    BY <2>2, VoteType
<1> HIDE DEF n
<1>5. WindowAt(c, h) \in [1..n -> Nat]
  BY <1>3, <1>4
<1>6. WindowAt(c, h) \in Seq(Nat) /\ Len(WindowAt(c, h)) = n
  BY <1>1, <1>5
<1>7. \A i \in 1..n : WindowAt(c, h)[i] = VoteOf(c[lo + i])
  BY <1>3
<1> QED
  BY <1>6, <1>7, Zenon DEF n, lo

LEMMA EmptyWindow ==
  ASSUME NEW c \in Seq(Blocks)
  PROVE  WindowAt(c, 0) = <<>>
<1>1. WindowStart(0) = 0
  <2>1. ~ (0 > window_size)
    BY BoundsAssumption DEF BoundsAssumption
  <2> QED
    BY <2>1 DEF WindowStart
<1>2. 0 \in 0..Len(c) /\ 0 - 0 = 0
  OBVIOUS
<1>3. WindowAt(c, 0) \in Seq(Nat) /\ Len(WindowAt(c, 0)) = 0
  BY <1>1, <1>2, WindowIs
<1> QED
  BY <1>3

\* The height whose window the object has.
WindowHeight == IF phase = "rescan" THEN next ELSE db_height

\* win is the window of the chain c at height h, but for its first s entries, which pops have put there:
\* they stand where the window has no block, or blocks it has forgotten.
WindowFits(win, s, c, h) ==
  /\ win \in Seq(Nat) /\ s \in 0..Len(win)
  /\ Len(win) <= window_size /\ Len(win) <= h + s
  /\ Len(win) = window_size \/ Len(win) = h + s
  /\ \A i \in (s + 1)..Len(win) : win[i] = VoteOf(c[h - Len(win) + i])

WindowInv == NoVoting => WindowFits(versions, stale, chain, WindowHeight)

LEMMA RescannedIs == RescannedWindow = WindowAt(chain, db_height)
  BY DEF RescannedWindow, WindowAt, WindowStart

\* A rebuilt window fits and has no entry of a pop.
LEMMA RebuiltFits ==
  ASSUME NEW c \in Seq(Blocks), NEW h \in 0..Len(c)
  PROVE  WindowFits(WindowAt(c, h), 0, c, h)
<1> DEFINE win == WindowAt(c, h)
           lo == WindowStart(h)
<1>1. /\ win \in Seq(Nat) /\ Len(win) = h - lo
      /\ \A i \in 1..(h - lo) : win[i] = VoteOf(c[lo + i])
  BY WindowIs
<1>2. /\ h \in Nat /\ lo \in Nat /\ h - lo <= window_size /\ lo <= h
      /\ h - lo = window_size \/ lo = 0
  BY BoundsAssumption, WindowStartFact DEF BoundsAssumption, WindowStart
<1> HIDE DEF win, lo
<1>3. h - Len(win) = lo
  BY <1>1, <1>2
<1>4. WindowFits(win, 0, c, h)
  BY <1>1, <1>2, <1>3 DEF WindowFits
<1> QED
  BY <1>4 DEF win

\* Conversely, a window without an entry of a pop is the one that would be rebuilt.
LEMMA FitsExactly ==
  ASSUME NEW c \in Seq(Blocks), NEW h \in 0..Len(c), NEW win, WindowFits(win, 0, c, h)
  PROVE  win = WindowAt(c, h)
<1> DEFINE new == WindowAt(c, h)
           lo == WindowStart(h)
<1>1. /\ new \in Seq(Nat) /\ Len(new) = h - lo
      /\ \A i \in 1..(h - lo) : new[i] = VoteOf(c[lo + i])
  BY WindowIs
<1>2. win \in Seq(Nat) /\ Len(win) \in Nat /\ Len(win) = h - lo
  <2> DEFINE n == Len(win)
  <2>1. win \in Seq(Nat) /\ n <= window_size /\ n <= h + 0 /\ (n = window_size \/ n = h + 0)
    BY DEF WindowFits
  <2>2. n \in Nat /\ h \in Nat
    BY <2>1
  <2> HIDE DEF n
  <2>3. n = h - lo
    BY <2>1, <2>2, BoundsAssumption DEF BoundsAssumption, WindowStart
  <2> QED
    BY <2>1, <2>2, <2>3 DEF n
<1> HIDE DEF new
<1>3. lo \in Nat /\ h \in Nat
  BY WindowStartFact
<1> HIDE DEF lo
<1>4. h - Len(win) = lo
  BY <1>2, <1>3
<1>5. \A i \in 1..(h - lo) : win[i] = VoteOf(c[lo + i])
  BY <1>2, <1>4 DEF WindowFits
<1>6. win = new
  BY <1>1, <1>2, <1>5, SeqEqual
<1> QED
  BY <1>6 DEF new

\* The blocks from h on do not matter.
LEMMA FitsPrefix ==
  ASSUME NEW c \in Seq(Blocks), NEW d \in Seq(Blocks), NEW h \in Nat, NEW win, NEW s,
         WindowFits(win, s, c, h), \A i \in 1..h : d[i] = c[i]
  PROVE  WindowFits(win, s, d, h)
<1>1. win \in Seq(Nat) /\ Len(win) \in Nat /\ s \in Nat /\ Len(win) <= h + s
  BY DEF WindowFits
<1>2. \A i \in (s + 1)..Len(win) : h - Len(win) + i \in 1..h
  BY <1>1
<1> QED
  BY <1>2 DEF WindowFits

\* HardFork::add: a full window loses its oldest entry, one of a pop if there is any.
LEMMA PushFits ==
  ASSUME NEW c \in Seq(Blocks), NEW h \in 0..(Len(c) - 1), NEW win, NEW s, WindowFits(win, s, c, h)
  PROVE  WindowFits(PushVote(win, VoteOf(c[h + 1])),
                    IF Len(win) >= window_size /\ s > 0 THEN s - 1 ELSE s, c, h + 1)
<1> USE BoundsAssumption DEF BoundsAssumption
<1> DEFINE v == VoteOf(c[h + 1])
           t == IF Len(win) >= window_size /\ s > 0 THEN s - 1 ELSE s
           n == Len(win)
           pushed == PushVote(win, v)
<1>1. /\ win \in Seq(Nat) /\ n \in Nat /\ s \in Nat /\ s <= n /\ h \in Nat
      /\ n <= window_size /\ n <= h + s /\ (n = window_size \/ n = h + s)
  BY DEF WindowFits
<1>2. \A i \in (s + 1)..n : win[i] = VoteOf(c[h - n + i])
  BY DEF WindowFits
<1>3. v \in Nat
  <2>1. h + 1 \in 1..Len(c)
    OBVIOUS
  <2> QED
    BY <2>1, ElementOfSeq, VoteType
<1>4. CASE n >= window_size
  <2> DEFINE kept == SubSeq(win, 2, window_size)
  <2>1. n = window_size /\ n - window_size + 2 = 2
    BY <1>1, <1>4
  <2>2. pushed = Append(kept, v)
    BY <2>1 DEF PushVote
  <2>3. kept \in Seq(Nat) /\ Len(kept) = window_size - 1 /\ \A i \in 1..(window_size - 1) : kept[i] = win[i + 1]
    <3>1. \A i \in 2..window_size : win[i] \in Nat
      BY <1>1, <2>1, ElementOfSeq
    <3>2. /\ kept \in Seq(Nat)
          /\ Len(kept) = IF 2 <= window_size THEN window_size - 2 + 1 ELSE 0
          /\ \A i \in 1..(window_size - 2 + 1) : kept[i] = win[2 + i - 1]
      BY <1>1, <3>1, SubSeqProperties
    <3> HIDE DEF kept
    <3>3. \A i \in 1..(window_size - 1) : 2 + i - 1 = i + 1
      OBVIOUS
    <3> QED
      BY <3>2, <3>3
  <2> HIDE DEF kept
  <2>4. /\ pushed \in Seq(Nat) /\ Len(pushed) = window_size
        /\ \A i \in 1..(window_size - 1) : pushed[i] = kept[i]
        /\ pushed[window_size] = v
    BY <1>3, <2>2, <2>3
  <2>5. t \in Nat /\ t <= window_size /\ window_size <= (h + 1) + t /\ s <= t + 1
    BY <1>1, <2>1
  <2> HIDE DEF pushed, t, n
  <2>6. ASSUME NEW i \in (t + 1)..window_size PROVE pushed[i] = VoteOf(c[(h + 1) - window_size + i])
    <3>1. CASE i = window_size
      <4>1. (h + 1) - window_size + i = h + 1
        BY <1>1, <3>1
      <4> QED
        BY <2>4, <3>1, <4>1
    <3>2. CASE i # window_size
      <4>1. i \in 1..(window_size - 1) /\ i + 1 \in (s + 1)..n /\ (h + 1) - window_size + i = h - n + (i + 1)
        BY <1>1, <2>1, <2>5, <3>2
      <4>2. pushed[i] = win[i + 1]
        BY <2>3, <2>4, <4>1
      <4>3. win[i + 1] = VoteOf(c[h - n + (i + 1)])
        BY <1>2, <4>1
      <4> QED
        BY <4>1, <4>2, <4>3
    <3> QED
      BY <3>1, <3>2
  <2>7. WindowFits(pushed, t, c, h + 1)
    BY <2>4, <2>5, <2>6 DEF WindowFits
  <2> QED
    BY <2>7 DEF pushed, t
<1>5. CASE n < window_size
  <2>1. pushed = Append(win, v) /\ t = s /\ n = h + s
    BY <1>1, <1>5 DEF PushVote
  <2> HIDE DEF pushed, t, v
  <2>2. /\ pushed \in Seq(Nat) /\ Len(pushed) = n + 1
        /\ \A i \in 1..n : pushed[i] = win[i]
        /\ pushed[n + 1] = v
    <3>1. win \in Seq(Nat)
      BY <1>1
    <3>2. /\ Append(win, v) \in Seq(Nat) /\ Len(Append(win, v)) = Len(win) + 1
          /\ \A i \in 1..Len(win) : Append(win, v)[i] = win[i]
          /\ Append(win, v)[Len(win) + 1] = v
      BY ONLY <3>1, <1>3, AppendFact, Zenon
    <3> QED
      BY ONLY <2>1, <3>2, Zenon DEF n
  <2> HIDE DEF n
  <2>3. ASSUME NEW i \in (s + 1)..(n + 1) PROVE pushed[i] = VoteOf(c[(h + 1) - (n + 1) + i])
    <3>1. CASE i = n + 1
      <4>1. (h + 1) - (n + 1) + i = h + 1
        BY <1>1, <3>1
      <4> QED
        BY <2>2, <3>1, <4>1 DEF v
    <3>2. CASE i # n + 1
      <4>1. i \in 1..n /\ i \in (s + 1)..n /\ (h + 1) - (n + 1) + i = h - n + i
        BY <1>1, <3>2
      <4> QED
        BY <1>2, <2>2, <4>1
    <3> QED
      BY <3>1, <3>2
  <2>5. s \in 0..(n + 1) /\ n + 1 <= window_size /\ n + 1 <= (h + 1) + s /\ n + 1 = (h + 1) + s
    BY <1>1, <1>5, <2>1
  <2>4. WindowFits(pushed, s, c, h + 1)
    BY <2>2, <2>3, <2>5 DEF WindowFits
  <2> QED
    BY <2>1, <2>4, Zenon DEF pushed, t, v, n
<1> QED
  BY <1>1, <1>4, <1>5

\* HardFork::on_block_popped: one more entry at the front is not a vote of the window.
LEMMA PopFits ==
  ASSUME NEW c \in Seq(Blocks), NEW h \in Nat \ {0}, NEW win, NEW s, WindowFits(win, s, c, h),
         Len(win) > 0, NEW x \in Nat
  PROVE  WindowFits(<<x>> \o SubSeq(win, 1, Len(win) - 1), IF s < Len(win) THEN s + 1 ELSE s, c, h - 1)
<1> DEFINE t == IF s < Len(win) THEN s + 1 ELSE s
           n == Len(win)
           rest == SubSeq(win, 1, Len(win) - 1)
           new == <<x>> \o rest
<1>1. /\ win \in Seq(Nat) /\ n \in Nat /\ n > 0 /\ s \in Nat /\ s <= n
      /\ n <= window_size /\ n <= h + s /\ (n = window_size \/ n = h + s)
  BY DEF WindowFits
<1>2. \A i \in (s + 1)..n : win[i] = VoteOf(c[h - n + i])
  BY DEF WindowFits
<1>3. rest \in Seq(Nat) /\ Len(rest) = n - 1
  BY <1>1, FrontFact, Zenon
<1>4. \A i \in 1..(n - 1) : rest[i] = win[i]
  BY <1>1
<1> HIDE DEF rest
<1>5. /\ new \in Seq(Nat) /\ Len(new) = n
      /\ \A i \in 2..n : new[i] = rest[i - 1]
  BY <1>1, <1>3
<1>6. t \in Nat /\ t <= n /\ t >= 1 /\ n <= (h - 1) + t /\ (n = window_size \/ n = (h - 1) + t) /\ (t < n => t = s + 1)
  BY <1>1
<1> HIDE DEF new, t, n
<1>7. ASSUME NEW i \in (t + 1)..n PROVE new[i] = VoteOf(c[(h - 1) - n + i])
  <2>1. i \in 2..n /\ i - 1 \in 1..(n - 1) /\ i - 1 \in (s + 1)..n /\ (h - 1) - n + i = h - n + (i - 1)
    BY <1>1, <1>6
  <2>2. new[i] = win[i - 1]
    BY <1>4, <1>5, <2>1, Zenon
  <2>3. win[i - 1] = VoteOf(c[h - n + (i - 1)])
    BY <1>2, <2>1
  <2> QED
    BY <2>1, <2>2, <2>3
<1>8. WindowFits(new, t, c, h - 1)
  BY <1>1, <1>5, <1>6, <1>7 DEF WindowFits
<1> QED
  BY <1>8 DEF new, t, n, rest

\* A block is added on top (HardFork::add accepts it).
LEMMA AddFits ==
  ASSUME chain \in Seq(Blocks), NEW b \in Blocks, add_block(b), do_check(b),
         WindowFits(versions, stale, chain, db_height)
  PROVE  /\ chain' \in Seq(Blocks) /\ db_height' = db_height + 1
         /\ WindowFits(versions', stale', chain', db_height')
<1> DEFINE n == Len(chain)
<1>1. n \in Nat /\ db_height = n
  BY DEF db_height
<1>2. /\ chain' \in Seq(Blocks) /\ Len(chain') = n + 1 /\ chain'[n + 1] = b
      /\ \A i \in 1..n : chain'[i] = chain[i]
  BY DEF add_block
<1>3. db_height' = n + 1
  BY <1>2 DEF db_height
<1> HIDE DEF n
<1>4. WindowFits(versions, stale, chain', n)
  BY <1>1, <1>2, FitsPrefix
<1>8. Len(chain') = n + 1
  BY <1>2
<1>5. n \in 0..(Len(chain') - 1)
  BY ONLY <1>1, <1>8
<1>6. versions' = PushVote(versions, VoteOf(chain'[n + 1])) /\ stale' = StaleAfterPush
  BY <1>2 DEF add_block, add
<1>7. WindowFits(versions', stale', chain', n + 1)
  BY <1>2, <1>4, <1>5, <1>6, PushFits DEF StaleAfterPush
<1> QED
  BY <1>1, <1>2, <1>3, <1>7

\* In particular a window with no entry of a pop stays one.
LEMMA AddWindow ==
  ASSUME chain \in Seq(Blocks), NEW b \in Blocks, add_block(b), do_check(b), stale = 0,
         versions = WindowAt(chain, db_height)
  PROVE  /\ chain' \in Seq(Blocks) /\ db_height' = db_height + 1
         /\ stale' = 0 /\ versions' = WindowAt(chain', db_height')
<1>1. db_height \in 0..Len(chain) /\ WindowFits(versions, stale, chain, db_height)
  BY RebuiltFits DEF db_height
<1>2. /\ chain' \in Seq(Blocks) /\ db_height' = db_height + 1
      /\ WindowFits(versions', stale', chain', db_height')
  BY <1>1, AddFits
<1>3. stale' = 0
  BY DEF add_block, add, StaleAfterPush
<1>4. db_height' \in 0..Len(chain')
  BY <1>2 DEF db_height
<1> QED
  BY <1>2, <1>3, <1>4, FitsExactly

\* The window that reorganize_from_chain_height rebuilds.
LEMMA ReorganizeWindow ==
  ASSUME NEW h \in Nat, reorganize_from_chain_height(h)
  PROVE  versions' = WindowAt(chain, h) /\ stale' = 0
<1>1. (IF h >= window_size THEN h - window_size ELSE 0) = WindowStart(h)
  BY BoundsAssumption DEF BoundsAssumption, WindowStart
<1> QED
  BY <1>1 DEF reorganize_from_chain_height, WindowAt

LEMMA InitWindow == Init => WindowInv
<1> SUFFICES ASSUME Init PROVE WindowInv
  OBVIOUS
<1>1. Len(chain) = 0 /\ chain \in Seq(Blocks) /\ 0 \in 0..Len(chain)
  BY DEF Init
<1>2. WindowHeight = 0
  BY <1>1 DEF Init, WindowHeight, db_height
<1>3. WindowAt(chain, 0) = <<>>
  BY <1>1, EmptyWindow
<1>4. WindowFits(<<>>, 0, chain, 0)
  BY <1>1, <1>3, RebuiltFits, Zenon
<1> QED
  BY <1>2, <1>4 DEF Init, WindowInv

\* Every step keeps the window.  With no voting no step of the re-adding loop refuses a block.
LEMMA NextWindow == IInv /\ WindowInv /\ [Next]_vars => WindowInv'
<1> SUFFICES ASSUME IInv, WindowInv, [Next]_vars, NoVoting
             PROVE  WindowFits(versions', stale', chain', WindowHeight')
  BY DEF WindowInv, NoVoting
<1>0. /\ chain \in Seq(Blocks) /\ phase \in Phases /\ db_height \in Nat /\ db_height = Len(chain)
      /\ WindowFits(versions, stale, chain, WindowHeight)
  BY DEF IInv, TypeOK, db_height, WindowInv
<1> DEFINE Goal == WindowFits(versions', stale', chain', WindowHeight')
<1>1. ASSUME NEW b \in Blocks, AddBlock(b) \/ SwitchAdd(b) PROVE Goal
  <2>1. phase \in {"idle", "connect"} /\ add_block(b) /\ do_check(b) /\ phase' = phase
    BY <1>1 DEF AddBlock, SwitchAdd
  <2>2. WindowHeight = db_height /\ WindowHeight' = db_height'
    BY <2>1 DEF WindowHeight
  <2> QED
    BY <1>0, <2>1, <2>2, AddFits
<1>2. ASSUME NEW h \in 1..MaxHeight, SwitchBegin(h) PROVE Goal
  <2>1. /\ phase = "idle" /\ phase' = "disconnect" /\ chain' = chain /\ versions' = versions /\ stale' = stale
    BY <1>2 DEF SwitchBegin
  <2>2. WindowHeight' = WindowHeight
    BY <2>1 DEF WindowHeight, db_height
  <2> QED
    BY <1>0, <2>1, <2>2
<1>3. CASE PopBlock \/ SwitchPop \/ RollbackPop
  <2>1. phase # "rescan" /\ phase' # "rescan" /\ pop_block
    BY <1>3 DEF PopBlock, SwitchPop, RollbackPop
  <2>2. /\ chain' \in Seq(Blocks) /\ Len(chain) > 1 /\ Len(chain') = Len(chain) - 1
        /\ \A i \in 1..Len(chain') : chain'[i] = chain[i]
    BY <2>1, PopBlockFacts
  <2>3. WindowHeight = db_height /\ WindowHeight' = db_height - 1 /\ db_height \in Nat \ {0}
    BY <1>0, <2>1, <2>2 DEF WindowHeight, db_height
  <2>4. Len(versions) > 0 /\ hf_versions[db_height - 1] \in Nat
    <3>1. db_height - 1 \in 0..MaxHeight /\ db_height > 0
      BY <1>0, <2>3, BoundsAssumption DEF IInv, TypeOK, BoundsAssumption
    <3>2. hf_versions[db_height - 1] \in Nat
      BY <3>1, TableEntry, Zenon DEF IInv, TypeOK, TableOK
    <3> QED
      BY <3>1, <3>2 DEF IInv, TypeOK
  <2>5. /\ versions' = <<hf_versions[db_height - 1]>> \o SubSeq(versions, 1, Len(versions) - 1)
        /\ stale' = IF stale < Len(versions) THEN stale + 1 ELSE stale
    BY <2>1 DEF pop_block, on_block_popped, StaleAfterPop
  <2>6. WindowFits(versions', stale', chain, db_height - 1)
    BY <1>0, <2>3, <2>4, <2>5, PopFits
  <2>7. db_height - 1 \in Nat /\ \A i \in 1..(db_height - 1) : chain'[i] = chain[i]
    BY <1>0, <2>2
  <2> QED
    BY <1>0, <2>2, <2>3, <2>6, <2>7, FitsPrefix
<1>4. CASE SwitchSucceed \/ RollbackReorganize \/ RestoreDone
  <2>1. /\ reorganize_from_chain_height(split) /\ chain' = chain
        /\ phase \in {"connect", "rollback", "restore"}
        /\ \/ phase' = "rescan" /\ next' = split
           \/ phase' = "restore" /\ db_height = split
    BY <1>4 DEF SwitchSucceed, RollbackReorganize, RestoreDone
  <2>2. split \in Nat /\ split \in 0..Len(chain)
    BY <1>0, <2>1 DEF IInv, TypeOK, SwitchBookkeeping, db_height
  <2>3. versions' = WindowAt(chain, split) /\ stale' = 0
    BY <2>1, <2>2, ReorganizeWindow
  <2>4. WindowHeight' = split
    BY <2>1 DEF WindowHeight, db_height
  <2> QED
    BY <1>0, <2>1, <2>2, <2>3, <2>4, RebuiltFits, Zenon
<1>5. CASE SwitchFail \/ RescanDone \/ UNCHANGED vars
  <2>1. chain' = chain /\ versions' = versions /\ stale' = stale
    BY <1>5 DEF SwitchFail, RescanDone, vars
  <2>2. WindowHeight' = WindowHeight
    BY <1>5 DEF SwitchFail, RescanDone, vars, WindowHeight, db_height
  <2> QED
    BY <1>0, <2>1, <2>2
<1>6. CASE Restart
  <2>1. phase = "idle" /\ phase' = phase /\ chain' = chain /\ stale' = 0
    BY <1>6 DEF Restart
  <2>2. versions' = WindowAt(chain, db_height)
    <3>1. CASE db_height = 0
      <4>1. versions' = <<>>
        BY <1>6, <3>1 DEF Restart
      <4> QED
        BY <1>0, <3>1, <4>1, EmptyWindow
    <3>2. CASE db_height # 0
      BY <1>6, <3>2, RescannedIs DEF Restart
    <3> QED
      BY <3>1, <3>2
  <2>3. WindowHeight' = db_height /\ db_height \in 0..Len(chain)
    BY <1>0, <2>1 DEF WindowHeight, db_height
  <2> QED
    BY <1>0, <2>1, <2>2, <2>3, RebuiltFits
<1>7. CASE RestoreBlock
  <2>1. phase = "restore" /\ saved # <<>> /\ phase' \in {"restore", "idle"}
    BY <1>7 DEF RestoreBlock
  <2>2. Head(saved) \in Blocks
    BY <2>1 DEF IInv, TypeOK
  <2>3. do_check(Head(saved))
    BY <2>1, RestoreAcceptedFromIInv DEF RestoreAccepted
  <2>4. add_block(Head(saved))
    BY <1>7, <2>3 DEF RestoreBlock
  <2>5. WindowHeight = db_height /\ WindowHeight' = db_height'
    BY <2>1 DEF WindowHeight
  <2> QED
    BY <1>0, <2>2, <2>3, <2>4, <2>5, AddFits
<1>8. CASE RescanStep
  <2> DEFINE b == chain[next + 1]
  <2>1. /\ phase = "rescan" /\ next < db_height /\ add(b, next) /\ next' = next + 1
        /\ chain' = chain /\ phase' = phase
    BY <1>8 DEF RescanStep
  <2>2. next \in Nat /\ next \in 0..(Len(chain) - 1) /\ next + 1 \in 1..Len(chain)
    BY <1>0, <2>1 DEF IInv, SwitchBookkeeping, TypeOK, db_height
  <2>3. do_check(b)
    <3>1. current_fork_index = get_ideal_index(next)
      BY <2>1, <2>2 DEF IInv, CurrentVersionIsIdeal, db_height
    <3>2. b.major_version = heights[get_ideal_index((next + 1) - 1)].version
      BY <2>2 DEF IInv, BlocksHaveIdealVersion
    <3>3. (next + 1) - 1 = next
      BY <2>2
    <3>4. get_block_vote(b) >= b.major_version
      BY <2>2 DEF IInv, VotesBackVersions
    <3> QED
      BY <3>1, <3>2, <3>3, <3>4 DEF do_check
  <2>4. versions' = PushVote(versions, VoteOf(b)) /\ stale' = StaleAfterPush
    BY <2>1, <2>3 DEF add
  <2>5. WindowHeight = next /\ WindowHeight' = next + 1
    BY <2>1 DEF WindowHeight
  <2>6. WindowFits(versions', stale', chain, next + 1)
    BY <1>0, <2>2, <2>4, <2>5, PushFits DEF StaleAfterPush
  <2> QED
    BY <2>1, <2>5, <2>6
<1> QED
  BY <1>1, <1>2, <1>3, <1>4, <1>5, <1>6, <1>7, <1>8 DEF Next

\* Without voting, whatever blocks are added, popped, switched and rolled back, every entry of the window
\* that no pop (on_block_popped) has put there is the vote of the block it stands for, and a window with no
\* entry of a pop is the one that a node started on this chain would build: a switch or a roll-back
\* (reorganize_from_block_height) rebuilds it, and re-adds the blocks without refusing any.
THEOREM NewestVotes == Spec => []WindowOfNewestBlocks
<1>1. IInv /\ WindowInv => WindowOfNewestBlocks
  <2> SUFFICES ASSUME IInv, WindowInv, NoVoting, phase # "rescan"
               PROVE  /\ Len(versions) <= db_height + stale
                      /\ \A i \in (stale + 1)..Len(versions) :
                           versions[i] = VoteOf(chain[db_height - Len(versions) + i])
                      /\ stale = 0 => versions = RescannedWindow
    BY DEF WindowOfNewestBlocks
  <2>1. WindowFits(versions, stale, chain, db_height)
    BY DEF WindowInv, WindowHeight
  <2>2. chain \in Seq(Blocks) /\ db_height \in 0..Len(chain)
    BY DEF IInv, TypeOK, db_height
  <2>3. stale = 0 => versions = RescannedWindow
    BY <2>1, <2>2, FitsExactly, RescannedIs
  <2> QED
    BY <2>1, <2>3 DEF WindowFits
<1>2. Spec => []WindowInv
  BY InitWindow, NextWindow, InductiveInvariant, PTL DEF Spec
<1> QED
  BY <1>1, <1>2, InductiveInvariant, PTL

----------------------------------------------------------------------------
(* A node whose chain only grows, with or without voting. *)

\* The first fork is in force from the start, without votes (as in hardforks.cpp, and in HardFork::init
\* for an empty schedule).
FirstForkFree == heights[1].height <= 1 /\ heights[1].threshold = 0

\* At height g of the chain c the votes were enough for fork n.
Earned(c, n, g) ==
  LET last  == { h \in 0..(g - 1) : h >= g - window_size }
      votes == { h \in last : VoteOf(c[h + 1]) >= heights[n].version }
  IN  /\ g >= heights[n].height
      /\ 100 * Cardinality(votes) >= window_size * heights[n].threshold

GrowInv ==
  /\ phase = "idle" /\ stale = 0
  /\ versions = WindowAt(chain, db_height)
  /\ IF db_height = 0 THEN current_fork_index = 1
     ELSE current_fork_index = RaiseIndex(versions, IndexOfVersion(chain[db_height].major_version), db_height)
  /\ FirstForkFree /\ db_height > 0 => \E g \in 1..db_height : Earned(chain, current_fork_index, g)

\* A version of the schedule has one index.
LEMMA IndexOfVersionIs ==
  ASSUME NEW n \in Forks
  PROVE  IndexOfVersion(heights[n].version) = n
<1>1. \A m \in Forks : heights[m].version = heights[n].version => m = n
  <2> SUFFICES ASSUME NEW m \in Forks, heights[m].version = heights[n].version, m # n PROVE FALSE
    OBVIOUS
  <2>1. m < n \/ n < m
    BY ForksFacts
  <2> QED
    BY <2>1, ForksFacts, ScheduleAssumption DEF ScheduleAssumption
<1> QED
  BY <1>1 DEF IndexOfVersion

\* A later fork has a later version.
LEMMA LaterVersion ==
  ASSUME NEW n \in Forks, NEW m \in n..Len(heights)
  PROVE  heights[m].version >= heights[n].version
<1>1. m \in Forks /\ (m = n \/ n < m)
  BY ForksFacts
<1> QED
  BY <1>1, ForksFacts, ScheduleAssumption DEF ScheduleAssumption

\* Enough of a hundred: the rounding of the threshold.
LEMMA RoundedUp ==
  ASSUME NEW x \in Nat, NEW a \in Nat, NEW b \in Nat, a >= (x + 99) \div 100, a <= b
  PROVE  100 * b >= x
  OBVIOUS

LEMMA HeightsFinite ==
  ASSUME NEW g \in Nat, NEW S \in SUBSET (0..(g - 1))
  PROVE  IsFiniteSet(S) /\ Cardinality(S) \in Nat
<1>1. IsFiniteSet(0..(g - 1))
  BY FS_Interval
<1>2. IsFiniteSet(S)
  BY <1>1, FS_Subset
<1> QED
  BY <1>2, FS_CardinalityType

\* The fork that get_voted_fork_index finds has been voted for.
LEMMA VotedIsEarned ==
  ASSUME NEW c \in Seq(Blocks), NEW g \in 1..Len(c), NEW n \in VotedForks(WindowAt(c, g), g)
  PROVE  Earned(c, n, g)
<1> DEFINE win == WindowAt(c, g)
           lo == WindowStart(g)
           last  == { h \in 0..(g - 1) : h >= g - window_size }
           votes == { h \in last : VoteOf(c[h + 1]) >= heights[n].version }
           A == {i \in DOMAIN win : \E m \in n..Len(heights) : win[i] = heights[m].version}
           f == [i \in A |-> lo + i - 1]
<1>1. /\ n \in Forks /\ g >= heights[n].height /\ Cardinality(A) >= ThresholdOf(n)
  BY DEF VotedForks, accumulated_votes
<1>2. g \in Nat /\ g \in 0..Len(c) /\ Len(c) \in Nat
  OBVIOUS
<1>3. /\ win \in Seq(Nat) /\ Len(win) = g - lo
      /\ \A i \in 1..(g - lo) : win[i] = VoteOf(c[lo + i])
  BY <1>2, WindowIs
<1>4. lo \in Nat /\ lo <= g /\ g - lo <= window_size /\ g - lo \in Nat
  BY <1>2, WindowStartFact
<1>5. IsFiniteSet(votes)
  <2>1. votes \in SUBSET (0..(g - 1))
    OBVIOUS
  <2> HIDE DEF votes
  <2> QED
    BY <1>2, <2>1, HeightsFinite, Zenon
<1>6. \A i \in A : i \in 1..(g - lo) /\ lo + i - 1 \in votes
  <2> TAKE i \in A
  <2>1. i \in 1..(g - lo)
    BY <1>3
  <2>2. PICK m \in n..Len(heights) : win[i] = heights[m].version
    OBVIOUS
  <2>3. heights[m].version >= heights[n].version
    BY <1>1, LaterVersion
  <2>4. win[i] = VoteOf(c[lo + i])
    BY <1>3, <2>1
  <2> HIDE DEF win, lo, A
  <2>5. lo + i - 1 \in 0..(g - 1) /\ lo + i - 1 >= g - window_size /\ (lo + i - 1) + 1 = lo + i
    <3>1. g - lo <= window_size /\ window_size \in Nat
      BY <1>4, BoundsAssumption DEF BoundsAssumption
    <3> QED
      BY <1>2, <1>4, <2>1, <3>1
  <2>6. VoteOf(c[(lo + i - 1) + 1]) >= heights[n].version
    BY <2>2, <2>3, <2>4, <2>5
  <2> QED
    BY <2>1, <2>5, <2>6
<1>7. f \in Injection(A, votes)
  <2>1. f \in [A -> votes]
    BY <1>6
  <2>2. \A i, j \in A : f[i] = f[j] => i = j
    <3> HIDE DEF A, lo
    <3> SUFFICES ASSUME NEW i \in A, NEW j \in A, lo + i - 1 = lo + j - 1 PROVE i = j
      OBVIOUS
    <3>1. i \in Int /\ j \in Int /\ lo \in Int
      BY <1>4, <1>6
    <3> QED
      BY <3>1
  <2> HIDE DEF f, A, votes
  <2> QED
    BY <2>1, <2>2 DEF Injection, IsInjective
<1> HIDE DEF f, A, votes
<1>8. IsFiniteSet(A) /\ Cardinality(A) <= Cardinality(votes)
  BY <1>5, <1>7, FS_Injection
<1>9. Cardinality(A) \in Nat /\ Cardinality(votes) \in Nat
  BY <1>5, <1>8, FS_CardinalityType
<1>10. 100 * Cardinality(votes) >= window_size * heights[n].threshold
  <2>1. window_size \in Nat /\ heights[n].threshold \in Nat
    BY <1>1, ForksFacts, BoundsAssumption DEF BoundsAssumption
  <2>2. window_size * heights[n].threshold \in Nat
    BY <2>1
  <2> DEFINE x == window_size * heights[n].threshold
  <2>3. Cardinality(A) >= (x + 99) \div 100
    BY <1>1 DEF ThresholdOf
  <2> HIDE DEF x
  <2> QED
    BY <1>8, <1>9, <2>2, <2>3, RoundedUp DEF x
<1> QED
  BY <1>1, <1>10 DEF Earned, votes

\* What a block further up changes nothing about.
LEMMA EarnedPrefix ==
  ASSUME NEW c, NEW d, NEW n, NEW g \in Nat, \A i \in 1..g : d[i] = c[i], Earned(c, n, g)
  PROVE  Earned(d, n, g)
<1> DEFINE last == { h \in 0..(g - 1) : h >= g - window_size }
<1>1. \A h \in last : h + 1 \in 1..g
  OBVIOUS
<1>2. \A h \in last : d[h + 1] = c[h + 1]
  BY <1>1
<1>3. { h \in last : VoteOf(d[h + 1]) >= heights[n].version } = { h \in last : VoteOf(c[h + 1]) >= heights[n].version }
  BY <1>2
<1> QED
  BY <1>3 DEF Earned

LEMMA AddGrow ==
  ASSUME IInv, GrowInv, NEW b \in Blocks, AddBlock(b)
  PROVE  GrowInv'
<1> DEFINE n == Len(chain)
           k == current_fork_index
<1>1. add_block(b) /\ do_check(b) /\ phase' = phase
  BY DEF AddBlock
<1>2. /\ chain \in Seq(Blocks) /\ n \in Nat /\ db_height = n /\ k \in Forks
  BY DEF IInv, TypeOK, db_height
<1>3. /\ chain' \in Seq(Blocks) /\ Len(chain') = n + 1 /\ chain'[n + 1] = b
      /\ \A i \in 1..n : chain'[i] = chain[i]
  BY <1>1, <1>2 DEF add_block
<1>4. db_height' = n + 1
  BY <1>3 DEF db_height
<1>5. versions' = WindowAt(chain', db_height') /\ stale' = 0
  BY <1>1, <1>2, AddWindow DEF GrowInv
<1>6. current_fork_index' = RaiseIndex(versions', k, n + 1)
  BY <1>1, <1>2 DEF add_block, add
<1>7. IndexOfVersion(chain'[n + 1].major_version) = k
  <2>1. b.major_version = heights[k].version
    BY <1>1 DEF do_check
  <2> QED
    BY <1>2, <1>3, <2>1, IndexOfVersionIs
<1> HIDE DEF n, k
<1>8. ASSUME FirstForkFree PROVE \E g \in 1..(n + 1) : Earned(chain', current_fork_index', g)
  <2> DEFINE voted == get_voted_fork_index(versions', k, n + 1)
             V == VotedForks(versions', n + 1)
  <2>1. current_fork_index' = k \/ (current_fork_index' = voted /\ current_fork_index' # k)
    BY <1>6 DEF RaiseIndex
  <2>2. CASE current_fork_index' # k
    <3>1. V # {} /\ current_fork_index' = Highest(V)
      BY <2>1, <2>2 DEF get_voted_fork_index
    <3>2. V \subseteq Forks
      BY DEF VotedForks
    <3> HIDE DEF V
    <3>3. current_fork_index' \in V
      BY <3>1, <3>2, HighestFact
    <3>4. current_fork_index' \in VotedForks(WindowAt(chain', n + 1), n + 1)
      BY <1>4, <1>5, <3>3 DEF V
    <3>5. n + 1 \in 1..Len(chain') /\ n + 1 \in 1..(n + 1)
      BY <1>2, <1>3
    <3>6. Earned(chain', current_fork_index', n + 1)
      BY <1>3, <3>4, <3>5, VotedIsEarned
    <3> QED
      BY <3>5, <3>6
  <2>3. CASE current_fork_index' = k /\ n > 0
    <3>1. PICK g \in 1..n : Earned(chain, k, g)
      BY <1>2, <1>8, <2>3 DEF GrowInv, k
    <3>2. g \in Nat /\ g \in 1..(n + 1) /\ \A i \in 1..g : i \in 1..n
      BY <1>2
    <3>3. Earned(chain', k, g)
      BY <1>3, <3>1, <3>2, EarnedPrefix
    <3> QED
      BY <2>3, <3>2, <3>3
  <2>4. CASE current_fork_index' = k /\ n = 0
    <3>1. k = 1
      BY <1>2, <2>4 DEF GrowInv, k
    <3>2. Earned(chain', 1, 1)
      <4> DEFINE last  == { h \in 0..(1 - 1) : h >= 1 - window_size }
                 votes == { h \in last : VoteOf(chain'[h + 1]) >= heights[1].version }
      <4>1. votes \in SUBSET (0..(1 - 1))
        OBVIOUS
      <4> HIDE DEF votes
      <4>2. Cardinality(votes) \in Nat
        BY <4>1, HeightsFinite
      <4>3. 1 >= heights[1].height /\ window_size * heights[1].threshold = 0
        BY <1>8, ForksFacts, BoundsAssumption DEF FirstForkFree, BoundsAssumption
      <4>4. 100 * Cardinality(votes) >= window_size * heights[1].threshold
        BY <4>2, <4>3
      <4> QED
        BY <4>3, <4>4 DEF Earned, votes
    <3>3. 1 \in 1..(n + 1)
      BY <2>4
    <3> QED
      BY <2>4, <3>1, <3>2, <3>3
  <2> QED
    BY <1>2, <2>1, <2>2, <2>3, <2>4
<1>9. n + 1 # 0 /\ phase' = "idle"
  BY <1>1, <1>2 DEF GrowInv
<1> QED
  BY <1>4, <1>5, <1>6, <1>7, <1>8, <1>9 DEF GrowInv, FirstForkFree

LEMMA RestartGrow ==
  ASSUME IInv, GrowInv, Restart
  PROVE  UNCHANGED vars
<1>1. /\ chain' = chain /\ hf_versions' = hf_versions /\ phase' = phase /\ split' = split /\ saved' = saved /\ next' = next
      /\ stale' = 0
  BY DEF Restart
<1>2. stale = 0
  BY DEF IInv, TypeOK, GrowInv
<1>3. db_height \in Nat /\ chain \in Seq(Blocks)
  BY DEF IInv, TypeOK, db_height
<1>4. versions' = versions /\ current_fork_index' = current_fork_index
  <2>1. CASE db_height = 0
    BY <1>3, <2>1, EmptyWindow DEF Restart, GrowInv
  <2>2. CASE db_height # 0
    <3>1. versions' = RescannedWindow /\ current_fork_index' = RescannedIndex
      BY <2>2 DEF Restart
    <3>2. hf_versions[db_height - 1] = chain[db_height].major_version
      <4>1. db_height - 1 \in 0..(db_height - 1) /\ (db_height - 1) + 1 = db_height
        BY <1>3, <2>2
      <4> QED
        BY <4>1 DEF IInv, HfTableMatchesChain
    <3> QED
      BY <2>2, <3>1, <3>2, RescannedIs DEF RescannedIndex, GrowInv
  <2> QED
    BY <2>1, <2>2
<1> QED
  BY <1>1, <1>2, <1>4 DEF vars

\* GrowInv for every behaviour of GrowSpec, together with the invariant of the whole specification.
LEMMA GrowInvariant == GrowSpec => [](IInv /\ GrowInv)
<1>1. Init => GrowInv
  <2> SUFFICES ASSUME Init PROVE GrowInv
    OBVIOUS
  <2>1. Len(chain) = 0 /\ chain \in Seq(Blocks)
    BY DEF Init
  <2>2. db_height = 0 /\ versions = WindowAt(chain, db_height)
    BY <2>1, EmptyWindow DEF Init, db_height
  <2> QED
    BY <2>2 DEF Init, GrowInv
<1>2. IInv /\ GrowInv /\ [GrowNext]_vars => GrowInv'
  <2> SUFFICES ASSUME IInv, GrowInv, [GrowNext]_vars PROVE GrowInv'
    OBVIOUS
  <2>1. ASSUME UNCHANGED vars PROVE GrowInv'
    BY <2>1 DEF vars, GrowInv, db_height, FirstForkFree
  <2>2. ASSUME NEW b \in Blocks, AddBlock(b) PROVE GrowInv'
    BY <2>2, AddGrow
  <2>3. CASE Restart
    BY <2>1, <2>3, RestartGrow
  <2> QED
    BY <2>1, <2>2, <2>3 DEF GrowNext
<1>3. [GrowNext]_vars => [Next]_vars
  BY DEF GrowNext, Next
<1> QED
  BY <1>1, <1>2, <1>3, InitIInv, NextIInv, PTL DEF GrowSpec

\* With or without voting, on a node that only adds blocks and restarts, the window holds the votes of the
\* last window_size blocks (hardfork.h: "rolling window").
THEOREM WindowRolls == GrowSpec => []RollingWindow
<1>1. GrowInv => RollingWindow
  BY RescannedIs DEF GrowInv, RollingWindow
<1> QED
  BY <1>1, GrowInvariant, PTL

\* The version in force was past its height and had enough votes at some height of this chain
\* (get_current_version), if the first fork of the schedule needs none.
THEOREM VersionEarned ==
  ASSUME FirstForkFree
  PROVE  GrowSpec => []CurrentVersionEarned
<1>1. IInv /\ GrowInv => CurrentVersionEarned
  <2> SUFFICES ASSUME IInv, GrowInv, db_height > 0
               PROVE  \E g \in 1..db_height : Earned(chain, current_fork_index, g)
    BY DEF CurrentVersionEarned, Earned
  <2> QED
    BY DEF GrowInv
<1> QED
  BY <1>1, GrowInvariant, PTL

\* HardFork::init finds the version and the votes that the node had when it stopped.
THEOREM RestartKeeps == GrowSpec => RestartKeepsVersion
<1>1. IInv /\ GrowInv => [(Restart /\ stale = 0 /\ db_height > 0) => UNCHANGED <<current_fork_index, versions>>]_vars
  BY RestartGrow DEF vars
<1> QED
  BY <1>1, GrowInvariant, PTL DEF RestartKeepsVersion
====

------------------------------ MODULE HardFork ------------------------------
(***************************************************************************)
(* The hard fork state machine (cryptonote_basic/hardfork.cpp): a schedule *)
(* of block versions, a rolling window of the votes carried by the last    *)
(* blocks, and the index of the fork in force.  The object is driven by    *)
(* the block database (add), by popped blocks (on_block_popped), by chain  *)
(* switches (reorganize_from_chain_height) and by a restart (init).        *)
(*                                                                         *)
(* Every entry point runs under the blockchain lock.  A chain switch calls *)
(* the object many times while it holds that lock; `phase' says where the  *)
(* switch stands and keeps every other operation out until it is done.     *)
(*                                                                         *)
(* The array last_versions[256] is always the histogram of `versions' (the *)
(* two are updated in pairs): accumulated_votes counts in `versions'.       *)
(* The fork index is 1-based (heights[1] is the code's heights[0]).        *)
(***************************************************************************)
EXTENDS Integers, Sequences, FiniteSets

CONSTANTS
  heights,      \* the schedule: a sequence of [version, height, threshold]
  window_size,  \* number of blocks whose votes count
  Minors,       \* minor versions (votes) blocks may carry
  MaxHeight     \* bound: the chain has at most this many blocks

Forks == DOMAIN heights

ForkVersions == { heights[n].version : n \in Forks }

ForkRecords == [version : Nat \ {0}, height : Nat, threshold : 0..100]

ASSUME ScheduleAssumption ==
  /\ heights \in Seq(ForkRecords)
  /\ Len(heights) > 0
  /\ \A m, n \in Forks : m < n => /\ heights[m].version < heights[n].version
                                  /\ heights[m].height < heights[n].height

ASSUME BoundsAssumption ==
  /\ window_size \in Nat \ {0}
  /\ Minors \subseteq Nat
  /\ MaxHeight \in Nat

VARIABLES
  chain,               \* the block database: chain[h+1] is the block at height h
  hf_versions,         \* the database table height -> version in force (0: no entry)
  versions,            \* the window of votes, oldest first
  current_fork_index,  \* the fork in force for the next block
  phase,               \* where a chain switch stands; "idle" when there is none
  split,               \* the chain height at which the switch splits
  saved,               \* blocks the switch disconnected, lowest first
  next,                \* next height to re-add in reorganize_from_block_height
  stale                \* history: how many entries of the window pops have put there

vars == <<chain, hf_versions, versions, current_fork_index, phase, split, saved,
          next, stale>>

Phases == {"idle", "disconnect", "connect", "rescan", "rollback", "restore"}

Blocks == [major_version : ForkVersions, minor_version : Minors]

----------------------------------------------------------------------------
(* Reading blocks and votes. *)

db_height == Len(chain)

get_block_vote(b) == IF b.minor_version = 0 THEN 1 ELSE b.minor_version

max_version == heights[Len(heights)].version

get_effective_version(v) == IF v > max_version THEN max_version ELSE v

VoteOf(b) == get_effective_version(get_block_vote(b))

\* The votes of the blocks of c at heights lo..hi.
Votes(c, lo, hi) == [i \in 1..(hi - lo + 1) |-> VoteOf(c[lo + i])]

\* Votes in the window for fork n or any later one.
accumulated_votes(win, n) ==
  Cardinality({i \in DOMAIN win : \E m \in n..Len(heights) : win[i] = heights[m].version})

\* Mutant: the threshold is rounded down.
ThresholdRoundedDown(n) == (window_size * heights[n].threshold) \div 100

ThresholdOf(n) == (window_size * heights[n].threshold + 99) \div 100

\* The forks whose height has come and whose votes are in.
VotedForks(win, height) ==
  { n \in Forks : /\ height >= heights[n].height
                  /\ accumulated_votes(win, n) >= ThresholdOf(n) }

Highest(S) == CHOOSE n \in S : \A m \in S : m <= n

get_voted_fork_index(win, index, height) ==
  IF VotedForks(win, height) = {} THEN index ELSE Highest(VotedForks(win, height))

\* The fork index only moves up when votes are counted.
RaiseIndex(win, index, height) ==
  LET voted == get_voted_fork_index(win, index, height)
  IN  IF voted > index THEN voted ELSE index

do_check(b) ==
  /\ b.major_version = heights[current_fork_index].version
  /\ get_block_vote(b) >= heights[current_fork_index].version

\* get_ideal_version(height) is heights[get_ideal_index(height)].version.
get_ideal_index(height) ==
  LET due == { n \in Forks : n > 1 /\ height >= heights[n].height }
  IN  IF due = {} THEN 1 ELSE Highest(due)

----------------------------------------------------------------------------
(* The calls the blockchain makes, as updates of the object's state. *)

\* Mutant: the oldest vote stays.
PushVoteNoDrop(win, v) == Append(win, v)

\* Drop the oldest votes until there is room for one more, then push v.
PushVote(win, v) ==
  Append(IF Len(win) >= window_size
           THEN SubSeq(win, Len(win) - window_size + 2, Len(win)) ELSE win, v)

\* History: a full window drops the oldest entry.
StaleAfterPush == IF Len(versions) >= window_size /\ stale > 0 THEN stale - 1 ELSE stale

\* Mutant: set_hard_fork_version is forgotten.
AddNoTable(b, height) ==
  /\ hf_versions' = hf_versions
  /\ IF do_check(b)
     THEN /\ versions' = PushVote(versions, VoteOf(b))
          /\ current_fork_index' = RaiseIndex(PushVote(versions, VoteOf(b)), current_fork_index, height + 1)
          /\ stale' = StaleAfterPush
     ELSE UNCHANGED <<versions, current_fork_index, stale>>

\* HardFork::add: a refused block changes nothing (its result is ignored).
add(b, height) ==
  IF do_check(b)
  THEN /\ hf_versions' = [hf_versions EXCEPT ![height] = heights[current_fork_index].version]
       /\ versions' = PushVote(versions, VoteOf(b))
       /\ current_fork_index' = RaiseIndex(PushVote(versions, VoteOf(b)), current_fork_index, height + 1)
       /\ stale' = StaleAfterPush
  ELSE UNCHANGED <<hf_versions, versions, current_fork_index, stale>>

\* BlockchainDB::add_block stores the block and hands it to the object.
add_block(b) ==
  /\ chain' = Append(chain, b)
  /\ add(b, db_height)

\* Mutant: popping leaves the fork index alone.
PoppedKeepsIndex ==
  /\ versions' = <<hf_versions[db_height - 1]>> \o SubSeq(versions, 1, Len(versions) - 1)
  /\ UNCHANGED current_fork_index

\* The popped block's vote leaves at the back; the version recorded for the
\* popped height enters at the front.  The index is taken from the height alone.
on_block_popped ==
  /\ versions' = <<hf_versions[db_height - 1]>> \o SubSeq(versions, 1, Len(versions) - 1)
  /\ current_fork_index' = get_ideal_index(db_height - 1)

\* History: one more entry at the front is that of a pop.
StaleAfterPop == IF stale < Len(versions) THEN stale + 1 ELSE stale

\* BlockchainDB::pop_block leaves the hf_versions entry where it is.
pop_block ==
  /\ db_height > 1
  /\ chain' = SubSeq(chain, 1, db_height - 1)
  /\ on_block_popped
  /\ stale' = StaleAfterPop
  /\ UNCHANGED hf_versions

\* The index reorganize_from_block_height steps back to before it counts votes.
StepBackIndex(start_version) ==
  LET keep == { n \in 1..current_fork_index : heights[n].version <= start_version }
  IN  IF keep = {} THEN 1 ELSE Highest(keep)

\* Mutant: the votes are counted for one height too many.
ReorganizeLate(h) ==
  LET win == Votes(chain, IF h >= window_size THEN h - window_size ELSE 0, h - 1)
  IN  /\ versions' = win
      /\ current_fork_index' =
           RaiseIndex(win, StepBackIndex(IF h = 1 THEN 1 ELSE hf_versions[h - 1]), h + 1)
      /\ stale' = 0

\* Mutant: the window is not rebuilt.
ReorganizeKeepsWindow(h) ==
  /\ UNCHANGED versions
  /\ current_fork_index' =
       RaiseIndex(versions, StepBackIndex(IF h = 1 THEN 1 ELSE hf_versions[h - 1]), h)
  /\ stale' = 0

\* reorganize_from_chain_height(h), up to the loop that re-adds the blocks above
\* h; the loop itself is RescanStep.
reorganize_from_chain_height(h) ==
  LET lo  == IF h >= window_size THEN h - window_size ELSE 0
      win == Votes(chain, lo, h - 1)
      start_version == IF h = 1 THEN 1 ELSE hf_versions[h - 1]
  IN  /\ versions' = win
      /\ current_fork_index' = RaiseIndex(win, StepBackIndex(start_version), h)
      /\ stale' = 0

\* rescan_from_block_height, as init calls it.
IndexOfVersion(v) ==
  IF \E n \in Forks : heights[n].version = v
  THEN CHOOSE n \in Forks : heights[n].version = v
  ELSE Len(heights)

RescannedWindow ==
  Votes(chain, IF db_height > window_size THEN db_height - window_size ELSE 0, db_height - 1)

\* Mutant: the votes are not counted after a restart.
RescannedIndexNoVote == IndexOfVersion(hf_versions[db_height - 1])

RescannedIndex ==
  RaiseIndex(RescannedWindow, IndexOfVersion(hf_versions[db_height - 1]), db_height)

----------------------------------------------------------------------------
Init ==
  /\ chain = <<>>
  /\ hf_versions = [h \in 0..MaxHeight |-> 0]
  /\ versions = <<>>
  /\ current_fork_index = 1
  /\ phase = "idle"
  /\ split = 0
  /\ saved = <<>>
  /\ next = 0
  /\ stale = 0

\* A block extends the main chain (handle_block_to_main_chain's version check,
\* then add_block).
AddBlock(b) ==
  /\ phase = "idle"
  /\ db_height < MaxHeight
  /\ do_check(b)
  /\ add_block(b)
  /\ UNCHANGED <<phase, split, saved, next>>

\* One block taken off by pop_blocks.
PopBlock ==
  /\ phase = "idle"
  /\ pop_block
  /\ UNCHANGED <<phase, split, saved, next>>

\* The node stops and starts again: the object is rebuilt from the database.
Restart ==
  /\ phase = "idle"
  /\ IF db_height = 0
     THEN versions' = <<>> /\ current_fork_index' = 1
     ELSE versions' = RescannedWindow /\ current_fork_index' = RescannedIndex
  /\ stale' = 0
  /\ UNCHANGED <<chain, hf_versions, phase, split, saved, next>>

\* switch_to_alternative_blockchain: the alternative chain leaves the main chain
\* below the top.
SwitchBegin(h) ==
  /\ phase = "idle"
  /\ h \in 1..(db_height - 1)
  /\ phase' = "disconnect"
  /\ split' = h
  /\ saved' = SubSeq(chain, h + 1, db_height)
  /\ UNCHANGED <<chain, hf_versions, versions, current_fork_index, next, stale>>

SwitchPop ==
  /\ phase = "disconnect"
  /\ pop_block
  /\ phase' = IF db_height - 1 = split THEN "connect" ELSE "disconnect"
  /\ UNCHANGED <<split, saved, next>>

SwitchAdd(b) ==
  /\ phase = "connect"
  /\ db_height < MaxHeight
  /\ do_check(b)
  /\ add_block(b)
  /\ UNCHANGED <<phase, split, saved, next>>

SwitchSucceed ==
  /\ phase = "connect"
  /\ db_height > split
  /\ reorganize_from_chain_height(split)
  /\ phase' = "rescan"
  /\ next' = split
  /\ saved' = <<>>
  /\ UNCHANGED <<chain, hf_versions, split>>

\* An alternative block was refused: rollback_blockchain_switching.
SwitchFail ==
  /\ phase = "connect"
  /\ phase' = "rollback"
  /\ UNCHANGED <<chain, hf_versions, versions, current_fork_index, split, saved, next, stale>>

RollbackPop ==
  /\ phase = "rollback"
  /\ db_height # split
  /\ pop_block
  /\ UNCHANGED <<phase, split, saved, next>>

RollbackReorganize ==
  /\ phase = "rollback"
  /\ db_height = split
  /\ reorganize_from_chain_height(split)
  /\ phase' = "restore"
  /\ UNCHANGED <<chain, hf_versions, split, saved, next>>

\* The disconnected blocks go back one by one; the first refusal gives up and
\* leaves the chain where it is.
RestoreBlock ==
  /\ phase = "restore"
  /\ saved # <<>>
  /\ IF do_check(Head(saved))
     THEN add_block(Head(saved)) /\ saved' = Tail(saved) /\ phase' = phase
     ELSE /\ phase' = "idle" /\ saved' = <<>>
          /\ UNCHANGED <<chain, hf_versions, versions, current_fork_index, stale>>
  /\ UNCHANGED <<split, next>>

RestoreDone ==
  /\ phase = "restore"
  /\ saved = <<>>
  /\ reorganize_from_chain_height(split)
  /\ phase' = "rescan"
  /\ next' = split
  /\ UNCHANGED <<chain, hf_versions, split, saved>>

\* The loop of reorganize_from_block_height over the blocks above the split.
RescanStep ==
  /\ phase = "rescan"
  /\ next < db_height
  /\ add(chain[next + 1], next)
  /\ next' = next + 1
  /\ UNCHANGED <<chain, phase, split, saved>>

RescanDone ==
  /\ phase = "rescan"
  /\ next = db_height
  /\ phase' = "idle"
  /\ UNCHANGED <<chain, hf_versions, versions, current_fork_index, split, saved, next, stale>>

Next ==
  \/ \E b \in Blocks : AddBlock(b) \/ SwitchAdd(b)
  \/ \E h \in 1..MaxHeight : SwitchBegin(h)
  \/ PopBlock
  \/ Restart
  \/ SwitchPop
  \/ SwitchSucceed
  \/ SwitchFail
  \/ RollbackPop
  \/ RollbackReorganize
  \/ RestoreBlock
  \/ RestoreDone
  \/ RescanStep
  \/ RescanDone

Spec == Init /\ [][Next]_vars

\* A node whose chain only grows, stopped and started at will.
GrowNext == Restart \/ \E b \in Blocks : AddBlock(b)

GrowSpec == Init /\ [][GrowNext]_vars

----------------------------------------------------------------------------
(* Properties. *)

\* Types, and the two facts the C++ relies on without checking: versions.back()
\* is only called on a non-empty window, and the window never exceeds its size.
TypeOK ==
  /\ chain \in Seq(Blocks)
  /\ db_height <= MaxHeight
  /\ hf_versions \in [0..MaxHeight -> ForkVersions \cup {0}]
  /\ versions \in Seq(Nat)
  /\ Len(versions) <= window_size
  /\ db_height > 0 => Len(versions) > 0
  /\ current_fork_index \in Forks
  /\ phase \in Phases
  /\ split \in 0..MaxHeight
  /\ saved \in Seq(Blocks)
  /\ next \in 0..MaxHeight
  /\ stale \in Nat

\* Where a chain switch may stand: the split lies on the chain, the disconnected
\* blocks fit back on it, and the re-adding loop stays between the two.
SwitchBookkeeping ==
  /\ phase # "idle" => split >= 1
  /\ phase = "disconnect" => split < db_height
  /\ phase \in {"connect", "rollback", "restore", "rescan"} => split <= db_height
  /\ phase \in {"disconnect", "connect", "rollback"} => split + Len(saved) <= MaxHeight
  /\ phase = "restore" => db_height + Len(saved) <= MaxHeight
  /\ phase = "rescan" => next \in split..db_height

\* The height at which the first disconnected block goes back.
RestoreHeight == IF phase = "restore" THEN db_height ELSE split

\* The hf_versions table gives, for every height of the chain, the version of the
\* block stored there, although popping a block leaves its entry behind and a
\* reorganisation rewrites entries (set_hard_fork_version, the FIXME in
\* pop_block_from_blockchain).
HfTableMatchesChain ==
  \A h \in 0..(db_height - 1) : hf_versions[h] = chain[h + 1].major_version

\* No fork of the schedule is voted on (every shipped schedule has threshold 0).
NoVoting == \A n \in Forks : heights[n].threshold = 0

\* Without voting, the version in force is a function of the height alone: adding,
\* popping, switching, rolling back and restarting all leave the fork index where
\* get_ideal_version puts it.  During the re-adding loop the height is the loop's.
CurrentVersionIsIdeal ==
  NoVoting /\ db_height > 0 =>
    current_fork_index = get_ideal_index(IF phase = "rescan" THEN next ELSE db_height)

\* Without voting, rolling back a failed switch never finds that a block which was
\* on the main chain has become unacceptable by its version (the "PANIC!" exit of
\* rollback_blockchain_switching is not reached through the hard fork check).
RestoreAccepted ==
  NoVoting /\ phase = "restore" /\ saved # <<>> => do_check(Head(saved))

\* Every block on the chain, or waiting to go back to it, votes for its own version
\* or a later one.
VotesBackVersions ==
  /\ \A i \in 1..Len(chain) : get_block_vote(chain[i]) >= chain[i].major_version
  /\ \A i \in 1..Len(saved) : get_block_vote(saved[i]) >= saved[i].major_version

\* Without voting, every block on the chain, or waiting to go back to it, has the
\* ideal version of its height.
BlocksHaveIdealVersion ==
  NoVoting =>
    /\ db_height = 0 => current_fork_index = 1
    /\ \A i \in 1..Len(chain) :
         chain[i].major_version = heights[get_ideal_index(i - 1)].version
    /\ phase \in {"disconnect", "connect", "rollback", "restore"} =>
         \A i \in 1..Len(saved) :
           saved[i].major_version = heights[get_ideal_index(RestoreHeight + i - 1)].version

\* The inductive invariant behind the theorems of HardForkProofs.
IInv ==
  /\ TypeOK
  /\ SwitchBookkeeping
  /\ HfTableMatchesChain
  /\ VotesBackVersions
  /\ BlocksHaveIdealVersion
  /\ CurrentVersionIsIdeal

\* The window holds the votes of the last window_size blocks ("rolling window of
\* the last N blocks' versions", hardfork.h).
RollingWindow ==
  phase = "idle" /\ db_height > 0 => versions = RescannedWindow

\* Without voting, every entry of the window that no pop has put there is the vote of
\* the block it stands for, counted from the top of the chain, and there is such a
\* block, through growth, pops, switches and roll-backs.  None is left of the entries
\* of pops (on_block_popped takes them from hf_versions) after a switch, a roll-back or
\* a restart, nor after as many blocks as the window has: the window is then that of
\* the last blocks again.
WindowOfNewestBlocks ==
  NoVoting /\ phase # "rescan" =>
    /\ Len(versions) <= db_height + stale
    /\ \A i \in (stale + 1)..Len(versions) :
         versions[i] = VoteOf(chain[db_height - Len(versions) + i])
    /\ stale = 0 => versions = RescannedWindow

\* The version in force is "past its trigger date and had enough votes at one point
\* in the past" (get_current_version, hardfork.h): at some height g of this chain
\* the last votes before g were enough for it.
CurrentVersionEarned ==
  phase = "idle" /\ db_height > 0 =>
    \E g \in 1..db_height :
      LET fork  == heights[current_fork_index]
          last  == { h \in 0..(g - 1) : h >= g - window_size }
          votes == { h \in last : VoteOf(chain[h + 1]) >= fork.version }
      IN  /\ g >= fork.height
          /\ 100 * Cardinality(votes) >= window_size * fork.threshold

\* As long as no entry of a pop is in the window, stopping and starting the node does
\* not change the version it enforces, nor the votes it has counted.
RestartKeepsVersion ==
  [][(Restart /\ stale = 0 /\ db_height > 0) => UNCHANGED <<current_fork_index, versions>>]_vars
============================================================================

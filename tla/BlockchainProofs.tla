-------------------------- MODULE BlockchainProofs --------------------------
(***************************************************************************)
(* A switch of chains is one step for whoever takes m_blockchain_lock, for *)
(* every tree of blocks, every assignment of transactions and difficulties *)
(* and every verdict, unless the switch crosses a fork that changes the    *)
(* rules.                                                                  *)
(***************************************************************************)
EXTENDS Blockchain, TLAPS, SequenceTheorems

Nodes == Blocks \cup {Genesis}

work == cumulative_difficulty

\* What the main chain is at any time, in the middle of a switch too: a chain of module MainChain,
\* of blocks that passed their checks.  Heights and work are what the recursions compute along it.
WellFormed(c, v) ==
  /\ c \in Seq(Nodes) /\ Len(c) >= 1
  /\ MC!IsChain(c)
  /\ \A i \in 2 .. Len(c) : v[c[i]] = "ok"
  /\ \A i \in 1 .. Len(c) : height[c[i]] = i - 1
  /\ \A i, k \in 1 .. Len(c) : i <= k => work[c[i]] <= work[c[k]]

Agrees(c, d, n) == \A i \in 1 .. n : c[i] = d[i]

JobType ==
  [stage : Stages, alt_chain : Seq(Blocks), disconnected_chain : Seq(Blocks), split_height : Nat,
   at : Nat, again : Nat, origin : Seq(Nodes)]

\* A switch j in progress.  It is to a chain with more work, whose blocks are alternative ones and
\* none of the chain being replaced.
Purpose(j, a, v) ==
  /\ WellFormed(j.origin, v)
  /\ Len(j.alt_chain) >= 1
  /\ Elements(j.alt_chain) \subseteq a
  /\ Elements(j.alt_chain) \cap Elements(j.origin) = {}
  /\ work[j.origin[Len(j.origin)]] < work[j.alt_chain[Len(j.alt_chain)]]
  /\ j.at \in 1 .. Len(j.alt_chain) + 1
  /\ j.stage # "connect" => j.at <= Len(j.alt_chain)

\* How many blocks of the old chain are still in place.
Split(j, m) == IF j.stage = "disconnect" THEN Len(m) ELSE j.split_height

\* The chain m agrees with the old chain o in its first n blocks, and d is the rest of o.
Apart(o, d, m, n) ==
  /\ n \in 1 .. Len(o) /\ n <= Len(m)
  /\ Agrees(m, o, n)
  /\ Len(d) = Len(o) - n
  /\ \A k \in 1 .. Len(d) : d[k] = o[n + k]

Parts(j, m) ==
  /\ Apart(j.origin, j.disconnected_chain, m, Split(j, m))
  /\ j.again \in 1 .. Len(j.disconnected_chain) + 1
  /\ j.stage \in {"disconnect", "rollback"} => j.again = 1

\* The chain m goes on, after n blocks, with those of c before position k.
Reached(m, c, n, k) ==
  /\ Len(m) = n + k - 1
  /\ \A i \in 1 .. k - 1 : m[n + i] = c[i]

\* What follows the blocks still in place in the main chain m: the part of alt_chain, or of the old
\* chain, connected so far.
Progress(j, m) ==
  /\ j.stage = "disconnect" => j.at = 1 /\ \E k \in 1 .. Len(m) : m[k] = parent[j.alt_chain[1]]
  /\ j.stage = "connect" => /\ j.at <= Len(j.alt_chain) => j.again = 1
                            /\ Reached(m, j.alt_chain, j.split_height, j.at)
  /\ j.stage \in {"restore", "orphan"} => Reached(m, j.disconnected_chain, j.split_height, j.again)

\* The old blocks that became alternative ones.
Pushed(j) == { j.disconnected_chain[k] : k \in 1 .. IF j.stage = "connect" THEN j.again - 1 ELSE 0 }

SwitchInv(j, m, a, v) ==
  /\ Purpose(j, a, v)
  /\ Parts(j, m)
  /\ Progress(j, m)
  /\ a \cap Elements(j.origin) = Pushed(j)

\* The inductive invariant, whatever the rules of the versions.
IInv ==
  /\ WellFormed(main, verdict)
  /\ alt \subseteq Blocks
  /\ job \in JobType
  /\ job.stage = "idle" => job = Idle /\ alt \cap Elements(main) = {}
  /\ job.stage # "idle" => SwitchInv(job, main, alt, verdict)

\* Every transaction that is in a block is accepted under both versions.
SameRules == \A b \in Blocks : txs[b] \subseteq accepted[1] \cap accepted[2]

\* No switch crosses a fork that changes the rules.
NoForkInSwitch == job # Idle /\ ~ SameRules => Version(Len(main)) = Version(Len(job.origin))

\* No block of the alternative table a has more work than the tail of the main chain m or, in the
\* middle of the switch j, than the tail of the old chain, but for the block the switch is to.
NoneHeavier(j, a, m) ==
  IF j.stage = "idle"
  THEN \A b \in a : work[b] <= work[m[Len(m)]]
  ELSE \A b \in a : b = j.alt_chain[Len(j.alt_chain)] \/ work[b] <= work[j.origin[Len(j.origin)]]

\* What such switches keep besides: the old blocks can always be connected again.
SameRulesInv ==
  /\ job.stage # "orphan"
  /\ OldTxsAtHand
  /\ ~ popped => NoneHeavier(job, alt, main)

----------------------------------------------------------------------------
(* Recursion along the parents. *)

Recurses(V, v0, F) ==
  \E H \in [Nodes -> V] : H[Genesis] = v0 /\ \A b \in Blocks : H[b] = F[<<b, H[parent[b]]>>]

LEMMA TreeRecursion ==
  ASSUME NEW V, NEW v0 \in V, NEW F \in [Blocks \X V -> V]
  PROVE  Recurses(V, v0, F)
<1> DEFINE Closed(X) == /\ <<Genesis, v0>> \in X
                        /\ \A b \in Blocks, v \in V : <<parent[b], v>> \in X => <<b, F[<<b, v>>]>> \in X
           R == { p \in Nodes \X V : \A X \in SUBSET (Nodes \X V) : Closed(X) => p \in X }
<1>0. Genesis \notin Blocks /\ \A b \in Blocks : parent[b] \in Nodes
  BY BlockAssumption, Zenon DEF Nodes
<1>1. Closed(R) /\ R \in SUBSET (Nodes \X V)
  BY <1>0, Zenon DEF Nodes
<1>2. \A X \in SUBSET (Nodes \X V) : Closed(X) => R \subseteq X
  BY Zenon
<1> HIDE DEF R
<1>3. \A b \in Nodes : \E v \in V : <<b, v>> \in R
  <2> DEFINE S == { b \in Blocks : ~ \E v \in V : <<b, v>> \in R }
  <2>1. S = {}
    <3> SUFFICES ASSUME S # {} PROVE FALSE
      BY Zenon
    <3>1. PICK b \in S : parent[b] \notin S
      BY TreeAssumption, Zenon
    <3>2. PICK v \in V : <<parent[b], v>> \in R
      BY <3>1, <1>0, <1>1, Zenon DEF Nodes
    <3>3. <<b, F[<<b, v>>]>> \in R /\ F[<<b, v>>] \in V
      BY <3>1, <3>2, <1>1, Zenon
    <3> QED
      BY <3>1, <3>3, Zenon
  <2> QED
    BY <2>1, <1>1, Zenon DEF Nodes
<1>4. \A v \in V : <<Genesis, v>> \in R => v = v0
  <2> SUFFICES ASSUME NEW v \in V, <<Genesis, v>> \in R, v # v0 PROVE FALSE
    BY Zenon
  <2> DEFINE X == R \ {<<Genesis, v>>}
  <2>1. Closed(X) /\ X \in SUBSET (Nodes \X V)
    BY <1>0, <1>1, Zenon
  <2> QED
    BY <2>1, <1>2, Zenon
<1>5. \A b \in Blocks, v \in V : <<b, v>> \in R => \E w \in V : <<parent[b], w>> \in R /\ v = F[<<b, w>>]
  <2> SUFFICES ASSUME NEW b \in Blocks, NEW v \in V, <<b, v>> \in R,
                      \A w \in V : <<parent[b], w>> \in R => v # F[<<b, w>>]
               PROVE  FALSE
    BY Zenon
  <2> DEFINE X == R \ {<<b, v>>}
  <2>1. Closed(X) /\ X \in SUBSET (Nodes \X V)
    BY <1>0, <1>1, Zenon
  <2> QED
    BY <2>1, <1>2, Zenon
<1>6. \A b \in Nodes, v, w \in V : <<b, v>> \in R /\ <<b, w>> \in R => v = w
  <2> DEFINE T == { b \in Blocks : \E v, w \in V : v # w /\ <<b, v>> \in R /\ <<b, w>> \in R }
  <2>1. T = {}
    <3> SUFFICES ASSUME T # {} PROVE FALSE
      BY Zenon
    <3>1. PICK b \in T : parent[b] \notin T
      BY TreeAssumption, Zenon
    <3>2. \A v, w \in V : <<parent[b], v>> \in R /\ <<parent[b], w>> \in R => v = w
      BY <3>1, <1>0, <1>4, Zenon DEF Nodes
    <3>3. PICK v, w \in V : v # w /\ <<b, v>> \in R /\ <<b, w>> \in R
      BY <3>1, Zenon
    <3>4. PICK v1 \in V : <<parent[b], v1>> \in R /\ v = F[<<b, v1>>]
      BY <3>1, <3>3, <1>5, Zenon
    <3>5. PICK w1 \in V : <<parent[b], w1>> \in R /\ w = F[<<b, w1>>]
      BY <3>1, <3>3, <1>5, Zenon
    <3> QED
      BY <3>2, <3>3, <3>4, <3>5, Zenon
  <2> QED
    BY <2>1, <1>4, Zenon DEF Nodes
<1> DEFINE H == [b \in Nodes |-> CHOOSE v \in V : <<b, v>> \in R]
<1>7. \A b \in Nodes : H[b] \in V /\ <<b, H[b]>> \in R
  BY <1>3, Zenon
<1>8. H \in [Nodes -> V]
  BY <1>7, Zenon
<1> HIDE DEF H
<1>9. H[Genesis] = v0
  BY <1>7, <1>4, Zenon DEF Nodes
<1>10. ASSUME NEW b \in Blocks PROVE H[b] = F[<<b, H[parent[b]]>>]
  <2>1. b \in Nodes /\ parent[b] \in Nodes
    BY <1>0, Zenon DEF Nodes
  <2>2. <<b, F[<<b, H[parent[b]]>>]>> \in R /\ F[<<b, H[parent[b]]>>] \in V
    BY <2>1, <1>7, <1>1, Zenon
  <2> QED
    BY <2>1, <2>2, <1>7, <1>6, Zenon
<1> QED
  BY <1>8, <1>9, <1>10, Zenon DEF Recurses

LEMMA Height ==
  /\ height \in [Nodes -> Nat]
  /\ height[Genesis] = 0
  /\ \A b \in Blocks : height[b] = height[parent[b]] + 1
<1>0. Genesis \notin Blocks /\ \A b \in Blocks : parent[b] \in Nodes
  BY BlockAssumption, Zenon DEF Nodes
<1> DEFINE F == [p \in Blocks \X Nat |-> p[2] + 1]
<1>1. F \in [Blocks \X Nat -> Nat]
  OBVIOUS
<1>2. PICK H \in [Nodes -> Nat] :
        H[Genesis] = 0 /\ \A b \in Blocks : H[b] = F[<<b, H[parent[b]]>>]
  <2> HIDE DEF F
  <2>1. Recurses(Nat, 0, F)
    BY <1>1, TreeRecursion, Zenon
  <2> QED BY <2>1, Zenon DEF Recurses
<1>3. \A b \in Blocks : H[b] = H[parent[b]] + 1
  BY <1>2, <1>0, Zenon
<1>4. H = [b \in Blocks \cup {Genesis} |-> IF b = Genesis THEN 0 ELSE H[parent[b]] + 1]
  BY <1>2, <1>3, <1>0, Zenon DEF Nodes
<1>5. height = [b \in Blocks \cup {Genesis} |-> IF b = Genesis THEN 0 ELSE height[parent[b]] + 1]
  BY <1>4, Zenon DEF height
<1>6. height[Genesis] = 0 /\ \A b \in Blocks : height[b] = height[parent[b]] + 1
  BY <1>5, <1>0, Zenon
<1> DEFINE S == { b \in Blocks : height[b] \notin Nat }
<1>7. S = {}
  <2> SUFFICES ASSUME S # {} PROVE FALSE
    BY Zenon
  <2>1. PICK b \in S : parent[b] \notin S
    BY TreeAssumption, Zenon
  <2> QED
    BY <2>1, <1>0, <1>6 DEF Nodes
<1>8. \A b \in Nodes : height[b] \in Nat
  BY <1>6, <1>7 DEF Nodes
<1> QED
  BY <1>5, <1>6, <1>8, Zenon DEF Nodes

LEMMA Work ==
  /\ work \in [Nodes -> Nat]
  /\ \A b \in Blocks : work[parent[b]] < work[b]
<1>0. Genesis \notin Blocks /\ \A b \in Blocks : parent[b] \in Nodes /\ difficulty[b] \in Nat \ {0}
  BY BlockAssumption, Zenon DEF Nodes
<1> DEFINE F == [p \in Blocks \X Nat |-> p[2] + difficulty[p[1]]]
<1>1. F \in [Blocks \X Nat -> Nat]
  BY <1>0
<1>2. PICK H \in [Nodes -> Nat] :
        H[Genesis] = 1 /\ \A b \in Blocks : H[b] = F[<<b, H[parent[b]]>>]
  <2> HIDE DEF F
  <2>1. Recurses(Nat, 1, F)
    BY <1>1, TreeRecursion, Zenon
  <2> QED
    BY <2>1, Zenon DEF Recurses
<1>3. \A b \in Blocks : H[b] = H[parent[b]] + difficulty[b]
  BY <1>2, <1>0, Zenon
<1>4. H = [b \in Blocks \cup {Genesis} |-> IF b = Genesis THEN 1 ELSE H[parent[b]] + difficulty[b]]
  BY <1>2, <1>3, <1>0, Zenon DEF Nodes
<1>5. work = [b \in Blocks \cup {Genesis} |-> IF b = Genesis THEN 1 ELSE work[parent[b]] + difficulty[b]]
  BY <1>4, Zenon DEF work, cumulative_difficulty
<1>6. work[Genesis] = 1 /\ \A b \in Blocks : work[b] = work[parent[b]] + difficulty[b]
  BY <1>5, <1>0, Zenon
<1> DEFINE S == { b \in Blocks : work[b] \notin Nat }
<1>7. S = {}
  <2> SUFFICES ASSUME S # {} PROVE FALSE
    BY Zenon
  <2>1. PICK b \in S : parent[b] \notin S
    BY TreeAssumption, Zenon
  <2> QED
    BY <2>1, <1>0, <1>6 DEF Nodes
<1>8. \A b \in Nodes : work[b] \in Nat
  BY <1>6, <1>7 DEF Nodes
<1>9. \A b \in Blocks : work[parent[b]] < work[b]
  BY <1>0, <1>6, <1>8 DEF Nodes
<1> QED
  BY <1>5, <1>8, <1>9, Zenon DEF Nodes

\* What build_alt_chain returns.
LEMMA AltChain ==
  ASSUME alt \subseteq Blocks
  PROVE  /\ AltAncestors \in [Nodes -> Seq(alt)]
         /\ \A b \in Nodes : b \notin alt => AltAncestors[b] = <<>>
         /\ \A b \in alt : AltAncestors[b] = Append(AltAncestors[parent[b]], b)
<1>0. Genesis \notin Blocks /\ \A b \in Blocks : parent[b] \in Nodes
  BY BlockAssumption, Zenon DEF Nodes
<1> DEFINE F == [p \in Blocks \X Seq(alt) |-> IF p[1] \notin alt THEN <<>> ELSE Append(p[2], p[1])]
<1>1. F \in [Blocks \X Seq(alt) -> Seq(alt)]
  OBVIOUS
<1>2. PICK H \in [Nodes -> Seq(alt)] :
        H[Genesis] = <<>> /\ \A b \in Blocks : H[b] = F[<<b, H[parent[b]]>>]
  <2> HIDE DEF F
  <2>1. <<>> \in Seq(alt)
    OBVIOUS
  <2>2. Recurses(Seq(alt), <<>>, F)
    BY <1>1, <2>1, TreeRecursion, Zenon
  <2> QED
    BY <2>2, Zenon DEF Recurses
<1>3. \A b \in Blocks : H[b] = IF b \notin alt THEN <<>> ELSE Append(H[parent[b]], b)
  BY <1>2, <1>0, Zenon
<1>4. H = [b \in Blocks \cup {Genesis} |-> IF b \notin alt THEN <<>> ELSE Append(H[parent[b]], b)]
  BY <1>2, <1>3, <1>0 DEF Nodes
<1>5. AltAncestors = [b \in Blocks \cup {Genesis} |->
                        IF b \notin alt THEN <<>> ELSE Append(AltAncestors[parent[b]], b)]
  BY <1>4, Zenon DEF AltAncestors
<1>6. /\ \A b \in Nodes : b \notin alt => AltAncestors[b] = <<>>
      /\ \A b \in alt : AltAncestors[b] = Append(AltAncestors[parent[b]], b)
  BY <1>5, <1>0, Zenon DEF Nodes
<1>9. \A b \in Nodes \ alt : AltAncestors[b] \in Seq(alt)
  <2>1. <<>> \in Seq(alt)
    OBVIOUS
  <2> QED
    BY <2>1, <1>6, Zenon
<1> DEFINE S == { b \in Blocks : AltAncestors[b] \notin Seq(alt) }
<1>7. S = {}
  <2> SUFFICES ASSUME S # {} PROVE FALSE
    BY Zenon
  <2>1. PICK b \in S : parent[b] \notin S
    BY TreeAssumption, Zenon
  <2>2. AltAncestors[parent[b]] \in Seq(alt)
    BY <2>1, <1>0, <1>9, Zenon DEF Nodes
  <2>3. b \in alt /\ b \in Blocks
    BY <2>1, <1>9, Zenon DEF Nodes
  <2>4. Append(AltAncestors[parent[b]], b) \in Seq(alt)
    BY <2>2, <2>3
  <2> QED
    BY <2>1, <2>3, <2>4, <1>6, Zenon
<1>8. \A b \in Nodes : AltAncestors[b] \in Seq(alt)
  BY <1>0, <1>9, <1>7, Zenon DEF Nodes
<1> QED
  BY <1>5, <1>6, <1>8, Zenon DEF Nodes

----------------------------------------------------------------------------
(* Chains. *)

LEMMA Appended ==
  ASSUME NEW S, NEW c \in Seq(S), NEW b \in S
  PROVE  /\ Append(c, b) \in Seq(S)
         /\ Len(Append(c, b)) = Len(c) + 1
         /\ Append(c, b)[Len(c) + 1] = b
         /\ Agrees(Append(c, b), c, Len(c))
  BY DEF Agrees

LEMMA Shortened ==
  ASSUME NEW S, NEW c \in Seq(S), Len(c) >= 1
  PROVE  /\ SubSeq(c, 1, Len(c) - 1) \in Seq(S)
         /\ Len(SubSeq(c, 1, Len(c) - 1)) = Len(c) - 1
         /\ Agrees(SubSeq(c, 1, Len(c) - 1), c, Len(c) - 1)
<1> DEFINE n == Len(c) - 1
<1>1. n \in Nat /\ 1 \in Int /\ n \in Int /\ \A i \in 1 .. n : c[i] \in S
  OBVIOUS
<1> HIDE DEF n
<1>2. /\ SubSeq(c, 1, n) \in Seq(S)
      /\ Len(SubSeq(c, 1, n)) = IF 1 <= n THEN n - 1 + 1 ELSE 0
      /\ \A i \in 1 .. n - 1 + 1 : SubSeq(c, 1, n)[i] = c[1 + i - 1]
  BY <1>1, SubSeqProperties
<1>3. /\ Len(SubSeq(c, 1, n)) = n
      /\ Agrees(SubSeq(c, 1, n), c, n)
  BY <1>1, <1>2 DEF Agrees
<1> QED
  BY <1>2, <1>3, Zenon DEF n

LEMMA ElementsOf ==
  ASSUME NEW S, NEW c \in Seq(S)
  PROVE  /\ Elements(c) \subseteq S
         /\ \A x : x \in Elements(c) <=> \E i \in 1 .. Len(c) : x = c[i]
  BY DEF Elements

\* Mined, by positions.
LEMMA MinedOf ==
  ASSUME NEW c, NEW v, WellFormed(c, v)
  PROVE  \A x : x \in Mined(c) <=> \E i \in 2 .. Len(c) : x \in txs[c[i]]
<1>1. c \in Seq(Nodes) /\ Len(c) >= 1 /\ c[1] = Genesis /\ \A i \in 2 .. Len(c) : c[i] \in Blocks
  BY Zenon DEF WellFormed, MC!IsChain
<1>2. \A x : x \in Elements(c) <=> \E i \in 1 .. Len(c) : x = c[i]
  BY <1>1, ElementsOf, Zenon
<1>3. \A x : x \in Elements(c) \ {Genesis} <=> \E i \in 2 .. Len(c) : x = c[i]
  BY <1>1, <1>2, BlockAssumption
<1> QED
  BY <1>3 DEF Mined

\* A block that connects.
LEMMA ChainGrows ==
  ASSUME NEW c, NEW v, WellFormed(c, v), NEW b \in Blocks,
         parent[b] = c[Len(c)], v[b] = "ok", txs[b] \cap Mined(c) = {}
  PROVE  /\ WellFormed(Append(c, b), v)
         /\ Mined(Append(c, b)) = Mined(c) \cup txs[b]
<1> DEFINE d == Append(c, b)
           n == Len(c)
<1>1. c \in Seq(Nodes) /\ b \in Nodes /\ n \in Nat /\ n >= 1
  BY DEF WellFormed, Nodes
<1>2. d \in Seq(Nodes) /\ Len(d) = n + 1 /\ d[n + 1] = b /\ \A i \in 1 .. n : d[i] = c[i]
  BY <1>1, Appended DEF Agrees
<1>3. \A x : x \in Mined(c) <=> \E i \in 2 .. n : x \in txs[c[i]]
  BY MinedOf, Zenon
<1> HIDE DEF d
<1>4. MC!IsChain(d)
  <2>1. d[1] = Genesis
    BY <1>1, <1>2 DEF WellFormed, MC!IsChain
  <2>2. ASSUME NEW i \in 2 .. Len(d), NEW k \in 2 .. Len(d)
        PROVE  d[i] \in Blocks /\ parent[d[i]] = d[i - 1] /\ (i # k => txs[d[i]] \cap txs[d[k]] = {})
    <3>1. \A j, l \in 2 .. n :
            c[j] \in Blocks /\ parent[c[j]] = c[j - 1] /\ (j # l => txs[c[j]] \cap txs[c[l]] = {})
      BY Zenon DEF WellFormed, MC!IsChain
    <3>2. \A j \in 2 .. n : txs[b] \cap txs[c[j]] = {}
      BY <1>3, Zenon
    <3>3. \A j \in 2 .. n : d[j] = c[j] /\ d[j - 1] = c[j - 1]
      BY <1>1, <1>2
    <3>4. d[i] \in Blocks /\ parent[d[i]] = d[i - 1]
      <4>1. CASE i = n + 1
        BY <4>1, <1>1, <1>2
      <4>2. CASE i \in 2 .. n
        BY <4>2, <3>1, <3>3, Zenon
      <4> QED
        BY <4>1, <4>2, <1>1, <1>2
    <3>5. i # k => txs[d[i]] \cap txs[d[k]] = {}
      <4>1. CASE i = n + 1 /\ k \in 2 .. n
        BY <4>1, <1>2, <3>2, <3>3, Zenon
      <4>2. CASE k = n + 1 /\ i \in 2 .. n
        <5>1. txs[b] \cap txs[c[i]] = {} /\ d[i] = c[i] /\ d[k] = b
          BY <4>2, <1>2, <3>2, <3>3, Zenon
        <5> QED
          BY <5>1, Zenon
      <4>3. CASE i \in 2 .. n /\ k \in 2 .. n
        BY <4>3, <3>1, <3>3, Zenon
      <4> QED
        BY <4>1, <4>2, <4>3, <1>1, <1>2
    <3> QED
      BY <3>4, <3>5, Zenon
  <2> QED
    BY <2>1, <2>2, Zenon DEF MC!IsChain
<1>5. \A i \in 2 .. Len(d) : v[d[i]] = "ok"
  BY <1>1, <1>2 DEF WellFormed
<1>6. \A i \in 1 .. Len(d) : height[d[i]] = i - 1
  <2>1. height[c[n]] = n - 1 /\ height[b] = height[c[n]] + 1
    BY <1>1, Height DEF WellFormed
  <2>2. \A i \in 1 .. n : height[d[i]] = i - 1
    BY <1>1, <1>2, Zenon DEF WellFormed
  <2>3. height[d[n + 1]] = n
    BY <1>1, <1>2, <2>1
  <2> QED
    BY <1>1, <1>2, <2>2, <2>3
<1>7. \A i, k \in 1 .. Len(d) : i <= k => work[d[i]] <= work[d[k]]
  <2>1. \A i \in 1 .. n : c[i] \in Nodes /\ work[c[i]] \in Nat /\ work[c[i]] <= work[c[n]]
    BY <1>1, Work, SMTT(30) DEF WellFormed
  <2>2. work[b] \in Nat /\ work[c[n]] < work[b]
    BY <1>1, Work, Zenon
  <2>3. ASSUME NEW i \in 1 .. Len(d), NEW k \in 1 .. Len(d), i <= k PROVE work[d[i]] <= work[d[k]]
    <3>1. CASE k = n + 1
      <4>1. CASE i = n + 1
        BY <4>1, <3>1, <1>2, <2>2
      <4>2. CASE i \in 1 .. n
        BY <4>2, <3>1, <1>1, <1>2, <2>1, <2>2
      <4> QED
        BY <4>1, <4>2, <1>1, <1>2
    <3>2. CASE k \in 1 .. n
      BY <3>2, <2>3, <1>1, <1>2 DEF WellFormed
    <3> QED
      BY <3>1, <3>2, <1>1, <1>2
  <2> QED
    BY <2>3, Zenon
<1>8. WellFormed(d, v)
  BY <1>1, <1>2, <1>4, <1>5, <1>6, <1>7 DEF WellFormed
<1>9. \A x : x \in Mined(d) <=> \E i \in 2 .. n + 1 : x \in txs[d[i]]
  BY <1>8, <1>2, MinedOf, Zenon
<1>10. \A x : x \in Mined(d) <=> x \in Mined(c) \/ x \in txs[b]
  BY <1>1, <1>2, <1>3, <1>9
<1> QED
  BY <1>8, <1>10, Zenon DEF d

\* A block that is popped.
LEMMA ChainShrinks ==
  ASSUME NEW c, NEW v, WellFormed(c, v), Len(c) >= 2
  PROVE  /\ WellFormed(SubSeq(c, 1, Len(c) - 1), v)
         /\ Mined(c) = Mined(SubSeq(c, 1, Len(c) - 1)) \cup txs[c[Len(c)]]
<1> DEFINE d == SubSeq(c, 1, Len(c) - 1)
           n == Len(c)
<1>1. c \in Seq(Nodes) /\ n \in Nat /\ n >= 2
  BY DEF WellFormed
<1>2. d \in Seq(Nodes) /\ Len(d) = n - 1 /\ \A i \in 1 .. n - 1 : d[i] = c[i]
  BY <1>1, Shortened DEF Agrees
<1> HIDE DEF d
<1>3. WellFormed(d, v)
  <2>1. \A i \in 1 .. Len(d) : i \in 1 .. n /\ d[i] = c[i]
    BY <1>1, <1>2
  <2>2. \A i \in 2 .. Len(d) : i \in 2 .. n /\ d[i] = c[i] /\ d[i - 1] = c[i - 1]
    BY <1>1, <1>2
  <2>3. MC!IsChain(d)
    <3>1. d[1] = Genesis
      BY <1>1, <2>1, <1>2 DEF WellFormed, MC!IsChain
    <3>2. \A j, l \in 2 .. n :
            c[j] \in Blocks /\ parent[c[j]] = c[j - 1] /\ (j # l => txs[c[j]] \cap txs[c[l]] = {})
      BY Zenon DEF WellFormed, MC!IsChain
    <3>3. ASSUME NEW i \in 2 .. Len(d), NEW k \in 2 .. Len(d)
          PROVE  d[i] \in Blocks /\ parent[d[i]] = d[i - 1] /\ (i # k => txs[d[i]] \cap txs[d[k]] = {})
      BY <2>2, <3>2, Zenon
    <3> QED
      BY <3>1, <3>3, Zenon DEF MC!IsChain
  <2>4. \A i \in 2 .. Len(d) : v[d[i]] = "ok"
    BY <2>2, Zenon DEF WellFormed
  <2>5. \A i \in 1 .. Len(d) : height[d[i]] = i - 1
    BY <2>1, Zenon DEF WellFormed
  <2>6. \A i, k \in 1 .. Len(d) : i <= k => work[d[i]] <= work[d[k]]
    BY <2>1, Zenon DEF WellFormed
  <2> QED
    BY <1>1, <1>2, <2>3, <2>4, <2>5, <2>6 DEF WellFormed
<1>4. \A x : x \in Mined(c) <=> \E i \in 2 .. n : x \in txs[c[i]]
  BY MinedOf, Zenon
<1>5. \A x : x \in Mined(d) <=> \E i \in 2 .. n - 1 : x \in txs[d[i]]
  BY <1>3, <1>2, MinedOf, Zenon
<1>6. \A x : x \in Mined(c) <=> x \in Mined(d) \/ x \in txs[c[n]]
  BY <1>1, <1>2, <1>4, <1>5
<1> QED
  BY <1>3, <1>6, Zenon DEF d

\* Chains that agree hold the same, and a chain holds a block once.
LEMMA ChainsAgree ==
  ASSUME NEW S, NEW c \in Seq(S), NEW d \in Seq(S), Len(c) = Len(d), Agrees(c, d, Len(c))
  PROVE  c = d
  BY SeqEqual, Zenon DEF Agrees

LEMMA BlocksDiffer ==
  ASSUME NEW c, NEW v, WellFormed(c, v), NEW i \in 1 .. Len(c), NEW k \in 1 .. Len(c), c[i] = c[k]
  PROVE  i = k
  BY DEF WellFormed

LEMMA ChainBlock ==
  ASSUME NEW c, NEW v, WellFormed(c, v), NEW i \in 2 .. Len(c)
  PROVE  c[i] \in Blocks /\ parent[c[i]] = c[i - 1] /\ v[c[i]] = "ok"
  BY Zenon DEF WellFormed, MC!IsChain

LEMMA AgreesLess ==
  ASSUME NEW c, NEW d, NEW n \in Nat, NEW k \in Nat, k <= n, Agrees(c, d, n)
  PROVE  Agrees(c, d, k)
  BY DEF Agrees

\* The next block of c goes to the end of m.
LEMMA NextConnected ==
  ASSUME NEW S, NEW m \in Seq(S), NEW c, NEW n \in Nat, NEW k \in Nat \ {0}, c[k] \in S,
         Reached(m, c, n, k)
  PROVE  Reached(Append(m, c[k]), c, n, k + 1)
<1> DEFINE m2 == Append(m, c[k])
<1>1. Len(m2) = Len(m) + 1 /\ m2[Len(m) + 1] = c[k] /\ \A i \in 1 .. Len(m) : m2[i] = m[i]
  BY Appended DEF Agrees
<1> HIDE DEF m2
<1>2. ASSUME NEW i \in 1 .. k PROVE m2[n + i] = c[i]
  <2>1. CASE i = k
    BY <2>1, <1>1 DEF Reached
  <2>2. CASE i \in 1 .. k - 1
    BY <2>2, <1>1 DEF Reached
  <2> QED
    BY <2>1, <2>2
<1>3. Len(m2) = n + (k + 1) - 1 /\ (k + 1) - 1 = k
  BY <1>1 DEF Reached
<1> QED
  BY <1>2, <1>3, Zenon DEF m2, Reached

\* What was connected again is the old chain.
LEMMA RestoredAgrees ==
  ASSUME NEW o \in Seq(Nodes), NEW d \in Seq(Blocks), NEW m \in Seq(Nodes), NEW n \in Nat,
         NEW k \in 1 .. Len(d) + 1, Apart(o, d, m, n), Reached(m, d, n, k)
  PROVE  Agrees(m, o, Len(m)) /\ Len(m) = n + k - 1 /\ Len(o) = n + Len(d)
<1>1. Len(m) = n + k - 1 /\ Len(d) = Len(o) - n /\ Len(d) \in Nat /\ Len(o) \in Nat /\ Len(m) \in Nat
  BY DEF Apart, Reached
<1>2. ASSUME NEW i \in 1 .. Len(m) PROVE m[i] = o[i]
  <2>1. CASE i \in 1 .. n
    BY <2>1, Zenon DEF Apart, Agrees
  <2>2. CASE i \notin 1 .. n
    <3>1. i - n \in 1 .. k - 1 /\ i - n \in 1 .. Len(d) /\ n + (i - n) = i
      BY <1>1, <2>2
    <3>2. m[n + (i - n)] = d[i - n] /\ d[i - n] = o[n + (i - n)]
      BY <3>1, Zenon DEF Apart, Reached
    <3> QED
      BY <3>1, <3>2, Zenon
  <2> QED
    BY <2>1, <2>2, Zenon
<1> QED
  BY <1>1, <1>2 DEF Agrees

LEMMA ApartSame ==
  ASSUME NEW o, NEW d, NEW m, NEW m2, NEW n, Apart(o, d, m, n), Agrees(m2, m, n), n <= Len(m2)
  PROVE  Apart(o, d, m2, n)
  BY Zenon DEF Apart, Agrees

\* One more block is disconnected.
LEMMA ApartPop ==
  ASSUME NEW o \in Seq(Nodes), NEW d \in Seq(Blocks), NEW m \in Seq(Nodes), NEW m2 \in Seq(Nodes),
         Len(m) >= 2, Apart(o, d, m, Len(m)), m[Len(m)] \in Blocks,
         Len(m2) = Len(m) - 1, Agrees(m2, m, Len(m) - 1)
  PROVE  /\ <<m[Len(m)]>> \o d \in Seq(Blocks)
         /\ Len(<<m[Len(m)]>> \o d) = Len(d) + 1
         /\ Apart(o, <<m[Len(m)]>> \o d, m2, Len(m2))
<1> DEFINE e == <<m[Len(m)]>> \o d
           n == Len(m)
<1>1. /\ e \in Seq(Blocks) /\ Len(e) = Len(d) + 1 /\ e[1] = m[n]
      /\ \A i \in 2 .. Len(e) : e[i] = d[i - 1]
  OBVIOUS
<1>2. n \in Nat /\ Len(o) \in Nat /\ Len(d) \in Nat
  OBVIOUS
<1> HIDE DEF e
<1>3. n <= Len(o) /\ Len(d) = Len(o) - n /\ m[n] = o[n] /\ \A k \in 1 .. Len(d) : d[k] = o[n + k]
  BY <1>2 DEF Apart, Agrees
<1>4. ASSUME NEW k \in 1 .. Len(e) PROVE e[k] = o[n - 1 + k]
  <2>1. CASE k = 1
    BY <2>1, <1>1, <1>2, <1>3
  <2>2. CASE k \in 2 .. Len(e)
    <3>1. k - 1 \in 1 .. Len(d) /\ n + (k - 1) = n - 1 + k
      BY <2>2, <1>1, <1>2
    <3> QED
      BY <3>1, <2>2, <1>1, <1>3, Zenon
  <2> QED
    BY <2>1, <2>2, <1>1, <1>2
<1>5. Agrees(m2, o, n - 1)
  BY <1>2 DEF Apart, Agrees
<1>6. Apart(o, e, m2, n - 1)
  BY <1>1, <1>2, <1>3, <1>4, <1>5 DEF Apart
<1> QED
  BY <1>1, <1>6, Zenon DEF e

----------------------------------------------------------------------------
(* The steps that are not part of a switch. *)

LEMMA IdleType == Idle \in JobType /\ Idle.stage = "idle" /\ Idle.origin = <<>>
  BY DEF Idle, JobType, Stages

LEMMA IdleStage == IInv => (job = Idle <=> job.stage = "idle")
  BY DEF IInv, Idle

LEMMA InitHolds == Init => IInv
<1> SUFFICES ASSUME Init PROVE IInv
  BY Zenon
<1>1. main = <<Genesis>> /\ alt = {} /\ job = Idle
  BY Zenon DEF Init
<1>2. <<Genesis>> \in Seq(Nodes) /\ Len(<<Genesis>>) = 1 /\ <<Genesis>>[1] = Genesis /\ Genesis \in Nodes
  BY DEF Nodes
<1>3. WellFormed(main, verdict)
  BY <1>1, <1>2, Height, Work DEF WellFormed, MC!IsChain
<1> QED
  BY <1>1, <1>3, IdleType, Zenon DEF IInv

\* A step that leaves no switch in progress, before or after.
LEMMA IdleStep ==
  ASSUME IInv, job = Idle, job' = job, verdict' = verdict,
         WellFormed(main', verdict), alt' \subseteq Blocks, alt' \cap Elements(main') = {}
  PROVE  IInv'
<1>1. job' = Idle /\ job' \in JobType /\ job'.stage = "idle"
  BY IdleType, Zenon
<1>2. WellFormed(main', verdict')
  BY Zenon
<1> QED
  BY <1>1, <1>2, Zenon DEF IInv

LEMMA ConnectGrows ==
  ASSUME IInv, NEW b \in Blocks, NEW extra, Connects(b, extra), Connect(b)
  PROVE  /\ WellFormed(main', verdict)
         /\ main' = Append(main, b)
         /\ Mined(main') = Mined(main) \cup txs[b]
         /\ \A x : x \in Elements(main') <=> x \in Elements(main) \/ x = b
         /\ pool' = Validated(pool \ txs[b], Len(main), Len(main) + 1)
<1>1. main' = Append(main, b) /\ pool' = Validated(pool \ txs[b], Len(main), Len(main) + 1)
  BY Zenon DEF Connect
<1>2. parent[b] = main[Len(main)] /\ verdict[b] = "ok" /\ txs[b] \cap Mined(main) = {}
  BY Zenon DEF Connects, HeaderPasses, AtHand, get_tail_id
<1>3. WellFormed(Append(main, b), verdict) /\ Mined(Append(main, b)) = Mined(main) \cup txs[b]
  BY <1>2, ChainGrows, Zenon DEF IInv
<1>4. main \in Seq(Nodes) /\ b \in Nodes
  BY Zenon DEF IInv, WellFormed, Nodes
<1>5. /\ main' \in Seq(Nodes) /\ Len(main') = Len(main) + 1 /\ main'[Len(main) + 1] = b
      /\ \A i \in 1 .. Len(main) : main'[i] = main[i]
  BY <1>1, <1>4, Appended DEF Agrees
<1>6. \A x : x \in Elements(main') <=> x \in Elements(main) \/ x = b
  <2>1. \A x : x \in Elements(main) <=> \E i \in 1 .. Len(main) : x = main[i]
    BY <1>4, ElementsOf, Zenon
  <2>2. \A x : x \in Elements(main') <=> \E i \in 1 .. Len(main) + 1 : x = main'[i]
    BY <1>5, ElementsOf
  <2>3. Len(main) \in Nat
    BY <1>4
  <2> QED
    BY <1>5, <2>1, <2>2, <2>3
<1> QED
  BY <1>1, <1>3, <1>6, Zenon

LEMMA PopShrinks ==
  ASSUME IInv, Len(main) >= 2, Pop
  PROVE  /\ WellFormed(main', verdict)
         /\ main' \in Seq(Nodes) /\ Len(main') = Len(main) - 1
         /\ Agrees(main', main, Len(main) - 1)
         /\ Mined(main) = Mined(main') \cup txs[main[Len(main)]]
         /\ Elements(main') \subseteq Elements(main)
         /\ pool' = Validated(pool \cup txs[main[Len(main)]], Len(main), Len(main) - 1)
<1>1. /\ main' = SubSeq(main, 1, Len(main) - 1)
      /\ pool' = Validated(pool \cup txs[main[Len(main)]], Len(main), Len(main) - 1)
  BY Zenon DEF Pop, get_tail_id
<1>2. main \in Seq(Nodes) /\ WellFormed(main, verdict) /\ Len(main) \in Nat
  BY DEF IInv, WellFormed
<1>3. WellFormed(main', verdict) /\ Mined(main) = Mined(main') \cup txs[main[Len(main)]]
  BY <1>1, <1>2, ChainShrinks, Zenon
<1>4. main' \in Seq(Nodes) /\ Len(main') = Len(main) - 1 /\ Agrees(main', main, Len(main) - 1)
  BY <1>1, <1>2, Shortened
<1>5. Elements(main') \subseteq Elements(main)
  <2>1. \A x : x \in Elements(main) <=> \E i \in 1 .. Len(main) : x = main[i]
    BY <1>2, ElementsOf, Zenon
  <2>2. \A x : x \in Elements(main') <=> \E i \in 1 .. Len(main) - 1 : x = main'[i]
    BY <1>4, ElementsOf, Zenon
  <2> QED
    BY <1>2, <1>4, <2>1, <2>2 DEF Agrees
<1> QED
  BY <1>1, <1>3, <1>4, <1>5, Zenon

LEMMA ReceiveMainKeeps == ASSUME IInv, NEW b \in Blocks, NEW extra, ReceiveMain(b, extra) PROVE IInv'
<1>1. /\ job = Idle /\ job' = job /\ verdict' = verdict /\ alt' = alt
      /\ b \notin alt /\ b \notin Elements(main)
  BY Zenon DEF ReceiveMain, have_block
<1>2. alt \subseteq Blocks /\ alt \cap Elements(main) = {} /\ WellFormed(main, verdict)
  BY <1>1, IdleStage, Zenon DEF IInv
<1>3. CASE Connects(b, extra) /\ Connect(b)
  <2>1. WellFormed(main', verdict) /\ \A x : x \in Elements(main') <=> x \in Elements(main) \/ x = b
    BY <1>3, ConnectGrows, Zenon
  <2>2. alt' \cap Elements(main') = {}
    BY <1>1, <1>2, <2>1, Zenon
  <2> QED
    BY <1>1, <1>2, <2>1, <2>2, IdleStep, Zenon
<1>4. CASE Refuse(b, extra)
  <2>1. main' = main
    BY <1>4, Zenon DEF Refuse
  <2> QED
    BY <1>1, <1>2, <2>1, IdleStep, Zenon
<1> QED
  BY <1>3, <1>4, Zenon DEF ReceiveMain

LEMMA ReceiveAltKeeps == ASSUME IInv, NEW b \in Blocks, NEW extra, ReceiveAlt(b, extra) PROVE IInv'
<1> DEFINE chain == AltAncestors[parent[b]]
           j == [Idle EXCEPT !.stage = "disconnect", !.origin = main, !.alt_chain = Append(chain, b)]
<1>1. /\ job = Idle /\ verdict' = verdict /\ main' = main
      /\ alt' = alt \cup {b} /\ b \notin alt /\ b \notin Elements(main)
      /\ job' = IF Heavier(b) THEN j ELSE job
      /\ parent[b] \in alt \cup Elements(main)
      /\ chain # <<>> => parent[chain[1]] \in Elements(main)
  BY Zenon DEF ReceiveAlt, have_block, AltAccepts
<1>2. /\ alt \subseteq Blocks /\ alt' \subseteq Blocks /\ alt \cap Elements(main) = {}
      /\ alt' \cap Elements(main) = {} /\ WellFormed(main, verdict)
  BY <1>1, IdleStage, Zenon DEF IInv
<1>3. CASE ~ Heavier(b)
  <2>1. job' = job
    BY <1>1, <1>3, Zenon
  <2> QED
    BY <1>1, <1>2, <2>1, IdleStep, Zenon
<1>4. CASE Heavier(b)
  <2>1. parent[b] \in Nodes /\ main \in Seq(Nodes) /\ Len(main) \in Nat \ {0}
    BY <1>2, BlockAssumption DEF Nodes, WellFormed
  <2>2. chain \in Seq(alt)
    BY <1>2, <2>1, AltChain, Zenon
  <2>3. chain = <<>> => parent[b] \in Elements(main)
    <3> SUFFICES ASSUME parent[b] \in alt PROVE chain # <<>>
      BY <1>1, Zenon
    <3>1. chain = Append(AltAncestors[parent[parent[b]]], parent[b])
      BY <1>2, AltChain, Zenon
    <3>2. AltAncestors[parent[parent[b]]] \in Seq(alt)
      BY <1>2, AltChain, BlockAssumption, Zenon DEF Nodes
    <3> QED
      BY <3>1, <3>2, SMTT(30)
  <2>4. job' = j
    BY <1>1, <1>4, Zenon
  <2> HIDE DEF chain
  <2> DEFINE c == Append(chain, b)
  <2>5. /\ c \in Seq(alt') /\ c \in Seq(Blocks) /\ Len(c) >= 1 /\ c[Len(c)] = b
        /\ parent[c[1]] \in Elements(main)
    <3>1. chain \in Seq(alt') /\ b \in alt' /\ chain \in Seq(Blocks)
      BY <1>1, <1>2, <2>2
    <3>2. /\ c \in Seq(alt') /\ c \in Seq(Blocks) /\ Len(c) = Len(chain) + 1 /\ c[Len(c)] = b
          /\ Len(chain) \in Nat /\ (chain # <<>> => c[1] = chain[1]) /\ (chain = <<>> => c[1] = b)
      BY <3>1
    <3> QED
      BY <1>1, <2>3, <3>2
  <2> HIDE DEF c
  <2>6. /\ j \in JobType /\ j.stage = "disconnect" /\ j.origin = main /\ j.alt_chain = c
        /\ j.disconnected_chain = <<>> /\ j.at = 1 /\ j.again = 1
    <3>1. j = [stage |-> "disconnect", alt_chain |-> c, disconnected_chain |-> <<>>, split_height |-> 0,
               at |-> 1, again |-> 1, origin |-> main]
      <4>1. Idle = [stage |-> "idle", alt_chain |-> <<>>, disconnected_chain |-> <<>>, split_height |-> 0,
                    at |-> 1, again |-> 1, origin |-> <<>>]
        BY Zenon DEF Idle
      <4>2. j = [Idle EXCEPT !.stage = "disconnect", !.origin = main, !.alt_chain = c]
        BY Zenon DEF c
      <4> HIDE DEF j
      <4> QED
        BY <4>1, <4>2, Zenon
    <3> HIDE DEF j
    <3>2. <<>> \in Seq(Blocks) /\ 0 \in Nat /\ 1 \in Nat /\ "disconnect" \in Stages
      BY DEF Stages
    <3> QED
      BY <2>1, <2>5, <3>1, <3>2, Zenon DEF JobType
  <2> HIDE DEF j
  <2>7. Purpose(j, alt', verdict)
    <3>1. work[main[Len(main)]] < work[b]
      BY <1>4, Zenon DEF Heavier, get_tail_id, work
    <3>2. Elements(c) \subseteq alt'
      BY <2>5, ElementsOf, Zenon
    <3> QED
      BY <1>2, <2>1, <2>5, <2>6, <3>1, <3>2 DEF Purpose
  <2>8. Parts(j, main)
    BY <2>1, <2>6 DEF Parts, Apart, Split, Agrees
  <2>9. Progress(j, main)
    <3>1. \E k \in 1 .. Len(main) : main[k] = parent[c[1]]
      BY <2>1, <2>5, ElementsOf
    <3> QED
      BY <2>6, <3>1, Zenon DEF Progress
  <2>10. alt' \cap Elements(j.origin) = Pushed(j)
    BY <1>2, <2>6 DEF Pushed
  <2>11. SwitchInv(j, main, alt', verdict)
    BY <2>7, <2>8, <2>9, <2>10, Zenon DEF SwitchInv
  <2> QED
    BY <1>1, <1>2, <2>4, <2>6, <2>11, Zenon DEF IInv
<1> QED
  BY <1>3, <1>4, Zenon

LEMMA PopBlocksKeeps == ASSUME IInv, PopBlocks PROVE IInv'
<1>1. /\ job = Idle /\ job' = job /\ verdict' = verdict /\ alt' = alt /\ Len(main) > 1 /\ Pop
  BY Zenon DEF PopBlocks
<1>2. alt \subseteq Blocks /\ alt \cap Elements(main) = {} /\ Len(main) \in Nat
  BY <1>1, IdleStage DEF IInv, WellFormed
<1>3. WellFormed(main', verdict) /\ Elements(main') \subseteq Elements(main)
  BY <1>1, <1>2, PopShrinks
<1> QED
  BY <1>1, <1>2, <1>3, IdleStep, Zenon

LEMMA OthersKeep ==
  ASSUME IInv, \/ \E t \in Txs : PoolGains(t) \/ PoolLoses(t)
               \/ Restart
               \/ flush_invalid_blocks
  PROVE  IInv'
<1>1. job = Idle /\ job' = job /\ verdict' = verdict /\ main' = main /\ alt' \subseteq alt
  BY Zenon DEF PoolGains, PoolLoses, Restart, flush_invalid_blocks
<1>2. alt \subseteq Blocks /\ alt \cap Elements(main) = {} /\ WellFormed(main, verdict)
  BY <1>1, IdleStage, Zenon DEF IInv
<1>3. alt' \subseteq Blocks /\ alt' \cap Elements(main') = {}
  BY <1>1, <1>2, Zenon
<1> QED
  BY <1>1, <1>2, <1>3, IdleStep, Zenon

----------------------------------------------------------------------------
(* The steps of a switch. *)

\* A step from one stage of a switch to another.
LEMMA SwitchGoesOn ==
  ASSUME IInv, verdict' = verdict, WellFormed(main', verdict), alt' \subseteq Blocks,
         job' \in JobType, job'.stage # "idle",
         Purpose(job', alt', verdict), Parts(job', main'), Progress(job', main'),
         alt' \cap Elements(job'.origin) = Pushed(job')
  PROVE  IInv'
<1>1. SwitchInv(job', main', alt', verdict') /\ WellFormed(main', verdict')
  BY Zenon DEF SwitchInv
<1> QED
  BY <1>1, Zenon DEF IInv

\* The facts about a switch in progress that do not depend on its stage.
Switching ==
  /\ SwitchInv(job, main, alt, verdict) /\ job \in JobType /\ alt \subseteq Blocks
  /\ WellFormed(main, verdict) /\ WellFormed(job.origin, verdict)
  /\ main \in Seq(Nodes) /\ Len(main) \in Nat /\ Len(main) >= 1
  /\ job.origin \in Seq(Nodes) /\ Len(job.origin) \in Nat
  /\ job.alt_chain \in Seq(Blocks) /\ Len(job.alt_chain) \in Nat
  /\ job.disconnected_chain \in Seq(Blocks) /\ Len(job.disconnected_chain) \in Nat
  /\ job.split_height \in Nat /\ job.at \in Nat /\ job.again \in Nat

LEMMA InSwitch == ASSUME IInv, job.stage # "idle" PROVE Switching
<1>1. SwitchInv(job, main, alt, verdict) /\ job \in JobType /\ WellFormed(main, verdict) /\ alt \subseteq Blocks
  BY Zenon DEF IInv
<1>2. WellFormed(job.origin, verdict)
  BY <1>1, Zenon DEF SwitchInv, Purpose
<1>3. main \in Seq(Nodes) /\ Len(main) \in Nat /\ Len(main) >= 1
  BY <1>1 DEF WellFormed
<1>4. /\ job.origin \in Seq(Nodes) /\ job.alt_chain \in Seq(Blocks) /\ job.disconnected_chain \in Seq(Blocks)
      /\ job.split_height \in Nat /\ job.at \in Nat /\ job.again \in Nat
  BY <1>1, Zenon DEF JobType
<1> QED
  BY <1>1, <1>2, <1>3, <1>4 DEF Switching

LEMMA DisconnectKeeps == ASSUME IInv, Disconnect PROVE IInv'
<1>1. job.stage = "disconnect" /\ verdict' = verdict /\ alt' = alt
  BY Zenon DEF Disconnect
<1>2. Switching
  BY <1>1, InSwitch, Zenon
<1>3. Purpose(job, alt, verdict) /\ Parts(job, main) /\ Progress(job, main) /\ alt \cap Elements(job.origin) = {}
  BY <1>1, <1>2 DEF Switching, SwitchInv, Pushed
<1>4. CASE get_tail_id # parent[job.alt_chain[1]] /\ Pop
           /\ job' = [job EXCEPT !.disconnected_chain = <<get_tail_id>> \o @]
  <2> DEFINE n == Len(main)
             d == <<main[n]>> \o job.disconnected_chain
  <2>0. n \in Nat /\ n >= 1 /\ job \in JobType
    BY <1>2, Zenon DEF Switching
  <2>1. PICK k \in 1 .. n : main[k] = parent[job.alt_chain[1]]
    BY <1>1, <1>3, Zenon DEF Progress
  <2>2. k # n /\ n >= 2
    BY <2>0, <2>1, <1>4 DEF get_tail_id
  <2>3. /\ WellFormed(main', verdict) /\ Len(main') = n - 1
        /\ \A i \in 1 .. n - 1 : main'[i] = main[i]
    BY <2>2, <1>4, PopShrinks, Zenon DEF Agrees
  <2>4. main[n] \in Blocks
    <3>1. WellFormed(main, verdict) /\ n \in 2 .. Len(main)
      BY <2>0, <2>2, <1>2 DEF Switching
    <3> QED
      BY <3>1, ChainBlock, Zenon
  <2>5. d \in Seq(Blocks) /\ Len(d) = Len(job.disconnected_chain) + 1
        /\ Apart(job.origin, d, main', Len(main'))
    <3>1. Apart(job.origin, job.disconnected_chain, main, n)
      BY <1>1, <1>3, Zenon DEF Parts, Split
    <3>2. main' \in Seq(Nodes) /\ Agrees(main', main, n - 1)
      BY <2>2, <1>4, PopShrinks, Zenon
    <3> QED
      BY <1>2, <2>2, <2>3, <2>4, <3>1, <3>2, ApartPop, Zenon DEF Switching
  <2>6. job' = [job EXCEPT !.disconnected_chain = d]
    BY <1>4, Zenon DEF get_tail_id
  <2> HIDE DEF d
  <2>7. /\ job' \in JobType /\ job'.disconnected_chain = d
        /\ job'.stage = job.stage /\ job'.alt_chain = job.alt_chain /\ job'.origin = job.origin
        /\ job'.at = job.at /\ job'.again = job.again
    BY <2>0, <2>5, <2>6, Zenon DEF JobType
  <2>8. Purpose(job', alt', verdict)
    BY <1>1, <1>3, <2>7, Zenon DEF Purpose
  <2>9. Parts(job', main')
    BY <1>1, <1>2, <1>3, <2>5, <2>7 DEF Parts, Split, Switching
  <2>10. Progress(job', main')
    BY <1>1, <1>3, <2>0, <2>1, <2>2, <2>3, <2>7 DEF Progress
  <2>11. alt' \cap Elements(job'.origin) = Pushed(job')
    BY <1>1, <1>3, <2>7 DEF Pushed
  <2> QED
    BY <1>1, <1>2, <2>3, <2>7, <2>8, <2>9, <2>10, <2>11, SwitchGoesOn, Zenon DEF Switching
<1>5. CASE get_tail_id = parent[job.alt_chain[1]] /\ UNCHANGED main
           /\ job' = [job EXCEPT !.stage = "connect", !.split_height = Len(main)]
  <2>0. job \in JobType /\ "connect" \in Stages /\ Len(main) \in Nat
    BY <1>2, Zenon DEF Switching, Stages
  <2>7. /\ job' \in JobType /\ job'.disconnected_chain = job.disconnected_chain
        /\ job'.stage = "connect" /\ job'.alt_chain = job.alt_chain /\ job'.origin = job.origin
        /\ job'.at = job.at /\ job'.again = job.again /\ job'.split_height = Len(main)
    BY <2>0, <1>5, Zenon DEF JobType
  <2>8. Purpose(job', alt', verdict)
    BY <1>1, <1>3, <2>7, Zenon DEF Purpose
  <2>9. Parts(job', main')
    BY <1>1, <1>3, <1>5, <2>7, Zenon DEF Parts, Split
  <2>10. Progress(job', main')
    <3>1. job.at = 1 /\ job.again = 1
      BY <1>1, <1>3, Zenon DEF Progress, Parts
    <3> QED
      BY <1>5, <2>0, <2>7, <3>1 DEF Progress, Reached
  <2>11. alt' \cap Elements(job'.origin) = Pushed(job')
    BY <1>1, <1>3, <2>7 DEF Pushed, Parts
  <2> QED
    BY <1>1, <1>2, <1>5, <2>7, <2>8, <2>9, <2>10, <2>11, SwitchGoesOn, Zenon DEF Switching
<1> QED
  BY <1>4, <1>5, Zenon DEF Disconnect

LEMMA ConnectNextKeeps == ASSUME IInv, ConnectNext PROVE IInv'
<1> DEFINE b == job.alt_chain[job.at]
<1>1. job.stage = "connect" /\ verdict' = verdict /\ alt' = alt /\ job.at <= Len(job.alt_chain)
  BY Zenon DEF ConnectNext
<1>2. Switching
  BY <1>1, InSwitch, Zenon
<1>3. /\ Purpose(job, alt, verdict) /\ Parts(job, main) /\ Progress(job, main)
      /\ alt \cap Elements(job.origin) = Pushed(job)
  BY <1>2, Zenon DEF Switching, SwitchInv
<1>4. /\ job \in JobType /\ job.again = 1 /\ job.at \in 1 .. Len(job.alt_chain) /\ b \in Blocks
      /\ Len(main) = job.split_height + job.at - 1 /\ Split(job, main) = job.split_height
  BY <1>1, <1>2, <1>3 DEF Switching, Purpose, Progress, Split, Reached
<1>5. Pushed(job) = {}
  BY <1>4 DEF Pushed
<1>6. CASE Connects(b, {}) /\ Connect(b) /\ job' = [job EXCEPT !.at = @ + 1]
  <2>1. main' = Append(main, b) /\ WellFormed(main', verdict)
    BY <1>4, <1>6, ConnectGrows, Zenon
  <2>2. /\ main' \in Seq(Nodes) /\ Len(main') = Len(main) + 1 /\ main'[Len(main) + 1] = b
        /\ \A i \in 1 .. Len(main) : main'[i] = main[i]
    BY <1>2, <1>4, <2>1, Appended DEF Switching, Nodes, Agrees
  <2>3. /\ job' \in JobType /\ job'.disconnected_chain = job.disconnected_chain
        /\ job'.stage = "connect" /\ job'.alt_chain = job.alt_chain /\ job'.origin = job.origin
        /\ job'.at = job.at + 1 /\ job'.again = 1 /\ job'.split_height = job.split_height
    <3>1. job.at + 1 \in Nat
      BY <1>2 DEF Switching
    <3> QED
      BY <1>1, <1>4, <1>6, <3>1, Zenon DEF JobType
  <2>4. Purpose(job', alt', verdict)
    <3>1. job.at + 1 \in 1 .. Len(job.alt_chain) + 1
      BY <1>2, <1>4, SMTT(30) DEF Switching
    <3> QED
      BY <1>1, <1>3, <2>3, <3>1, Zenon DEF Purpose
  <2>5. Parts(job', main')
    <3>1. Apart(job.origin, job.disconnected_chain, main, job.split_height)
      BY <1>3, <1>4, Zenon DEF Parts
    <3>2. Agrees(main', main, job.split_height) /\ job.split_height <= Len(main')
      BY <1>2, <1>4, <2>2, SMTT(30) DEF Agrees, Switching
    <3>3. Apart(job.origin, job.disconnected_chain, main', job.split_height)
      BY <3>1, <3>2, ApartSame, Zenon
    <3> QED
      BY <1>2, <1>3, <1>4, <2>3, <3>3, Zenon DEF Parts, Split, Switching
  <2>6. Progress(job', main')
    <3>1. Reached(main, job.alt_chain, job.split_height, job.at)
      BY <1>1, <1>3, Zenon DEF Progress
    <3>2. main \in Seq(Nodes) /\ b \in Nodes /\ job.split_height \in Nat /\ job.at \in Nat \ {0}
      BY <1>2, <1>4 DEF Switching, Nodes
    <3>3. Reached(main', job.alt_chain, job.split_height, job.at + 1)
      BY <2>1, <3>1, <3>2, NextConnected, Zenon
    <3> QED
      BY <2>3, <3>3, Zenon DEF Progress
  <2>7. alt' \cap Elements(job'.origin) = Pushed(job')
    BY <1>1, <1>3, <1>5, <2>3 DEF Pushed
  <2> QED
    BY <1>1, <1>2, <2>1, <2>3, <2>4, <2>5, <2>6, <2>7, SwitchGoesOn, Zenon DEF Switching
<1>7. CASE Refuse(b, {}) /\ job' = [job EXCEPT !.stage = "rollback"]
  <2>1. main' = main
    BY <1>7, Zenon DEF Refuse
  <2>3. /\ job' \in JobType /\ job'.disconnected_chain = job.disconnected_chain
        /\ job'.stage = "rollback" /\ job'.alt_chain = job.alt_chain /\ job'.origin = job.origin
        /\ job'.at = job.at /\ job'.again = 1 /\ job'.split_height = job.split_height
    BY <1>4, <1>7, Zenon DEF JobType, Stages
  <2>4. Purpose(job', alt', verdict)
    BY <1>1, <1>3, <2>3, Zenon DEF Purpose
  <2>5. Parts(job', main')
    BY <1>2, <1>3, <1>4, <2>1, <2>3, Zenon DEF Parts, Split, Switching
  <2>6. Progress(job', main')
    BY <2>3, Zenon DEF Progress
  <2>7. alt' \cap Elements(job'.origin) = Pushed(job')
    BY <1>1, <1>3, <1>5, <2>3 DEF Pushed
  <2> QED
    BY <1>1, <1>2, <2>1, <2>3, <2>4, <2>5, <2>6, <2>7, SwitchGoesOn, Zenon DEF Switching
<1> QED
  BY <1>6, <1>7, Zenon DEF ConnectNext

LEMMA RollbackPopKeeps == ASSUME IInv, RollbackPop PROVE IInv'
<1>1. job.stage = "rollback" /\ verdict' = verdict /\ alt' = alt
  BY Zenon DEF RollbackPop
<1>2. Switching
  BY <1>1, InSwitch, Zenon
<1>3. /\ Purpose(job, alt, verdict) /\ Parts(job, main) /\ Progress(job, main)
      /\ alt \cap Elements(job.origin) = Pushed(job) /\ Pushed(job) = {}
  BY <1>1, <1>2 DEF Switching, SwitchInv, Pushed
<1>4. /\ job \in JobType /\ job.again = 1 /\ Split(job, main) = job.split_height
      /\ Apart(job.origin, job.disconnected_chain, main, job.split_height)
      /\ job.split_height >= 1 /\ job.split_height <= Len(main)
  BY <1>1, <1>2, <1>3 DEF Switching, Parts, Split, Apart
<1>5. CASE Len(main) # job.split_height /\ Pop /\ UNCHANGED job
  <2>1. Len(main) >= 2 /\ job.split_height <= Len(main) - 1
    BY <1>2, <1>4, <1>5 DEF Switching
  <2>2. WellFormed(main', verdict) /\ Len(main') = Len(main) - 1 /\ Agrees(main', main, Len(main) - 1)
    BY <1>5, <2>1, PopShrinks, Zenon
  <2>3. Agrees(main', main, job.split_height)
    <3>1. Len(main) - 1 \in Nat /\ job.split_height \in Nat
      BY <1>2, <2>1 DEF Switching
    <3> QED
      BY <2>1, <2>2, <3>1, AgreesLess, Zenon
  <2>4. Parts(job', main')
    <3>1. Apart(job.origin, job.disconnected_chain, main', job.split_height)
      BY <1>4, <2>1, <2>2, <2>3, ApartSame, Zenon
    <3> QED
      BY <1>1, <1>3, <1>5, <3>1, Zenon DEF Parts, Split
  <2>5. Progress(job', main')
    BY <1>1, <1>5, Zenon DEF Progress
  <2> QED
    BY <1>1, <1>2, <1>3, <1>5, <2>2, <2>4, <2>5, SwitchGoesOn, Zenon DEF Switching
<1>6. CASE Len(main) = job.split_height /\ job' = [job EXCEPT !.stage = "restore"] /\ UNCHANGED main
  <2>1. /\ job' \in JobType /\ job'.disconnected_chain = job.disconnected_chain
        /\ job'.stage = "restore" /\ job'.alt_chain = job.alt_chain /\ job'.origin = job.origin
        /\ job'.at = job.at /\ job'.again = 1 /\ job'.split_height = job.split_height
    BY <1>4, <1>6, Zenon DEF JobType, Stages
  <2>2. Purpose(job', alt', verdict)
    BY <1>1, <1>3, <2>1, Zenon DEF Purpose
  <2>3. Parts(job', main')
    BY <1>1, <1>2, <1>3, <1>4, <1>6, <2>1, Zenon DEF Parts, Split, Switching
  <2>4. Progress(job', main')
    <3>1. Reached(main, job.disconnected_chain, job.split_height, 1)
      BY <1>2, <1>6 DEF Reached, Switching
    <3> QED
      BY <1>6, <2>1, <3>1, Zenon DEF Progress
  <2>5. alt' \cap Elements(job'.origin) = Pushed(job')
    BY <1>1, <1>3, <2>1 DEF Pushed
  <2> QED
    BY <1>1, <1>2, <1>6, <2>1, <2>2, <2>3, <2>4, <2>5, SwitchGoesOn, Zenon DEF Switching
<1> QED
  BY <1>5, <1>6, Zenon DEF RollbackPop

LEMMA RestoreNextKeeps == ASSUME IInv, RestoreNext PROVE IInv'
<1> DEFINE b == job.disconnected_chain[job.again]
<1>1. job.stage = "restore" /\ verdict' = verdict /\ alt' = alt /\ job.again <= Len(job.disconnected_chain)
  BY Zenon DEF RestoreNext
<1>2. Switching
  BY <1>1, InSwitch, Zenon
<1>3. /\ Purpose(job, alt, verdict) /\ Parts(job, main) /\ Progress(job, main)
      /\ alt \cap Elements(job.origin) = Pushed(job) /\ Pushed(job) = {}
  BY <1>1, <1>2 DEF Switching, SwitchInv, Pushed
<1>4. /\ job \in JobType /\ job.again \in 1 .. Len(job.disconnected_chain) /\ b \in Blocks
      /\ Split(job, main) = job.split_height
      /\ Reached(main, job.disconnected_chain, job.split_height, job.again)
      /\ Apart(job.origin, job.disconnected_chain, main, job.split_height)
  BY <1>1, <1>2, <1>3 DEF Switching, Parts, Progress, Split
<1>5. CASE Connects(b, {}) /\ Connect(b) /\ job' = [job EXCEPT !.again = @ + 1]
  <2>1. main' = Append(main, b) /\ WellFormed(main', verdict)
    BY <1>4, <1>5, ConnectGrows, Zenon
  <2>2. Len(main') = Len(main) + 1 /\ Agrees(main', main, Len(main))
    BY <1>2, <1>4, <2>1, Appended DEF Switching, Nodes
  <2>3. /\ job' \in JobType /\ job'.disconnected_chain = job.disconnected_chain
        /\ job'.stage = "restore" /\ job'.alt_chain = job.alt_chain /\ job'.origin = job.origin
        /\ job'.at = job.at /\ job'.again = job.again + 1 /\ job'.split_height = job.split_height
    <3>1. job.again + 1 \in Nat
      BY <1>2 DEF Switching
    <3> QED
      BY <1>1, <1>4, <1>5, <3>1, Zenon DEF JobType
  <2>4. Purpose(job', alt', verdict)
    BY <1>1, <1>3, <2>3, Zenon DEF Purpose
  <2>5. Parts(job', main')
    <3>1. /\ Len(main) \in Nat /\ job.split_height \in Nat /\ job.split_height <= Len(main)
          /\ job.split_height <= Len(main')
      BY <1>2, <1>4, <2>2 DEF Switching, Apart
    <3>2. Apart(job.origin, job.disconnected_chain, main', job.split_height)
      BY <1>4, <2>2, <3>1, AgreesLess, ApartSame, Zenon
    <3>3. job.again + 1 \in 1 .. Len(job.disconnected_chain) + 1
      BY <1>2, <1>4, SMTT(30) DEF Switching
    <3> QED
      BY <2>3, <3>2, <3>3, Zenon DEF Parts, Split
  <2>6. Progress(job', main')
    <3>1. main \in Seq(Nodes) /\ b \in Nodes /\ job.split_height \in Nat /\ job.again \in Nat \ {0}
      BY <1>2, <1>4 DEF Switching, Nodes
    <3>2. Reached(main', job.disconnected_chain, job.split_height, job.again + 1)
      BY <1>4, <2>1, <3>1, NextConnected, Zenon
    <3> QED
      BY <2>3, <3>2, Zenon DEF Progress
  <2>7. alt' \cap Elements(job'.origin) = Pushed(job')
    BY <1>1, <1>3, <2>3 DEF Pushed
  <2> QED
    BY <1>1, <1>2, <2>1, <2>3, <2>4, <2>5, <2>6, <2>7, SwitchGoesOn, Zenon DEF Switching
<1>6. CASE Refuse(b, {}) /\ job' = [job EXCEPT !.stage = "orphan"]
  <2>1. main' = main
    BY <1>6, Zenon DEF Refuse
  <2>3. /\ job' \in JobType /\ job'.disconnected_chain = job.disconnected_chain
        /\ job'.stage = "orphan" /\ job'.alt_chain = job.alt_chain /\ job'.origin = job.origin
        /\ job'.at = job.at /\ job'.again = job.again /\ job'.split_height = job.split_height
    BY <1>4, <1>6, Zenon DEF JobType, Stages
  <2>4. Purpose(job', alt', verdict)
    BY <1>1, <1>3, <2>3, Zenon DEF Purpose
  <2>5. Parts(job', main')
    BY <1>3, <1>4, <2>1, <2>3, Zenon DEF Parts, Split
  <2>6. Progress(job', main')
    BY <1>4, <2>1, <2>3, Zenon DEF Progress
  <2>7. alt' \cap Elements(job'.origin) = Pushed(job')
    BY <1>1, <1>3, <2>3, ZenonT(30) DEF Pushed
  <2> QED
    BY <1>1, <1>2, <2>1, <2>3, <2>4, <2>5, <2>6, <2>7, SwitchGoesOn, Zenon DEF Switching
<1> QED
  BY <1>5, <1>6, Zenon DEF RestoreNext

\* The main chain while the old blocks are connected again.
LEMMA RestoredPrefix ==
  ASSUME IInv, job.stage \in {"restore", "orphan"}
  PROVE  /\ Agrees(main, job.origin, Len(main))
         /\ Len(main) = job.split_height + job.again - 1
         /\ Len(job.origin) = job.split_height + Len(job.disconnected_chain)
<1>1. Switching
  BY InSwitch, Zenon
<1>2. /\ Apart(job.origin, job.disconnected_chain, main, job.split_height)
      /\ Reached(main, job.disconnected_chain, job.split_height, job.again)
      /\ job.again \in 1 .. Len(job.disconnected_chain) + 1
  BY <1>1, Zenon DEF Switching, SwitchInv, Parts, Split, Progress
<1>3. /\ job.origin \in Seq(Nodes) /\ job.disconnected_chain \in Seq(Blocks) /\ main \in Seq(Nodes)
      /\ job.split_height \in Nat
  BY <1>1, Zenon DEF Switching
<1>4. Agrees(main, job.origin, Len(main))
  BY <1>2, <1>3, RestoredAgrees, Zenon
<1>5. Len(main) = job.split_height + job.again - 1
  BY <1>2, Zenon DEF Reached
<1>6. Len(job.origin) = job.split_height + Len(job.disconnected_chain)
  BY <1>2, <1>3, RestoredAgrees, ZenonT(30)
<1> QED
  BY <1>4, <1>5, <1>6, Zenon

LEMMA OrphanAltChainKeeps == ASSUME IInv, OrphanAltChain PROVE IInv'
<1>1. /\ job.stage \in {"restore", "orphan"} /\ verdict' = verdict /\ main' = main /\ job' = Idle
      /\ alt' \subseteq alt
  BY Zenon DEF OrphanAltChain
<1>2. Switching
  BY <1>1, InSwitch, Zenon
<1>3. alt \cap Elements(job.origin) = {}
  BY <1>1, <1>2 DEF Switching, SwitchInv, Pushed
<1>4. Elements(main) \subseteq Elements(job.origin)
  <2>1. \A i \in 1 .. Len(main) : main[i] = job.origin[i] /\ i \in 1 .. Len(job.origin)
    <3>1. job.again \in 1 .. Len(job.disconnected_chain) + 1
      BY <1>1, <1>2, Zenon DEF Switching, SwitchInv, Parts
    <3>2. Len(main) <= Len(job.origin)
      <4>1. job.split_height \in Nat /\ job.again \in Nat /\ Len(job.disconnected_chain) \in Nat
        BY <1>2, Zenon DEF Switching
      <4>2. /\ Len(main) = job.split_height + job.again - 1
            /\ Len(job.origin) = job.split_height + Len(job.disconnected_chain)
        BY <1>1, RestoredPrefix, Zenon
      <4> QED
        BY <3>1, <4>1, <4>2
    <3>3. Agrees(main, job.origin, Len(main)) /\ Len(main) \in Nat /\ Len(job.origin) \in Nat
      BY <1>1, <1>2, RestoredPrefix, Zenon DEF Switching
    <3> QED
      BY <3>2, <3>3 DEF Agrees
  <2> QED
    BY <2>1, <1>2, ElementsOf DEF Switching
<1>5. alt' \subseteq Blocks /\ alt' \cap Elements(main) = {} /\ WellFormed(main, verdict)
  BY <1>1, <1>2, <1>3, <1>4, Zenon DEF Switching
<1> QED
  BY <1>1, <1>5, IdleType, Zenon DEF IInv

\* The old blocks: they follow the split, each on the one before it.
LEMMA OldBlocks ==
  ASSUME IInv, job.stage \notin {"idle", "disconnect"}
  PROVE  /\ job.split_height \in 1 .. Len(main) /\ Len(job.origin) = job.split_height + Len(job.disconnected_chain)
         /\ main[job.split_height] = job.origin[job.split_height]
         /\ \A k \in 1 .. Len(job.disconnected_chain) :
              /\ job.disconnected_chain[k] = job.origin[job.split_height + k]
              /\ job.disconnected_chain[k] \in Blocks
              /\ verdict[job.disconnected_chain[k]] = "ok"
              /\ height[job.disconnected_chain[k]] = job.split_height + k - 1
              /\ parent[job.disconnected_chain[k]] = IF k = 1 THEN main[job.split_height]
                                                             ELSE job.disconnected_chain[k - 1]
<1> DEFINE o == job.origin
           d == job.disconnected_chain
           n == job.split_height
<1>1. Switching
  BY InSwitch, Zenon
<1>2. Apart(o, d, main, n)
  BY <1>1, Zenon DEF Switching, SwitchInv, Parts, Split
<1>3. WellFormed(o, verdict) /\ Len(o) \in Nat /\ Len(d) \in Nat /\ Len(main) \in Nat /\ n \in Nat
  BY <1>1, Zenon DEF Switching
<1> HIDE DEF o, d, n
<1>4. n \in 1 .. Len(main) /\ Len(o) = n + Len(d) /\ main[n] = o[n] /\ n \in 1 .. Len(o)
  BY <1>2, <1>3 DEF Apart, Agrees
<1>5. ASSUME NEW k \in 1 .. Len(d)
      PROVE  /\ d[k] = o[n + k] /\ d[k] \in Blocks /\ verdict[d[k]] = "ok" /\ height[d[k]] = n + k - 1
             /\ parent[d[k]] = IF k = 1 THEN main[n] ELSE d[k - 1]
  <2>1. d[k] = o[n + k] /\ (k # 1 => k - 1 \in 1 .. Len(d) /\ d[k - 1] = o[n + (k - 1)])
    BY <1>2, <1>3 DEF Apart
  <2>2. n + k \in 2 .. Len(o) /\ n + k \in 1 .. Len(o) /\ (k = 1 => n + k - 1 = n) /\ n + (k - 1) = n + k - 1
    BY <1>3, <1>4
  <2>3. o[n + k] \in Blocks /\ parent[o[n + k]] = o[n + k - 1] /\ verdict[o[n + k]] = "ok"
    BY <1>3, <2>2, ChainBlock
  <2>4. height[o[n + k]] = n + k - 1
    BY <1>3, <2>2 DEF WellFormed
  <2> QED
    BY <1>4, <2>1, <2>2, <2>3, <2>4, Zenon
<1> QED
  BY <1>4, <1>5, Zenon DEF o, d, n

\* handle_alternative_block takes each of the old blocks when everything is connected: its parent is
\* the block at the split or was taken before.
LEMMA PushAccepted ==
  ASSUME IInv, job.stage = "connect", job.at > Len(job.alt_chain), job.again <= Len(job.disconnected_chain)
  PROVE  AltAccepts(job.disconnected_chain[job.again], {})
<1> DEFINE d == job.disconnected_chain
           n == job.split_height
           k == job.again
           b == d[k]
<1>1. Switching
  BY InSwitch, Zenon
<1>2. /\ alt \cap Elements(job.origin) = { d[i] : i \in 1 .. k - 1 }
      /\ alt \subseteq Blocks /\ k \in 1 .. Len(d) /\ Len(d) \in Nat /\ n \in Nat /\ Len(main) \in Nat
  BY <1>1 DEF Switching, SwitchInv, Pushed, Parts
<1>3. Len(main) > n
  <2>1. Len(main) = n + job.at - 1
    BY <1>1, Zenon DEF Switching, SwitchInv, Progress, Reached
  <2>2. Len(job.alt_chain) >= 1 /\ Len(job.alt_chain) \in Nat /\ job.at \in Nat
    BY <1>1, Zenon DEF Switching, SwitchInv, Purpose
  <2> QED
    BY <1>2, <2>1, <2>2
<1>4. /\ n \in 1 .. Len(main) /\ main[n] = job.origin[n] /\ Len(job.origin) = n + Len(d)
      /\ \A i \in 1 .. Len(d) : /\ d[i] = job.origin[n + i] /\ d[i] \in Blocks /\ verdict[d[i]] = "ok"
                                /\ height[d[i]] = n + i - 1
                                /\ parent[d[i]] = IF i = 1 THEN main[n] ELSE d[i - 1]
  BY OldBlocks, Zenon
<1>5. \A i \in 1 .. Len(job.origin), l \in 1 .. Len(job.origin) : job.origin[i] = job.origin[l] => i = l
  <2>1. WellFormed(job.origin, verdict)
    BY <1>1, Zenon DEF Switching
  <2> QED
    BY <2>1, BlocksDiffer, Zenon
<1>6. /\ \A x : x \in Elements(job.origin) <=> \E i \in 1 .. Len(job.origin) : x = job.origin[i]
      /\ \A x : x \in Elements(main) <=> \E i \in 1 .. Len(main) : x = main[i]
      /\ main[n] \in Nodes
  BY <1>1, <1>4, ElementsOf, ZenonT(30) DEF Switching
<1> HIDE DEF d, n, k
<1>6a. k \in 1 .. Len(d) /\ Len(d) \in Nat /\ n \in Nat /\ Len(job.origin) = n + Len(d)
  BY <1>2, <1>4, Zenon
<1>7. b \notin alt
  <2>1. b \in Elements(job.origin)
    <3>1. n + k \in 1 .. Len(job.origin)
      BY <1>6a
    <3> QED
      BY <1>2, <1>4, <1>6, <3>1, Zenon
  <2>2. ASSUME NEW i \in 1 .. k - 1, b = d[i] PROVE FALSE
    <3>1. n + k \in 1 .. Len(job.origin) /\ n + i \in 1 .. Len(job.origin) /\ n + i # n + k
      BY <1>6a
    <3>2. i \in 1 .. Len(d) /\ k \in 1 .. Len(d)
      BY <1>2
    <3>3. job.origin[n + i] = job.origin[n + k]
      BY <1>4, <2>2, <3>2, Zenon
    <3> QED
      BY <1>5, <3>1, <3>3, Zenon
  <2> QED
    BY <1>2, <2>1, <2>2, Zenon
<1>8. main[n] \notin alt
  <2>1. n \in 1 .. Len(job.origin)
    BY <1>2, <1>4
  <2>2. ASSUME NEW i \in 1 .. k - 1, main[n] = d[i] PROVE FALSE
    <3>1. n + i \in 1 .. Len(job.origin) /\ n + i # n /\ i \in 1 .. Len(d)
      BY <1>2, <1>4
    <3>2. job.origin[n + i] = job.origin[n]
      BY <1>4, <2>2, <3>1, Zenon
    <3> QED
      BY <1>5, <2>1, <3>1, <3>2, Zenon
  <2>3. main[n] \in Elements(job.origin)
    BY <1>4, <1>6, <2>1, Zenon
  <2> QED
    BY <1>2, <2>2, <2>3, Zenon
<1>9. \A i \in 1 .. k - 1 : d[i] \in alt
  BY <1>2, Zenon
<1>10. \A i \in 1 .. k - 1 : AltAncestors[d[i]] # <<>> /\ AltAncestors[d[i]][1] = d[1]
  <2> DEFINE Bad == { x \in Blocks : \E i \in 1 .. k - 1 :
                         x = d[i] /\ ~ (AltAncestors[d[i]] # <<>> /\ AltAncestors[d[i]][1] = d[1]) }
  <2> SUFFICES Bad = {}
    BY <1>2, <1>4, Zenon
  <2> SUFFICES ASSUME Bad # {} PROVE FALSE
    BY Zenon
  <2>1. PICK x \in Bad : parent[x] \notin Bad
    BY TreeAssumption, Zenon
  <2>2. PICK i \in 1 .. k - 1 : x = d[i] /\ ~ (AltAncestors[d[i]] # <<>> /\ AltAncestors[d[i]][1] = d[1])
    BY <2>1, Zenon
  <2>3. /\ x \in alt /\ parent[x] \in Nodes /\ AltAncestors[x] = Append(AltAncestors[parent[x]], x)
        /\ AltAncestors[parent[x]] \in Seq(alt)
    BY <1>2, <1>9, <2>2, AltChain, BlockAssumption, Zenon DEF Nodes
  <2>4. CASE i = 1
    <3>0. i \in 1 .. Len(d)
      BY <1>2, <2>4
    <3>1. parent[x] = main[n]
      BY <1>4, <2>2, <2>4, <3>0, Zenon
    <3>2. AltAncestors[parent[x]] = <<>>
      BY <1>2, <1>6, <1>8, <3>1, AltChain, Zenon
    <3>3. AltAncestors[x] # <<>> /\ AltAncestors[x][1] = x
      BY <2>3, <3>2
    <3> QED
      BY <2>2, <2>4, <3>3, Zenon
  <2>5. CASE i # 1
    <3>0. i \in 1 .. Len(d) /\ i - 1 \in 1 .. Len(d) /\ i - 1 \in 1 .. k - 1
      BY <1>2, <2>5
    <3>1. parent[x] = d[i - 1] /\ d[i - 1] \in Blocks
      BY <1>4, <2>2, <2>5, <3>0, Zenon
    <3>2. AltAncestors[parent[x]] # <<>> /\ AltAncestors[parent[x]][1] = d[1]
      BY <2>1, <3>0, <3>1, Zenon
    <3> DEFINE s == AltAncestors[parent[x]]
    <3>3. s \in Seq(alt) /\ s # <<>> /\ s[1] = d[1] /\ AltAncestors[x] = Append(s, x)
      BY <2>3, <3>2, Zenon
    <3> HIDE DEF s
    <3>4. x \in alt /\ s \in Seq(alt) /\ Len(s) \in Nat /\ Len(s) >= 1
      BY <3>3, <2>3, EmptySeq
    <3>5. Append(s, x)[1] = s[1] /\ Len(Append(s, x)) = Len(s) + 1
      BY <3>4
    <3>6. Append(s, x) # <<>>
      BY <3>4, <3>5
    <3> QED
      BY <2>2, <3>3, <3>5, <3>6, Zenon
  <2> QED
    BY <2>4, <2>5, Zenon
<1>11. CASE k = 1
  <2>1. parent[b] = main[n] /\ verdict[b] = "ok"
    BY <1>2, <1>4, <1>11, Zenon
  <2>2. AltAncestors[parent[b]] = <<>> /\ parent[b] \in Elements(main)
    BY <1>2, <1>4, <1>6, <1>8, <2>1, AltChain, Zenon
  <2> QED
    BY <1>7, <2>1, <2>2, Zenon DEF AltAccepts, d, k
<1>12. CASE k # 1
  <2>0. k \in 1 .. Len(d) /\ k - 1 \in 1 .. k - 1 /\ 1 \in 1 .. Len(d)
    BY <1>2, <1>12
  <2>1. parent[b] = d[k - 1] /\ verdict[b] = "ok"
    BY <1>4, <1>12, <2>0, Zenon
  <2>2. AltAncestors[parent[b]] # <<>> /\ AltAncestors[parent[b]][1] = d[1] /\ parent[b] \in alt
    BY <1>9, <1>10, <2>0, <2>1, Zenon
  <2>3. height[d[1]] = n /\ parent[d[1]] = main[n]
    <3>1. 1 \in 1 .. Len(d) /\ n + 1 - 1 = n
      BY <1>6a
    <3> QED
      BY <1>4, <3>1, Zenon
  <2>4. Len(main) > height[AltAncestors[parent[b]][1]] /\ parent[AltAncestors[parent[b]][1]] \in Elements(main)
    BY <1>3, <1>4, <1>6, <2>2, <2>3
  <2> QED
    BY <1>7, <2>1, <2>2, <2>4, Zenon DEF AltAccepts, d, k
<1> QED
  BY <1>11, <1>12, Zenon

LEMMA PushNextKeeps == ASSUME IInv, PushNext PROVE IInv'
<1> DEFINE b == job.disconnected_chain[job.again]
<1>1. /\ job.stage = "connect" /\ verdict' = verdict /\ main' = main
      /\ job.at > Len(job.alt_chain) /\ job.again <= Len(job.disconnected_chain)
      /\ alt' = (IF AltAccepts(b, {}) THEN alt \cup {b} ELSE alt)
      /\ job' = [job EXCEPT !.again = @ + 1]
  BY Zenon DEF PushNext
<1>2. Switching
  BY <1>1, InSwitch, Zenon
<1>3. alt' = alt \cup {b}
  BY <1>1, PushAccepted, Zenon
<1>4. /\ job' \in JobType /\ job'.disconnected_chain = job.disconnected_chain
      /\ job'.stage = "connect" /\ job'.alt_chain = job.alt_chain /\ job'.origin = job.origin
      /\ job'.at = job.at /\ job'.again = job.again + 1 /\ job'.split_height = job.split_height
  <2>1. job.again + 1 \in Nat /\ job \in JobType
    BY <1>2 DEF Switching
  <2> QED
    BY <1>1, <2>1, ZenonT(30) DEF JobType
<1>5. /\ Purpose(job, alt, verdict) /\ Parts(job, main) /\ Progress(job, main)
      /\ alt \cap Elements(job.origin) = Pushed(job) /\ alt \subseteq Blocks
  BY <1>2, Zenon DEF Switching, SwitchInv
<1>6. /\ job.again \in 1 .. Len(job.disconnected_chain) /\ Len(job.disconnected_chain) \in Nat
      /\ job.at \in Nat /\ Len(job.alt_chain) \in Nat
  BY <1>1, <1>2, <1>5 DEF Parts, Switching
<1>7. b \in Blocks /\ b \in Elements(job.origin)
  <2>1. b = job.origin[job.split_height + job.again] /\ b \in Blocks
        /\ Len(job.origin) = job.split_height + Len(job.disconnected_chain)
    BY <1>1, <1>6, OldBlocks, Zenon
  <2>2. job.split_height + job.again \in 1 .. Len(job.origin)
    <3>1. job.split_height \in Nat
      BY <1>2, Zenon DEF Switching
    <3> QED
      BY <3>1, <2>1, <1>6
  <2>3. job.origin \in Seq(Nodes)
    BY <1>2, Zenon DEF Switching
  <2> QED
    BY <2>1, <2>2, <2>3, ElementsOf, Zenon
<1>8. Purpose(job', alt', verdict)
  BY <1>1, <1>3, <1>4, <1>5, Zenon DEF Purpose
<1>9. Parts(job', main')
  <2>1. job.again + 1 \in 1 .. Len(job.disconnected_chain) + 1
    BY <1>6
  <2> QED
    BY <1>1, <1>4, <1>5, <2>1, Zenon DEF Parts, Split
<1>10. Progress(job', main')
  <2>1. ~ (job.at <= Len(job.alt_chain))
    BY <1>1, <1>6
  <2> QED
    BY <1>1, <1>4, <1>5, <2>1, Zenon DEF Progress
<1>11. alt' \cap Elements(job'.origin) = Pushed(job')
  <2>1. Pushed(job') = Pushed(job) \cup {b}
    <3> DEFINE d == job.disconnected_chain
    <3>1. \A x : x \in Pushed(job') <=> \E k \in 1 .. job'.again - 1 : x = job'.disconnected_chain[k]
      BY <1>4, Zenon DEF Pushed
    <3>2. \A x : x \in Pushed(job) <=> \E k \in 1 .. job.again - 1 : x = d[k]
      BY <1>1, Zenon DEF Pushed
    <3>3. job'.again - 1 = job.again /\ 1 .. job.again = (1 .. job.again - 1) \cup {job.again}
      BY <1>4, <1>6
    <3>4. \A x : x \in Pushed(job') <=> \E k \in 1 .. job.again : x = d[k]
      BY <1>4, <3>1, <3>3
    <3> QED
      BY <3>2, <3>3, <3>4
  <2> QED
    BY <1>3, <1>4, <1>5, <1>7, <2>1, Zenon
<1>12. alt' \subseteq Blocks /\ WellFormed(main', verdict)
  BY <1>1, <1>2, <1>3, <1>7, Zenon DEF Switching
<1> QED
  BY <1>1, <1>4, <1>8, <1>9, <1>10, <1>11, <1>12, SwitchGoesOn, Zenon

\* When everything is connected: the main chain is the old one up to the split, then alt_chain.
LEMMA AllConnected ==
  ASSUME IInv, job.stage = "connect", job.at > Len(job.alt_chain)
  PROVE  /\ Len(main) = job.split_height + Len(job.alt_chain)
         /\ Agrees(main, job.origin, job.split_height)
         /\ \A i \in 1 .. Len(job.alt_chain) : main[job.split_height + i] = job.alt_chain[i]
<1>1. Switching
  BY InSwitch, Zenon
<1>2. job.at \in 1 .. Len(job.alt_chain) + 1 /\ Reached(main, job.alt_chain, job.split_height, job.at)
  BY <1>1, Zenon DEF Switching, SwitchInv, Purpose, Progress
<1>3. Len(job.alt_chain) \in Nat /\ job.split_height \in Nat
  BY <1>1, Zenon DEF Switching
<1>4. job.at = Len(job.alt_chain) + 1
  BY <1>2, <1>3
<1>5. Agrees(main, job.origin, job.split_height)
  BY <1>1, Zenon DEF Switching, SwitchInv, Parts, Apart, Split
<1> QED
  BY <1>2, <1>3, <1>4, <1>5 DEF Reached

LEMMA SwitchDoneKeeps == ASSUME IInv, SwitchDone PROVE IInv'
<1>1. /\ job.stage = "connect" /\ verdict' = verdict /\ main' = main /\ job' = Idle
      /\ job.at > Len(job.alt_chain) /\ alt' = alt \ Elements(job.alt_chain)
  BY Zenon DEF SwitchDone
<1>2. Switching
  BY <1>1, InSwitch, Zenon
<1> DEFINE n == job.split_height
           a == job.alt_chain
           o == job.origin
           d == job.disconnected_chain
<1>3. /\ Len(main) = n + Len(a) /\ Agrees(main, o, n) /\ \A i \in 1 .. Len(a) : main[n + i] = a[i]
      /\ n \in Nat /\ Len(a) \in Nat /\ Len(main) \in Nat /\ Len(d) \in Nat /\ Len(o) \in Nat
  BY <1>1, <1>2, AllConnected, Zenon DEF Switching
<1>4. alt \cap Elements(o) = Pushed(job) /\ Pushed(job) \subseteq { d[k] : k \in 1 .. Len(d) }
  <2>1. job.again \in 1 .. Len(d) + 1
    BY <1>2, Zenon DEF Switching, SwitchInv, Parts
  <2>2. Pushed(job) = { d[k] : k \in 1 .. job.again - 1 }
    BY <1>1, Zenon DEF Pushed
  <2>3. 1 .. job.again - 1 \subseteq 1 .. Len(d)
    BY <2>1, <1>3
  <2> QED
    BY <1>2, <2>2, <2>3, Zenon DEF Switching, SwitchInv
<1>5. /\ n \in 1 .. Len(main) /\ Len(o) = n + Len(d) /\ \A k \in 1 .. Len(d) : d[k] = o[n + k]
  BY <1>1, OldBlocks, Zenon
<1>6. /\ \A x : x \in Elements(main) <=> \E i \in 1 .. Len(main) : x = main[i]
      /\ \A x : x \in Elements(o) <=> \E i \in 1 .. Len(o) : x = o[i]
      /\ \A x : x \in Elements(a) <=> \E i \in 1 .. Len(a) : x = a[i]
  BY <1>2, ElementsOf, Zenon DEF Switching
<1>7. \A i, k \in 1 .. Len(o) : o[i] = o[k] => i = k
  <2>1. WellFormed(o, verdict)
    BY <1>2, Zenon DEF Switching
  <2> QED
    BY <2>1, BlocksDiffer, Zenon
<1> HIDE DEF n, a, o, d
<1>8. ASSUME NEW i \in 1 .. Len(main), main[i] \in alt' PROVE FALSE
  <2>1. CASE i \in 1 .. n
    <3>1. main[i] = o[i] /\ i \in 1 .. Len(o)
      BY <2>1, <1>3, <1>5 DEF Agrees
    <3>2. PICK k \in 1 .. Len(d) : o[i] = d[k]
      BY <3>1, <1>1, <1>4, <1>6, <1>8
    <3>3. n + k \in 1 .. Len(o) /\ n + k # i
      BY <2>1, <1>3, <1>5
    <3> QED
      BY <3>1, <3>2, <3>3, <1>5, <1>7, Zenon
  <2>2. CASE i \notin 1 .. n
    <3>1. i - n \in 1 .. Len(a) /\ n + (i - n) = i
      BY <2>2, <1>3
    <3>2. main[i] = a[i - n]
      BY <3>1, <1>3, Zenon
    <3>3. main[i] \in Elements(a)
      BY <3>1, <3>2, <1>6, Zenon
    <3> QED
      BY <3>3, <1>1, <1>8, Zenon DEF a
  <2> QED
    BY <2>1, <2>2, Zenon
<1>9. alt' \subseteq Blocks /\ alt' \cap Elements(main) = {} /\ WellFormed(main, verdict)
  BY <1>1, <1>2, <1>6, <1>8 DEF Switching
<1> QED
  BY <1>1, <1>9, IdleType, Zenon DEF IInv

----------------------------------------------------------------------------
(* The chain is well formed at every step. *)

LEMMA Inductive == IInv /\ [Next]_vars => IInv'
<1> SUFFICES ASSUME IInv, [Next]_vars PROVE IInv'
  BY Zenon
<1>1. ASSUME NEW b \in Blocks, Receive(b) PROVE IInv'
  BY <1>1, ReceiveMainKeeps, ReceiveAltKeeps, Zenon DEF Receive
<1>2. CASE SwitchStep
  BY <1>2, DisconnectKeeps, ConnectNextKeeps, PushNextKeeps, SwitchDoneKeeps, RollbackPopKeeps,
     RestoreNextKeeps, OrphanAltChainKeeps, Zenon DEF SwitchStep
<1>3. CASE PopBlocks
  BY <1>3, PopBlocksKeeps, Zenon
<1>4. CASE (\E t \in Txs : PoolGains(t) \/ PoolLoses(t)) \/ Restart \/ flush_invalid_blocks
  BY <1>4, OthersKeep, Zenon
<1>5. CASE UNCHANGED vars
  BY <1>5, Zenon DEF vars, IInv
<1> QED
  BY <1>1, <1>2, <1>3, <1>4, <1>5, Zenon DEF Next

\* The main chain is a chain of blocks that passed their checks, each on its parent, with no
\* transaction twice and no block in the alternative table, after every step of every switch,
\* whatever the tree, the verdicts, the difficulties and the rules (handle_block_to_main_chain,
\* pop_block_from_blockchain, switch_to_alternative_blockchain, rollback_blockchain_switching).
THEOREM ChainWellFormed == Spec => []IInv
<1>1. Init => IInv
  BY InitHolds, Zenon
<1> QED
  BY <1>1, Inductive, PTL DEF Spec

\* A switch that ends well keeps each block it disconnected: the alternative table takes them all,
\* whatever the tree of blocks and wherever the chains part (switch_to_alternative_blockchain).
THEOREM OldChainStays == Spec => OldChainKept
<1> DEFINE Kept == job.stage = "connect" /\ job' = Idle => Elements(job.disconnected_chain) \subseteq alt'
<1>1. ASSUME IInv, [Next]_vars PROVE [Kept]_vars
  <2> SUFFICES ASSUME job.stage = "connect", job' = Idle, Next
               PROVE  Elements(job.disconnected_chain) \subseteq alt'
    BY <1>1, Zenon
  <2>1. Switching
    BY <1>1, InSwitch, Zenon
  <2>2. SwitchDone
    <3>1. job # Idle
      BY IdleType, Zenon
    <3>2. SwitchStep
      BY <3>1, Zenon DEF Next, Receive, ReceiveMain, ReceiveAlt, PopBlocks, PoolGains, PoolLoses, Restart,
                  flush_invalid_blocks
    <3>3. ASSUME ConnectNext \/ PushNext PROVE FALSE
      <4>1. \/ job' = [job EXCEPT !.at = @ + 1] \/ job' = [job EXCEPT !.stage = "rollback"]
            \/ job' = [job EXCEPT !.again = @ + 1]
        BY <3>3, Zenon DEF ConnectNext, PushNext
      <4>2. job \in JobType
        BY <2>1, Zenon DEF Switching
      <4>3. job'.stage \in {"connect", "rollback"}
        BY <4>1, <4>2, Zenon DEF JobType
      <4> QED
        BY <4>3, IdleType, Zenon
    <3> QED
      BY <3>2, <3>3, Zenon DEF SwitchStep, Disconnect, RollbackPop, RestoreNext, OrphanAltChain
  <2>3. /\ job.again > Len(job.disconnected_chain) /\ alt' = alt \ Elements(job.alt_chain)
    BY <2>2, Zenon DEF SwitchDone
  <2>4. /\ job.again \in 1 .. Len(job.disconnected_chain) + 1
        /\ alt \cap Elements(job.origin) = Pushed(job)
        /\ Elements(job.alt_chain) \cap Elements(job.origin) = {}
    BY <2>1, Zenon DEF Switching, SwitchInv, Parts, Purpose
  <2>5. Len(job.disconnected_chain) \in Nat
    BY <2>1, Zenon DEF Switching
  <2>6. job.again - 1 = Len(job.disconnected_chain)
    BY <2>3, <2>4, <2>5
  <2>7. \A x : x \in Pushed(job) <=> \E k \in 1 .. Len(job.disconnected_chain) : x = job.disconnected_chain[k]
    BY <2>6, Zenon DEF Pushed
  <2>8. job.disconnected_chain \in Seq(Blocks)
    BY <2>1, Zenon DEF Switching
  <2>9. Elements(job.disconnected_chain) = Pushed(job)
    <3>1. \A x : x \in Elements(job.disconnected_chain)
                   <=> \E k \in 1 .. Len(job.disconnected_chain) : x = job.disconnected_chain[k]
      BY <2>8, ElementsOf, Zenon
    <3> QED
      BY <2>7, <3>1, Zenon
  <2> QED
    BY <2>3, <2>4, <2>9, Zenon
<1>2. Spec => [][Kept]_vars
  BY <1>1, ChainWellFormed, PTL DEF Spec
<1> QED
  BY <1>2, Zenon DEF OldChainKept

----------------------------------------------------------------------------
(* Switches that do not cross a fork which changes the rules. *)

\* Nothing of the old chain leaves the pool when the version in force is set.
LEMMA PoolKeepsOld ==
  ASSUME IInv, IInv', NoForkInSwitch, NoForkInSwitch', job # Idle, job' # Idle, job'.origin = job.origin,
         NEW p, NEW x \in p, x \in Mined(job.origin)
  PROVE  x \in Validated(p, Len(main), Len(main'))
<1>1. CASE SameRules
  <2>1. WellFormed(job.origin, verdict)
    BY IdleStage, InSwitch, Zenon DEF Switching
  <2>2. PICK i \in 2 .. Len(job.origin) : x \in txs[job.origin[i]]
    BY <2>1, MinedOf, Zenon
  <2>3. job.origin[i] \in Blocks
    BY <2>1, ChainBlock, Zenon
  <2>4. x \in accepted[1] /\ x \in accepted[2]
    BY <1>1, <2>2, <2>3, Zenon DEF SameRules
  <2> QED
    BY <2>4, Zenon DEF Validated, Version
<1>2. CASE ~ SameRules
  <2>1. Version(Len(main)) = Version(Len(job.origin)) /\ Version(Len(main')) = Version(Len(job'.origin))
    BY <1>2, Zenon DEF NoForkInSwitch, SameRules
  <2> QED
    BY <2>1, Zenon DEF Validated
<1> QED
  BY <1>1, <1>2, Zenon

LEMMA NothingMined == Mined(<<>>) = {}
  BY DEF Mined, Elements

\* The old block that is next connects again: its transactions are at hand, and not in the chain.
LEMMA OldBlockConnects ==
  ASSUME IInv, OldTxsAtHand, job.stage = "restore", job.again <= Len(job.disconnected_chain)
  PROVE  Connects(job.disconnected_chain[job.again], {})
<1> DEFINE d == job.disconnected_chain
           o == job.origin
           n == job.split_height
           k == job.again
           b == d[k]
<1>1. Switching
  BY InSwitch, Zenon
<1>2. /\ k \in 1 .. Len(d) /\ n \in Nat /\ Len(d) \in Nat /\ Len(main) \in Nat /\ Len(o) \in Nat
      /\ WellFormed(o, verdict) /\ WellFormed(main, verdict)
  BY <1>1 DEF Switching, SwitchInv, Parts
<1>3. Agrees(main, o, Len(main)) /\ Len(main) = n + k - 1 /\ Len(o) = n + Len(d)
  BY RestoredPrefix, Zenon
<1>4. b = o[n + k] /\ b \in Blocks /\ verdict[b] = "ok" /\ n >= 1
  <2>1. n \in 1 .. Len(main)
    BY OldBlocks, Zenon
  <2>2. \A i \in 1 .. Len(d) : d[i] = o[n + i] /\ d[i] \in Blocks /\ verdict[d[i]] = "ok"
    BY OldBlocks, Zenon
  <2> HIDE DEF d, o, n, k
  <2> QED
    BY <1>2, <2>1, <2>2
<1> HIDE DEF d, o, n, k
<1>5. n + k \in 2 .. Len(o) /\ n + k = Len(main) + 1 /\ n + k - 1 = Len(main) /\ Len(main) >= 1
  BY <1>2, <1>3, <1>4
<1>6. parent[b] = main[Len(main)]
  <2>1. parent[o[n + k]] = o[n + k - 1]
    BY <1>2, <1>5, ChainBlock
  <2>2. main[Len(main)] = o[Len(main)]
    BY <1>2, <1>3, <1>5 DEF Agrees
  <2> QED
    BY <1>4, <1>5, <2>1, <2>2, Zenon
<1>7. txs[b] \subseteq Mined(o)
  BY <1>2, <1>4, <1>5, MinedOf, Zenon
<1>8. txs[b] \cap Mined(main) = {}
  <2> SUFFICES ASSUME NEW x \in txs[b], x \in Mined(main) PROVE FALSE
    BY Zenon
  <2>1. PICK i \in 2 .. Len(main) : x \in txs[main[i]]
    BY <1>2, MinedOf, Zenon
  <2>2. main[i] = o[i] /\ i \in 2 .. Len(o) /\ i # n + k
    BY <1>2, <1>3, <1>5 DEF Agrees
  <2>3. txs[o[i]] \cap txs[o[n + k]] = {}
    BY <1>2, <1>5, <2>2, Zenon DEF WellFormed, MC!IsChain
  <2> QED
    BY <1>4, <2>1, <2>2, <2>3, Zenon
<1>9. AtHand(b, {}) = txs[b]
  BY <1>7, <1>8, Zenon DEF AtHand, OldTxsAtHand, o
<1>10. HeaderPasses(b, {})
  BY <1>4, <1>6, Zenon DEF HeaderPasses, get_tail_id
<1> QED
  BY <1>4, <1>9, <1>10, Zenon DEF Connects, d, k

\* A step from one stage of a switch to another keeps the old transactions at hand.
LEMMA OldTxsStay ==
  ASSUME IInv, IInv', OldTxsAtHand, NoForkInSwitch, NoForkInSwitch', SwitchStep, job' # Idle
  PROVE  OldTxsAtHand' /\ job'.origin = job.origin
<1>0. job # Idle /\ job.stage # "idle"
  BY IdleStage, IdleType, Zenon DEF SwitchStep, Disconnect, ConnectNext, PushNext, SwitchDone, RollbackPop, RestoreNext,
                             OrphanAltChain
<1>1. Switching
  BY <1>0, InSwitch, Zenon
<1>2. job \in JobType
  BY <1>1, Zenon DEF Switching
<1>3. job'.origin = job.origin
  BY <1>2, Zenon DEF JobType, SwitchStep, Disconnect, ConnectNext, PushNext, SwitchDone, RollbackPop, RestoreNext,
              OrphanAltChain
<1>4. ASSUME NEW x \in Mined(job.origin) PROVE x \in pool \cup Mined(main)
  BY Zenon DEF OldTxsAtHand
<1>5. CASE UNCHANGED <<main, pool>>
  BY <1>3, <1>5, Zenon DEF OldTxsAtHand
<1>6. ASSUME NEW b \in Blocks, Connects(b, {}), Connect(b) PROVE OldTxsAtHand'
  <2>1. /\ Mined(main') = Mined(main) \cup txs[b] /\ main' = Append(main, b)
        /\ pool' = Validated(pool \ txs[b], Len(main), Len(main) + 1)
    BY <1>6, ConnectGrows, Zenon
  <2>2. Len(main') = Len(main) + 1
    <3>1. main \in Seq(Nodes) /\ b \in Nodes
      BY <1>1, Zenon DEF Switching, Nodes
    <3> QED
      BY <2>1, <3>1
  <2>3. ASSUME NEW x \in Mined(job.origin) PROVE x \in pool' \cup Mined(main')
    <3>1. CASE x \in pool \ txs[b]
      BY <1>0, <1>3, <2>1, <2>2, <3>1, PoolKeepsOld, Zenon
    <3> QED
      BY <1>4, <2>1, <3>1, Zenon
  <2> QED
    BY <1>3, <2>3, Zenon DEF OldTxsAtHand
<1>7. ASSUME Len(main) >= 2, Pop PROVE OldTxsAtHand'
  <2>1. /\ Mined(main) = Mined(main') \cup txs[main[Len(main)]] /\ Len(main') = Len(main) - 1
        /\ pool' = Validated(pool \cup txs[main[Len(main)]], Len(main), Len(main) - 1)
    BY <1>7, PopShrinks, Zenon
  <2>2. ASSUME NEW x \in Mined(job.origin) PROVE x \in pool' \cup Mined(main')
    <3>1. CASE x \in pool \cup txs[main[Len(main)]]
      BY <1>0, <1>3, <2>1, <3>1, PoolKeepsOld, Zenon
    <3> QED
      BY <1>4, <2>1, <3>1, Zenon
  <2> QED
    BY <1>3, <2>2, Zenon DEF OldTxsAtHand
<1>8. CASE Disconnect
  <2>1. Pop => Len(main) >= 2
    <3>1. job.stage = "disconnect" /\ Progress(job, main) /\ Len(main) \in Nat /\ Len(main) >= 1
      BY <1>1, <1>8, Zenon DEF Disconnect, Switching, SwitchInv
    <3>2. PICK k \in 1 .. Len(main) : main[k] = parent[job.alt_chain[1]]
      BY <3>1, Zenon DEF Progress
    <3>3. CASE get_tail_id # parent[job.alt_chain[1]]
      <4>1. k # Len(main)
        BY <3>2, <3>3, Zenon DEF get_tail_id
      <4> QED
        BY <3>1, <3>2, <4>1
    <3>4. CASE get_tail_id = parent[job.alt_chain[1]]
      <4>1. main' = main
        BY <1>8, <3>4, Zenon DEF Disconnect
      <4>2. Pop => Len(SubSeq(main, 1, Len(main) - 1)) = Len(main)
        BY <4>1, Zenon DEF Pop
      <4>3. main \in Seq(Nodes)
        BY <1>1, Zenon DEF Switching
      <4>4. Len(SubSeq(main, 1, Len(main) - 1)) = Len(main) - 1
        BY <3>1, <4>3, Shortened, Zenon
      <4> QED
        BY <3>1, <4>2, <4>4
    <3> QED
      BY <3>3, <3>4, Zenon
  <2> QED
    BY <1>3, <1>5, <1>7, <1>8, <2>1, Zenon DEF Disconnect
<1>9. CASE RollbackPop
  <2>1. Pop => Len(main) >= 2 \/ UNCHANGED <<main, pool>>
    <3>1. job.stage = "rollback" /\ Len(main) \in Nat
      BY <1>1, <1>9, Zenon DEF RollbackPop, Switching
    <3>2. job.split_height \in 1 .. Len(main)
      BY <3>1, OldBlocks, Zenon
    <3> QED
      BY <1>9, <3>1, <3>2 DEF RollbackPop
  <2> QED
    BY <1>3, <1>5, <1>7, <1>9, <2>1, Zenon DEF RollbackPop
<1>10. CASE ConnectNext
  <2>1. job.alt_chain[job.at] \in Blocks
    <3>1. job.alt_chain \in Seq(Blocks) /\ job.at \in 1 .. Len(job.alt_chain)
      BY <1>1, <1>10 DEF Switching, SwitchInv, Purpose, ConnectNext
    <3> QED
      BY <3>1
  <2> QED
    BY <1>3, <1>5, <1>6, <1>10, <2>1, Zenon DEF ConnectNext, Refuse
<1>11. CASE RestoreNext
  <2>1. job.disconnected_chain[job.again] \in Blocks
    <3>1. job.disconnected_chain \in Seq(Blocks) /\ job.again \in 1 .. Len(job.disconnected_chain)
      BY <1>1, <1>11 DEF Switching, SwitchInv, Parts, RestoreNext
    <3> QED
      BY <3>1
  <2> QED
    BY <1>3, <1>5, <1>6, <1>11, <2>1, Zenon DEF RestoreNext, Refuse
<1>12. CASE PushNext \/ SwitchDone \/ OrphanAltChain
  BY <1>5, <1>12, Zenon DEF PushNext, SwitchDone, OrphanAltChain
<1> QED
  BY <1>3, <1>8, <1>9, <1>10, <1>11, <1>12, Zenon DEF SwitchStep

\* A switch that is rolled back without a failure has restored the chain.
LEMMA Restored ==
  ASSUME IInv, job.stage = "restore", job.again > Len(job.disconnected_chain)
  PROVE  main = job.origin
<1>1. Switching
  BY InSwitch, Zenon
<1>2. /\ job.again \in 1 .. Len(job.disconnected_chain) + 1 /\ Len(job.disconnected_chain) \in Nat
      /\ job.split_height \in Nat /\ main \in Seq(Nodes) /\ job.origin \in Seq(Nodes)
  BY <1>1, Zenon DEF Switching, SwitchInv, Parts
<1>3. /\ Agrees(main, job.origin, Len(main)) /\ Len(main) = job.split_height + job.again - 1
      /\ Len(job.origin) = job.split_height + Len(job.disconnected_chain)
  BY RestoredPrefix, Zenon
<1>4. Len(main) = Len(job.origin)
  <2>1. /\ job.again \in 1 .. Len(job.disconnected_chain) + 1 /\ Len(job.disconnected_chain) \in Nat
        /\ job.split_height \in Nat
    BY <1>2, Zenon
  <2>2. /\ Len(main) = job.split_height + job.again - 1
        /\ Len(job.origin) = job.split_height + Len(job.disconnected_chain)
    BY <1>3, Zenon
  <2>3. job.again = Len(job.disconnected_chain) + 1
    BY <2>1
  <2> QED
    BY <2>1, <2>2, <2>3
<1> QED
  BY <1>2, <1>3, <1>4, ChainsAgree, Zenon

\* Steps outside a switch.
LEMMA IdleKeepsRules ==
  ASSUME IInv, IInv', SameRulesInv, job = Idle, job' = Idle, popped' \/ (~ popped /\ NoneHeavier(job', alt', main'))
  PROVE  SameRulesInv'
<1>1. job'.stage # "orphan" /\ Mined(job'.origin) = {}
  BY IdleType, NothingMined, Zenon
<1> QED
  BY <1>1, Zenon DEF SameRulesInv, OldTxsAtHand

LEMMA ReceiveMainKeepsRules ==
  ASSUME IInv, IInv', SameRulesInv, NEW b \in Blocks, NEW extra, ReceiveMain(b, extra)
  PROVE  SameRulesInv'
<1>1. job = Idle /\ job' = job /\ alt' = alt /\ popped' = popped /\ (~ popped => NoneHeavier(job, alt, main))
  BY Zenon DEF ReceiveMain, SameRulesInv
<1>2. ASSUME ~ popped PROVE NoneHeavier(job', alt', main')
  <2>1. CASE Refuse(b, extra)
    BY <1>1, <1>2, <2>1, Zenon DEF Refuse, NoneHeavier
  <2>2. CASE Connects(b, extra) /\ Connect(b)
    <3>1. main \in Seq(Nodes) /\ b \in Nodes /\ Len(main) \in Nat /\ Len(main) >= 1 /\ alt \subseteq Nodes
      BY DEF IInv, WellFormed, Nodes
    <3>2. main' = Append(main, b) /\ parent[b] = main[Len(main)]
      BY <2>2, Zenon DEF Connects, HeaderPasses, get_tail_id, Connect
    <3>3. main'[Len(main')] = b
      BY <3>1, <3>2
    <3>4. work[main[Len(main)]] < work[b] /\ work[main[Len(main)]] \in Nat /\ work[b] \in Nat
      <4>1. main[Len(main)] \in Nodes
        BY <3>1
      <4> QED
        BY <3>1, <3>2, <4>1, Work, Zenon
    <3>5. ASSUME NEW x \in alt PROVE work[x] <= work[b]
      <4>1. work[x] <= work[main[Len(main)]]
        BY <1>1, <1>2, IdleType, Zenon DEF NoneHeavier
      <4>2. work[x] \in Nat
        BY <3>1, Work, Zenon
      <4> QED
        BY <3>4, <4>1, <4>2
    <3> QED
      BY <1>1, <3>3, <3>5, IdleType, Zenon DEF NoneHeavier
  <2> QED
    BY <2>1, <2>2, Zenon DEF ReceiveMain
<1> QED
  BY <1>1, <1>2, IdleKeepsRules, Zenon

LEMMA ReceiveAltKeepsRules ==
  ASSUME IInv, IInv', SameRulesInv, NEW b \in Blocks, NEW extra, ReceiveAlt(b, extra)
  PROVE  SameRulesInv' /\ (job' # Idle => job'.origin = main)
<1> DEFINE c == Append(AltAncestors[parent[b]], b)
<1>1. /\ job = Idle /\ alt' = alt \cup {b} /\ main' = main /\ popped' = popped
      /\ pool' = pool \cup (extra \ Mined(main))
      /\ job' = IF Heavier(b) THEN [Idle EXCEPT !.stage = "disconnect", !.origin = main, !.alt_chain = c]
                              ELSE job
      /\ ~ popped => NoneHeavier(job, alt, main)
  BY Zenon DEF ReceiveAlt, SameRulesInv
<1>2. ~ popped => \A x \in alt : work[x] <= work[main[Len(main)]]
  BY <1>1, IdleType, Zenon DEF NoneHeavier
<1>3. CASE ~ Heavier(b)
  <2>1. work[b] \in Nat /\ work[main[Len(main)]] \in Nat
    <3>1. main[Len(main)] \in Nodes /\ b \in Nodes
      BY DEF IInv, WellFormed, Nodes
    <3> QED
      BY <3>1, Work, Zenon
  <2>2. work[b] <= work[main[Len(main)]]
    BY <1>3, <2>1 DEF Heavier, get_tail_id, work
  <2>3. ~ popped => NoneHeavier(job', alt', main')
    BY <1>1, <1>2, <1>3, <2>2, IdleType, Zenon DEF NoneHeavier
  <2> QED
    BY <1>1, <1>3, <2>3, IdleKeepsRules, Zenon
<1>4. CASE Heavier(b)
  <2>1. /\ job'.stage = "disconnect" /\ job'.origin = main /\ job'.alt_chain = c
    <3>1. Idle = [stage |-> "idle", alt_chain |-> <<>>, disconnected_chain |-> <<>>, split_height |-> 0,
                  at |-> 1, again |-> 1, origin |-> <<>>]
      BY Zenon DEF Idle
    <3>2. job' = [Idle EXCEPT !.stage = "disconnect", !.origin = main, !.alt_chain = c]
      BY <1>1, <1>4, Zenon
    <3> HIDE DEF c
    <3> QED
      BY <3>1, <3>2, Zenon
  <2>2. c[Len(c)] = b
    <3>1. AltAncestors[parent[b]] \in Seq(alt) /\ alt \subseteq Blocks
      BY AltChain, BlockAssumption, Zenon DEF IInv, Nodes
    <3>2. AltAncestors[parent[b]] \in Seq(Blocks)
      BY <3>1
    <3> QED
      BY <3>2
  <2> HIDE DEF c
  <2>3. ~ popped => NoneHeavier(job', alt', main')
    BY <1>1, <1>2, <2>1, <2>2, Zenon DEF NoneHeavier
  <2>4. OldTxsAtHand'
    BY <1>1, <2>1, Zenon DEF OldTxsAtHand
  <2> QED
    BY <1>1, <2>1, <2>3, <2>4, Zenon DEF SameRulesInv
<1> QED
  BY <1>3, <1>4, Zenon

LEMMA SwitchEndKeepsRules ==
  ASSUME IInv, IInv', SameRulesInv, SwitchDone \/ OrphanAltChain
  PROVE  SameRulesInv'
<1>1. job' = Idle /\ main' = main /\ popped' = popped /\ job.stage \in {"connect", "restore"}
  BY Zenon DEF SwitchDone, OrphanAltChain, SameRulesInv
<1>2. Switching
  BY <1>1, InSwitch, Zenon
<1> DEFINE a == job.alt_chain
           o == job.origin
<1>3. /\ Len(a) \in Nat /\ Len(a) >= 1 /\ a \in Seq(Blocks) /\ o \in Seq(Nodes) /\ Len(o) \in Nat /\ Len(o) >= 1
      /\ job.at \in Nat /\ work[o[Len(o)]] < work[a[Len(a)]] /\ alt \subseteq Blocks
      /\ job.stage # "connect" => job.at <= Len(a)
  BY <1>2, Zenon DEF Switching, SwitchInv, Purpose, WellFormed
<1>4. ~ popped => \A b \in alt : b = a[Len(a)] \/ work[b] <= work[o[Len(o)]]
  BY <1>1, Zenon DEF SameRulesInv, NoneHeavier
<1>5. work[o[Len(o)]] \in Nat /\ work[a[Len(a)]] \in Nat /\ \A b \in alt : work[b] \in Nat
  <2>1. o[Len(o)] \in Nodes /\ a[Len(a)] \in Nodes /\ alt \subseteq Nodes
    BY <1>3 DEF Nodes
  <2> QED
    BY <2>1, Work, Zenon
<1>6. CASE SwitchDone
  <2>1. main[Len(main)] = a[Len(a)]
    <3>1. job.at > Len(a) /\ job.stage = "connect"
      BY <1>6, Zenon DEF SwitchDone
    <3>2. Len(main) = job.split_height + Len(a) /\ \A i \in 1 .. Len(a) : main[job.split_height + i] = a[i]
      BY <3>1, AllConnected, Zenon
    <3> QED
      BY <1>3, <3>2
  <2>2. alt' \subseteq alt
    BY <1>6, Zenon DEF SwitchDone
  <2> HIDE DEF a, o
  <2>3. ~ popped => \A b \in alt' : work[b] <= work[main[Len(main)]]
    BY <1>3, <1>4, <1>5, <2>1, <2>2
  <2>4. ~ popped => NoneHeavier(job', alt', main')
    BY <1>1, <2>3, IdleType, Zenon DEF NoneHeavier
  <2>5. job'.stage # "orphan" /\ Mined(job'.origin) = {}
    BY <1>1, IdleType, NothingMined, Zenon
  <2> QED
    BY <1>1, <2>4, <2>5, Zenon DEF SameRulesInv, OldTxsAtHand
<1>7. CASE OrphanAltChain
  <2>1. job.stage = "restore" /\ main = o
    <3>1. job.stage = "restore" /\ job.again > Len(job.disconnected_chain)
      BY <1>7, Zenon DEF OrphanAltChain, SameRulesInv
    <3> QED
      BY <3>1, Restored, Zenon
  <2>2. alt' \subseteq alt /\ a[Len(a)] \notin alt'
    <3>1. Len(a) \in job.at .. Len(a)
      BY <1>3, <2>1
    <3> QED
      BY <1>7, <3>1, Zenon DEF OrphanAltChain
  <2> HIDE DEF a, o
  <2>3. ~ popped => \A b \in alt' : work[b] <= work[main[Len(main)]]
    BY <1>4, <2>1, <2>2, Zenon
  <2>4. ~ popped => NoneHeavier(job', alt', main')
    BY <1>1, <2>3, IdleType, Zenon DEF NoneHeavier
  <2>5. job'.stage # "orphan" /\ Mined(job'.origin) = {}
    BY <1>1, IdleType, NothingMined, Zenon
  <2> QED
    BY <1>1, <2>4, <2>5, Zenon DEF SameRulesInv, OldTxsAtHand
<1> QED
  BY <1>6, <1>7, Zenon

LEMMA SwitchKeepsRules ==
  ASSUME IInv, IInv', SameRulesInv, NoForkInSwitch, NoForkInSwitch', SwitchStep, job' # Idle
  PROVE  SameRulesInv'
<1>0. job.stage # "idle" /\ ~ SwitchDone /\ ~ OrphanAltChain
  BY IdleStage, IdleType, Zenon DEF SwitchStep, Disconnect, ConnectNext, PushNext, SwitchDone, RollbackPop, RestoreNext,
                             OrphanAltChain
<1>1. Switching
  BY <1>0, InSwitch, Zenon
<1>2. OldTxsAtHand' /\ job'.origin = job.origin
  BY OldTxsStay, Zenon DEF SameRulesInv
<1>3. job'.stage # "idle" /\ job'.stage # "orphan" /\ job'.alt_chain = job.alt_chain /\ popped' = popped
  <2>1. job \in JobType
    BY <1>1, Zenon DEF Switching
  <2>2. CASE RestoreNext
    <3>1. Connects(job.disconnected_chain[job.again], {})
      BY <2>2, OldBlockConnects, Zenon DEF RestoreNext, SameRulesInv
    <3>2. job' = [job EXCEPT !.again = @ + 1] /\ popped' = popped /\ job.stage = "restore"
      BY <2>2, <3>1, Zenon DEF RestoreNext
    <3> QED
      BY <2>1, <3>2, Zenon DEF JobType
  <2>3. CASE Disconnect \/ ConnectNext \/ PushNext \/ RollbackPop
    BY <2>1, <2>3, Zenon DEF JobType, Disconnect, ConnectNext, PushNext, RollbackPop
  <2> QED
    BY <1>0, <2>2, <2>3, Zenon DEF SwitchStep
<1>4. ~ popped => \A b \in alt : b = job.alt_chain[Len(job.alt_chain)] \/ work[b] <= work[job.origin[Len(job.origin)]]
  BY <1>0, Zenon DEF SameRulesInv, NoneHeavier
<1>5. \A b \in alt' : b \in alt \/ work[b] <= work[job.origin[Len(job.origin)]]
  <2>1. CASE alt' = alt
    BY <2>1, Zenon
  <2>2. CASE PushNext
    <3> DEFINE b == job.disconnected_chain[job.again]
    <3>1. alt' \subseteq alt \cup {b} /\ job.stage = "connect" /\ job.again <= Len(job.disconnected_chain)
      BY <2>2, Zenon DEF PushNext
    <3>2. job.again \in 1 .. Len(job.disconnected_chain) /\ Len(job.disconnected_chain) \in Nat /\ job.split_height \in Nat
      BY <1>1, <3>1 DEF Switching, SwitchInv, Parts
    <3>3. b = job.origin[job.split_height + job.again]
          /\ Len(job.origin) = job.split_height + Len(job.disconnected_chain)
      BY <3>1, <3>2, OldBlocks, Zenon
    <3>4. job.split_height + job.again \in 1 .. Len(job.origin) /\ Len(job.origin) \in 1 .. Len(job.origin)
          /\ job.split_height + job.again <= Len(job.origin)
      BY <3>2, <3>3, SMTT(30)
    <3>5. work[b] <= work[job.origin[Len(job.origin)]]
      <4>1. WellFormed(job.origin, verdict)
        BY <1>1, Zenon DEF Switching
      <4> QED
        BY <3>3, <3>4, <4>1, Zenon DEF WellFormed
    <3> QED
      BY <3>1, <3>5, Zenon
  <2> QED
    BY <1>0, <2>1, <2>2, Zenon DEF SwitchStep, Disconnect, ConnectNext, RollbackPop, RestoreNext
<1>6. ~ popped' => NoneHeavier(job', alt', main')
  BY <1>2, <1>3, <1>4, <1>5, Zenon DEF NoneHeavier
<1> QED
  BY <1>2, <1>3, <1>6, Zenon DEF SameRulesInv

LEMMA RulesInductive ==
  ASSUME IInv, IInv', SameRulesInv, NoForkInSwitch, NoForkInSwitch', [Next]_vars
  PROVE  SameRulesInv'
<1>1. ASSUME NEW b \in Blocks, Receive(b) PROVE SameRulesInv'
  BY <1>1, ReceiveMainKeepsRules, ReceiveAltKeepsRules, Zenon DEF Receive
<1>2. CASE SwitchStep
  <2>1. CASE job' # Idle
    BY <1>2, <2>1, SwitchKeepsRules, Zenon
  <2>2. CASE job' = Idle
    <3>1. job \in JobType /\ job.stage # "idle"
      BY <1>2, Zenon DEF IInv, SwitchStep, Disconnect, ConnectNext, PushNext, SwitchDone, RollbackPop, RestoreNext,
                  OrphanAltChain
    <3>2. job'.stage = "idle"
      BY <2>2, IdleType, Zenon
    <3>3. SwitchDone \/ OrphanAltChain
      BY <1>2, <3>1, <3>2, Zenon DEF JobType, SwitchStep, Disconnect, ConnectNext, PushNext, RollbackPop, RestoreNext
    <3> QED
      BY <3>3, SwitchEndKeepsRules, Zenon
  <2> QED
    BY <2>1, <2>2, Zenon
<1>3. CASE PopBlocks
  BY <1>3, IdleKeepsRules, Zenon DEF PopBlocks
<1>4. CASE (\E t \in Txs : PoolGains(t) \/ PoolLoses(t)) \/ Restart \/ flush_invalid_blocks
  <2>1. job = Idle /\ job' = job /\ popped' = popped /\ main' = main /\ alt' \subseteq alt
    BY <1>4, Zenon DEF PoolGains, PoolLoses, Restart, flush_invalid_blocks
  <2>2. ~ popped => NoneHeavier(job', alt', main')
    BY <2>1, IdleType, Zenon DEF SameRulesInv, NoneHeavier
  <2> QED
    BY <2>1, <2>2, IdleKeepsRules, Zenon
<1>5. CASE UNCHANGED vars
  BY <1>5, Zenon DEF vars, SameRulesInv, OldTxsAtHand
<1> QED
  BY <1>1, <1>2, <1>3, <1>4, <1>5, Zenon DEF Next

LEMMA RulesInvariant == Spec /\ []NoForkInSwitch => [](IInv /\ SameRulesInv)
<1>1. Init => SameRulesInv
  <2> SUFFICES ASSUME Init PROVE SameRulesInv
    BY Zenon
  <2>1. job = Idle /\ alt = {}
    BY Zenon DEF Init
  <2> QED
    BY <2>1, IdleType, NothingMined, Zenon DEF SameRulesInv, OldTxsAtHand, NoneHeavier
<1>2. IInv /\ IInv' /\ SameRulesInv /\ NoForkInSwitch /\ NoForkInSwitch' /\ [Next]_vars => SameRulesInv'
  BY RulesInductive, Zenon
<1> QED
  BY <1>1, <1>2, ChainWellFormed, PTL DEF Spec

\* While no switch crosses a fork that changes the rules, a switch never loses a transaction of the
\* chain it replaces, at any of its steps: pop_block_from_blockchain returns it to the pool and no
\* later step of the switch takes it from there but to put it in a block.
THEOREM OldTxsNeverLost == Spec /\ []NoForkInSwitch => []OldTxsAtHand
<1>1. SameRulesInv => OldTxsAtHand
  BY Zenon DEF SameRulesInv
<1> QED
  BY <1>1, RulesInvariant, PTL

\* While no switch crosses such a fork and nobody pops blocks, the tail has at least the work of
\* every alternative block between calls: after any number of switches, failed or not
\* (handle_alternative_block, switch_to_alternative_blockchain).
THEOREM HeaviestTail == Spec /\ []NoForkInSwitch => []TailIsHeaviest
<1>1. IInv /\ SameRulesInv => TailIsHeaviest
  BY IdleType, Zenon DEF SameRulesInv, NoneHeavier, TailIsHeaviest, get_tail_id, work
<1> QED
  BY <1>1, RulesInvariant, PTL

\* While no switch crosses such a fork, a switch that fails leaves the chain it found: no step of
\* rollback_blockchain_switching can fail.
THEOREM RollbackWorks == Spec /\ []NoForkInSwitch => RollbackRestores
<1> DEFINE Restores == job.stage \in {"restore", "orphan"} /\ job' = Idle => main' = job.origin
<1>1. ASSUME IInv, SameRulesInv, [Next]_vars PROVE [Restores]_vars
  <2> SUFFICES ASSUME job.stage = "restore", job' = Idle, Next PROVE main' = job.origin
    BY <1>1, Zenon DEF SameRulesInv
  <2>1. job # Idle /\ job'.stage = "idle" /\ job \in JobType
    BY <1>1, IdleType, Zenon DEF IInv
  <2>2. SwitchStep
    BY <2>1, Zenon DEF Next, Receive, ReceiveMain, ReceiveAlt, PopBlocks, PoolGains, PoolLoses, Restart,
                flush_invalid_blocks
  <2>3. OrphanAltChain
    BY <2>1, <2>2, Zenon DEF JobType, SwitchStep, Disconnect, ConnectNext, PushNext, SwitchDone, RollbackPop, RestoreNext
  <2>4. job.again > Len(job.disconnected_chain) /\ main' = main
    BY <2>3, Zenon DEF OrphanAltChain
  <2> QED
    BY <1>1, <2>4, Restored, Zenon
<1>2. Spec /\ []NoForkInSwitch => [][Restores]_vars
  BY <1>1, RulesInvariant, PTL DEF Spec
<1> QED
  BY <1>2, Zenon DEF RollbackRestores

----------------------------------------------------------------------------
(* Module Blockchain implements module MainChain. *)

LEMMA SeenInit == Init => MC!Init
  BY Zenon DEF Init, MC!Init, Seen

LEMMA SeenStep ==
  ASSUME IInv, IInv', SameRulesInv, SameRulesInv', [Next]_vars
  PROVE  [MC!Next]_Seen
<1>1. ASSUME NEW b \in Blocks, NEW extra, ReceiveMain(b, extra) PROVE [MC!Next]_Seen
  <2>1. job = Idle /\ job' = Idle
    BY <1>1, Zenon DEF ReceiveMain
  <2>2. CASE Connects(b, extra) /\ Connect(b)
    <3>1. main' = Append(main, b) /\ MC!IsChain(Append(main, b))
      BY <2>2, ConnectGrows, Zenon DEF WellFormed
    <3> QED
      BY <2>1, <3>1, Zenon DEF Seen, MC!Next, MC!Extend
  <2>3. CASE Refuse(b, extra)
    BY <2>1, <2>3, Zenon DEF Seen, Refuse
  <2> QED
    BY <1>1, <2>2, <2>3, Zenon DEF ReceiveMain
<1>2. ASSUME NEW b \in Blocks, NEW extra, ReceiveAlt(b, extra) PROVE Seen' = Seen
  <2>1. job = Idle /\ main' = main
    BY <1>2, Zenon DEF ReceiveAlt
  <2>2. job' # Idle => job'.origin = main
    BY <1>2, ReceiveAltKeepsRules, Zenon
  <2> QED
    BY <2>1, <2>2, Zenon DEF Seen
<1>3. CASE SwitchStep
  <2>0. job # Idle /\ job.stage # "idle" /\ job \in JobType
    BY <1>3, IdleType, Zenon DEF IInv, SwitchStep, Disconnect, ConnectNext, PushNext, SwitchDone, RollbackPop, RestoreNext,
                          OrphanAltChain
  <2>1. CASE SwitchDone
    <3>1. job' = Idle /\ main' = main /\ job.stage = "connect" /\ job.at > Len(job.alt_chain)
      BY <2>1, Zenon DEF SwitchDone
    <3>2. Switching
      BY <2>0, InSwitch, Zenon
    <3>3. /\ work[job.origin[Len(job.origin)]] < work[job.alt_chain[Len(job.alt_chain)]]
          /\ Len(job.alt_chain) >= 1 /\ Len(job.alt_chain) \in Nat /\ job.split_height \in Nat /\ MC!IsChain(main)
          /\ job.alt_chain \in Seq(Blocks) /\ job.origin \in Seq(Nodes) /\ Len(job.origin) \in Nat /\ Len(job.origin) >= 1
      BY <3>2, Zenon DEF Switching, SwitchInv, Purpose, WellFormed
    <3>4. main[Len(main)] = job.alt_chain[Len(job.alt_chain)]
      <4>1. /\ Len(main) = job.split_height + Len(job.alt_chain)
            /\ \A i \in 1 .. Len(job.alt_chain) : main[job.split_height + i] = job.alt_chain[i]
        BY <3>1, AllConnected, Zenon
      <4> QED
        BY <3>3, <4>1
    <3>5. work[job.origin[Len(job.origin)]] \in Nat /\ work[job.alt_chain[Len(job.alt_chain)]] \in Nat
      <4>1. job.origin[Len(job.origin)] \in Nodes /\ job.alt_chain[Len(job.alt_chain)] \in Nodes
        BY <3>3 DEF Nodes
      <4> QED
        BY <4>1, Work, Zenon
    <3>6. work[main[Len(main)]] > work[job.origin[Len(job.origin)]]
      BY <3>3, <3>4, <3>5, Zenon
    <3>7. Seen' = main /\ Seen = job.origin
      BY <2>0, <3>1, Zenon DEF Seen
    <3> QED
      BY <3>3, <3>6, <3>7, Zenon DEF MC!Next, MC!Replace, MC!Last, work
  <2>2. CASE OrphanAltChain
    <3>1. job.stage = "restore" /\ job.again > Len(job.disconnected_chain) /\ job' = Idle /\ main' = main
      BY <2>2, Zenon DEF OrphanAltChain, SameRulesInv
    <3>2. main = job.origin
      BY <3>1, Restored, Zenon
    <3> QED
      BY <2>0, <3>1, <3>2, Zenon DEF Seen
  <2>3. CASE Disconnect \/ ConnectNext \/ PushNext \/ RollbackPop \/ RestoreNext
    <3>1. job'.stage # "idle" /\ job'.origin = job.origin
      BY <2>0, <2>3, Zenon DEF JobType, Disconnect, ConnectNext, PushNext, RollbackPop, RestoreNext
    <3>2. job' # Idle
      BY <3>1, IdleType, Zenon
    <3> QED
      BY <2>0, <3>1, <3>2, Zenon DEF Seen
  <2> QED
    BY <1>3, <2>1, <2>2, <2>3, Zenon DEF SwitchStep
<1>4. CASE PopBlocks
  BY <1>4, Zenon DEF PopBlocks, Pop, Seen, MC!Next, MC!Remove
<1>5. CASE (\E t \in Txs : PoolGains(t) \/ PoolLoses(t)) \/ Restart \/ flush_invalid_blocks
  BY <1>5, Zenon DEF PoolGains, PoolLoses, Restart, flush_invalid_blocks, Seen
<1>6. CASE UNCHANGED vars
  BY <1>6, Zenon DEF vars, Seen
<1> QED
  BY <1>1, <1>2, <1>3, <1>4, <1>5, <1>6, Zenon DEF Next, Receive

\* While no switch crosses a fork that changes the rules, add_new_block and pop_blocks implement a
\* chain that changes in single steps, for every tree of blocks and every order in which they
\* come: whoever takes m_blockchain_lock sees a switch of any length, with its pops, connected blocks,
\* failures and roll-back, as one replacement by a chain with more work, or as nothing.
THEOREM Refinement == Spec /\ []NoForkInSwitch => ImplementsMainChain
<1>1. Spec /\ []NoForkInSwitch => MC!Init
  BY SeenInit, Zenon DEF Spec
<1>2. IInv /\ IInv' /\ SameRulesInv /\ SameRulesInv' /\ [Next]_vars => [MC!Next]_Seen
  BY SeenStep, Zenon
<1>3. Spec /\ []NoForkInSwitch => [][MC!Next]_Seen
  BY <1>2, RulesInvariant, PTL DEF Spec
<1> QED
  BY <1>1, <1>3, Zenon DEF ImplementsMainChain, MC!Spec

\* In particular when the versions accept the same transactions of blocks, whatever the blocks and the fork height.
COROLLARY RefinementSameRules == ASSUME SameRules PROVE Spec => ImplementsMainChain
<1>1. NoForkInSwitch
  BY Zenon DEF NoForkInSwitch
<1> QED
  BY <1>1, Refinement, PTL

=============================================================================

-------------------------- MODULE NodeThreadsProofs --------------------------
(***************************************************************************)
(* The resize of the map is alone, and a batch belongs to the thread that  *)
(* asks for one: for any number of threads, any pool of workers, any order *)
(* of their steps.                                                         *)
(***************************************************************************)
EXTENDS NodeThreads, TLAPS

Names == EntryPoints \cup Called \cup Jobs

Ops(r) == Code[r].ops

\* The calls of a routine between the start and the end of its reading and of its batch, and those it
\* makes with the lock of the pool; take_tx is called with that lock.
InGuard(r, pc) ==
  \/ r = "get_objects" /\ pc \in 3 .. 5
  \/ r = "get_distribution" /\ pc \in 3 .. 4

InBatch(r, pc) ==
  \/ r = "incoming_blocks" /\ pc \in 5 .. 13
  \/ r = "incoming_tx" /\ pc \in 11 .. 12
  \/ r = "set_relayed" /\ pc \in 4 .. 5
  \/ r = "take_tx" /\ pc \in 2 .. 3

HoldsPool(r, pc) ==
  \/ r = "incoming_blocks" /\ pc \in 3 .. 15
  \/ r = "incoming_tx" /\ pc \in 3 .. 14
  \/ r = "set_relayed" /\ pc \in 2 .. 7
  \/ r = "take_tx"

\* A call of the routine from here on starts a batch.
BeforeBatch(r, pc) ==
  \/ r = "incoming_blocks" /\ pc <= 4
  \/ r = "incoming_tx" /\ pc <= 10
  \/ r = "set_relayed" /\ pc <= 3
  \/ r = "take_tx" /\ pc <= 1

AfterSubmit(f) == f.pc >= 2 /\ Ops(f.r)[f.pc - 1][1] = "submit"

\* Points within a call.
Within == {"counted", "reading", "begin", "resize", "draining", "mapping", "waiting"}

Unwinds == {"unwind", "unwinding"}

Frames ==
  [r : Names, pc : Nat, at : Within \cup Unwinds \cup {"", "finished"}, how : {"call", "inline", "pool"},
   wo : Routines \cup {None}, guard : BOOLEAN, batch : BOOLEAN]

FrameInv(f) ==
  /\ f \in Frames
  /\ f.pc \in 1 .. Len(Ops(f.r)) + 1
  /\ f.at \in Within => f.pc <= Len(Ops(f.r))
  /\ f.at = "finished" => f.pc > Len(Ops(f.r))
  /\ f.at \in Unwinds => AfterSubmit(f)
  /\ BeforeBatch(f.r, f.pc) => ~ f.batch

\* The k-th frame of a stack, from the bottom.
At(s, k) == s[Len(s) + 1 - k]

\* Only the innermost routine is within a call.
StackInv(s) ==
  /\ s \in Seq(Frames)
  /\ \A k \in 1 .. Len(s) : FrameInv(At(s, k))
  /\ s # <<>> => At(s, 1).how # "inline"
  /\ \A k \in 1 .. Len(s) - 1 : /\ At(s, k).at \in {"", "unwind"}
                                /\ At(s, k + 1).r \notin EntryPoints
                                /\ At(s, k + 1).how = "inline" => AfterSubmit(At(s, k))

\* What a frame has in num_active_txns.
Kinds(f) ==
  { k \in {"counted", "reading", "guard", "batch"} :
      \/ f.at = k
      \/ k = "guard" /\ f.guard /\ InGuard(f.r, f.pc)
      \/ k = "batch" /\ f.batch /\ InBatch(f.r, f.pc) }

Has(s, k, kind) == k \in 1 .. Len(s) /\ kind \in Kinds(At(s, k))

Tokens == { x \in Threads \X Nat \X {"counted", "reading", "guard", "batch"} : Has(stack[x[1]], x[2], x[3]) }

HasToken(t, kinds) == \E k \in Nat, kind \in kinds : <<t, k, kind>> \in Tokens

CountInv ==
  /\ IsFiniteSet(Tokens) /\ num_active_txns = Cardinality(Tokens)
  /\ \A t \in rtxn : HasToken(t, {"reading", "guard"})
  /\ batch # None => HasToken(batch, {"batch"})

GateInv ==
  \A t \in Threads : Busy(t) /\ Top(t).at \in {"draining", "mapping"} =>
                       gate = t /\ (Top(t).at = "mapping" => num_active_txns = 0)

\* A routine of the stack has the lock of the pool.
Holds(s) == \E k \in 1 .. Len(s) : HoldsPool(At(s, k).r, At(s, k).pc)

LockInv == \A t \in Threads : Holds(stack[t]) => owner["tx_pool"] = t

TypeInv ==
  /\ queue \in Seq([wo : Routines, f : Jobs])
  /\ DOMAIN stack = Threads
  /\ DOMAIN owner = {"incoming", "tx_pool", "blockchain"}
  /\ \A t \in Threads : StackInv(stack[t])

IInv == TypeInv /\ CountInv /\ GateInv /\ LockInv

\* What the count needs to know of finite sets; the theorems of the library say so (CountingHolds).
Counting ==
  /\ IsFiniteSet({})
  /\ \A S : IsFiniteSet(S) => Cardinality(S) \in Nat /\ (Cardinality(S) = 0 <=> S = {})
  /\ \A S, x : IsFiniteSet(S) /\ x \notin S =>
                IsFiniteSet(S \cup {x}) /\ Cardinality(S \cup {x}) = Cardinality(S) + 1
  /\ \A S, x : IsFiniteSet(S) /\ x \in S =>
                IsFiniteSet(S \ {x}) /\ Cardinality(S \ {x}) = Cardinality(S) - 1

----------------------------------------------------------------------------
(* The calls of the routines. *)

\* Where a routine at p goes on after a failure: at q.
JumpFacts(r, p, q) ==
  /\ InGuard(r, q) <=> InGuard(r, p)
  /\ InBatch(r, q) <=> InBatch(r, p)
  /\ HoldsPool(r, q) => HoldsPool(r, p)
  /\ BeforeBatch(r, q) => BeforeBatch(r, p)

FailFacts(r, p) == Code[r].fail \in 1 .. Len(Ops(r)) + 1 /\ JumpFacts(r, p, Code[r].fail)

\* The call op, which is the pc-th of the routine r.
ReadingFacts(r, pc, op) ==
  /\ op[1] = "guard" => ~ InGuard(r, pc) /\ InGuard(r, pc + 1)
  /\ op[1] = "unguard" => InGuard(r, pc) /\ ~ InGuard(r, pc + 1)
  /\ op[1] \notin {"guard", "unguard"} => (InGuard(r, pc + 1) <=> InGuard(r, pc))

BatchFacts(r, pc, op) ==
  /\ op[1] = "batch_start" => /\ ~ InBatch(r, pc) /\ InBatch(r, pc + 1) /\ HoldsPool(r, pc)
                              /\ BeforeBatch(r, pc) /\ ~ BeforeBatch(r, pc + 1)
                              /\ op # LockedTXN => r = "incoming_blocks" /\ pc = 4
  /\ op[1] = "batch_stop" => InBatch(r, pc) /\ ~ InBatch(r, pc + 1)
  /\ op[1] \notin {"batch_start", "batch_stop"} => (InBatch(r, pc + 1) <=> InBatch(r, pc))
  /\ BeforeBatch(r, pc + 1) => BeforeBatch(r, pc)

LockFacts(r, pc, op) ==
  /\ op[1] \in {"lock", "unlock"} => r \in EntryPoints /\ op[2] \in {"incoming", "tx_pool", "blockchain"}
  /\ op[1] = "unlock" /\ op[2] = "tx_pool" => HoldsPool(r, pc) /\ ~ HoldsPool(r, pc + 1)
  /\ HoldsPool(r, pc + 1) => HoldsPool(r, pc) \/ (op[1] = "lock" /\ op[2] = "tx_pool")

JobFacts(r, pc, op) ==
  /\ op[1] = "submit" => op[2] \in Jobs /\ FailFacts(r, pc + 1)
  /\ op[1] = "wait" => FailFacts(r, pc)
  /\ op[1] = "call" => op[2] \in Called /\ (op[2] = "take_tx" => HoldsPool(r, pc))

Facts(r, pc, op) == ReadingFacts(r, pc, op) /\ BatchFacts(r, pc, op) /\ LockFacts(r, pc, op) /\ JobFacts(r, pc, op)

\* The calls of one routine.
RoutineFacts(r) ==
  /\ Len(Ops(r)) \in Nat
  /\ \A pc \in 1 .. Len(Ops(r)) : Facts(r, pc, Ops(r)[pc])
  /\ ~ InGuard(r, Len(Ops(r)) + 1) /\ ~ InBatch(r, Len(Ops(r)) + 1)

LEMMA AllFacts == \A r \in Names : RoutineFacts(r)
<1>FactsIncomingBlocks. RoutineFacts("incoming_blocks")
  <2> DEFINE r == "incoming_blocks"
  <2>1. r \in Routines
    BY ThreadAssumption, Zenon DEF EntryPoints, Called, Jobs
  <2>2. Len(incoming_blocks) = 16
    BY Zenon DEF incoming_blocks
  <2>3. Ops(r) = incoming_blocks /\ Code[r].fail = 11
    BY <2>1, <2>2 DEF Ops, Code
  <2>3a. Len(Ops(r)) = 16
    BY <2>2, <2>3, Zenon
  <2>4. /\ incoming_blocks[1] = Lock("incoming") /\ incoming_blocks[2] = Lock("tx_pool")
        /\ incoming_blocks[3] = Lock("blockchain") /\ incoming_blocks[4] = BatchLoop
        /\ incoming_blocks[5] = Job("longhash 1") /\ incoming_blocks[6] = Job("longhash 2")
        /\ incoming_blocks[7] = Wait /\ incoming_blocks[8] = Unlock("blockchain")
        /\ incoming_blocks[9] = Lock("blockchain") /\ incoming_blocks[10] = Call("take_tx")
        /\ incoming_blocks[11] = Unlock("blockchain") /\ incoming_blocks[12] = Lock("blockchain")
        /\ incoming_blocks[13] = EndBatch /\ incoming_blocks[14] = Unlock("blockchain")
        /\ incoming_blocks[15] = Unlock("tx_pool") /\ incoming_blocks[16] = Unlock("incoming")
    BY Zenon DEF incoming_blocks
  <2>5. FailFacts(r, 6) /\ FailFacts(r, 7)
    <3>1. JumpFacts(r, 6, 11) /\ JumpFacts(r, 7, 11)
      BY DEF JumpFacts, InGuard, InBatch, HoldsPool, BeforeBatch
    <3> HIDE DEF r
    <3>2. Code[r].fail \in 1 .. Len(Ops(r)) + 1
      BY <2>3, <2>3a
    <3> QED
      BY <2>3, <3>1, <3>2, Zenon DEF FailFacts
  <2>6a. /\ Facts(r, 1, Lock("incoming")) /\ Facts(r, 2, Lock("tx_pool")) /\ Facts(r, 3, Lock("blockchain"))
        /\ Facts(r, 4, BatchLoop)
    BY <2>5 DEF
      Facts, ReadingFacts, BatchFacts, LockFacts, JobFacts, InGuard, InBatch, HoldsPool, BeforeBatch,
      EntryPoints, BatchLoop, Lock, LockedTXN
  <2>6b. /\ Facts(r, 5, Job("longhash 1")) /\ Facts(r, 6, Job("longhash 2")) /\ Facts(r, 7, Wait)
        /\ Facts(r, 8, Unlock("blockchain"))
    BY <2>5 DEF
      Facts, ReadingFacts, BatchFacts, LockFacts, JobFacts, InGuard, InBatch, HoldsPool, BeforeBatch,
      EntryPoints, Jobs, Job, LockedTXN, Unlock, Wait
  <2>6c. /\ Facts(r, 9, Lock("blockchain")) /\ Facts(r, 10, Call("take_tx"))
        /\ Facts(r, 11, Unlock("blockchain")) /\ Facts(r, 12, Lock("blockchain"))
    BY <2>5 DEF
      Facts, ReadingFacts, BatchFacts, LockFacts, JobFacts, InGuard, InBatch, HoldsPool, BeforeBatch,
      EntryPoints, Called, Call, Lock, LockedTXN, Unlock
  <2>6d. /\ Facts(r, 13, EndBatch) /\ Facts(r, 14, Unlock("blockchain")) /\ Facts(r, 15, Unlock("tx_pool"))
        /\ Facts(r, 16, Unlock("incoming"))
    BY <2>5 DEF
      Facts, ReadingFacts, BatchFacts, LockFacts, JobFacts, InGuard, InBatch, HoldsPool, BeforeBatch,
      EntryPoints, EndBatch, LockedTXN, Unlock
  <2>7. ~ InGuard(r, 17) /\ ~ InBatch(r, 17)
    BY DEF InGuard, InBatch
  <2> HIDE DEF r
  <2>8a. \A pc \in 1 .. 4 : Facts(r, pc, incoming_blocks[pc])
    <3>1. \A pc \in 1 .. 4 : pc \in {1, 2, 3, 4}
      OBVIOUS
    <3> QED
      BY <2>4, <2>6a, <3>1, Zenon
  <2>8b. \A pc \in 5 .. 8 : Facts(r, pc, incoming_blocks[pc])
    <3>1. \A pc \in 5 .. 8 : pc \in {5, 6, 7, 8}
      OBVIOUS
    <3> QED
      BY <2>4, <2>6b, <3>1, Zenon
  <2>8c. \A pc \in 9 .. 12 : Facts(r, pc, incoming_blocks[pc])
    <3>1. \A pc \in 9 .. 12 : pc \in {9, 10, 11, 12}
      OBVIOUS
    <3> QED
      BY <2>4, <2>6c, <3>1, Zenon
  <2>8d. \A pc \in 13 .. 16 : Facts(r, pc, incoming_blocks[pc])
    <3>1. \A pc \in 13 .. 16 : pc \in {13, 14, 15, 16}
      OBVIOUS
    <3> QED
      BY <2>4, <2>6d, <3>1, Zenon
  <2>9. Len(Ops(r)) \in Nat /\ Len(Ops(r)) + 1 = 17
    BY <2>3a
  <2>10. \A pc \in 1 .. Len(Ops(r)) : Facts(r, pc, Ops(r)[pc])
    <3>1. ASSUME NEW pc \in 1 .. 16 PROVE Facts(r, pc, incoming_blocks[pc])
      BY <2>8a, <2>8b, <2>8c, <2>8d
    <3> QED
      BY <2>3, <2>3a, <3>1, Zenon
  <2>11. RoutineFacts(r)
    BY <2>7, <2>9, <2>10, Zenon DEF RoutineFacts
  <2> QED
    BY <2>11, Zenon DEF r

<1>FactsIncomingTx. RoutineFacts("incoming_tx")
  <2> DEFINE r == "incoming_tx"
  <2>1. r \in Routines
    BY ThreadAssumption, Zenon DEF EntryPoints, Called, Jobs
  <2>2. Len(incoming_tx) = 15
    BY Zenon DEF incoming_tx
  <2>3. Ops(r) = incoming_tx /\ Code[r].fail = 13
    BY <2>1, <2>2, Zenon DEF Ops, Code
  <2>3a. Len(Ops(r)) = 15
    BY <2>2, <2>3, Zenon
  <2>4. /\ incoming_tx[1] = Lock("incoming") /\ incoming_tx[2] = Lock("tx_pool")
        /\ incoming_tx[3] = Lock("blockchain") /\ incoming_tx[4] = Read /\ incoming_tx[5] = Job("ring 1")
        /\ incoming_tx[6] = Job("ring 2") /\ incoming_tx[7] = Wait /\ incoming_tx[8] = Unlock("blockchain")
        /\ incoming_tx[9] = Lock("blockchain") /\ incoming_tx[10] = LockedTXN /\ incoming_tx[11] = Read
        /\ incoming_tx[12] = EndBatch /\ incoming_tx[13] = Unlock("blockchain")
        /\ incoming_tx[14] = Unlock("tx_pool") /\ incoming_tx[15] = Unlock("incoming")
    BY Zenon DEF incoming_tx
  <2>5. FailFacts(r, 6) /\ FailFacts(r, 7)
    <3>1. JumpFacts(r, 6, 13) /\ JumpFacts(r, 7, 13)
      BY DEF JumpFacts, InGuard, InBatch, HoldsPool, BeforeBatch
    <3> HIDE DEF r
    <3>2. Code[r].fail \in 1 .. Len(Ops(r)) + 1
      BY <2>3, <2>3a
    <3> QED
      BY <2>3, <3>1, <3>2, Zenon DEF FailFacts
  <2>6a. /\ Facts(r, 1, Lock("incoming")) /\ Facts(r, 2, Lock("tx_pool")) /\ Facts(r, 3, Lock("blockchain"))
        /\ Facts(r, 4, Read)
    BY <2>5 DEF
      Facts, ReadingFacts, BatchFacts, LockFacts, JobFacts, InGuard, InBatch, HoldsPool, BeforeBatch,
      EntryPoints, Lock, LockedTXN, Read
  <2>6b. /\ Facts(r, 5, Job("ring 1")) /\ Facts(r, 6, Job("ring 2")) /\ Facts(r, 7, Wait)
        /\ Facts(r, 8, Unlock("blockchain"))
    BY <2>5 DEF
      Facts, ReadingFacts, BatchFacts, LockFacts, JobFacts, InGuard, InBatch, HoldsPool, BeforeBatch,
      EntryPoints, Jobs, Job, LockedTXN, Unlock, Wait
  <2>6c. /\ Facts(r, 9, Lock("blockchain")) /\ Facts(r, 10, LockedTXN) /\ Facts(r, 11, Read)
        /\ Facts(r, 12, EndBatch)
    BY <2>5 DEF
      Facts, ReadingFacts, BatchFacts, LockFacts, JobFacts, InGuard, InBatch, HoldsPool, BeforeBatch,
      EntryPoints, EndBatch, Lock, LockedTXN, Read
  <2>6d. /\ Facts(r, 13, Unlock("blockchain")) /\ Facts(r, 14, Unlock("tx_pool"))
        /\ Facts(r, 15, Unlock("incoming"))
    BY <2>5 DEF
      Facts, ReadingFacts, BatchFacts, LockFacts, JobFacts, InGuard, InBatch, HoldsPool, BeforeBatch,
      EntryPoints, LockedTXN, Unlock
  <2>7. ~ InGuard(r, 16) /\ ~ InBatch(r, 16)
    BY DEF InGuard, InBatch
  <2> HIDE DEF r
  <2>8a. \A pc \in 1 .. 4 : Facts(r, pc, incoming_tx[pc])
    <3>1. \A pc \in 1 .. 4 : pc \in {1, 2, 3, 4}
      OBVIOUS
    <3> QED
      BY <2>4, <2>6a, <3>1, Zenon
  <2>8b. \A pc \in 5 .. 8 : Facts(r, pc, incoming_tx[pc])
    <3>1. \A pc \in 5 .. 8 : pc \in {5, 6, 7, 8}
      OBVIOUS
    <3> QED
      BY <2>4, <2>6b, <3>1, Zenon
  <2>8c. \A pc \in 9 .. 12 : Facts(r, pc, incoming_tx[pc])
    <3>1. \A pc \in 9 .. 12 : pc \in {9, 10, 11, 12}
      OBVIOUS
    <3> QED
      BY <2>4, <2>6c, <3>1, Zenon
  <2>8d. \A pc \in 13 .. 15 : Facts(r, pc, incoming_tx[pc])
    <3>1. \A pc \in 13 .. 15 : pc \in {13, 14, 15}
      OBVIOUS
    <3> QED
      BY <2>4, <2>6d, <3>1, Zenon
  <2>9. Len(Ops(r)) \in Nat /\ Len(Ops(r)) + 1 = 16
    BY <2>3a
  <2>10. \A pc \in 1 .. Len(Ops(r)) : Facts(r, pc, Ops(r)[pc])
    <3>1. ASSUME NEW pc \in 1 .. 15 PROVE Facts(r, pc, incoming_tx[pc])
      BY <2>8a, <2>8b, <2>8c, <2>8d
    <3> QED
      BY <2>3, <2>3a, <3>1, Zenon
  <2>11. RoutineFacts(r)
    BY <2>7, <2>9, <2>10, Zenon DEF RoutineFacts
  <2> QED
    BY <2>11, Zenon DEF r

<1>FactsTakeTx. RoutineFacts("take_tx")
  <2> DEFINE r == "take_tx"
  <2>1. r \in Routines
    BY ThreadAssumption, Zenon DEF EntryPoints, Called, Jobs
  <2>2. Len(take_tx) = 3
    BY Zenon DEF take_tx
  <2>3. Ops(r) = take_tx
    BY <2>1, <2>2, Zenon DEF Ops, Code
  <2>3a. Len(Ops(r)) = 3
    BY <2>2, <2>3, Zenon
  <2>4. /\ take_tx[1] = LockedTXN /\ take_tx[2] = Read /\ take_tx[3] = EndBatch
    BY Zenon DEF take_tx
  <2>6. /\ Facts(r, 1, LockedTXN) /\ Facts(r, 2, Read) /\ Facts(r, 3, EndBatch)
    BY DEF
      Facts, ReadingFacts, BatchFacts, LockFacts, JobFacts, InGuard, InBatch, HoldsPool, BeforeBatch,
      EntryPoints, EndBatch, LockedTXN, Read
  <2>7. ~ InGuard(r, 4) /\ ~ InBatch(r, 4)
    BY DEF InGuard, InBatch
  <2> HIDE DEF r
  <2>8. \A pc \in 1 .. 3 : Facts(r, pc, take_tx[pc])
    <3>1. \A pc \in 1 .. 3 : pc \in {1, 2, 3}
      OBVIOUS
    <3> QED
      BY <2>4, <2>6, <3>1, Zenon
  <2>9. Len(Ops(r)) \in Nat /\ Len(Ops(r)) + 1 = 4
    BY <2>3a
  <2>10. \A pc \in 1 .. Len(Ops(r)) : Facts(r, pc, Ops(r)[pc])
    BY <2>3, <2>3a, <2>8, Zenon
  <2>11. RoutineFacts(r)
    BY <2>7, <2>9, <2>10, Zenon DEF RoutineFacts
  <2> QED
    BY <2>11, Zenon DEF r

<1>FactsSetRelayed. RoutineFacts("set_relayed")
  <2> DEFINE r == "set_relayed"
  <2>1. r \in Routines
    BY ThreadAssumption, Zenon DEF EntryPoints, Called, Jobs
  <2>2. Len(set_relayed) = 7
    BY Zenon DEF set_relayed
  <2>3. Ops(r) = set_relayed
    BY <2>1, <2>2, Zenon DEF Ops, Code
  <2>3a. Len(Ops(r)) = 7
    BY <2>2, <2>3, Zenon
  <2>4. /\ set_relayed[1] = Lock("tx_pool") /\ set_relayed[2] = Lock("blockchain") /\ set_relayed[3] = LockedTXN
        /\ set_relayed[4] = Read /\ set_relayed[5] = EndBatch /\ set_relayed[6] = Unlock("blockchain")
        /\ set_relayed[7] = Unlock("tx_pool")
    BY Zenon DEF set_relayed
  <2>6a. /\ Facts(r, 1, Lock("tx_pool")) /\ Facts(r, 2, Lock("blockchain")) /\ Facts(r, 3, LockedTXN)
        /\ Facts(r, 4, Read)
    BY DEF
      Facts, ReadingFacts, BatchFacts, LockFacts, JobFacts, InGuard, InBatch, HoldsPool, BeforeBatch,
      EntryPoints, Lock, LockedTXN, Read
  <2>6b. /\ Facts(r, 5, EndBatch) /\ Facts(r, 6, Unlock("blockchain")) /\ Facts(r, 7, Unlock("tx_pool"))
    BY DEF
      Facts, ReadingFacts, BatchFacts, LockFacts, JobFacts, InGuard, InBatch, HoldsPool, BeforeBatch,
      EntryPoints, EndBatch, LockedTXN, Unlock
  <2>7. ~ InGuard(r, 8) /\ ~ InBatch(r, 8)
    BY DEF InGuard, InBatch
  <2> HIDE DEF r
  <2>8a. \A pc \in 1 .. 4 : Facts(r, pc, set_relayed[pc])
    <3>1. \A pc \in 1 .. 4 : pc \in {1, 2, 3, 4}
      OBVIOUS
    <3> QED
      BY <2>4, <2>6a, <3>1, Zenon
  <2>8b. \A pc \in 5 .. 7 : Facts(r, pc, set_relayed[pc])
    <3>1. \A pc \in 5 .. 7 : pc \in {5, 6, 7}
      OBVIOUS
    <3> QED
      BY <2>4, <2>6b, <3>1, Zenon
  <2>9. Len(Ops(r)) \in Nat /\ Len(Ops(r)) + 1 = 8
    BY <2>3a
  <2>10. \A pc \in 1 .. Len(Ops(r)) : Facts(r, pc, Ops(r)[pc])
    <3>1. ASSUME NEW pc \in 1 .. 7 PROVE Facts(r, pc, set_relayed[pc])
      BY <2>8a, <2>8b
    <3> QED
      BY <2>3, <2>3a, <3>1, Zenon
  <2>11. RoutineFacts(r)
    BY <2>7, <2>9, <2>10, Zenon DEF RoutineFacts
  <2> QED
    BY <2>11, Zenon DEF r

<1>FactsGetObjects. RoutineFacts("get_objects")
  <2> DEFINE r == "get_objects"
  <2>1. r \in Routines
    BY ThreadAssumption, Zenon DEF EntryPoints, Called, Jobs
  <2>2. Len(get_objects) = 6
    BY Zenon DEF get_objects
  <2>3. Ops(r) = get_objects
    BY <2>1, <2>2, Zenon DEF Ops, Code
  <2>3a. Len(Ops(r)) = 6
    BY <2>2, <2>3, Zenon
  <2>4. /\ get_objects[1] = Lock("blockchain") /\ get_objects[2] = Guard /\ get_objects[3] = Read
        /\ get_objects[4] = Read /\ get_objects[5] = Unguard /\ get_objects[6] = Unlock("blockchain")
    BY Zenon DEF get_objects
  <2>6a. /\ Facts(r, 1, Lock("blockchain")) /\ Facts(r, 2, Guard) /\ Facts(r, 3, Read) /\ Facts(r, 4, Read)
    BY DEF
      Facts, ReadingFacts, BatchFacts, LockFacts, JobFacts, InGuard, InBatch, HoldsPool, BeforeBatch,
      EntryPoints, Guard, Lock, LockedTXN, Read
  <2>6b. /\ Facts(r, 5, Unguard) /\ Facts(r, 6, Unlock("blockchain"))
    BY DEF
      Facts, ReadingFacts, BatchFacts, LockFacts, JobFacts, InGuard, InBatch, HoldsPool, BeforeBatch,
      EntryPoints, LockedTXN, Unguard, Unlock
  <2>7. ~ InGuard(r, 7) /\ ~ InBatch(r, 7)
    BY DEF InGuard, InBatch
  <2> HIDE DEF r
  <2>8a. \A pc \in 1 .. 4 : Facts(r, pc, get_objects[pc])
    <3>1. \A pc \in 1 .. 4 : pc \in {1, 2, 3, 4}
      OBVIOUS
    <3> QED
      BY <2>4, <2>6a, <3>1, Zenon
  <2>8b. \A pc \in 5 .. 6 : Facts(r, pc, get_objects[pc])
    <3>1. \A pc \in 5 .. 6 : pc \in {5, 6}
      OBVIOUS
    <3> QED
      BY <2>4, <2>6b, <3>1, Zenon
  <2>9. Len(Ops(r)) \in Nat /\ Len(Ops(r)) + 1 = 7
    BY <2>3a
  <2>10. \A pc \in 1 .. Len(Ops(r)) : Facts(r, pc, Ops(r)[pc])
    <3>1. ASSUME NEW pc \in 1 .. 6 PROVE Facts(r, pc, get_objects[pc])
      BY <2>8a, <2>8b
    <3> QED
      BY <2>3, <2>3a, <3>1, Zenon
  <2>11. RoutineFacts(r)
    BY <2>7, <2>9, <2>10, Zenon DEF RoutineFacts
  <2> QED
    BY <2>11, Zenon DEF r

<1>FactsGetHeight. RoutineFacts("get_height")
  <2> DEFINE r == "get_height"
  <2>1. r \in Routines
    BY ThreadAssumption, Zenon DEF EntryPoints, Called, Jobs
  <2>2. Len(get_height) = 1
    BY Zenon DEF get_height
  <2>3. Ops(r) = get_height
    BY <2>1, <2>2, Zenon DEF Ops, Code
  <2>3a. Len(Ops(r)) = 1
    BY <2>2, <2>3, Zenon
  <2>4. /\ get_height[1] = Read
    BY Zenon DEF get_height
  <2>6. /\ Facts(r, 1, Read)
    BY Zenon DEF
      Facts, ReadingFacts, BatchFacts, LockFacts, JobFacts, InGuard, InBatch, HoldsPool, BeforeBatch,
      EntryPoints, LockedTXN, Read
  <2>7. ~ InGuard(r, 2) /\ ~ InBatch(r, 2)
    BY Zenon DEF InGuard, InBatch
  <2> HIDE DEF r
  <2>8. \A pc \in 1 .. 1 : Facts(r, pc, get_height[pc])
    <3>1. \A pc \in 1 .. 1 : pc \in {1}
      OBVIOUS
    <3> QED
      BY <2>4, <2>6, <3>1, Zenon
  <2>9. Len(Ops(r)) \in Nat /\ Len(Ops(r)) + 1 = 2
    BY <2>3a
  <2>10. \A pc \in 1 .. Len(Ops(r)) : Facts(r, pc, Ops(r)[pc])
    BY <2>3, <2>3a, <2>8, Zenon
  <2>11. RoutineFacts(r)
    BY <2>7, <2>9, <2>10, Zenon DEF RoutineFacts
  <2> QED
    BY <2>11, Zenon DEF r

<1>FactsGetDistribution. RoutineFacts("get_distribution")
  <2> DEFINE r == "get_distribution"
  <2>1. r \in Routines
    BY ThreadAssumption, Zenon DEF EntryPoints, Called, Jobs
  <2>2. Len(get_distribution) = 4
    BY Zenon DEF get_distribution
  <2>3. Ops(r) = get_distribution
    BY <2>1, <2>2, Zenon DEF Ops, Code
  <2>3a. Len(Ops(r)) = 4
    BY <2>2, <2>3, Zenon
  <2>4. /\ get_distribution[1] = Read /\ get_distribution[2] = Guard /\ get_distribution[3] = Read
        /\ get_distribution[4] = Unguard
    BY Zenon DEF get_distribution
  <2>6. /\ Facts(r, 1, Read) /\ Facts(r, 2, Guard) /\ Facts(r, 3, Read) /\ Facts(r, 4, Unguard)
    BY DEF
      Facts, ReadingFacts, BatchFacts, LockFacts, JobFacts, InGuard, InBatch, HoldsPool, BeforeBatch,
      EntryPoints, Guard, LockedTXN, Read, Unguard
  <2>7. ~ InGuard(r, 5) /\ ~ InBatch(r, 5)
    BY DEF InGuard, InBatch
  <2> HIDE DEF r
  <2>8. \A pc \in 1 .. 4 : Facts(r, pc, get_distribution[pc])
    <3>1. \A pc \in 1 .. 4 : pc \in {1, 2, 3, 4}
      OBVIOUS
    <3> QED
      BY <2>4, <2>6, <3>1, Zenon
  <2>9. Len(Ops(r)) \in Nat /\ Len(Ops(r)) + 1 = 5
    BY <2>3a
  <2>10. \A pc \in 1 .. Len(Ops(r)) : Facts(r, pc, Ops(r)[pc])
    BY <2>3, <2>3a, <2>8, Zenon
  <2>11. RoutineFacts(r)
    BY <2>7, <2>9, <2>10, Zenon DEF RoutineFacts
  <2> QED
    BY <2>11, Zenon DEF r

<1>FactsLoadTxt1. RoutineFacts("load_txt 1")
  <2> DEFINE r == "load_txt 1"
             ops == load_txt("query 1", "query 2")
  <2>1. r \in Routines
    BY ThreadAssumption, Zenon DEF EntryPoints, Called, Jobs
  <2>2. Len(ops) = 3
    BY Zenon DEF load_txt
  <2>3. Ops(r) = ops /\ Code[r].fail = 4
    BY <2>1, <2>2, Zenon DEF Ops, Code
  <2>3a. Len(Ops(r)) = 3
    BY <2>2, <2>3, Zenon
  <2>4. /\ ops[1] = Job("query 1") /\ ops[2] = Job("query 2") /\ ops[3] = Wait
    BY Zenon DEF load_txt
  <2>5. FailFacts(r, 2) /\ FailFacts(r, 3)
    <3>1. JumpFacts(r, 2, 4) /\ JumpFacts(r, 3, 4)
      BY Zenon DEF JumpFacts, InGuard, InBatch, HoldsPool, BeforeBatch
    <3> HIDE DEF r, ops
    <3>2. Code[r].fail \in 1 .. Len(Ops(r)) + 1
      BY <2>3, <2>3a
    <3> QED
      BY <2>3, <3>1, <3>2, Zenon DEF FailFacts
  <2>6a. Facts(r, 1, Job("query 1"))
    <3>1. JobFacts(r, 1, Job("query 1"))
      <4>1. "query 1" \in Jobs
        BY Zenon DEF Jobs
      <4>2. 1 + 1 = 2
        OBVIOUS
      <4>3. FailFacts(r, 1 + 1)
        BY <2>5, <4>2, Zenon
      <4>4. ASSUME NEW op, op = Job("query 1") PROVE op[1] = "submit" /\ op[2] = "query 1"
        BY <4>4, Zenon DEF Job
      <4> QED
        BY <4>1, <4>3, <4>4, Zenon DEF JobFacts
    <3>2. ReadingFacts(r, 1, Job("query 1")) /\ BatchFacts(r, 1, Job("query 1")) /\ LockFacts(r, 1, Job("query 1"))
      BY Zenon DEF ReadingFacts, BatchFacts, LockFacts, InGuard, InBatch, HoldsPool, BeforeBatch, EntryPoints, Job,
             LockedTXN
    <3> QED
      BY <3>1, <3>2, Zenon DEF Facts
  <2>6b. Facts(r, 2, Job("query 2"))
    <3>1. JobFacts(r, 2, Job("query 2"))
      <4>1. "query 2" \in Jobs
        BY Zenon DEF Jobs
      <4>2. 2 + 1 = 3
        OBVIOUS
      <4>3. FailFacts(r, 2 + 1)
        BY <2>5, <4>2, Zenon
      <4>4. ASSUME NEW op, op = Job("query 2") PROVE op[1] = "submit" /\ op[2] = "query 2"
        BY <4>4, Zenon DEF Job
      <4> QED
        BY <4>1, <4>3, <4>4, Zenon DEF JobFacts
    <3>2. ReadingFacts(r, 2, Job("query 2")) /\ BatchFacts(r, 2, Job("query 2")) /\ LockFacts(r, 2, Job("query 2"))
      BY Zenon DEF ReadingFacts, BatchFacts, LockFacts, InGuard, InBatch, HoldsPool, BeforeBatch, EntryPoints, Job,
             LockedTXN
    <3> QED
      BY <3>1, <3>2, Zenon DEF Facts
  <2>6c. /\ Facts(r, 3, Wait)
    BY <2>5, Zenon DEF
      Facts, ReadingFacts, BatchFacts, LockFacts, JobFacts, InGuard, InBatch, HoldsPool, BeforeBatch,
      EntryPoints, LockedTXN, Wait
  <2>7. ~ InGuard(r, 4) /\ ~ InBatch(r, 4)
    BY Zenon DEF InGuard, InBatch
  <2> HIDE DEF r, ops
  <2>8a. \A pc \in 1 .. 1 : Facts(r, pc, ops[pc])
    <3>1. \A pc \in 1 .. 1 : pc \in {1}
      OBVIOUS
    <3> QED
      BY <2>4, <2>6a, <3>1, Zenon
  <2>8b. \A pc \in 2 .. 2 : Facts(r, pc, ops[pc])
    <3>1. \A pc \in 2 .. 2 : pc \in {2}
      OBVIOUS
    <3> QED
      BY <2>4, <2>6b, <3>1, Zenon
  <2>8c. \A pc \in 3 .. 3 : Facts(r, pc, ops[pc])
    <3>1. \A pc \in 3 .. 3 : pc \in {3}
      OBVIOUS
    <3> QED
      BY <2>4, <2>6c, <3>1, Zenon
  <2>9. Len(Ops(r)) \in Nat /\ Len(Ops(r)) + 1 = 4
    BY <2>3a
  <2>10. \A pc \in 1 .. Len(Ops(r)) : Facts(r, pc, Ops(r)[pc])
    <3>1. ASSUME NEW pc \in 1 .. 3 PROVE Facts(r, pc, ops[pc])
      BY <2>8a, <2>8b, <2>8c
    <3> QED
      BY <2>3, <2>3a, <3>1, Zenon
  <2>11. RoutineFacts(r)
    BY <2>7, <2>9, <2>10, Zenon DEF RoutineFacts
  <2> QED
    BY <2>11, Zenon DEF r

<1>FactsLoadTxt2. RoutineFacts("load_txt 2")
  <2> DEFINE r == "load_txt 2"
             ops == load_txt("query 3", "query 4")
  <2>1. r \in Routines
    BY ThreadAssumption, Zenon DEF EntryPoints, Called, Jobs
  <2>2. Len(ops) = 3
    BY Zenon DEF load_txt
  <2>3. Ops(r) = ops /\ Code[r].fail = 4
    BY <2>1, <2>2, Zenon DEF Ops, Code
  <2>3a. Len(Ops(r)) = 3
    BY <2>2, <2>3, Zenon
  <2>4. /\ ops[1] = Job("query 3") /\ ops[2] = Job("query 4") /\ ops[3] = Wait
    BY Zenon DEF load_txt
  <2>5. FailFacts(r, 2) /\ FailFacts(r, 3)
    <3>1. JumpFacts(r, 2, 4) /\ JumpFacts(r, 3, 4)
      BY Zenon DEF JumpFacts, InGuard, InBatch, HoldsPool, BeforeBatch
    <3> HIDE DEF r, ops
    <3>2. Code[r].fail \in 1 .. Len(Ops(r)) + 1
      BY <2>3, <2>3a
    <3> QED
      BY <2>3, <3>1, <3>2, Zenon DEF FailFacts
  <2>6a. Facts(r, 1, Job("query 3"))
    <3>1. JobFacts(r, 1, Job("query 3"))
      <4>1. "query 3" \in Jobs
        BY Zenon DEF Jobs
      <4>2. 1 + 1 = 2
        OBVIOUS
      <4>3. FailFacts(r, 1 + 1)
        BY <2>5, <4>2, Zenon
      <4>4. ASSUME NEW op, op = Job("query 3") PROVE op[1] = "submit" /\ op[2] = "query 3"
        BY <4>4, Zenon DEF Job
      <4> QED
        BY <4>1, <4>3, <4>4, Zenon DEF JobFacts
    <3>2. ReadingFacts(r, 1, Job("query 3")) /\ BatchFacts(r, 1, Job("query 3")) /\ LockFacts(r, 1, Job("query 3"))
      BY Zenon DEF ReadingFacts, BatchFacts, LockFacts, InGuard, InBatch, HoldsPool, BeforeBatch, EntryPoints, Job,
             LockedTXN
    <3> QED
      BY <3>1, <3>2, Zenon DEF Facts
  <2>6b. Facts(r, 2, Job("query 4"))
    <3>1. JobFacts(r, 2, Job("query 4"))
      <4>1. "query 4" \in Jobs
        BY Zenon DEF Jobs
      <4>2. 2 + 1 = 3
        OBVIOUS
      <4>3. FailFacts(r, 2 + 1)
        BY <2>5, <4>2, Zenon
      <4>4. ASSUME NEW op, op = Job("query 4") PROVE op[1] = "submit" /\ op[2] = "query 4"
        BY <4>4, Zenon DEF Job
      <4> QED
        BY <4>1, <4>3, <4>4, Zenon DEF JobFacts
    <3>2. ReadingFacts(r, 2, Job("query 4")) /\ BatchFacts(r, 2, Job("query 4")) /\ LockFacts(r, 2, Job("query 4"))
      BY Zenon DEF ReadingFacts, BatchFacts, LockFacts, InGuard, InBatch, HoldsPool, BeforeBatch, EntryPoints, Job,
             LockedTXN
    <3> QED
      BY <3>1, <3>2, Zenon DEF Facts
  <2>6c. /\ Facts(r, 3, Wait)
    BY <2>5, Zenon DEF
      Facts, ReadingFacts, BatchFacts, LockFacts, JobFacts, InGuard, InBatch, HoldsPool, BeforeBatch,
      EntryPoints, LockedTXN, Wait
  <2>7. ~ InGuard(r, 4) /\ ~ InBatch(r, 4)
    BY Zenon DEF InGuard, InBatch
  <2> HIDE DEF r, ops
  <2>8a. \A pc \in 1 .. 1 : Facts(r, pc, ops[pc])
    <3>1. \A pc \in 1 .. 1 : pc \in {1}
      OBVIOUS
    <3> QED
      BY <2>4, <2>6a, <3>1, Zenon
  <2>8b. \A pc \in 2 .. 2 : Facts(r, pc, ops[pc])
    <3>1. \A pc \in 2 .. 2 : pc \in {2}
      OBVIOUS
    <3> QED
      BY <2>4, <2>6b, <3>1, Zenon
  <2>8c. \A pc \in 3 .. 3 : Facts(r, pc, ops[pc])
    <3>1. \A pc \in 3 .. 3 : pc \in {3}
      OBVIOUS
    <3> QED
      BY <2>4, <2>6c, <3>1, Zenon
  <2>9. Len(Ops(r)) \in Nat /\ Len(Ops(r)) + 1 = 4
    BY <2>3a
  <2>10. \A pc \in 1 .. Len(Ops(r)) : Facts(r, pc, Ops(r)[pc])
    <3>1. ASSUME NEW pc \in 1 .. 3 PROVE Facts(r, pc, ops[pc])
      BY <2>8a, <2>8b, <2>8c
    <3> QED
      BY <2>3, <2>3a, <3>1, Zenon
  <2>11. RoutineFacts(r)
    BY <2>7, <2>9, <2>10, Zenon DEF RoutineFacts
  <2> QED
    BY <2>11, Zenon DEF r

<1>FactsRefresh. RoutineFacts("refresh")
  <2> DEFINE r == "refresh"
  <2>1. r \in Routines
    BY ThreadAssumption, Zenon DEF EntryPoints, Called, Jobs
  <2>2. Len(refresh) = 3
    BY Zenon DEF refresh
  <2>3. Ops(r) = refresh /\ Code[r].fail = 4
    BY <2>1, <2>2, Zenon DEF Ops, Code
  <2>3a. Len(Ops(r)) = 3
    BY <2>2, <2>3, Zenon
  <2>4. /\ refresh[1] = Job("pull") /\ refresh[2] = Call("process") /\ refresh[3] = Wait
    BY Zenon DEF refresh
  <2>5. FailFacts(r, 2) /\ FailFacts(r, 3)
    <3>1. JumpFacts(r, 2, 4) /\ JumpFacts(r, 3, 4)
      BY Zenon DEF JumpFacts, InGuard, InBatch, HoldsPool, BeforeBatch
    <3> HIDE DEF r
    <3>2. Code[r].fail \in 1 .. Len(Ops(r)) + 1
      BY <2>3, <2>3a
    <3> QED
      BY <2>3, <3>1, <3>2, Zenon DEF FailFacts
  <2>6. /\ Facts(r, 1, Job("pull")) /\ Facts(r, 2, Call("process")) /\ Facts(r, 3, Wait)
    BY <2>5 DEF
      Facts, ReadingFacts, BatchFacts, LockFacts, JobFacts, InGuard, InBatch, HoldsPool, BeforeBatch,
      EntryPoints, Jobs, Called, Call, Job, LockedTXN, Wait
  <2>7. ~ InGuard(r, 4) /\ ~ InBatch(r, 4)
    BY Zenon DEF InGuard, InBatch
  <2> HIDE DEF r
  <2>8. \A pc \in 1 .. 3 : Facts(r, pc, refresh[pc])
    <3>1. \A pc \in 1 .. 3 : pc \in {1, 2, 3}
      OBVIOUS
    <3> QED
      BY <2>4, <2>6, <3>1, Zenon
  <2>9. Len(Ops(r)) \in Nat /\ Len(Ops(r)) + 1 = 4
    BY <2>3a
  <2>10. \A pc \in 1 .. Len(Ops(r)) : Facts(r, pc, Ops(r)[pc])
    BY <2>3, <2>3a, <2>8, Zenon
  <2>11. RoutineFacts(r)
    BY <2>7, <2>9, <2>10, Zenon DEF RoutineFacts
  <2> QED
    BY <2>11, Zenon DEF r

<1>FactsProcess. RoutineFacts("process")
  <2> DEFINE r == "process"
  <2>1. r \in Routines
    BY ThreadAssumption, Zenon DEF EntryPoints, Called, Jobs
  <2>2. Len(process) = 5
    BY Zenon DEF process
  <2>3. Ops(r) = process /\ Code[r].fail = 6
    BY <2>1, <2>2, Zenon DEF Ops, Code
  <2>3a. Len(Ops(r)) = 5
    BY <2>2, <2>3, Zenon
  <2>4. /\ process[1] = Job("cache 1") /\ process[2] = Job("cache 2") /\ process[3] = Wait
        /\ process[4] = Job("derive") /\ process[5] = Wait
    BY Zenon DEF process
  <2>5. FailFacts(r, 2) /\ FailFacts(r, 3) /\ FailFacts(r, 5)
    <3>1. JumpFacts(r, 2, 6) /\ JumpFacts(r, 3, 6) /\ JumpFacts(r, 5, 6)
      BY Zenon DEF JumpFacts, InGuard, InBatch, HoldsPool, BeforeBatch
    <3> HIDE DEF r
    <3>2. Code[r].fail \in 1 .. Len(Ops(r)) + 1
      BY <2>3, <2>3a
    <3> QED
      BY <2>3, <3>1, <3>2, Zenon DEF FailFacts
  <2>6. /\ Facts(r, 1, Job("cache 1")) /\ Facts(r, 2, Job("cache 2")) /\ Facts(r, 3, Wait)
        /\ Facts(r, 4, Job("derive")) /\ Facts(r, 5, Wait)
    BY <2>5 DEF
      Facts, ReadingFacts, BatchFacts, LockFacts, JobFacts, InGuard, InBatch, HoldsPool, BeforeBatch,
      EntryPoints, Jobs, Job, LockedTXN, Wait
  <2>7. ~ InGuard(r, 6) /\ ~ InBatch(r, 6)
    BY Zenon DEF InGuard, InBatch
  <2> HIDE DEF r
  <2>8. \A pc \in 1 .. 5 : Facts(r, pc, process[pc])
    <3>1. \A pc \in 1 .. 5 : pc \in {1, 2, 3, 4, 5}
      OBVIOUS
    <3> QED
      BY <2>4, <2>6, <3>1, Zenon
  <2>9. Len(Ops(r)) \in Nat /\ Len(Ops(r)) + 1 = 6
    BY <2>3a
  <2>10. \A pc \in 1 .. Len(Ops(r)) : Facts(r, pc, Ops(r)[pc])
    BY <2>3, <2>3a, <2>8, Zenon
  <2>11. RoutineFacts(r)
    BY <2>7, <2>9, <2>10, Zenon DEF RoutineFacts
  <2> QED
    BY <2>11, Zenon DEF r

<1>FactsPull. RoutineFacts("pull")
  <2> DEFINE r == "pull"
  <2>1. r \in Routines
    BY ThreadAssumption, Zenon DEF EntryPoints, Called, Jobs
  <2>2. Len(pull) = 3
    BY Zenon DEF pull
  <2>3. Ops(r) = pull /\ Code[r].fail = 4
    BY <2>1, <2>2, Zenon DEF Ops, Code
  <2>3a. Len(Ops(r)) = 3
    BY <2>2, <2>3, Zenon
  <2>4. /\ pull[1] = Job("parse 1") /\ pull[2] = Job("parse 2") /\ pull[3] = Wait
    BY Zenon DEF pull
  <2>5. FailFacts(r, 2) /\ FailFacts(r, 3)
    <3>1. JumpFacts(r, 2, 4) /\ JumpFacts(r, 3, 4)
      BY Zenon DEF JumpFacts, InGuard, InBatch, HoldsPool, BeforeBatch
    <3> HIDE DEF r
    <3>2. Code[r].fail \in 1 .. Len(Ops(r)) + 1
      BY <2>3, <2>3a
    <3> QED
      BY <2>3, <3>1, <3>2, Zenon DEF FailFacts
  <2>6. /\ Facts(r, 1, Job("parse 1")) /\ Facts(r, 2, Job("parse 2")) /\ Facts(r, 3, Wait)
    BY <2>5 DEF
      Facts, ReadingFacts, BatchFacts, LockFacts, JobFacts, InGuard, InBatch, HoldsPool, BeforeBatch,
      EntryPoints, Jobs, Job, LockedTXN, Wait
  <2>7. ~ InGuard(r, 4) /\ ~ InBatch(r, 4)
    BY Zenon DEF InGuard, InBatch
  <2> HIDE DEF r
  <2>8. \A pc \in 1 .. 3 : Facts(r, pc, pull[pc])
    <3>1. \A pc \in 1 .. 3 : pc \in {1, 2, 3}
      OBVIOUS
    <3> QED
      BY <2>4, <2>6, <3>1, Zenon
  <2>9. Len(Ops(r)) \in Nat /\ Len(Ops(r)) + 1 = 4
    BY <2>3a
  <2>10. \A pc \in 1 .. Len(Ops(r)) : Facts(r, pc, Ops(r)[pc])
    BY <2>3, <2>3a, <2>8, Zenon
  <2>11. RoutineFacts(r)
    BY <2>7, <2>9, <2>10, Zenon DEF RoutineFacts
  <2> QED
    BY <2>11, Zenon DEF r

<1>FactsOneRead. ASSUME NEW r, Ops(r) = <<Read>>, Facts(r, 1, Read), ~ InGuard(r, 2), ~ InBatch(r, 2)
                      PROVE  RoutineFacts(r)
  <2> USE <1>FactsOneRead
  <2>1. Len(Ops(r)) = 1 /\ Ops(r)[1] = Read
    OBVIOUS
  <2>2. Len(Ops(r)) \in Nat /\ Len(Ops(r)) + 1 = 2
    BY <2>1
  <2>3. \A pc \in 1 .. Len(Ops(r)) : Facts(r, pc, Ops(r)[pc])
    BY <2>1
  <2> QED
    BY <2>2, <2>3, Zenon DEF RoutineFacts

<1>FactsNoCalls. ASSUME NEW r, Ops(r) = <<>>, ~ InGuard(r, 1), ~ InBatch(r, 1)
                      PROVE  RoutineFacts(r)
  <2> USE <1>FactsNoCalls
  <2>1. Len(Ops(r)) = 0
    OBVIOUS
  <2>2. Len(Ops(r)) \in Nat /\ Len(Ops(r)) + 1 = 1
    BY <2>1
  <2>3. \A pc \in 1 .. Len(Ops(r)) : Facts(r, pc, Ops(r)[pc])
    BY <2>1
  <2> QED
    BY <2>2, <2>3, Zenon DEF RoutineFacts

<1>FactsHash. ASSUME NEW r \in {"longhash 1", "longhash 2"} PROVE RoutineFacts(r)
  <2> USE <1>FactsHash
  <2>1. r \in Routines
    BY ThreadAssumption, Zenon DEF EntryPoints, Called, Jobs
  <2>2. Ops(r) = <<Read>>
    BY <2>1, Zenon DEF Ops, Code
  <2>3. Facts(r, 1, Read)
    BY Zenon DEF Facts, ReadingFacts, BatchFacts, LockFacts, JobFacts, InGuard, InBatch, HoldsPool, BeforeBatch,
           Read, LockedTXN
  <2>4. ~ InGuard(r, 2) /\ ~ InBatch(r, 2)
    BY Zenon DEF InGuard, InBatch
  <2> QED
    BY <2>2, <2>3, <2>4, <1>FactsOneRead, Zenon

<1>FactsShort.
  ASSUME NEW r \in Jobs, r \notin {"longhash 1", "longhash 2", "pull"} PROVE RoutineFacts(r)
  <2> USE <1>FactsShort
  <2>1. r \in Routines
    BY ThreadAssumption, Zenon DEF Jobs
  <2>2. Ops(r) = <<>>
    BY <2>1, Zenon DEF Ops, Code, Jobs
  <2>3. ~ InGuard(r, 1) /\ ~ InBatch(r, 1)
    BY Zenon DEF InGuard, InBatch, Jobs
  <2> QED
    BY <2>2, <2>3, <1>FactsNoCalls, Zenon

<1>1. ASSUME NEW r \in EntryPoints PROVE RoutineFacts(r)
  BY <1>FactsIncomingBlocks, <1>FactsIncomingTx, <1>FactsSetRelayed, <1>FactsGetObjects, <1>FactsGetHeight,
     <1>FactsGetDistribution, <1>FactsLoadTxt1, <1>FactsLoadTxt2, <1>FactsRefresh, Zenon DEF EntryPoints
<1>2. ASSUME NEW r \in Called PROVE RoutineFacts(r)
  BY <1>FactsTakeTx, <1>FactsProcess, Zenon DEF Called
<1>3. ASSUME NEW r \in Jobs PROVE RoutineFacts(r)
  BY <1>FactsHash, <1>FactsShort, <1>FactsPull, Zenon
<1> QED
  BY <1>1, <1>2, <1>3, Zenon DEF Names

----------------------------------------------------------------------------
(* The stack of a thread. *)

LEMMA NotEmpty == \A F : \A s \in Seq(F) : Len(s) \in Nat /\ (s # <<>> <=> Len(s) > 0)
  OBVIOUS

\* Its innermost routine calls another.
LEMMA PushAt ==
  ASSUME NEW F, NEW s \in Seq(F), NEW f \in F
  PROVE  LET s2 == <<f>> \o s
         IN /\ s2 \in Seq(F) /\ s2 # <<>> /\ s2[1] = f /\ Len(s2) = Len(s) + 1 /\ Len(s) \in Nat
            /\ At(s2, Len(s) + 1) = f
            /\ \A k \in 1 .. Len(s) : At(s2, k) = At(s, k)
<1> DEFINE s2 == <<f>> \o s
<1>1. Len(s) \in Nat
  OBVIOUS
<1>2. s2 \in Seq(F) /\ Len(s2) = Len(s) + 1 /\ s2[1] = f
  OBVIOUS
<1>3. \A i \in 2 .. Len(s) + 1 : s2[i] = s[i - 1]
  OBVIOUS
<1> HIDE DEF s2
<1>4. At(s2, Len(s) + 1) = f
  BY <1>1, <1>2 DEF At
<1>5. ASSUME NEW k \in 1 .. Len(s) PROVE At(s2, k) = At(s, k)
  <2>1. Len(s) + 1 + 1 - k \in 2 .. Len(s) + 1 /\ (Len(s) + 1 + 1 - k) - 1 = Len(s) + 1 - k
    BY <1>1
  <2> QED
    BY <1>2, <1>3, <2>1, Zenon DEF At
<1>6. s2 # <<>>
  BY <1>1, <1>2, NotEmpty
<1> QED
  BY <1>1, <1>2, <1>4, <1>5, <1>6, Zenon DEF s2

\* It ends.
LEMMA PopAt ==
  ASSUME NEW F, NEW s \in Seq(F), s # <<>>
  PROVE  /\ Tail(s) \in Seq(F) /\ Len(Tail(s)) = Len(s) - 1 /\ Len(s) \in Nat \ {0}
         /\ At(s, Len(s)) = s[1]
         /\ \A k \in 1 .. Len(s) - 1 : At(Tail(s), k) = At(s, k)
<1>1. Len(s) \in Nat /\ Len(s) > 0
  BY NotEmpty
<1> DEFINE tl == Tail(s)
<1>2. tl \in Seq(F) /\ Len(tl) = Len(s) - 1 /\ \A i \in 1 .. Len(s) - 1 : tl[i] = s[i + 1]
  BY <1>1
<1> HIDE DEF tl
<1>3. ASSUME NEW k \in 1 .. Len(s) - 1 PROVE At(tl, k) = At(s, k)
  <2>1. (Len(s) - 1) + 1 - k \in 1 .. Len(s) - 1 /\ ((Len(s) - 1) + 1 - k) + 1 = Len(s) + 1 - k
    BY <1>1
  <2> QED
    BY <1>2, <2>1, Zenon DEF At
<1>4. At(s, Len(s)) = s[1]
  BY <1>1 DEF At
<1> QED
  BY <1>1, <1>2, <1>3, <1>4 DEF tl

\* It goes on.
LEMMA ReplaceAt ==
  ASSUME NEW F, NEW s \in Seq(F), s # <<>>, NEW f \in F
  PROVE  LET s2 == <<f>> \o Tail(s)
         IN /\ s2 \in Seq(F) /\ s2 # <<>> /\ s2[1] = f /\ Len(s2) = Len(s) /\ Len(s) \in Nat \ {0}
            /\ At(s2, Len(s)) = f /\ At(s, Len(s)) = s[1]
            /\ \A k \in 1 .. Len(s) - 1 : At(s2, k) = At(s, k)
<1> DEFINE tl == Tail(s)
           s2 == <<f>> \o tl
<1>1. /\ tl \in Seq(F) /\ Len(tl) = Len(s) - 1 /\ Len(s) \in Nat \ {0} /\ At(s, Len(s)) = s[1]
      /\ \A k \in 1 .. Len(s) - 1 : At(tl, k) = At(s, k)
  BY PopAt, Zenon
<1> HIDE DEF tl
<1>2. /\ s2 \in Seq(F) /\ s2 # <<>> /\ s2[1] = f /\ Len(s2) = Len(tl) + 1
      /\ At(s2, Len(tl) + 1) = f
      /\ \A k \in 1 .. Len(tl) : At(s2, k) = At(tl, k)
  BY <1>1, PushAt
<1> HIDE DEF s2
<1>3. Len(tl) + 1 = Len(s)
  BY <1>1
<1>4. ASSUME NEW k \in 1 .. Len(s) - 1 PROVE At(s2, k) = At(s, k)
  BY <1>1, <1>2, Zenon
<1> QED
  BY <1>1, <1>2, <1>3, <1>4, Zenon DEF s2, tl

LEMMA FrameIsFrame == \A f : FrameInv(f) => f \in Frames
  BY Zenon DEF FrameInv

LEMMA TopInv ==
  ASSUME NEW s, StackInv(s), s # <<>>
  PROVE  s \in Seq(Frames) /\ Len(s) \in Nat \ {0} /\ At(s, Len(s)) = s[1] /\ FrameInv(s[1])
<1>1. s \in Seq(Frames)
  BY Zenon DEF StackInv
<1>2. Len(s) \in Nat \ {0} /\ At(s, Len(s)) = s[1]
  BY <1>1, PopAt, Zenon
<1>3. Len(s) \in 1 .. Len(s)
  BY <1>2
<1> QED
  BY <1>1, <1>2, <1>3, Zenon DEF StackInv

\* An entry point is the bottom of its stack.
LEMMA EntryAlone ==
  ASSUME NEW s, StackInv(s), s # <<>>
  PROVE  s[1].r \in EntryPoints => Len(s) = 1
<1> DEFINE n == Len(s)
<1>1. n \in Nat \ {0} /\ At(s, n) = s[1]
  BY TopInv, Zenon
<1>2. \A k \in 1 .. n - 1 : At(s, k + 1).r \notin EntryPoints
  BY Zenon DEF StackInv
<1> HIDE DEF n
<1>3. SUFFICES ASSUME n # 1 PROVE s[1].r \notin EntryPoints
  BY Zenon DEF n
<1>4. n - 1 \in 1 .. n - 1 /\ (n - 1) + 1 = n
  <2>1. n \in Nat \ {0}
    BY <1>1, Zenon
  <2> QED
    BY <1>3, <2>1
<1> QED
  BY <1>1, <1>2, <1>4, Zenon

LEMMA ReplaceInv ==
  ASSUME NEW s, StackInv(s), s # <<>>, NEW f, FrameInv(f), f.r = s[1].r, f.how = s[1].how
  PROVE  StackInv(<<f>> \o Tail(s))
<1> DEFINE s2 == <<f>> \o Tail(s)
           n == Len(s)
<1>1. s \in Seq(Frames) /\ f \in Frames
  BY FrameIsFrame, Zenon DEF StackInv
<1>2. /\ s2 \in Seq(Frames) /\ Len(s2) = n /\ n \in Nat \ {0} /\ s2 # <<>>
      /\ At(s2, n) = f /\ At(s, n) = s[1]
      /\ \A k \in 1 .. n - 1 : At(s2, k) = At(s, k)
  BY <1>1, ReplaceAt
<1>3. /\ \A k \in 1 .. n : FrameInv(At(s, k))
      /\ At(s, 1).how # "inline"
      /\ \A k \in 1 .. n - 1 : /\ At(s, k).at \in {"", "unwind"}
                               /\ At(s, k + 1).r \notin EntryPoints
                               /\ At(s, k + 1).how = "inline" => AfterSubmit(At(s, k))
  BY Zenon DEF StackInv
<1> HIDE DEF s2, n, At
<1>4. ASSUME NEW k \in 1 .. n PROVE FrameInv(At(s2, k)) /\ At(s2, k).r = At(s, k).r /\ At(s2, k).how = At(s, k).how
  <2>1. CASE k = n
    BY <1>2, <2>1, Zenon
  <2>2. CASE k \in 1 .. n - 1
    BY <1>2, <1>3, <2>2, Zenon
  <2> QED
    BY <1>2, <2>1, <2>2
<1>5. ASSUME NEW k \in 1 .. n - 1
      PROVE  /\ At(s2, k).at \in {"", "unwind"}
             /\ At(s2, k + 1).r \notin EntryPoints
             /\ At(s2, k + 1).how = "inline" => AfterSubmit(At(s2, k))
  <2>1. k + 1 \in 1 .. n
    BY <1>2
  <2>2. At(s2, k) = At(s, k)
    BY <1>2, Zenon
  <2>3. At(s2, k + 1).r = At(s, k + 1).r /\ At(s2, k + 1).how = At(s, k + 1).how
    BY <1>4, <2>1, Zenon
  <2> QED
    BY <1>3, <2>2, <2>3, Zenon
<1>6. At(s2, 1).how # "inline"
  <2>1. 1 \in 1 .. n
    BY <1>2
  <2> QED
    BY <1>3, <1>4, <2>1, Zenon
<1> QED
  BY <1>2, <1>4, <1>5, <1>6, Zenon DEF StackInv, s2

CanCall(s, f) ==
  /\ s = <<>> => f.how # "inline"
  /\ s # <<>> => /\ s[1].at \in {"", "unwind"} /\ f.r \notin EntryPoints
                 /\ f.how = "inline" => AfterSubmit(s[1])

LEMMA PushInv ==
  ASSUME NEW s, StackInv(s), NEW f, FrameInv(f), CanCall(s, f)
  PROVE  StackInv(<<f>> \o s)
<1> DEFINE s2 == <<f>> \o s
           n == Len(s)
<1>1. s \in Seq(Frames) /\ f \in Frames
  BY FrameIsFrame, Zenon DEF StackInv
<1>2. /\ s2 \in Seq(Frames) /\ Len(s2) = n + 1 /\ n \in Nat /\ s2 # <<>>
      /\ At(s2, n + 1) = f
      /\ \A k \in 1 .. n : At(s2, k) = At(s, k)
  BY <1>1, PushAt
<1>3. /\ \A k \in 1 .. n : FrameInv(At(s, k))
      /\ s # <<>> => At(s, 1).how # "inline"
      /\ \A k \in 1 .. n - 1 : /\ At(s, k).at \in {"", "unwind"}
                               /\ At(s, k + 1).r \notin EntryPoints
                               /\ At(s, k + 1).how = "inline" => AfterSubmit(At(s, k))
  BY Zenon DEF StackInv
<1>4. s # <<>> => n # 0 /\ At(s, n) = s[1]
  BY TopInv, Zenon
<1>5. s = <<>> => n = 0
  OBVIOUS
<1> HIDE DEF s2, n, At
<1>6. ASSUME NEW k \in 1 .. n + 1 PROVE FrameInv(At(s2, k))
  <2>1. CASE k = n + 1
    BY <1>2, <2>1, Zenon
  <2>2. CASE k \in 1 .. n
    BY <1>2, <1>3, <2>2, Zenon
  <2> QED
    BY <1>2, <2>1, <2>2
<1>7. ASSUME NEW k \in 1 .. n
      PROVE  /\ At(s2, k).at \in {"", "unwind"}
             /\ At(s2, k + 1).r \notin EntryPoints
             /\ At(s2, k + 1).how = "inline" => AfterSubmit(At(s2, k))
  <2>1. At(s2, k) = At(s, k)
    BY <1>2, Zenon
  <2>2. CASE k = n
    <3>1. s # <<>> /\ At(s2, k) = s[1] /\ At(s2, k + 1) = f
      BY <1>2, <1>4, <1>5, <2>1, <2>2
    <3> QED
      BY <3>1, Zenon DEF CanCall
  <2>3. CASE k \in 1 .. n - 1
    <3>1. At(s2, k + 1) = At(s, k + 1)
      BY <1>2, <2>3
    <3> QED
      BY <1>3, <2>1, <2>3, <3>1, Zenon
  <2>4. k = n \/ k \in 1 .. n - 1
    BY <1>2
  <2> QED
    BY <2>2, <2>3, <2>4, Zenon
<1>8. At(s2, 1).how # "inline"
  <2>1. CASE s = <<>>
    <3>1. At(s2, 1) = f
      BY <1>2, <1>5, <2>1
    <3> QED
      BY <2>1, <3>1, Zenon DEF CanCall
  <2>2. CASE s # <<>>
    <3>1. 1 \in 1 .. n
      BY <1>2, <1>4, <2>2
    <3> QED
      BY <1>2, <1>3, <2>2, <3>1, Zenon
  <2> QED
    BY <2>1, <2>2, Zenon
<1>9. Len(s2) - 1 = n
  BY <1>2
<1> QED
  BY <1>2, <1>6, <1>7, <1>8, <1>9, Zenon DEF StackInv, s2

LEMMA PopInv ==
  ASSUME NEW s, StackInv(s), s # <<>>
  PROVE  StackInv(Tail(s)) /\ (Tail(s) # <<>> => Tail(s)[1].at \in {"", "unwind"})
<1> DEFINE s2 == Tail(s)
           n == Len(s)
<1>1. s \in Seq(Frames)
  BY Zenon DEF StackInv
<1>2. /\ s2 \in Seq(Frames) /\ Len(s2) = n - 1 /\ n \in Nat \ {0}
      /\ \A k \in 1 .. n - 1 : At(s2, k) = At(s, k)
  BY <1>1, PopAt, Zenon
<1>3. /\ \A k \in 1 .. n : FrameInv(At(s, k))
      /\ At(s, 1).how # "inline"
      /\ \A k \in 1 .. n - 1 : /\ At(s, k).at \in {"", "unwind"}
                               /\ At(s, k + 1).r \notin EntryPoints
                               /\ At(s, k + 1).how = "inline" => AfterSubmit(At(s, k))
  BY Zenon DEF StackInv
<1>4. s2 # <<>> => Len(s2) # 0
  BY <1>2, NotEmpty
<1> HIDE DEF s2, n, At
<1>5. ASSUME NEW k \in 1 .. n - 1 PROVE FrameInv(At(s2, k)) /\ At(s2, k).at \in {"", "unwind"}
  <2>1. k \in 1 .. n
    BY <1>2
  <2> QED
    BY <1>2, <1>3, <2>1, Zenon
<1>6. ASSUME NEW k \in 1 .. (n - 1) - 1
      PROVE  /\ At(s2, k).at \in {"", "unwind"}
             /\ At(s2, k + 1).r \notin EntryPoints
             /\ At(s2, k + 1).how = "inline" => AfterSubmit(At(s2, k))
  <2>1. k \in 1 .. n - 1 /\ k + 1 \in 1 .. n - 1
    BY <1>2
  <2> QED
    BY <1>2, <1>3, <2>1, Zenon
<1>7. s2 # <<>> => At(s2, 1).how # "inline"
  <2>1. s2 # <<>> => 1 \in 1 .. n - 1
    BY <1>2, <1>4
  <2> QED
    BY <1>2, <1>3, <2>1, Zenon
<1>8. StackInv(s2)
  BY <1>2, <1>5, <1>6, <1>7, Zenon DEF StackInv
<1>9. ASSUME s2 # <<>> PROVE s2[1].at \in {"", "unwind"}
  <2>1. At(s2, n - 1) = s2[1] /\ n - 1 \in 1 .. n - 1
    BY <1>2, <1>8, <1>9, TopInv
  <2> QED
    BY <1>5, <2>1, Zenon
<1> QED
  BY <1>8, <1>9, Zenon DEF s2

\* What the stack has in the count and whether it has the lock of the pool.
LEMMA ReplaceHas ==
  ASSUME NEW s, StackInv(s), s # <<>>, NEW f, FrameInv(f)
  PROVE  LET s2 == <<f>> \o Tail(s)
         IN /\ \A k, kind : Has(s2, k, kind) <=> IF k = Len(s) THEN kind \in Kinds(f) ELSE Has(s, k, kind)
            /\ \A kind : Has(s, Len(s), kind) <=> kind \in Kinds(s[1])
            /\ Holds(s2) => Holds(s) \/ HoldsPool(f.r, f.pc)
            /\ HoldsPool(s[1].r, s[1].pc) => Holds(s)
            /\ Len(s) = 1 /\ Holds(s2) => HoldsPool(f.r, f.pc)
<1> DEFINE s2 == <<f>> \o Tail(s)
           n == Len(s)
<1>1. s \in Seq(Frames) /\ f \in Frames
  BY FrameIsFrame, Zenon DEF StackInv
<1>2. /\ s2 \in Seq(Frames) /\ Len(s2) = n /\ n \in Nat \ {0}
      /\ At(s2, n) = f /\ At(s, n) = s[1]
      /\ \A k \in 1 .. n - 1 : At(s2, k) = At(s, k)
  BY <1>1, ReplaceAt
<1> DEFINE top == s[1]
<1>2a. At(s, n) = top
  BY <1>2, Zenon
<1>2b. n \in Nat \ {0}
  BY <1>2, Zenon
<1> HIDE DEF s2, top
<1>3. Len(s) = n
  BY Zenon
<1> HIDE DEF n
<1>4. n \in 1 .. n /\ \A k : k \in 1 .. n <=> (k = n \/ k \in 1 .. n - 1)
  BY <1>2b
<1>5. ASSUME NEW k, NEW kind
      PROVE  Has(s2, k, kind) <=> IF k = n THEN kind \in Kinds(f) ELSE Has(s, k, kind)
  <2>1. CASE k = n
    BY <1>2, <1>4, <2>1, Zenon DEF Has
  <2>2. CASE k # n
    BY <1>2, <1>3, <1>4, <2>2, Zenon DEF Has
  <2> QED
    BY <2>1, <2>2, Zenon
<1>6. \A kind : Has(s, n, kind) <=> kind \in Kinds(top)
  BY <1>2a, <1>3, <1>4, Zenon DEF Has
<1>7. Holds(s2) => Holds(s) \/ HoldsPool(f.r, f.pc)
  BY <1>2, <1>3, <1>4, Zenon DEF Holds
<1>8. HoldsPool(top.r, top.pc) => Holds(s)
  BY <1>2a, <1>3, <1>4, Zenon DEF Holds
<1>9. ASSUME n = 1, Holds(s2) PROVE HoldsPool(f.r, f.pc)
  <2>1. PICK k \in 1 .. Len(s2) : HoldsPool(At(s2, k).r, At(s2, k).pc)
    BY <1>9, Zenon DEF Holds
  <2>2. k = n
    BY <1>2, <1>9, <2>1
  <2> QED
    BY <1>2, <2>1, <2>2, Zenon
<1> QED
  BY <1>5, <1>6, <1>7, <1>8, <1>9, Zenon DEF s2, n, top

LEMMA PushHas ==
  ASSUME NEW s, StackInv(s), NEW f, FrameInv(f), Kinds(f) = {}
  PROVE  LET s2 == <<f>> \o s
         IN /\ \A k, kind : Has(s2, k, kind) <=> Has(s, k, kind)
            /\ Holds(s2) => Holds(s) \/ HoldsPool(f.r, f.pc)
<1> DEFINE s2 == <<f>> \o s
           n == Len(s)
<1>1. s \in Seq(Frames) /\ f \in Frames
  BY FrameIsFrame, Zenon DEF StackInv
<1>2. /\ s2 \in Seq(Frames) /\ Len(s2) = n + 1 /\ n \in Nat
      /\ At(s2, n + 1) = f
      /\ \A k \in 1 .. n : At(s2, k) = At(s, k)
  BY <1>1, PushAt
<1> HIDE DEF s2
<1>3. Len(s) = n
  BY Zenon
<1> HIDE DEF n
<1>4. \A k : k \in 1 .. n + 1 <=> (k = n + 1 \/ k \in 1 .. n)
  BY <1>2
<1>5. n + 1 \notin 1 .. n
  BY <1>2
<1>6. ASSUME NEW k, NEW kind PROVE Has(s2, k, kind) <=> Has(s, k, kind)
  <2>1. CASE k = n + 1
    BY <1>2, <1>3, <1>5, <2>1, Zenon DEF Has
  <2>2. CASE k # n + 1
    BY <1>2, <1>3, <1>4, <2>2, Zenon DEF Has
  <2> QED
    BY <2>1, <2>2, Zenon
<1>7. Holds(s2) => Holds(s) \/ HoldsPool(f.r, f.pc)
  BY <1>2, <1>3, <1>4, Zenon DEF Holds
<1> QED
  BY <1>6, <1>7, Zenon DEF s2

LEMMA PopHas ==
  ASSUME NEW s, StackInv(s), s # <<>>, Kinds(s[1]) = {}
  PROVE  /\ \A k, kind : Has(Tail(s), k, kind) <=> Has(s, k, kind)
         /\ Holds(Tail(s)) => Holds(s)
<1> DEFINE s2 == Tail(s)
           n == Len(s)
           top == s[1]
<1>1. s \in Seq(Frames)
  BY Zenon DEF StackInv
<1>2. /\ s2 \in Seq(Frames) /\ Len(s2) = n - 1 /\ n \in Nat \ {0}
      /\ At(s, n) = top
      /\ \A k \in 1 .. n - 1 : At(s2, k) = At(s, k)
  BY <1>1, PopAt, Zenon
<1>3. Len(s) = n /\ Kinds(top) = {}
  BY Zenon
<1> HIDE DEF s2, n, top
<1>4. n \in 1 .. n /\ \A k : k \in 1 .. n <=> (k = n \/ k \in 1 .. n - 1)
  BY <1>2
<1>5. n \notin 1 .. n - 1
  BY <1>2
<1>6. ASSUME NEW k, NEW kind PROVE Has(s2, k, kind) <=> Has(s, k, kind)
  <2>1. CASE k = n
    BY <1>2, <1>3, <1>5, <2>1, Zenon DEF Has
  <2>2. CASE k # n
    BY <1>2, <1>3, <1>4, <2>2, Zenon DEF Has
  <2> QED
    BY <2>1, <2>2, Zenon
<1>7. Holds(s2) => Holds(s)
  BY <1>2, <1>3, <1>4, Zenon DEF Holds
<1> QED
  BY <1>6, <1>7, Zenon DEF s2

----------------------------------------------------------------------------
(* A step of a thread. *)

KindNames == {"counted", "reading", "guard", "batch"}

LEMMA TokensOf ==
  \A x : x \in Tokens <=> \E t \in Threads, k \in Nat, kind \in KindNames : x = <<t, k, kind>> /\ Has(stack[t], k, kind)
  BY DEF Tokens, KindNames

LEMMA TokensOfNext ==
  \A x : x \in Tokens' <=> \E t \in Threads, k \in Nat, kind \in KindNames : x = <<t, k, kind>> /\ Has(stack'[t], k, kind)
  BY DEF Tokens, KindNames

\* Only the stack of t changes.
LEMMA SameTokens ==
  ASSUME DOMAIN stack = Threads, NEW t \in Threads, NEW s2, stack' = [stack EXCEPT ![t] = s2],
         \A k, kind : Has(s2, k, kind) <=> Has(stack[t], k, kind)
  PROVE  Tokens' = Tokens
<1>1. \A u \in Threads : \A k, kind : Has(stack'[u], k, kind) <=> Has(stack[u], k, kind)
  BY Zenon
<1>2. \A x : x \in Tokens' <=> x \in Tokens
  BY <1>1, TokensOf, TokensOfNext
<1> QED
  BY <1>2, Zenon

LEMMA TopTokens ==
  ASSUME DOMAIN stack = Threads, NEW t \in Threads, StackInv(stack[t]), stack[t] # <<>>,
         NEW f, FrameInv(f), Set(t, f)
  PROVE  LET n == Len(stack[t])
         IN /\ n \in Nat
            /\ \A kind : <<t, n, kind>> \in Tokens <=> kind \in Kinds(Top(t))
            /\ \A kind : <<t, n, kind>> \in Tokens' <=> kind \in Kinds(f)
            /\ \A x : (\A kind : x # <<t, n, kind>>) => (x \in Tokens' <=> x \in Tokens)
<1> DEFINE s == stack[t]
           s2 == <<f>> \o Tail(s)
           n == Len(s)
<1>1. stack' = [stack EXCEPT ![t] = s2]
  BY Zenon DEF Set
<1>2. \A k, kind : Has(s2, k, kind) <=> IF k = n THEN kind \in Kinds(f) ELSE Has(s, k, kind)
  BY ReplaceHas, Zenon
<1>3. \A kind : Has(s, n, kind) <=> kind \in Kinds(Top(t))
  BY ReplaceHas, Zenon DEF Top
<1>4. n \in Nat
  BY TopInv, Zenon
<1>5. stack'[t] = s2 /\ \A u \in Threads : u # t => stack'[u] = stack[u]
  BY <1>1, Zenon
<1>6. Kinds(f) \subseteq KindNames /\ Kinds(Top(t)) \subseteq KindNames
  BY Zenon DEF Kinds, KindNames
<1> HIDE DEF s2, n
<1>7. \A kind : <<t, n, kind>> \in Tokens <=> kind \in Kinds(Top(t))
  BY <1>3, <1>4, <1>6, TokensOf
<1>8. \A kind : <<t, n, kind>> \in Tokens' <=> kind \in Kinds(f)
  BY <1>2, <1>4, <1>5, <1>6, TokensOfNext
<1>9. ASSUME NEW x, \A kind : x # <<t, n, kind>>
      PROVE  x \in Tokens' <=> x \in Tokens
  <2>1. ASSUME NEW u \in Threads, NEW k \in Nat, NEW kind \in KindNames, x = <<u, k, kind>>
        PROVE  Has(stack'[u], k, kind) <=> Has(stack[u], k, kind)
    <3>1. u # t \/ k # n
      BY <1>9, <2>1, Zenon
    <3> QED
      BY <1>2, <1>5, <3>1, Zenon
  <2> QED
    BY <2>1, TokensOf, TokensOfNext
<1> QED
  BY <1>4, <1>7, <1>8, <1>9, Zenon DEF n

LEMMA CountSame ==
  ASSUME CountInv, Tokens' = Tokens, num_active_txns' = num_active_txns, rtxn' = rtxn, batch' = batch
  PROVE  CountInv'
  BY Zenon DEF CountInv, HasToken

LEMMA CountAdd ==
  ASSUME Counting, CountInv, NEW x, x \notin Tokens, Tokens' = Tokens \cup {x},
         num_active_txns' = num_active_txns + 1, rtxn' = rtxn, batch' = batch
  PROVE  CountInv'
<1>1. IsFiniteSet(Tokens') /\ Cardinality(Tokens') = Cardinality(Tokens) + 1
  BY Zenon DEF Counting, CountInv
<1> QED
  BY <1>1, Zenon DEF CountInv, HasToken

LEMMA CountRemove ==
  ASSUME Counting, CountInv, NEW t, NEW k, NEW a, <<t, k, a>> \in Tokens, Tokens' = Tokens \ {<<t, k, a>>},
         num_active_txns' = num_active_txns - 1,
         rtxn' \subseteq rtxn, a \in {"reading", "guard"} => t \notin rtxn',
         batch' \in {batch, None}, a = "batch" => batch' = None
  PROVE  CountInv'
<1>1. IsFiniteSet(Tokens') /\ Cardinality(Tokens') = Cardinality(Tokens) - 1
  BY Zenon DEF Counting, CountInv
<1>2. ASSUME NEW u \in rtxn' PROVE HasToken(u, {"reading", "guard"})'
  <2>1. PICK j \in Nat, kind \in {"reading", "guard"} : <<u, j, kind>> \in Tokens
    BY <1>2, Zenon DEF CountInv, HasToken
  <2>2. <<u, j, kind>> # <<t, k, a>>
    <3>1. u # t \/ kind # a
      BY Zenon
    <3> QED
      BY <3>1, Zenon
  <2>3. <<u, j, kind>> \in Tokens'
    BY <2>1, <2>2, Zenon
  <2> QED
    BY <2>3, Zenon DEF HasToken
<1>3. ASSUME batch' # None PROVE HasToken(batch, {"batch"})'
  <2>1. batch' = batch /\ a # "batch"
    BY <1>3, Zenon
  <2>2. PICK j \in Nat : <<batch, j, "batch">> \in Tokens
    BY <1>3, <2>1, Zenon DEF CountInv, HasToken
  <2>3. <<batch, j, "batch">> # <<t, k, a>>
    BY <2>1, Zenon
  <2>4. <<batch', j, "batch">> \in Tokens'
    BY <2>1, <2>2, <2>3, Zenon
  <2> QED
    BY <2>4, Zenon DEF HasToken
<1> QED
  BY <1>1, <1>2, <1>3, Zenon DEF CountInv

\* The count of a mdb_txn_safe goes over to a transaction.
LEMMA CountSwap ==
  ASSUME Counting, CountInv, NEW t, NEW k \in Nat, NEW b \in {"reading", "guard", "batch"},
         <<t, k, "counted">> \in Tokens, <<t, k, b>> \notin Tokens,
         Tokens' = (Tokens \ {<<t, k, "counted">>}) \cup {<<t, k, b>>},
         num_active_txns' = num_active_txns,
         b = "batch" => batch' = t /\ rtxn' \subseteq rtxn,
         b # "batch" => batch' = batch /\ rtxn' = rtxn \cup {t}
  PROVE  CountInv'
<1> DEFINE T == Tokens \ {<<t, k, "counted">>}
<1>1. IsFiniteSet(T) /\ Cardinality(T) = Cardinality(Tokens) - 1
  BY Zenon DEF Counting, CountInv
<1>2. Cardinality(Tokens) \in Nat
  BY Zenon DEF Counting, CountInv
<1>3. <<t, k, b>> \notin T
  BY Zenon
<1> HIDE DEF T
<1>4. IsFiniteSet(T \cup {<<t, k, b>>}) /\ Cardinality(T \cup {<<t, k, b>>}) = Cardinality(T) + 1
  BY <1>1, <1>3, Zenon DEF Counting
<1>5. Tokens' = T \cup {<<t, k, b>>}
  BY Zenon DEF T
<1>6. IsFiniteSet(Tokens') /\ Cardinality(Tokens') = Cardinality(Tokens)
  <2>1. IsFiniteSet(Tokens') /\ Cardinality(Tokens') = Cardinality(T) + 1
    BY <1>4, <1>5, Zenon
  <2>2. Cardinality(T) + 1 = Cardinality(Tokens)
    BY <1>1, <1>2
  <2> QED
    BY <2>1, <2>2, Zenon
<1>7. ASSUME NEW u, NEW j, NEW kind, kind # "counted", <<u, j, kind>> \in Tokens
      PROVE  <<u, j, kind>> \in Tokens'
  BY <1>7, Zenon
<1>8. <<t, k, b>> \in Tokens'
  BY <1>5, Zenon
<1>9. ASSUME NEW u \in rtxn' PROVE HasToken(u, {"reading", "guard"})'
  <2>1. CASE u \in rtxn
    BY <1>7, <2>1, Zenon DEF CountInv, HasToken
  <2>2. CASE u = t /\ b # "batch"
    BY <1>8, <2>2, Zenon DEF HasToken
  <2> QED
    BY <1>9, <2>1, <2>2, Zenon
<1>10. ASSUME batch' # None PROVE HasToken(batch, {"batch"})'
  <2>1. CASE b = "batch"
    BY <1>8, <2>1, Zenon DEF HasToken
  <2>2. CASE b # "batch"
    <3>1. PICK j \in Nat : <<batch, j, "batch">> \in Tokens
      BY <1>10, <2>2, Zenon DEF CountInv, HasToken
    <3>2. <<batch', j, "batch">> \in Tokens'
      BY <1>7, <2>2, <3>1, Zenon
    <3> QED
      BY <3>2, Zenon DEF HasToken
  <2> QED
    BY <2>1, <2>2, Zenon
<1> QED
  BY <1>6, <1>9, <1>10, Zenon DEF CountInv

LEMMA CountNat == Counting /\ CountInv => num_active_txns \in Nat
  BY Zenon DEF Counting, CountInv

LEMMA CountNatNext == Counting /\ CountInv' => num_active_txns' \in Nat
  BY Zenon DEF Counting, CountInv

\* At the gate, when the step of t leaves it as it is, or counts while no one resizes.
LEMMA GateStep ==
  ASSUME GateInv, DOMAIN stack = Threads, NEW t \in Threads, NEW s2, stack' = [stack EXCEPT ![t] = s2],
         s2 # <<>> => s2[1].at \notin {"draining", "mapping"},
         gate' = gate, num_active_txns \in Nat, num_active_txns' \in Nat,
         gate # None => num_active_txns' <= num_active_txns
  PROVE  GateInv'
<1> SUFFICES ASSUME NEW u \in Threads, stack'[u] # <<>>, stack'[u][1].at \in {"draining", "mapping"}
             PROVE  gate' = u /\ (stack'[u][1].at = "mapping" => num_active_txns' = 0)
  BY Zenon DEF GateInv, Busy, Top
<1>1. u # t
  BY Zenon
<1>2. stack'[u] = stack[u]
  BY <1>1, Zenon
<1>3. gate = u /\ (stack[u][1].at = "mapping" => num_active_txns = 0)
  BY <1>2, Zenon DEF GateInv, Busy, Top
<1>4. gate # None
  BY <1>3, ThreadAssumption, Zenon
<1> QED
  BY <1>2, <1>3, <1>4

LEMMA LockStep ==
  ASSUME LockInv, DOMAIN stack = Threads, NEW t \in Threads, NEW s2, stack' = [stack EXCEPT ![t] = s2],
         Holds(s2) => Holds(stack[t]), owner'["tx_pool"] = owner["tx_pool"]
  PROVE  LockInv'
<1>1. \A u \in Threads : Holds(stack'[u]) => Holds(stack[u])
  BY Zenon
<1> QED
  BY <1>1, Zenon DEF LockInv

LEMMA TypeStep ==
  ASSUME TypeInv, NEW t \in Threads, NEW s2, stack' = [stack EXCEPT ![t] = s2], StackInv(s2),
         queue' \in Seq([wo : Routines, f : Jobs]), DOMAIN owner' = DOMAIN owner
  PROVE  TypeInv'
<1>1. DOMAIN stack' = Threads /\ \A u \in Threads : StackInv(stack'[u])
  BY Zenon DEF TypeInv
<1> QED
  BY <1>1, Zenon DEF TypeInv

\* A step that leaves the count, the lock of the pool and the gate alone.
Quiet(s, s2) ==
  /\ StackInv(s2)
  /\ \A k, kind : Has(s2, k, kind) <=> Has(s, k, kind)
  /\ Holds(s2) => Holds(s)
  /\ s2 # <<>> => s2[1].at \notin {"draining", "mapping"}

LEMMA QuietStep ==
  ASSUME Counting, IInv, NEW t \in Threads, NEW s2, stack' = [stack EXCEPT ![t] = s2], Quiet(stack[t], s2),
         db' = db, owner' = owner, queue' \in Seq([wo : Routines, f : Jobs])
  PROVE  IInv'
<1>1. DOMAIN stack = Threads
  BY Zenon DEF IInv, TypeInv
<1>2. TypeInv'
  BY TypeStep, Zenon DEF IInv, Quiet
<1>3. Tokens' = Tokens
  BY <1>1, SameTokens, Zenon DEF Quiet
<1>4. /\ gate' = gate /\ num_active_txns' = num_active_txns /\ rtxn' = rtxn /\ batch' = batch
  BY Zenon DEF db
<1>5. CountInv'
  BY <1>3, <1>4, CountSame, Zenon DEF IInv
<1>6. GateInv'
  <2>1. num_active_txns \in Nat
    BY CountNat, Zenon DEF IInv
  <2>2. s2 # <<>> => s2[1].at \notin {"draining", "mapping"}
    BY Zenon DEF Quiet
  <2>3. GateInv /\ num_active_txns' <= num_active_txns
    BY <1>4, <2>1 DEF IInv
  <2> QED
    BY <1>1, <1>4, <2>1, <2>2, <2>3, GateStep, Zenon
<1>7. LockInv'
  BY <1>1, LockStep, Zenon DEF IInv, Quiet
<1> QED
  BY <1>2, <1>5, <1>6, <1>7, Zenon DEF IInv

\* A step of the innermost routine of t; f is what becomes of it.
Goes(t, f) ==
  /\ FrameInv(f)
  /\ f.r = Top(t).r /\ f.how = Top(t).how
  /\ f.at \notin {"draining", "mapping"}
  /\ HoldsPool(f.r, f.pc) => HoldsPool(Top(t).r, Top(t).pc)

LEMMA GoesInv ==
  ASSUME IInv, NEW t \in Threads, Busy(t), NEW f, Goes(t, f)
  PROVE  LET s2 == <<f>> \o Tail(stack[t])
         IN /\ StackInv(s2) /\ s2[1] = f /\ s2 # <<>>
            /\ Holds(s2) => Holds(stack[t])
            /\ Kinds(f) = Kinds(Top(t)) => \A k, kind : Has(s2, k, kind) <=> Has(stack[t], k, kind)
<1> DEFINE s == stack[t]
           s2 == <<f>> \o Tail(s)
<1>1. StackInv(s) /\ s # <<>> /\ FrameInv(f) /\ f.r = s[1].r /\ f.how = s[1].how
  BY Zenon DEF IInv, TypeInv, Busy, Goes, Top
<1>2. StackInv(s2)
  BY <1>1, ReplaceInv, Zenon
<1>3. s2[1] = f /\ s2 # <<>>
  <2>1. s \in Seq(Frames) /\ f \in Frames
    BY <1>1, FrameIsFrame, Zenon DEF StackInv
  <2> QED
    BY <1>1, <2>1, ReplaceAt
<1>4. /\ \A k, kind : Has(s2, k, kind) <=> IF k = Len(s) THEN kind \in Kinds(f) ELSE Has(s, k, kind)
      /\ \A kind : Has(s, Len(s), kind) <=> kind \in Kinds(s[1])
      /\ Holds(s2) => Holds(s) \/ HoldsPool(f.r, f.pc)
      /\ HoldsPool(s[1].r, s[1].pc) => Holds(s)
  BY <1>1, ReplaceHas, Zenon
<1> HIDE DEF s2
<1>5. Holds(s2) => Holds(s)
  BY <1>4, Zenon DEF Goes, Top
<1>6. ASSUME Kinds(f) = Kinds(Top(t)) PROVE \A k, kind : Has(s2, k, kind) <=> Has(s, k, kind)
  BY <1>4, <1>6, Zenon DEF Top
<1> QED
  BY <1>2, <1>3, <1>5, <1>6, Zenon DEF s2

LEMMA QuietTop ==
  ASSUME Counting, IInv, NEW t \in Threads, Busy(t), NEW f, Goes(t, f), Kinds(f) = Kinds(Top(t)), Set(t, f),
         db' = db, owner' = owner, queue' \in Seq([wo : Routines, f : Jobs])
  PROVE  IInv'
<1> DEFINE s2 == <<f>> \o Tail(stack[t])
<1>1. stack' = [stack EXCEPT ![t] = s2]
  BY Zenon DEF Set
<1>2. /\ StackInv(s2) /\ s2[1] = f
      /\ Holds(s2) => Holds(stack[t])
      /\ \A k, kind : Has(s2, k, kind) <=> Has(stack[t], k, kind)
  BY GoesInv, Zenon
<1> HIDE DEF s2
<1>3. Quiet(stack[t], s2)
  BY <1>2, Zenon DEF Quiet, Goes
<1> QED
  BY <1>1, <1>3, QuietStep, Zenon

LEMMA TopStep ==
  ASSUME Counting, IInv, NEW t \in Threads, Busy(t), NEW f, Goes(t, f), Set(t, f),
         CountInv', gate' = gate, gate # None => num_active_txns' <= num_active_txns,
         pool' = pool, owner' = owner
  PROVE  IInv'
<1> DEFINE s2 == <<f>> \o Tail(stack[t])
<1>1. stack' = [stack EXCEPT ![t] = s2]
  BY Zenon DEF Set
<1>2. /\ StackInv(s2) /\ s2[1] = f
      /\ Holds(s2) => Holds(stack[t])
  BY GoesInv, Zenon
<1>3. DOMAIN stack = Threads
  BY Zenon DEF IInv, TypeInv
<1> HIDE DEF s2
<1>4. TypeInv'
  <2>1. TypeInv /\ queue' \in Seq([wo : Routines, f : Jobs]) /\ DOMAIN owner' = DOMAIN owner
    BY Zenon DEF IInv, TypeInv, pool
  <2> QED
    BY <1>1, <1>2, <2>1, TypeStep, Zenon
<1>5. GateInv'
  <2>1. num_active_txns \in Nat /\ num_active_txns' \in Nat /\ GateInv
    BY CountNat, CountNatNext, Zenon DEF IInv
  <2>2. s2 # <<>> => s2[1].at \notin {"draining", "mapping"}
    BY <1>2, Zenon DEF Goes
  <2> QED
    BY <1>1, <1>3, <2>1, <2>2, GateStep, Zenon
<1>6. LockInv'
  BY <1>1, <1>2, <1>3, LockStep, Zenon DEF IInv
<1> QED
  BY <1>4, <1>5, <1>6, Zenon DEF IInv

\* The lock of the pool changes hands.
Proceeds(t, f) ==
  /\ FrameInv(f) /\ f.r = Top(t).r /\ f.how = Top(t).how /\ f.at \notin {"draining", "mapping"}
  /\ Kinds(f) = Kinds(Top(t))

LEMMA OwnerStep ==
  ASSUME Counting, IInv, NEW t \in Threads, Busy(t), NEW f, Proceeds(t, f), Set(t, f),
         LockInv', db' = db, queue' = queue, DOMAIN owner' = DOMAIN owner
  PROVE  IInv'
<1> USE DEF Proceeds
<1> DEFINE s == stack[t]
           s2 == <<f>> \o Tail(s)
<1>1. stack' = [stack EXCEPT ![t] = s2] /\ DOMAIN stack = Threads
  BY Zenon DEF Set, IInv, TypeInv
<1>2. StackInv(s) /\ s # <<>> /\ f.r = s[1].r /\ f.how = s[1].how /\ Kinds(f) = Kinds(s[1])
  BY Zenon DEF IInv, TypeInv, Busy, Top
<1>3. StackInv(s2)
  BY <1>2, ReplaceInv, Zenon
<1>4. s2[1] = f
  <2>1. s \in Seq(Frames) /\ f \in Frames
    BY <1>2, FrameIsFrame, Zenon DEF StackInv
  <2> QED
    BY <1>2, <2>1, ReplaceAt
<1>5. \A k, kind : Has(s2, k, kind) <=> Has(s, k, kind)
  <2>1. /\ \A k, kind : Has(s2, k, kind) <=> IF k = Len(s) THEN kind \in Kinds(f) ELSE Has(s, k, kind)
        /\ \A kind : Has(s, Len(s), kind) <=> kind \in Kinds(s[1])
    BY <1>2, ReplaceHas, Zenon
  <2> HIDE DEF s2
  <2> QED
    BY <1>2, <2>1, Zenon
<1> HIDE DEF s2
<1>6. TypeInv'
  <2>1. TypeInv /\ queue' \in Seq([wo : Routines, f : Jobs])
    BY Zenon DEF IInv, TypeInv
  <2> QED
    BY <1>1, <1>3, <2>1, TypeStep, Zenon
<1>7. /\ gate' = gate /\ num_active_txns' = num_active_txns /\ rtxn' = rtxn /\ batch' = batch
  BY Zenon DEF db
<1>8. CountInv'
  <2>1. Tokens' = Tokens
    BY <1>1, <1>5, SameTokens, Zenon
  <2> QED
    BY <1>7, <2>1, CountSame, Zenon DEF IInv
<1>9. GateInv'
  <2>1. num_active_txns \in Nat /\ GateInv
    BY CountNat, Zenon DEF IInv
  <2>2. num_active_txns' <= num_active_txns
    BY <1>7, <2>1
  <2> QED
    BY <1>1, <1>4, <1>7, <2>1, <2>2, GateStep, Zenon
<1> QED
  BY <1>6, <1>8, <1>9, Zenon DEF IInv

\* The thread t lets go of the lock of the pool, or takes it.
LEMMA LockReleased ==
  ASSUME IInv, NEW t \in Threads, Busy(t), NEW f, FrameInv(f), Top(t).r \in EntryPoints,
         HoldsPool(Top(t).r, Top(t).pc), ~ HoldsPool(f.r, f.pc), Set(t, f)
  PROVE  LockInv'
<1> DEFINE s == stack[t]
           s2 == <<f>> \o Tail(s)
<1>1. stack' = [stack EXCEPT ![t] = s2] /\ DOMAIN stack = Threads
  BY Zenon DEF Set, IInv, TypeInv
<1>2. StackInv(s) /\ s # <<>>
  BY Zenon DEF IInv, TypeInv, Busy
<1>3. Len(s) = 1
  BY <1>2, EntryAlone, Zenon DEF Top
<1>4. ~ Holds(s2) /\ Holds(s)
  <2>1. /\ HoldsPool(s[1].r, s[1].pc) => Holds(s)
        /\ Len(s) = 1 /\ Holds(s2) => HoldsPool(f.r, f.pc)
    BY <1>2, ReplaceHas, Zenon
  <2> HIDE DEF s2
  <2> QED
    BY <1>3, <2>1, Zenon DEF Top
<1> HIDE DEF s2
<1>5. owner["tx_pool"] = t
  BY <1>4, Zenon DEF IInv, LockInv
<1>6. ASSUME NEW u \in Threads PROVE ~ Holds(stack'[u])
  <2>1. CASE u = t
    BY <1>1, <1>4, <2>1, Zenon
  <2>2. CASE u # t
    BY <1>1, <1>5, <2>2, Zenon DEF IInv, LockInv
  <2> QED
    BY <2>1, <2>2, Zenon
<1> QED
  BY <1>6, Zenon DEF LockInv

----------------------------------------------------------------------------
(* The innermost routine of a thread. *)

LEMMA TopFrame ==
  ASSUME IInv, NEW t \in Threads, Busy(t)
  PROVE  /\ FrameInv(Top(t)) /\ Top(t) \in Frames /\ Top(t).r \in Names
         /\ RoutineFacts(Top(t).r)
<1>1. FrameInv(Top(t))
  BY TopInv, Zenon DEF IInv, TypeInv, Busy, Top
<1>2. Top(t) \in Frames
  BY <1>1, Zenon DEF FrameInv
<1>3. Top(t).r \in Names
  BY <1>2, Zenon DEF Frames
<1> QED
  BY <1>1, <1>2, <1>3, AllFacts, Zenon

LEMMA Positions ==
  ASSUME NEW n \in Nat
  PROVE  /\ n + 1 \in Nat
         /\ \A p \in 1 .. n : p + 1 \in 1 .. n + 1
         /\ \A p \in 1 .. n + 1 : ~ (p > n) \/ p <= n => p \in 1 .. n
         /\ \A p \in 1 .. n + 1 : p > n => p = n + 1
  OBVIOUS

LEMMA DoesFacts ==
  ASSUME IInv, NEW t \in Threads, NEW call, NEW at, at = "" \/ at \in Within, Does(t, call, at)
  PROVE  LET f == Top(t)
         IN /\ Busy(t) /\ FrameInv(f) /\ f \in Frames /\ f.at = at
            /\ Len(Ops(f.r)) \in Nat /\ f.pc \in 1 .. Len(Ops(f.r))
            /\ Op(t)[1] = call /\ Op(t) = Ops(f.r)[f.pc] /\ Facts(f.r, f.pc, Op(t))
<1> DEFINE f == Top(t)
<1>1. Busy(t) /\ f.at = at /\ ~ AtEnd(t) /\ Op(t)[1] = call
  BY Zenon DEF Does
<1>2. FrameInv(f) /\ f \in Frames /\ RoutineFacts(f.r)
  BY <1>1, TopFrame, Zenon
<1>3. Op(t) = Ops(f.r)[f.pc] /\ (AtEnd(t) <=> f.at = "" /\ f.pc > Len(Ops(f.r)))
  BY <1>1, Zenon DEF Op, Ops, AtEnd
<1> HIDE DEF f
<1>4. Len(Ops(f.r)) \in Nat /\ f.pc \in 1 .. Len(Ops(f.r)) + 1 /\ (f.at \in Within => f.pc <= Len(Ops(f.r)))
  BY <1>2, Zenon DEF RoutineFacts, FrameInv
<1>5. f.pc \in 1 .. Len(Ops(f.r))
  <2>1. ~ (f.pc > Len(Ops(f.r))) \/ f.pc <= Len(Ops(f.r))
    BY <1>1, <1>3, <1>4, Zenon
  <2> QED
    BY <1>4, <2>1, Positions, Zenon
<1>6. Facts(f.r, f.pc, Op(t))
  BY <1>2, <1>3, <1>5, Zenon DEF RoutineFacts
<1> QED
  BY <1>1, <1>2, <1>3, <1>4, <1>5, <1>6, Zenon DEF f

LEMMA KindsIff ==
  ASSUME NEW f \in Frames
  PROVE  /\ Kinds(f) \subseteq KindNames
         /\ "counted" \in Kinds(f) <=> f.at = "counted"
         /\ "reading" \in Kinds(f) <=> f.at = "reading"
         /\ "guard" \in Kinds(f) <=> f.guard = TRUE /\ InGuard(f.r, f.pc)
         /\ "batch" \in Kinds(f) <=> f.batch = TRUE /\ InBatch(f.r, f.pc)
<1>1. f.at \notin {"guard", "batch"} /\ f.guard \in BOOLEAN /\ f.batch \in BOOLEAN
  BY Zenon DEF Frames, Within, Unwinds
<1> QED
  BY <1>1, Zenon DEF Kinds, KindNames

\* f and g differ at most in a and b.
LEMMA KindsSame ==
  ASSUME NEW f \in Frames, NEW g \in Frames,
         g.at = "counted" <=> f.at = "counted",
         g.at = "reading" <=> f.at = "reading",
         g.guard = TRUE /\ InGuard(g.r, g.pc) <=> f.guard = TRUE /\ InGuard(f.r, f.pc),
         g.batch = TRUE /\ InBatch(g.r, g.pc) <=> f.batch = TRUE /\ InBatch(f.r, f.pc)
  PROVE  Kinds(g) = Kinds(f)
<1>1. \A kind \in KindNames : kind \in Kinds(g) <=> kind \in Kinds(f)
  BY KindsIff, Zenon DEF KindNames
<1>2. Kinds(f) \subseteq KindNames /\ Kinds(g) \subseteq KindNames
  BY KindsIff, Zenon
<1> QED
  BY <1>1, <1>2, Zenon

\* The next call.
LEMMA OnwardFrame ==
  ASSUME NEW f, FrameInv(f), NEW n \in Nat, n = Len(Ops(f.r)), f.pc \in 1 .. n, NEW op, Facts(f.r, f.pc, op),
         NEW g \in Frames, g.r = f.r, g.pc = f.pc + 1, g.at = "", BeforeBatch(f.r, f.pc + 1) => ~ g.batch
  PROVE  FrameInv(g)
<1>1. g.pc \in 1 .. n + 1
  <2>1. \A p \in 1 .. n : p + 1 \in 1 .. n + 1
    BY Positions, Zenon
  <2> QED
    BY <2>1, Zenon
<1>2. g.at \notin Within /\ g.at \notin Unwinds /\ g.at # "finished"
  BY Zenon DEF Within, Unwinds
<1>3. g.pc \in 1 .. Len(Ops(g.r)) + 1
  BY <1>1, Zenon
<1>4. BeforeBatch(g.r, g.pc) => ~ g.batch
  BY Zenon
<1> QED
  BY <1>2, <1>3, <1>4, Zenon DEF FrameInv

LEMMA OnwardRecord ==
  ASSUME NEW f \in Frames, NEW g, g = [f EXCEPT !.pc = @ + 1, !.at = ""]
  PROVE  /\ g \in Frames /\ g.r = f.r /\ g.pc = f.pc + 1 /\ g.at = "" /\ g.how = f.how
         /\ g.guard = f.guard /\ g.batch = f.batch
<1>1. f.pc + 1 \in Nat
  <2>1. f.pc \in Nat
    BY Zenon DEF Frames
  <2>2. \A n \in Nat : n + 1 \in Nat
    BY Positions, Zenon
  <2> QED
    BY <2>1, <2>2, Zenon
<1>2. g.r = f.r /\ g.pc = f.pc + 1 /\ g.at = "" /\ g.how = f.how /\ g.guard = f.guard /\ g.batch = f.batch
  BY Zenon DEF Frames
<1>3. g \in Frames
  BY <1>1, Zenon DEF Frames
<1> QED
  BY <1>2, <1>3, Zenon

LEMMA OnwardIs ==
  ASSUME IInv, NEW t \in Threads, NEW call, NEW at, at = "" \/ at \in Within, Does(t, call, at)
  PROVE  LET g == Onward(t)
         IN /\ FrameInv(g) /\ g \in Frames /\ g.r = Top(t).r /\ g.pc = Top(t).pc + 1 /\ g.at = "" /\ g.how = Top(t).how
            /\ g.guard = Top(t).guard /\ g.batch = Top(t).batch
            /\ call # "lock" => Goes(t, g)
<1> DEFINE f == Top(t)
           g == Onward(t)
           n == Len(Ops(f.r))
<1>1. /\ Busy(t) /\ FrameInv(f) /\ f \in Frames
      /\ n \in Nat /\ f.pc \in 1 .. n
      /\ Op(t)[1] = call /\ Facts(f.r, f.pc, Op(t))
  BY DoesFacts, Zenon
<1>2. g = [f EXCEPT !.pc = @ + 1, !.at = ""]
  BY Zenon DEF Onward
<1>2a. n = Len(Ops(f.r)) /\ f = Top(t)
  BY Zenon
<1> HIDE DEF f, g, n
<1>3. /\ g \in Frames /\ g.r = f.r /\ g.pc = f.pc + 1 /\ g.at = "" /\ g.how = f.how
      /\ g.guard = f.guard /\ g.batch = f.batch
  BY <1>1, <1>2, OnwardRecord, Zenon
<1>4. BeforeBatch(f.r, f.pc + 1) => ~ g.batch
  <2>1. BeforeBatch(f.r, f.pc + 1) => BeforeBatch(f.r, f.pc)
    BY <1>1, Zenon DEF Facts, BatchFacts
  <2>2. BeforeBatch(f.r, f.pc) => ~ f.batch
    BY <1>1, Zenon DEF FrameInv
  <2> QED
    BY <1>3, <2>1, <2>2, Zenon
<1>5. FrameInv(g)
  BY <1>1, <1>2a, <1>3, <1>4, OnwardFrame, Zenon
<1>6. ASSUME call # "lock" PROVE Goes(t, g)
  <2>2. HoldsPool(f.r, f.pc + 1) => HoldsPool(f.r, f.pc)
    BY <1>1, <1>6, Zenon DEF Facts, LockFacts
  <2>3. g.at \notin {"draining", "mapping"}
    BY <1>3, Zenon
  <2>4. HoldsPool(g.r, g.pc) => HoldsPool(f.r, f.pc)
    BY <1>3, <2>2, Zenon
  <2> QED
    BY <1>2a, <1>3, <1>5, <2>3, <2>4, Zenon DEF Goes
<1> QED
  BY <1>2a, <1>3, <1>5, <1>6, Zenon DEF g

\* The innermost routine of t goes to another point of the same call.
Moved(t, g, to) ==
  /\ FrameInv(g) /\ g \in Frames /\ g.r = Top(t).r /\ g.pc = Top(t).pc /\ g.at = to /\ g.how = Top(t).how
  /\ g.guard = Top(t).guard /\ g.batch = Top(t).batch
  /\ to \notin {"draining", "mapping"} => Goes(t, g)
  /\ to \notin {"counted", "reading"} /\ Top(t).at \notin {"counted", "reading"} => Kinds(g) = Kinds(Top(t))

CanGo(t, at) ==
  /\ at \in Within \cup {"unwinding", "finished"}
  /\ at \in Within => Top(t).pc <= Len(Ops(Top(t).r))
  /\ at = "unwinding" => Top(t).at = "unwind"
  /\ at = "finished" => Top(t).pc > Len(Ops(Top(t).r))

LEMMA GotoIs ==
  ASSUME IInv, NEW t \in Threads, Busy(t), NEW at, CanGo(t, at)
  PROVE  Moved(t, [Top(t) EXCEPT !.at = at], at)
<1> DEFINE f == Top(t)
           g == [f EXCEPT !.at = at]
<1>1. FrameInv(f) /\ f \in Frames
  BY TopFrame, Zenon
<1>2. /\ g = [f EXCEPT !.at = at] /\ f = Top(t)
      /\ at \in Within => f.pc <= Len(Ops(f.r))
      /\ at = "unwinding" => f.at = "unwind"
      /\ at = "finished" => f.pc > Len(Ops(f.r))
      /\ at \in Within \cup {"unwinding", "finished"}
  BY Zenon DEF CanGo
<1> HIDE DEF f, g
<1>3. g.r = f.r /\ g.pc = f.pc /\ g.at = at /\ g.how = f.how /\ g.guard = f.guard /\ g.batch = f.batch
  BY <1>1, <1>2, Zenon DEF Frames
<1>4. g \in Frames
  BY <1>1, <1>2, Zenon DEF Frames, Unwinds
<1>5. FrameInv(g)
  <2>1. g.pc \in 1 .. Len(Ops(g.r)) + 1 /\ (BeforeBatch(g.r, g.pc) => ~ g.batch)
    BY <1>1, <1>3, Zenon DEF FrameInv
  <2>2. g.at \in Unwinds => AfterSubmit(g)
    <3>1. g.at \in Unwinds => f.at \in Unwinds
      BY <1>2, <1>3, Zenon DEF Unwinds, Within
    <3> QED
      BY <1>1, <1>3, <3>1, Zenon DEF FrameInv, AfterSubmit
  <2>3. (g.at \in Within => g.pc <= Len(Ops(g.r))) /\ (g.at = "finished" => g.pc > Len(Ops(g.r)))
    BY <1>2, <1>3, Zenon
  <2> QED
    BY <1>4, <2>1, <2>2, <2>3, Zenon DEF FrameInv
<1>6. ASSUME at \notin {"draining", "mapping"} PROVE Goes(t, g)
  BY <1>2, <1>3, <1>5, <1>6, Zenon DEF Goes
<1>7. ASSUME at \notin {"counted", "reading"}, f.at \notin {"counted", "reading"} PROVE Kinds(g) = Kinds(f)
  BY <1>1, <1>3, <1>4, <1>7, KindsSame, Zenon
<1>8. Moved(t, g, at)
  BY <1>2, <1>3, <1>4, <1>5, <1>6, <1>7, Zenon DEF Moved
<1> QED
  BY <1>8, Zenon DEF f, g

----------------------------------------------------------------------------
(* The steps. *)

LEMMA QueueType == IInv => queue \in Seq([wo : Routines, f : Jobs])
  BY Zenon DEF IInv, TypeInv

\* A routine called, submitted or taken from the queue begins.
Begun(f, r, how) == FrameInv(f) /\ f.r = r /\ f.how = how /\ f.at = "" /\ f.pc = 1 /\ Kinds(f) = {}

LEMMA BeginFrame ==
  ASSUME NEW r \in Names, NEW how \in {"call", "inline", "pool"}, NEW wo \in Routines \cup {None}
  PROVE  Begun(Frame(r, how, wo), r, how)
<1> DEFINE f == Frame(r, how, wo)
<1>1. f.r = r /\ f.how = how /\ f.at = "" /\ f.pc = 1 /\ f.guard = FALSE /\ f.batch = FALSE
  BY Zenon DEF Frame
<1>2. f \in Frames
  BY Zenon DEF Frame, Frames
<1> HIDE DEF f
<1>3. Len(Ops(r)) \in Nat
  BY AllFacts, Zenon DEF RoutineFacts
<1>4. \A n \in Nat : 1 \in 1 .. n + 1
  OBVIOUS
<1>5. f.pc \in 1 .. Len(Ops(f.r)) + 1
  BY <1>1, <1>3, <1>4, Zenon
<1>6. f.at \notin Within /\ f.at \notin Unwinds /\ f.at # "finished"
  BY <1>1, Zenon DEF Within, Unwinds
<1>7. FrameInv(f)
  BY <1>1, <1>2, <1>5, <1>6, Zenon DEF FrameInv
<1>8. Kinds(f) = {}
  <2>1. /\ Kinds(f) \subseteq KindNames
        /\ "counted" \notin Kinds(f) /\ "reading" \notin Kinds(f) /\ "guard" \notin Kinds(f) /\ "batch" \notin Kinds(f)
    BY <1>1, <1>2, KindsIff, Zenon
  <2> QED
    BY <2>1, Zenon DEF KindNames
<1> QED
  BY <1>1, <1>7, <1>8, Zenon DEF f, Begun

\* A thread calls, returns, takes or gives back the lock of the chain or of the pool, or works for the
\* pool of threads: the database and its counts are left alone.
PoolStep(t) ==
  \/ Acquire(t) \/ Release(t)
  \/ Submit(t) \/ CallRoutine(t) \/ TakeJob(t) \/ Sleep(t) \/ StopHelping(t) \/ WaitReturns(t) \/ Unwound(t)
  \/ (\E throws \in BOOLEAN : EndRoutine(t, throws)) \/ BackInRun(t)

LEMMA PoolStepInv ==
  Counting /\ IInv => \A t \in Threads : PoolStep(t) => IInv'
<1>LockTaken.
  ASSUME IInv, NEW t \in Threads, NEW s2, stack' = [stack EXCEPT ![t] = s2],
         owner["tx_pool"] = None, owner'["tx_pool"] = t
  PROVE  LockInv'
  <2> USE <1>LockTaken
  <2>1. \A u \in Threads : ~ Holds(stack[u])
    BY ThreadAssumption, Zenon DEF IInv, LockInv
  <2>2. \A u \in Threads : u # t => stack'[u] = stack[u]
    OBVIOUS
  <2> QED
    BY <2>1, <2>2, Zenon DEF LockInv

<1>OnwardKinds.
  ASSUME IInv, NEW t \in Threads, NEW call, NEW at, at = "" \/ at \in Within, Does(t, call, at),
         at \notin {"counted", "reading"}, call \notin {"guard", "unguard", "batch_start", "batch_stop"}
  PROVE  Kinds(Onward(t)) = Kinds(Top(t))
  <2> USE <1>OnwardKinds
  <2> DEFINE f == Top(t)
             g == Onward(t)
  <2>1. /\ g \in Frames /\ g.r = f.r /\ g.pc = f.pc + 1 /\ g.at = "" /\ g.guard = f.guard /\ g.batch = f.batch
    BY OnwardIs, Zenon
  <2>2. /\ f \in Frames /\ f.at = at /\ Op(t)[1] = call /\ Facts(f.r, f.pc, Op(t))
    BY DoesFacts, Zenon
  <2> HIDE DEF f, g
  <2>3. (InGuard(f.r, f.pc + 1) <=> InGuard(f.r, f.pc)) /\ (InBatch(f.r, f.pc + 1) <=> InBatch(f.r, f.pc))
    BY <2>2, Zenon DEF Facts, ReadingFacts, BatchFacts
  <2>4. (InGuard(g.r, g.pc) <=> InGuard(f.r, f.pc)) /\ (InBatch(g.r, g.pc) <=> InBatch(f.r, f.pc))
    BY <2>1, <2>3, Zenon
  <2>5. g.at # "counted" /\ g.at # "reading" /\ f.at # "counted" /\ f.at # "reading"
    BY <2>1, <2>2, Zenon
  <2>6. Kinds(g) = Kinds(f)
    BY <2>1, <2>2, <2>4, <2>5, KindsSame, Zenon
  <2> QED
    BY <2>6, Zenon DEF f, g

<1>FailedIs.
  ASSUME IInv, NEW t \in Threads, Busy(t), FailFacts(Top(t).r, Top(t).pc), Top(t).at \notin {"counted", "reading"}
  PROVE  Goes(t, Failed(t)) /\ Kinds(Failed(t)) = Kinds(Top(t))
  <2> USE <1>FailedIs
  <2> DEFINE f == Top(t)
             g == Failed(t)
             q == Code[f.r].fail
  <2>1. FrameInv(f) /\ f \in Frames /\ Len(Ops(f.r)) \in Nat
    BY TopFrame, Zenon DEF RoutineFacts
  <2>2. q \in 1 .. Len(Ops(f.r)) + 1 /\ JumpFacts(f.r, f.pc, q) /\ f.at \notin {"counted", "reading"}
    BY Zenon DEF FailFacts
  <2>3. g = [f EXCEPT !.pc = q, !.at = ""]
    BY Zenon DEF Failed
  <2>4. f = Top(t)
    BY Zenon
  <2> HIDE DEF f, g, q
  <2>5. q \in Nat
    BY <2>1, <2>2
  <2>6. g.r = f.r /\ g.pc = q /\ g.at = "" /\ g.how = f.how /\ g.guard = f.guard /\ g.batch = f.batch
    BY <2>1, <2>3, Zenon DEF Frames
  <2>7. g \in Frames
    BY <2>1, <2>3, <2>5, Zenon DEF Frames
  <2>8. FrameInv(g)
    <3>1. g.at \notin Within /\ g.at \notin Unwinds /\ g.at # "finished"
      BY <2>6, Zenon DEF Within, Unwinds
    <3>2. BeforeBatch(g.r, g.pc) => ~ g.batch
      BY <2>1, <2>2, <2>6, Zenon DEF FrameInv, JumpFacts
    <3> QED
      BY <2>2, <2>6, <2>7, <3>1, <3>2, Zenon DEF FrameInv
  <2>9. Goes(t, g)
    <3>1. HoldsPool(g.r, g.pc) => HoldsPool(f.r, f.pc)
      BY <2>2, <2>6, Zenon DEF JumpFacts
    <3>2. g.at \notin {"draining", "mapping"}
      BY <2>6, Zenon
    <3> QED
      BY <2>4, <2>6, <2>8, <3>1, <3>2, Zenon DEF Goes
  <2>10. Kinds(g) = Kinds(f)
    <3>1. (InGuard(g.r, g.pc) <=> InGuard(f.r, f.pc)) /\ (InBatch(g.r, g.pc) <=> InBatch(f.r, f.pc))
      BY <2>2, <2>6, Zenon DEF JumpFacts
    <3>2. g.at # "counted" /\ g.at # "reading" /\ f.at # "counted" /\ f.at # "reading"
      BY <2>2, <2>6, Zenon
    <3> QED
      BY <2>1, <2>6, <2>7, <3>1, <3>2, KindsSame, Zenon
  <2> QED
    BY <2>9, <2>10, Zenon DEF f, g

<1>AcquireInv. ASSUME Counting, IInv, NEW t \in Threads, Acquire(t) PROVE IInv'
  <2> USE <1>AcquireInv
  <2> DEFINE f == Top(t)
             g == Onward(t)
             s2 == <<g>> \o Tail(stack[t])
  <2>1. Does(t, "lock", "") /\ Set(t, g) /\ db' = db /\ pool' = pool
    BY Zenon DEF Acquire, history
  <2>2. /\ Busy(t) /\ Op(t)[1] = "lock" /\ Facts(f.r, f.pc, Op(t))
    BY <2>1, DoesFacts, Zenon
  <2>3. FrameInv(g) /\ g.r = f.r /\ g.pc = f.pc + 1 /\ g.at = "" /\ g.how = f.how
    BY <2>1, OnwardIs, Zenon
  <2>4. Kinds(g) = Kinds(f)
    BY <2>1, <1>OnwardKinds, Zenon
  <2>5. owner[Op(t)[2]] = None /\ owner' = [owner EXCEPT ![Op(t)[2]] = t]
    BY Zenon DEF Acquire
  <2>6. DOMAIN owner = {"incoming", "tx_pool", "blockchain"} /\ DOMAIN stack = Threads /\ LockInv
    BY Zenon DEF IInv, TypeInv
  <2>7. stack' = [stack EXCEPT ![t] = s2]
    BY <2>1, Zenon DEF Set
  <2>8. LockInv'
    <3>1. CASE Op(t)[2] = "tx_pool"
      <4>1. owner["tx_pool"] = None /\ owner'["tx_pool"] = t
        BY <2>5, <2>6, <3>1, Zenon
      <4> QED
        BY <2>7, <4>1, <1>LockTaken, Zenon
    <3>2. CASE Op(t)[2] # "tx_pool"
      <4>1. HoldsPool(f.r, f.pc + 1) => HoldsPool(f.r, f.pc)
        BY <2>2, <3>2, Zenon DEF Facts, LockFacts
      <4>2. Goes(t, g)
        <5> HIDE DEF g
        <5> QED
          BY <2>3, <4>1, Zenon DEF Goes
      <4>3. Holds(s2) => Holds(stack[t])
        BY <2>2, <4>2, GoesInv, Zenon
      <4>4. owner'["tx_pool"] = owner["tx_pool"]
        BY <2>5, <2>6, <3>2, Zenon
      <4> QED
        BY <2>6, <2>7, <4>3, <4>4, LockStep, Zenon
    <3> QED
      BY <3>1, <3>2, Zenon
  <2>9. g.at \notin {"draining", "mapping"}
    BY <2>3, Zenon
  <2>10. queue' = queue /\ DOMAIN owner' = DOMAIN owner
    BY <2>1, <2>5, Zenon DEF pool
  <2>11. Proceeds(t, g)
    BY <2>3, <2>4, <2>9, Zenon DEF Proceeds
  <2> QED
    BY <2>1, <2>2, <2>8, <2>10, <2>11, OwnerStep, Zenon

<1>ReleaseInv. ASSUME Counting, IInv, NEW t \in Threads, Release(t) PROVE IInv'
  <2> USE <1>ReleaseInv
  <2> DEFINE f == Top(t)
             g == Onward(t)
             s2 == <<g>> \o Tail(stack[t])
  <2>1. Does(t, "unlock", "") /\ Set(t, g) /\ db' = db /\ pool' = pool
    BY Zenon DEF Release, history
  <2>2. /\ Busy(t) /\ Op(t)[1] = "unlock" /\ Facts(f.r, f.pc, Op(t))
    BY <2>1, DoesFacts, Zenon
  <2>3. FrameInv(g) /\ g.r = f.r /\ g.pc = f.pc + 1 /\ g.at = "" /\ g.how = f.how
    BY <2>1, OnwardIs, Zenon
  <2>3a. Goes(t, g)
    <3>1. "unlock" # "lock"
      BY Zenon
    <3> QED
      BY <2>1, <3>1, OnwardIs, Zenon
  <2>4. Kinds(g) = Kinds(f)
    BY <2>1, <1>OnwardKinds, Zenon
  <2>5. owner' = [owner EXCEPT ![Op(t)[2]] = None]
    BY Zenon DEF Release
  <2>6. DOMAIN owner = {"incoming", "tx_pool", "blockchain"} /\ DOMAIN stack = Threads /\ LockInv
    BY Zenon DEF IInv, TypeInv
  <2>7. stack' = [stack EXCEPT ![t] = s2]
    BY <2>1, Zenon DEF Set
  <2>8. LockInv'
    <3>1. CASE Op(t)[2] = "tx_pool"
      <4>1. f.r \in EntryPoints /\ HoldsPool(f.r, f.pc) /\ ~ HoldsPool(f.r, f.pc + 1)
        BY <2>2, <3>1, Zenon DEF Facts, LockFacts
      <4>2. ~ HoldsPool(g.r, g.pc)
        <5> HIDE DEF g
        <5> QED
          BY <2>3, <4>1, Zenon
      <4> QED
        BY <2>1, <2>2, <2>3, <4>1, <4>2, LockReleased, Zenon
    <3>2. CASE Op(t)[2] # "tx_pool"
      <4>1. Holds(s2) => Holds(stack[t])
        BY <2>2, <2>3a, GoesInv, Zenon
      <4>2. owner'["tx_pool"] = owner["tx_pool"]
        BY <2>5, <2>6, <3>2, Zenon
      <4> QED
        BY <2>6, <2>7, <4>1, <4>2, LockStep, Zenon
    <3> QED
      BY <3>1, <3>2, Zenon
  <2>9. g.at \notin {"draining", "mapping"}
    BY <2>3, Zenon
  <2>10. queue' = queue /\ DOMAIN owner' = DOMAIN owner
    BY <2>1, <2>5, Zenon DEF pool
  <2>11. Proceeds(t, g)
    BY <2>3, <2>4, <2>9, Zenon DEF Proceeds
  <2> QED
    BY <2>1, <2>2, <2>8, <2>10, <2>11, OwnerStep, Zenon

<1>PushTop. \A s \in Seq(Frames), f \in Frames : (<<f>> \o s)[1] = f
  BY PushAt, Zenon

\* The innermost routine of t, which becomes u, calls f.
<1>CallStep.
  ASSUME Counting, IInv, NEW t \in Threads, Busy(t), NEW u, Goes(t, u), Kinds(u) = Kinds(Top(t)), u.at \in {"", "unwind"},
         NEW f, FrameInv(f), Kinds(f) = {}, f.at = "", f.r \notin EntryPoints,
         f.how = "inline" => AfterSubmit(u),
         HoldsPool(f.r, f.pc) => HoldsPool(Top(t).r, Top(t).pc),
         Push(t, u, f), db' = db, owner' = owner, queue' \in Seq([wo : Routines, f : Jobs])
  PROVE  IInv'
  <2> USE <1>CallStep
  <2> DEFINE s == stack[t]
             s1 == <<u>> \o Tail(s)
             s2 == <<f>> \o s1
  <2>1. s # <<>> /\ StackInv(s)
    BY Zenon DEF Busy, IInv, TypeInv
  <2>2. stack' = [stack EXCEPT ![t] = s2]
    BY <2>1, Zenon DEF Push
  <2>3. /\ StackInv(s1) /\ s1[1] = u /\ s1 # <<>>
        /\ Holds(s1) => Holds(s)
        /\ \A k, kind : Has(s1, k, kind) <=> Has(s, k, kind)
    BY GoesInv, Zenon
  <2>4. HoldsPool(Top(t).r, Top(t).pc) => Holds(s)
    <3>1. FrameInv(Top(t))
      BY TopFrame, Zenon
    <3>2. HoldsPool(s[1].r, s[1].pc) => Holds(s)
      BY <2>1, <3>1, ReplaceHas, Zenon
    <3> QED
      BY <3>2, Zenon DEF Top
  <2> HIDE DEF s1
  <2>5. CanCall(s1, f)
    BY <2>3, Zenon DEF CanCall
  <2>6. StackInv(s2)
    BY <2>3, <2>5, PushInv, Zenon
  <2>7. /\ \A k, kind : Has(s2, k, kind) <=> Has(s1, k, kind)
        /\ Holds(s2) => Holds(s1) \/ HoldsPool(f.r, f.pc)
    BY <2>3, PushHas, Zenon
  <2>8. s2[1] = f
    <3>1. s1 \in Seq(Frames) /\ f \in Frames
      BY <2>3, FrameIsFrame, Zenon DEF StackInv
    <3> QED
      BY <3>1, <1>PushTop, Zenon
  <2> HIDE DEF s2
  <2>9. Quiet(s, s2)
    BY <2>3, <2>4, <2>6, <2>7, <2>8, Zenon DEF Quiet
  <2> QED
    BY <2>2, <2>9, QuietStep, Zenon

<1>JobsAre.
  ASSUME NEW r \in Jobs
  PROVE  r \in Names /\ r \in Routines /\ r \notin EntryPoints /\ \A pc : ~ HoldsPool(r, pc)
  <2> USE <1>JobsAre
  <2>1. r \in Names /\ r \in Routines
    BY ThreadAssumption, Zenon DEF Names
  <2>2. r \notin EntryPoints
    BY Zenon DEF Jobs, EntryPoints
  <2>3. r \notin {"incoming_blocks", "incoming_tx", "set_relayed", "take_tx"}
    BY Zenon DEF Jobs
  <2>4. \A pc : ~ HoldsPool(r, pc)
    BY <2>3, Zenon DEF HoldsPool
  <2> QED
    BY <2>1, <2>2, <2>4, Zenon

<1>NamesAre. \A r \in Names : r \in Routines
  BY ThreadAssumption, Zenon DEF Names

<1>Predecessor. \A n \in Nat : \A p \in 1 .. n : (p + 1) - 1 = p /\ p + 1 >= 2
  OBVIOUS

<1>AfterSubmitOnward.
  ASSUME IInv, NEW t \in Threads, Does(t, "submit", "")
  PROVE  AfterSubmit(Onward(t))
  <2> USE <1>AfterSubmitOnward
  <2> DEFINE f == Top(t)
             g == Onward(t)
             n == Len(Ops(f.r))
  <2>1. n \in Nat /\ f.pc \in 1 .. n /\ Op(t)[1] = "submit" /\ Op(t) = Ops(f.r)[f.pc]
    BY DoesFacts, Zenon
  <2>2. g.r = f.r /\ g.pc = f.pc + 1
    BY OnwardIs, Zenon
  <2> HIDE DEF f, g, n
  <2>3. (f.pc + 1) - 1 = f.pc /\ f.pc + 1 >= 2
    BY <2>1, <1>Predecessor, Zenon
  <2>4. g.pc - 1 = f.pc /\ g.pc >= 2
    BY <2>2, <2>3, Zenon
  <2>5. Ops(g.r)[g.pc - 1] = Op(t)
    BY <2>1, <2>2, <2>4, Zenon
  <2> QED
    BY <2>1, <2>4, <2>5, Zenon DEF AfterSubmit, g

<1>QueueGrows.
  ASSUME NEW q \in Seq([wo : Routines, f : Jobs]), NEW wo \in Routines, NEW f \in Jobs
  PROVE  /\ <<[wo |-> wo, f |-> f]>> \o q \in Seq([wo : Routines, f : Jobs])
         /\ Append(q, [wo |-> wo, f |-> f]) \in Seq([wo : Routines, f : Jobs])
  <2> USE <1>QueueGrows
  <2> DEFINE E == [wo : Routines, f : Jobs]
             e == [wo |-> wo, f |-> f]
  <2>1. e \in E /\ q \in Seq(E)
    BY Zenon
  <2> HIDE DEF E, e
  <2>2. <<e>> \in Seq(E)
    BY <2>1
  <2>3. <<e>> \o q \in Seq(E)
    BY <2>1, <2>2
  <2>4. Append(q, e) \in Seq(E)
    BY <2>1
  <2> QED
    BY <2>3, <2>4, Zenon DEF E, e

<1>SubmitInv. ASSUME Counting, IInv, NEW t \in Threads, Submit(t) PROVE IInv'
  <2> USE <1>SubmitInv
  <2> DEFINE f == Top(t)
             g == Onward(t)
             j == Op(t)[2]
             h == Frame(j, "inline", f.r)
  <2>1. Does(t, "submit", "") /\ db' = db /\ owner' = owner
    BY Zenon DEF Submit
  <2>2. /\ Busy(t) /\ Op(t)[1] = "submit" /\ Facts(f.r, f.pc, Op(t))
    BY <2>1, DoesFacts, Zenon
  <2>3. f.r \in Routines
    BY <2>2, TopFrame, <1>NamesAre, Zenon
  <2>4. j \in Jobs
    BY <2>2, Zenon DEF Facts, JobFacts
  <2>5. Kinds(g) = Kinds(f)
    BY <2>1, <1>OnwardKinds, Zenon
  <2>6. g.at = ""
    BY <2>1, OnwardIs, Zenon
  <2>7. Goes(t, g)
    <3>1. "submit" # "lock"
      BY Zenon
    <3> QED
      BY <2>1, <3>1, OnwardIs, Zenon
  <2>8. queue \in Seq([wo : Routines, f : Jobs])
    BY QueueType, Zenon
  <2>9. CASE runs_inline(t, j)
    <3>1. queue' = queue /\ Push(t, g, h)
      BY <2>9, Zenon DEF Submit, call_inline
    <3>2. /\ j \in Names /\ j \notin EntryPoints /\ \A pc : ~ HoldsPool(j, pc)
      BY <2>4, <1>JobsAre, Zenon
    <3>3. FrameInv(h) /\ h.r = j /\ h.at = "" /\ Kinds(h) = {}
      <4>1. Begun(h, j, "inline")
        BY <2>3, <3>2, BeginFrame, Zenon
      <4> HIDE DEF h
      <4> QED
        BY <4>1, Zenon DEF Begun
    <3>4. AfterSubmit(g)
      BY <2>1, <1>AfterSubmitOnward, Zenon
    <3> HIDE DEF g, h, j, f
    <3>5. /\ h.r \notin EntryPoints
          /\ h.how = "inline" => AfterSubmit(g)
          /\ HoldsPool(h.r, h.pc) => HoldsPool(Top(t).r, Top(t).pc)
          /\ g.at \in {"", "unwind"}
          /\ Kinds(g) = Kinds(Top(t))
      BY <2>5, <2>6, <3>2, <3>3, <3>4, Zenon DEF f
    <3> QED
      BY <2>1, <2>2, <2>7, <2>8, <3>1, <3>3, <3>5, <1>CallStep, Zenon
  <2>10. CASE ~ runs_inline(t, j)
    <3>1. enqueue(f.r, j) /\ Set(t, g)
      BY <2>10, Zenon DEF Submit
    <3>2. queue' \in {<<[wo |-> f.r, f |-> j]>> \o queue, Append(queue, [wo |-> f.r, f |-> j])}
      BY <3>1, Zenon DEF enqueue
    <3>3. queue' \in Seq([wo : Routines, f : Jobs])
      <4> HIDE DEF j, f
      <4> QED
        BY <2>3, <2>4, <2>8, <3>2, <1>QueueGrows, Zenon
    <3> QED
      BY <2>1, <2>2, <2>5, <2>7, <3>1, <3>3, QuietTop, Zenon
  <2> QED
    BY <2>9, <2>10, Zenon

<1>CallRoutineInv. ASSUME Counting, IInv, NEW t \in Threads, CallRoutine(t) PROVE IInv'
  <2> USE <1>CallRoutineInv
  <2> DEFINE f == Top(t)
             g == Onward(t)
             j == Op(t)[2]
             h == Frame(j, "call", None)
  <2>1. Does(t, "call", "") /\ db' = db /\ owner' = owner /\ pool' = pool /\ Push(t, g, h)
    BY Zenon DEF CallRoutine
  <2>2. /\ Busy(t) /\ Op(t)[1] = "call" /\ Facts(f.r, f.pc, Op(t))
    BY <2>1, DoesFacts, Zenon
  <2>3. j \in Called /\ (j = "take_tx" => HoldsPool(f.r, f.pc))
    BY <2>2, Zenon DEF Facts, JobFacts
  <2>4. Kinds(g) = Kinds(f)
    BY <2>1, <1>OnwardKinds, Zenon
  <2>5. g.at = ""
    BY <2>1, OnwardIs, Zenon
  <2>6. Goes(t, g)
    <3>1. "call" # "lock"
      BY Zenon
    <3> QED
      BY <2>1, <3>1, OnwardIs, Zenon
  <2>7. queue' \in Seq([wo : Routines, f : Jobs])
    BY <2>1, QueueType, Zenon DEF pool
  <2>8. j \in Names
    BY <2>3, Zenon DEF Names
  <2>9. FrameInv(h) /\ h.r = j /\ h.how = "call" /\ h.at = "" /\ Kinds(h) = {}
    <3>1. Begun(h, j, "call")
      BY <2>8, BeginFrame, Zenon
    <3> HIDE DEF h
    <3> QED
      BY <3>1, Zenon DEF Begun
  <2> HIDE DEF g, h, j
  <2>10. h.r \notin EntryPoints
    BY <2>3, <2>9, Zenon DEF Called, EntryPoints
  <2>11. HoldsPool(h.r, h.pc) => HoldsPool(f.r, f.pc)
    BY <2>3, <2>9, Zenon DEF Called, HoldsPool
  <2>12. /\ h.how = "inline" => AfterSubmit(g)
         /\ g.at \in {"", "unwind"}
    BY <2>5, <2>9, Zenon
  <2> QED
    BY <2>1, <2>2, <2>4, <2>6, <2>7, <2>9, <2>10, <2>11, <2>12, <1>CallStep, Zenon

<1>HelpsAt.
  ASSUME IInv, NEW t \in Threads, Helps(t)
  PROVE  /\ Busy(t) /\ Top(t).at \in {"", "unwind"}
         /\ Top(t).at = "" => Top(t).pc <= Len(Ops(Top(t).r)) /\ Does(t, "wait", "")
  <2> USE <1>HelpsAt
  <2>1. CASE Does(t, "wait", "")
    <3>1. Busy(t) /\ Top(t).at = "" /\ Len(Ops(Top(t).r)) \in Nat /\ Top(t).pc \in 1 .. Len(Ops(Top(t).r))
      BY <2>1, DoesFacts, Zenon
    <3>2. \A n \in Nat : \A p \in 1 .. n : p <= n
      OBVIOUS
    <3>3. Top(t).pc <= Len(Ops(Top(t).r))
      BY <3>1, <3>2, Zenon
    <3> QED
      BY <2>1, <3>1, <3>3, Zenon
  <2>2. CASE Busy(t) /\ Top(t).at = "unwind"
    BY <2>2, Zenon
  <2> QED
    BY <2>1, <2>2, Zenon DEF Helps

<1>TakeJobInv. ASSUME Counting, IInv, NEW t \in Threads, TakeJob(t) PROVE IInv'
  <2> USE <1>TakeJobInv
  <2> DEFINE e == Head(queue)
             h == Frame(e.f, "pool", e.wo)
  <2>1. queue # <<>> /\ queue' = Tail(queue) /\ db' = db /\ owner' = owner
    BY Zenon DEF TakeJob, take
  <2>2. queue \in Seq([wo : Routines, f : Jobs])
    BY QueueType, Zenon
  <2>3. e \in [wo : Routines, f : Jobs] /\ queue' \in Seq([wo : Routines, f : Jobs])
    <3> DEFINE E == [wo : Routines, f : Jobs]
    <3>1. queue \in Seq(E)
      BY <2>2, Zenon
    <3> HIDE DEF E
    <3>2. Head(queue) \in E /\ Tail(queue) \in Seq(E)
      BY <2>1, <3>1
    <3> QED
      BY <2>1, <3>2, Zenon DEF E
  <2>4. e.f \in Jobs /\ e.wo \in Routines
    BY <2>3, Zenon
  <2>5. /\ e.f \in Names /\ e.f \notin EntryPoints /\ \A pc : ~ HoldsPool(e.f, pc)
    BY <2>4, <1>JobsAre, Zenon
  <2>6. Begun(h, e.f, "pool")
    BY <2>4, <2>5, BeginFrame, Zenon
  <2> DEFINE r == e.f
  <2>6a. Begun(h, r, "pool") /\ r \notin EntryPoints /\ \A pc : ~ HoldsPool(r, pc)
    BY <2>5, <2>6, Zenon
  <2>7. Push(t, IF Busy(t) THEN Top(t) ELSE <<>>, h)
    BY Zenon DEF TakeJob
  <2> HIDE DEF h, e, r
  <2>8. FrameInv(h) /\ h.r = r /\ h.how = "pool" /\ h.at = "" /\ Kinds(h) = {}
    BY <2>6a, Zenon DEF Begun
  <2>9. ~ HoldsPool(h.r, h.pc) /\ h.r \notin EntryPoints /\ h.how # "inline"
    BY <2>6a, <2>8, Zenon
  <2>10. CASE Busy(t)
    <3>1. Helps(t)
      BY <2>10, Zenon DEF TakeJob, Idle
    <3>2. Top(t).at \in {"", "unwind"} /\ FrameInv(Top(t))
      BY <2>10, <3>1, <1>HelpsAt, TopFrame, Zenon
    <3>3. Goes(t, Top(t))
      BY <3>2, Zenon DEF Goes
    <3>4. Push(t, Top(t), h)
      BY <2>7, <2>10, Zenon
    <3> QED
      BY <2>1, <2>3, <2>8, <2>9, <2>10, <3>2, <3>3, <3>4, <1>CallStep, Zenon
  <2>11. CASE ~ Busy(t)
    <3> DEFINE s == stack[t]
               s2 == <<h>> \o s
    <3>1. s = <<>> /\ StackInv(s)
      BY <2>11, Zenon DEF Busy, IInv, TypeInv
    <3>2. stack' = [stack EXCEPT ![t] = s2]
      BY <2>7, <3>1, Zenon DEF Push
    <3>3. StackInv(s2)
      <4>1. CanCall(s, h)
        BY <2>9, <3>1, Zenon DEF CanCall
      <4> QED
        BY <2>8, <3>1, <4>1, PushInv, Zenon
    <3>4. /\ \A k, kind : Has(s2, k, kind) <=> Has(s, k, kind)
          /\ Holds(s2) => Holds(s) \/ HoldsPool(h.r, h.pc)
      BY <2>8, <3>1, PushHas, Zenon
    <3>5. s2[1] = h
      <4>1. s \in Seq(Frames) /\ h \in Frames
        BY <2>8, <3>1, FrameIsFrame, Zenon DEF StackInv
      <4> QED
        BY <4>1, <1>PushTop, Zenon
    <3> HIDE DEF s2
    <3>6. Quiet(s, s2)
      BY <2>8, <2>9, <3>3, <3>4, <3>5, Zenon DEF Quiet
    <3> QED
      BY <2>1, <2>3, <3>2, <3>6, QuietStep, Zenon
  <2> QED
    BY <2>10, <2>11, Zenon

<1>SleepInv. ASSUME IInv, NEW t \in Threads, Sleep(t) PROVE IInv'
  <2> USE <1>SleepInv
  <2>1. db' = db /\ stack' = stack /\ owner' = owner /\ queue' = queue /\ stack[t] = <<>>
    BY Zenon DEF Sleep, sleep, Idle, Busy
  <2>2. queue' \in Seq([wo : Routines, f : Jobs])
    BY <2>1, QueueType, Zenon
  <2>3. DOMAIN stack = Threads /\ StackInv(stack[t])
    BY Zenon DEF IInv, TypeInv
  <2>4. TypeInv' /\ GateInv' /\ LockInv'
    BY <2>1, Zenon DEF IInv, TypeInv, GateInv, LockInv, db, Busy, Top
  <2>5. CountInv'
    <3>1. Tokens' = Tokens
      BY <2>1, Zenon DEF Tokens
    <3> QED
      BY <2>1, <3>1, CountSame, Zenon DEF IInv, db
  <2> QED
    BY <2>4, <2>5, Zenon DEF IInv

<1>StopHelpingInv. ASSUME Counting, IInv, NEW t \in Threads, StopHelping(t) PROVE IInv'
  <2> USE <1>StopHelpingInv
  <2> DEFINE f == Top(t)
             at == IF f.at = "unwind" THEN "unwinding" ELSE "waiting"
             g == [f EXCEPT !.at = at]
  <2>1. Helps(t) /\ Set(t, g) /\ pool' = pool /\ db' = db /\ owner' = owner
    BY Zenon DEF StopHelping, Goto
  <2>2. Busy(t) /\ f.at \in {"", "unwind"} /\ (f.at = "" => f.pc <= Len(Ops(f.r)))
    BY <2>1, <1>HelpsAt, Zenon
  <2>3. /\ at \notin {"draining", "mapping"} /\ at \notin {"counted", "reading"}
        /\ f.at \notin {"counted", "reading"}
    BY <2>2, Zenon
  <2>4. CanGo(t, at)
    BY <2>2, Zenon DEF CanGo, Within
  <2>5. Moved(t, g, at)
    BY <2>2, <2>4, GotoIs, Zenon
  <2> HIDE DEF at, g
  <2>6. Goes(t, g) /\ Kinds(g) = Kinds(f)
    BY <2>3, <2>5, Zenon DEF Moved
  <2>7. queue' \in Seq([wo : Routines, f : Jobs])
    BY <2>1, QueueType, Zenon DEF pool
  <2> QED
    BY <2>1, <2>2, <2>6, <2>7, QuietTop, Zenon

<1>WaitReturnsInv. ASSUME Counting, IInv, NEW t \in Threads, WaitReturns(t) PROVE IInv'
  <2> USE <1>WaitReturnsInv
  <2> DEFINE f == Top(t)
  <2>1. Does(t, "wait", "waiting") /\ pool' = pool /\ db' = db /\ owner' = owner
    BY Zenon DEF WaitReturns
  <2>2. "waiting" \in Within
    BY Zenon DEF Within
  <2>3. /\ Busy(t) /\ f.at = "waiting" /\ Op(t)[1] = "wait" /\ Facts(f.r, f.pc, Op(t))
    BY <2>1, <2>2, DoesFacts, Zenon
  <2>4. queue' \in Seq([wo : Routines, f : Jobs])
    BY <2>1, QueueType, Zenon DEF pool
  <2>5. CASE Set(t, Failed(t))
    <3>1. FailFacts(f.r, f.pc)
      BY <2>3, Zenon DEF Facts, JobFacts
    <3>2. f.at \notin {"counted", "reading"}
      BY <2>3, Zenon
    <3>3. Goes(t, Failed(t)) /\ Kinds(Failed(t)) = Kinds(f)
      BY <2>3, <3>1, <3>2, <1>FailedIs, Zenon
    <3> QED
      BY <2>1, <2>3, <2>4, <2>5, <3>3, QuietTop, Zenon
  <2>6. CASE Set(t, Onward(t))
    <3>1. Goes(t, Onward(t))
      <4>1. "wait" # "lock"
        BY Zenon
      <4> QED
        BY <2>1, <2>2, <4>1, OnwardIs, Zenon
    <3>2. Kinds(Onward(t)) = Kinds(f)
      BY <2>1, <2>2, <1>OnwardKinds, Zenon
    <3> QED
      BY <2>1, <2>3, <2>4, <2>6, <3>1, <3>2, QuietTop, Zenon
  <2> QED
    BY <2>5, <2>6, Zenon DEF WaitReturns

<1>UnwoundInv. ASSUME Counting, IInv, NEW t \in Threads, Unwound(t) PROVE IInv'
  <2> USE <1>UnwoundInv
  <2> DEFINE f == Top(t)
             n == Len(Ops(f.r))
  <2>1. Busy(t) /\ f.at = "unwinding" /\ Set(t, Failed(t)) /\ pool' = pool /\ db' = db /\ owner' = owner
    BY Zenon DEF Unwound
  <2>2. FrameInv(f) /\ RoutineFacts(f.r)
    BY <2>1, TopFrame, Zenon
  <2>3. FailFacts(f.r, f.pc)
    <3> DEFINE p == f.pc - 1
    <3>1. AfterSubmit(f)
      BY <2>1, <2>2, Zenon DEF FrameInv, Unwinds
    <3>2. n \in Nat /\ f.pc \in 1 .. n + 1 /\ f.pc >= 2 /\ Ops(f.r)[p][1] = "submit"
      BY <2>2, <3>1, Zenon DEF FrameInv, RoutineFacts, AfterSubmit
    <3>3. \A m \in Nat : \A q \in 1 .. m + 1 : q >= 2 => q - 1 \in 1 .. m /\ (q - 1) + 1 = q
      OBVIOUS
    <3>4. p \in 1 .. n /\ p + 1 = f.pc
      BY <3>2, <3>3, Zenon
    <3>5. Facts(f.r, p, Ops(f.r)[p])
      BY <2>2, <3>4, Zenon DEF RoutineFacts
    <3>6. FailFacts(f.r, p + 1)
      <4> HIDE DEF p
      <4> QED
        BY <3>2, <3>5, Zenon DEF Facts, JobFacts
    <3> QED
      BY <3>4, <3>6, Zenon
  <2>4. f.at \notin {"counted", "reading"}
    BY <2>1, Zenon
  <2>5. Goes(t, Failed(t)) /\ Kinds(Failed(t)) = Kinds(f)
    BY <2>1, <2>3, <2>4, <1>FailedIs, Zenon
  <2>6. queue' \in Seq([wo : Routines, f : Jobs])
    BY <2>1, QueueType, Zenon DEF pool
  <2> QED
    BY <2>1, <2>5, <2>6, QuietTop, Zenon

\* A routine that has made its last call has nothing in the count.
<1>EndKinds.
  ASSUME IInv, NEW t \in Threads, Busy(t), Top(t).at \in {"", "finished"}, Top(t).pc > Len(Ops(Top(t).r))
  PROVE  Kinds(Top(t)) = {}
  <2> USE <1>EndKinds
  <2> DEFINE f == Top(t)
             n == Len(Ops(f.r))
  <2>1. FrameInv(f) /\ f \in Frames /\ RoutineFacts(f.r)
    BY TopFrame, Zenon
  <2>2. n \in Nat /\ f.pc \in 1 .. n + 1 /\ f.pc > n
    BY <2>1, Zenon DEF FrameInv, RoutineFacts
  <2>3. f.pc = n + 1
    BY <2>2, Positions, Zenon
  <2>4. ~ InGuard(f.r, f.pc) /\ ~ InBatch(f.r, f.pc)
    BY <2>1, <2>3, Zenon DEF RoutineFacts
  <2>5. f.at # "counted" /\ f.at # "reading"
    BY Zenon
  <2> HIDE DEF f
  <2>6. /\ Kinds(f) \subseteq KindNames
        /\ "counted" \notin Kinds(f) /\ "reading" \notin Kinds(f) /\ "guard" \notin Kinds(f) /\ "batch" \notin Kinds(f)
    BY <2>1, <2>4, <2>5, KindsIff, Zenon
  <2>7. Kinds(f) = {}
    BY <2>6, Zenon DEF KindNames
  <2> QED
    BY <2>7, Zenon DEF f

<1>PopStep.
  ASSUME Counting, IInv, NEW t \in Threads, Busy(t), Kinds(Top(t)) = {}, stack' = [stack EXCEPT ![t] = Tail(@)],
         db' = db, owner' = owner, queue' \in Seq([wo : Routines, f : Jobs])
  PROVE  IInv'
  <2> USE <1>PopStep
  <2> DEFINE s == stack[t]
             s2 == Tail(s)
  <2>1. StackInv(s) /\ s # <<>> /\ Kinds(s[1]) = {}
    BY Zenon DEF IInv, TypeInv, Busy, Top
  <2>2. StackInv(s2) /\ (s2 # <<>> => s2[1].at \in {"", "unwind"})
    BY <2>1, PopInv, Zenon
  <2>3. /\ \A k, kind : Has(s2, k, kind) <=> Has(s, k, kind)
        /\ Holds(s2) => Holds(s)
    BY <2>1, PopHas, Zenon
  <2>4. stack' = [stack EXCEPT ![t] = s2]
    BY Zenon
  <2> HIDE DEF s2
  <2>5. Quiet(s, s2)
    BY <2>2, <2>3, Zenon DEF Quiet
  <2> QED
    BY <2>4, <2>5, QuietStep, Zenon

\* The caller of a job that threw goes on to the destructor of its waiter.
<1>ThrowStep.
  ASSUME Counting, IInv, NEW t \in Threads, Busy(t), Kinds(Top(t)) = {}, Top(t).how = "inline",
         stack' = [stack EXCEPT ![t] = <<[@[2] EXCEPT !.at = "unwind"]>> \o Tail(Tail(@))],
         db' = db, owner' = owner, queue' \in Seq([wo : Routines, f : Jobs])
  PROVE  IInv'
  <2> USE <1>ThrowStep
  <2> DEFINE s == stack[t]
             n == Len(s)
             s1 == Tail(s)
             f == s1[1]
             g == [f EXCEPT !.at = "unwind"]
             s2 == <<g>> \o Tail(s1)
  <2>1. StackInv(s) /\ s # <<>> /\ Kinds(s[1]) = {} /\ s[1].how = "inline" /\ s \in Seq(Frames)
    BY Zenon DEF IInv, TypeInv, Busy, Top, StackInv
  <2>2. /\ s1 \in Seq(Frames) /\ Len(s1) = n - 1 /\ n \in Nat \ {0} /\ At(s, n) = s[1]
        /\ \A k \in 1 .. n - 1 : At(s1, k) = At(s, k)
    BY <2>1, PopAt, Zenon
  <2>3. n >= 2
    <3>1. At(s, 1).how # "inline"
      BY <2>1, Zenon DEF StackInv
    <3>2. n # 1
      <4> HIDE DEF n
      <4> QED
        BY <2>1, <2>2, <3>1, Zenon
    <3>3. n \in Nat \ {0}
      BY <2>2, Zenon
    <3> HIDE DEF n
    <3> QED
      BY <3>2, <3>3
  <2>4. s1 # <<>> /\ s1[1] = s[2]
    <3> HIDE DEF n
    <3>1. Len(s1) # 0
      BY <2>2, <2>3
    <3>2. s1 # <<>>
      <4>1. Len(<<>>) = 0
        BY Zenon
      <4> HIDE DEF s1
      <4> QED
        BY <3>1, <4>1, Zenon
    <3>3. s1[1] = s[2]
      BY <2>1, <2>3 DEF n
    <3> QED
      BY <3>2, <3>3, Zenon
  <2>5. StackInv(s1) /\ f.at \in {"", "unwind"}
    BY <2>1, <2>4, PopInv, Zenon
  <2>6. FrameInv(f) /\ f \in Frames /\ At(s1, n - 1) = f
    <3>1. FrameInv(f) /\ At(s1, Len(s1)) = s1[1]
      BY <2>4, <2>5, TopInv, Zenon
    <3> QED
      BY <2>2, <3>1, FrameIsFrame, Zenon
  <2>7. AfterSubmit(f)
    <3>1. \A k \in 1 .. n - 1 : At(s, k + 1).how = "inline" => AfterSubmit(At(s, k))
      BY <2>1, Zenon DEF StackInv
    <3>2. n \in Nat \ {0} /\ n >= 2
      BY <2>2, <2>3, Zenon
    <3> HIDE DEF n, f
    <3>3. n - 1 \in 1 .. n - 1 /\ (n - 1) + 1 = n
      BY <3>2
    <3>4. At(s, n - 1) = f
      BY <2>2, <2>6, <3>3, Zenon
    <3>5. At(s, (n - 1) + 1).how = "inline"
      BY <2>1, <2>2, <3>3, Zenon
    <3> QED
      BY <3>1, <3>3, <3>4, <3>5, Zenon
  <2>8. stack' = [stack EXCEPT ![t] = s2]
    BY <2>4, Zenon
  <2> HIDE DEF s1, f
  <2>9. g.r = f.r /\ g.pc = f.pc /\ g.at = "unwind" /\ g.how = f.how /\ g.guard = f.guard /\ g.batch = f.batch /\ g \in Frames
    BY <2>6, Zenon DEF Frames, Unwinds
  <2> HIDE DEF g
  <2>10. FrameInv(g)
    <3>1. AfterSubmit(g)
      BY <2>7, <2>9, Zenon DEF AfterSubmit
    <3>2. g.at \notin Within /\ g.at # "finished"
      BY <2>9, Zenon DEF Within
    <3>3. g.pc \in 1 .. Len(Ops(g.r)) + 1 /\ (BeforeBatch(g.r, g.pc) => ~ g.batch)
      BY <2>6, <2>9, Zenon DEF FrameInv
    <3> QED
      BY <2>9, <3>1, <3>2, <3>3, Zenon DEF FrameInv
  <2>11. Kinds(g) = Kinds(f)
    BY <2>5, <2>6, <2>9, KindsSame, Zenon
  <2>12. f = s1[1]
    BY Zenon DEF f
  <2>13. StackInv(s2)
    BY <2>4, <2>5, <2>9, <2>10, <2>12, ReplaceInv, Zenon
  <2>14. /\ \A k, kind : Has(s2, k, kind) <=> Has(s1, k, kind)
         /\ Holds(s2) => Holds(s1)
    <3>1. /\ \A k, kind : Has(s2, k, kind) <=> IF k = Len(s1) THEN kind \in Kinds(g) ELSE Has(s1, k, kind)
          /\ \A kind : Has(s1, Len(s1), kind) <=> kind \in Kinds(s1[1])
          /\ Holds(s2) => Holds(s1) \/ HoldsPool(g.r, g.pc)
          /\ HoldsPool(s1[1].r, s1[1].pc) => Holds(s1)
      BY <2>4, <2>5, <2>10, ReplaceHas, Zenon
    <3> HIDE DEF s2
    <3> QED
      BY <2>9, <2>11, <2>12, <3>1, Zenon
  <2>15. /\ \A k, kind : Has(s1, k, kind) <=> Has(s, k, kind)
         /\ Holds(s1) => Holds(s)
    BY <2>1, PopHas, Zenon DEF s1
  <2>16. s2[1] = g
    <3>1. Tail(s1) \in Seq(Frames)
      BY <2>2, <2>4, PopAt, Zenon
    <3> QED
      BY <2>9, <3>1, <1>PushTop, Zenon
  <2> HIDE DEF s2
  <2>17. Quiet(s, s2)
    BY <2>9, <2>13, <2>14, <2>15, <2>16, Zenon DEF Quiet
  <2> QED
    BY <2>8, <2>17, QuietStep, Zenon

<1>EndRoutineInv. ASSUME Counting, IInv, NEW t \in Threads, NEW throws \in BOOLEAN, EndRoutine(t, throws) PROVE IInv'
  <2> USE <1>EndRoutineInv
  <2> DEFINE f == Top(t)
             g == [f EXCEPT !.at = "finished"]
  <2>1. Busy(t) /\ f.at = "" /\ f.pc > Len(Ops(f.r)) /\ db' = db /\ owner' = owner
    BY Zenon DEF EndRoutine, AtEnd, Ops
  <2>2. Kinds(f) = {}
    BY <2>1, <1>EndKinds, Zenon
  <2>3. FrameInv(f) /\ f \in Frames
    BY <2>1, TopFrame, Zenon
  <2>4. f.how \in {"call", "inline", "pool"}
    BY <2>3, Zenon DEF Frames
  <2>5. queue' = queue
    BY <2>4, Zenon DEF EndRoutine, finish, return_inline, pool
  <2>6. queue' \in Seq([wo : Routines, f : Jobs])
    BY <2>5, QueueType, Zenon
  <2>7. CASE f.how = "pool"
    <3>1. Set(t, g)
      BY <2>7, Zenon DEF EndRoutine, Goto
    <3> DEFINE at == "finished"
    <3>2. CanGo(t, at)
      BY <2>1, Zenon DEF CanGo, Within
    <3>3. Moved(t, g, at)
      BY <2>1, <3>2, GotoIs, Zenon
    <3>3a. /\ at \notin {"draining", "mapping"} /\ at \notin {"counted", "reading"}
           /\ f.at \notin {"counted", "reading"}
      BY <2>1, Zenon
    <3> HIDE DEF g, at
    <3>4. Goes(t, g) /\ Kinds(g) = Kinds(f)
      BY <3>3, <3>3a, Zenon DEF Moved
    <3> QED
      BY <2>1, <2>6, <3>1, <3>4, QuietTop, Zenon
  <2>8. CASE f.how = "call"
    <3>1. stack' = [stack EXCEPT ![t] = Tail(@)]
      BY <2>8, Zenon DEF EndRoutine
    <3> QED
      BY <2>1, <2>2, <2>6, <3>1, <1>PopStep, Zenon
  <2>9. CASE f.how = "inline" /\ ~ throws
    <3>1. stack' = [stack EXCEPT ![t] = Tail(@)]
      BY <2>9, Zenon DEF EndRoutine
    <3> QED
      BY <2>1, <2>2, <2>6, <3>1, <1>PopStep, Zenon
  <2>10. CASE f.how = "inline" /\ throws
    <3>1. stack' = [stack EXCEPT ![t] = <<[@[2] EXCEPT !.at = "unwind"]>> \o Tail(Tail(@))]
      BY <2>10, Zenon DEF EndRoutine
    <3> QED
      BY <2>1, <2>2, <2>6, <2>10, <3>1, <1>ThrowStep, Zenon
  <2> QED
    BY <2>4, <2>7, <2>8, <2>9, <2>10, Zenon

<1>BackInRunInv. ASSUME Counting, IInv, NEW t \in Threads, BackInRun(t) PROVE IInv'
  <2> USE <1>BackInRunInv
  <2>1. /\ Busy(t) /\ Top(t).at = "finished" /\ queue' = queue
        /\ stack' = [stack EXCEPT ![t] = Tail(@)] /\ db' = db /\ owner' = owner
    BY Zenon DEF BackInRun, relock
  <2>2. Top(t).pc > Len(Ops(Top(t).r))
    BY <2>1, TopFrame, Zenon DEF FrameInv
  <2>3. Kinds(Top(t)) = {}
    BY <2>1, <2>2, <1>EndKinds, Zenon
  <2>4. queue' \in Seq([wo : Routines, f : Jobs])
    BY <2>1, QueueType, Zenon
  <2> QED
    BY <2>1, <2>3, <2>4, <1>PopStep, Zenon
<1> QED
  BY <1>AcquireInv, <1>ReleaseInv, <1>SubmitInv, <1>CallRoutineInv, <1>TakeJobInv, <1>SleepInv,
     <1>StopHelpingInv, <1>WaitReturnsInv, <1>UnwoundInv, <1>EndRoutineInv, <1>BackInRunInv, Zenon DEF PoolStep

----------------------------------------------------------------------------
(* The transactions of the database. *)

\* The step counts, uncounts or hands over one count.
LEMMA AddStep ==
  ASSUME Counting, IInv, NEW t \in Threads, Busy(t), NEW g, Goes(t, g), Set(t, g), NEW a,
         a \notin Kinds(Top(t)), \A kind : kind \in Kinds(g) <=> kind = a \/ kind \in Kinds(Top(t)),
         gate = None, gate' = gate, num_active_txns' = num_active_txns + 1, rtxn' = rtxn, batch' = batch,
         pool' = pool, owner' = owner
  PROVE  IInv'
<1> DEFINE n == Len(stack[t])
           x == <<t, n, a>>
<1>1. DOMAIN stack = Threads /\ StackInv(stack[t]) /\ stack[t] # <<>> /\ FrameInv(g)
  BY Zenon DEF IInv, TypeInv, Busy, Goes
<1>2. /\ \A kind : <<t, n, kind>> \in Tokens <=> kind \in Kinds(Top(t))
      /\ \A kind : <<t, n, kind>> \in Tokens' <=> kind \in Kinds(g)
      /\ \A y : (\A kind : y # <<t, n, kind>>) => (y \in Tokens' <=> y \in Tokens)
  BY <1>1, TopTokens, Zenon
<1> HIDE DEF n
<1>3. x \notin Tokens
  BY <1>2, Zenon
<1>4. \A y : y \in Tokens' <=> y \in Tokens \cup {x}
  BY <1>2, Zenon
<1>5. Tokens' = Tokens \cup {x}
  BY <1>4, Zenon
<1>6. CountInv'
  BY <1>3, <1>5, CountAdd, Zenon DEF IInv
<1> QED
  BY <1>6, TopStep, Zenon

\* What the innermost routine of t was counted for, a, has ended.
Uncounts(t, g, a) ==
  /\ a \in Kinds(Top(t)) /\ \A kind : kind \in Kinds(g) <=> kind # a /\ kind \in Kinds(Top(t))
  /\ gate' = gate /\ num_active_txns' = num_active_txns - 1
  /\ rtxn' \subseteq rtxn /\ (a \in {"reading", "guard"} => t \notin rtxn')
  /\ batch' \in {batch, None} /\ (a = "batch" => batch' = None)
  /\ pool' = pool /\ owner' = owner

LEMMA RemoveStep ==
  ASSUME Counting, IInv, NEW t \in Threads, Busy(t), NEW g, Goes(t, g), Set(t, g), NEW a, Uncounts(t, g, a)
  PROVE  IInv'
<1> USE DEF Uncounts
<1> DEFINE n == Len(stack[t])
           x == <<t, n, a>>
<1>1. DOMAIN stack = Threads /\ StackInv(stack[t]) /\ stack[t] # <<>> /\ FrameInv(g)
  BY Zenon DEF IInv, TypeInv, Busy, Goes
<1>2. /\ \A kind : <<t, n, kind>> \in Tokens <=> kind \in Kinds(Top(t))
      /\ \A kind : <<t, n, kind>> \in Tokens' <=> kind \in Kinds(g)
      /\ \A y : (\A kind : y # <<t, n, kind>>) => (y \in Tokens' <=> y \in Tokens)
  BY <1>1, TopTokens, Zenon
<1> HIDE DEF n
<1>3. x \in Tokens
  BY <1>2, Zenon
<1>4. \A y : y \in Tokens' <=> y \in Tokens \ {x}
  BY <1>2, Zenon
<1>5. Tokens' = Tokens \ {x}
  BY <1>4, Zenon
<1>6. CountInv'
  BY <1>3, <1>5, CountRemove, Zenon DEF IInv
<1>7. num_active_txns' <= num_active_txns
  <2>1. num_active_txns \in Nat
    BY CountNat, Zenon DEF IInv
  <2> QED
    BY <2>1
<1> QED
  BY <1>6, <1>7, TopStep, Zenon

LEMMA SwapStep ==
  ASSUME Counting, IInv, NEW t \in Threads, Busy(t), NEW g, Goes(t, g), Set(t, g), NEW b \in {"reading", "guard", "batch"},
         "counted" \in Kinds(Top(t)), b \notin Kinds(Top(t)),
         \A kind : kind \in Kinds(g) <=> kind = b \/ (kind # "counted" /\ kind \in Kinds(Top(t))),
         gate' = gate, num_active_txns' = num_active_txns,
         b = "batch" => batch' = t /\ rtxn' \subseteq rtxn,
         b # "batch" => batch' = batch /\ rtxn' = rtxn \cup {t},
         pool' = pool, owner' = owner
  PROVE  IInv'
<1> DEFINE n == Len(stack[t])
           x == <<t, n, "counted">>
           z == <<t, n, b>>
<1>1. DOMAIN stack = Threads /\ StackInv(stack[t]) /\ stack[t] # <<>> /\ FrameInv(g)
  BY Zenon DEF IInv, TypeInv, Busy, Goes
<1>2. /\ n \in Nat
      /\ \A kind : <<t, n, kind>> \in Tokens <=> kind \in Kinds(Top(t))
      /\ \A kind : <<t, n, kind>> \in Tokens' <=> kind \in Kinds(g)
      /\ \A y : (\A kind : y # <<t, n, kind>>) => (y \in Tokens' <=> y \in Tokens)
  BY <1>1, TopTokens, Zenon
<1> HIDE DEF n
<1>3. x \in Tokens /\ z \notin Tokens
  BY <1>2, Zenon
<1>4. \A y : y \in Tokens' <=> y \in (Tokens \ {x}) \cup {z}
  BY <1>2, Zenon
<1>5. Tokens' = (Tokens \ {x}) \cup {z}
  BY <1>4, Zenon
<1>6. CountInv'
  BY <1>2, <1>3, <1>5, CountSwap, Zenon DEF IInv
<1>7. num_active_txns' <= num_active_txns
  <2>1. num_active_txns \in Nat
    BY CountNat, Zenon DEF IInv
  <2> QED
    BY <2>1
<1> QED
  BY <1>6, <1>7, TopStep, Zenon

LEMMA Below == \A n \in Nat : \A p \in 1 .. n : p <= n
  OBVIOUS

LEMMA DoesPc ==
  ASSUME IInv, NEW t \in Threads, NEW call, NEW at, at = "" \/ at \in Within, Does(t, call, at)
  PROVE  Top(t).pc <= Len(Ops(Top(t).r))
<1>1. Len(Ops(Top(t).r)) \in Nat /\ Top(t).pc \in 1 .. Len(Ops(Top(t).r))
  BY DoesFacts, Zenon
<1> QED
  BY <1>1, Below, Zenon

LEMMA DoesGoto ==
  ASSUME IInv, NEW t \in Threads, NEW call, NEW from, from = "" \/ from \in Within, Does(t, call, from),
         NEW to \in Within
  PROVE  Busy(t) /\ Moved(t, [Top(t) EXCEPT !.at = to], to)
<1>1. Busy(t)
  BY DoesFacts, Zenon
<1>2. Top(t).pc <= Len(Ops(Top(t).r))
  BY DoesPc, Zenon
<1>3. CanGo(t, to)
  BY <1>2, Zenon DEF CanGo, Within
<1> QED
  BY <1>1, <1>3, GotoIs, Zenon

LEMMA EnterGateInv == ASSUME Counting, IInv, NEW t \in Threads, EnterGate(t) PROVE IInv'
<1> DEFINE f == Top(t)
           g == [f EXCEPT !.at = "counted"]
<1>1. /\ gate = None /\ gate' = gate /\ num_active_txns' = num_active_txns + 1 /\ rtxn' = rtxn /\ batch' = batch
      /\ Set(t, g) /\ pool' = pool /\ owner' = owner
  BY Zenon DEF EnterGate, mdb_txn_safe, Goto
<1>2. PICK call, from : from \in {"", "begin"} /\ Does(t, call, from)
  BY Zenon DEF EnterGate
<1>3. "counted" \in Within /\ (from = "" \/ from \in Within) /\ from \notin {"counted", "reading"}
  BY <1>2, Zenon DEF Within
<1>4. Busy(t) /\ f \in Frames /\ f.at = from
  BY <1>2, <1>3, DoesFacts, Zenon
<1> DEFINE to == "counted"
<1>5. Moved(t, g, to)
  BY <1>2, <1>3, DoesGoto, Zenon
<1>5a. to = "counted" /\ to \notin {"draining", "mapping"}
  BY Zenon
<1> HIDE DEF g, to
<1>6. /\ FrameInv(g) /\ g \in Frames /\ g.r = f.r /\ g.pc = f.pc /\ g.at = to /\ g.how = f.how
      /\ g.guard = f.guard /\ g.batch = f.batch /\ Goes(t, g)
  BY <1>5, <1>5a, Zenon DEF Moved
<1>7. /\ "counted" \notin Kinds(f)
      /\ \A kind : kind \in Kinds(g) <=> kind = "counted" \/ kind \in Kinds(f)
  <2>1. \A kind \in KindNames : kind \in Kinds(g) <=> kind = "counted" \/ kind \in Kinds(f)
    BY <1>3, <1>4, <1>5a, <1>6, KindsIff, Zenon DEF KindNames
  <2>2. Kinds(f) \subseteq KindNames /\ Kinds(g) \subseteq KindNames /\ "counted" \notin Kinds(f) /\ "counted" \in KindNames
    BY <1>3, <1>4, <1>6, KindsIff, Zenon DEF KindNames
  <2> QED
    BY <2>1, <2>2, Zenon
<1> QED
  BY <1>1, <1>4, <1>6, <1>7, AddStep

LEMMA ReadBeginsInv == ASSUME Counting, IInv, NEW t \in Threads, ReadBegins(t) PROVE IInv'
<1> DEFINE f == Top(t)
<1>1. Does(t, "read", "counted") /\ pool' = pool /\ owner' = owner
  BY Zenon DEF ReadBegins
<1>2. "counted" \in Within /\ "reading" \in Within
  BY Zenon DEF Within
<1>3. Busy(t) /\ f \in Frames /\ f.at = "counted" /\ Op(t)[1] = "read" /\ Facts(f.r, f.pc, Op(t))
  BY <1>1, <1>2, DoesFacts, Zenon
<1>4. "counted" \in Kinds(f) /\ "reading" \notin Kinds(f) /\ Kinds(f) \subseteq KindNames
  BY <1>3, KindsIff, Zenon
<1>5. CASE has_txn(t)
  <2> DEFINE g == Onward(t)
  <2>1. Set(t, g) /\ close_rtxn(t, FALSE)
    BY <1>5, Zenon DEF ReadBegins
  <2>2. /\ g \in Frames /\ g.r = f.r /\ g.pc = f.pc + 1 /\ g.at = "" /\ g.guard = f.guard /\ g.batch = f.batch
    BY <1>1, <1>2, OnwardIs, Zenon
  <2>3. Goes(t, g)
    <3>1. "read" # "lock"
      BY Zenon
    <3> QED
      BY <1>1, <1>2, <3>1, OnwardIs, Zenon
  <2> HIDE DEF g, f
  <2>4. (InGuard(f.r, f.pc + 1) <=> InGuard(f.r, f.pc)) /\ (InBatch(f.r, f.pc + 1) <=> InBatch(f.r, f.pc))
    BY <1>3, Zenon DEF Facts, ReadingFacts, BatchFacts
  <2>5. (InGuard(g.r, g.pc) <=> InGuard(f.r, f.pc)) /\ (InBatch(g.r, g.pc) <=> InBatch(f.r, f.pc))
    BY <2>2, <2>4, Zenon
  <2>6. \A kind : kind \in Kinds(g) <=> kind # "counted" /\ kind \in Kinds(f)
    <3>1. \A kind \in KindNames : kind \in Kinds(g) <=> kind # "counted" /\ kind \in Kinds(f)
      BY <1>3, <2>2, <2>5, KindsIff, Zenon DEF KindNames
    <3>2. Kinds(g) \subseteq KindNames
      BY <2>2, KindsIff, Zenon
    <3> QED
      BY <1>4, <3>1, <3>2, Zenon
  <2>7. gate' = gate /\ num_active_txns' = num_active_txns - 1 /\ rtxn' = rtxn /\ batch' = batch
    BY <2>1, Zenon DEF close_rtxn
  <2>8. rtxn' \subseteq rtxn /\ batch' \in {batch, None} /\ "counted" \notin {"reading", "guard"} /\ "counted" # "batch"
    BY <2>7, Zenon
  <2>9. Uncounts(t, g, "counted")
    BY <1>1, <1>4, <2>6, <2>7, <2>8, Zenon DEF f, Uncounts
  <2> QED
    BY <1>3, <2>1, <2>3, <2>9, RemoveStep, Zenon
<1>6. CASE ~ has_txn(t)
  <2> DEFINE g == [f EXCEPT !.at = "reading"]
             to == "reading"
  <2>1. Set(t, g) /\ open_rtxn(t)
    BY <1>6, Zenon DEF ReadBegins, Goto
  <2>2. Moved(t, g, to)
    BY <1>1, <1>2, DoesGoto, Zenon
  <2>2a. to = "reading" /\ to \notin {"draining", "mapping"}
    BY Zenon
  <2> HIDE DEF g, to
  <2>3. g \in Frames /\ g.r = f.r /\ g.pc = f.pc /\ g.at = to /\ g.guard = f.guard /\ g.batch = f.batch /\ Goes(t, g)
    BY <2>2, <2>2a, Zenon DEF Moved
  <2>4. \A kind : kind \in Kinds(g) <=> kind = "reading" \/ (kind # "counted" /\ kind \in Kinds(f))
    <3>1. \A kind \in KindNames : kind \in Kinds(g) <=> kind = "reading" \/ (kind # "counted" /\ kind \in Kinds(f))
      BY <1>3, <2>2a, <2>3, KindsIff, Zenon DEF KindNames
    <3>2. Kinds(g) \subseteq KindNames /\ "reading" \in KindNames
      BY <2>3, KindsIff, Zenon DEF KindNames
    <3> QED
      BY <1>4, <3>1, <3>2, Zenon
  <2>5. gate' = gate /\ num_active_txns' = num_active_txns /\ rtxn' = rtxn \cup {t} /\ batch' = batch
    BY <2>1, Zenon DEF open_rtxn
  <2>6. "reading" # "batch"
    BY Zenon
  <2> QED
    BY <1>1, <1>3, <1>4, <2>1, <2>3, <2>4, <2>5, <2>6, SwapStep, Zenon
<1> QED
  BY <1>5, <1>6, Zenon

LEMMA ReadEndsInv == ASSUME Counting, IInv, NEW t \in Threads, ReadEnds(t) PROVE IInv'
<1> DEFINE f == Top(t)
           g == Onward(t)
<1>1. Does(t, "read", "reading") /\ pool' = pool /\ owner' = owner /\ Set(t, g) /\ close_rtxn(t, TRUE)
  BY Zenon DEF ReadEnds
<1>2. "reading" \in Within
  BY Zenon DEF Within
<1>3. Busy(t) /\ f \in Frames /\ f.at = "reading" /\ Op(t)[1] = "read" /\ Facts(f.r, f.pc, Op(t))
  BY <1>1, <1>2, DoesFacts, Zenon
<1>4. "reading" \in Kinds(f) /\ Kinds(f) \subseteq KindNames
  BY <1>3, KindsIff, Zenon
<1>5. /\ g \in Frames /\ g.r = f.r /\ g.pc = f.pc + 1 /\ g.at = "" /\ g.guard = f.guard /\ g.batch = f.batch
  BY <1>1, <1>2, OnwardIs, Zenon
<1>6. Goes(t, g)
  <2>1. "read" # "lock"
    BY Zenon
  <2> QED
    BY <1>1, <1>2, <2>1, OnwardIs, Zenon
<1> HIDE DEF g, f
<1>7. (InGuard(f.r, f.pc + 1) <=> InGuard(f.r, f.pc)) /\ (InBatch(f.r, f.pc + 1) <=> InBatch(f.r, f.pc))
  BY <1>3, Zenon DEF Facts, ReadingFacts, BatchFacts
<1>8. (InGuard(g.r, g.pc) <=> InGuard(f.r, f.pc)) /\ (InBatch(g.r, g.pc) <=> InBatch(f.r, f.pc))
  BY <1>5, <1>7, Zenon
<1>9. \A kind : kind \in Kinds(g) <=> kind # "reading" /\ kind \in Kinds(f)
  <2>1. \A kind \in KindNames : kind \in Kinds(g) <=> kind # "reading" /\ kind \in Kinds(f)
    BY <1>3, <1>5, <1>8, KindsIff, Zenon DEF KindNames
  <2>2. Kinds(g) \subseteq KindNames
    BY <1>5, KindsIff, Zenon
  <2> QED
    BY <1>4, <2>1, <2>2, Zenon
<1>10. gate' = gate /\ num_active_txns' = num_active_txns - 1 /\ rtxn' = rtxn \ {t} /\ batch' = batch
  BY <1>1, Zenon DEF close_rtxn
<1>11. rtxn' \subseteq rtxn /\ t \notin rtxn' /\ batch' \in {batch, None} /\ "reading" # "batch"
  BY <1>10, Zenon
<1>12. Uncounts(t, g, "reading")
  BY <1>1, <1>4, <1>9, <1>10, <1>11, Zenon DEF f, Uncounts
<1> QED
  BY <1>1, <1>3, <1>6, <1>12, RemoveStep, Zenon

LEMMA GuardBeginsInv == ASSUME Counting, IInv, NEW t \in Threads, GuardBegins(t) PROVE IInv'
<1> DEFINE f == Top(t)
           o == Onward(t)
           g == [o EXCEPT !.guard = ~ has_txn(t)]
<1>1. Does(t, "guard", "counted") /\ pool' = pool /\ owner' = owner /\ Set(t, g)
  BY Zenon DEF GuardBegins
<1>2. "counted" \in Within
  BY Zenon DEF Within
<1>3. Busy(t) /\ f \in Frames /\ f.at = "counted" /\ Op(t)[1] = "guard" /\ Facts(f.r, f.pc, Op(t))
  BY <1>1, <1>2, DoesFacts, Zenon
<1>4. /\ FrameInv(o) /\ o \in Frames /\ o.r = f.r /\ o.pc = f.pc + 1 /\ o.at = "" /\ o.batch = f.batch
  BY <1>1, <1>2, OnwardIs, Zenon
<1>5. Goes(t, o)
  <2>1. "guard" # "lock"
    BY Zenon
  <2> QED
    BY <1>1, <1>2, <2>1, OnwardIs, Zenon
<1>6. has_txn(t) \in BOOLEAN
  BY Zenon DEF has_txn
<1> DEFINE h == ~ has_txn(t)
<1>7. h \in BOOLEAN /\ (h <=> ~ has_txn(t)) /\ g = [o EXCEPT !.guard = h]
  BY <1>6, Zenon
<1> HIDE DEF f, o, g, h
<1>8. /\ g \in Frames /\ g.r = o.r /\ g.pc = o.pc /\ g.at = o.at /\ g.how = o.how /\ g.guard = h /\ g.batch = o.batch
  BY <1>4, <1>7, Zenon DEF Frames
<1>9. FrameInv(g)
  <2>1. AfterSubmit(o) => AfterSubmit(g)
    BY <1>8, Zenon DEF AfterSubmit
  <2> QED
    BY <1>4, <1>8, <2>1, Zenon DEF FrameInv
<1>10. Goes(t, g)
  BY <1>5, <1>8, <1>9, Zenon DEF Goes
<1>11. /\ ~ InGuard(f.r, f.pc) /\ InGuard(g.r, g.pc)
       /\ InBatch(g.r, g.pc) <=> InBatch(f.r, f.pc)
  <2>1. ~ InGuard(f.r, f.pc) /\ InGuard(f.r, f.pc + 1) /\ (InBatch(f.r, f.pc + 1) <=> InBatch(f.r, f.pc))
    BY <1>3, Zenon DEF Facts, ReadingFacts, BatchFacts
  <2> QED
    BY <1>4, <1>8, <2>1, Zenon
<1>12. /\ "counted" \in Kinds(f) /\ "guard" \notin Kinds(f) /\ Kinds(f) \subseteq KindNames
       /\ Kinds(g) \subseteq KindNames /\ "guard" \in KindNames
  BY <1>3, <1>8, <1>11, KindsIff, Zenon DEF KindNames
<1>13. g.at = "" /\ g.batch = f.batch
  BY <1>4, <1>8, Zenon
<1>14. CASE has_txn(t)
  <2>1. \A kind : kind \in Kinds(g) <=> kind # "counted" /\ kind \in Kinds(f)
    <3>0. g.guard = FALSE
      BY <1>7, <1>8, <1>14, Zenon
    <3>1. \A kind \in KindNames : kind \in Kinds(g) <=> kind # "counted" /\ kind \in Kinds(f)
      BY <1>3, <1>8, <1>11, <1>13, <3>0, KindsIff, Zenon DEF KindNames
    <3> QED
      BY <1>12, <3>1, Zenon
  <2>2. gate' = gate /\ num_active_txns' = num_active_txns - 1 /\ rtxn' = rtxn /\ batch' = batch
    BY <1>14, Zenon DEF GuardBegins, close_rtxn
  <2>3. rtxn' \subseteq rtxn /\ batch' \in {batch, None} /\ "counted" \notin {"reading", "guard"} /\ "counted" # "batch"
    BY <2>2, Zenon
  <2>4. Uncounts(t, g, "counted")
    BY <1>1, <1>12, <2>1, <2>2, <2>3, Zenon DEF f, Uncounts
  <2> QED
    BY <1>1, <1>3, <1>10, <2>4, RemoveStep, Zenon
<1>15. CASE ~ has_txn(t)
  <2>1. \A kind : kind \in Kinds(g) <=> kind = "guard" \/ (kind # "counted" /\ kind \in Kinds(f))
    <3>0. g.guard = TRUE
      BY <1>7, <1>8, <1>15, Zenon
    <3>1. \A kind \in KindNames : kind \in Kinds(g) <=> kind = "guard" \/ (kind # "counted" /\ kind \in Kinds(f))
      BY <1>3, <1>8, <1>11, <1>13, <3>0, KindsIff, Zenon DEF KindNames
    <3> QED
      BY <1>12, <3>1, Zenon
  <2>2. gate' = gate /\ num_active_txns' = num_active_txns /\ rtxn' = rtxn \cup {t} /\ batch' = batch
    BY <1>15, Zenon DEF GuardBegins, open_rtxn
  <2>3. "guard" # "batch"
    BY Zenon
  <2> QED
    BY <1>1, <1>3, <1>10, <1>12, <2>1, <2>2, <2>3, SwapStep, Zenon DEF f
<1> QED
  BY <1>14, <1>15, Zenon

LEMMA GuardEndsInv == ASSUME Counting, IInv, NEW t \in Threads, GuardEnds(t) PROVE IInv'
<1> DEFINE f == Top(t)
           g == Onward(t)
<1>1. Does(t, "unguard", "") /\ pool' = pool /\ owner' = owner /\ Set(t, g)
  BY Zenon DEF GuardEnds
<1>2. Busy(t) /\ f \in Frames /\ f.at = "" /\ Op(t)[1] = "unguard" /\ Facts(f.r, f.pc, Op(t))
  BY <1>1, DoesFacts, Zenon
<1>3. /\ g \in Frames /\ g.r = f.r /\ g.pc = f.pc + 1 /\ g.at = "" /\ g.guard = f.guard /\ g.batch = f.batch
  BY <1>1, OnwardIs, Zenon
<1>4. Goes(t, g)
  <2>1. "unguard" # "lock"
    BY Zenon
  <2> QED
    BY <1>1, <2>1, OnwardIs, Zenon
<1>5. f.guard \in BOOLEAN
  BY <1>2, Zenon DEF Frames
<1>6. CASE f.guard = TRUE
  <2>1. close_rtxn(t, TRUE)
    BY <1>6, Zenon DEF GuardEnds
  <2> HIDE DEF f, g
  <2>2. InGuard(f.r, f.pc) /\ ~ InGuard(g.r, g.pc) /\ (InBatch(g.r, g.pc) <=> InBatch(f.r, f.pc))
    <3>1. InGuard(f.r, f.pc) /\ ~ InGuard(f.r, f.pc + 1) /\ (InBatch(f.r, f.pc + 1) <=> InBatch(f.r, f.pc))
      BY <1>2, Zenon DEF Facts, ReadingFacts, BatchFacts
    <3> QED
      BY <1>3, <3>1, Zenon
  <2>3. "guard" \in Kinds(f) /\ Kinds(f) \subseteq KindNames /\ Kinds(g) \subseteq KindNames
    BY <1>2, <1>3, <1>6, <2>2, KindsIff, Zenon
  <2>4. \A kind : kind \in Kinds(g) <=> kind # "guard" /\ kind \in Kinds(f)
    <3>1. \A kind \in KindNames : kind \in Kinds(g) <=> kind # "guard" /\ kind \in Kinds(f)
      BY <1>2, <1>3, <2>2, KindsIff, Zenon DEF KindNames
    <3> QED
      BY <2>3, <3>1, Zenon
  <2>5. gate' = gate /\ num_active_txns' = num_active_txns - 1 /\ rtxn' = rtxn \ {t} /\ batch' = batch
    BY <2>1, Zenon DEF close_rtxn
  <2>6. rtxn' \subseteq rtxn /\ t \notin rtxn' /\ batch' \in {batch, None} /\ "guard" # "batch"
    BY <2>5, Zenon
  <2>7. Uncounts(t, g, "guard")
    BY <1>1, <2>3, <2>4, <2>5, <2>6, Zenon DEF f, Uncounts
  <2> QED
    BY <1>1, <1>2, <1>4, <2>7, RemoveStep, Zenon
<1>7. CASE f.guard = FALSE
  <2>1. db' = db
    BY <1>7, Zenon DEF GuardEnds
  <2> HIDE DEF f, g
  <2>2. InBatch(g.r, g.pc) <=> InBatch(f.r, f.pc)
    <3>1. InBatch(f.r, f.pc + 1) <=> InBatch(f.r, f.pc)
      BY <1>2, Zenon DEF Facts, BatchFacts
    <3> QED
      BY <1>3, <3>1, Zenon
  <2>3. f.at # "counted" /\ f.at # "reading" /\ g.at # "counted" /\ g.at # "reading" /\ f.guard # TRUE /\ g.guard # TRUE
    BY <1>2, <1>3, <1>7, Zenon
  <2>4. Kinds(g) = Kinds(f)
    BY <1>2, <1>3, <2>2, <2>3, KindsSame, Zenon
  <2>5. queue' \in Seq([wo : Routines, f : Jobs])
    BY <1>1, QueueType, Zenon DEF pool
  <2> QED
    BY <1>1, <1>2, <1>4, <2>1, <2>4, <2>5, QuietTop, Zenon DEF f
<1> QED
  BY <1>5, <1>6, <1>7, Zenon

LEMMA BatchStopsInv == ASSUME Counting, IInv, NEW t \in Threads, BatchStops(t) PROVE IInv'
<1> DEFINE f == Top(t)
           g == Onward(t)
<1>1. Does(t, "batch_stop", "") /\ pool' = pool /\ owner' = owner /\ Set(t, g)
  BY Zenon DEF BatchStops
<1>2. Busy(t) /\ f \in Frames /\ f.at = "" /\ Op(t)[1] = "batch_stop" /\ Facts(f.r, f.pc, Op(t))
  BY <1>1, DoesFacts, Zenon
<1>3. /\ g \in Frames /\ g.r = f.r /\ g.pc = f.pc + 1 /\ g.at = "" /\ g.guard = f.guard /\ g.batch = f.batch
  BY <1>1, OnwardIs, Zenon
<1>4. Goes(t, g)
  <2>1. "batch_stop" # "lock"
    BY Zenon
  <2> QED
    BY <1>1, <2>1, OnwardIs, Zenon
<1>5. f.batch \in BOOLEAN
  BY <1>2, Zenon DEF Frames
<1>6. CASE f.batch = TRUE
  <2>1. end_batch
    BY <1>6, Zenon DEF BatchStops
  <2> HIDE DEF f, g
  <2>2. InBatch(f.r, f.pc) /\ ~ InBatch(g.r, g.pc) /\ (InGuard(g.r, g.pc) <=> InGuard(f.r, f.pc))
    <3>1. InBatch(f.r, f.pc) /\ ~ InBatch(f.r, f.pc + 1) /\ (InGuard(f.r, f.pc + 1) <=> InGuard(f.r, f.pc))
      BY <1>2, Zenon DEF Facts, ReadingFacts, BatchFacts
    <3> QED
      BY <1>3, <3>1, Zenon
  <2>3. "batch" \in Kinds(f) /\ Kinds(f) \subseteq KindNames /\ Kinds(g) \subseteq KindNames
    BY <1>2, <1>3, <1>6, <2>2, KindsIff, Zenon
  <2>4. \A kind : kind \in Kinds(g) <=> kind # "batch" /\ kind \in Kinds(f)
    <3>1. \A kind \in KindNames : kind \in Kinds(g) <=> kind # "batch" /\ kind \in Kinds(f)
      BY <1>2, <1>3, <2>2, KindsIff, Zenon DEF KindNames
    <3> QED
      BY <2>3, <3>1, Zenon
  <2>5. gate' = gate /\ num_active_txns' = num_active_txns - 1 /\ rtxn' = rtxn /\ batch' = None
    BY <2>1, Zenon DEF end_batch
  <2>6. rtxn' \subseteq rtxn /\ batch' \in {batch, None} /\ "batch" \notin {"reading", "guard"}
    BY <2>5, Zenon
  <2>7. Uncounts(t, g, "batch")
    BY <1>1, <2>3, <2>4, <2>5, <2>6, Zenon DEF f, Uncounts
  <2> QED
    BY <1>1, <1>2, <1>4, <2>7, RemoveStep, Zenon
<1>7. CASE f.batch = FALSE
  <2>1. db' = db
    BY <1>7, Zenon DEF BatchStops
  <2> HIDE DEF f, g
  <2>2. InGuard(g.r, g.pc) <=> InGuard(f.r, f.pc)
    <3>1. InGuard(f.r, f.pc + 1) <=> InGuard(f.r, f.pc)
      BY <1>2, Zenon DEF Facts, ReadingFacts
    <3> QED
      BY <1>3, <3>1, Zenon
  <2>3. f.at # "counted" /\ f.at # "reading" /\ g.at # "counted" /\ g.at # "reading" /\ f.batch # TRUE /\ g.batch # TRUE
    BY <1>2, <1>3, <1>7, Zenon
  <2>4. Kinds(g) = Kinds(f)
    BY <1>2, <1>3, <2>2, <2>3, KindsSame, Zenon
  <2>5. queue' \in Seq([wo : Routines, f : Jobs])
    BY <1>1, QueueType, Zenon DEF pool
  <2> QED
    BY <1>1, <1>2, <1>4, <2>1, <2>4, <2>5, QuietTop, Zenon DEF f
<1> QED
  BY <1>5, <1>6, <1>7, Zenon

LEMMA BatchBeginsInv == ASSUME Counting, IInv, NEW t \in Threads, BatchBegins(t) PROVE IInv'
<1> DEFINE f == Top(t)
           o == Onward(t)
           g == [o EXCEPT !.batch = TRUE]
<1>1. Does(t, "batch_start", "counted") /\ pool' = pool /\ owner' = owner /\ Set(t, g)
  BY Zenon DEF BatchBegins
<1>2. "counted" \in Within
  BY Zenon DEF Within
<1>3. Busy(t) /\ f \in Frames /\ f.at = "counted" /\ Op(t)[1] = "batch_start" /\ Facts(f.r, f.pc, Op(t))
  BY <1>1, <1>2, DoesFacts, Zenon
<1>4. /\ FrameInv(o) /\ o \in Frames /\ o.r = f.r /\ o.pc = f.pc + 1 /\ o.at = "" /\ o.guard = f.guard
  BY <1>1, <1>2, OnwardIs, Zenon
<1>5. Goes(t, o)
  <2>1. "batch_start" # "lock"
    BY Zenon
  <2> QED
    BY <1>1, <1>2, <2>1, OnwardIs, Zenon
<1>6. g = [o EXCEPT !.batch = TRUE]
  BY Zenon
<1> HIDE DEF f, o, g
<1>7. /\ g \in Frames /\ g.r = o.r /\ g.pc = o.pc /\ g.at = o.at /\ g.how = o.how /\ g.guard = o.guard /\ g.batch = TRUE
  BY <1>4, <1>6, Zenon DEF Frames
<1>8. /\ ~ InBatch(f.r, f.pc) /\ InBatch(g.r, g.pc) /\ ~ BeforeBatch(g.r, g.pc)
      /\ InGuard(g.r, g.pc) <=> InGuard(f.r, f.pc)
  <2>1. /\ ~ InBatch(f.r, f.pc) /\ InBatch(f.r, f.pc + 1) /\ ~ BeforeBatch(f.r, f.pc + 1)
        /\ InGuard(f.r, f.pc + 1) <=> InGuard(f.r, f.pc)
    BY <1>3, Zenon DEF Facts, ReadingFacts, BatchFacts
  <2> QED
    BY <1>4, <1>7, <2>1, Zenon
<1>9. FrameInv(g)
  <2>1. AfterSubmit(o) => AfterSubmit(g)
    BY <1>7, Zenon DEF AfterSubmit
  <2> QED
    BY <1>4, <1>7, <1>8, <2>1, Zenon DEF FrameInv
<1>10. Goes(t, g)
  BY <1>5, <1>7, <1>9, Zenon DEF Goes
<1>11. /\ "counted" \in Kinds(f) /\ "batch" \notin Kinds(f) /\ Kinds(f) \subseteq KindNames
       /\ Kinds(g) \subseteq KindNames /\ "batch" \in KindNames
  BY <1>3, <1>7, <1>8, KindsIff, Zenon DEF KindNames
<1>12. g.at = "" /\ g.guard = f.guard
  BY <1>4, <1>7, Zenon
<1>13. \A kind : kind \in Kinds(g) <=> kind = "batch" \/ (kind # "counted" /\ kind \in Kinds(f))
  <2>1. \A kind \in KindNames : kind \in Kinds(g) <=> kind = "batch" \/ (kind # "counted" /\ kind \in Kinds(f))
    BY <1>3, <1>7, <1>8, <1>12, KindsIff, Zenon DEF KindNames
  <2> QED
    BY <1>11, <2>1, Zenon
<1>14. gate' = gate /\ num_active_txns' = num_active_txns /\ rtxn' = rtxn \ {t} /\ batch' = t
  BY Zenon DEF BatchBegins, begin_batch
<1>15. rtxn' \subseteq rtxn
  BY <1>14, Zenon
<1> QED
  BY <1>1, <1>3, <1>10, <1>11, <1>13, <1>14, <1>15, SwapStep, Zenon DEF f

----------------------------------------------------------------------------
(* The gate is closed and opened. *)

\* No thread but t resizes.
Alone(t) == \A u \in Threads : u # t /\ stack[u] # <<>> => stack[u][1].at \notin {"draining", "mapping"}

LEMMA GateChange ==
  ASSUME IInv, NEW t \in Threads, Busy(t), Alone(t), NEW to, NEW f, Moved(t, f, to), Set(t, f),
         Kinds(f) = Kinds(Top(t)),
         to \in {"draining", "mapping"} => gate' = t,
         to = "mapping" => num_active_txns = 0,
         num_active_txns' = num_active_txns, rtxn' = rtxn, batch' = batch, pool' = pool, owner' = owner
  PROVE  IInv'
<1> DEFINE s == stack[t]
           s2 == <<f>> \o Tail(s)
<1>1. stack' = [stack EXCEPT ![t] = s2] /\ DOMAIN stack = Threads
  BY Zenon DEF Set, IInv, TypeInv
<1>2. /\ StackInv(s) /\ s # <<>> /\ FrameInv(f) /\ f.r = s[1].r /\ f.pc = s[1].pc /\ f.at = to
      /\ f.how = s[1].how /\ Kinds(f) = Kinds(s[1])
  BY Zenon DEF IInv, TypeInv, Busy, Moved, Top
<1>3. StackInv(s2)
  BY <1>2, ReplaceInv, Zenon
<1>4. s2[1] = f
  <2>1. s \in Seq(Frames) /\ f \in Frames
    BY <1>2, FrameIsFrame, Zenon DEF StackInv
  <2>2. s # <<>>
    BY <1>2, Zenon
  <2> QED
    BY <2>1, <2>2, ReplaceAt, SMTT(30)
<1>5. /\ \A k, kind : Has(s2, k, kind) <=> Has(s, k, kind)
      /\ Holds(s2) => Holds(s)
  <2>1. /\ \A k, kind : Has(s2, k, kind) <=> IF k = Len(s) THEN kind \in Kinds(f) ELSE Has(s, k, kind)
        /\ \A kind : Has(s, Len(s), kind) <=> kind \in Kinds(s[1])
        /\ Holds(s2) => Holds(s) \/ HoldsPool(f.r, f.pc)
        /\ HoldsPool(s[1].r, s[1].pc) => Holds(s)
    BY <1>2, ReplaceHas, Zenon
  <2> HIDE DEF s2
  <2> QED
    BY <1>2, <2>1, Zenon
<1> HIDE DEF s2
<1>6. TypeInv'
  <2>1. TypeInv /\ queue' \in Seq([wo : Routines, f : Jobs]) /\ DOMAIN owner' = DOMAIN owner
    BY Zenon DEF IInv, TypeInv, pool
  <2> QED
    BY <1>1, <1>3, <2>1, TypeStep, Zenon
<1>7. CountInv'
  <2>1. Tokens' = Tokens
    BY <1>1, <1>5, SameTokens, Zenon
  <2> QED
    BY <2>1, CountSame, Zenon DEF IInv
<1>8. GateInv'
  <2> SUFFICES ASSUME NEW u \in Threads, stack'[u] # <<>>, stack'[u][1].at \in {"draining", "mapping"}
               PROVE  gate' = u /\ (stack'[u][1].at = "mapping" => num_active_txns' = 0)
    BY Zenon DEF GateInv, Busy, Top
  <2>1. u = t
    BY <1>1, Zenon DEF Alone
  <2>2. stack'[u][1].at = to
    BY <1>1, <1>2, <1>4, <2>1, Zenon
  <2> QED
    BY <2>1, <2>2, Zenon
<1>9. LockInv'
  BY <1>1, <1>5, LockStep, Zenon DEF IInv
<1> QED
  BY <1>6, <1>7, <1>8, <1>9, Zenon DEF IInv

LEMMA ResizesAlone ==
  ASSUME IInv, NEW t \in Threads, gate \in {t, None}
  PROVE  Alone(t)
  BY ThreadAssumption, Zenon DEF Alone, IInv, GateInv, Busy, Top

LEMMA CloseGateInv == ASSUME IInv, NEW t \in Threads, CloseGate(t) PROVE IInv'
<1> DEFINE to == "draining"
           g == [Top(t) EXCEPT !.at = to]
<1>1. /\ Does(t, "batch_start", "resize") /\ gate = None /\ gate' = t /\ Set(t, g)
      /\ num_active_txns' = num_active_txns /\ rtxn' = rtxn /\ batch' = batch /\ pool' = pool /\ owner' = owner
  BY Zenon DEF CloseGate, prevent_new_txns, Goto
<1>2. "resize" \in Within /\ to \in Within /\ to \notin {"counted", "reading"} /\ to # "mapping"
  BY Zenon DEF Within
<1>3. Busy(t) /\ Moved(t, g, to)
  BY <1>1, <1>2, DoesGoto, Zenon
<1>4. Top(t).at \notin {"counted", "reading"}
  BY <1>1, Zenon DEF Does
<1>5. Alone(t)
  BY <1>1, ResizesAlone, Zenon
<1> HIDE DEF g, to
<1>6. Kinds(g) = Kinds(Top(t))
  BY <1>2, <1>3, <1>4, Zenon DEF Moved
<1> QED
  BY <1>1, <1>2, <1>3, <1>5, <1>6, GateChange, Zenon

LEMMA DrainedInv == ASSUME IInv, NEW t \in Threads, Drained(t) PROVE IInv'
<1> DEFINE to == "mapping"
           g == [Top(t) EXCEPT !.at = to]
<1>1. /\ Does(t, "batch_start", "draining") /\ num_active_txns = 0 /\ Set(t, g)
      /\ db' = db /\ pool' = pool /\ owner' = owner
  BY Zenon DEF Drained, wait_no_active_txns, Goto
<1>1a. gate' = gate /\ num_active_txns' = num_active_txns /\ rtxn' = rtxn /\ batch' = batch
  BY <1>1, Zenon DEF db
<1>2. "draining" \in Within /\ to \in Within /\ to \notin {"counted", "reading"}
  BY Zenon DEF Within
<1>3. Busy(t) /\ Moved(t, g, to)
  BY <1>1, <1>2, DoesGoto, Zenon
<1>4. Top(t).at \notin {"counted", "reading"} /\ gate = t
  BY <1>1, Zenon DEF Does, IInv, GateInv
<1>5. Alone(t)
  BY <1>4, ResizesAlone, Zenon
<1> HIDE DEF g, to
<1>6. Kinds(g) = Kinds(Top(t))
  BY <1>2, <1>3, <1>4, Zenon DEF Moved
<1> QED
  BY <1>1, <1>1a, <1>3, <1>4, <1>5, <1>6, GateChange, Zenon

LEMMA ResizeInv == ASSUME IInv, NEW t \in Threads, Resize(t) PROVE IInv'
<1> DEFINE to == "begin"
           g == [Top(t) EXCEPT !.at = to]
<1>1. /\ Does(t, "batch_start", "mapping") /\ Set(t, g)
      /\ num_active_txns' = num_active_txns /\ rtxn' = rtxn /\ batch' = batch /\ pool' = pool /\ owner' = owner
  BY Zenon DEF Resize, allow_new_txns, Goto
<1>2. "mapping" \in Within /\ to \in Within /\ to \notin {"counted", "reading"} /\ to \notin {"draining", "mapping"}
  BY Zenon DEF Within
<1>3. Busy(t) /\ Moved(t, g, to)
  BY <1>1, <1>2, DoesGoto, Zenon
<1>4. Top(t).at \notin {"counted", "reading"} /\ gate = t
  BY <1>1, Zenon DEF Does, IInv, GateInv
<1>5. Alone(t)
  BY <1>4, ResizesAlone, Zenon
<1> HIDE DEF g, to
<1>6. Kinds(g) = Kinds(Top(t))
  BY <1>2, <1>3, <1>4, Zenon DEF Moved
<1> QED
  BY <1>1, <1>2, <1>3, <1>5, <1>6, GateChange, Zenon

LEMMA Ranges ==
  /\ 4 - 2 = 2 /\ 2 \in Nat
  /\ \A n \in Nat : 4 \in 1 .. n + 1 => 2 \in 1 .. n + 1
  /\ 1 \notin 3 .. 15 /\ 1 \notin 3 .. 14 /\ 1 \notin 2 .. 7
  /\ \A n \in 5 .. 13 : n \in 3 .. 15
  /\ \A n \in 11 .. 12 : n \in 3 .. 14
  /\ \A n \in 4 .. 5 : n \in 2 .. 7
  OBVIOUS

LEMMA LoopPlaces ==
  /\ BeforeBatch("incoming_blocks", 4) /\ ~ InBatch("incoming_blocks", 4) /\ ~ InGuard("incoming_blocks", 4)
  /\ ~ HoldsPool("incoming_blocks", 2) /\ ~ InBatch("incoming_blocks", 2) /\ ~ InGuard("incoming_blocks", 2)
  BY DEF BeforeBatch, HoldsPool, InBatch, InGuard

\* A routine that a thread begins with has not got the lock of the pool; one with a batch has.
LEMMA BeginsWithout == \A r \in EntryPoints : ~ HoldsPool(r, 1)
<1>1. "take_tx" \notin EntryPoints
  BY Zenon DEF EntryPoints
<1> QED
  BY <1>1, Ranges, Zenon DEF HoldsPool

LEMMA BatchHoldsPool == \A r, n : InBatch(r, n) => HoldsPool(r, n)
  BY Ranges, Zenon DEF InBatch, HoldsPool

\* The loop of prepare_handle_incoming_blocks goes back to its first lock.
LEMMA LoopFrame ==
  ASSUME NEW f \in Frames, FrameInv(f), f.r = "incoming_blocks", f.pc = 4, f.at = ""
  PROVE  LET g == [f EXCEPT !.pc = @ - 2]
         IN FrameInv(g) /\ g \in Frames /\ g.r = f.r /\ g.how = f.how /\ g.at = "" /\ g.pc = 2
            /\ Kinds(g) = Kinds(f) /\ ~ HoldsPool(g.r, g.pc)
<1> DEFINE g == [f EXCEPT !.pc = @ - 2]
<1>1. 4 - 2 = 2 /\ 2 \in Nat
  BY Ranges, Zenon
<1>2. g = [f EXCEPT !.pc = 2]
  BY <1>1, Zenon DEF Frames
<1> HIDE DEF g
<1>3. /\ g \in Frames /\ g.r = f.r /\ g.how = f.how /\ g.at = f.at /\ g.pc = 2
      /\ g.guard = f.guard /\ g.batch = f.batch
  BY <1>1, <1>2, Zenon DEF Frames
<1>4. /\ BeforeBatch(f.r, f.pc) /\ ~ HoldsPool(g.r, g.pc) /\ ~ InBatch(g.r, g.pc) /\ ~ InBatch(f.r, f.pc)
      /\ ~ InGuard(g.r, g.pc) /\ ~ InGuard(f.r, f.pc)
  <2>1. g.r = "incoming_blocks" /\ g.pc = 2
    BY <1>3, Zenon
  <2> QED
    BY <2>1, LoopPlaces, Zenon
<1>5. FrameInv(g)
  <2>1. \A n \in Nat : 4 \in 1 .. n + 1 => 2 \in 1 .. n + 1
    BY Ranges, Zenon
  <2>2. "incoming_blocks" \in Names
    BY Zenon DEF Names, EntryPoints
  <2>3. Len(Ops(f.r)) \in Nat
    BY <2>2, AllFacts, Zenon DEF RoutineFacts
  <2>4. g.pc \in 1 .. Len(Ops(g.r)) + 1
    BY <1>3, <2>1, <2>3, Zenon DEF FrameInv
  <2>5. g.at \notin Within /\ g.at # "finished" /\ g.at \notin Unwinds
    BY <1>3, Zenon DEF Within, Unwinds
  <2>6. ~ g.batch
    BY <1>3, <1>4, Zenon DEF FrameInv
  <2> QED
    BY <1>3, <2>4, <2>5, <2>6, Zenon DEF FrameInv
<1>6. Kinds(g) = Kinds(f)
  BY <1>3, <1>4, KindsSame, Zenon
<1> QED
  BY <1>3, <1>4, <1>5, <1>6, Zenon DEF g

LEMMA BatchStartInv == ASSUME Counting, IInv, NEW t \in Threads, BatchStart(t) PROVE IInv'
<1> DEFINE f == Top(t)
<1>1. Does(t, "batch_start", "") /\ pool' = pool /\ db' = db
  BY Zenon DEF BatchStart
<1>2. Busy(t) /\ f \in Frames /\ f.at = "" /\ Op(t)[1] = "batch_start" /\ Facts(f.r, f.pc, Op(t))
  BY <1>1, DoesFacts, Zenon
<1>3. FrameInv(f)
  BY <1>2, TopFrame, Zenon
<1>4. queue' \in Seq([wo : Routines, f : Jobs]) /\ queue' = queue
  BY <1>1, QueueType, Zenon DEF pool
<1>5. /\ ~ InBatch(f.r, f.pc) /\ HoldsPool(f.r, f.pc) /\ BeforeBatch(f.r, f.pc)
      /\ InGuard(f.r, f.pc + 1) <=> InGuard(f.r, f.pc)
      /\ Op(t) # LockedTXN => f.r = "incoming_blocks" /\ f.pc = 4
  BY <1>2, Zenon DEF Facts, ReadingFacts, BatchFacts
<1>6. CASE batch = None
  <2>1. PICK to \in {"begin", "resize"} : Goto(t, to)
    BY <1>6, Zenon DEF BatchStart
  <2>2. owner' = owner
    BY <1>6, Zenon DEF BatchStart
  <2> DEFINE g == [f EXCEPT !.at = to]
  <2>3. to \in Within /\ to \notin {"draining", "mapping"} /\ to \notin {"counted", "reading"}
    BY <2>1, Zenon DEF Within
  <2>4. Moved(t, g, to) /\ Set(t, g)
    BY <1>1, <2>1, <2>3, DoesGoto, Zenon DEF Goto
  <2>5. Top(t).at \notin {"counted", "reading"}
    BY <1>2, Zenon
  <2> HIDE DEF f, g
  <2>6. Goes(t, g) /\ Kinds(g) = Kinds(Top(t))
    BY <2>3, <2>4, <2>5, Zenon DEF Moved
  <2> QED
    BY <1>1, <1>2, <1>4, <2>2, <2>4, <2>6, QuietTop, Zenon
<1>7. CASE batch # None /\ Op(t) = LockedTXN
  <2> DEFINE g == Onward(t)
  <2>1. Set(t, g) /\ owner' = owner
    BY <1>7, Zenon DEF BatchStart
  <2>2. /\ g \in Frames /\ g.r = f.r /\ g.pc = f.pc + 1 /\ g.at = "" /\ g.guard = f.guard /\ g.batch = f.batch
    BY <1>1, OnwardIs, Zenon
  <2>3. Goes(t, g)
    <3>1. "batch_start" # "lock"
      BY Zenon
    <3> QED
      BY <1>1, <3>1, OnwardIs, Zenon
  <2> HIDE DEF f, g
  <2>4. f.batch # TRUE
    BY <1>3, <1>5, Zenon DEF FrameInv
  <2>5. InGuard(g.r, g.pc) <=> InGuard(f.r, f.pc)
    BY <1>5, <2>2, Zenon
  <2>6. Kinds(g) = Kinds(f)
    BY <1>2, <2>2, <2>4, <2>5, KindsSame, Zenon
  <2> QED
    BY <1>1, <1>2, <1>4, <2>1, <2>3, <2>6, QuietTop, Zenon DEF f
<1>8. CASE batch # None /\ Op(t) # LockedTXN
  <2> DEFINE g == [f EXCEPT !.pc = @ - 2]
  <2>1. Set(t, g) /\ owner' = [owner EXCEPT !["tx_pool"] = None, !["blockchain"] = None]
    BY <1>8, Zenon DEF BatchStart
  <2>2. FrameInv(g) /\ g.r = f.r /\ g.how = f.how /\ g.at = "" /\ Kinds(g) = Kinds(f) /\ ~ HoldsPool(g.r, g.pc)
    BY <1>2, <1>3, <1>5, <1>8, LoopFrame, Zenon
  <2>3. f.r \in EntryPoints
    BY <1>5, <1>8, Zenon DEF EntryPoints
  <2>4. DOMAIN owner' = DOMAIN owner /\ g.at \notin {"draining", "mapping"}
    BY <2>1, <2>2, Zenon
  <2> HIDE DEF g
  <2>5. LockInv'
    BY <1>2, <1>5, <2>1, <2>2, <2>3, LockReleased, Zenon
  <2>6. Proceeds(t, g)
    BY <2>2, <2>4, Zenon DEF Proceeds
  <2> QED
    BY <1>1, <1>2, <1>4, <2>1, <2>4, <2>5, <2>6, OwnerStep, Zenon
<1> QED
  BY <1>6, <1>7, <1>8, Zenon

----------------------------------------------------------------------------

LEMMA InitInv == Counting /\ Init => IInv
<1> SUFFICES ASSUME Counting, Init PROVE IInv
  BY Zenon
<1>1. \A t \in Threads : stack[t] = <<>> \/ \E f : stack[t] = <<f>> /\ \E r \in EntryPoints : Begun(f, r, "call")
  <2> SUFFICES ASSUME NEW t \in Threads, stack[t] # <<>>
               PROVE  \E f : stack[t] = <<f>> /\ \E r \in EntryPoints : Begun(f, r, "call")
    BY Zenon
  <2>1. t \in DOMAIN setting.callers /\ stack[t] = <<Frame(setting.callers[t], "call", None)>>
    BY Zenon DEF Init
  <2>2. setting.callers[t] \in EntryPoints
    BY <2>1, ThreadAssumption, Zenon DEF Init
  <2>3. Begun(Frame(setting.callers[t], "call", None), setting.callers[t], "call")
    BY <2>2, BeginFrame, Zenon DEF Names
  <2> QED
    BY <2>1, <2>2, <2>3, Zenon
<1>2. \A t \in Threads : \A k, kind : ~ Has(stack[t], k, kind)
  <2> SUFFICES ASSUME NEW t \in Threads, NEW k, NEW kind, Has(stack[t], k, kind) PROVE FALSE
    BY Zenon
  <2>1. CASE stack[t] = <<>>
    <3>1. Len(stack[t]) = 0
      BY <2>1
    <3> QED
      BY <3>1 DEF Has
  <2>2. ASSUME NEW f, stack[t] = <<f>>, Kinds(f) = {} PROVE FALSE
    <3>1. Len(stack[t]) = 1 /\ stack[t][1] = f
      BY <2>2
    <3>2. k = 1
      BY <3>1 DEF Has
    <3>3. At(stack[t], k) = f
      BY <3>1, <3>2 DEF At
    <3> QED
      BY <2>2, <3>3, Zenon DEF Has
  <2> QED
    BY <1>1, <2>1, <2>2, Zenon DEF Begun
<1>3. \A t \in Threads : StackInv(stack[t]) /\ ~ Holds(stack[t])
  <2> SUFFICES ASSUME NEW t \in Threads PROVE StackInv(stack[t]) /\ ~ Holds(stack[t])
    BY Zenon
  <2>1. CASE stack[t] = <<>>
    <3>1. Len(stack[t]) = 0 /\ stack[t] \in Seq(Frames)
      BY <2>1
    <3>2. \A k : k \notin 1 .. Len(stack[t]) /\ k \notin 1 .. Len(stack[t]) - 1
      BY <3>1
    <3> QED
      BY <2>1, <3>1, <3>2, Zenon DEF StackInv, Holds
  <2>2. ASSUME NEW f, NEW r \in EntryPoints, stack[t] = <<f>>, Begun(f, r, "call")
        PROVE  StackInv(stack[t]) /\ ~ Holds(stack[t])
    <3>1. FrameInv(f) /\ f.r = r /\ f.how = "call" /\ f.pc = 1 /\ f \in Frames
      BY <2>2, FrameIsFrame, Zenon DEF Begun
    <3>2. Len(stack[t]) = 1 /\ stack[t][1] = f /\ stack[t] \in Seq(Frames)
      BY <2>2, <3>1
    <3>3. \A k : (k \in 1 .. Len(stack[t]) => k = 1) /\ k \notin 1 .. Len(stack[t]) - 1
      BY <3>2
    <3>4. At(stack[t], 1) = f
      BY <3>2 DEF At
    <3>5. ~ HoldsPool(f.r, f.pc)
      BY <2>2, <3>1, BeginsWithout, Zenon
    <3> QED
      BY <3>1, <3>2, <3>3, <3>4, <3>5, Zenon DEF StackInv, Holds
  <2> QED
    BY <1>1, <2>1, <2>2, Zenon
<1>4. TypeInv
  <2>1. queue \in Seq([wo : Routines, f : Jobs])
    BY DEF Init, PoolInit
  <2> QED
    BY <1>3, <2>1, Zenon DEF Init, TypeInv
<1>5. CountInv
  <2>1. Tokens = {}
    BY <1>2, TokensOf, Zenon
  <2>2. IsFiniteSet({}) /\ Cardinality({}) = 0
    BY Zenon DEF Counting
  <2> QED
    BY <2>1, <2>2, Zenon DEF CountInv, Init, DbInit
<1>6. GateInv
  <2> SUFFICES ASSUME NEW t \in Threads, stack[t] # <<>> PROVE stack[t][1].at \notin {"draining", "mapping"}
    BY Zenon DEF GateInv, Busy, Top
  <2>1. PICK f : stack[t] = <<f>> /\ f.at = ""
    BY <1>1, Zenon DEF Begun
  <2>1a. stack[t] = <<f>>
    BY <2>1, Zenon
  <2>2. stack[t][1] = f
    BY <2>1a
  <2> QED
    BY <2>1, <2>2, Zenon
<1>7. LockInv
  BY <1>3, Zenon DEF LockInv
<1> QED
  BY <1>4, <1>5, <1>6, <1>7, Zenon DEF IInv

LEMMA NextInv == Counting /\ IInv /\ [Next]_vars => IInv'
<1> SUFFICES ASSUME Counting, IInv, [Next]_vars PROVE IInv'
  BY Zenon
<1>1. CASE Next
  <2>1. PICK t \in Threads : Step(t)
    BY <1>1, Zenon DEF Next
  <2> QED
    BY <2>1, PoolStepInv, EnterGateInv, ReadBeginsInv, ReadEndsInv, GuardBeginsInv, GuardEndsInv, BatchStartInv,
       CloseGateInv, DrainedInv, ResizeInv, BatchBeginsInv, BatchStopsInv, Zenon DEF Step, PoolStep
<1>2. CASE UNCHANGED vars
  <2>1. /\ queue' = queue /\ stack' = stack /\ owner' = owner /\ gate' = gate /\ rtxn' = rtxn /\ batch' = batch
        /\ num_active_txns' = num_active_txns
    BY <1>2, Zenon DEF vars, pool, db
  <2>2. Tokens' = Tokens
    BY <2>1, Zenon DEF Tokens
  <2> QED
    BY <2>1, <2>2, Zenon DEF IInv, TypeInv, CountInv, HasToken, GateInv, LockInv, Busy, Top
<1> QED
  BY <1>1, <1>2, Zenon

----------------------------------------------------------------------------
INSTANCE FiniteSetTheorems

LEMMA CountingHolds == Counting
<1>1. IsFiniteSet({}) /\ \A S : IsFiniteSet(S) => Cardinality(S) \in Nat /\ (Cardinality(S) = 0 <=> S = {})
  BY FS_EmptySet, FS_CardinalityType, Zenon
<1>2. \A S, x : IsFiniteSet(S) /\ x \notin S =>
                IsFiniteSet(S \cup {x}) /\ Cardinality(S \cup {x}) = Cardinality(S) + 1
  BY FS_AddElement, Zenon
<1>3. \A S, x : IsFiniteSet(S) /\ x \in S =>
                IsFiniteSet(S \ {x}) /\ Cardinality(S \ {x}) = Cardinality(S) - 1
  BY FS_RemoveElement, Zenon
<1> QED
  BY <1>1, <1>2, <1>3, Zenon DEF Counting

\* In every state of every run of the threads (threadpool.cpp, db_lmdb.cpp and the handlers that use
\* them): the innermost routine of a thread is at one of its calls; num_active_txns is the number of
\* transactions that are open or about to be, a nested one counted on its own; each open reading and the
\* batch is one of them; the thread that resizes has closed the gate and, once the count was 0, keeps it
\* at 0; and a thread between the lock and the unlock of the pool owns that lock.
THEOREM Counted == Spec => []IInv
<1>1. Init => IInv
  BY InitInv, CountingHolds, Zenon
<1>2. IInv /\ [Next]_vars => IInv'
  BY NextInv, CountingHolds, Zenon
<1> QED
  BY <1>1, <1>2, PTL DEF Spec

\* BlockchainLMDB::do_resize: while the map is changed, no thread has a transaction open, and none begins one.
THEOREM ResizeIsAlone == Spec => []ResizeAlone
<1>1. IInv => ResizeAlone
  <2> SUFFICES ASSUME IInv, NEW t \in Threads, Does(t, "batch_start", "mapping")
               PROVE  gate = t /\ rtxn = {} /\ batch = None
    BY Zenon DEF ResizeAlone
  <2>1. gate = t /\ num_active_txns = 0
    BY Zenon DEF IInv, GateInv, Does
  <2>2. Tokens = {}
    BY <2>1, CountingHolds, Zenon DEF Counting, IInv, CountInv
  <2> QED
    BY <2>1, <2>2, Zenon DEF IInv, CountInv, HasToken
<1> QED
  BY <1>1, Counted, PTL

\* LockedTXN and prepare_handle_incoming_blocks: who asks for a batch has the lock of the pool, and so
\* does the thread of an active batch, so that the two are the same thread.
THEOREM BatchIsOwn == Spec => []BatchIsMine
<1>1. IInv => BatchIsMine
  <2> SUFFICES ASSUME IInv, NEW t \in Threads, Does(t, "batch_start", ""), batch # None PROVE batch = t
    BY Zenon DEF BatchIsMine
  <2>1. owner["tx_pool"] = t
    <3>1. Busy(t) /\ HoldsPool(Top(t).r, Top(t).pc)
      BY DoesFacts, Zenon DEF Facts, BatchFacts
    <3>2. FrameInv(Top(t)) /\ StackInv(stack[t]) /\ stack[t] # <<>>
      BY <3>1, TopFrame, Zenon DEF IInv, TypeInv, Busy
    <3>3. Holds(stack[t])
      BY <3>1, <3>2, ReplaceHas, Zenon DEF Top
    <3> QED
      BY <3>3, Zenon DEF IInv, LockInv
  <2>2. PICK u \in Threads, k \in Nat : u = batch /\ Has(stack[u], k, "batch")
    <3>1. HasToken(batch, {"batch"})
      BY Zenon DEF IInv, CountInv
    <3>2. PICK k \in Nat : <<batch, k, "batch">> \in Tokens
      BY <3>1, Zenon DEF HasToken
    <3>3. PICK u \in Threads, l \in Nat, kind \in KindNames :
            <<batch, k, "batch">> = <<u, l, kind>> /\ Has(stack[u], l, kind)
      BY <3>2, TokensOf, Zenon
    <3>4. u = batch /\ kind = "batch"
      BY <3>3, Zenon
    <3> QED
      BY <3>3, <3>4, Zenon
  <2>3. k \in 1 .. Len(stack[u]) /\ HoldsPool(At(stack[u], k).r, At(stack[u], k).pc)
    <3> DEFINE f == At(stack[u], k)
    <3>1. k \in 1 .. Len(stack[u]) /\ "batch" \in Kinds(f)
      BY <2>2, Zenon DEF Has
    <3>2. f \in Frames
      BY <3>1, FrameIsFrame, Zenon DEF IInv, TypeInv, StackInv
    <3>3. InBatch(f.r, f.pc) /\ f.pc \in Nat
      BY <3>1, <3>2, KindsIff, Zenon DEF Frames
    <3> HIDE DEF f
    <3> QED
      BY <3>1, <3>3, BatchHoldsPool, Zenon DEF f
  <2>4. owner["tx_pool"] = u
    BY <2>3, Zenon DEF Holds, IInv, LockInv
  <2> QED
    BY <2>1, <2>2, <2>4, Zenon
<1> QED
  BY <1>1, Counted, PTL

====

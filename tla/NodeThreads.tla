----------------------------- MODULE NodeThreads -----------------------------
(***************************************************************************)
(* Threads that share the thread pool, the database and the three locks of *)
(* the core: composition of ThreadPool and LmdbEnv.  A routine is the      *)
(* sequence of its calls that can wait or can change what others wait for; *)
(* a thread executes a stack of routines, since a thread that waits for    *)
(* its jobs takes jobs of others meanwhile.                                *)
(***************************************************************************)
EXTENDS ThreadPool, LmdbEnv, FiniteSets

CONSTANT Settings   \* [workers, callers]: pool threads, and what each other thread executes

\* What a thread is started for, what such a routine calls, and what the pool runs for them.
EntryPoints ==
  {"incoming_blocks", "incoming_tx", "set_relayed", "get_objects", "get_height", "get_distribution",
   "load_txt 1", "load_txt 2", "refresh"}
Called == {"take_tx", "process"}
Jobs ==
  {"longhash 1", "longhash 2", "ring 1", "ring 2", "query 1", "query 2", "query 3", "query 4",
   "pull", "parse 1", "parse 2", "cache 1", "cache 2", "derive"}

ASSUME ThreadAssumption ==
  /\ None \notin Threads
  /\ EntryPoints \cup Called \cup Jobs \subseteq Routines
  /\ \A s \in Settings : /\ s.workers \cup DOMAIN s.callers \subseteq Threads
                         /\ \A t \in DOMAIN s.callers : s.callers[t] \in EntryPoints

VARIABLES
  setting,   \* fixed
  stack,     \* of each thread: the routines it is in, the innermost first
  owner,     \* of each lock
  ended,     \* routines that have ended
  threw      \* routines that ended by an exception

vars == <<pool, db, setting, stack, owner, ended, threw>>

Lock(l)   == <<"lock", l>>
Unlock(l) == <<"unlock", l>>
Job(r)    == <<"submit", r>>
Call(r)   == <<"call", r>>
Wait      == <<"wait", "">>
Read      == <<"read", "">>
\* A reading that encloses others: db_rtxn_guard, or TXN_PREFIX_RDONLY in a function that calls such.
Guard     == <<"guard", "">>
Unguard   == <<"unguard", "">>
BatchLoop == <<"batch_start", "loop">>
LockedTXN == <<"batch_start", "once">>
EndBatch  == <<"batch_stop", "">>

\* Mutant: the lock of the pool is held for the start of the batch only.
incoming_blocks_unlocked ==
  <<Lock("incoming"), Lock("tx_pool"), Lock("blockchain"), BatchLoop, Unlock("tx_pool"),
    Job("longhash 1"), Job("longhash 2"), Wait, Unlock("blockchain"),
    Lock("blockchain"), Call("take_tx"), Unlock("blockchain"),
    Lock("blockchain"), EndBatch, Unlock("blockchain"), Unlock("incoming")>>

\* core::prepare_handle_incoming_blocks, one block, core::cleanup_handle_incoming_blocks.
incoming_blocks ==
  <<Lock("incoming"), Lock("tx_pool"), Lock("blockchain"), BatchLoop,
    Job("longhash 1"), Job("longhash 2"), Wait, Unlock("blockchain"),
    Lock("blockchain"), Call("take_tx"), Unlock("blockchain"),
    Lock("blockchain"), EndBatch, Unlock("blockchain"), Unlock("tx_pool"), Unlock("incoming")>>

\* core::handle_incoming_tx: the ring signatures, then the tables of the pool.
incoming_tx ==
  <<Lock("incoming"), Lock("tx_pool"),
    Lock("blockchain"), Read, Job("ring 1"), Job("ring 2"), Wait, Unlock("blockchain"),
    Lock("blockchain"), LockedTXN, Read, EndBatch, Unlock("blockchain"), Unlock("tx_pool"), Unlock("incoming")>>

\* tx_memory_pool::take_tx, called with both locks.
take_tx == <<LockedTXN, Read, EndBatch>>

\* tx_memory_pool::set_relayed, and the other changes of the pool that no peer starts.
set_relayed ==
  <<Lock("tx_pool"), Lock("blockchain"), LockedTXN, Read, EndBatch, Unlock("blockchain"), Unlock("tx_pool")>>

\* Mutant: the lock is not taken.
get_objects_unlocked == <<Guard, Read, Read, Unguard>>

\* Blockchain::handle_get_objects and the other users of db_rtxn_guard.
get_objects == <<Lock("blockchain"), Guard, Read, Read, Unguard, Unlock("blockchain")>>

\* Functions that read without the lock, such as get_current_blockchain_height.
get_height == <<Read>>

\* Blockchain::get_output_distribution, for an amount: it takes no lock, and the function of the
\* database asks for the height within its own reading.
get_distribution == <<Read, Guard, Read, Unguard>>

\* load_txt_records_from_dns, which ignores what wait returns; two threads may be in it.
load_txt(one, two) == <<Job(one), Job(two), Wait>>

\* wallet2::refresh, one round; a wallet has no database of this kind and takes no lock here.
refresh == <<Job("pull"), Call("process"), Wait>>
process == <<Job("cache 1"), Job("cache 2"), Wait, Job("derive"), Wait>>
pull    == <<Job("parse 1"), Job("parse 2"), Wait>>

\* Where a routine goes on when its wait returns false, or when a job it runs itself throws.
Code ==
  [r \in Routines |->
   CASE r = "incoming_blocks"             -> [ops |-> incoming_blocks, fail |-> Len(incoming_blocks) - 5]
    [] r = "incoming_tx"                 -> [ops |-> incoming_tx, fail |-> 13]
    [] r = "take_tx"                     -> [ops |-> take_tx, fail |-> 0]
    [] r = "set_relayed"                 -> [ops |-> set_relayed, fail |-> 0]
    [] r = "get_objects"                 -> [ops |-> get_objects, fail |-> 0]
    [] r = "get_height"                  -> [ops |-> get_height, fail |-> 0]
    [] r \in {"longhash 1", "longhash 2"} -> [ops |-> <<Read>>, fail |-> 0]
    [] r = "get_distribution"            -> [ops |-> get_distribution, fail |-> 0]
    [] r = "load_txt 1"                  -> [ops |-> load_txt("query 1", "query 2"), fail |-> 4]
    [] r = "load_txt 2"                  -> [ops |-> load_txt("query 3", "query 4"), fail |-> 4]
    [] r = "refresh"                     -> [ops |-> refresh, fail |-> 4]
    [] r = "process"                     -> [ops |-> process, fail |-> 6]
    [] r = "pull"                        -> [ops |-> pull, fail |-> 4]
    [] OTHER                             -> [ops |-> <<>>, fail |-> 0]]

CanThrow(f) == f.how # "call" /\ f.r # "pull"

Frame(r, how, wo) == [r |-> r, pc |-> 1, at |-> "", how |-> how, wo |-> wo, guard |-> FALSE, batch |-> FALSE]

Top(t)    == stack[t][1]
Op(t)     == Code[Top(t).r].ops[Top(t).pc]
Busy(t)   == stack[t] # <<>>
AtEnd(t)  == Busy(t) /\ Top(t).at = "" /\ Top(t).pc > Len(Code[Top(t).r].ops)
Does(t, call, at) == Busy(t) /\ Top(t).at = at /\ ~ AtEnd(t) /\ Op(t)[1] = call

Idle(t) == t \in setting.workers /\ ~ Busy(t) /\ t \notin asleep

\* In run(true), called by wait or by the destructor of a waiter.
Helps(t) == Does(t, "wait", "") \/ (Busy(t) /\ Top(t).at = "unwind")

\* The innermost routine of t goes to the next call, or to a point within one.
Set(t, f)   == stack' = [stack EXCEPT ![t] = <<f>> \o Tail(@)]
Onward(t)   == [Top(t) EXCEPT !.pc = @ + 1, !.at = ""]
Failed(t)   == [Top(t) EXCEPT !.pc = Code[Top(t).r].fail, !.at = ""]
Goto(t, at) == Set(t, [Top(t) EXCEPT !.at = at])
Push(t, under, f) == stack' = [stack EXCEPT ![t] = <<f>> \o (IF @ = <<>> THEN @ ELSE <<under>> \o Tail(@))]

Init ==
  /\ setting \in Settings
  /\ PoolInit(Cardinality(setting.workers))
  /\ DbInit
  /\ stack = [t \in Threads |-> IF t \in DOMAIN setting.callers THEN <<Frame(setting.callers[t], "call", None)>> ELSE <<>>]
  /\ owner = [l \in {"incoming", "tx_pool", "blockchain"} |-> None]
  /\ ended = {} /\ threw = {}

history == <<setting, ended, threw>>

----------------------------------------------------------------------------
(* Locks *)

Acquire(t) ==
  /\ Does(t, "lock", "")
  /\ owner[Op(t)[2]] = None
  /\ owner' = [owner EXCEPT ![Op(t)[2]] = t]
  /\ Set(t, Onward(t))
  /\ UNCHANGED <<pool, db, history>>

Release(t) ==
  /\ Does(t, "unlock", "")
  /\ owner' = [owner EXCEPT ![Op(t)[2]] = None]
  /\ Set(t, Onward(t))
  /\ UNCHANGED <<pool, db, history>>

----------------------------------------------------------------------------
(* The pool *)

Submit(t) ==
  /\ Does(t, "submit", "")
  /\ IF runs_inline(t, Op(t)[2])
     THEN call_inline(t) /\ Push(t, Onward(t), Frame(Op(t)[2], "inline", Top(t).r))
     ELSE enqueue(Top(t).r, Op(t)[2]) /\ Set(t, Onward(t))
  /\ UNCHANGED <<db, owner, history>>

CallRoutine(t) ==
  /\ Does(t, "call", "")
  /\ Push(t, Onward(t), Frame(Op(t)[2], "call", None))
  /\ UNCHANGED <<pool, db, owner, history>>

\* A worker, or a thread that waits for its own jobs, takes a job.
TakeJob(t) ==
  /\ Idle(t) \/ Helps(t)
  /\ take(t)
  /\ Push(t, IF Busy(t) THEN Top(t) ELSE <<>>, Frame(Head(queue).f, "pool", Head(queue).wo))
  /\ UNCHANGED <<db, owner, history>>

Sleep(t) ==
  /\ Idle(t)
  /\ sleep(t)
  /\ UNCHANGED <<db, stack, owner, history>>

\* run(true) returns.
StopHelping(t) ==
  /\ Helps(t)
  /\ queue = <<>>
  /\ Goto(t, IF Top(t).at = "unwind" THEN "unwinding" ELSE "waiting")
  /\ UNCHANGED <<pool, db, owner, history>>

WaitReturns(t) ==
  /\ Does(t, "wait", "waiting")
  /\ waited(Top(t).r)
  /\ Set(t, IF error[Top(t).r] THEN Failed(t) ELSE Onward(t))
  /\ UNCHANGED <<pool, db, owner, history>>

\* The destructor of the waiter returns, and the exception goes on to its handler.
Unwound(t) ==
  /\ Busy(t) /\ Top(t).at = "unwinding"
  /\ waited(Top(t).r)
  /\ Set(t, Failed(t))
  /\ UNCHANGED <<pool, db, owner, history>>

\* The innermost routine ends.
EndRoutine(t, throws) ==
  /\ AtEnd(t)
  /\ throws => CanThrow(Top(t))
  /\ ended' = ended \cup {Top(t).r}
  /\ threw' = IF throws THEN threw \cup {Top(t).r} ELSE threw
  /\ CASE Top(t).how = "pool"   -> finish(t, Top(t).wo, throws) /\ Goto(t, "finished")
       [] Top(t).how = "inline" -> /\ return_inline(t, throws)
                                   /\ stack' = [stack EXCEPT ![t] =
                                        IF throws THEN <<[@[2] EXCEPT !.at = "unwind"]>> \o Tail(Tail(@)) ELSE Tail(@)]
       [] Top(t).how = "call"   -> stack' = [stack EXCEPT ![t] = Tail(@)] /\ UNCHANGED pool
  /\ UNCHANGED <<db, setting, owner>>

BackInRun(t) ==
  /\ Busy(t) /\ Top(t).at = "finished"
  /\ relock
  /\ stack' = [stack EXCEPT ![t] = Tail(@)]
  /\ UNCHANGED <<db, owner, history>>

----------------------------------------------------------------------------
(* The database *)

\* The constructor of mdb_txn_safe, which spins while the gate is closed.
EnterGate(t) ==
  /\ Does(t, "read", "") \/ Does(t, "guard", "") \/ Does(t, "batch_start", "begin")
  /\ mdb_txn_safe
  /\ Goto(t, "counted")
  /\ UNCHANGED <<pool, owner, history>>

\* TXN_PREFIX_RDONLY.
ReadBegins(t) ==
  /\ Does(t, "read", "counted")
  /\ IF has_txn(t) THEN close_rtxn(t, FALSE) /\ Set(t, Onward(t)) ELSE open_rtxn(t) /\ Goto(t, "reading")
  /\ UNCHANGED <<pool, owner, history>>

ReadEnds(t) ==
  /\ Does(t, "read", "reading")
  /\ close_rtxn(t, TRUE)
  /\ Set(t, Onward(t))
  /\ UNCHANGED <<pool, owner, history>>

\* db_rtxn_guard.
GuardBegins(t) ==
  /\ Does(t, "guard", "counted")
  /\ IF has_txn(t) THEN close_rtxn(t, FALSE) ELSE open_rtxn(t)
  /\ Set(t, [Onward(t) EXCEPT !.guard = ~ has_txn(t)])
  /\ UNCHANGED <<pool, owner, history>>

GuardEnds(t) ==
  /\ Does(t, "unguard", "")
  /\ IF Top(t).guard THEN close_rtxn(t, TRUE) ELSE UNCHANGED db
  /\ Set(t, Onward(t))
  /\ UNCHANGED <<pool, owner, history>>

\* batch_start, as far as the resize: it is refused while a batch is active.  Then LockedTXN goes on
\* without one, and prepare_handle_incoming_blocks lets go of both locks and tries again.
BatchStart(t) ==
  /\ Does(t, "batch_start", "")
  /\ IF batch = None
     THEN (\E at \in {"begin", "resize"} : Goto(t, at)) /\ UNCHANGED owner
     ELSE IF Op(t) = LockedTXN THEN Set(t, Onward(t)) /\ UNCHANGED owner
     ELSE /\ Set(t, [Top(t) EXCEPT !.pc = @ - 2])
          /\ owner' = [owner EXCEPT !["tx_pool"] = None, !["blockchain"] = None]
  /\ UNCHANGED <<pool, db, history>>

CloseGate(t) ==
  /\ Does(t, "batch_start", "resize")
  /\ prevent_new_txns(t)
  /\ Goto(t, "draining")
  /\ UNCHANGED <<pool, owner, history>>

Drained(t) ==
  /\ Does(t, "batch_start", "draining")
  /\ wait_no_active_txns
  /\ Goto(t, "mapping")
  /\ UNCHANGED <<pool, db, owner, history>>

Resize(t) ==
  /\ Does(t, "batch_start", "mapping")
  /\ allow_new_txns
  /\ Goto(t, "begin")
  /\ UNCHANGED <<pool, owner, history>>

BatchBegins(t) ==
  /\ Does(t, "batch_start", "counted")
  /\ begin_batch(t)
  /\ Set(t, [Onward(t) EXCEPT !.batch = TRUE])
  /\ UNCHANGED <<pool, owner, history>>

BatchStops(t) ==
  /\ Does(t, "batch_stop", "")
  /\ IF Top(t).batch THEN end_batch ELSE UNCHANGED db
  /\ Set(t, Onward(t))
  /\ UNCHANGED <<pool, owner, history>>

----------------------------------------------------------------------------
Step(t) ==
  \/ Acquire(t) \/ Release(t)
  \/ Submit(t) \/ CallRoutine(t) \/ TakeJob(t) \/ Sleep(t) \/ StopHelping(t) \/ WaitReturns(t) \/ Unwound(t)
  \/ (\E throws \in BOOLEAN : EndRoutine(t, throws)) \/ BackInRun(t)
  \/ EnterGate(t) \/ ReadBegins(t) \/ ReadEnds(t) \/ GuardBegins(t) \/ GuardEnds(t)
  \/ BatchStart(t) \/ CloseGate(t) \/ Drained(t) \/ Resize(t) \/ BatchBegins(t) \/ BatchStops(t)

Next == \E t \in Threads : Step(t)

\* The operating system runs every thread; each routine is executed once.
Spec == Init /\ [][Next]_vars /\ \A t \in Threads : WF_vars(Step(t))

----------------------------------------------------------------------------
Submitted(f) == {Code[f.r].ops[k][2] : k \in {j \in 1 .. f.pc - 1 : Code[f.r].ops[j][1] = "submit"}}

\* waiter::wait (threadpool.h: "Wait for a set of tasks to finish, returns false iff any error"): when
\* it returns, to its caller or to the destructor that an exception runs, every job the caller
\* submitted has ended, whichever thread ran it; and its value tells whether one of them threw.
WaitTells ==
  [][\A t \in Threads :
       /\ WaitReturns(t) \/ Unwound(t) => Submitted(Top(t)) \subseteq ended
       /\ WaitReturns(t) => (error[Top(t).r] <=> Submitted(Top(t)) \cap threw # {})]_vars

\* BlockchainLMDB::do_resize changes the map while no transaction of any thread is open, counted or
\* not, and keeps out new ones.
ResizeAlone ==
  \A t \in Threads : Does(t, "batch_start", "mapping") => gate = t /\ rtxn = {} /\ batch = None

\* LockedTXN (locked_txn.h: "If a batch exists, it can't be from another thread, since we can only be
\* called with the txpool lock taken"), and so the loop around batch_start never turns.
BatchIsMine == \A t \in Threads : Does(t, "batch_start", "") => batch \in {None, t}

\* The resize waits for a reading that waits at the gate which the resize has closed.
NestedMeetsResize ==
  \E t, u \in Threads :
    /\ Does(t, "batch_start", "draining")
    /\ Does(u, "read", "") /\ Top(u).guard /\ Top(u).r = "get_distribution"

\* No thread waits for ever: not for a lock, nor at the gate of the database, nor for its jobs, nor in
\* a resize; in the end nothing is locked, counted or queued.  There is one exception, a reading
\* within a reading of a thread that does not hold the lock of the chain, while the map is resized.
Finishes ==
  <>[]\/ NestedMeetsResize
      \/ /\ \A t \in Threads : ~ Busy(t)
         /\ \A l \in DOMAIN owner : owner[l] = None
         /\ gate = None /\ num_active_txns = 0 /\ queue = <<>> /\ active = 0
=============================================================================

----------------------------- MODULE ThreadPool -----------------------------
(***************************************************************************)
(* tools::threadpool (common/threadpool.cpp): a queue of jobs, the threads *)
(* that run them, and the waiters that count the jobs of one caller.  The  *)
(* calls a thread makes are action fragments; NodeThreads puts them into   *)
(* the order of the callers' code.  A waiter is named by the routine that  *)
(* declares it.  destroy and recycle are not modelled, nor is_leaf, which  *)
(* only guards an assertion against jobs the code does not have.           *)
(***************************************************************************)
EXTENDS Integers, Sequences

CONSTANTS
  Threads,
  Routines,   \* what threads execute, jobs and callers
  Leaf(_)     \* a job submitted with leaf = true

VARIABLES
  max,        \* one more than there are workers
  queue,      \* entries [wo, f]
  active,
  asleep,     \* workers in has_work.wait
  depth,      \* thread_local
  num,        \* of each waiter
  error       \* error_flag of each waiter

pool == <<max, queue, active, asleep, depth, num, error>>

\* create.
PoolInit(workers) ==
  /\ max = workers + 1
  /\ queue = <<>> /\ active = 0
  /\ asleep = {}
  /\ depth = [t \in Threads |-> 0]
  /\ num = [r \in Routines |-> 0]
  /\ error = [r \in Routines |-> FALSE]

\* submit calls the job itself.
runs_inline(t, f) == ~ Leaf(f) /\ ((active = max /\ queue # <<>>) \/ depth[t] > 0)

\* submit: the job is queued, and one sleeping worker woken.
enqueue(wo, f) ==
  /\ num' = [num EXCEPT ![wo] = @ + 1]
  /\ queue' = IF Leaf(f) THEN <<[wo |-> wo, f |-> f]>> \o queue ELSE Append(queue, [wo |-> wo, f |-> f])
  /\ IF asleep = {} THEN UNCHANGED asleep ELSE \E w \in asleep : asleep' = asleep \ {w}
  /\ UNCHANGED <<max, active, depth, error>>

call_inline(t) ==
  /\ depth' = [depth EXCEPT ![t] = @ + 1]
  /\ UNCHANGED <<max, queue, active, asleep, num, error>>

\* The call returns.  When it throws, depth stays as it is.
return_inline(t, throws) ==
  /\ depth' = [depth EXCEPT ![t] = IF throws THEN @ ELSE @ - 1]
  /\ UNCHANGED <<max, queue, active, asleep, num, error>>

\* run: the first entry is taken.
take(t) ==
  /\ queue # <<>>
  /\ queue' = Tail(queue)
  /\ active' = active + 1
  /\ depth' = [depth EXCEPT ![t] = @ + 1]
  /\ UNCHANGED <<max, asleep, num, error>>

\* run(false): nothing to take.
sleep(t) ==
  /\ queue = <<>>
  /\ asleep' = asleep \cup {t}
  /\ UNCHANGED <<max, queue, active, depth, num, error>>

\* run: the job has ended, by an exception or not.
finish(t, wo, throws) ==
  /\ error' = [error EXCEPT ![wo] = @ \/ throws]
  /\ num' = [num EXCEPT ![wo] = @ - 1]
  /\ depth' = [depth EXCEPT ![t] = @ - 1]
  /\ UNCHANGED <<max, queue, active, asleep>>

\* run: the mutex is taken again.
relock ==
  /\ active' = active - 1
  /\ UNCHANGED <<max, queue, asleep, depth, num, error>>

\* Mutant: the empty queue ends the wait.
waited_queue(wo) == queue = <<>>

\* waiter::wait, after run(true).
waited(wo) == num[wo] = 0
=============================================================================

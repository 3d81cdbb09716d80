------------------------------ MODULE ThreadPool ------------------------------
(***************************************************************************)
(* VW::thread_pool (thread_pool.h) and the code that uses it:              *)
(* one_pass_svd_impl::generate_AOmega splits the rows of a matrix into     *)
(* blocks, submits one task for each block and waits for all futures.      *)
(*                                                                         *)
(* The pool's queue is the closable FIFO that ThreadSafeQueue implements,  *)
(* without a limit.  The owner constructs the pool, makes some calls of    *)
(* generate_AOmega and destroys the pool; the constructor may fail to      *)
(* create a thread, and then joins the ones it has created.                *)
(***************************************************************************)
EXTENDS Integers, Sequences, FiniteSets, FiniteSetsExt

CONSTANTS
  PoolSizes,      \* the numbers of threads to consider
  BlockSizes,     \* --block_size; 0: to be computed
  RowCounts,      \* how many rows a call may have
  MaxCalls,       \* calls of generate_AOmega
  CreateMayFail   \* std::thread's constructor may throw

ASSUME PoolSizesAssumption == PoolSizes \subseteq Nat /\ IsFiniteSet(PoolSizes) /\ PoolSizes # {}
ASSUME CallsAssumption ==
  /\ BlockSizes \subseteq Nat /\ RowCounts \subseteq Nat
  /\ MaxCalls \in Nat /\ CreateMayFail \in BOOLEAN

Workers == 1 .. Max(PoolSizes)

VARIABLES
  \* the owner
  opc, size,     \* where it is; the number of threads asked for
  calls, num_rows,      \* calls begun; rows of the current one
  block_size,
  row_index_begin,
  futures,       \* the tasks whose futures have not been waited for
  \* shared
  threads,       \* _threads.size()
  queue, closed, \* _task_queue
  done,          \* _done
  ready,         \* the tasks of the current call that have run
  computed,      \* computed[r]: how often row r of the current call was computed
  \* the workers
  wpc, task

ownerVars == <<opc, size, calls, num_rows, block_size, row_index_begin, futures>>
tpVars == <<ownerVars, threads, queue, closed, done, ready, computed, wpc, task>>

NoTask == <<0, 0>>

TpInit ==
  /\ opc = "create" /\ size \in PoolSizes
  /\ calls = 0 /\ num_rows = 0 /\ block_size \in BlockSizes /\ row_index_begin = 0
  /\ futures = <<>>
  /\ threads = 0 /\ queue = <<>> /\ closed = FALSE /\ done = FALSE
  /\ ready = {} /\ computed = <<>>
  /\ wpc = [w \in Workers |-> "unborn"] /\ task = [w \in Workers |-> NoTask]

-----------------------------------------------------------------------------
(* The owner: the constructor *)

CreateThread ==
  /\ opc = "create" /\ threads < size
  /\ threads' = threads + 1
  /\ wpc' = [wpc EXCEPT ![threads + 1] = "test"]
  /\ UNCHANGED <<ownerVars, queue, closed, done, ready, computed, task>>

CreateThrows ==
  /\ opc = "create" /\ threads < size /\ CreateMayFail
  /\ done' = TRUE /\ opc' = "close"
  /\ UNCHANGED <<size, calls, num_rows, block_size, row_index_begin, futures, threads, queue,
                 closed, ready, computed, wpc, task>>

Created ==
  /\ opc = "create" /\ threads = size
  /\ opc' = "idle"
  /\ UNCHANGED <<size, calls, num_rows, block_size, row_index_begin, futures, threads, queue,
                 closed, done, ready, computed, wpc, task>>

-----------------------------------------------------------------------------
(* The owner: generate_AOmega *)

Larger(a, b) == IF a > b THEN a ELSE b
EvenBlocks(rows) == Larger(1, rows \div Larger(1, threads))

StartCall ==
  /\ opc = "idle" /\ calls < MaxCalls
  /\ \E rows \in RowCounts :
       /\ num_rows' = rows
       /\ block_size' = IF block_size = 0 THEN EvenBlocks(rows) ELSE block_size
       /\ computed' = [r \in 1 .. rows |-> 0]
  /\ calls' = calls + 1 /\ row_index_begin' = 0 /\ ready' = {}
  /\ opc' = "submit"
  /\ UNCHANGED <<size, futures, threads, queue, closed, done, wpc, task>>

(* A block is <<begin, end>>; the last one takes what would not fill       *)
(* another.  A definition with the suffix _Slip is a plausible error in    *)
(* the next one and is not used.                                           *)
RowIndexEnd_Slip == row_index_begin + block_size
RowIndexEnd ==
  IF row_index_begin + 2 * block_size > num_rows THEN num_rows ELSE row_index_begin + block_size

Block == <<row_index_begin, RowIndexEnd>>
WithRows(t) == [r \in DOMAIN computed |->
                  IF r > t[1] /\ r <= t[2] THEN computed[r] + 1 ELSE computed[r]]

Submit ==
  /\ opc = "submit" /\ row_index_begin < num_rows
  /\ futures' = Append(futures, Block)
  /\ row_index_begin' = RowIndexEnd
  /\ IF threads = 0
     THEN computed' = WithRows(Block) /\ ready' = ready \union {Block} /\ UNCHANGED queue
     ELSE queue' = Append(queue, Block) /\ UNCHANGED <<computed, ready>>
  /\ UNCHANGED <<opc, size, calls, num_rows, block_size, threads, closed, done, wpc, task>>

AllSubmitted ==
  /\ opc = "submit" /\ row_index_begin >= num_rows
  /\ opc' = "get"
  /\ UNCHANGED <<size, calls, num_rows, block_size, row_index_begin, futures, threads, queue,
                 closed, done, ready, computed, wpc, task>>

FutureReady_Slip == TRUE
FutureReady == Head(futures) \in ready

GetFuture ==
  /\ opc = "get" /\ futures # <<>> /\ FutureReady
  /\ futures' = Tail(futures)
  /\ UNCHANGED <<opc, size, calls, num_rows, block_size, row_index_begin, threads, queue,
                 closed, done, ready, computed, wpc, task>>

Return ==
  /\ opc = "get" /\ futures = <<>>
  /\ opc' = "idle"
  /\ UNCHANGED <<size, calls, num_rows, block_size, row_index_begin, futures, threads, queue,
                 closed, done, ready, computed, wpc, task>>

-----------------------------------------------------------------------------
(* The owner: the destructor, _done and the queue, then the joiner.        *)
Destroy ==
  /\ opc = "idle"
  /\ done' = TRUE /\ opc' = "close"
  /\ UNCHANGED <<size, calls, num_rows, block_size, row_index_begin, futures, threads, queue,
                 closed, ready, computed, wpc, task>>

ClosedByOwner_Slip == closed
ClosedByOwner == TRUE

Close ==
  /\ opc = "close"
  /\ closed' = ClosedByOwner /\ opc' = "join"
  /\ UNCHANGED <<size, calls, num_rows, block_size, row_index_begin, futures, threads, queue,
                 done, ready, computed, wpc, task>>

Join ==
  /\ opc = "join" /\ \A w \in 1 .. threads : wpc[w] = "ended"
  /\ opc' = "gone"
  /\ UNCHANGED <<size, calls, num_rows, block_size, row_index_begin, futures, threads, queue,
                 closed, done, ready, computed, wpc, task>>

Owner ==
  \/ CreateThread \/ CreateThrows \/ Created
  \/ StartCall \/ Submit \/ AllSubmitted \/ GetFuture \/ Return
  \/ Destroy \/ Close \/ Join

-----------------------------------------------------------------------------
(* A worker: test _done, pop, run the task.                                *)
TestDone(w) ==
  /\ wpc[w] = "test"
  /\ wpc' = [wpc EXCEPT ![w] = IF done THEN "ended" ELSE "pop"]
  /\ UNCHANGED <<ownerVars, threads, queue, closed, done, ready, computed, task>>

Pop(w) ==
  /\ wpc[w] = "pop" /\ queue # <<>>
  /\ task' = [task EXCEPT ![w] = Head(queue)] /\ queue' = Tail(queue)
  /\ wpc' = [wpc EXCEPT ![w] = "run"]
  /\ UNCHANGED <<ownerVars, threads, closed, done, ready, computed>>

PopFalse(w) ==
  /\ wpc[w] = "pop" /\ closed /\ queue = <<>>
  /\ wpc' = [wpc EXCEPT ![w] = "ended"]
  /\ UNCHANGED <<ownerVars, threads, queue, closed, done, ready, computed, task>>

AfterTask_Slip == "ended"
AfterTask == "test"

Run(w) ==
  /\ wpc[w] = "run"
  /\ computed' = WithRows(task[w]) /\ ready' = ready \union {task[w]}
  /\ task' = [task EXCEPT ![w] = NoTask]
  /\ wpc' = [wpc EXCEPT ![w] = AfterTask]
  /\ UNCHANGED <<ownerVars, threads, queue, closed, done>>

Worker(w) == TestDone(w) \/ Pop(w) \/ PopFalse(w) \/ Run(w)

TpNext == Owner \/ \E w \in Workers : Worker(w)

(* All of them are threads of one process.                                 *)
TpFairness == WF_tpVars(Owner) /\ \A w \in Workers : WF_tpVars(Worker(w))

TpSpec == TpInit /\ [][TpNext]_tpVars /\ TpFairness

-----------------------------------------------------------------------------
(* Rows for which somebody has a task: queued, running or done.            *)
Claims(r) ==
  computed[r] + Cardinality({i \in DOMAIN queue : r > queue[i][1] /\ r <= queue[i][2]})
              + Cardinality({w \in Workers : r > task[w][1] /\ r <= task[w][2]})

(* No row is ever written by two tasks of a call, also when the blocks do  *)
(* not divide the rows evenly or were sized for another call, and when     *)
(* generate_AOmega returns every row has been computed: nobody writes to   *)
(* the matrix after that.                                                  *)
RowsOnce ==
  /\ \A r \in DOMAIN computed : Claims(r) <= 1
  /\ opc = "idle" => \A r \in DOMAIN computed : computed[r] = 1

(* Every call returns, with any number of threads.                         *)
CallReturns == (opc = "submit") ~> (opc = "idle")

(* The destructor ends, and so does a constructor that failed half-way:    *)
(* no worker stays in try_pop after _done was set.                         *)
PoolEnds == (opc = "close") ~> (opc = "gone")
=============================================================================

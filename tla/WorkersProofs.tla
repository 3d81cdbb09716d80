---------------------------- MODULE WorkersProofs ---------------------------
(***************************************************************************)
(* The workers of MCWorkers, for any number of threads, nodes, examples    *)
(* and calls: work that is handed to others is done once and comes back to *)
(* its place. The components share no variable, so each has an inductive   *)
(* invariant of its own, and a step of the whole is a step of each or      *)
(* leaves it alone.  Then the nodes of a cluster, at the end.              *)
(***************************************************************************)
EXTENDS MCWorkers, AllReduceSockets, FiniteSetTheorems, SequenceTheorems, TLAPS

-----------------------------------------------------------------------------
(* generate_AOmega on the thread pool. The blocks of rows in the queue, in *)
(* the hands of workers and computed are disjoint and together the rows    *)
(* given out so far, and whatever is not computed yet has a future the     *)
(* caller waits for.                                                       *)
(* A block of rows that is not empty; whether it has row r.                *)
Blocks == {b \in Nat \X Nat : b[1] < b[2]}
Has(b, r) == r > b[1] /\ r <= b[2]

WorkerPlaces == {"unborn", "test", "pop", "run", "ended"}

TpTypes ==
  /\ opc \in {"create", "idle", "submit", "get", "close", "join", "gone"}
  /\ num_rows \in Nat /\ block_size \in Nat /\ row_index_begin \in Nat
  /\ row_index_begin <= num_rows
  /\ (opc = "submit" => block_size >= 1)
  /\ threads \in Nat
  /\ computed \in [1 .. num_rows -> 0 .. 1]
  /\ queue \in Seq(Blocks) /\ futures \in Seq(Blocks) /\ ready \subseteq Blocks
  /\ wpc \in [Workers -> WorkerPlaces] /\ task \in [Workers -> Blocks \union {NoTask}]
  /\ \A w \in Workers : /\ w > threads => wpc[w] = "unborn"
                        /\ IF wpc[w] = "run" THEN task[w] \in Blocks ELSE task[w] = NoTask

(* The blocks that are queued or in the hands of a worker have no row in   *)
(* common, and no row that has been computed.                              *)
Apart ==
  \A r \in 1 .. num_rows :
    /\ \A i, j \in DOMAIN queue : Has(queue[i], r) /\ Has(queue[j], r) => i = j
    /\ \A v, w \in Workers : Has(task[v], r) /\ Has(task[w], r) => v = w
    /\ \A i \in DOMAIN queue, w \in Workers : ~(Has(queue[i], r) /\ Has(task[w], r))
    /\ computed[r] = 1 => /\ \A i \in DOMAIN queue : ~Has(queue[i], r)
                          /\ \A w \in Workers : ~Has(task[w], r)

(* The rows before row_index_begin are those that were given out.          *)
GivenOut ==
  /\ \A r \in 1 .. num_rows :
       r <= row_index_begin => \/ computed[r] = 1
                               \/ \E i \in DOMAIN queue : Has(queue[i], r)
                               \/ \E w \in Workers : Has(task[w], r)
  /\ \A r \in 1 .. num_rows : r > row_index_begin => computed[r] = 0
  /\ \A i \in DOMAIN queue : queue[i][2] <= row_index_begin
  /\ \A w \in Workers : task[w][2] <= row_index_begin

(* Whatever is not done has a future, and a future that is ready is done.  *)
HasFuture ==
  /\ \A i \in DOMAIN queue : \E k \in DOMAIN futures : futures[k] = queue[i]
  /\ \A w \in Workers : wpc[w] = "run" => \E k \in DOMAIN futures : futures[k] = task[w]
  /\ \A b \in ready : b[2] <= num_rows /\ \A r \in 1 .. num_rows : Has(b, r) => computed[r] = 1
  /\ opc \notin {"submit", "get"} => futures = << >>
  /\ opc # "submit" => row_index_begin = num_rows

TpInv == TpTypes /\ Apart /\ GivenOut /\ HasFuture

-----------------------------------------------------------------------------
(* Before the first call there is no work.                                 *)
LEMMA TpStarts == TpInit => TpInv
<1> SUFFICES ASSUME TpInit PROVE TpInv OBVIOUS
<1>1. TpTypes BY PoolSizesAssumption, CallsAssumption DEF TpInit, TpTypes, WorkerPlaces, NoTask
<1> QED BY <1>1 DEF TpInit, TpInv, Apart, GivenOut, HasFuture, Has, NoTask

(* At most one claim on every row, as the invariant says without counting. *)
LEMMA TpInvIsSafe == TpInv => RowsOnce
<1> SUFFICES ASSUME TpInv PROVE RowsOnce OBVIOUS
<1> USE DEF TpInv
<1>1. DOMAIN computed = 1 .. num_rows BY DEF TpTypes
<1>2. ASSUME NEW r \in 1 .. num_rows PROVE Claims(r) <= 1
  <2> DEFINE Q == {i \in DOMAIN queue : r > queue[i][1] /\ r <= queue[i][2]}
             W == {w \in Workers : r > task[w][1] /\ r <= task[w][2]}
  <2>1. computed[r] \in 0 .. 1 BY DEF TpTypes
  <2>2. Claims(r) = computed[r] + Cardinality(Q) + Cardinality(W) BY DEF Claims
  <2>3. \A i, j \in Q : i = j BY DEF Apart, Has
  <2>4. \A v, w \in W : v = w BY DEF Apart, Has
  <2>5. Q = {} \/ W = {} BY DEF Apart, Has
  <2>6. computed[r] = 1 => Q = {} /\ W = {} BY DEF Apart, Has
  <2> HIDE DEF Q, W
  <2>7. Cardinality({}) = 0 BY FS_EmptySet
  <2>8. Q = {} \/ Cardinality(Q) = 1
    <3>1. ASSUME NEW i \in Q PROVE Cardinality(Q) = 1
      <4>1. Q = {i} BY <2>3, <3>1
      <4> QED BY <4>1, FS_Singleton
    <3> QED BY <3>1
  <2>9. W = {} \/ Cardinality(W) = 1
    <3>1. ASSUME NEW w \in W PROVE Cardinality(W) = 1
      <4>1. W = {w} BY <2>4, <3>1
      <4> QED BY <4>1, FS_Singleton
    <3> QED BY <3>1
  <2>10. Cardinality(Q) \in 0 .. 1 /\ Cardinality(W) \in 0 .. 1
         /\ (Cardinality(Q) = 0 \/ Cardinality(W) = 0)
         /\ (computed[r] = 1 => Cardinality(Q) = 0 /\ Cardinality(W) = 0)
    BY <2>5, <2>6, <2>7, <2>8, <2>9
  <2> QED BY ONLY <2>1, <2>2, <2>10
<1>3. ASSUME opc = "idle", NEW r \in 1 .. num_rows PROVE computed[r] = 1
  <2>1. futures = << >> /\ r <= row_index_begin BY <1>3 DEF HasFuture, TpTypes
  <2>2. \A i \in DOMAIN queue : FALSE BY <2>1 DEF HasFuture
  <2>3. \A w \in Workers : wpc[w] # "run" BY <2>1 DEF HasFuture
  <2>4. \A w \in Workers : ~Has(task[w], r) BY <2>3 DEF TpTypes, Has, NoTask
  <2> QED BY <2>1, <2>2, <2>4 DEF GivenOut
<1> QED BY <1>1, <1>2, <1>3 DEF RowsOnce

-----------------------------------------------------------------------------
(* The owner begins a call: everything of the last one is done.            *)
LEMMA StartCallKeeps == TpInv /\ StartCall => TpInv'
<1> SUFFICES ASSUME TpInv, StartCall PROVE TpInv' OBVIOUS
<1> USE DEF TpInv
<1>1. futures = << >> /\ queue = << >> /\ \A w \in Workers : task[w] = NoTask /\ wpc[w] # "run"
  <2>1. futures = << >> BY DEF StartCall, HasFuture
  <2>2. \A i \in DOMAIN queue : FALSE BY <2>1 DEF HasFuture
  <2>3. \A w \in Workers : wpc[w] # "run" BY <2>1 DEF HasFuture
  <2>4. queue \in Seq(Blocks) BY DEF TpTypes
  <2>5. queue = << >>
    <3>1. Len(queue) \in Nat /\ DOMAIN queue = 1 .. Len(queue) BY <2>4
    <3>2. ASSUME Len(queue) > 0 PROVE FALSE
      <4>1. 1 \in DOMAIN queue BY <3>1, <3>2
      <4> QED BY <2>2, <4>1
    <3>3. Len(queue) = 0 BY <3>1, <3>2
    <3> QED BY <2>4, <3>3
  <2> QED BY <2>1, <2>3, <2>5 DEF TpTypes
<1>2. PICK rows \in RowCounts :
        /\ num_rows' = rows
        /\ block_size' = IF block_size = 0 THEN EvenBlocks(rows) ELSE block_size
        /\ computed' = [r \in 1 .. rows |-> 0]
  BY DEF StartCall
<1>3. rows \in Nat /\ threads \in Nat BY PoolSizesAssumption, CallsAssumption DEF TpTypes
<1>4. block_size' \in Nat /\ block_size' >= 1
  <2>1. Larger(1, threads) \in Nat /\ Larger(1, threads) > 0 BY <1>3 DEF Larger
  <2>2. rows \div Larger(1, threads) \in Int BY <1>3, <2>1
  <2>3. EvenBlocks(rows) \in Nat /\ EvenBlocks(rows) >= 1 
    <3> DEFINE d == rows \div Larger(1, threads)
    <3>1. EvenBlocks(rows) = IF 1 > d THEN 1 ELSE d BY DEF EvenBlocks, Larger
    <3>2. d \in Int BY <2>2
    <3> HIDE DEF d
    <3> QED BY ONLY <3>1, <3>2
  <2> QED BY <1>2, <2>3 DEF TpTypes
<1>5. TpTypes' BY <1>1, <1>2, <1>3, <1>4 DEF StartCall, TpTypes
<1>6. Apart' /\ GivenOut' BY <1>1, <1>2, <1>3 DEF StartCall, Apart, GivenOut, Has, NoTask
<1>7. HasFuture' BY <1>1, <1>2, <1>3 DEF StartCall, HasFuture
<1> QED BY <1>5, <1>6, <1>7

(* submit gives out the next rows: to the queue, or, without threads, to   *)
(* nobody but the owner itself.                                            *)
LEMMA SubmitKeeps == TpInv /\ Submit => TpInv'
<1> SUFFICES ASSUME TpInv, Submit PROVE TpInv' OBVIOUS
<1> USE DEF TpInv
<1>0. /\ opc = "submit" /\ row_index_begin \in Nat /\ num_rows \in Nat /\ block_size \in Nat
      /\ row_index_begin < num_rows /\ block_size >= 1
      /\ futures \in Seq(Blocks) /\ queue \in Seq(Blocks)
      /\ num_rows' = num_rows /\ wpc' = wpc /\ task' = task /\ threads' = threads /\ opc' = opc
      /\ block_size' = block_size /\ row_index_begin' = RowIndexEnd
      /\ futures' = Append(futures, Block)
  BY DEF Submit, TpTypes
<1>1. RowIndexEnd \in Nat /\ row_index_begin < RowIndexEnd /\ RowIndexEnd <= num_rows
  BY <1>0 DEF RowIndexEnd
<1>2. Block \in Blocks /\ Block[1] = row_index_begin /\ Block[2] = RowIndexEnd
  BY <1>0, <1>1 DEF Block, Blocks
<1>3. \A r \in 1 .. num_rows : Has(Block, r) <=> r > row_index_begin /\ r <= RowIndexEnd
  BY <1>2 DEF Has
<1>4. \A r \in 1 .. num_rows : Has(Block, r) =>
        /\ computed[r] = 0
        /\ \A i \in DOMAIN queue : ~Has(queue[i], r)
        /\ \A w \in Workers : ~Has(task[w], r)
  <2> SUFFICES ASSUME NEW r \in 1 .. num_rows, Has(Block, r)
               PROVE  /\ computed[r] = 0
                      /\ \A i \in DOMAIN queue : ~Has(queue[i], r)
                      /\ \A w \in Workers : ~Has(task[w], r)
    OBVIOUS
  <2>1. r > row_index_begin BY <1>3
  <2>2. \A i \in DOMAIN queue : queue[i][2] \in Nat /\ queue[i][2] <= row_index_begin
    BY <1>0 DEF GivenOut, Blocks
  <2>3. \A w \in Workers : task[w][2] \in Nat /\ task[w][2] <= row_index_begin
    BY DEF GivenOut, Blocks, TpTypes, NoTask
  <2> QED BY <1>0, <2>1, <2>2, <2>3 DEF GivenOut, Has
<1>5. futures' \in Seq(Blocks) /\ Len(futures') = Len(futures) + 1
      /\ (\A k \in DOMAIN futures : k \in DOMAIN futures' /\ futures'[k] = futures[k])
      /\ Len(futures) + 1 \in DOMAIN futures' /\ futures'[Len(futures) + 1] = Block
  BY <1>0, <1>2, AppendProperties
<1>6. CASE threads = 0
  <2>1. /\ computed' = WithRows(Block) /\ ready' = ready \union {Block} /\ queue' = queue
    BY <1>6 DEF Submit
  <2>2. /\ computed' \in [1 .. num_rows -> 0 .. 1]
        /\ \A r \in 1 .. num_rows : computed'[r] = IF Has(Block, r) THEN 1 ELSE computed[r]
    BY <1>4, <2>1 DEF WithRows, Has, TpTypes
  <2>3. TpTypes' BY <1>0, <1>1, <1>2, <1>5, <2>1, <2>2 DEF TpTypes
  <2>4. Apart' BY <1>0, <1>4, <2>1, <2>2 DEF Apart
  <2>5. GivenOut'
    <3>1. \A i \in DOMAIN queue : queue[i][2] <= RowIndexEnd
      BY <1>0, <1>1 DEF GivenOut, Blocks
    <3>2. ASSUME NEW w \in Workers PROVE task[w][2] <= RowIndexEnd
      <4>1. task[w][2] \in Nat BY DEF TpTypes, Blocks, NoTask
      <4>2. task[w][2] <= row_index_begin BY DEF GivenOut
      <4> QED BY <1>0, <1>1, <4>1, <4>2
    <3>3. ASSUME NEW r \in 1 .. num_rows, r <= RowIndexEnd
          PROVE \/ computed'[r] = 1
                \/ \E i \in DOMAIN queue : Has(queue[i], r)
                \/ \E w \in Workers : Has(task[w], r)
      <4>1. CASE Has(Block, r) BY <2>2, <4>1
      <4>2. CASE ~Has(Block, r)
        <5>1. r <= row_index_begin BY <1>0, <1>3, <3>3, <4>2
        <5> QED BY <2>2, <4>2, <5>1 DEF GivenOut
      <4> QED BY <4>1, <4>2
    <3>4. ASSUME NEW r \in 1 .. num_rows, r > RowIndexEnd PROVE computed'[r] = 0
      <4>1. ~Has(Block, r) /\ r > row_index_begin BY <1>0, <1>1, <1>3, <3>4
      <4> QED BY <2>2, <4>1 DEF GivenOut
    <3> QED BY <1>0, <2>1, <3>1, <3>2, <3>3, <3>4 DEF GivenOut, Has
  <2>6. HasFuture'
    <3>1. \A i \in DOMAIN queue : \E k \in DOMAIN futures' : futures'[k] = queue[i]
      BY <1>5 DEF HasFuture
    <3>2. \A w \in Workers : wpc[w] = "run" => \E k \in DOMAIN futures' : futures'[k] = task[w]
      BY <1>5 DEF HasFuture
    <3>3. \A b \in ready' : b[2] <= num_rows /\ \A r \in 1 .. num_rows : Has(b, r) => computed'[r] = 1
      BY <1>1, <1>2, <2>1, <2>2 DEF HasFuture
    <3> QED BY <1>0, <2>1, <3>1, <3>2, <3>3 DEF HasFuture, Has
  <2> QED BY <2>3, <2>4, <2>5, <2>6
<1>7. CASE threads # 0
  <2>1. /\ computed' = computed /\ ready' = ready /\ queue' = Append(queue, Block)
    BY <1>7 DEF Submit
  <2>2. queue' \in Seq(Blocks) /\ Len(queue) \in Nat /\ DOMAIN queue = 1 .. Len(queue)
        /\ DOMAIN queue' = 1 .. Len(queue) + 1
        /\ (\A k \in DOMAIN queue : k \in DOMAIN queue' /\ queue'[k] = queue[k])
        /\ Len(queue) + 1 \in DOMAIN queue' /\ queue'[Len(queue) + 1] = Block
        /\ \A k \in DOMAIN queue' : k \in DOMAIN queue \/ k = Len(queue) + 1
    BY <1>0, <1>2, <2>1, AppendProperties
  <2>3. TpTypes' BY <1>0, <1>1, <1>2, <1>5, <2>1, <2>2 DEF TpTypes
  <2>4. Apart'
    <3> SUFFICES ASSUME NEW r \in 1 .. num_rows
                 PROVE /\ \A i, j \in DOMAIN queue' : Has(queue'[i], r) /\ Has(queue'[j], r) => i = j
                       /\ \A v, w \in Workers : Has(task[v], r) /\ Has(task[w], r) => v = w
                       /\ \A i \in DOMAIN queue', w \in Workers : ~(Has(queue'[i], r) /\ Has(task[w], r))
                       /\ computed[r] = 1 => /\ \A i \in DOMAIN queue' : ~Has(queue'[i], r)
                                             /\ \A w \in Workers : ~Has(task[w], r)
      BY <1>0, <2>1 DEF Apart, Has
    <3>1. CASE Has(Block, r)
      <4>1. \A i \in DOMAIN queue' : Has(queue'[i], r) => i = Len(queue) + 1 BY <1>4, <2>2, <3>1
      <4> QED BY <1>4, <3>1, <4>1
    <3>2. CASE ~Has(Block, r)
      <4>1. \A i \in DOMAIN queue' : Has(queue'[i], r) => i \in DOMAIN queue /\ Has(queue[i], r)
        BY <2>2, <3>2
      <4> QED BY <4>1 DEF Apart
    <3> QED BY <3>1, <3>2
  <2>5. GivenOut'
    <3>1. \A i \in DOMAIN queue' : queue'[i][2] <= RowIndexEnd
      <4>1. ASSUME NEW i \in DOMAIN queue PROVE queue[i][2] \in Nat /\ queue[i][2] <= row_index_begin
        BY <1>0 DEF GivenOut, Blocks
      <4> QED BY <1>0, <1>1, <1>2, <2>2, <4>1
    <3>2. ASSUME NEW w \in Workers PROVE task[w][2] <= RowIndexEnd
      <4>1. task[w][2] \in Nat BY DEF TpTypes, Blocks, NoTask
      <4>2. task[w][2] <= row_index_begin BY DEF GivenOut
      <4> QED BY <1>0, <1>1, <4>1, <4>2
    <3>3. ASSUME NEW r \in 1 .. num_rows, r <= RowIndexEnd
          PROVE \/ computed[r] = 1
                \/ \E i \in DOMAIN queue' : Has(queue'[i], r)
                \/ \E w \in Workers : Has(task[w], r)
      <4>1. CASE r > row_index_begin BY <1>3, <2>2, <3>3, <4>1
      <4>2. CASE r <= row_index_begin BY <2>2, <4>2 DEF GivenOut
      <4> QED BY <1>0, <4>1, <4>2
    <3>4. ASSUME NEW r \in 1 .. num_rows, r > RowIndexEnd PROVE computed[r] = 0
      BY <1>0, <1>1, <3>4 DEF GivenOut
    <3> QED BY <1>0, <2>1, <3>1, <3>2, <3>3, <3>4 DEF GivenOut, Has
  <2>6. HasFuture'
    <3>1. \A i \in DOMAIN queue' : \E k \in DOMAIN futures' : futures'[k] = queue'[i]
      BY <1>5, <2>2 DEF HasFuture
    <3>2. \A w \in Workers : wpc[w] = "run" => \E k \in DOMAIN futures' : futures'[k] = task[w]
      BY <1>5 DEF HasFuture
    <3> QED BY <1>0, <2>1, <3>1, <3>2 DEF HasFuture, Has
  <2> QED BY <2>3, <2>4, <2>5, <2>6
<1> QED BY <1>6, <1>7

(* A future that is ready belongs to nothing that is queued or running.    *)
LEMMA GetFutureKeeps == TpInv /\ GetFuture => TpInv'
<1> SUFFICES ASSUME TpInv, GetFuture PROVE TpInv' OBVIOUS
<1> USE DEF TpInv
<1>0. futures \in Seq(Blocks) /\ queue \in Seq(Blocks) /\ num_rows \in Nat /\ row_index_begin \in Nat
  BY DEF TpTypes
<1>1. /\ futures # << >> /\ Head(futures) \in ready /\ futures' = Tail(futures)
      /\ opc = "get" /\ UNCHANGED <<opc, num_rows, block_size, row_index_begin, threads, queue, ready, computed, wpc, task>>
  BY DEF GetFuture, FutureReady
<1>2. futures' \in Seq(Blocks) /\ futures[1] \in ready
      /\ \A k \in DOMAIN futures : k # 1 => k - 1 \in DOMAIN futures' /\ futures'[k - 1] = futures[k]
  BY <1>0, <1>1
<1>3. futures[1] \in Blocks /\ \A r \in 1 .. num_rows : Has(futures[1], r) => computed[r] = 1
  BY <1>2 DEF HasFuture, TpTypes
<1>4. futures[1][2] \in 1 .. num_rows /\ Has(futures[1], futures[1][2])
  BY <1>0, <1>2, <1>3 DEF HasFuture, Has, Blocks
<1>5. \A i \in DOMAIN queue : queue[i] # futures[1]
  BY <1>3, <1>4 DEF Apart
<1>6. \A w \in Workers : task[w] # futures[1]
  BY <1>3, <1>4 DEF Apart
<1>7. TpTypes' BY <1>1, <1>2 DEF TpTypes
<1>8. Apart' /\ GivenOut' BY <1>1 DEF Apart, GivenOut, Has
<1>9. HasFuture'
  <2>1. \A i \in DOMAIN queue : \E k \in DOMAIN futures' : futures'[k] = queue[i]
    BY <1>2, <1>5 DEF HasFuture
  <2>2. \A w \in Workers : wpc[w] = "run" => \E k \in DOMAIN futures' : futures'[k] = task[w]
    BY <1>2, <1>6 DEF HasFuture
  <2> QED BY <1>1, <2>1, <2>2 DEF HasFuture, Has
<1> QED BY <1>7, <1>8, <1>9

(* Steps of the owner that touch neither rows nor tasks.                   *)
LEMMA QuietOwnerKeeps ==
  TpInv /\ (CreateThrows \/ Created \/ AllSubmitted \/ Return \/ Destroy \/ Close \/ Join) => TpInv'
<1> SUFFICES ASSUME TpInv, CreateThrows \/ Created \/ AllSubmitted \/ Return \/ Destroy \/ Close \/ Join
             PROVE TpInv' OBVIOUS
<1> USE DEF TpInv
<1>1. /\ UNCHANGED <<num_rows, block_size, row_index_begin, futures, threads, queue, ready, computed, wpc, task>>
      /\ opc' \in {"close", "idle", "get", "join", "gone"}
      /\ opc' # "get" => futures = << >>
      /\ row_index_begin = num_rows
  BY DEF CreateThrows, Created, AllSubmitted, Return, Destroy, Close, Join, HasFuture, TpTypes
<1>2. TpTypes' BY <1>1 DEF TpTypes
<1>3. Apart' /\ GivenOut' BY <1>1 DEF Apart, GivenOut, Has
<1>4. HasFuture' BY <1>1 DEF HasFuture, Has
<1> QED BY <1>2, <1>3, <1>4

(* Steps that move a worker which has no task, or make one.                *)
LEMMA QuietWorkerKeeps ==
  ASSUME TpInv, CreateThread \/ \E w \in Workers : TestDone(w) \/ PopFalse(w)
  PROVE  TpInv'
<1> USE DEF TpInv
<1> DEFINE Quiet == /\ UNCHANGED <<ownerVars, queue, ready, computed, task>>
                    /\ threads' \in Nat /\ wpc' \in [Workers -> WorkerPlaces]
                    /\ \A w \in Workers : /\ w > threads' => wpc'[w] = "unborn"
                                          /\ wpc'[w] = "run" <=> wpc[w] = "run"
<1>0. Quiet
  <2>1. CASE CreateThread
    <3>1. threads \in Nat /\ threads' = threads + 1 /\ wpc' = [wpc EXCEPT ![threads + 1] = "test"]
          /\ wpc \in [Workers -> WorkerPlaces]
      BY <2>1 DEF CreateThread, TpTypes
    <3>2. wpc' \in [Workers -> WorkerPlaces] BY <3>1 DEF WorkerPlaces
    <3>3. ASSUME NEW w \in Workers
          PROVE (w > threads' => wpc'[w] = "unborn") /\ (wpc'[w] = "run" <=> wpc[w] = "run")
      <4>1. w \in Int BY DEF Workers
      <4>2. w > threads => wpc[w] = "unborn" BY DEF TpTypes
      <4>3. CASE w = threads + 1 BY <3>1, <4>2, <4>3
      <4>4. CASE w # threads + 1 BY <3>1, <4>1, <4>2, <4>4
      <4> QED BY <4>3, <4>4
    <3> QED BY <2>1, <3>1, <3>2, <3>3 DEF CreateThread
  <2>2. ASSUME NEW w \in Workers, TestDone(w) \/ PopFalse(w) PROVE Quiet
    BY <2>2 DEF TestDone, PopFalse, TpTypes, WorkerPlaces
  <2> QED BY <2>1, <2>2
<1>2. TpTypes' BY <1>0 DEF TpTypes, ownerVars
<1>3. Apart' /\ GivenOut' BY <1>0 DEF Apart, GivenOut, Has, ownerVars
<1>4. HasFuture' BY <1>0 DEF HasFuture, Has, ownerVars
<1> QED BY <1>2, <1>3, <1>4

(* A worker takes a block from the queue.                                  *)
LEMMA PopKeeps == ASSUME TpInv, NEW w \in Workers, Pop(w) PROVE TpInv'
<1> USE DEF TpInv
<1>0. /\ queue \in Seq(Blocks) /\ queue # << >> /\ wpc[w] = "pop" /\ task[w] = NoTask
      /\ task' = [task EXCEPT ![w] = queue[1]] /\ queue' = Tail(queue)
      /\ wpc' = [wpc EXCEPT ![w] = "run"]
      /\ UNCHANGED <<ownerVars, threads, ready, computed>>
  BY DEF Pop, TpTypes
<1>1. /\ queue' \in Seq(Blocks) /\ 1 \in DOMAIN queue /\ queue[1] \in Blocks
      /\ \A k \in DOMAIN queue' : k + 1 \in DOMAIN queue /\ k + 1 # 1 /\ queue'[k] = queue[k + 1]
      /\ \A k \in DOMAIN queue : k # 1 => k - 1 \in DOMAIN queue' /\ queue'[k - 1] = queue[k]
      /\ DOMAIN queue' \subseteq Nat
  BY <1>0
<1>2. task' \in [Workers -> Blocks \union {NoTask}] /\ task'[w] = queue[1]
      /\ \A v \in Workers : v # w => task'[v] = task[v]
  BY <1>0, <1>1 DEF TpTypes
<1>3. \A r \in 1 .. num_rows : ~Has(task[w], r)
  BY <1>0 DEF Has, NoTask
<1>4. TpTypes' BY <1>0, <1>1, <1>2 DEF TpTypes, WorkerPlaces, ownerVars
<1>5. Apart'
  <2> SUFFICES ASSUME NEW r \in 1 .. num_rows
               PROVE /\ \A i, j \in DOMAIN queue' : Has(queue'[i], r) /\ Has(queue'[j], r) => i = j
                     /\ \A u, v \in Workers : Has(task'[u], r) /\ Has(task'[v], r) => u = v
                     /\ \A i \in DOMAIN queue', v \in Workers : ~(Has(queue'[i], r) /\ Has(task'[v], r))
                     /\ computed[r] = 1 => /\ \A i \in DOMAIN queue' : ~Has(queue'[i], r)
                                           /\ \A v \in Workers : ~Has(task'[v], r)
    BY <1>0 DEF Apart, Has, ownerVars
  <2>1. \A i, j \in DOMAIN queue' : Has(queue'[i], r) /\ Has(queue'[j], r) => i = j
    <3> SUFFICES ASSUME NEW i \in DOMAIN queue', NEW j \in DOMAIN queue', Has(queue'[i], r), Has(queue'[j], r)
                 PROVE i = j OBVIOUS
    <3>1. i + 1 = j + 1 BY <1>1 DEF Apart
    <3> QED BY <1>1, <3>1
  <2>2. \A u, v \in Workers : Has(task'[u], r) /\ Has(task'[v], r) => u = v
    BY <1>1, <1>2 DEF Apart
  <2>3. ASSUME NEW i \in DOMAIN queue', NEW v \in Workers, Has(queue'[i], r), Has(task'[v], r) PROVE FALSE
    <3>1. i + 1 \in DOMAIN queue /\ i + 1 # 1 /\ Has(queue[i + 1], r) BY <1>1, <2>3
    <3>2. CASE v = w BY <1>1, <1>2, <2>3, <3>1, <3>2 DEF Apart
    <3>3. CASE v # w BY <1>2, <2>3, <3>1, <3>3 DEF Apart
    <3> QED BY <3>2, <3>3
  <2>4. computed[r] = 1 => /\ \A i \in DOMAIN queue' : ~Has(queue'[i], r)
                           /\ \A v \in Workers : ~Has(task'[v], r)
    BY <1>1, <1>2 DEF Apart
  <2> QED BY <2>1, <2>2, <2>3, <2>4
<1>6. GivenOut'
  <2>1. \A r \in 1 .. num_rows :
       r <= row_index_begin => \/ computed[r] = 1
                               \/ \E i \in DOMAIN queue' : Has(queue'[i], r)
                               \/ \E v \in Workers : Has(task'[v], r)
    BY <1>1, <1>2, <1>3 DEF GivenOut
  <2>2. \A v \in Workers : task'[v][2] <= row_index_begin BY <1>1, <1>2 DEF GivenOut
  <2>3. \A i \in DOMAIN queue' : queue'[i][2] <= row_index_begin BY <1>1 DEF GivenOut
  <2> QED BY <1>0, <2>1, <2>2, <2>3 DEF GivenOut, Has, ownerVars
<1>7. HasFuture'
  <2>1. \A i \in DOMAIN queue' : \E k \in DOMAIN futures : futures[k] = queue'[i]
    BY <1>1 DEF HasFuture
  <2>2. \A v \in Workers : wpc'[v] = "run" => \E k \in DOMAIN futures : futures[k] = task'[v]
    BY <1>0, <1>1, <1>2 DEF HasFuture, TpTypes
  <2> QED BY <1>0, <2>1, <2>2 DEF HasFuture, Has, ownerVars
<1> QED BY <1>4, <1>5, <1>6, <1>7

(* A worker computes the rows of its block.                                *)
LEMMA RunKeeps == ASSUME TpInv, NEW w \in Workers, Run(w) PROVE TpInv'
<1> USE DEF TpInv
<1>0. /\ wpc[w] = "run" /\ task[w] \in Blocks
      /\ computed' = WithRows(task[w]) /\ ready' = ready \union {task[w]}
      /\ task' = [task EXCEPT ![w] = NoTask] /\ wpc' = [wpc EXCEPT ![w] = "test"]
      /\ UNCHANGED <<ownerVars, threads, queue>>
  BY DEF Run, TpTypes, AfterTask
<1>1. \A r \in 1 .. num_rows : Has(task[w], r) => computed[r] = 0
  BY DEF Apart, TpTypes
<1>2. /\ computed' \in [1 .. num_rows -> 0 .. 1]
      /\ \A r \in 1 .. num_rows : computed'[r] = IF Has(task[w], r) THEN 1 ELSE computed[r]
  BY <1>0, <1>1 DEF WithRows, Has, TpTypes
<1>3. task'[w] = NoTask /\ \A v \in Workers : v # w => task'[v] = task[v]
  BY <1>0 DEF TpTypes
<1>4. TpTypes' BY <1>0, <1>2, <1>3 DEF TpTypes, WorkerPlaces, ownerVars
<1>5. \A r \in 1 .. num_rows : ~Has(NoTask, r) BY DEF Has, NoTask
<1>6. Apart'
  <2> SUFFICES ASSUME NEW r \in 1 .. num_rows
               PROVE /\ \A i, j \in DOMAIN queue : Has(queue[i], r) /\ Has(queue[j], r) => i = j
                     /\ \A u, v \in Workers : Has(task'[u], r) /\ Has(task'[v], r) => u = v
                     /\ \A i \in DOMAIN queue, v \in Workers : ~(Has(queue[i], r) /\ Has(task'[v], r))
                     /\ computed'[r] = 1 => /\ \A i \in DOMAIN queue : ~Has(queue[i], r)
                                            /\ \A v \in Workers : ~Has(task'[v], r)
    BY <1>0 DEF Apart, Has, ownerVars
  <2>1. \A v \in Workers : Has(task'[v], r) => v # w /\ Has(task[v], r) BY <1>3, <1>5
  <2> QED BY <1>2, <2>1 DEF Apart
<1>7. GivenOut'
  <2>1. \A r \in 1 .. num_rows :
       r <= row_index_begin => \/ computed'[r] = 1
                               \/ \E i \in DOMAIN queue : Has(queue[i], r)
                               \/ \E v \in Workers : Has(task'[v], r)
    BY <1>2, <1>3 DEF GivenOut
  <2>2. \A v \in Workers : task'[v][2] <= row_index_begin BY <1>3 DEF GivenOut, NoTask, TpTypes
  <2>3. \A r \in 1 .. num_rows : r > row_index_begin => computed'[r] = 0
    <3> SUFFICES ASSUME NEW r \in 1 .. num_rows, r > row_index_begin PROVE ~Has(task[w], r)
      BY <1>2 DEF GivenOut
    <3>1. task[w][2] <= row_index_begin /\ task[w][2] \in Nat /\ row_index_begin \in Nat
      BY <1>0 DEF GivenOut, Blocks, TpTypes
    <3> QED BY <3>1 DEF Has
  <2> QED BY <1>0, <2>1, <2>2, <2>3 DEF GivenOut, Has, ownerVars
<1>8. HasFuture'
  <2>1. \A v \in Workers : wpc'[v] = "run" => \E k \in DOMAIN futures : futures[k] = task'[v]
    BY <1>0, <1>3 DEF HasFuture, TpTypes
  <2>2. \A b \in ready' : b[2] <= num_rows /\ \A r \in 1 .. num_rows : Has(b, r) => computed'[r] = 1
    <3>1. task[w][2] <= num_rows BY <1>0 DEF GivenOut, Blocks, TpTypes
    <3> QED BY <1>0, <1>2, <3>1 DEF HasFuture
  <2> QED BY <1>0, <2>1, <2>2 DEF HasFuture, Has, ownerVars
<1> QED BY <1>4, <1>6, <1>7, <1>8

(* Every step of the thread pool keeps the invariant.                      *)
LEMMA TpSteps == TpInv /\ [TpNext]_tpVars => TpInv'
<1> SUFFICES ASSUME TpInv, [TpNext]_tpVars PROVE TpInv' OBVIOUS
<1>1. CASE Owner
  BY <1>1, StartCallKeeps, SubmitKeeps, GetFutureKeeps, QuietOwnerKeeps, QuietWorkerKeeps DEF Owner
<1>2. ASSUME NEW w \in Workers, Worker(w) PROVE TpInv'
  BY <1>2, QuietWorkerKeeps, PopKeeps, RunKeeps DEF Worker
<1>3. CASE UNCHANGED tpVars
  <2> USE <1>3 DEF tpVars, ownerVars, TpInv
  <2>1. TpTypes' BY DEF TpTypes
  <2>2. Apart' /\ GivenOut' /\ HasFuture' BY DEF Apart, GivenOut, HasFuture, Has
  <2> QED BY <2>1, <2>2
<1> QED BY <1>1, <1>2, <1>3 DEF TpNext

-----------------------------------------------------------------------------
(* The sender. At most half of its ring is in flight, so the ring still    *)
(* knows every example in flight; the answers come back in the order of    *)
(* the questions, with nothing between the last answer received and the    *)
(* first one on its way.                                                   *)
Window == limit \div 2 - 1

SenderTypes ==
  /\ limit \in Limits /\ limit >= 4
  /\ pc \in {"send", "write", "threw", "closed"}
  /\ sent_index \in 0 .. NumExamples /\ received_index \in 0 .. NumExamples
  /\ delay_ring \in [0 .. limit - 1 -> Nat]
  /\ wire \in Seq(1 .. NumExamples) /\ back \in Seq(1 .. NumExamples)
  /\ daemon \in {"up", "gone"}
  /\ output \in Seq(Nat \X Nat)

(* The window: at most half the ring is in flight, and less when the next  *)
(* example is written.                                                     *)
InWindow ==
  /\ received_index <= sent_index /\ sent_index - received_index <= Window
  /\ pc = "write" => sent_index < NumExamples /\ sent_index - received_index < Window

(* The ring knows every example in flight.                                 *)
RingKept == \A i \in received_index .. sent_index - 1 : delay_ring[i % limit] = i + 1

(* The examples in flight are, in order, the answers on their way back and *)
(* the questions on the wire; some are missing once the daemon has gone.   *)
InOrder ==
  /\ \A i \in 1 .. Len(back) : back[i] = received_index + i
  /\ \A i \in 1 .. Len(wire) : wire[i] = received_index + Len(back) + i
  /\ Len(back) + Len(wire) <= sent_index - received_index
  /\ daemon = "up" => Len(back) + Len(wire) = sent_index - received_index
  /\ daemon = "gone" => wire = << >>

SenderInv ==
  SenderTypes /\ InWindow /\ RingKept /\ InOrder /\ Len(output) = received_index /\ PairedRight

(* Indices less than a ring apart have different entries.                  *)
LEMMA EntriesApart ==
  ASSUME NEW n \in Nat \ {0}, NEW i \in Nat, NEW j \in Nat, i < j, j - i < n
  PROVE  i % n # j % n
<1> DEFINE p == i \div n  q == j \div n
<1>1. p \in Int /\ q \in Int /\ i = n * p + (i % n) /\ j = n * q + (j % n)
  OBVIOUS
<1>2. i % n \in 0 .. n - 1 /\ j % n \in 0 .. n - 1
  OBVIOUS
<1>3. SUFFICES ASSUME i % n = j % n PROVE FALSE
  OBVIOUS
<1> HIDE DEF p, q
<1>4. j - i = n * (q - p)
  BY <1>1, <1>2, <1>3
<1>5. q - p >= 1
  <2>1. CASE q - p <= 0
    <3>1. n * (q - p) <= 0 BY <1>1, <2>1
    <3> QED BY <1>4, <3>1
  <2> QED BY <2>1, <1>1
<1>6. n * (q - p) >= n
  BY <1>1, <1>5
<1> QED BY <1>4, <1>6

(* Below the modulus nothing wraps around.                                 *)
LEMMA NoWrap == ASSUME NEW a \in Nat, NEW b \in Nat, a < b PROVE a % b = a
<1> DEFINE q == a \div b
<1>1. q \in Int /\ a = b * q + (a % b) /\ a % b \in 0 .. b - 1
  OBVIOUS
<1> HIDE DEF q
<1>2. q = 0
  <2>1. ASSUME q >= 1 PROVE FALSE
    <3>1. b * q >= b BY <1>1, <2>1
    <3> QED BY <1>1, <3>1
  <2>2. ASSUME q <= -1 PROVE FALSE
    <3>1. b * q <= -b BY <1>1, <2>2
    <3> QED BY <1>1, <3>1
  <2> QED BY <1>1, <2>1, <2>2
<1> QED BY <1>1, <1>2

(* Receiving the next answer, when something is in flight.                 *)
LEMMA ReceiveKeeps ==
  ASSUME SenderInv, ReceiveResult, received_index < sent_index,
         UNCHANGED <<limit, sent_index, delay_ring, wire, daemon>>
  PROVE  /\ SenderTypes /\ received_index' = received_index + 1
         /\ back' \in Seq(1 .. NumExamples) /\ output' \in Seq(Nat \X Nat)
         /\ RingKept' /\ InOrder' /\ Len(output)' = received_index' /\ PairedRight'
<1> USE DEF SenderInv
<1>0. /\ limit \in Nat /\ sent_index \in Nat /\ received_index \in Nat /\ NumExamples \in Nat
      /\ sent_index <= NumExamples /\ received_index + 1 <= NumExamples
      /\ wire \in Seq(1 .. NumExamples) /\ back \in Seq(1 .. NumExamples)
      /\ output \in Seq(Nat \X Nat)
  BY LimitsAssumption, NumbersAssumption DEF SenderTypes
<1>1. PICK prediction \in 0 .. NumExamples :
        GetPrediction(prediction)
        /\ output' = Append(output, <<delay_ring[Slot(received_index)], prediction>>)
  BY DEF ReceiveResult
<1>2. received_index' = received_index + 1
  BY DEF ReceiveResult
<1>3. delay_ring[Slot(received_index)] = received_index + 1
  BY <1>0 DEF RingKept, Slot
<1>4. /\ back' \in Seq(1 .. NumExamples) /\ InOrder'
      /\ prediction = received_index + 1 \/ (prediction = 0 /\ daemon = "gone")
  <2>1. CASE back # << >>
    <3>1. /\ back[1] = received_index + 1 /\ Len(back) \in Nat /\ Len(back) >= 1
      BY <1>0, <2>1 DEF InOrder
    <3>2. prediction = Head(back) /\ back' = Tail(back)
      BY <1>1, <2>1 DEF GetPrediction
    <3>3. /\ prediction = received_index + 1 /\ back' \in Seq(1 .. NumExamples)
          /\ Len(back') = Len(back) - 1 /\ \A i \in 1 .. Len(back') : back'[i] = back[i + 1]
      BY <1>0, <2>1, <3>1, <3>2
    <3>4. InOrder'
      BY <1>0, <1>2, <3>1, <3>3, SMTT(40) DEF InOrder
    <3> QED BY <3>3, <3>4
  <2>2. CASE back = << >>
    <3>1. back' = back /\ daemon = "gone" /\ prediction = 0 /\ wire = << >>
      BY <1>1, <2>2 DEF GetPrediction, InOrder
    <3> QED BY <1>0, <1>2, <2>2, <3>1 DEF InOrder
  <2> QED BY <2>1, <2>2
<1>7. RingKept'
  BY <1>0, <1>2 DEF RingKept
<1>8. /\ output' \in Seq(Nat \X Nat) /\ Len(output') = received_index'
      /\ DOMAIN output' = 1 .. received_index + 1 /\ DOMAIN output = 1 .. received_index
      /\ \A k \in 1 .. received_index : output'[k] = output[k]
      /\ output'[received_index + 1] = <<received_index + 1, prediction>>
  <2>1. <<received_index + 1, prediction>> \in Nat \X Nat
    BY <1>0
  <2>2. output' = Append(output, <<received_index + 1, prediction>>) /\ Len(output) = received_index
    BY <1>1, <1>3
  <2> QED BY <1>0, <1>2, <2>1, <2>2, AppendProperties
<1>9. PairedRight'
  <2> SUFFICES ASSUME NEW k \in 1 .. received_index + 1
               PROVE  /\ output'[k][1] = k
                      /\ output'[k][2] = k \/ (output'[k][2] = 0 /\ daemon' = "gone")
    BY <1>8 DEF PairedRight
  <2>1. CASE k = received_index + 1
    BY <1>4, <1>8, <2>1
  <2>2. CASE k \in 1 .. received_index
    BY <1>8, <2>2 DEF PairedRight
  <2> QED BY <1>0, <2>1, <2>2
<1> QED BY <1>2, <1>4, <1>7, <1>8, <1>9

(* Every step of the sender or of the daemon keeps the invariant.          *)
LEMMA SenderSteps == SenderInv /\ [SenderNext]_senderVars => SenderInv'
<1> SUFFICES ASSUME SenderInv, [SenderNext]_senderVars PROVE SenderInv'
  OBVIOUS
<1> USE DEF SenderInv
<1>0. limit \in Nat /\ limit >= 4 /\ Window \in Nat /\ Window >= 1 /\ Window < limit
      /\ received_index + Window < Word
  BY LimitsAssumption, NumbersAssumption DEF SenderTypes, InWindow, Window
<1>t. /\ sent_index \in Nat /\ received_index \in Nat /\ NumExamples \in Nat
      /\ sent_index <= NumExamples /\ received_index <= NumExamples
      /\ wire \in Seq(1 .. NumExamples) /\ back \in Seq(1 .. NumExamples)
  BY LimitsAssumption, NumbersAssumption DEF SenderTypes
<1>1. MustReceive <=> sent_index - received_index = Window
  <2>1. (received_index + Window) % Word = received_index + Window
    <3>1. received_index + Window \in Nat /\ Word \in Nat /\ received_index + Window < Word
      BY LimitsAssumption, NumbersAssumption, <1>0, <1>t
    <3> HIDE DEF Window
    <3> QED BY ONLY <3>1, NoWrap
  <2>2. received_index + limit \div 2 - 1 = received_index + Window
    BY <1>0, <1>t DEF Window
  <2>3. MustReceive <=> received_index + Window = sent_index
    BY ONLY <2>1, <2>2 DEF MustReceive
  <2> QED BY <1>0, <1>t, <2>3
<1>2. CASE ReceiveFirst
  <2>1. received_index < sent_index BY <1>0, <1>1, <1>2 DEF ReceiveFirst, SenderTypes
  <2>2. /\ SenderTypes /\ received_index' = received_index + 1
         /\ back' \in Seq(1 .. NumExamples) /\ output' \in Seq(Nat \X Nat)
         /\ RingKept' /\ InOrder' /\ Len(output)' = received_index' /\ PairedRight'
    BY <1>2, <2>1, ReceiveKeeps DEF ReceiveFirst
  <2>3. SenderTypes' /\ InWindow'
    BY LimitsAssumption, NumbersAssumption, <1>0, <1>1, <1>2, <2>1, <2>2, SMTT(40)
    DEF ReceiveFirst, SenderTypes, InWindow, Window
  <2> QED BY <2>2, <2>3
<1>3. CASE WindowOpen
  <2>1. SenderTypes' /\ InWindow'
    BY <1>0, <1>1, <1>3 DEF WindowOpen, SenderTypes, InWindow, indexVars, socketVars, Window
  <2> QED BY <2>1, <1>3 DEF WindowOpen, RingKept, InOrder, PairedRight, indexVars, socketVars
<1>4. CASE WriteExample
  <2>0. sent_index + 1 \in 1 .. NumExamples /\ pc' = "send" /\ sent_index' = sent_index + 1
    BY <1>t, <1>4 DEF WriteExample, InWindow
  <2>1. SenderTypes'
    <3>1. delay_ring' \in [0 .. limit - 1 -> Nat]
      <4>1. delay_ring' = [delay_ring EXCEPT ![Slot(sent_index)] = sent_index + 1]
            /\ delay_ring \in [0 .. limit - 1 -> Nat] /\ sent_index + 1 \in Nat
        BY <1>t, <1>4 DEF WriteExample, SenderTypes
      <4> QED BY ONLY <4>1
    <3>2. wire' \in Seq(1 .. NumExamples)
      <4>1. wire \in Seq(1 .. NumExamples) /\ sent_index + 1 \in 1 .. NumExamples
            /\ (wire' = wire \/ wire' = Append(wire, sent_index + 1))
        BY <1>t, <1>4, <2>0 DEF WriteExample
      <4>2. Append(wire, sent_index + 1) \in Seq(1 .. NumExamples)
        BY ONLY <4>1, AppendProperties
      <4> QED BY ONLY <4>1, <4>2
    <3> QED BY <1>t, <1>4, <2>0, <3>1, <3>2 DEF WriteExample, SenderTypes
  <2>2. InWindow' BY <1>0, <1>4 DEF WriteExample, SenderTypes, InWindow, Window
  <2>3. ASSUME NEW i \in received_index .. sent_index PROVE delay_ring'[i % limit] = i + 1
    <3>1. sent_index % limit \in 0 .. limit - 1 BY <1>0 DEF SenderTypes
    <3>2. CASE i = sent_index BY <1>4, <3>1, <3>2 DEF WriteExample, SenderTypes, Slot
    <3>3. CASE i < sent_index
      <4>1. i % limit # sent_index % limit
        <5>1. limit \in Nat \ {0} /\ i \in Nat /\ i < sent_index /\ sent_index - i < limit
          BY <1>0, <1>t, <3>3 DEF InWindow
        <5> QED BY <1>t, <5>1, EntriesApart
      <4>2. i % limit \in 0 .. limit - 1 BY <1>0 DEF SenderTypes
      <4>3. delay_ring[i % limit] = i + 1 BY <1>t, <3>3 DEF RingKept
      <4> QED BY <1>4, <4>1, <4>2, <4>3 DEF WriteExample, SenderTypes, Slot
    <3> QED BY <3>2, <3>3 DEF SenderTypes
  <2>4. RingKept' BY <1>t, <2>0, <2>3, <1>4 DEF WriteExample, RingKept
  <2>5. InOrder' 
    <3>1. CASE daemon = "up"
      <4>1. /\ wire' = Append(wire, sent_index + 1) /\ Len(wire') = Len(wire) + 1
            /\ Len(back) \in Nat /\ Len(wire) \in Nat
            /\ \A i \in 1 .. Len(wire) : wire'[i] = wire[i]
            /\ wire'[Len(wire) + 1] = sent_index + 1
        BY <1>t, <1>4, <3>1 DEF WriteExample
      <4> QED
        BY LimitsAssumption, NumbersAssumption, <1>t, <1>4, <2>0, <3>1, <4>1, SMTT(40)
        DEF WriteExample, InOrder
    <3>2. CASE daemon = "gone" BY <1>t, <1>4, <2>0, <3>2 DEF WriteExample, InOrder
    <3> QED BY <3>1, <3>2 DEF SenderTypes
  <2> QED BY <2>1, <2>2, <2>4, <2>5, <1>4 DEF WriteExample, PairedRight
<1>5. CASE Drain
  <2>1. received_index < sent_index BY <1>5 DEF Drain, InFlight, InWindow, SenderTypes
  <2>2. /\ SenderTypes /\ received_index' = received_index + 1
         /\ back' \in Seq(1 .. NumExamples) /\ output' \in Seq(Nat \X Nat)
         /\ RingKept' /\ InOrder' /\ Len(output)' = received_index' /\ PairedRight'
    BY <1>5, <2>1, ReceiveKeeps DEF Drain
  <2>3. SenderTypes' /\ InWindow'
    BY LimitsAssumption, NumbersAssumption, <1>0, <1>5, <2>1, <2>2, SMTT(40)
    DEF Drain, SenderTypes, InWindow, Window
  <2> QED BY <2>2, <2>3
<1>6. CASE CloseFiles \/ WriteThrows \/ ReceiveThrows
  <2>1. SenderTypes' /\ InWindow'
    BY <1>6 DEF CloseFiles, WriteThrows, ReceiveThrows, SenderTypes, InWindow, indexVars, socketVars, Window
  <2> QED
    BY <2>1, <1>6
    DEF CloseFiles, WriteThrows, ReceiveThrows, RingKept, InOrder, PairedRight, indexVars, socketVars
<1>7. CASE Predict
  <2>1. SenderTypes'
    BY LimitsAssumption, NumbersAssumption, <1>7, SMTT(40) DEF Predict, SenderTypes, indexVars
  <2>2. InOrder' 
    <3>1. /\ Len(back') = Len(back) + 1 /\ Len(wire') = Len(wire) - 1
          /\ Len(back) \in Nat /\ Len(wire) \in Nat /\ Len(wire) >= 1
          /\ \A i \in 1 .. Len(back) : back'[i] = back[i]
          /\ back'[Len(back) + 1] = wire[1]
          /\ \A i \in 1 .. Len(wire') : wire'[i] = wire[i + 1]
      BY <1>t, <1>7 DEF Predict
    <3>2. wire[1] = received_index + Len(back) + 1 BY <1>t, <3>1 DEF InOrder
    <3>3. /\ \A i \in 1 .. Len(back') : back'[i] = received_index + i
          /\ \A i \in 1 .. Len(wire') : wire'[i] = received_index + Len(back') + i
      <4>1. ASSUME NEW i \in 1 .. Len(back') PROVE back'[i] = received_index + i
        <5>1. CASE i = Len(back) + 1 BY <5>1, <1>t, <3>1, <3>2
        <5>2. CASE i \in 1 .. Len(back) BY <5>2, <1>t, <3>1 DEF InOrder
        <5> QED BY <3>1, <5>1, <5>2
      <4>2. ASSUME NEW i \in 1 .. Len(wire') PROVE wire'[i] = received_index + Len(back') + i
        <5>1. i + 1 \in 1 .. Len(wire) BY <3>1
        <5>2. wire[i + 1] = received_index + Len(back) + (i + 1) BY <5>1 DEF InOrder
        <5> QED BY <1>t, <3>1, <5>2
      <4> QED BY <4>1, <4>2
    <3>4. received_index' = received_index /\ sent_index' = sent_index /\ daemon' = daemon /\ daemon = "up"
      BY <1>7 DEF Predict, indexVars
    <3>5. Len(back') + Len(wire') = Len(back) + Len(wire) BY <3>1
    <3> QED BY <3>3, <3>4, <3>5 DEF InOrder
  <2> QED BY <2>1, <2>2, <1>7 DEF Predict, InWindow, Window, RingKept, PairedRight, indexVars
<1>8. CASE DaemonDies
  <2>1. SenderTypes' BY <1>8 DEF DaemonDies, SenderTypes, indexVars
  <2>2. InOrder' BY <1>8 DEF DaemonDies, InOrder, SenderTypes, indexVars
  <2> QED
    BY <2>1, <2>2, <1>8
    DEF DaemonDies, InWindow, Window, RingKept, PairedRight, indexVars, SenderTypes
<1>9. CASE UNCHANGED senderVars
  BY <1>9 DEF senderVars, indexVars, socketVars, SenderTypes, InWindow, Window, RingKept, InOrder, PairedRight
<1> QED BY <1>2, <1>3, <1>4, <1>5, <1>6, <1>7, <1>8, <1>9 DEF SenderNext, Send, Fail

(* At the start nothing is in flight.                                      *)
LEMMA SenderStarts == ASSUME \A l \in Limits : l >= 4 PROVE SenderInit => SenderInv
<1> SUFFICES ASSUME SenderInit PROVE SenderInv OBVIOUS
<1>1. limit \in Nat /\ limit >= 4 /\ limit \div 2 >= 2
  BY LimitsAssumption, NumbersAssumption DEF SenderInit
<1> QED
  BY LimitsAssumption, NumbersAssumption, <1>1
  DEF SenderInit, SenderInv, SenderTypes, InWindow, Window, RingKept, InOrder, PairedRight

-----------------------------------------------------------------------------
(* Threaded learning. Every example is on its way to a node, in its block  *)
(* or in a model; a node that is at its last EndOfPass has an empty block, *)
(* and an AllReduce of nodes that are all there makes every model the      *)
(* whole input. The calls of SaveModel and Flush are pending, being run or *)
(* done.                                                                   *)
Places == {"run", "drain", "sync", "final", "finalDrain", "finalSync", "done"}
Item == Nodes \X Nat

LearnTypes ==
  /\ blocks \in [Nodes -> Seq(Nat)] /\ nodeAt \in [Nodes -> Places]
  /\ models \in [Nodes -> SUBSET Nat] /\ exampleCount \in Nat
  /\ sending \in [Callers -> Seq(Item)]
  /\ syncActions \in Seq(SaveIds \union FlushIds) /\ running \in Seq(SaveIds \union FlushIds)
  /\ listCompleted \in BOOLEAN /\ completing \in BOOLEAN

(* No number is beyond the examples posted.                                *)
Numbered ==
  /\ \A n \in Nodes : models[n] \subseteq 1 .. exampleCount
  /\ \A n \in Nodes : \A i \in DOMAIN blocks[n] : blocks[n][i] <= exampleCount
  /\ \A c \in Callers : \A i \in DOMAIN sending[c] : sending[c][i][2] <= exampleCount

(* Every example is on its way to a node or learned.                       *)
InSending(e) == \E c \in Callers : \E i \in DOMAIN sending[c] : sending[c][i][2] = e
InBlocks(e) == \E n \in Nodes : \E i \in DOMAIN blocks[n] : blocks[n][i] = e
InModels(e) == \E n \in Nodes : e \in models[n]
NoneLost == \A e \in 1 .. exampleCount : InSending(e) \/ InBlocks(e) \/ InModels(e)

(* Where the nodes are after Complete.                                     *)
Closed(n) == nodeAt[n] \in {"final", "finalDrain", "finalSync", "done"}
Ended(n) == nodeAt[n] \in {"finalDrain", "finalSync", "done"}
Closing ==
  /\ completing => \A c \in Callers : sending[c] = << >>
  /\ \A n \in Nodes : Closed(n) => completing /\ blocks[n] = << >>
  /\ (\A n \in Nodes : Ended(n)) => \A n \in Nodes : models[n] = 1 .. exampleCount

(* The root: between an AllReduce and its next item it has a merged model  *)
(* and, unless it is the last one, the EndOfPass in its block.             *)
AtRoot ==
  /\ nodeAt[0] \in {"drain", "sync"} => blocks[0] # << >> /\ blocks[0][1] = EndOfPass
  /\ nodeAt[0] \notin {"run", "final"} => models[0] \in merges
  /\ running # << >> => nodeAt[0] \in {"sync", "finalSync"}
  /\ \A n \in Nodes : n # 0 => nodeAt[n] \in {"run", "final", "done"}

(* The calls of SaveModel and Flush are pending, being run, or done; none  *)
(* is left behind when the list is completed.                              *)
InSeq(s, x) == \E i \in DOMAIN s : s[i] = x
CallsKept ==
  /\ \A a \in called : InSeq(syncActions, a) \/ InSeq(running, a) \/ a \in tasksDone
  /\ listCompleted => syncActions = << >> /\ nodeAt[0] \in {"finalSync", "done"}
  /\ nodeAt[0] \in {"finalSync", "done"} => listCompleted /\ completing

LearnInv == LearnTypes /\ Numbered /\ NoneLost /\ Closing /\ AtRoot /\ CallsKept /\ SavedMerged

(* The root is a node.                                                     *)
LEMMA RootIsANode == 0 \in Nodes
BY LearningAssumption DEF Nodes

(* Before the first Post there is no example and no call.                  *)
LEMMA LearnStarts == LearnInit => LearnInv
<1> SUFFICES ASSUME LearnInit PROVE LearnInv OBVIOUS
<1>1. LearnTypes
  <2>1. << >> \in Seq(Nat) /\ << >> \in Seq(Item) /\ << >> \in Seq(SaveIds \union FlushIds) OBVIOUS
  <2>2. blocks \in [Nodes -> Seq(Nat)] /\ sending \in [Callers -> Seq(Item)] BY <2>1 DEF LearnInit
  <2>3. models \in [Nodes -> SUBSET Nat] /\ nodeAt \in [Nodes -> Places] BY DEF LearnInit, Places
  <2> QED BY <2>1, <2>2, <2>3 DEF LearnInit, LearnTypes
<1> QED
  BY <1>1, RootIsANode
  DEF LearnInit, LearnInv, Numbered, NoneLost, Closing, AtRoot, CallsKept, SavedMerged, Closed, Ended

(* With it, what is saved is merged and Complete has learned everything.   *)
LEMMA LearnInvIsSafe == LearnInv => SavedMerged /\ CompleteIsAll
<1> SUFFICES ASSUME LearnInv, AllDone
             PROVE  (\A n \in Nodes : models[n] = 1 .. exampleCount) /\ called \subseteq tasksDone
  BY DEF LearnInv, CompleteIsAll
<1>1. \A n \in Nodes : Ended(n) BY DEF AllDone, Ended
<1>2. nodeAt[0] = "done" BY RootIsANode DEF AllDone
<1>3. running = << >> /\ syncActions = << >> BY <1>2 DEF LearnInv, AtRoot, CallsKept
<1> QED BY <1>1, <1>3 DEF LearnInv, Closing, CallsKept, InSeq

-----------------------------------------------------------------------------
(* A posted example is on its way.                                         *)
LEMMA PostKeeps == \A c \in Callers : LearnInv /\ Post(c) => LearnInv'
<1> SUFFICES ASSUME NEW c \in Callers, LearnInv, Post(c) PROVE LearnInv' OBVIOUS
<1> USE DEF LearnInv
<1>1. PICK n \in Nodes :
       sending' = [sending EXCEPT ![c] =
         (IF exampleCount' % ExampleCountPerRun = 0 THEN SyncTargets ELSE <<>>)
           \o << <<n, exampleCount'>> >>]
  BY DEF Post
<1> DEFINE e == exampleCount + 1
           targets == IF exampleCount' % ExampleCountPerRun = 0 THEN SyncTargets ELSE <<>>
<1>2. /\ exampleCount' = e /\ exampleCount \in Nat /\ e \in Nat /\ sending[c] = << >> /\ ~completing
      /\ UNCHANGED <<blocks, nodeAt, models, syncActions, listCompleted, running, tasksDone,
                     called, saved, merges, completing>>
  BY DEF Post, LearnTypes
<1>3. targets \in Seq(Item) /\ \A i \in DOMAIN targets : targets[i][2] = 0
  <2>1. SyncTargets \in Seq(Item) /\ \A i \in DOMAIN SyncTargets : SyncTargets[i][2] = 0
    BY LearningAssumption DEF SyncTargets, Item, Nodes, EndOfPass
  <2> QED BY <2>1
<1>4. <<n, e>> \in Item BY <1>2 DEF Item
<1> DEFINE new == targets \o << <<n, e>> >>
<1> HIDE DEF targets
<1>5. /\ new \in Seq(Item) /\ Len(targets) + 1 \in DOMAIN new /\ new[Len(targets) + 1] = <<n, e>>
      /\ \A i \in DOMAIN new : i = Len(targets) + 1 \/ (i \in DOMAIN targets /\ new[i] = targets[i])
  BY <1>3, <1>4
<1>6. sending' = [sending EXCEPT ![c] = new] BY <1>1, <1>2 DEF targets
<1> HIDE DEF new
<1>7. /\ sending' \in [Callers -> Seq(Item)] /\ sending'[c] = new
      /\ \A d \in Callers : d # c => sending'[d] = sending[d]
  BY <1>5, <1>6 DEF LearnTypes
<1>8. LearnTypes' BY <1>2, <1>7 DEF LearnTypes
<1>9. Numbered'
  <2>1. ASSUME NEW d \in Callers, NEW i \in DOMAIN sending'[d] PROVE sending'[d][i][2] <= e
    <3>1. CASE d = c
      <4>1. new[i][2] = e \/ new[i][2] = 0 BY <1>3, <1>5, <1>7, <2>1, <3>1
      <4> QED BY <1>2, <1>7, <3>1, <4>1
    <3>2. CASE d # c
      <4>1. sending[d][i][2] <= exampleCount /\ sending[d][i] \in Item
        BY <1>7, <2>1, <3>2 DEF Numbered, LearnTypes
      <4> QED BY <1>2, <1>7, <3>2, <4>1 DEF Item
    <3> QED BY <3>1, <3>2
  <2>2. \A m \in Nodes : models[m] \subseteq 1 .. e BY <1>2 DEF Numbered
  <2>3. ASSUME NEW m \in Nodes, NEW i \in DOMAIN blocks[m] PROVE blocks[m][i] <= e
    <3>1. blocks[m] \in Seq(Nat) BY DEF LearnTypes
    <3>2. blocks[m][i] \in Nat BY <3>1, <2>3
    <3> QED BY <1>2, <2>3, <3>2 DEF Numbered
  <2> QED BY <1>2, <2>1, <2>2, <2>3 DEF Numbered
<1>10. NoneLost'
  <2> SUFFICES ASSUME NEW x \in 1 .. e PROVE InSending(x)' \/ InBlocks(x)' \/ InModels(x)'
    BY <1>2 DEF NoneLost
  <2>1. CASE x = e BY <1>4, <1>5, <1>7, <2>1 DEF InSending
  <2>2. CASE x # e
    <3>1. InSending(x) \/ InBlocks(x) \/ InModels(x) BY <1>2, <2>2 DEF NoneLost
    <3>2. InSending(x) => InSending(x)' BY <1>2, <1>7 DEF InSending
    <3> QED BY <1>2, <3>1, <3>2 DEF InBlocks, InModels
  <2> QED BY <2>1, <2>2
<1>11. Closing'
  <2>1. \A m \in Nodes : ~Closed(m) BY <1>2 DEF Closing
  <2>2. ~Ended(0) BY <2>1, RootIsANode DEF Closed, Ended
  <2> QED BY <1>2, <2>1, <2>2, RootIsANode DEF Closing, Closed, Ended
<1>12. AtRoot' /\ CallsKept' /\ SavedMerged' BY <1>2 DEF AtRoot, CallsKept, SavedMerged, InSeq
<1> QED BY <1>8, <1>9, <1>10, <1>11, <1>12

(* An item goes from the caller to the block of its node.                  *)
LEMMA OnNextKeeps == \A c \in Callers : LearnInv /\ OnNext(c) => LearnInv'
<1> SUFFICES ASSUME NEW c \in Callers, LearnInv, OnNext(c) PROVE LearnInv' OBVIOUS
<1> USE DEF LearnInv
<1> DEFINE n == Head(sending[c])[1]
           x == Head(sending[c])[2]
<1>1. /\ sending[c] \in Seq(Item) /\ sending[c] # << >>
      /\ blocks' = [blocks EXCEPT ![n] = Append(@, x)]
      /\ sending' = [sending EXCEPT ![c] = Tail(@)]
      /\ UNCHANGED <<nodeAt, models, exampleCount, syncActions, listCompleted, running, tasksDone,
                     called, saved, merges, completing>>
  BY DEF OnNext, LearnTypes
<1>2. n \in Nodes /\ x \in Nat /\ sending[c][1] = <<n, x>> /\ 1 \in DOMAIN sending[c]
  BY <1>1 DEF Item
<1> HIDE DEF n, x
<1>3. ~completing BY <1>1 DEF Closing
<1>4. /\ blocks[n] \in Seq(Nat) /\ blocks' \in [Nodes -> Seq(Nat)]
      /\ blocks'[n] = Append(blocks[n], x) /\ \A m \in Nodes : m # n => blocks'[m] = blocks[m]
  BY <1>1, <1>2, AppendProperties DEF LearnTypes
<1>5. /\ Len(blocks[n]) \in Nat
      /\ \A i \in DOMAIN blocks[n] : i \in DOMAIN blocks'[n] /\ blocks'[n][i] = blocks[n][i]
      /\ Len(blocks[n]) + 1 \in DOMAIN blocks'[n] /\ blocks'[n][Len(blocks[n]) + 1] = x
      /\ \A i \in DOMAIN blocks'[n] : i = Len(blocks[n]) + 1 \/ i \in DOMAIN blocks[n]
  <2>1. /\ Len(blocks[n]) \in Nat /\ DOMAIN blocks[n] = 1 .. Len(blocks[n])
        /\ DOMAIN blocks'[n] = 1 .. Len(blocks[n]) + 1
    BY <1>2, <1>4, AppendProperties, LenProperties
  <2>2. /\ blocks'[n][Len(blocks[n]) + 1] = x
        /\ \A i \in 1 .. Len(blocks[n]) : blocks'[n][i] = blocks[n][i]
    BY <1>2, <1>4, AppendProperties
  <2> QED BY <2>1, <2>2
<1>6. /\ sending' \in [Callers -> Seq(Item)]
      /\ \A d \in Callers : d # c => sending'[d] = sending[d]
      /\ \A i \in DOMAIN sending[c] : i # 1 => i - 1 \in DOMAIN sending'[c] /\ sending'[c][i - 1] = sending[c][i]
      /\ \A i \in DOMAIN sending'[c] : i + 1 \in DOMAIN sending[c] /\ sending'[c][i] = sending[c][i + 1]
  <2>1. Tail(sending[c]) \in Seq(Item) BY <1>1
  <2>2. /\ sending' \in [Callers -> Seq(Item)] /\ sending'[c] = Tail(sending[c])
        /\ \A d \in Callers : d # c => sending'[d] = sending[d]
    BY <1>1, <2>1 DEF LearnTypes
  <2> QED BY <1>1, <2>2
<1>7. LearnTypes' BY <1>1, <1>4, <1>6 DEF LearnTypes
<1>8. Numbered'
  <2>1. x <= exampleCount BY <1>2 DEF Numbered
  <2>2. \A m \in Nodes : \A i \in DOMAIN blocks'[m] : blocks'[m][i] <= exampleCount
    BY <1>4, <1>5, <2>1 DEF Numbered
  <2>3. \A d \in Callers : \A i \in DOMAIN sending'[d] : sending'[d][i][2] <= exampleCount
    BY <1>6 DEF Numbered
  <2> QED BY <1>1, <2>2, <2>3 DEF Numbered
<1>9. NoneLost'
  <2> SUFFICES ASSUME NEW y \in 1 .. exampleCount PROVE InSending(y)' \/ InBlocks(y)' \/ InModels(y)'
    BY <1>1 DEF NoneLost
  <2>1. InSending(y) => InSending(y)' \/ y = x
    <3> SUFFICES ASSUME NEW d \in Callers, NEW i \in DOMAIN sending[d], sending[d][i][2] = y, y # x
                 PROVE InSending(y)'
      BY DEF InSending
    <3>1. CASE d # c BY <1>6, <3>1 DEF InSending
    <3>2. CASE d = c
      <4>1. i # 1 BY <1>2, <3>2
      <4> QED BY <1>6, <3>2, <4>1 DEF InSending
    <3> QED BY <3>1, <3>2
  <2>2. y = x => InBlocks(y)' BY <1>2, <1>5 DEF InBlocks
  <2>3. InBlocks(y) => InBlocks(y)'
    <3> SUFFICES ASSUME NEW m \in Nodes, NEW i \in DOMAIN blocks[m], blocks[m][i] = y PROVE InBlocks(y)'
      BY DEF InBlocks
    <3>1. i \in DOMAIN blocks'[m] /\ blocks'[m][i] = y BY <1>4, <1>5
    <3> QED BY <3>1 DEF InBlocks
  <2>4. InModels(y) => InModels(y)' BY <1>1 DEF InModels
  <2> QED BY <2>1, <2>2, <2>3, <2>4 DEF NoneLost
<1>10. Closing'
  <2>1. \A m \in Nodes : ~Closed(m) BY <1>3 DEF Closing
  <2> QED BY <1>1, <1>3, <2>1, RootIsANode DEF Closing, Closed, Ended
<1>11. AtRoot'
  <2>1. blocks[0] # << >> /\ blocks[0][1] = EndOfPass => blocks'[0] # << >> /\ blocks'[0][1] = EndOfPass
    <3> SUFFICES ASSUME blocks[0] # << >>, blocks[0][1] = EndOfPass, n = 0
                 PROVE  blocks'[0] # << >> /\ blocks'[0][1] = EndOfPass
      BY <1>4, RootIsANode
    <3>1. 1 \in DOMAIN blocks[0] BY <1>4
    <3>2. 1 \in DOMAIN blocks'[0] /\ blocks'[0][1] = EndOfPass BY <1>5, <3>1
    <3> QED BY <3>2
  <2> QED BY <1>1, <2>1 DEF AtRoot
<1>12. CallsKept' /\ SavedMerged' BY <1>1 DEF CallsKept, SavedMerged, InSeq
<1> QED BY <1>7, <1>8, <1>9, <1>10, <1>11, <1>12

(* Appending an action to the list keeps the others.                       *)
LEMMA AppendedActions ==
  ASSUME NEW S, NEW s \in Seq(S), NEW a \in S
  PROVE  /\ Append(s, a) \in Seq(S) /\ InSeq(Append(s, a), a)
         /\ \A x : InSeq(s, x) => InSeq(Append(s, a), x)
<1>1. /\ Append(s, a) \in Seq(S) /\ Len(s) \in Nat /\ DOMAIN s = 1 .. Len(s)
      /\ DOMAIN Append(s, a) = 1 .. Len(s) + 1 /\ Append(s, a)[Len(s) + 1] = a
      /\ \A i \in 1 .. Len(s) : Append(s, a)[i] = s[i]
  BY AppendProperties
<1> QED BY <1>1 DEF InSeq

(* Flush adds its action to the list before it sends EndOfPass.            *)
LEMMA FlushKeeps == \A c \in Callers, f \in FlushIds : LearnInv /\ Flush(c, f) => LearnInv'
<1> SUFFICES ASSUME NEW c \in Callers, NEW f \in FlushIds, LearnInv, Flush(c, f) PROVE LearnInv' OBVIOUS
<1> USE DEF LearnInv
<1>1. /\ ~completing /\ sending[c] = << >> /\ called' = called \cup {f}
      /\ syncActions' = Append(syncActions, f)
      /\ sending' = [sending EXCEPT ![c] = SyncTargets]
      /\ UNCHANGED <<blocks, nodeAt, models, exampleCount, listCompleted, running, tasksDone,
                     saved, merges, completing>>
  BY DEF Flush
<1>2. SyncTargets \in Seq(Item) /\ \A i \in DOMAIN SyncTargets : SyncTargets[i][2] = 0
  BY LearningAssumption DEF SyncTargets, Item, Nodes, EndOfPass
<1>3. /\ sending' \in [Callers -> Seq(Item)] /\ sending'[c] = SyncTargets
      /\ \A d \in Callers : d # c => sending'[d] = sending[d]
  BY <1>1, <1>2 DEF LearnTypes
<1>4. /\ syncActions' \in Seq(SaveIds \union FlushIds) /\ InSeq(syncActions', f)
      /\ \A x : InSeq(syncActions, x) => InSeq(syncActions', x)
  BY <1>1, AppendedActions DEF LearnTypes
<1>5. LearnTypes' BY <1>1, <1>3, <1>4 DEF LearnTypes
<1>6. Numbered'
  <2>1. ASSUME NEW d \in Callers, NEW i \in DOMAIN sending'[d] PROVE sending'[d][i][2] <= exampleCount
    <3>1. exampleCount \in Nat BY DEF LearnTypes
    <3>2. CASE d = c
      <4>1. sending'[d][i][2] = 0 BY <1>2, <1>3, <2>1, <3>2
      <4> QED BY <3>1, <4>1
    <3>3. CASE d # c BY <1>3, <2>1, <3>3 DEF Numbered
    <3> QED BY <3>2, <3>3
  <2> QED BY <1>1, <2>1 DEF Numbered
<1>7. NoneLost'
  <2>1. \A y : InSending(y) => InSending(y)' BY <1>1, <1>3 DEF InSending
  <2> QED BY <1>1, <2>1 DEF NoneLost, InBlocks, InModels
<1>8. Closing'
  <2>1. \A m \in Nodes : ~Closed(m) BY <1>1 DEF Closing
  <2> QED BY <1>1, <2>1, RootIsANode DEF Closing, Closed, Ended
<1>9. AtRoot' /\ SavedMerged' BY <1>1 DEF AtRoot, SavedMerged
<1>10. CallsKept'
  <2>1. ~listCompleted BY <1>1 DEF CallsKept
  <2>2. \A a \in called' : InSeq(syncActions', a) \/ InSeq(running, a) \/ a \in tasksDone
    BY <1>1, <1>4 DEF CallsKept
  <2> QED BY <1>1, <2>1, <2>2 DEF CallsKept, InSeq
<1> QED BY <1>5, <1>6, <1>7, <1>8, <1>9, <1>10

(* SaveModel saves itself only what the last AllReduce has made.           *)
LEMMA SaveModelKeeps == \A c \in Callers, s \in SaveIds : LearnInv /\ SaveModel(c, s) => LearnInv'
<1> SUFFICES ASSUME NEW c \in Callers, NEW s \in SaveIds, LearnInv, SaveModel(c, s) PROVE LearnInv' OBVIOUS
<1> USE DEF LearnInv
<1>1. /\ called' = called \cup {s}
      /\ UNCHANGED <<blocks, nodeAt, models, exampleCount, sending, listCompleted, running, merges, completing>>
  BY DEF SaveModel
<1>2. Numbered' /\ NoneLost' /\ Closing' /\ AtRoot'
  BY <1>1 DEF Numbered, NoneLost, Closing, AtRoot, InSending, InBlocks, InModels, Closed, Ended
<1>3. CASE SavesDirectly
  <2>1. saved' = saved \cup {models[0]} /\ tasksDone' = tasksDone \cup {s} /\ syncActions' = syncActions
    BY <1>3 DEF SaveModel
  <2>2. nodeAt[0] \in {"finalSync", "done"}
    BY <1>3, RootIsANode DEF SavesDirectly, AllDone, CallsKept
  <2>3. models[0] \in merges BY <2>2 DEF AtRoot
  <2>4. LearnTypes' /\ SavedMerged' BY <1>1, <2>1, <2>3 DEF LearnTypes, SavedMerged
  <2>5. CallsKept' BY <1>1, <2>1 DEF CallsKept, InSeq
  <2> QED BY <1>2, <2>4, <2>5
<1>4. CASE ~SavesDirectly
  <2>1. saved' = saved /\ tasksDone' = tasksDone /\ syncActions' = Append(syncActions, s) /\ ~listCompleted
    BY <1>4 DEF SaveModel, SavesDirectly
  <2>2. /\ syncActions' \in Seq(SaveIds \union FlushIds) /\ InSeq(syncActions', s)
        /\ \A x : InSeq(syncActions, x) => InSeq(syncActions', x)
    BY <2>1, AppendedActions DEF LearnTypes
  <2>3. LearnTypes' /\ SavedMerged' BY <1>1, <2>1, <2>2 DEF LearnTypes, SavedMerged
  <2>4. \A a \in called' : InSeq(syncActions', a) \/ InSeq(running, a) \/ a \in tasksDone
    BY <1>1, <2>2 DEF CallsKept
  <2>5. CallsKept' BY <1>1, <2>1, <2>4 DEF CallsKept, InSeq
  <2> QED BY <1>2, <2>3, <2>5
<1> QED BY <1>3, <1>4

(* Complete is called when no item is on its way to a block.               *)
LEMMA CompleteKeeps == LearnInv /\ Complete => LearnInv'
<1> SUFFICES ASSUME LearnInv, Complete PROVE LearnInv' OBVIOUS
<1> USE DEF LearnInv, Complete
<1>1. LearnTypes' BY DEF LearnTypes
<1>2. Numbered' /\ NoneLost' /\ AtRoot' /\ CallsKept' /\ SavedMerged'
  BY DEF Numbered, NoneLost, AtRoot, CallsKept, SavedMerged, InSending, InBlocks, InModels, InSeq
<1>3. Closing' BY DEF Closing, Closed, Ended
<1> QED BY <1>1, <1>2, <1>3

-----------------------------------------------------------------------------
(* What an item leaves behind when it is taken out of its block.           *)
LEMMA ItemTaken ==
  ASSUME NEW s \in Seq(Nat), s # << >>
  PROVE  /\ Tail(s) \in Seq(Nat) /\ 1 \in DOMAIN s /\ Head(s) = s[1] /\ s[1] \in Nat
         /\ \A i \in DOMAIN Tail(s) : i + 1 \in DOMAIN s /\ Tail(s)[i] = s[i + 1]
         /\ \A i \in DOMAIN s : i # 1 => i - 1 \in DOMAIN Tail(s) /\ Tail(s)[i - 1] = s[i]
OBVIOUS

(* An example goes from the block into the model.                          *)
LEMMA LearnKeeps == \A n \in Nodes : LearnInv /\ Learn(n) => LearnInv'
<1> SUFFICES ASSUME NEW n \in Nodes, LearnInv, Learn(n) PROVE LearnInv' OBVIOUS
<1> USE DEF LearnInv
<1> DEFINE s == blocks[n]
<1>1. /\ nodeAt[n] = "run" /\ s # << >> /\ Head(s) # 0
      /\ models' = [models EXCEPT ![n] = @ \cup {Head(s)}]
      /\ blocks' = [blocks EXCEPT ![n] = Tail(@)]
      /\ UNCHANGED <<nodeAt, exampleCount, sending, syncActions, listCompleted, running, tasksDone,
                     called, saved, merges, completing>>
      /\ s \in Seq(Nat)
  BY DEF Learn, LearnTypes, EndOfPass
<1>2. /\ Tail(s) \in Seq(Nat) /\ 1 \in DOMAIN s /\ Head(s) = s[1] /\ s[1] \in Nat
      /\ \A i \in DOMAIN Tail(s) : i + 1 \in DOMAIN s /\ Tail(s)[i] = s[i + 1]
      /\ \A i \in DOMAIN s : i # 1 => i - 1 \in DOMAIN Tail(s) /\ Tail(s)[i - 1] = s[i]
  BY <1>1, ItemTaken
<1>3. /\ blocks' \in [Nodes -> Seq(Nat)] /\ blocks'[n] = Tail(s)
      /\ \A m \in Nodes : m # n => blocks'[m] = blocks[m]
  BY <1>1, <1>2 DEF LearnTypes
<1>4. /\ models' \in [Nodes -> SUBSET Nat] /\ models'[n] = models[n] \cup {s[1]}
      /\ \A m \in Nodes : m # n => models'[m] = models[m]
  BY <1>1, <1>2 DEF LearnTypes
<1>5. s[1] \in 1 .. exampleCount BY <1>1, <1>2 DEF Numbered, LearnTypes
<1>6. LearnTypes' BY <1>1, <1>3, <1>4 DEF LearnTypes
<1>7. Numbered'
  <2>1. \A m \in Nodes : models'[m] \subseteq 1 .. exampleCount BY <1>4, <1>5 DEF Numbered
  <2>2. ASSUME NEW m \in Nodes, NEW i \in DOMAIN blocks'[m] PROVE blocks'[m][i] <= exampleCount
    <3>1. CASE m = n
      <4>1. i + 1 \in DOMAIN s /\ blocks'[m][i] = s[i + 1] BY <1>2, <1>3, <2>2, <3>1
      <4> QED BY <4>1 DEF Numbered
    <3>2. CASE m # n BY <1>3, <2>2, <3>2 DEF Numbered
    <3> QED BY <3>1, <3>2
  <2> QED BY <1>1, <2>1, <2>2 DEF Numbered
<1>8. NoneLost'
  <2> SUFFICES ASSUME NEW y \in 1 .. exampleCount PROVE InSending(y)' \/ InBlocks(y)' \/ InModels(y)'
    BY <1>1 DEF NoneLost
  <2>1. InModels(y) => InModels(y)' BY <1>4 DEF InModels
  <2>2. InBlocks(y) => InBlocks(y)' \/ InModels(y)'
    <3> SUFFICES ASSUME NEW m \in Nodes, NEW i \in DOMAIN blocks[m], blocks[m][i] = y
                 PROVE InBlocks(y)' \/ InModels(y)'
      BY DEF InBlocks
    <3>1. CASE m # n BY <1>3, <3>1 DEF InBlocks
    <3>2. CASE m = n /\ i = 1 BY <1>4, <3>2 DEF InModels
    <3>3. CASE m = n /\ i # 1
      <4>1. i - 1 \in DOMAIN blocks'[n] /\ blocks'[n][i - 1] = y BY <1>2, <1>3, <3>3
      <4> QED BY <4>1 DEF InBlocks
    <3> QED BY <3>1, <3>2, <3>3
  <2>3. InSending(y) => InSending(y)' BY <1>1 DEF InSending
  <2> QED BY <2>1, <2>2, <2>3 DEF NoneLost
<1>9. ~Closed(n) /\ ~Ended(n) BY <1>1 DEF Closed, Ended
<1>10. Closing' BY <1>1, <1>3, <1>9 DEF Closing, Closed, Ended
<1>11. AtRoot'
  <2>1. CASE n = 0 BY <1>1, <2>1 DEF AtRoot
  <2>2. CASE n # 0 BY <1>1, <1>3, <1>4, <2>2, RootIsANode DEF AtRoot
  <2> QED BY <2>1, <2>2
<1>12. CallsKept' /\ SavedMerged' BY <1>1 DEF CallsKept, SavedMerged, InSeq
<1> QED BY <1>6, <1>7, <1>8, <1>10, <1>11, <1>12

(* A node is at its last EndOfPass with an empty block.                    *)
LEMMA BlockCompletesKeeps == \A n \in Nodes : LearnInv /\ BlockCompletes(n) => LearnInv'
<1> SUFFICES ASSUME NEW n \in Nodes, LearnInv, BlockCompletes(n) PROVE LearnInv' OBVIOUS
<1> USE DEF LearnInv
<1>1. /\ nodeAt[n] = "run" /\ completing /\ blocks[n] = << >>
      /\ nodeAt' \in [Nodes -> Places] /\ nodeAt'[n] = "final"
      /\ \A m \in Nodes : m # n => nodeAt'[m] = nodeAt[m]
      /\ UNCHANGED <<blocks, models, exampleCount, sending, syncActions, listCompleted, running,
                     tasksDone, called, saved, merges, completing>>
  BY DEF BlockCompletes, BlockEnds, LearnTypes, Places
<1>2. LearnTypes' BY <1>1 DEF LearnTypes
<1>3. Numbered' /\ NoneLost' /\ SavedMerged'
  BY <1>1 DEF Numbered, NoneLost, SavedMerged, InSending, InBlocks, InModels
<1>4. Closing'
  <2>1. ~Ended(n)' BY <1>1 DEF Ended
  <2> QED BY <1>1, <2>1 DEF Closing, Closed
<1>5. AtRoot' /\ CallsKept' BY <1>1, RootIsANode DEF AtRoot, CallsKept, InSeq
<1> QED BY <1>2, <1>3, <1>4, <1>5

(* AllReduce loses no example; when all nodes are at their last EndOfPass  *)
(* it makes every model complete.                                          *)
LEMMA AllReduceKeeps == LearnInv /\ AllReduce => LearnInv'
<1> SUFFICES ASSUME LearnInv, AllReduce PROVE LearnInv' OBVIOUS
<1> USE DEF LearnInv
<1> DEFINE merged == UNION {models[n] : n \in Nodes}
<1>1. /\ \A n \in Nodes : InEndOfPass(n)
      /\ models' = [n \in Nodes |-> merged] /\ merges' = merges \cup {merged}
      /\ nodeAt' = [n \in Nodes |-> IF n = 0
                                   THEN IF nodeAt[n] = "final" THEN "finalDrain" ELSE "drain"
                                   ELSE IF nodeAt[n] = "final" THEN "done" ELSE "run"]
      /\ blocks' = [n \in Nodes |-> IF n # 0 /\ nodeAt[n] = "run" THEN Tail(blocks[n]) ELSE blocks[n]]
      /\ UNCHANGED <<exampleCount, sending, syncActions, listCompleted, running, tasksDone, called,
                     saved, completing>>
  BY DEF AllReduce
<1>2. \A n \in Nodes : \/ nodeAt[n] = "final"
                       \/ nodeAt[n] = "run" /\ blocks[n] # << >> /\ Head(blocks[n]) = 0
  BY <1>1 DEF InEndOfPass, EndOfPass
<1>3. \A x : x \in merged <=> InModels(x) BY DEF InModels
<1> HIDE DEF merged
<1>4. \A n \in Nodes : models'[n] = merged BY <1>1
<1>5. merged \subseteq 1 .. exampleCount /\ merged \in SUBSET Nat
  BY <1>3 DEF InModels, Numbered, LearnTypes
<1>6. /\ nodeAt' \in [Nodes -> Places]
      /\ \A n \in Nodes : nodeAt[n] = "final" => nodeAt'[n] = IF n = 0 THEN "finalDrain" ELSE "done"
      /\ \A n \in Nodes : nodeAt[n] # "final" => nodeAt'[n] = IF n = 0 THEN "drain" ELSE "run"
  BY <1>1 DEF Places
<1>7. ASSUME NEW n \in Nodes
      PROVE  /\ blocks'[n] \in Seq(Nat)
             /\ \A i \in DOMAIN blocks'[n] : \E j \in DOMAIN blocks[n] : blocks'[n][i] = blocks[n][j]
             /\ \A j \in DOMAIN blocks[n] : blocks[n][j] # 0 => \E i \in DOMAIN blocks'[n] : blocks'[n][i] = blocks[n][j]
  <2>1. blocks[n] \in Seq(Nat) BY DEF LearnTypes
  <2>2. CASE n # 0 /\ nodeAt[n] = "run"
    <3>1. blocks'[n] = Tail(blocks[n]) /\ blocks[n] # << >> /\ Head(blocks[n]) = 0
      BY <1>1, <1>2, <2>2
    <3>2. /\ Tail(blocks[n]) \in Seq(Nat) /\ Head(blocks[n]) = blocks[n][1]
          /\ \A i \in DOMAIN Tail(blocks[n]) : i + 1 \in DOMAIN blocks[n] /\ Tail(blocks[n])[i] = blocks[n][i + 1]
          /\ \A i \in DOMAIN blocks[n] : i # 1 => i - 1 \in DOMAIN Tail(blocks[n]) /\ Tail(blocks[n])[i - 1] = blocks[n][i]
      BY <2>1, <3>1, ItemTaken
    <3> DEFINE t == Tail(blocks[n])
    <3>3. blocks'[n] = t BY <3>1
    <3> HIDE DEF t
    <3>4. \A i \in DOMAIN t : \E j \in DOMAIN blocks[n] : t[i] = blocks[n][j] BY <3>2 DEF t
    <3>5. ASSUME NEW j \in DOMAIN blocks[n], blocks[n][j] # 0 PROVE \E i \in DOMAIN t : t[i] = blocks[n][j]
      <4>1. j # 1 BY <3>1, <3>2, <3>5
      <4> QED BY <3>2, <4>1 DEF t
    <3>6. t \in Seq(Nat) BY <3>2 DEF t
    <3> QED BY <3>3, <3>4, <3>5, <3>6
  <2>3. CASE ~(n # 0 /\ nodeAt[n] = "run")
    <3>1. blocks'[n] = blocks[n] BY <1>1, <2>3
    <3> QED BY <2>1, <3>1
  <2> QED BY <2>2, <2>3
<1>8. LearnTypes'
  <2>1. blocks' \in [Nodes -> Seq(Nat)] BY <1>1, <1>7
  <2>2. models' \in [Nodes -> SUBSET Nat] BY <1>1, <1>5
  <2> QED BY <1>1, <1>6, <2>1, <2>2 DEF LearnTypes
<1>9. Numbered'
  <2>1. \A m \in Nodes : \A i \in DOMAIN blocks'[m] : blocks'[m][i] <= exampleCount
    BY <1>7 DEF Numbered
  <2> QED BY <1>1, <1>4, <1>5, <2>1 DEF Numbered
<1>10. NoneLost'
  <2> SUFFICES ASSUME NEW y \in 1 .. exampleCount PROVE InSending(y)' \/ InBlocks(y)' \/ InModels(y)'
    BY <1>1 DEF NoneLost
  <2>1. InModels(y) => InModels(y)' BY <1>3, <1>4, RootIsANode DEF InModels
  <2>2. InBlocks(y) => InBlocks(y)'
    <3> SUFFICES ASSUME NEW m \in Nodes, NEW j \in DOMAIN blocks[m], blocks[m][j] = y PROVE InBlocks(y)'
      BY DEF InBlocks
    <3>1. y # 0 BY DEF LearnTypes
    <3> QED BY <1>7, <3>1 DEF InBlocks
  <2>3. InSending(y) => InSending(y)' BY <1>1 DEF InSending
  <2> QED BY <2>1, <2>2, <2>3 DEF NoneLost
<1>11. Closing'
  <2>1. \A n \in Nodes : Closed(n)' => nodeAt[n] = "final" BY <1>2, <1>6 DEF Closed
  <2>2. \A n \in Nodes : nodeAt[n] = "final" => completing /\ blocks[n] = << >> /\ blocks'[n] = << >>
    BY <1>1 DEF Closing, Closed
  <2>3. ASSUME \A n \in Nodes : Ended(n)' PROVE merged = 1 .. exampleCount
    <3>1. \A n \in Nodes : nodeAt[n] = "final" BY <1>2, <1>6, <2>3 DEF Ended
    <3>2. completing BY <2>2, <3>1, RootIsANode
    <3>3. \A y : ~InSending(y) BY <3>2 DEF Closing, InSending
    <3>4. \A y : ~InBlocks(y) BY <2>2, <3>1 DEF InBlocks
    <3>5. \A y \in 1 .. exampleCount : y \in merged BY <1>3, <3>3, <3>4 DEF NoneLost
    <3> QED BY <1>5, <3>5
  <2>4. completing' => \A c \in Callers : sending'[c] = << >> BY <1>1 DEF Closing
  <2>5. \A n \in Nodes : Closed(n)' => completing' /\ blocks'[n] = << >> BY <1>1, <2>1, <2>2
  <2>6. (\A n \in Nodes : Ended(n)') => \A n \in Nodes : models'[n] = 1 .. exampleCount
    BY <1>4, <2>3
  <2> QED BY <1>1, <2>4, <2>5, <2>6 DEF Closing, Closed, Ended
<1>12. AtRoot'
  <2>1. nodeAt'[0] \in {"drain", "finalDrain"} BY <1>6, RootIsANode
  <2>2. models'[0] \in merges' BY <1>1, <1>4, RootIsANode
  <2>3. running = << >> BY <1>2, RootIsANode DEF AtRoot
  <2>4. nodeAt'[0] = "drain" => blocks'[0] # << >> /\ blocks'[0][1] = EndOfPass
    <3> SUFFICES ASSUME nodeAt'[0] = "drain" PROVE blocks'[0] # << >> /\ blocks'[0][1] = EndOfPass OBVIOUS
    <3>1. nodeAt[0] # "final" BY <1>6, RootIsANode
    <3>2. blocks[0] # << >> /\ Head(blocks[0]) = 0 /\ blocks'[0] = blocks[0]
      BY <1>1, <1>2, <3>1, RootIsANode
    <3>3. blocks[0] \in Seq(Nat) BY RootIsANode DEF LearnTypes
    <3> QED BY <3>2, <3>3, ItemTaken DEF EndOfPass
  <2>5. \A n \in Nodes : n # 0 => nodeAt'[n] \in {"run", "final", "done"} BY <1>6
  <2> QED BY <1>1, <2>1, <2>2, <2>3, <2>4, <2>5 DEF AtRoot
<1>13. CallsKept' /\ SavedMerged'
  <2>1. ~listCompleted BY <1>2, RootIsANode DEF CallsKept
  <2>2. nodeAt'[0] \notin {"finalSync", "done"} BY <1>6, RootIsANode
  <2> QED BY <1>1, <2>1, <2>2 DEF CallsKept, SavedMerged, InSeq
<1> QED BY <1>8, <1>9, <1>10, <1>11, <1>12, <1>13

(* The root takes all actions, the last time after the last AllReduce.     *)
LEMMA RemoveAllKeeps == LearnInv /\ RemoveAll => LearnInv'
<1> SUFFICES ASSUME LearnInv, RemoveAll PROVE LearnInv' OBVIOUS
<1> USE DEF LearnInv
<1>1. /\ nodeAt[0] \in {"drain", "finalDrain"} /\ running' = syncActions /\ syncActions' = << >>
      /\ listCompleted' = (listCompleted \/ nodeAt[0] = "finalDrain")
      /\ nodeAt' \in [Nodes -> Places]
      /\ nodeAt'[0] = IF nodeAt[0] = "drain" THEN "sync" ELSE "finalSync"
      /\ \A m \in Nodes : m # 0 => nodeAt'[m] = nodeAt[m]
      /\ UNCHANGED <<blocks, models, exampleCount, sending, tasksDone, called, saved, merges, completing>>
  BY RootIsANode DEF RemoveAll, Marked, LearnTypes, Places
<1>2. LearnTypes' BY <1>1 DEF LearnTypes
<1>3. Numbered' /\ NoneLost' /\ SavedMerged'
  BY <1>1 DEF Numbered, NoneLost, SavedMerged, InSending, InBlocks, InModels
<1>4. \A m \in Nodes : (Closed(m)' <=> Closed(m)) /\ (Ended(m)' <=> Ended(m))
  BY <1>1 DEF Closed, Ended
<1>5. Closing'
  <2>1. \A m \in Nodes : Closed(m)' => completing' /\ blocks'[m] = << >> BY <1>1, <1>4 DEF Closing
  <2>2. (\A m \in Nodes : Ended(m)') => \A m \in Nodes : models'[m] = 1 .. exampleCount'
    BY <1>1, <1>4 DEF Closing
  <2> QED BY <1>1, <2>1, <2>2 DEF Closing
<1>6. AtRoot' BY <1>1 DEF AtRoot
<1>7. CallsKept'
  <2>1. running = << >> BY <1>1 DEF AtRoot
  <2>2. ~listCompleted BY <1>1 DEF CallsKept
  <2>3. nodeAt[0] = "finalDrain" => completing BY RootIsANode DEF Closing, Closed
  <2>4. \A a \in called : InSeq(running', a) \/ a \in tasksDone BY <1>1, <2>1 DEF CallsKept, InSeq
  <2> QED BY <1>1, <2>2, <2>3, <2>4 DEF CallsKept
<1> QED BY <1>2, <1>3, <1>5, <1>6, <1>7

(* An action runs between an AllReduce and the next item of the root, so   *)
(* what it saves is merged.                                                *)
LEMMA RunSyncActionKeeps == LearnInv /\ RunSyncAction => LearnInv'
<1> SUFFICES ASSUME LearnInv, RunSyncAction PROVE LearnInv' OBVIOUS
<1> USE DEF LearnInv
<1>1. /\ nodeAt[0] \in {"sync", "finalSync"} /\ running # << >>
      /\ running' = Tail(running) /\ tasksDone' = tasksDone \cup {Head(running)}
      /\ saved' = saved \/ saved' = saved \cup {models[0]}
      /\ UNCHANGED <<blocks, nodeAt, models, exampleCount, sending, syncActions, listCompleted,
                     called, merges, completing>>
      /\ running \in Seq(SaveIds \union FlushIds)
  BY DEF RunSyncAction, LearnTypes
<1>2. /\ running' \in Seq(SaveIds \union FlushIds)
      /\ \A i \in DOMAIN running : i # 1 => i - 1 \in DOMAIN running' /\ running'[i - 1] = running[i]
      /\ Head(running) = running[1]
  BY <1>1
<1>3. LearnTypes' BY <1>1, <1>2 DEF LearnTypes
<1>4. Numbered' /\ NoneLost' /\ Closing' /\ AtRoot'
  BY <1>1 DEF Numbered, NoneLost, Closing, AtRoot, InSending, InBlocks, InModels, Closed, Ended
<1>5. models[0] \in merges BY <1>1 DEF AtRoot
<1>6. SavedMerged' BY <1>1, <1>5 DEF SavedMerged
<1>7. \A a : InSeq(running, a) => InSeq(running', a) \/ a = Head(running) BY <1>2 DEF InSeq
<1>8. CallsKept'
  <2>1. \A a \in called' : InSeq(syncActions', a) \/ InSeq(running', a) \/ a \in tasksDone'
    BY <1>1, <1>7 DEF CallsKept, InSeq
  <2> QED BY <1>1, <2>1 DEF CallsKept
<1> QED BY <1>3, <1>4, <1>6, <1>8

(* When its actions have run the root takes its next item, or is done.     *)
LEMMA SyncActionsRunKeeps == LearnInv /\ SyncActionsRun => LearnInv'
<1> SUFFICES ASSUME LearnInv, SyncActionsRun PROVE LearnInv' OBVIOUS
<1> USE DEF LearnInv
<1>1. /\ nodeAt[0] \in {"sync", "finalSync"} /\ running = << >>
      /\ UNCHANGED <<models, exampleCount, sending, syncActions, listCompleted, running, tasksDone,
                     called, saved, merges, completing>>
      /\ blocks[0] \in Seq(Nat)
  BY RootIsANode DEF SyncActionsRun, LearnTypes
<1>2. CASE nodeAt[0] = "sync"
  <2>1. /\ nodeAt' \in [Nodes -> Places] /\ nodeAt'[0] = "run"
        /\ \A m \in Nodes : m # 0 => nodeAt'[m] = nodeAt[m]
        /\ blocks' = [blocks EXCEPT ![0] = Tail(@)]
    BY <1>2, RootIsANode DEF SyncActionsRun, LearnTypes, Places
  <2>2. blocks[0] # << >> /\ blocks[0][1] = 0 BY <1>2 DEF AtRoot, EndOfPass
  <2>3. /\ Tail(blocks[0]) \in Seq(Nat)
        /\ \A i \in DOMAIN Tail(blocks[0]) : i + 1 \in DOMAIN blocks[0] /\ Tail(blocks[0])[i] = blocks[0][i + 1]
        /\ \A i \in DOMAIN blocks[0] : i # 1 => i - 1 \in DOMAIN Tail(blocks[0]) /\ Tail(blocks[0])[i - 1] = blocks[0][i]
    BY <1>1, <2>2, ItemTaken
  <2>4. /\ blocks' \in [Nodes -> Seq(Nat)] /\ blocks'[0] = Tail(blocks[0])
        /\ \A m \in Nodes : m # 0 => blocks'[m] = blocks[m]
    BY <2>1, <2>3, RootIsANode DEF LearnTypes
  <2>5. LearnTypes' BY <1>1, <2>1, <2>4 DEF LearnTypes
  <2>6. Numbered'
    <3>1. ASSUME NEW m \in Nodes, NEW i \in DOMAIN blocks'[m] PROVE blocks'[m][i] <= exampleCount
      <4>1. CASE m = 0
        <5>1. i + 1 \in DOMAIN blocks[0] /\ blocks'[m][i] = blocks[0][i + 1]
          BY <2>3, <2>4, <3>1, <4>1
        <5> QED BY <5>1, RootIsANode DEF Numbered
      <4>2. CASE m # 0 BY <2>4, <3>1, <4>2 DEF Numbered
      <4> QED BY <4>1, <4>2
    <3> QED BY <1>1, <3>1 DEF Numbered
  <2>7. NoneLost'
    <3> SUFFICES ASSUME NEW y \in 1 .. exampleCount PROVE InSending(y)' \/ InBlocks(y)' \/ InModels(y)'
      BY <1>1 DEF NoneLost
    <3>1. InBlocks(y) => InBlocks(y)'
      <4> SUFFICES ASSUME NEW m \in Nodes, NEW j \in DOMAIN blocks[m], blocks[m][j] = y PROVE InBlocks(y)'
        BY DEF InBlocks
      <4>1. CASE m # 0 BY <2>4, <4>1 DEF InBlocks
      <4>2. CASE m = 0
        <5>1. j # 1 BY <2>2, <4>2
        <5>2. j - 1 \in DOMAIN blocks'[0] /\ blocks'[0][j - 1] = y BY <2>3, <2>4, <4>2, <5>1
        <5> QED BY <5>2, RootIsANode DEF InBlocks
      <4> QED BY <4>1, <4>2
    <3> QED BY <1>1, <3>1 DEF NoneLost, InSending, InModels
  <2>8. Closing'
    <3>1. ~Ended(0)' /\ ~Closed(0)' BY <2>1 DEF Ended, Closed
    <3> QED BY <1>1, <2>1, <2>4, <3>1, RootIsANode DEF Closing, Closed, Ended
  <2>9. AtRoot' BY <1>1, <2>1 DEF AtRoot
  <2>10. CallsKept' /\ SavedMerged'
    <3>1. ~listCompleted BY <1>2 DEF CallsKept
    <3> QED BY <1>1, <2>1, <3>1 DEF CallsKept, SavedMerged, InSeq
  <2> QED BY <2>5, <2>6, <2>7, <2>8, <2>9, <2>10
<1>3. CASE nodeAt[0] = "finalSync"
  <2>1. /\ nodeAt' \in [Nodes -> Places] /\ nodeAt'[0] = "done"
        /\ \A m \in Nodes : m # 0 => nodeAt'[m] = nodeAt[m]
        /\ blocks' = blocks
    BY <1>3, RootIsANode DEF SyncActionsRun, LearnTypes, Places
  <2>2. LearnTypes' BY <1>1, <2>1 DEF LearnTypes
  <2>3. Numbered' /\ NoneLost' /\ SavedMerged'
    BY <1>1, <2>1 DEF Numbered, NoneLost, SavedMerged, InSending, InBlocks, InModels
  <2>4. \A m \in Nodes : (Closed(m)' <=> Closed(m)) /\ (Ended(m)' <=> Ended(m))
    BY <1>3, <2>1 DEF Closed, Ended
  <2>5. Closing'
    <3>1. \A m \in Nodes : Closed(m)' => completing' /\ blocks'[m] = << >>
      BY <1>1, <2>1, <2>4 DEF Closing
    <3>2. (\A m \in Nodes : Ended(m)') => \A m \in Nodes : models'[m] = 1 .. exampleCount'
      BY <1>1, <2>4 DEF Closing
    <3> QED BY <1>1, <3>1, <3>2 DEF Closing
  <2>6. AtRoot' BY <1>1, <1>3, <2>1 DEF AtRoot
  <2>7. CallsKept' BY <1>1, <1>3, <2>1 DEF CallsKept, InSeq
  <2> QED BY <2>2, <2>3, <2>5, <2>6, <2>7
<1> QED BY <1>1, <1>2, <1>3

(* Every step of threaded learning keeps the invariant.                    *)
LEMMA LearnSteps == LearnInv /\ [LearnNext]_learnVars => LearnInv'
<1> SUFFICES ASSUME LearnInv, [LearnNext]_learnVars PROVE LearnInv' OBVIOUS
<1>1. CASE NodeStep
  BY <1>1, AllReduceKeeps, RemoveAllKeeps, RunSyncActionKeeps, SyncActionsRunKeeps, LearnKeeps,
     BlockCompletesKeeps DEF NodeStep
<1>2. CASE Complete BY <1>2, CompleteKeeps
<1>3. ASSUME NEW c \in Callers, \/ Post(c) \/ OnNext(c)
                                \/ \E f \in FlushIds : Flush(c, f)
                                \/ \E s \in SaveIds : SaveModel(c, s)
      PROVE LearnInv'
  BY <1>3, PostKeeps, OnNextKeeps, FlushKeeps, SaveModelKeeps
<1>4. CASE UNCHANGED learnVars
  <2> USE <1>4 DEF learnVars, LearnInv
  <2>1. LearnTypes' BY DEF LearnTypes
  <2>2. Numbered' /\ NoneLost' /\ Closing' /\ AtRoot' /\ CallsKept' /\ SavedMerged'
    BY DEF Numbered, NoneLost, Closing, AtRoot, CallsKept, SavedMerged, InSending, InBlocks, InModels, InSeq, Closed, Ended
  <2> QED BY <2>1, <2>2
<1> QED BY <1>1, <1>2, <1>3, <1>4 DEF LearnNext

-----------------------------------------------------------------------------
(* The pool of instances behind threaded prediction. The reference count   *)
(* of a model is the number of its instances in the pool, among those to   *)
(* be disposed of and in the hands of threads. Whoever goes on to finish a *)
(* model has seen the count at zero after the model was retired, and only  *)
(* instances that were being made at that time can be counted after it.    *)
Resting == {"idle", "empty"}
Counted == {"use", "outdated"}
Ending == {"release", "finish"}
Working == ThreadStates \ Resting

(* The values that the variables take.                                     *)
PoolTypes ==
  /\ version \in Versions /\ poolDisposed \in BOOLEAN
  /\ pool \in Seq(Versions)
  /\ source \in [Versions -> BOOLEAN] /\ live \in [Versions -> BOOLEAN]
  /\ refs \in [Versions -> Int] /\ freed \in [Versions -> Nat]
  /\ toDispose \in [Versions -> Nat] /\ retirer \in [Versions -> {"next"} \union Ending]
  /\ thread \in [Predictors -> ThreadStates] /\ holds \in [Predictors -> Versions \union {None}]
  /\ late \subseteq Predictors

(* What a thread holds: a version up to the current one, and a retired one *)
(* when it gives its instance up.                                          *)
HeldRight(t) ==
  /\ thread[t] \in Resting => holds[t] = None
  /\ thread[t] \in Working => holds[t] \in Versions /\ holds[t] <= version
  /\ thread[t] \in {"outdated"} \union Ending => Retired(holds[t])

(* The references to model v.                                              *)
InPool(v) == IF v = version THEN Len(pool) ELSE 0
Users(v) == {t \in Predictors : thread[t] \in Counted /\ holds[t] = v}
RefsCounted == \A v \in Versions : refs[v] = InPool(v) + InDisposal(v) + Cardinality(Users(v))

(* Somebody is on the way to finish model v.                               *)
Releasing(v) ==
  retirer[v] # "next" \/ \E t \in Predictors : thread[t] \in Ending /\ holds[t] = v

(* A model whose end has been decided is retired, and nothing refers to it *)
(* but what was counted late; as long as the end is not decided something  *)
(* refers to it or the retiring call has not come to it yet.               *)
EndDecided(v) ==
  /\ ~Retired(v) => toDispose[v] = 0
  /\ retirer[v] # "next" => toDispose[v] >= 1
  /\ Releasing(v) \/ ~live[v] => Retired(v) /\ InDisposal(v) = 0 /\ Users(v) \subseteq late
  /\ Retired(v) /\ toDispose[v] <= 1 /\ live[v] => refs[v] > 0 \/ Releasing(v)

(* How often model v is finished.                                          *)
FinishedRight(v) ==
  /\ live[v] <=> freed[v] = 0
  /\ v \notin busy => /\ freed[v] <= 1 /\ (retirer[v] = "finish" => live[v])
                      /\ Retired(v) => ~AtWork(v)

PoolInv ==
  /\ PoolTypes /\ PoolCurrent /\ (poolDisposed => pool = << >>)
  /\ RefsCounted
  /\ \A t \in Predictors : HeldRight(t)
  /\ \A v \in Versions : EndDecided(v) /\ FinishedRight(v)

-----------------------------------------------------------------------------
(* The users of a model are finitely many.                                 *)
LEMMA UsersFinite ==
  \A v : IsFiniteSet(Users(v)) /\ Cardinality(Users(v)) \in Nat
BY PoolAssumption, FS_Subset, FS_CardinalityType DEF Users

(* A thread gets an instance of model w.                                   *)
LEMMA UserJoins ==
  ASSUME NEW t \in Predictors, NEW w, thread[t] \notin Counted, thread'[t] \in Counted,
         holds'[t] = w,
         \A s \in Predictors \ {t} : thread'[s] = thread[s] /\ holds'[s] = holds[s]
  PROVE  \A v : Cardinality(Users(v)') =
                  IF v = w THEN Cardinality(Users(v)) + 1 ELSE Cardinality(Users(v))
<1> TAKE v
<1>1. CASE v = w
  <2>1. Users(v)' = Users(v) \union {t} /\ t \notin Users(v) BY <1>1 DEF Users
  <2> QED BY PoolAssumption, <1>1, <2>1, UsersFinite, FS_AddElement, ZenonT(60)
<1>2. CASE v # w
  <2>1. Users(v)' = Users(v) BY <1>2 DEF Users
  <2> QED BY <1>2, <2>1
<1> QED BY <1>1, <1>2

(* A thread gives its instance of model w away.                            *)
LEMMA UserLeaves ==
  ASSUME NEW t \in Predictors, NEW w, thread[t] \in Counted, thread'[t] \notin Counted,
         holds[t] = w,
         \A s \in Predictors \ {t} : thread'[s] = thread[s] /\ holds'[s] = holds[s]
  PROVE  \A v : Cardinality(Users(v)') =
                  IF v = w THEN Cardinality(Users(v)) - 1 ELSE Cardinality(Users(v))
<1> TAKE v
<1>1. CASE v = w
  <2>1. Users(v)' = Users(v) \ {t} /\ t \in Users(v) BY <1>1 DEF Users
  <2> QED BY <1>1, <2>1, UsersFinite, FS_RemoveElement, ZenonT(60)
<1>2. CASE v # w
  <2>1. Users(v)' = Users(v) BY <1>2 DEF Users
  <2> QED BY <1>2, <2>1
<1> QED BY <1>1, <1>2

(* The parts of a reference count; at zero nothing refers to the model.    *)
LEMMA CountsOf ==
  ASSUME PoolTypes, RefsCounted, NEW v \in Versions
  PROVE  /\ refs[v] = InPool(v) + InDisposal(v) + Cardinality(Users(v))
         /\ InPool(v) \in Nat /\ InDisposal(v) \in Nat /\ Cardinality(Users(v)) \in Nat
         /\ refs[v] \in Nat
         /\ refs[v] <= 0 => InDisposal(v) = 0 /\ Users(v) = {}
<1>1. InPool(v) \in Nat /\ InDisposal(v) \in Nat
  BY LenProperties DEF PoolTypes, InPool, InDisposal
<1>2. /\ refs[v] = InPool(v) + InDisposal(v) + Cardinality(Users(v))
      /\ Cardinality(Users(v)) \in Nat
  BY UsersFinite DEF RefsCounted
<1>3. refs[v] \in Nat /\ (refs[v] <= 0 => InDisposal(v) = 0 /\ Cardinality(Users(v)) = 0)
  BY ONLY <1>1, <1>2
<1>4. Cardinality(Users(v)) = 0 => Users(v) = {} BY UsersFinite, FS_EmptySet
<1> QED BY <1>1, <1>2, <1>3, <1>4

(* A user of a model is one of those that its count has.                   *)
LEMMA UserCounts ==
  ASSUME PoolTypes, RefsCounted, NEW t \in Predictors, thread[t] \in Counted,
         holds[t] \in Versions
  PROVE  refs[holds[t]] >= 1
<1>1. t \in Users(holds[t]) BY DEF Users
<1>2. Users(holds[t]) # {} BY <1>1
<1> QED BY <1>2, CountsOf

(* One thread takes a new state, with what it then holds.                  *)
LEMMA ThreadMoves ==
  ASSUME PoolTypes, NEW t \in Predictors, NEW st \in ThreadStates,
         NEW h \in Versions \union {None},
         thread' = [thread EXCEPT ![t] = st], holds' = [holds EXCEPT ![t] = h]
  PROVE  /\ thread' \in [Predictors -> ThreadStates]
         /\ holds' \in [Predictors -> Versions \union {None}]
         /\ thread'[t] = st /\ holds'[t] = h
         /\ \A s \in Predictors \ {t} : thread'[s] = thread[s] /\ holds'[s] = holds[s]
BY DEF PoolTypes

(* One entry of a function becomes one less.                               *)
LEMMA OneLess ==
  ASSUME NEW f \in [Versions -> Int], NEW w \in Versions, NEW g, g = [f EXCEPT ![w] = @ - 1]
  PROVE  /\ g \in [Versions -> Int] /\ g[w] = f[w] - 1 /\ f[w] \in Int
         /\ \A v \in Versions \ {w} : g[v] = f[v]
<1>1. f[w] \in Int /\ f[w] - 1 \in Int OBVIOUS
<1>2. g = [f EXCEPT ![w] = f[w] - 1] OBVIOUS
<1> QED BY <1>1, <1>2

(* A model is finished.                                                    *)
LEMMA ModelFinished ==
  ASSUME PoolTypes, NEW w \in Versions, live' = [live EXCEPT ![w] = FALSE],
         freed' = [freed EXCEPT ![w] = @ + 1]
  PROVE  /\ live' \in [Versions -> BOOLEAN] /\ freed' \in [Versions -> Nat]
         /\ ~live'[w] /\ freed'[w] = freed[w] + 1 /\ freed[w] \in Nat
         /\ \A v \in Versions \ {w} : live'[v] = live[v] /\ freed'[v] = freed[v]
<1>1. /\ live' \in [Versions -> BOOLEAN] /\ ~live'[w]
      /\ \A v \in Versions \ {w} : live'[v] = live[v]
  BY DEF PoolTypes
<1>2. /\ freed' \in [Versions -> Nat] /\ freed'[w] = freed[w] + 1 /\ freed[w] \in Nat
      /\ \A v \in Versions \ {w} : freed'[v] = freed[v]
  BY DEF PoolTypes
<1> QED BY <1>1, <1>2

-----------------------------------------------------------------------------
(* The pool starts with nobody at work and every model alive.              *)
LEMMA PoolStarts == PoolInit => PoolInv
<1> SUFFICES ASSUME PoolInit PROVE PoolInv OBVIOUS
<1> USE DEF PoolInit
<1>1. PoolTypes
  <2>1. 0 \in Versions BY PoolAssumption DEF Versions
  <2> QED BY <2>1 DEF PoolTypes, ThreadStates
<1>2. PoolCurrent /\ (poolDisposed => pool = << >>) BY DEF PoolCurrent
<1>3. \A v : Users(v) = {} BY DEF Users, Counted
<1>4. RefsCounted
  <2> SUFFICES ASSUME NEW v \in Versions
               PROVE  refs[v] = InPool(v) + InDisposal(v) + Cardinality(Users(v))
    BY DEF RefsCounted
  <2>1. Cardinality(Users(v)) = 0 BY <1>3, FS_EmptySet
  <2> QED BY <2>1 DEF InPool, InDisposal
<1>5. \A t \in Predictors : HeldRight(t)
  BY DEF HeldRight, Resting, Working, Ending
<1>6. \A v \in Versions : ~Retired(v) BY DEF Retired, Versions
<1>7. \A v \in Versions : ~Releasing(v) BY DEF Releasing, Ending
<1>8. \A v \in Versions : EndDecided(v) BY <1>6, <1>7 DEF EndDecided
<1>9. \A v \in Versions : FinishedRight(v) BY <1>6 DEF FinishedRight
<1> QED BY <1>1, <1>2, <1>4, <1>5, <1>8, <1>9 DEF PoolInv

(* What the invariant says is what a user of the pool relies on.           *)
LEMMA PoolInvIsSafe == PoolInv => PoolSafe
<1> SUFFICES ASSUME PoolInv PROVE PoolSafe OBVIOUS
<1> USE DEF PoolInv
<1>1. ModelAlive
  <2>1. ASSUME NEW t \in Predictors, thread[t] \in {"use", "outdated"}, t \notin late
        PROVE  live[holds[t]]
    <3>1. holds[t] \in Versions BY <2>1 DEF HeldRight, Working, Resting, ThreadStates
    <3>2. t \in Users(holds[t]) BY <2>1 DEF Users, Counted
    <3> QED BY <2>1, <3>1, <3>2 DEF EndDecided
  <2>2. ASSUME NEW i \in DOMAIN pool PROVE live[pool[i]]
    <3>1. pool[i] = version /\ version \in Versions BY <2>2 DEF PoolCurrent, PoolTypes
    <3>2. ~poolDisposed BY <2>2
    <3>3. ~Retired(version) BY <3>1, <3>2 DEF Retired, Versions
    <3> QED BY <3>1, <3>3 DEF EndDecided
  <2>3. ASSUME NEW v \in Versions, InDisposal(v) > 0 PROVE live[v] BY <2>3 DEF EndDecided
  <2> QED BY <2>1, <2>2, <2>3 DEF ModelAlive
<1>2. ModelsFreed
  <2>1. ASSUME NEW v \in Versions, Retired(v), toDispose[v] = 0, ~AtWork(v) PROVE freed[v] >= 1
    <3>1. Users(v) = {} BY <2>1 DEF Users, AtWork
    <3>2. Cardinality(Users(v)) = 0 BY <3>1, FS_EmptySet
    <3>3. InPool(v) = 0 /\ InDisposal(v) = 0
      BY <2>1, EmptySeq DEF InPool, InDisposal, Retired, PoolTypes, Versions
    <3>4. refs[v] = 0 BY <3>2, <3>3 DEF RefsCounted
    <3>5. CASE live[v]
      <4>1. Releasing(v) BY <2>1, <3>4, <3>5 DEF EndDecided
      <4>2. retirer[v] # "next" BY <2>1, <4>1 DEF Releasing, AtWork
      <4> QED BY <2>1, <4>2 DEF EndDecided
    <3>6. CASE ~live[v] BY <3>6 DEF FinishedRight, PoolTypes
    <3> QED BY <3>5, <3>6
  <2>2. ASSUME NEW v \in Versions, v \notin busy PROVE freed[v] <= 1 BY <2>2 DEF FinishedRight
  <2> QED BY <2>1, <2>2 DEF ModelsFreed
<1> QED BY <1>1, <1>2 DEF PoolSafe

-----------------------------------------------------------------------------
(* A step of a thread that neither counts nor gives up an instance and     *)
(* leaves pool and models alone: it goes to rest, or goes on with what it  *)
(* holds.                                                                  *)
LEMMA QuietStepKeeps ==
  ASSUME PoolInv, NEW t \in Predictors, NEW st \in ThreadStates,
         NEW h \in Versions \union {None},
         thread' = [thread EXCEPT ![t] = st], holds' = [holds EXCEPT ![t] = h],
         UNCHANGED <<retireVars, modelVars, pool, late>>,
         \/ /\ st \in Resting /\ h = None /\ thread[t] \notin Counted
            /\ thread[t] \in Ending => ~live[holds[t]]
         \/ /\ st \in Working /\ h = holds[t] /\ thread[t] \in Working
            /\ thread[t] \in Counted <=> st \in Counted
            /\ thread[t] \in Ending <=> st \in Ending
            /\ st = "outdated" => Retired(h)
  PROVE  PoolInv'
<1> USE DEF PoolInv, retireVars, modelVars
<1>0. /\ Resting \cap Working = {} /\ Resting \cap Counted = {} /\ Resting \cap Ending = {}
      /\ "outdated" \notin Resting
  BY DEF Resting, Working, Counted, Ending
<1>1. /\ thread' \in [Predictors -> ThreadStates]
      /\ holds' \in [Predictors -> Versions \union {None}]
      /\ thread'[t] = st /\ holds'[t] = h
      /\ \A s \in Predictors \ {t} : thread'[s] = thread[s] /\ holds'[s] = holds[s]
  BY ThreadMoves
<1>2. PoolTypes' BY <1>1 DEF PoolTypes
<1>3. PoolCurrent' /\ (poolDisposed => pool = << >>)' BY DEF PoolCurrent
<1>4. \A v : /\ Retired(v)' = Retired(v) /\ InDisposal(v)' = InDisposal(v)
             /\ InPool(v)' = InPool(v)
  BY DEF Retired, InDisposal, InPool
<1>5. \A v : Users(v)' = Users(v) BY <1>0, <1>1 DEF Users
<1>6. RefsCounted' BY <1>4, <1>5 DEF RefsCounted
<1>7. ASSUME NEW s \in Predictors PROVE HeldRight(s)'
  <2>1. HeldRight(s) /\ HeldRight(t) OBVIOUS
  <2>2. CASE s = t BY <1>0, <1>1, <1>4, <2>1, <2>2 DEF HeldRight
  <2>3. CASE s # t BY <1>1, <1>4, <2>1, <2>3 DEF HeldRight
  <2> QED BY <2>2, <2>3
<1>8. ASSUME NEW v \in Versions PROVE EndDecided(v)' /\ FinishedRight(v)'
  <2>1. EndDecided(v) /\ FinishedRight(v) OBVIOUS
  <2>2. Releasing(v)' => Releasing(v) BY <1>0, <1>1 DEF Releasing
  <2>3. live[v] /\ Releasing(v) => Releasing(v)' BY <1>0, <1>1 DEF Releasing
  <2>4. AtWork(v)' => AtWork(v)
    <3>1. None # v BY PoolAssumption DEF None, Versions
    <3> QED BY <1>1, <3>1 DEF AtWork
  <2>5. EndDecided(v)' BY <1>4, <1>5, <2>1, <2>2, <2>3 DEF EndDecided
  <2>6. FinishedRight(v)' BY <1>4, <2>1, <2>4 DEF FinishedRight
  <2> QED BY <2>5, <2>6
<1> QED BY <1>2, <1>3, <1>6, <1>7, <1>8

(* Reading the source, making an empty instance, seeding, returning an     *)
(* empty instance, and looking at the model after the last instance.       *)
LEMMA QuietKeeps ==
  ASSUME PoolInv, NEW t \in Predictors,
         \/ ReadSource(t) \/ CreateEmpty(t) \/ SeedModel(t) \/ ReturnEmpty(t) \/ ReleaseModel(t)
  PROVE  PoolInv'
<1>0. /\ holds[t] \in Versions \union {None} /\ holds = [holds EXCEPT ![t] = holds[t]]
      /\ HeldRight(t) /\ None \in Versions \union {None}
  BY DEF PoolInv, PoolTypes
<1> USE <1>0 DEF ThreadStates, Resting, Working, Counted, Ending
<1>1. CASE ReadSource(t) BY <1>1, QuietStepKeeps DEF ReadSource
<1>2. CASE CreateEmpty(t) BY <1>2, QuietStepKeeps DEF CreateEmpty
<1>3. CASE SeedModel(t) BY <1>3, QuietStepKeeps DEF SeedModel
<1>4. CASE ReturnEmpty(t)
  <2>1. holds[t] = None BY <1>4 DEF HeldRight, ReturnEmpty
  <2> QED BY <1>4, <2>1, QuietStepKeeps DEF ReturnEmpty
<1>5. CASE ReleaseModel(t)
  <2>1. CASE live[holds[t]] BY <1>5, <2>1, QuietStepKeeps DEF ReleaseModel
  <2>2. CASE ~live[holds[t]] BY <1>5, <2>2, QuietStepKeeps DEF ReleaseModel
  <2> QED BY <2>1, <2>2
<1> QED BY <1>1, <1>2, <1>3, <1>4, <1>5

(* A thread pops an instance, or takes version and factory to make one.    *)
LEMMA GetOrCreateKeeps ==
  ASSUME PoolInv, NEW t \in Predictors, GetOrCreate(t) PROVE PoolInv'
<1> USE DEF PoolInv, retireVars, modelVars
<1>0. /\ version \in Versions /\ version <= version /\ ~Retired(version) /\ ~poolDisposed
      /\ thread[t] = "idle" /\ holds[t] \in Versions \union {None}
      /\ UNCHANGED <<retireVars, modelVars, late>>
  BY DEF PoolTypes, Versions, Retired, GetOrCreate
<1>1. \A v : Retired(v)' = Retired(v) /\ InDisposal(v)' = InDisposal(v)
  BY <1>0 DEF Retired, InDisposal
<1>2. PICK st \in {"use", "create"} :
         /\ thread' = [thread EXCEPT ![t] = st] /\ holds' = [holds EXCEPT ![t] = version]
         /\ pool' \in Seq(Versions) /\ \A i \in DOMAIN pool' : pool'[i] = version
         /\ st = "use" => Len(pool') = Len(pool) - 1
         /\ st = "create" => Len(pool') = Len(pool)
  <2>1. CASE pool # << >>
    <3>1. /\ Head(pool) = version /\ Tail(pool) \in Seq(Versions)
          /\ Len(Tail(pool)) = Len(pool) - 1
          /\ \A i \in DOMAIN Tail(pool) : Tail(pool)[i] = version
      <4>1. pool \in Seq(Versions) BY DEF PoolTypes
      <4>2. Len(pool) \in Nat /\ DOMAIN pool = 1 .. Len(pool) /\ Len(pool) # 0
        BY <2>1, <4>1, LenProperties, EmptySeq
      <4>3. /\ Head(pool) = pool[1] /\ Tail(pool) \in Seq(Versions)
            /\ Len(Tail(pool)) = Len(pool) - 1
            /\ \A i \in 1 .. Len(Tail(pool)) : Tail(pool)[i] = pool[i + 1]
        BY ONLY <2>1, <4>1, HeadTailProperties
      <4>4. DOMAIN Tail(pool) = 1 .. Len(Tail(pool)) BY ONLY <4>3, LenProperties
      <4>5. \A i \in 1 .. Len(pool) : pool[i] = version BY <4>2 DEF PoolCurrent
      <4>6. 1 \in 1 .. Len(pool) BY ONLY <4>2
      <4>7. ASSUME NEW i \in 1 .. Len(Tail(pool)) PROVE i + 1 \in 1 .. Len(pool)
        BY ONLY i \in 1 .. Len(Tail(pool)), <4>2, <4>3
      <4> QED BY <4>3, <4>4, <4>5, <4>6, <4>7
    <3> QED BY <2>1, <3>1 DEF GetOrCreate
  <2>2. CASE pool = << >> BY <2>2 DEF GetOrCreate, PoolTypes, PoolCurrent
  <2> QED BY <2>1, <2>2
<1>3. st \in ThreadStates /\ st \in Working /\ st \notin Ending /\ st # "outdated"
      /\ (st = "use" <=> st \in Counted) /\ thread[t] \notin Counted /\ thread[t] \notin Ending
      /\ st \notin Resting
  BY <1>0, <1>2 DEF ThreadStates, Working, Resting, Ending, Counted
<1>4. /\ thread' \in [Predictors -> ThreadStates]
      /\ holds' \in [Predictors -> Versions \union {None}]
      /\ thread'[t] = st /\ holds'[t] = version
      /\ \A s \in Predictors \ {t} : thread'[s] = thread[s] /\ holds'[s] = holds[s]
  BY <1>0, <1>2, <1>3, ThreadMoves
<1>5. PoolTypes' BY <1>0, <1>2, <1>4 DEF PoolTypes
<1>6. PoolCurrent' /\ (poolDisposed => pool = << >>)' BY <1>0, <1>2 DEF PoolCurrent
<1>7. \A v : Cardinality(Users(v)') =
               IF v = version /\ st = "use" THEN Cardinality(Users(v)) + 1
                                            ELSE Cardinality(Users(v))
  <2>1. CASE st = "use" BY <1>3, <1>4, <2>1, UserJoins
  <2>2. CASE st # "use"
    <3>1. \A v : Users(v)' = Users(v) BY <1>3, <1>4, <2>2 DEF Users
    <3> QED BY <2>2, <3>1
  <2> QED BY <2>1, <2>2
<1>8. RefsCounted'
  <2> SUFFICES ASSUME NEW v \in Versions
               PROVE  refs[v] = InPool(v)' + InDisposal(v) + Cardinality(Users(v)')
    BY <1>0, <1>1 DEF RefsCounted
  <2>1. Len(pool) \in Nat BY LenProperties DEF PoolTypes
  <2>2. InPool(v) = IF v = version THEN Len(pool) ELSE 0 BY DEF InPool
  <2>3. InPool(v)' = IF v = version THEN Len(pool') ELSE 0 BY <1>0 DEF InPool
  <2>4. /\ refs[v] = InPool(v) + InDisposal(v) + Cardinality(Users(v))
        /\ InDisposal(v) \in Nat /\ Cardinality(Users(v)) \in Nat
    BY CountsOf
  <2>5. \/ st = "use" /\ Len(pool') = Len(pool) - 1
        \/ st # "use" /\ Len(pool') = Len(pool)
    BY <1>2
  <2>6. Cardinality(Users(v)') = IF v = version /\ st = "use" THEN Cardinality(Users(v)) + 1
                                                              ELSE Cardinality(Users(v))
    BY <1>7
  <2> QED BY ONLY <2>1, <2>2, <2>3, <2>4, <2>5, <2>6
<1>9. ASSUME NEW s \in Predictors PROVE HeldRight(s)'
  <2>1. HeldRight(s) OBVIOUS
  <2>2. CASE s = t BY <1>0, <1>3, <1>4, <2>2 DEF HeldRight
  <2>3. CASE s # t BY <1>0, <1>1, <1>4, <2>1, <2>3 DEF HeldRight
  <2> QED BY <2>2, <2>3
<1>10. ASSUME NEW v \in Versions PROVE EndDecided(v)' /\ FinishedRight(v)'
  <2>1. EndDecided(v) /\ FinishedRight(v) OBVIOUS
  <2>2. Releasing(v)' <=> Releasing(v) BY <1>0, <1>3, <1>4 DEF Releasing
  <2>3. CASE v = version
    <3>1. ~Releasing(v) /\ live[v] BY <1>0, <2>1, <2>3 DEF EndDecided
    <3> QED BY <1>0, <1>1, <2>1, <2>2, <2>3, <3>1 DEF EndDecided, FinishedRight
  <2>4. CASE v # version
    <3>1. Users(v)' = Users(v) BY <1>3, <1>4, <2>4 DEF Users
    <3>2. AtWork(v)' => AtWork(v) BY <1>4, <2>4 DEF AtWork
    <3> QED BY <1>0, <1>1, <2>1, <2>2, <3>1, <3>2 DEF EndDecided, FinishedRight
  <2> QED BY <2>3, <2>4
<1> QED BY <1>5, <1>6, <1>8, <1>9, <1>10

(* The new instance is counted, too late if its model is retired.          *)
LEMMA IncrementKeeps ==
  ASSUME PoolInv, NEW t \in Predictors, IncrementReference(t) PROVE PoolInv'
<1> USE DEF PoolInv
<1> DEFINE w == holds[t]
<1>0. /\ w \in Versions /\ w <= version /\ holds' = [holds EXCEPT ![t] = w]
      /\ thread[t] = "count" /\ thread' = [thread EXCEPT ![t] = "use"]
      /\ refs' = [refs EXCEPT ![w] = @ + 1] /\ live' = live /\ freed' = freed /\ pool' = pool
      /\ UNCHANGED retireVars
      /\ late' = IF Retired(w) THEN late \union {t} ELSE late
  BY DEF IncrementReference, PoolTypes, HeldRight, Working, Resting, ThreadStates
<1> HIDE DEF w
<1>1. /\ "use" \in ThreadStates /\ "use" \in Working /\ "use" \in Counted /\ "use" \notin Ending
      /\ "count" \notin Counted /\ "count" \notin Ending /\ "use" \notin Resting
  BY DEF ThreadStates, Working, Resting, Counted, Ending
<1>2. \A v : /\ Retired(v)' = Retired(v) /\ InDisposal(v)' = InDisposal(v)
             /\ InPool(v)' = InPool(v)
  BY <1>0 DEF Retired, InDisposal, InPool, retireVars
<1>3. /\ refs' \in [Versions -> Int] /\ refs'[w] = refs[w] + 1 /\ refs[w] \in Int
      /\ \A v \in Versions \ {w} : refs'[v] = refs[v]
  BY <1>0 DEF PoolTypes
<1>4. /\ thread' \in [Predictors -> ThreadStates]
      /\ holds' \in [Predictors -> Versions \union {None}]
      /\ thread'[t] = "use" /\ holds'[t] = w
      /\ \A s \in Predictors \ {t} : thread'[s] = thread[s] /\ holds'[s] = holds[s]
  BY <1>0, <1>1, ThreadMoves
<1>5. PoolTypes' BY <1>0, <1>3, <1>4 DEF PoolTypes, retireVars
<1>6. PoolCurrent' /\ (poolDisposed => pool = << >>)' BY <1>0 DEF PoolCurrent, retireVars
<1>7. \A v : Cardinality(Users(v)') =
               IF v = w THEN Cardinality(Users(v)) + 1 ELSE Cardinality(Users(v))
  BY <1>0, <1>1, <1>4, UserJoins
<1>8. RefsCounted'
  <2> SUFFICES ASSUME NEW v \in Versions
               PROVE  refs'[v] = InPool(v) + InDisposal(v) + Cardinality(Users(v)')
    BY <1>2 DEF RefsCounted
  <2>1. /\ refs[v] = InPool(v) + InDisposal(v) + Cardinality(Users(v))
        /\ InPool(v) \in Nat /\ InDisposal(v) \in Nat /\ Cardinality(Users(v)) \in Nat
    BY CountsOf
  <2> QED BY ONLY v \in Versions, <1>3, <1>7, <2>1
<1>9. ASSUME NEW s \in Predictors PROVE HeldRight(s)'
  <2>1. HeldRight(s) /\ version' = version BY <1>0 DEF retireVars
  <2>2. CASE s = t BY <1>0, <1>1, <1>4, <2>1, <2>2 DEF HeldRight, Ending
  <2>3. CASE s # t BY <1>2, <1>4, <2>1, <2>3 DEF HeldRight
  <2> QED BY <2>2, <2>3
<1>10. ASSUME NEW v \in Versions PROVE EndDecided(v)' /\ FinishedRight(v)'
  <2>1. EndDecided(v) /\ FinishedRight(v) OBVIOUS
  <2>2. /\ toDispose'[v] = toDispose[v] /\ retirer'[v] = retirer[v] /\ busy' = busy
        /\ live'[v] = live[v] /\ freed'[v] = freed[v]
    BY <1>0 DEF retireVars
  <2>3. Releasing(v)' <=> Releasing(v) BY <1>0, <1>1, <1>4, <2>2 DEF Releasing
  <2>4. AtWork(v)' => AtWork(v) BY <1>0, <1>4 DEF AtWork, w
  <2>5. refs'[v] >= refs[v] /\ refs[v] \in Int /\ refs'[v] \in Int
    <3>1. refs[v] \in Int BY DEF PoolTypes
    <3>2. refs'[v] = refs[v] \/ refs'[v] = refs[v] + 1 BY <1>3
    <3> QED BY ONLY <3>1, <3>2
  <2>6. Retired(v) /\ Users(v) \subseteq late => Users(v)' \subseteq late'
    <3>1. late \subseteq late' /\ (Retired(w) => t \in late') BY <1>0
    <3>2. Users(v)' \subseteq Users(v) \union {t} BY <1>4 DEF Users
    <3>3. t \in Users(v)' => v = w BY <1>4 DEF Users
    <3> QED BY <3>1, <3>2, <3>3
  <2>7. EndDecided(v)'
    <3>1. Releasing(v)' \/ ~live'[v] => Retired(v)' /\ InDisposal(v)' = 0 /\ Users(v)' \subseteq late'
      BY <1>2, <2>1, <2>2, <2>3, <2>6 DEF EndDecided
    <3>2. Retired(v)' /\ toDispose'[v] <= 1 /\ live'[v] => refs'[v] > 0 \/ Releasing(v)'
      BY <1>2, <2>1, <2>2, <2>3, <2>5 DEF EndDecided
    <3> QED BY <1>2, <2>1, <2>2, <3>1, <3>2 DEF EndDecided
  <2>8. FinishedRight(v)' BY <1>2, <2>1, <2>2, <2>4 DEF FinishedRight
  <2> QED BY <2>7, <2>8
<1> QED BY <1>5, <1>6, <1>8, <1>9, <1>10

(* An instance comes back: to the pool of its version, or to be disposed   *)
(* of.                                                                     *)
LEMMA ReturnKeeps ==
  ASSUME PoolInv, NEW t \in Predictors, ReturnObject(t) PROVE PoolInv'
<1> USE DEF PoolInv
<1> DEFINE w == holds[t]
<1>0. /\ w \in Versions /\ w <= version /\ thread[t] = "use" /\ holds[t] \in Versions \union {None}
      /\ UNCHANGED <<retireVars, modelVars>> /\ holds = [holds EXCEPT ![t] = holds[t]]
  BY DEF ReturnObject, PoolTypes, HeldRight, Working, Resting, ThreadStates
<1>1. /\ "use" \in ThreadStates /\ "use" \in Working /\ "use" \in Counted /\ "use" \notin Ending
      /\ "outdated" \in ThreadStates /\ "outdated" \in Working /\ "outdated" \in Counted
      /\ "outdated" \notin Ending /\ "idle" \in ThreadStates /\ "idle" \in Resting
      /\ "idle" \notin Counted /\ "idle" \notin Ending /\ "idle" \notin Working
      /\ None \in Versions \union {None}
  BY DEF ThreadStates, Working, Resting, Counted, Ending
<1>2. CASE ~Returns(w)
  <2>1. Retired(w) BY <1>0, <1>2 DEF Returns, Retired, PoolTypes, Versions
  <2>2. thread' = [thread EXCEPT ![t] = "outdated"] /\ UNCHANGED <<pool, holds, late>>
    BY <1>2 DEF ReturnObject
  <2> QED BY <1>0, <1>1, <2>1, <2>2, QuietStepKeeps
<1>3. CASE Returns(w)
  <2>1. /\ w = version /\ ~poolDisposed /\ version \in Versions
        /\ pool' = <<w>> \o pool /\ late' = late \ {t}
        /\ thread' = [thread EXCEPT ![t] = "idle"] /\ holds' = [holds EXCEPT ![t] = None]
    BY <1>3 DEF ReturnObject, Returns, PoolTypes
  <2>2. ~Retired(version) BY <2>1 DEF Retired, Versions
  <2> HIDE DEF w
  <2>3. /\ pool' \in Seq(Versions) /\ Len(pool') = Len(pool) + 1
        /\ \A i \in DOMAIN pool' : pool'[i] = version
    <3>1. <<w>> \in Seq(Versions) /\ Len(<<w>>) = 1 /\ <<w>>[1] = w BY <1>0
    <3>2. pool' \in Seq(Versions) /\ Len(pool') = 1 + Len(pool)
      BY <2>1, <3>1, ConcatProperties DEF PoolTypes
    <3>3. \A i \in 1 .. Len(pool') : pool'[i] = IF i <= 1 THEN <<w>>[i] ELSE pool[i - 1]
      BY <2>1, <3>1, ConcatProperties DEF PoolTypes
    <3>4. DOMAIN pool' = 1 .. Len(pool') /\ DOMAIN pool = 1 .. Len(pool) /\ Len(pool) \in Nat
      BY <3>2, LenProperties DEF PoolTypes
    <3>5. \A i \in 1 .. Len(pool) : pool[i] = version BY <3>4 DEF PoolCurrent
    <3>6. ASSUME NEW i \in 1 .. Len(pool') PROVE pool'[i] = version
      <4>1. CASE i <= 1 BY ONLY i \in 1 .. Len(pool'), <2>1, <3>1, <3>2, <3>3, <3>4, <4>1
      <4>2. CASE ~(i <= 1)
        <5>1. i - 1 \in 1 .. Len(pool) BY ONLY i \in 1 .. Len(pool'), <3>2, <3>4, <4>2
        <5>2. pool'[i] = pool[i - 1] BY <3>3, <4>2
        <5> QED BY <3>5, <5>1, <5>2
      <4> QED BY <4>1, <4>2
    <3>7. Len(pool') = Len(pool) + 1 BY ONLY <3>2, <3>4
    <3> QED BY <3>2, <3>4, <3>6, <3>7
  <2>4. /\ thread' \in [Predictors -> ThreadStates]
        /\ holds' \in [Predictors -> Versions \union {None}]
        /\ thread'[t] = "idle" /\ holds'[t] = None
        /\ \A s \in Predictors \ {t} : thread'[s] = thread[s] /\ holds'[s] = holds[s]
    BY <1>1, <2>1, ThreadMoves
  <2>5. PoolTypes' BY <1>0, <2>1, <2>3, <2>4 DEF PoolTypes, retireVars, modelVars
  <2>6. PoolCurrent' /\ (poolDisposed => pool = << >>)'
    BY <1>0, <2>1, <2>3 DEF PoolCurrent, retireVars
  <2>7. \A v : Retired(v)' = Retired(v) /\ InDisposal(v)' = InDisposal(v)
    BY <1>0 DEF Retired, InDisposal, retireVars
  <2>8. RefsCounted'
    <3> SUFFICES ASSUME NEW v \in Versions
                 PROVE  refs[v] = InPool(v)' + InDisposal(v) + Cardinality(Users(v)')
      BY <1>0, <2>7 DEF RefsCounted, modelVars
    <3>1. /\ refs[v] = InPool(v) + InDisposal(v) + Cardinality(Users(v))
          /\ InPool(v) \in Nat /\ InDisposal(v) \in Nat /\ Cardinality(Users(v)) \in Nat
      BY CountsOf
    <3>2. InPool(v) = IF v = version THEN Len(pool) ELSE 0 BY DEF InPool
    <3>3. InPool(v)' = IF v = version THEN Len(pool) + 1 ELSE 0
      BY <1>0, <2>3 DEF InPool, retireVars
    <3>4. Len(pool) \in Nat BY LenProperties DEF PoolTypes
    <3>5. Cardinality(Users(v)') =
            IF v = w THEN Cardinality(Users(v)) - 1 ELSE Cardinality(Users(v))
      BY <1>0, <1>1, <2>4, UserLeaves DEF w
    <3> QED BY ONLY <2>1, <3>1, <3>2, <3>3, <3>4, <3>5
  <2>9. ASSUME NEW s \in Predictors PROVE HeldRight(s)'
    <3>1. HeldRight(s) /\ version' = version BY <1>0 DEF retireVars
    <3>2. CASE s = t BY <1>1, <2>4, <3>2 DEF HeldRight
    <3>3. CASE s # t BY <2>4, <2>7, <3>1, <3>3 DEF HeldRight
    <3> QED BY <3>2, <3>3
  <2>10. ASSUME NEW v \in Versions PROVE EndDecided(v)' /\ FinishedRight(v)'
    <3>1. EndDecided(v) /\ FinishedRight(v) OBVIOUS
    <3>2. /\ toDispose'[v] = toDispose[v] /\ retirer'[v] = retirer[v] /\ busy' = busy
          /\ live'[v] = live[v] /\ freed'[v] = freed[v] /\ refs'[v] = refs[v]
      BY <1>0 DEF retireVars, modelVars
    <3>3. Releasing(v)' <=> Releasing(v) BY <1>0, <1>1, <2>4, <3>2 DEF Releasing
    <3>4. AtWork(v)' => AtWork(v)
      <4>1. None # v BY PoolAssumption DEF None, Versions
      <4> QED BY <2>4, <4>1 DEF AtWork
    <3>5. Users(v) \subseteq late => Users(v)' \subseteq late'
      BY <1>1, <2>1, <2>4 DEF Users
    <3>6. EndDecided(v)' BY <2>7, <3>1, <3>2, <3>3, <3>5 DEF EndDecided
    <3>7. FinishedRight(v)' BY <2>7, <3>1, <3>2, <3>4 DEF FinishedRight
    <3> QED BY <3>6, <3>7
  <2> QED BY <2>5, <2>6, <2>8, <2>9, <2>10
<1> QED BY <1>2, <1>3

(* A thread gives its reference up: the last one goes on to the model.     *)
LEMMA DisposeInstanceKeeps ==
  ASSUME PoolInv, NEW t \in Predictors, DisposeInstance(t) PROVE PoolInv'
<1> USE DEF PoolInv
<1> DEFINE w == holds[t]
<1>0. /\ w \in Versions /\ w <= version /\ thread[t] = "outdated" /\ Retired(w)
      /\ holds[t] \in Versions \union {None} /\ holds = [holds EXCEPT ![t] = holds[t]]
      /\ refs' = [refs EXCEPT ![w] = @ - 1] /\ live' = live /\ freed' = freed
      /\ UNCHANGED <<retireVars, pool>> /\ late' = late \ {t}
  BY DEF DisposeInstance, DecrementReference, PoolTypes, HeldRight, Working, Resting, ThreadStates
<1>1. /\ "outdated" \in Working /\ "outdated" \in Counted /\ "outdated" \notin Ending
      /\ "release" \in ThreadStates /\ "release" \in Working /\ "release" \in Ending
      /\ "release" \notin Counted /\ "release" \notin Resting /\ "release" # "idle"
      /\ "idle" \in ThreadStates /\ "idle" \in Resting
      /\ "idle" \notin Counted /\ "idle" \notin Ending /\ "idle" \notin Working
      /\ "idle" # "outdated" /\ None \in Versions \union {None}
  BY DEF ThreadStates, Working, Resting, Counted, Ending
<1>2. PICK st \in {"release", "idle"}, h \in {w, None} :
         /\ thread' = [thread EXCEPT ![t] = st] /\ holds' = [holds EXCEPT ![t] = h]
         /\ st = "release" <=> refs[w] - 1 <= 0
         /\ st = "release" => h = w
         /\ st = "idle" => h = None
  <2>1. CASE LastReference(w)
    BY <1>0, <1>1, <2>1 DEF DisposeInstance, LastReference
  <2>2. CASE ~LastReference(w)
    BY <1>0, <1>1, <2>2 DEF DisposeInstance, LastReference
  <2> QED BY <2>1, <2>2
<1>3. refs[w] >= 1 BY <1>0, <1>1, UserCounts DEF w
<1> HIDE DEF w
<1>4. /\ refs' \in [Versions -> Int] /\ refs'[w] = refs[w] - 1 /\ refs[w] \in Int
      /\ \A v \in Versions \ {w} : refs'[v] = refs[v]
  <2>1. refs \in [Versions -> Int] BY DEF PoolTypes
  <2> QED BY ONLY <1>0, <2>1, OneLess
<1>5. /\ thread' \in [Predictors -> ThreadStates]
      /\ holds' \in [Predictors -> Versions \union {None}]
      /\ thread'[t] = st /\ holds'[t] = h
      /\ \A s \in Predictors \ {t} : thread'[s] = thread[s] /\ holds'[s] = holds[s]
  BY <1>0, <1>1, <1>2, ThreadMoves
<1>6. PoolTypes' BY <1>0, <1>4, <1>5 DEF PoolTypes, retireVars
<1>7. PoolCurrent' /\ (poolDisposed => pool = << >>)' BY <1>0 DEF PoolCurrent, retireVars
<1>8. \A v : /\ Retired(v)' = Retired(v) /\ InDisposal(v)' = InDisposal(v)
             /\ InPool(v)' = InPool(v)
  BY <1>0 DEF Retired, InDisposal, InPool, retireVars
<1>9. RefsCounted'
  <2> SUFFICES ASSUME NEW v \in Versions
               PROVE  refs'[v] = InPool(v) + InDisposal(v) + Cardinality(Users(v)')
    BY <1>8 DEF RefsCounted
  <2>1. /\ refs[v] = InPool(v) + InDisposal(v) + Cardinality(Users(v))
        /\ InPool(v) \in Nat /\ InDisposal(v) \in Nat /\ Cardinality(Users(v)) \in Nat
    BY CountsOf
  <2>2. Cardinality(Users(v)') =
          IF v = w THEN Cardinality(Users(v)) - 1 ELSE Cardinality(Users(v))
    BY <1>0, <1>1, <1>2, <1>5, UserLeaves DEF w
  <2> QED BY ONLY v \in Versions, <1>4, <2>1, <2>2
<1>10. ASSUME NEW s \in Predictors PROVE HeldRight(s)'
  <2>1. HeldRight(s) /\ version' = version BY <1>0 DEF retireVars
  <2>2. CASE s = t BY <1>0, <1>1, <1>2, <1>5, <1>8, <2>1, <2>2 DEF HeldRight
  <2>3. CASE s # t BY <1>5, <1>8, <2>1, <2>3 DEF HeldRight
  <2> QED BY <2>2, <2>3
<1>11. ASSUME NEW v \in Versions PROVE EndDecided(v)' /\ FinishedRight(v)'
  <2>1. EndDecided(v) /\ FinishedRight(v) OBVIOUS
  <2>2. /\ toDispose'[v] = toDispose[v] /\ retirer'[v] = retirer[v] /\ busy' = busy
        /\ live'[v] = live[v] /\ freed'[v] = freed[v]
    BY <1>0 DEF retireVars
  <2>3. AtWork(v)' => AtWork(v)
    <3>1. None # v BY PoolAssumption DEF None, Versions
    <3> QED BY <1>2, <1>5, <3>1 DEF AtWork, w
  <2>4. Users(v) \subseteq late => Users(v)' \subseteq late'
    BY <1>0, <1>1, <1>2, <1>5 DEF Users
  <2>5. Releasing(v) => Releasing(v)' BY <1>0, <1>1, <1>5, <2>2 DEF Releasing
  <2>6. Releasing(v)' => Releasing(v) \/ (v = w /\ st = "release")
    BY <1>1, <1>2, <1>5, <2>2 DEF Releasing
  <2>7. v = w /\ st = "release" => Releasing(v)' /\ InDisposal(v)' = 0 /\ Users(v)' = {}
    <3> SUFFICES ASSUME v = w, st = "release"
                 PROVE  Releasing(v)' /\ InDisposal(v)' = 0 /\ Users(v)' = {}
      OBVIOUS
    <3>1. refs'[v] <= 0 BY <1>2, <1>4
    <3>2. InDisposal(v)' = 0 /\ Users(v)' = {}
      <4>1. refs'[v] = InPool(v)' + InDisposal(v)' + Cardinality(Users(v)') BY <1>9 DEF RefsCounted
      <4>2. InPool(v)' \in Nat /\ InDisposal(v)' \in Nat BY <1>8, CountsOf
      <4>3. IsFiniteSet(Users(v)') /\ Cardinality(Users(v)') \in Nat
        BY PoolAssumption, FS_Subset, FS_CardinalityType DEF Users
      <4>4. InDisposal(v)' = 0 /\ Cardinality(Users(v)') = 0 BY ONLY <3>1, <4>1, <4>2, <4>3
      <4> QED BY <4>3, <4>4, FS_EmptySet
    <3>3. Releasing(v)' BY <1>1, <1>2, <1>5 DEF Releasing
    <3> QED BY <3>2, <3>3
  <2>8. EndDecided(v)'
    <3>1. Releasing(v)' \/ ~live'[v] => Retired(v)' /\ InDisposal(v)' = 0 /\ Users(v)' \subseteq late'
      BY <1>0, <1>8, <2>1, <2>2, <2>4, <2>6, <2>7 DEF EndDecided
    <3>2. Retired(v)' /\ toDispose'[v] <= 1 /\ live'[v] => refs'[v] > 0 \/ Releasing(v)'
      <4>1. CASE v = w /\ st = "release" BY <2>7, <4>1
      <4>2. CASE v = w /\ st # "release"
        <5>1. ~(refs[w] - 1 <= 0) BY <1>2, <4>2
        <5>2. refs'[v] > 0 BY ONLY <1>4, <4>2, <5>1
        <5> QED BY <5>2
      <4>3. CASE v # w
        <5>1. refs'[v] = refs[v] BY <1>4, <4>3
        <5> QED BY <1>8, <2>1, <2>2, <2>5, <5>1 DEF EndDecided
      <4> QED BY <4>1, <4>2, <4>3
    <3> QED BY <1>8, <2>1, <2>2, <3>1, <3>2 DEF EndDecided
  <2>9. FinishedRight(v)' BY <1>8, <2>1, <2>2, <2>3 DEF FinishedRight
  <2> QED BY <2>8, <2>9
<1> QED BY <1>6, <1>7, <1>9, <1>10, <1>11

(* A thread finishes the model that it was the last to use.                *)
LEMMA FinishByThreadKeeps ==
  ASSUME PoolInv, NEW t \in Predictors, FinishByThread(t) PROVE PoolInv'
<1> USE DEF PoolInv
<1> DEFINE w == holds[t]
<1>0. /\ w \in Versions /\ w <= version /\ thread[t] = "finish" /\ Retired(w)
      /\ holds[t] \in Versions \union {None}
      /\ thread' = [thread EXCEPT ![t] = "idle"] /\ holds' = [holds EXCEPT ![t] = None]
      /\ live' = [live EXCEPT ![w] = FALSE] /\ freed' = [freed EXCEPT ![w] = @ + 1]
      /\ UNCHANGED <<retireVars, refs, pool, late>>
  BY DEF FinishByThread, FinishModel, PoolTypes, HeldRight, Working, Resting, Ending, ThreadStates
<1>1. /\ "finish" \in Ending /\ "finish" \notin Counted
      /\ "idle" \in ThreadStates /\ "idle" \in Resting /\ "idle" \notin Counted
      /\ "idle" \notin Ending /\ "idle" \notin Working /\ "idle" # "outdated"
      /\ None \in Versions \union {None}
  BY DEF ThreadStates, Working, Resting, Counted, Ending
<1>2. AtWork(w) BY DEF AtWork
<1>3. Releasing(w) BY <1>0, <1>1 DEF Releasing
<1> HIDE DEF w
<1>4. /\ live' \in [Versions -> BOOLEAN] /\ freed' \in [Versions -> Nat]
      /\ ~live'[w] /\ freed'[w] = freed[w] + 1 /\ freed[w] \in Nat
      /\ \A v \in Versions \ {w} : live'[v] = live[v] /\ freed'[v] = freed[v]
  BY <1>0, ModelFinished DEF FinishModel
<1>5. /\ thread' \in [Predictors -> ThreadStates]
      /\ holds' \in [Predictors -> Versions \union {None}]
      /\ thread'[t] = "idle" /\ holds'[t] = None
      /\ \A s \in Predictors \ {t} : thread'[s] = thread[s] /\ holds'[s] = holds[s]
  BY <1>0, <1>1, ThreadMoves
<1>6. PoolTypes' BY <1>0, <1>4, <1>5 DEF PoolTypes, retireVars
<1>7. PoolCurrent' /\ (poolDisposed => pool = << >>)' BY <1>0 DEF PoolCurrent, retireVars
<1>8. \A v : /\ Retired(v)' = Retired(v) /\ InDisposal(v)' = InDisposal(v)
             /\ InPool(v)' = InPool(v)
  BY <1>0 DEF Retired, InDisposal, InPool, retireVars
<1>9. \A v : Users(v)' = Users(v) BY <1>0, <1>1, <1>5 DEF Users
<1>10. RefsCounted' BY <1>0, <1>8, <1>9 DEF RefsCounted
<1>11. ASSUME NEW s \in Predictors PROVE HeldRight(s)'
  <2>1. HeldRight(s) /\ version' = version BY <1>0 DEF retireVars
  <2>2. CASE s = t BY <1>1, <1>5, <2>2 DEF HeldRight
  <2>3. CASE s # t BY <1>5, <1>8, <2>1, <2>3 DEF HeldRight
  <2> QED BY <2>2, <2>3
<1>12. ASSUME NEW v \in Versions PROVE EndDecided(v)' /\ FinishedRight(v)'
  <2>1. EndDecided(v) /\ FinishedRight(v) OBVIOUS
  <2>2. /\ toDispose'[v] = toDispose[v] /\ retirer'[v] = retirer[v] /\ busy' = busy
        /\ refs'[v] = refs[v] /\ late' = late
    BY <1>0 DEF retireVars
  <2>3. AtWork(v)' => AtWork(v)
    <3>1. None # v BY PoolAssumption DEF None, Versions
    <3> QED BY <1>5, <3>1 DEF AtWork
  <2>4. Releasing(v)' => Releasing(v) BY <1>1, <1>5, <2>2 DEF Releasing
  <2>5. CASE v = w
    <3>1. v \in busy BY <1>0, <1>2, <2>1, <2>5 DEF FinishedRight
    <3>2. freed'[v] # 0 /\ ~live'[v] BY <1>4, <2>5
    <3> QED BY <1>3, <1>8, <1>9, <2>1, <2>2, <2>5, <3>1, <3>2 DEF EndDecided, FinishedRight
  <2>6. CASE v # w
    <3>1. live'[v] = live[v] /\ freed'[v] = freed[v] BY <1>4, <2>6
    <3>2. Releasing(v) => Releasing(v)' BY <1>0, <1>5, <2>2, <2>6 DEF Releasing, w
    <3> QED BY <1>8, <1>9, <2>1, <2>2, <2>3, <2>4, <3>1, <3>2 DEF EndDecided, FinishedRight
  <2> QED BY <2>5, <2>6
<1> QED BY <1>6, <1>7, <1>10, <1>11, <1>12

-----------------------------------------------------------------------------
(* What a step of a retiring call leaves alone.                            *)
LEMMA RetirerFrame ==
  ASSUME PoolInv, RetirerRests
  PROVE  /\ PoolCurrent' /\ (poolDisposed => pool = << >>)'
         /\ \A v : Retired(v)' = Retired(v) /\ InPool(v)' = InPool(v) /\ Users(v)' = Users(v)
         /\ \A v : AtWork(v)' = AtWork(v)
         /\ \A t \in Predictors : HeldRight(t)'
         /\ busy' = busy /\ late' = late
<1> USE DEF PoolInv, RetirerRests
<1>1. PoolCurrent' /\ (poolDisposed => pool = << >>)' BY DEF PoolCurrent
<1>2. \A v : /\ Retired(v)' = Retired(v) /\ InPool(v)' = InPool(v) /\ Users(v)' = Users(v)
             /\ AtWork(v)' = AtWork(v)
  BY DEF Retired, InPool, Users, AtWork
<1>3. \A t \in Predictors : HeldRight(t)' BY <1>2 DEF HeldRight
<1> QED BY <1>1, <1>2, <1>3

(* The invariant of one version depends on that version's state only.      *)
LEMMA OtherVersions ==
  ASSUME PoolInv, RetirerRests, NEW v \in Versions, live'[v] = live[v], freed'[v] = freed[v],
         refs'[v] = refs[v], toDispose'[v] = toDispose[v], retirer'[v] = retirer[v]
  PROVE  EndDecided(v)' /\ FinishedRight(v)'
<1>1. EndDecided(v) /\ FinishedRight(v) BY DEF PoolInv
<1>2. (Releasing(v)' <=> Releasing(v)) /\ InDisposal(v)' = InDisposal(v)
  BY DEF Releasing, RetirerRests, InDisposal
<1>3. /\ Retired(v)' = Retired(v) /\ Users(v)' = Users(v) /\ AtWork(v)' = AtWork(v)
      /\ busy' = busy /\ late' = late
  BY RetirerFrame
<1>4. EndDecided(v)' BY <1>1, <1>2, <1>3 DEF EndDecided
<1>5. FinishedRight(v)' BY <1>1, <1>3 DEF FinishedRight
<1> QED BY <1>4, <1>5

(* One of the instances that were in the pool gives its reference up.      *)
LEMMA RetireInstanceKeeps ==
  ASSUME PoolInv, NEW w \in Versions, RetireInstance(w) PROVE PoolInv'
<1> USE DEF PoolInv
<1>0. /\ retirer[w] = "next" /\ toDispose[w] > 2 /\ live' = live /\ freed' = freed
      /\ refs' = [refs EXCEPT ![w] = @ - 1] /\ toDispose' = [toDispose EXCEPT ![w] = @ - 1]
      /\ retirer' = IF refs[w] - 1 <= 0 THEN [retirer EXCEPT ![w] = "release"] ELSE retirer
      /\ source' = source /\ RetirerRests
  BY DEF RetireInstance, DecrementReference, LastReference
<1>1. /\ PoolCurrent' /\ (poolDisposed => pool = << >>)'
      /\ \A v : Retired(v)' = Retired(v) /\ InPool(v)' = InPool(v) /\ Users(v)' = Users(v)
      /\ \A v : AtWork(v)' = AtWork(v)
      /\ \A t \in Predictors : HeldRight(t)'
      /\ busy' = busy /\ late' = late
  BY <1>0, RetirerFrame
<1>2. /\ refs' \in [Versions -> Int] /\ refs'[w] = refs[w] - 1 /\ refs[w] \in Int
      /\ \A v \in Versions \ {w} : refs'[v] = refs[v]
  <2>1. refs \in [Versions -> Int] BY DEF PoolTypes
  <2> QED BY ONLY w \in Versions, <1>0, <2>1, OneLess
<1>3. /\ toDispose' \in [Versions -> Nat] /\ toDispose'[w] = toDispose[w] - 1
      /\ toDispose[w] \in Nat /\ \A v \in Versions \ {w} : toDispose'[v] = toDispose[v]
  <2>1. toDispose \in [Versions -> Nat] /\ toDispose[w] \in Nat BY DEF PoolTypes
  <2>2. toDispose[w] - 1 \in Nat BY ONLY <1>0, <2>1
  <2>3. toDispose' = [toDispose EXCEPT ![w] = toDispose[w] - 1] BY <1>0
  <2> QED BY ONLY w \in Versions, <2>1, <2>2, <2>3
<1>4. /\ retirer' \in [Versions -> {"next"} \union Ending]
      /\ retirer'[w] = IF refs[w] - 1 <= 0 THEN "release" ELSE "next"
      /\ \A v \in Versions \ {w} : retirer'[v] = retirer[v]
  BY <1>0 DEF PoolTypes, Ending
<1>5. PoolTypes' BY <1>0, <1>2, <1>3, <1>4 DEF PoolTypes, RetirerRests
<1>6. /\ InDisposal(w) = toDispose[w] - 2 /\ InDisposal(w)' = InDisposal(w) - 1
      /\ InDisposal(w) >= 1 /\ InDisposal(w) \in Nat
      /\ \A v \in Versions \ {w} : InDisposal(v)' = InDisposal(v)
  <2>1. InDisposal(w) = toDispose[w] - 2 /\ InDisposal(w) >= 1 /\ InDisposal(w) \in Nat
    BY <1>0, <1>3 DEF InDisposal
  <2>2. InDisposal(w)' = toDispose[w] - 3 BY <1>0, <1>3 DEF InDisposal
  <2>3. InDisposal(w)' = InDisposal(w) - 1 BY ONLY <1>3, <2>1, <2>2
  <2>4. \A v \in Versions \ {w} : InDisposal(v)' = InDisposal(v) BY <1>3 DEF InDisposal
  <2> QED BY <2>1, <2>3, <2>4
<1>7. RefsCounted'
  <2> SUFFICES ASSUME NEW v \in Versions
               PROVE  refs'[v] = InPool(v) + InDisposal(v)' + Cardinality(Users(v))
    BY <1>1 DEF RefsCounted
  <2>1. /\ refs[v] = InPool(v) + InDisposal(v) + Cardinality(Users(v))
        /\ InPool(v) \in Nat /\ InDisposal(v) \in Nat /\ Cardinality(Users(v)) \in Nat
    BY CountsOf
  <2>2. CASE v = w BY ONLY <1>2, <1>6, <2>1, <2>2
  <2>3. CASE v # w BY <1>2, <1>6, <2>1, <2>3
  <2> QED BY <2>2, <2>3
<1>8. ASSUME NEW v \in Versions PROVE EndDecided(v)' /\ FinishedRight(v)'
  <2>1. CASE v # w
    <3>1. /\ live'[v] = live[v] /\ freed'[v] = freed[v] /\ refs'[v] = refs[v]
          /\ toDispose'[v] = toDispose[v] /\ retirer'[v] = retirer[v]
      BY <1>0, <1>2, <1>3, <1>4, <2>1
    <3> QED BY <1>0, <3>1, OtherVersions
  <2>2. CASE v = w
    <3>1. EndDecided(w) /\ FinishedRight(w) OBVIOUS
    <3>2. Retired(w) /\ live[w] /\ ~Releasing(w)
      BY <1>0, <1>6, <3>1 DEF EndDecided
    <3>3. Releasing(w)' <=> refs[w] - 1 <= 0
      <4>1. (\E t \in Predictors : thread[t] \in Ending /\ holds[t] = w)' = FALSE
        BY <1>0, <3>2 DEF Releasing, RetirerRests
      <4> QED BY <1>4, <4>1 DEF Releasing
    <3>4. refs[w] - 1 <= 0 => InDisposal(w)' = 0 /\ Users(w) = {}
      <4>1. /\ refs[w] = InPool(w) + InDisposal(w) + Cardinality(Users(w))
            /\ InPool(w) \in Nat /\ Cardinality(Users(w)) \in Nat
        BY CountsOf
      <4>2. /\ InDisposal(w)' = InDisposal(w) - 1 /\ InDisposal(w) >= 1
            /\ InDisposal(w) \in Nat
        BY <1>6
      <4>3. refs[w] - 1 <= 0 => InDisposal(w)' = 0 /\ Cardinality(Users(w)) = 0
        BY ONLY <4>1, <4>2
      <4> QED BY <4>3, UsersFinite, FS_EmptySet
    <3>5. toDispose'[w] >= 1 /\ ~(toDispose'[w] <= 1) BY <1>0, <1>3
    <3>6. EndDecided(w)'
      BY <1>0, <1>1, <3>2, <3>3, <3>4, <3>5 DEF EndDecided
    <3>7. FinishedRight(w)' BY <1>0, <1>1, <1>4, <3>1 DEF FinishedRight
    <3> QED BY <2>2, <3>6, <3>7
  <2> QED BY <2>1, <2>2
<1> QED BY <1>1, <1>5, <1>7, <1>8

(* Steps of the retiring call that change no count: it looks at the model  *)
(* or clears the source.                                                   *)
LEMMA RetireQuietKeeps ==
  ASSUME PoolInv, NEW w \in Versions, RetireModel(w) \/ RetireSource(w) \/ ReleaseByRetirer(w)
  PROVE  PoolInv'
<1> USE DEF PoolInv
<1>0. UNCHANGED modelVars /\ RetirerRests BY DEF RetireModel, RetireSource, ReleaseByRetirer
<1>1. /\ PoolCurrent' /\ (poolDisposed => pool = << >>)'
      /\ \A v : Retired(v)' = Retired(v) /\ InPool(v)' = InPool(v) /\ Users(v)' = Users(v)
      /\ \A v : AtWork(v)' = AtWork(v)
      /\ \A t \in Predictors : HeldRight(t)'
      /\ busy' = busy /\ late' = late
  BY <1>0, RetirerFrame
<1>2. /\ toDispose' \in [Versions -> Nat] /\ source' \in [Versions -> BOOLEAN]
      /\ retirer' \in [Versions -> {"next"} \union Ending]
      /\ \A v \in Versions \ {w} : toDispose'[v] = toDispose[v] /\ retirer'[v] = retirer[v]
  <2>1. CASE RetireModel(w) BY <2>1 DEF PoolTypes, RetireModel, Ending
  <2>2. CASE RetireSource(w) BY <2>2 DEF PoolTypes, RetireSource
  <2>3. CASE ReleaseByRetirer(w)
    <3>1. retirer' \in [Versions -> {"next"} \union Ending]
      BY <2>3 DEF PoolTypes, ReleaseByRetirer, Ending
    <3> QED BY <2>3, <3>1 DEF PoolTypes, ReleaseByRetirer
  <2> QED BY <2>1, <2>2, <2>3
<1>3. PoolTypes' BY <1>0, <1>2 DEF PoolTypes, RetirerRests, modelVars
<1>4. InDisposal(w)' = InDisposal(w) /\ \A v \in Versions \ {w} : InDisposal(v)' = InDisposal(v)
  <2>1. InDisposal(w)' = InDisposal(w)
    <3>1. CASE RetireModel(w) BY <3>1 DEF InDisposal, PoolTypes, RetireModel
    <3>2. CASE RetireSource(w) BY <3>2 DEF InDisposal, PoolTypes, RetireSource
    <3>3. CASE ReleaseByRetirer(w) BY <3>3 DEF InDisposal, ReleaseByRetirer
    <3> QED BY <3>1, <3>2, <3>3
  <2> QED BY <1>2, <2>1 DEF InDisposal
<1>5. RefsCounted' BY <1>0, <1>1, <1>4 DEF RefsCounted, modelVars
<1>6. ASSUME NEW v \in Versions PROVE EndDecided(v)' /\ FinishedRight(v)'
  <2>1. CASE v # w
    <3>1. /\ live'[v] = live[v] /\ freed'[v] = freed[v] /\ refs'[v] = refs[v]
          /\ toDispose'[v] = toDispose[v] /\ retirer'[v] = retirer[v]
      BY <1>0, <1>2, <2>1 DEF modelVars
    <3> QED BY <1>0, <3>1, OtherVersions
  <2>2. CASE v = w
    <3>1. EndDecided(w) /\ FinishedRight(w) /\ toDispose[w] \in Nat BY DEF PoolTypes
    <3>2. live' = live /\ freed' = freed /\ refs' = refs BY <1>0 DEF modelVars
    <3>3. (\E t \in Predictors : thread[t] \in Ending /\ holds[t] = w)'
             = (\E t \in Predictors : thread[t] \in Ending /\ holds[t] = w)
      BY <1>0 DEF RetirerRests
    <3>4. CASE RetireModel(w)
      <4>1. /\ retirer[w] = "next" /\ toDispose[w] = 2 /\ toDispose'[w] = 1
            /\ retirer'[w] = IF refs[w] <= 0 THEN "release" ELSE "next"
        BY <3>4 DEF RetireModel, Unreferenced, PoolTypes
      <4>2. Retired(w) BY <3>1, <4>1 DEF EndDecided
      <4>3. Releasing(w)' <=> Releasing(w) \/ refs[w] <= 0 BY <3>3, <4>1 DEF Releasing
      <4>4. refs[w] <= 0 => InDisposal(w) = 0 /\ Users(w) = {} BY CountsOf
      <4>5. refs[w] > 0 \/ refs[w] <= 0 BY CountsOf
      <4>6. EndDecided(w)'
        BY <1>1, <1>4, <3>1, <3>2, <4>1, <4>2, <4>3, <4>4, <4>5 DEF EndDecided
      <4>7. FinishedRight(w)' BY <1>1, <3>1, <3>2, <4>1 DEF FinishedRight
      <4> QED BY <2>2, <4>6, <4>7
    <3>5. CASE RetireSource(w)
      <4>1. /\ retirer[w] = "next" /\ toDispose[w] = 1 /\ toDispose'[w] = 0
            /\ retirer'[w] = retirer[w]
        BY <3>5 DEF RetireSource, PoolTypes
      <4>2. Retired(w) BY <3>1, <4>1 DEF EndDecided
      <4>3. Releasing(w)' <=> Releasing(w) BY <3>3, <4>1 DEF Releasing
      <4>4. EndDecided(w)' BY <1>1, <1>4, <3>1, <3>2, <4>1, <4>2, <4>3 DEF EndDecided
      <4>5. FinishedRight(w)' BY <1>1, <3>1, <3>2, <4>1 DEF FinishedRight
      <4> QED BY <2>2, <4>4, <4>5
    <3>6. CASE ReleaseByRetirer(w)
      <4>1. /\ retirer[w] = "release" /\ toDispose'[w] = toDispose[w]
            /\ retirer'[w] = IF live[w] THEN "finish" ELSE "next"
        BY <3>6 DEF ReleaseByRetirer, PoolTypes
      <4>2. Releasing(w) /\ (live[w] => Releasing(w)') BY <4>1 DEF Releasing
      <4>3. EndDecided(w)' BY <1>1, <1>4, <3>1, <3>2, <4>1, <4>2 DEF EndDecided
      <4>4. FinishedRight(w)' BY <1>1, <3>1, <3>2, <4>1 DEF FinishedRight
      <4> QED BY <2>2, <4>3, <4>4
    <3> QED BY <3>4, <3>5, <3>6
  <2> QED BY <2>1, <2>2
<1> QED BY <1>1, <1>3, <1>5, <1>6

(* The retiring call finishes the model.                                   *)
LEMMA FinishByRetirerKeeps ==
  ASSUME PoolInv, NEW w \in Versions, FinishByRetirer(w) PROVE PoolInv'
<1> USE DEF PoolInv
<1>0. /\ retirer[w] = "finish" /\ retirer' = [retirer EXCEPT ![w] = "next"]
      /\ live' = [live EXCEPT ![w] = FALSE] /\ freed' = [freed EXCEPT ![w] = @ + 1]
      /\ refs' = refs /\ toDispose' = toDispose /\ source' = source /\ RetirerRests
  BY DEF FinishByRetirer, FinishModel
<1>1. /\ PoolCurrent' /\ (poolDisposed => pool = << >>)'
      /\ \A v : Retired(v)' = Retired(v) /\ InPool(v)' = InPool(v) /\ Users(v)' = Users(v)
      /\ \A v : AtWork(v)' = AtWork(v)
      /\ \A t \in Predictors : HeldRight(t)'
      /\ busy' = busy /\ late' = late
  BY <1>0, RetirerFrame
<1>2. /\ live' \in [Versions -> BOOLEAN] /\ freed' \in [Versions -> Nat]
      /\ ~live'[w] /\ freed'[w] = freed[w] + 1 /\ freed[w] \in Nat
      /\ \A v \in Versions \ {w} : live'[v] = live[v] /\ freed'[v] = freed[v]
  BY <1>0, ModelFinished
<1>3. /\ retirer' \in [Versions -> {"next"} \union Ending] /\ retirer'[w] = "next"
      /\ \A v \in Versions \ {w} : retirer'[v] = retirer[v]
  BY <1>0 DEF PoolTypes
<1>4. PoolTypes' BY <1>0, <1>2, <1>3 DEF PoolTypes, RetirerRests
<1>5. \A v : InDisposal(v)' = InDisposal(v) BY <1>0 DEF InDisposal
<1>6. RefsCounted' BY <1>0, <1>1, <1>5 DEF RefsCounted
<1>7. ASSUME NEW v \in Versions PROVE EndDecided(v)' /\ FinishedRight(v)'
  <2>1. CASE v # w
    <3>1. /\ live'[v] = live[v] /\ freed'[v] = freed[v] /\ refs'[v] = refs[v]
          /\ toDispose'[v] = toDispose[v] /\ retirer'[v] = retirer[v]
      BY <1>0, <1>2, <1>3, <2>1
    <3> QED BY <1>0, <3>1, OtherVersions
  <2>2. CASE v = w
    <3>1. EndDecided(w) /\ FinishedRight(w) OBVIOUS
    <3>2. Releasing(w) BY <1>0 DEF Releasing
    <3>3. EndDecided(w)' BY <1>0, <1>1, <1>2, <1>3, <1>5, <3>1, <3>2 DEF EndDecided
    <3>4. w \notin busy => freed'[w] = 1
      <4>1. w \notin busy => freed[w] = 0 BY <1>0, <3>1 DEF FinishedRight
      <4> QED BY <1>2, <4>1
    <3>5. freed'[w] # 0 BY <1>2
    <3>6. FinishedRight(w)' BY <1>1, <1>2, <1>3, <3>1, <3>4, <3>5 DEF FinishedRight
    <3> QED BY <2>2, <3>3, <3>6
  <2> QED BY <2>1, <2>2
<1> QED BY <1>1, <1>4, <1>6, <1>7

(* The model is replaced, or the pool is closed: its version retires, and  *)
(* the references from the pool become references to be disposed of.       *)
LEMMA RetireKeeps ==
  ASSUME PoolInv, UpdateModel \/ DisposePool PROVE PoolInv'
<1> USE DEF PoolInv
<1>1. /\ ~poolDisposed /\ pool' = << >>
      /\ toDispose' = [toDispose EXCEPT ![version] = Len(pool) + 2]
      /\ busy' = IF AtWork(version) THEN busy \union {version} ELSE busy
      /\ UNCHANGED <<source, retirer, modelVars, thread, holds, late>>
  BY DEF UpdateModel, DisposePool, Retire, Outdated
<1>2. \/ version' = version + 1 /\ version < MaxUpdates /\ poolDisposed' = FALSE
      \/ version' = version /\ poolDisposed' = TRUE
  BY DEF UpdateModel, DisposePool
<1>3. /\ Len(pool) \in Nat /\ version \in Versions /\ version \in Int /\ version' \in Versions
      /\ version <= version' /\ version' \in Int
  <2>1. version \in Versions /\ pool \in Seq(Versions) BY DEF PoolTypes
  <2>2. Len(pool) \in Nat BY ONLY <2>1, LenProperties
  <2>3. version \in Int /\ version' \in Versions /\ version <= version' /\ version' \in Int
    BY ONLY PoolAssumption, <1>2, <2>1 DEF Versions
  <2> QED BY <2>1, <2>2, <2>3
<1>4. \A v \in Versions : Retired(v)' <=> v = version \/ Retired(v)
  BY <1>1, <1>2, <1>3 DEF Retired, Versions
<1>5. ~Retired(version) BY <1>1, <1>3 DEF Retired
<1>6. /\ toDispose' \in [Versions -> Nat] /\ toDispose'[version] = Len(pool) + 2
      /\ \A v \in Versions \ {version} : toDispose'[v] = toDispose[v]
  BY <1>1, <1>3 DEF PoolTypes
<1>7. PoolTypes'
  <2>1. poolDisposed' \in BOOLEAN /\ pool' \in Seq(Versions) BY <1>1, <1>2, EmptySeq
  <2> QED BY <1>1, <1>3, <1>6, <2>1 DEF PoolTypes, modelVars
<1>8. PoolCurrent' /\ (poolDisposed => pool = << >>)' BY <1>1, EmptySeq DEF PoolCurrent
<1>9. \A v : Users(v)' = Users(v) /\ AtWork(v)' = AtWork(v) /\ (Releasing(v)' <=> Releasing(v))
  BY <1>1 DEF Users, AtWork, Releasing
<1>10. PICK w \in Versions : w = version BY <1>3
<1>11. /\ toDispose[w] = 0 /\ InDisposal(w) = 0 /\ InDisposal(w)' = Len(pool)
       /\ \A v \in Versions \ {w} : InDisposal(v)' = InDisposal(v)
  <2>1. toDispose[w] = 0 BY <1>5, <1>10 DEF EndDecided
  <2>2. InDisposal(w) = 0 BY <2>1 DEF InDisposal
  <2>3. InDisposal(w)' = Len(pool) BY <1>3, <1>6, <1>10 DEF InDisposal
  <2>4. \A v \in Versions \ {w} : InDisposal(v)' = InDisposal(v) BY <1>6, <1>10 DEF InDisposal
  <2> QED BY <2>1, <2>2, <2>3, <2>4
<1>12. RefsCounted'
  <2> SUFFICES ASSUME NEW v \in Versions
               PROVE  refs[v] = InPool(v)' + InDisposal(v)' + Cardinality(Users(v))
    BY <1>1, <1>9 DEF RefsCounted, modelVars
  <2>1. /\ refs[v] = InPool(v) + InDisposal(v) + Cardinality(Users(v))
        /\ InDisposal(v) \in Nat /\ Cardinality(Users(v)) \in Nat
    BY CountsOf
  <2>2. InPool(v)' = 0 BY <1>1, EmptySeq DEF InPool
  <2>3. InPool(v) = IF v = w THEN Len(pool) ELSE 0 BY <1>10 DEF InPool
  <2>4. InDisposal(v)' = IF v = w THEN Len(pool) ELSE InDisposal(v) BY <1>11
  <2> QED BY ONLY <1>3, <1>11, <2>1, <2>2, <2>3, <2>4
<1>13. ASSUME NEW t \in Predictors PROVE HeldRight(t)'
  <2>1. HeldRight(t) OBVIOUS
  <2>2. holds[t] \in Versions /\ holds[t] <= version => holds[t] <= version'
    BY <1>3 DEF Versions
  <2>3. holds[t] \in Versions /\ Retired(holds[t]) => Retired(holds[t])'
    <3> SUFFICES ASSUME holds[t] \in Versions, Retired(holds[t]) PROVE Retired(holds[t])'
      OBVIOUS
    <3>1. PICK v \in Versions : v = holds[t] OBVIOUS
    <3>2. Retired(v)' BY <1>4, <3>1
    <3> QED BY <1>1, <3>1, <3>2 DEF Retired
  <2>4. {"outdated"} \union Ending \subseteq Working
    BY DEF Ending, Working, Resting, ThreadStates
  <2> QED BY <1>1, <2>1, <2>2, <2>3, <2>4 DEF HeldRight
<1>14. ASSUME NEW v \in Versions PROVE EndDecided(v)' /\ FinishedRight(v)'
  <2>1. EndDecided(v) /\ FinishedRight(v) OBVIOUS
  <2>2. live' = live /\ freed' = freed /\ refs' = refs /\ retirer' = retirer /\ late' = late
    BY <1>1 DEF modelVars
  <2>3. CASE v = w
    <3>1. ~Releasing(v) /\ live[v] /\ retirer[v] = "next"
      BY <1>5, <1>10, <2>1, <2>3 DEF EndDecided, Releasing
    <3>2. toDispose'[v] >= 1 /\ ~(toDispose'[v] <= 1) BY <1>3, <1>6, <1>10, <2>3
    <3>3. EndDecided(v)' BY <1>4, <1>9, <1>10, <2>2, <2>3, <3>1, <3>2 DEF EndDecided
    <3>4. v \notin busy' => v \notin busy /\ ~AtWork(v) BY <1>1, <1>10, <2>3
    <3>5. FinishedRight(v)' BY <1>9, <2>1, <2>2, <3>1, <3>4 DEF FinishedRight
    <3> QED BY <3>3, <3>5
  <2>4. CASE v # w
    <3>1. toDispose'[v] = toDispose[v] /\ InDisposal(v)' = InDisposal(v)
      BY <1>6, <1>10, <1>11, <2>4
    <3>2. (Retired(v)' <=> Retired(v)) /\ (v \in busy' <=> v \in busy)
      BY <1>1, <1>4, <1>10, <2>4
    <3>3. EndDecided(v)' BY <1>9, <2>1, <2>2, <3>1, <3>2 DEF EndDecided
    <3>4. FinishedRight(v)' BY <1>9, <2>1, <2>2, <3>2 DEF FinishedRight
    <3> QED BY <3>3, <3>4
  <2> QED BY <2>3, <2>4
<1> QED BY <1>7, <1>8, <1>12, <1>13, <1>14

-----------------------------------------------------------------------------
(* Every step of the pool and its threads keeps the invariant.             *)
LEMMA PoolSteps == PoolInv /\ [PoolNext]_poolVars => PoolInv'
<1> SUFFICES ASSUME PoolInv, [PoolNext]_poolVars PROVE PoolInv' OBVIOUS
<1>1. CASE UpdateModel \/ DisposePool BY <1>1, RetireKeeps
<1>2. ASSUME NEW v \in Versions,
             \/ RetireInstance(v) \/ RetireModel(v) \/ RetireSource(v)
             \/ ReleaseByRetirer(v) \/ FinishByRetirer(v)
      PROVE  PoolInv'
  BY <1>2, RetireInstanceKeeps, RetireQuietKeeps, FinishByRetirerKeeps
<1>3. ASSUME NEW t \in Predictors,
             \/ GetOrCreate(t) \/ ReadSource(t) \/ CreateEmpty(t) \/ SeedModel(t)
             \/ IncrementReference(t) \/ ReturnObject(t) \/ DisposeInstance(t)
             \/ ReleaseModel(t) \/ FinishByThread(t) \/ ReturnEmpty(t)
      PROVE  PoolInv'
  BY <1>3, GetOrCreateKeeps, QuietKeeps, IncrementKeeps, ReturnKeeps, DisposeInstanceKeeps,
     FinishByThreadKeeps
<1>4. CASE UNCHANGED poolVars
  <2> USE <1>4 DEF poolVars, retireVars, modelVars, PoolInv
  <2>1. PoolTypes' /\ PoolCurrent' /\ (poolDisposed => pool = << >>)'
    BY DEF PoolTypes, PoolCurrent
  <2>2. \A v : /\ Retired(v)' = Retired(v) /\ InPool(v)' = InPool(v) /\ Users(v)' = Users(v)
               /\ AtWork(v)' = AtWork(v) /\ InDisposal(v)' = InDisposal(v)
               /\ (Releasing(v)' <=> Releasing(v))
    BY DEF Retired, InPool, Users, AtWork, InDisposal, Releasing
  <2>3. RefsCounted' BY <2>2 DEF RefsCounted
  <2>4. \A t \in Predictors : HeldRight(t)' BY <2>2 DEF HeldRight
  <2>5. \A v \in Versions : EndDecided(v)' BY <2>2 DEF EndDecided
  <2>6. \A v \in Versions : FinishedRight(v)' BY <2>2 DEF FinishedRight
  <2> QED BY <2>1, <2>3, <2>4, <2>5, <2>6
<1> QED BY <1>1, <1>2, <1>3, <1>4 DEF PoolNext

(* The pool behind threaded prediction, for any number of threads and any  *)
(* overlap of calls of UpdateModel and Dispose: the pool has instances of  *)
(* the current model only; every instance that was counted before its      *)
(* model was retired has the model's weights until it is disposed of; and  *)
(* a retired model that nobody has at hand is finished when the retiring   *)
(* call is through, once if no thread was at work with it at the time.     *)
THEOREM PoolIsSafe == PoolSpec => []PoolSafe
<1>1. PoolSpec => []PoolInv BY PoolStarts, PoolSteps, PTL DEF PoolSpec
<1> QED BY <1>1, PoolInvIsSafe, PTL

-----------------------------------------------------------------------------
(* The workers together.                                                   *)

(* Every component starts as its own specification says.                   *)
LEMMA WorkersStart == WorkersInit => TpInit /\ SenderInit /\ LearnInit /\ PoolInit
BY DEF WorkersInit

(* A step of the workers is a step of every component, or leaves it alone. *)
LEMMA WorkersStep ==
  [WorkersNext]_workersVars => /\ [TpNext]_tpVars /\ [SenderNext]_senderVars
                               /\ [LearnNext]_learnVars /\ [PoolNext]_poolVars
<1> USE DEF WorkersNext, workersVars, Rests
<1>1. [WorkersNext]_workersVars => [TpNext]_tpVars OBVIOUS
<1>2. [WorkersNext]_workersVars => [SenderNext]_senderVars OBVIOUS
<1>3. [WorkersNext]_workersVars => [LearnNext]_learnVars OBVIOUS
<1>4. [WorkersNext]_workersVars => [PoolNext]_poolVars OBVIOUS
<1> QED BY <1>1, <1>2, <1>3, <1>4

(* Work that is handed to others is done once and comes back to its place, *)
(* for any number of workers, rows, examples, nodes, callers and instances *)
(* of the pool: generate_AOmega computes every row once and before it      *)
(* returns; a prediction the sender receives is scored against the example *)
(* that was sent, as long as its ring has four entries or more; threaded   *)
(* learning saves merged models only, and Complete has learned every       *)
(* example and done every save.                                            *)
THEOREM WorkersAreSafe ==
  ASSUME \A l \in Limits : l >= 4
  PROVE  WorkersSpec => []WorkSafe
<1> DEFINE Inv == TpInv /\ SenderInv /\ LearnInv
<1>1. WorkersInit => Inv
  BY WorkersStart, TpStarts, SenderStarts, LearnStarts
<1>2. Inv /\ [WorkersNext]_workersVars => Inv'
  BY WorkersStep, TpSteps, SenderSteps, LearnSteps
<1>3. Inv => WorkSafe
  BY TpInvIsSafe, LearnInvIsSafe DEF SenderInv, WorkSafe
<1> QED BY <1>1, <1>2, <1>3, PTL DEF WorkersSpec

(* And the pool behind threaded prediction is safe among them: see         *)
(* PoolIsSafe.                                                             *)
THEOREM WorkersPoolIsSafe == WorkersSpec => []PoolSafe
<1>1. WorkersInit => PoolInv BY WorkersStart, PoolStarts
<1>2. PoolInv /\ [WorkersNext]_workersVars => PoolInv' BY WorkersStep, PoolSteps
<1> QED BY <1>1, <1>2, PoolInvIsSafe, PTL DEF WorkersSpec

-----------------------------------------------------------------------------
(* Two promises of the distributed all_reduce, for any cluster: the        *)
(* spanning tree server forgets nobody who waits for it, and broadcast     *)
(* never comes to read from its parent when there is nothing left to read. *)
Stages == {"absent", "connect", "write", "lost", "ok", "kid_count", "bind", "parent", "join",
           "accept", "ready", "threw", "gone"}
Phases == {"idle", "reduce", "select", "recv", "broadcast", "read"}

(* Some sequence.                                                          *)
IsSeq(s) == s \in Seq({s[i] : i \in DOMAIN s})

(* A sequence over any set is one.                                         *)
LEMMA SomeSeq == ASSUME NEW S, NEW s \in Seq(S) PROVE IsSeq(s)
BY DEF IsSeq

(* What Append and Tail do to a sequence.                                  *)
LEMMA Appended ==
  ASSUME NEW s, IsSeq(s), NEW x
  PROVE  /\ IsSeq(Append(s, x)) /\ Append(s, x) # << >>
         /\ Len(Append(s, x)) = 1 => s = << >> /\ Head(Append(s, x)) = x
<1> DEFINE S == {s[i] : i \in DOMAIN s}
           T == S \union {x}
<1>1. s \in Seq(S) BY DEF IsSeq
<1> HIDE DEF S
<1>2. s \in Seq(T) /\ x \in T BY <1>1
<1> HIDE DEF T
<1>3. Append(s, x) \in Seq(T) /\ Len(Append(s, x)) = Len(s) + 1 /\ Len(s) \in Nat BY <1>2
<1>4. IsSeq(Append(s, x)) BY <1>3, SomeSeq
<1>5. Append(s, x) # << >>
  <2>1. Len(Append(s, x)) # 0 BY <1>3
  <2> QED BY <1>3, <2>1, EmptySeq
<1>6. ASSUME Len(Append(s, x)) = 1 PROVE s = << >> /\ Head(Append(s, x)) = x
  <2>1. Len(s) = 0 BY <1>3, <1>6
  <2>2. s = << >> BY <1>2, <2>1
  <2> QED BY <1>2, <2>2
<1> QED BY <1>4, <1>5, <1>6

(* See Appended.                                                           *)
LEMMA TailOf ==
  ASSUME NEW s, IsSeq(s), s # << >>
  PROVE  IsSeq(Tail(s)) /\ (Tail(s) = << >> => Len(s) = 1)
<1> DEFINE S == {s[i] : i \in DOMAIN s}
<1>1. s \in Seq(S) BY DEF IsSeq
<1> HIDE DEF S
<1>2. Tail(s) \in Seq(S) /\ Len(Tail(s)) = Len(s) - 1 /\ Len(s) \in Nat BY <1>1
<1>3. IsSeq(Tail(s)) BY <1>2, SomeSeq
<1>4. ASSUME Tail(s) = << >> PROVE Len(s) = 1
  <2> DEFINE k == Len(s)
             l == Len(Tail(s))
  <2>1. l = 0 BY <1>2, <1>4, EmptySeq
  <2>2. k \in Nat /\ l = k - 1 BY <1>2
  <2> HIDE DEF k, l
  <2>3. k = 1 BY <2>1, <2>2
  <2> QED BY <2>3 DEF k
<1> QED BY <1>3, <1>4

(* A sequence followed by one of n elements is a sequence.                 *)
LEMMA Joins ==
  ASSUME NEW s, IsSeq(s), NEW n \in Nat, NEW f
  PROVE  IsSeq(s \o [i \in 1 .. n |-> f[i]])
<1> DEFINE g == [i \in 1 .. n |-> f[i]]
           T == {s[i] : i \in DOMAIN s} \union {g[i] : i \in 1 .. n}
<1>1. s \in Seq(T) /\ g \in Seq(T) BY DEF IsSeq
<1> HIDE DEF g, T
<1>2. s \o g \in Seq(T) BY <1>1
<1> QED BY <1>2, SomeSeq DEF g

-----------------------------------------------------------------------------
TreeTypes ==
  /\ stage \in [Node -> Stages] /\ DOMAIN parent = Node

(* What the tree's steps leave alone: a node that has joined keeps its     *)
(* place and its parent.                                                   *)
LEMMA ReadyStays ==
  ASSUME TreeTypes, TreeNext
  PROVE  /\ TreeTypes'
         /\ \A n \in Node : stage[n] = "ready" => stage'[n] = "ready" /\ parent'[n] = parent[n]
<1> USE DEF TreeTypes, Goto, Stages
<1>1. CASE Server
  BY <1>1 DEF Server, Serve, SendKidCount, ReadPort, SendParent, ServerThrows, nodeVars
<1>2. ASSUME NEW n \in Node, AllReduceInit(n) \/ Die(n)
      PROVE /\ TreeTypes'
            /\ \A m \in Node : stage[m] = "ready" => stage'[m] = "ready" /\ parent'[m] = parent[m]
  <2>1. CASE Connect(n) BY <2>1 DEF Connect
  <2>2. CASE WriteRegistration(n) BY <2>2 DEF WriteRegistration
  <2>3. CASE ReadOk(n) BY <2>3 DEF ReadOk, Receive
  <2>4. CASE ReadKidCount(n) BY <2>4 DEF ReadKidCount, Receive
  <2>5. CASE Bind(n) BY <2>5 DEF Bind
  <2>6. CASE ReadParent(n) BY <2>6 DEF ReadParent, Receive
  <2>7. CASE JoinParent(n) BY <2>7 DEF JoinParent
  <2>8. CASE CannotConnect(n) BY <2>8 DEF CannotConnect
  <2>9. CASE AcceptChild(n) BY <2>9 DEF AcceptChild
  <2>10. CASE Joined(n) BY <2>10 DEF Joined
  <2>11. CASE Die(n) BY <2>11 DEF Die
  <2> QED BY <1>2, <2>1, <2>2, <2>3, <2>4, <2>5, <2>6, <2>7, <2>8, <2>9, <2>10, <2>11 DEF AllReduceInit
<1> QED BY <1>1, <1>2 DEF TreeNext

(* Broadcast: what a node has read from its parent and sent to its         *)
(* children differs by one chunk at most, and by nothing when it reads.    *)
BroadcastTypes ==
  /\ phase \in [Node -> Phases]
  /\ parent_read_pos \in [Node -> Nat] /\ children_sent_pos \in [Node -> Nat]
  /\ DOMAIN down = Node /\ \A n \in Node : IsSeq(down[n])

InStep(n) ==
  /\ phase[n] # "idle" => stage[n] = "ready"
  /\ phase[n] = "read" =>
       HasParent(n) /\ parent_read_pos[n] < Bytes /\ parent_read_pos[n] <= children_sent_pos[n]
  /\ phase[n] = "broadcast" /\ HasParent(n) =>
       parent_read_pos[n] <= Bytes /\ parent_read_pos[n] <= children_sent_pos[n] + AR_BUF_SIZE

BroadcastInv == TreeTypes /\ BroadcastTypes /\ \A n \in Node : InStep(n)

(* The smaller of two numbers.                                             *)
LEMMA LeastOfTwo ==
  ASSUME NEW a \in Int, NEW b \in Int PROVE Least({a, b}) = IF a <= b THEN a ELSE b
<1>1. \E x \in {a, b} : \A y \in {a, b} : x <= y OBVIOUS
<1>2. Least({a, b}) \in {a, b} /\ \A y \in {a, b} : Least({a, b}) <= y BY <1>1 DEF Least
<1> QED BY <1>2

(* The smallest of three is below each of them.                            *)
LEMMA LeastOfThree ==
  ASSUME NEW a \in Int, NEW b \in Int, NEW c \in Int
  PROVE  Least({a, b, c}) \in Int /\ Least({a, b, c}) <= a /\ Least({a, b, c}) <= b
<1>1. \E x \in {a, b, c} : \A y \in {a, b, c} : x <= y OBVIOUS
<1>2. Least({a, b, c}) \in {a, b, c} /\ \A y \in {a, b, c} : Least({a, b, c}) <= y BY <1>1 DEF Least
<1> QED BY <1>2

(* A buffer has at least one byte, and so has a read.                      *)
LEMMA SizesAreNumbers == Bytes \in Nat /\ Bytes >= 1 /\ AR_BUF_SIZE \in Nat /\ AR_BUF_SIZE >= 1
BY SizesAssumption DEF Bytes

(* At the start nobody is in a call.                                       *)
LEMMA BroadcastStarts == ClusterInit => BroadcastInv
<1> SUFFICES ASSUME ClusterInit PROVE BroadcastInv OBVIOUS
<1>1. TreeTypes
  <2>1. CASE TreeInit BY <2>1 DEF TreeInit, TreeTypes, Stages
  <2>2. CASE JoinedInit BY <2>2 DEF JoinedInit, TreeTypes, Stages
  <2> QED BY <2>1, <2>2 DEF ClusterInit
<1>2. IsSeq(<< >>) BY DEF IsSeq
<1>3. BroadcastTypes BY <1>2 DEF ClusterInit, BroadcastTypes, Phases
<1> QED BY <1>1, <1>3 DEF ClusterInit, BroadcastInv, InStep

(* pass_down: what has been read and fits is sent; see InStep.             *)
LEMMA PassDownKeeps == ASSUME BroadcastInv, NEW n \in Node, PassDown(n) PROVE BroadcastInv'
<1> USE DEF BroadcastInv
<1> DEFINE csp == children_sent_pos[n]
           prp == parent_read_pos[n]
           piece == IF BroadcastDone(n, csp) THEN 0 ELSE PassDownSize(n)
           sent == csp + piece
<1>1. /\ phase[n] = "broadcast" /\ UNCHANGED <<treeVars, parent_read_pos>>
      /\ down' = [c \in Node |-> IF c \in ToSet(children[n]) THEN down[c] \o Chunk(n, csp, piece) ELSE down[c]]
      /\ children_sent_pos' = [children_sent_pos EXCEPT ![n] = sent]
      /\ phase' = [phase EXCEPT ![n] = IF BroadcastDone(n, sent) THEN "idle"
                                       ELSE IF HasParent(n) THEN "read" ELSE "broadcast"]
  BY DEF PassDown
<1>2. csp \in Nat /\ prp \in Nat BY DEF BroadcastTypes
<1>3. piece \in Nat /\ (piece = 0 \/ (prp < csp /\ piece = AR_BUF_SIZE) \/ piece = prp - csp \/ piece = AR_BUF_SIZE)
  BY <1>2, SizesAreNumbers, LeastOfTwo DEF PassDownSize
<1>4. ~BroadcastDone(n, sent) => /\ prp < csp => piece = AR_BUF_SIZE
                                 /\ prp >= csp => piece = Least({AR_BUF_SIZE, prp - csp})
  BY <1>2, <1>3 DEF PassDownSize, BroadcastDone
<1>5. stage' = stage /\ parent' = parent BY <1>1 DEF treeVars, nodeVars
<1>6. BroadcastTypes'
  <2>1. children_sent_pos' \in [Node -> Nat] BY <1>1, <1>2, <1>3 DEF BroadcastTypes
  <2>2. phase' \in [Node -> Phases] BY <1>1 DEF BroadcastTypes, Phases
  <2>3. ASSUME NEW c \in Node PROVE IsSeq(down'[c])
    <3> DEFINE f == [i \in 1 .. piece |-> buffer[n][csp + i - 1]]
    <3>1. IsSeq(down[c]) BY DEF BroadcastTypes
    <3>2. Chunk(n, csp, piece) = [i \in 1 .. piece |-> f[i]] BY DEF Chunk
    <3> HIDE DEF f, piece
    <3>3. IsSeq(down[c] \o [i \in 1 .. piece |-> f[i]]) BY <1>3, <3>1, Joins
    <3> QED BY <1>1, <3>1, <3>2, <3>3
  <2> QED BY <1>1, <2>1, <2>2, <2>3 DEF BroadcastTypes
<1>7. InStep(n)'
  <2> HIDE DEF piece
  <2>1. children_sent_pos'[n] = sent /\ parent_read_pos'[n] = prp BY <1>1 DEF BroadcastTypes
  <2>2. stage'[n] = "ready" BY <1>1, <1>5 DEF InStep
  <2>3. CASE BroadcastDone(n, sent)
    <3>1. phase'[n] = "idle" BY <1>1, <2>3 DEF BroadcastTypes
    <3> QED BY <3>1 DEF InStep
  <2>4. CASE ~BroadcastDone(n, sent) /\ HasParent(n)
    <3>1. phase'[n] = "read" BY <1>1, <2>4 DEF BroadcastTypes
    <3>2. prp <= Bytes /\ prp <= csp + AR_BUF_SIZE BY <1>1, <2>4 DEF InStep
    <3>3. prp <= sent
      <4>1. CASE prp < csp BY <1>2, <1>3, <4>1
      <4>2. CASE prp >= csp
        <5>1. piece = Least({AR_BUF_SIZE, prp - csp}) BY <1>4, <2>4, <4>2
        <5>2. piece = prp - csp BY <1>2, <3>2, <4>2, <5>1, SizesAreNumbers, LeastOfTwo
        <5> QED BY <1>2, <5>2
      <4> QED BY <1>2, <4>1, <4>2
    <3>4. prp < Bytes BY <1>2, <1>3, <2>4, <3>2, <3>3, SizesAreNumbers DEF BroadcastDone
    <3> QED BY <1>5, <2>1, <2>2, <2>4, <3>1, <3>3, <3>4, SizesAreNumbers DEF InStep, HasParent, Bytes
  <2>5. CASE ~BroadcastDone(n, sent) /\ ~HasParent(n)
    <3>1. phase'[n] = "broadcast" BY <1>1, <2>5 DEF BroadcastTypes
    <3> QED BY <1>5, <2>2, <2>5, <3>1 DEF InStep, HasParent
  <2> QED BY <2>3, <2>4, <2>5
<1>8. ASSUME NEW m \in Node, m # n PROVE InStep(m)'
  <2>1. phase'[m] = phase[m] /\ children_sent_pos'[m] = children_sent_pos[m] /\ parent_read_pos' = parent_read_pos
    BY <1>1, <1>8 DEF BroadcastTypes
  <2> QED BY <1>5, <2>1 DEF InStep, HasParent
<1> QED BY <1>5, <1>6, <1>7, <1>8 DEF TreeTypes

(* A read from the parent adds one chunk at most.                          *)
LEMMA ReadParentKeeps == ASSUME BroadcastInv, NEW n \in Node, ReadParentBytes(n) PROVE BroadcastInv'
<1> USE DEF BroadcastInv
<1> DEFINE prp == parent_read_pos[n]
<1>1. PICK read_size \in 1 .. Least({AR_BUF_SIZE, Bytes - prp, Len(down[n])}) :
        /\ down' = [down EXCEPT ![n] = SubSeq(@, read_size + 1, Len(@))]
        /\ parent_read_pos' = [parent_read_pos EXCEPT ![n] = @ + read_size]
  BY DEF ReadParentBytes
<1>2. /\ phase[n] = "read" /\ phase' = [phase EXCEPT ![n] = "broadcast"]
      /\ UNCHANGED <<treeVars, children_sent_pos>>
  BY DEF ReadParentBytes
<1>3. prp \in Nat /\ IsSeq(down[n]) /\ Len(down[n]) \in Nat BY DEF BroadcastTypes, IsSeq
<1>4. read_size \in Nat /\ read_size <= AR_BUF_SIZE /\ read_size <= Bytes - prp
  <2>1. Bytes - prp \in Int BY <1>3, SizesAreNumbers
  <2> DEFINE l == Least({AR_BUF_SIZE, Bytes - prp, Len(down[n])})
  <2>2. l \in Int /\ l <= AR_BUF_SIZE /\ l <= Bytes - prp
    <3> HIDE DEF prp
    <3>1. AR_BUF_SIZE \in Int /\ Bytes - prp \in Int /\ Len(down[n]) \in Int BY <1>3, <2>1, SizesAreNumbers
    <3> QED BY ONLY <3>1, LeastOfThree
  <2>3. read_size \in 1 .. l BY <1>1
  <2> HIDE DEF l
  <2> QED BY <2>1, <2>2, <2>3, SizesAreNumbers
<1>5. stage' = stage /\ parent' = parent BY <1>2 DEF treeVars, nodeVars
<1>6. BroadcastTypes'
  <2>1. parent_read_pos' \in [Node -> Nat] /\ phase' \in [Node -> Phases]
    BY <1>1, <1>2, <1>3, <1>4 DEF BroadcastTypes, Phases
  <2>2. IsSeq(SubSeq(down[n], read_size + 1, Len(down[n])))
    <3> DEFINE S == {down[n][i] : i \in DOMAIN down[n]}
    <3>1. down[n] \in Seq(S) BY <1>3 DEF IsSeq
    <3> HIDE DEF S
    <3>2. SubSeq(down[n], read_size + 1, Len(down[n])) \in Seq(S) BY <1>3, <1>4, <3>1, SubSeqProperties
    <3> QED BY <3>2, SomeSeq
  <2> QED BY <1>1, <1>2, <2>1, <2>2 DEF BroadcastTypes
<1>7. InStep(n)'
  <2>1. phase'[n] = "broadcast" /\ parent_read_pos'[n] = prp + read_size BY <1>1, <1>2 DEF BroadcastTypes
  <2>2. HasParent(n) /\ stage[n] = "ready" /\ prp <= children_sent_pos[n] /\ children_sent_pos[n] \in Nat
    BY <1>2 DEF InStep, BroadcastTypes
  <2>3. prp + read_size <= Bytes /\ prp + read_size <= children_sent_pos[n] + AR_BUF_SIZE
    BY <1>3, <1>4, <2>2, SizesAreNumbers
  <2> QED BY <1>2, <1>5, <2>1, <2>2, <2>3 DEF InStep, HasParent, Bytes
<1>8. ASSUME NEW m \in Node, m # n PROVE InStep(m)'
  <2>1. phase'[m] = phase[m] /\ parent_read_pos'[m] = parent_read_pos[m] /\ children_sent_pos' = children_sent_pos
    BY <1>1, <1>2, <1>8 DEF BroadcastTypes
  <2> QED BY <1>5, <2>1 DEF InStep, HasParent
<1> QED BY <1>5, <1>6, <1>7, <1>8 DEF TreeTypes

(* reduce leaves the positions alone until it begins the broadcast.        *)
LEMMA ReduceKeeps ==
  ASSUME BroadcastInv, NEW n \in Node, Call(n) \/ PassUp(n) \/ Select(n) \/ ReadChild(n)
  PROVE  BroadcastInv'
<1> USE DEF BroadcastInv
<1>1. UNCHANGED <<treeVars, down>> BY DEF Call, PassUp, Select, ReadChild
<1>2. stage' = stage /\ parent' = parent BY <1>1 DEF treeVars, nodeVars
<1>3. stage[n] = "ready" BY DEF Call, PassUp, Select, ReadChild, InStep
<1>4. CASE UNCHANGED <<parent_read_pos, children_sent_pos>>
           /\ phase' = [phase EXCEPT ![n] = phase'[n]] /\ phase'[n] \in {"reduce", "select", "recv"}
  <2>1. BroadcastTypes' BY <1>1, <1>4 DEF BroadcastTypes, Phases
  <2>2. InStep(n)' BY <1>2, <1>3, <1>4 DEF InStep
  <2>3. ASSUME NEW m \in Node, m # n PROVE InStep(m)'
    <3>1. phase'[m] = phase[m] BY <1>4, <2>3 DEF BroadcastTypes
    <3> QED BY <1>2, <1>4, <3>1 DEF InStep, HasParent
  <2> QED BY <1>2, <2>1, <2>2, <2>3 DEF TreeTypes
<1>5. CASE BeginBroadcast(n)
  <2>1. /\ phase' = [phase EXCEPT ![n] = "broadcast"]
        /\ parent_read_pos' = [parent_read_pos EXCEPT ![n] = IF HasParent(n) THEN 0 ELSE Bytes]
        /\ children_sent_pos' = [children_sent_pos EXCEPT ![n] = IF children[n] = <<>> THEN Bytes ELSE 0]
    BY <1>5 DEF BeginBroadcast
  <2>2. BroadcastTypes' BY <1>1, <2>1, SizesAreNumbers DEF BroadcastTypes, Phases
  <2>3. InStep(n)'
    <3>1. /\ phase'[n] = "broadcast" /\ children_sent_pos'[n] \in Nat
          /\ HasParent(n) => parent_read_pos'[n] = 0
      BY <2>1, <2>2 DEF BroadcastTypes
    <3> QED BY <1>2, <1>3, <3>1, SizesAreNumbers DEF InStep, HasParent, Bytes
  <2>4. ASSUME NEW m \in Node, m # n PROVE InStep(m)'
    <3>1. /\ phase'[m] = phase[m] /\ parent_read_pos'[m] = parent_read_pos[m]
          /\ children_sent_pos'[m] = children_sent_pos[m]
      BY <2>1, <2>4 DEF BroadcastTypes
    <3> QED BY <1>2, <3>1 DEF InStep, HasParent
  <2> QED BY <1>2, <2>2, <2>3, <2>4 DEF TreeTypes
<1>6. CASE Call(n) BY <1>4, <1>6 DEF Call, BroadcastTypes
<1>7. CASE Select(n) BY <1>4, <1>7 DEF Select, BroadcastTypes, posVars
<1>8. CASE ReadChild(n)
  <2>1. UNCHANGED <<parent_read_pos, children_sent_pos>> /\ \E l \in {"reduce", "recv"} : phase' = [phase EXCEPT ![n] = l]
    BY <1>8 DEF ReadChild
  <2> QED BY <1>4, <2>1 DEF BroadcastTypes
<1>9. CASE PassUp(n)
  <2>1. phase[n] = "reduce" BY <1>9 DEF PassUp
  <2>2. \/ BeginBroadcast(n)
        \/ UNCHANGED <<phase, parent_read_pos, children_sent_pos>>
        \/ phase' = [phase EXCEPT ![n] = "select"] /\ UNCHANGED <<parent_read_pos, children_sent_pos>>
    BY <1>9 DEF PassUp
  <2> QED BY <1>4, <1>5, <2>1, <2>2 DEF BroadcastTypes
<1> QED BY <1>6, <1>7, <1>8, <1>9

(* Every step of the cluster preserves the invariant.                      *)
LEMMA BroadcastSteps == BroadcastInv /\ [ClusterNext]_clusterVars => BroadcastInv'
<1> SUFFICES ASSUME BroadcastInv, [ClusterNext]_clusterVars PROVE BroadcastInv' OBVIOUS
<1>1. CASE TreeNext /\ UNCHANGED dataVars
  <2>1. /\ TreeTypes' 
        /\ \A n \in Node : stage[n] = "ready" => stage'[n] = "ready" /\ parent'[n] = parent[n]
    BY <1>1, ReadyStays DEF BroadcastInv
  <2>2. UNCHANGED <<phase, down, parent_read_pos, children_sent_pos>> BY <1>1 DEF dataVars, posVars
  <2>3. BroadcastTypes' BY <2>2 DEF BroadcastInv, BroadcastTypes
  <2>4. ASSUME NEW n \in Node PROVE InStep(n)'
    BY <2>1, <2>2 DEF BroadcastInv, InStep, HasParent
  <2> QED BY <2>1, <2>3, <2>4 DEF BroadcastInv
<1>2. ASSUME NEW n \in Node, Stream(n) PROVE BroadcastInv'
  BY <1>2, PassDownKeeps, ReadParentKeeps, ReduceKeeps DEF Stream
<1>3. CASE UNCHANGED clusterVars
  BY <1>3 DEF clusterVars, treeVars, nodeVars, dataVars, posVars, BroadcastInv, TreeTypes, BroadcastTypes,
              InStep, HasParent
<1> QED BY <1>1, <1>2, <1>3 DEF ClusterNext

(* The exception "There is no data to be read from the parent" of          *)
(* broadcast is never thrown, whatever the tree, the sizes and the reads.  *)
THEOREM BroadcastHasData == ClusterSpec => []DataFromParent
<1>1. BroadcastInv => DataFromParent BY DEF BroadcastInv, InStep, DataFromParent
<1> QED BY <1>1, BroadcastStarts, BroadcastSteps, PTL DEF ClusterSpec

-----------------------------------------------------------------------------
(* The registrations.  A node is in the queue of the server's socket until *)
(* it is served, and once it is in the map or in the tree being made it is *)
(* there until it has been told its number of children.                    *)
Waits(n) == \E i \in DOMAIN listenq : listenq[i] = n
Making == server \in {"kids", "ports", "parents"}
Answered == {n \in DOMAIN reg : stage[n] \notin {"absent", "connect"} /\ ~Waits(n)}
Known(n) == n \in Answered

(* Ids of a job.                                                           *)
Ids(n) == 0 .. reg[n].total - 1

RegTypes ==
  /\ scenario \in Scenarios
  /\ stage \in [Node -> Stages]
  /\ server \in {"accept", "kids", "ports", "parents", "down"}
  /\ DOMAIN inbox = Node /\ (\A n \in Node : IsSeq(inbox[n]))
  /\ listenq \in Seq(Node)

(* Nobody is in the queue twice, nor before it has connected; whoever has  *)
(* no answer yet is in it, and who is in it has none.                      *)
Queued ==
  /\ \A i, j \in DOMAIN listenq : listenq[i] = listenq[j] => i = j
  /\ \A n \in Node : stage[n] # "absent" => n \in DOMAIN reg
  /\ \A n \in Node : stage[n] \in {"absent", "connect"} => ~Waits(n) /\ inbox[n] = << >>
  /\ \A n \in Node : Waits(n) => inbox[n] = << >>
  /\ \A n \in Node : stage[n] = "write" \/ (stage[n] = "ok" /\ inbox[n] = << >>) => Waits(n)

(* The map has a set for the ids of its job, of nodes that were served.    *)
MapKnown ==
  \A n \in DOMAIN reg : reg[n].nonce \in DOMAIN partial_nodesets =>
    /\ partial_nodesets[reg[n].nonce] \in [Ids(n) -> Node \union {NoNode}]
    /\ \A i \in Ids(n) : partial_nodesets[reg[n].nonce][i] # NoNode => Known(partial_nodesets[reg[n].nonce][i])

OrderKnown ==
  Making => /\ order \in Seq(Node) /\ at \in 1 .. Len(order)
            /\ \A i \in DOMAIN order : Known(order[i])

IsRemembered(n) ==
  \/ /\ reg[n].nonce \in DOMAIN partial_nodesets /\ reg[n].id \in Ids(n)
     /\ partial_nodesets[reg[n].nonce][reg[n].id] = n
  \/ server = "kids" /\ \E i \in at .. Len(order) : order[i] = n

(* Accepted, and the answer not yet read; or read, and no number yet.      *)
Expects(n) ==
  \/ stage[n] = "ok" /\ Len(inbox[n]) = 1 /\ Head(inbox[n])
  \/ stage[n] = "kid_count" /\ inbox[n] = << >>
NobodyForgotten == server # "down" => \A n \in Node : Expects(n) => IsRemembered(n)

RegInv == RegTypes /\ Queued /\ MapKnown /\ OrderKnown /\ NobodyForgotten

(* At the start nobody is in the queue or in the map.                      *)
LEMMA RegStarts == ClusterInit => RegInv
<1> SUFFICES ASSUME ClusterInit PROVE RegInv OBVIOUS
<1>1. /\ scenario \in Scenarios /\ server = "accept" /\ listenq = << >> /\ partial_nodesets = << >>
      /\ \E a \in {"connect", "ready"} : stage = [n \in Node |-> IF n \in DOMAIN reg THEN a ELSE "absent"]
      /\ inbox = [n \in Node |-> << >>]
  BY DEF ClusterInit, TreeInit, JoinedInit
<1>2. IsSeq(<< >>) BY DEF IsSeq
<1>3. RegTypes BY <1>1, <1>2 DEF RegTypes, Stages
<1>4. \A n : ~Waits(n) BY <1>1 DEF Waits
<1>5. Queued BY <1>1, <1>4 DEF Queued
<1>6. MapKnown /\ OrderKnown BY <1>1 DEF MapKnown, OrderKnown, Making
<1>7. \A n \in Node : stage[n] \notin {"ok", "kid_count"} BY <1>1
<1>8. NobodyForgotten BY <1>7 DEF NobodyForgotten, Expects
<1> QED BY <1>3, <1>5, <1>6, <1>8 DEF RegInv

(* What the registrations of a scenario are.                               *)
LEMMA RegOf ==
  ASSUME RegTypes
  PROVE  /\ DOMAIN reg \subseteq Node /\ NoNode \notin Node
         /\ \A n \in DOMAIN reg : reg[n].total \in Nat \ {0} /\ reg[n].id \in Nat
         /\ \A m, n \in DOMAIN reg : reg[m].nonce = reg[n].nonce => reg[m].total = reg[n].total
BY ScenariosAssumption DEF RegTypes, reg

(* A step of a node that is not waiting for an answer.                     *)
LEMMA NodeKeeps ==
  ASSUME RegInv, NEW n \in Node, NEW l \in Stages \ {"absent", "connect", "write", "ok", "kid_count"},
         stage[n] # "absent", Goto(n, l), UNCHANGED <<scenario, serverVars>>,
         \/ UNCHANGED inbox
         \/ inbox[n] # << >> /\ IsSeq(inbox'[n]) /\ inbox' = [inbox EXCEPT ![n] = inbox'[n]]
  PROVE  RegInv'
<1> USE DEF RegInv
<1>1. /\ server' = server /\ listenq' = listenq /\ partial_nodesets' = partial_nodesets
      /\ order' = order /\ at' = at /\ reg' = reg /\ scenario' = scenario
  BY DEF serverVars, reg
<1>2. /\ stage' \in [Node -> Stages] /\ stage'[n] = l /\ \A m \in Node : m # n => stage'[m] = stage[m]
  BY DEF Goto, RegTypes
<1>3. /\ DOMAIN inbox' = Node /\ (\A m \in Node : IsSeq(inbox'[m]))
      /\ \A m \in Node : m # n => inbox'[m] = inbox[m]
  BY DEF RegTypes
<1>4. RegTypes' BY <1>1, <1>2, <1>3 DEF RegTypes
<1>5. \A m : Waits(m)' <=> Waits(m) BY <1>1 DEF Waits
<1>6. \A m : Known(m) => Known(m)'
  <2> SUFFICES ASSUME NEW m, Known(m) PROVE Known(m)' OBVIOUS
  <2>1. m \in Node BY RegOf DEF Known, Answered
  <2> QED BY <1>1, <1>2, <1>5, <2>1 DEF Known, Answered
<1>7. Queued'
  <2>1. \A m \in Node : stage'[m] # "absent" => m \in DOMAIN reg BY <1>2 DEF Queued
  <2>2. \A m \in Node : stage'[m] \in {"absent", "connect"} => ~Waits(m)' /\ inbox'[m] = << >>
    BY <1>2, <1>3, <1>5 DEF Queued
  <2>3. \A m \in Node : Waits(m)' => inbox'[m] = << >> BY <1>3, <1>5 DEF Queued
  <2>4. \A m \in Node : stage'[m] = "write" \/ (stage'[m] = "ok" /\ inbox'[m] = << >>) => Waits(m)'
    BY <1>2, <1>3, <1>5 DEF Queued
  <2> QED BY <1>1, <2>1, <2>2, <2>3, <2>4 DEF Queued
<1>8. MapKnown' /\ OrderKnown' BY <1>1, <1>6 DEF MapKnown, OrderKnown, Making, Ids
<1>9. NobodyForgotten'
  <2>1. \A m \in Node : Expects(m)' => Expects(m) BY <1>2, <1>3 DEF Expects
  <2>2. \A m : IsRemembered(m)' <=> IsRemembered(m) BY <1>1 DEF IsRemembered, Ids
  <2> QED BY <1>1, <2>1, <2>2 DEF NobodyForgotten
<1> QED BY <1>4, <1>7, <1>8, <1>9

(* Joining the queue: the node was not in it.                              *)
LEMMA ConnectKeeps == ASSUME RegInv, NEW n \in Node, Connect(n) PROVE RegInv'
<1> USE DEF RegInv
<1>1. /\ stage[n] = "connect" /\ listenq' = Append(listenq, n) /\ Goto(n, "write")
      /\ server' = server /\ partial_nodesets' = partial_nodesets /\ inbox' = inbox
      /\ order' = order /\ at' = at /\ reg' = reg /\ scenario' = scenario
  BY DEF Connect, reg
<1>2. /\ stage' \in [Node -> Stages] /\ stage'[n] = "write"
      /\ \A m \in Node : m # n => stage'[m] = stage[m]
  BY <1>1 DEF Goto, RegTypes, Stages
<1>3. /\ listenq \in Seq(Node) /\ Len(listenq) \in Nat /\ DOMAIN listenq = 1 .. Len(listenq)
      /\ listenq' \in Seq(Node) /\ DOMAIN listenq' = 1 .. Len(listenq) + 1
      /\ listenq'[Len(listenq) + 1] = n /\ \A i \in 1 .. Len(listenq) : listenq'[i] = listenq[i]
  BY <1>1, AppendProperties, LenProperties DEF RegTypes
<1>4. ~Waits(n) /\ n \in DOMAIN reg BY <1>1 DEF Queued
<1>5. \A m : Waits(m)' <=> Waits(m) \/ m = n BY <1>3 DEF Waits
<1>6. RegTypes' BY <1>1, <1>2, <1>3 DEF RegTypes
<1>7. \A m : Known(m) => Known(m)'
  <2> SUFFICES ASSUME NEW m, Known(m) PROVE Known(m)' OBVIOUS
  <2>1. m \in Node /\ m # n BY <1>1, RegOf DEF Known, Answered
  <2> QED BY <1>1, <1>2, <1>5, <2>1 DEF Known, Answered
<1>8. Queued'
  <2>1. ASSUME NEW i \in DOMAIN listenq', NEW j \in DOMAIN listenq', listenq'[i] = listenq'[j] PROVE i = j
    <3>1. CASE i \in 1 .. Len(listenq) /\ j \in 1 .. Len(listenq) BY <1>3, <2>1, <3>1 DEF Queued
    <3>2. \A k \in 1 .. Len(listenq) : listenq'[k] # n BY <1>3, <1>4 DEF Waits
    <3> QED BY <1>3, <2>1, <3>1, <3>2
  <2>2. \A m \in Node : stage'[m] # "absent" => m \in DOMAIN reg BY <1>2, <1>4 DEF Queued
  <2>3. \A m \in Node : stage'[m] \in {"absent", "connect"} => ~Waits(m)' /\ inbox'[m] = << >>
    BY <1>1, <1>2, <1>5 DEF Queued
  <2>5. \A m \in Node : Waits(m)' => inbox'[m] = << >> BY <1>1, <1>5 DEF Queued
  <2>4. \A m \in Node : stage'[m] = "write" \/ (stage'[m] = "ok" /\ inbox'[m] = << >>) => Waits(m)'
    BY <1>1, <1>2, <1>5 DEF Queued
  <2> QED BY <1>1, <2>1, <2>2, <2>3, <2>4, <2>5 DEF Queued
<1>9. MapKnown' /\ OrderKnown' BY <1>1, <1>7 DEF MapKnown, OrderKnown, Making, Ids
<1>10. NobodyForgotten'
  <2>1. \A m \in Node : Expects(m)' => Expects(m) BY <1>1, <1>2 DEF Expects
  <2>2. \A m : IsRemembered(m)' <=> IsRemembered(m) BY <1>1 DEF IsRemembered, Ids
  <2> QED BY <1>1, <2>1, <2>2 DEF NobodyForgotten
<1> QED BY <1>6, <1>8, <1>9, <1>10

(* The node has written its registration: it is still in the queue.       *)
LEMMA WriteKeeps == ASSUME RegInv, NEW n \in Node, WriteRegistration(n) PROVE RegInv'
<1> USE DEF RegInv
<1>1. /\ server' = server /\ partial_nodesets' = partial_nodesets /\ listenq' = listenq
      /\ order' = order /\ at' = at /\ reg' = reg /\ scenario' = scenario
      /\ stage[n] = "write" /\ Goto(n, "ok") /\ inbox' = inbox
  BY DEF WriteRegistration, serverVars, reg
<1>2. /\ stage' \in [Node -> Stages] /\ stage'[n] = "ok" /\ \A m \in Node : m # n => stage'[m] = stage[m]
  BY <1>1 DEF Goto, RegTypes, Stages
<1>3. Waits(n) /\ inbox[n] = << >> BY <1>1 DEF Queued
<1>4. \A m : Waits(m)' <=> Waits(m) BY <1>1 DEF Waits
<1>5. RegTypes' BY <1>1, <1>2 DEF RegTypes
<1>6. \A m : Known(m) => Known(m)'
  <2> SUFFICES ASSUME NEW m, Known(m) PROVE Known(m)' OBVIOUS
  <2>1. m \in Node BY RegOf DEF Known, Answered
  <2> QED BY <1>1, <1>2, <1>4, <2>1 DEF Known, Answered
<1>7. Queued' BY <1>1, <1>2, <1>3, <1>4 DEF Queued
<1>8. MapKnown' /\ OrderKnown' BY <1>1, <1>6 DEF MapKnown, OrderKnown, Making, Ids
<1>9. NobodyForgotten'
  <2>1. Len(inbox[n]) # 1 BY <1>3, EmptySeq
  <2>2. \A m \in Node : Expects(m)' => Expects(m) BY <1>1, <1>2, <2>1 DEF Expects
  <2>3. \A m : IsRemembered(m)' <=> IsRemembered(m) BY <1>1 DEF IsRemembered, Ids
  <2> QED BY <1>1, <2>2, <2>3 DEF NobodyForgotten
<1> QED BY <1>5, <1>7, <1>8, <1>9

(* The answer is read: whoever was accepted goes on waiting.               *)
LEMMA ReadOkKeeps == ASSUME RegInv, NEW n \in Node, ReadOk(n) PROVE RegInv'
<1> USE DEF RegInv
<1>1. /\ server' = server /\ partial_nodesets' = partial_nodesets /\ listenq' = listenq
      /\ order' = order /\ at' = at /\ reg' = reg /\ scenario' = scenario
      /\ stage[n] = "ok" /\ inbox[n] # << >> /\ inbox' = [inbox EXCEPT ![n] = Tail(@)]
      /\ Goto(n, IF Head(inbox[n]) THEN "kid_count" ELSE "threw")
  BY DEF ReadOk, Receive, serverVars, reg
<1>2. /\ DOMAIN inbox' = Node /\ inbox'[n] = Tail(inbox[n]) /\ IsSeq(inbox[n])
      /\ \A m \in Node : m # n => inbox'[m] = inbox[m]
  BY <1>1 DEF RegTypes
<1>3. IsSeq(Tail(inbox[n])) /\ (Tail(inbox[n]) = << >> => Len(inbox[n]) = 1) BY <1>1, <1>2, TailOf
<1>4. /\ stage' \in [Node -> Stages] /\ stage'[n] = IF Head(inbox[n]) THEN "kid_count" ELSE "threw"
      /\ \A m \in Node : m # n => stage'[m] = stage[m]
  BY <1>1 DEF Goto, RegTypes, Stages
<1>5. \A m : Waits(m)' <=> Waits(m) BY <1>1 DEF Waits
<1>6. ~Waits(n) BY <1>1 DEF Queued
<1>7. RegTypes' BY <1>1, <1>2, <1>3, <1>4 DEF RegTypes
<1>8. \A m : Known(m) => Known(m)'
  <2> SUFFICES ASSUME NEW m, Known(m) PROVE Known(m)' OBVIOUS
  <2>1. m \in Node BY RegOf DEF Known, Answered
  <2> QED BY <1>1, <1>4, <1>5, <2>1 DEF Known, Answered
<1>9. Queued' BY <1>1, <1>2, <1>4, <1>5, <1>6, ZenonT(60) DEF Queued
<1>10. MapKnown' /\ OrderKnown' BY <1>1, <1>8 DEF MapKnown, OrderKnown, Making, Ids
<1>11. NobodyForgotten'
  <2>1. Expects(n)' => Expects(n) BY <1>1, <1>2, <1>3, <1>4 DEF Expects
  <2>2. \A m \in Node : m # n => (Expects(m)' => Expects(m)) BY <1>2, <1>4 DEF Expects
  <2>3. \A m : IsRemembered(m)' <=> IsRemembered(m) BY <1>1 DEF IsRemembered, Ids
  <2> QED BY <1>1, <2>1, <2>2, <2>3 DEF NobodyForgotten
<1> QED BY <1>7, <1>9, <1>10, <1>11

(* Steps of the others.                                                    *)
LEMMA RegStutters ==
  ASSUME RegInv, UNCHANGED <<scenario, server, listenq, partial_nodesets, order, at, stage, inbox>>
  PROVE  RegInv'
<1> USE DEF RegInv
<1>1. RegTypes' BY DEF RegTypes
<1>2. Queued' BY DEF Queued, Waits, reg
<1>3. MapKnown' BY DEF MapKnown, Known, Answered, Waits, Ids, reg
<1>4. OrderKnown' BY DEF OrderKnown, Making, Known, Answered, Waits, reg
<1>5. NobodyForgotten' BY DEF NobodyForgotten, Expects, IsRemembered, Ids, reg
<1> QED BY <1>1, <1>2, <1>3, <1>4, <1>5

(* The steps of a node.                                                    *)
LEMMA NodesKeep == ASSUME RegInv, NEW n \in Node, AllReduceInit(n) \/ Die(n) PROVE RegInv'
<1> DEFINE Rest == Stages \ {"absent", "connect", "write", "ok", "kid_count"}
<1>0. stage[n] \in Stages /\ IsSeq(inbox[n]) BY DEF RegInv, RegTypes
<1>1. CASE Connect(n) BY <1>1, ConnectKeeps
<1>2. CASE WriteRegistration(n) BY <1>2, WriteKeeps
<1>3. CASE ReadOk(n) BY <1>3, ReadOkKeeps
<1>4. CASE ReadKidCount(n) \/ ReadParent(n)
  <2>1. /\ stage[n] # "absent" /\ inbox[n] # << >> /\ inbox' = [inbox EXCEPT ![n] = Tail(@)]
        /\ UNCHANGED <<scenario, serverVars>>
    BY <1>4 DEF ReadKidCount, ReadParent, Receive
  <2>2. \E l \in Rest : Goto(n, l) BY <1>4 DEF ReadKidCount, ReadParent, Stages
  <2>3. inbox'[n] = Tail(inbox[n]) BY <2>1 DEF RegInv, RegTypes
  <2>4. IsSeq(inbox'[n]) /\ inbox' = [inbox EXCEPT ![n] = inbox'[n]] BY <1>0, <2>1, <2>3, TailOf
  <2> QED BY <2>1, <2>2, <2>4, NodeKeeps
<1>5. CASE Bind(n) \/ JoinParent(n) \/ CannotConnect(n) \/ Joined(n) \/ Die(n)
  <2>1. stage[n] # "absent" /\ UNCHANGED <<scenario, serverVars, inbox>>
    BY <1>5 DEF Bind, JoinParent, CannotConnect, Joined, Die
  <2>2. \E l \in Rest : Goto(n, l) BY <1>5 DEF Bind, JoinParent, CannotConnect, Joined, Die, Stages
  <2> QED BY <2>1, <2>2, NodeKeeps
<1>6. CASE AcceptChild(n)
  <2>1. UNCHANGED <<scenario, server, listenq, partial_nodesets, order, at, stage, inbox>>
    BY <1>6 DEF AcceptChild, serverVars
  <2> QED BY <2>1, RegStutters
<1> QED BY <1>1, <1>2, <1>3, <1>4, <1>5, <1>6 DEF AllReduceInit

(* Where a loop over 1 .. k goes from i, and what is left of it.           *)
LEMMA Turn ==
  ASSUME NEW k \in Nat, NEW i \in 1 .. k
  PROVE  /\ 1 \in 1 .. k /\ (i < k => i + 1 \in 1 .. k) /\ (~(i < k) => i = k)
         /\ \A j \in i .. k : j # i => i # k /\ j \in i + 1 .. k
OBVIOUS

(* A turn of one of the server's loops over the nodes of the tree.         *)
LEMMA LoopKeeps ==
  ASSUME RegInv, Making, NEW x, NEW then \in {"ports", "parents", "accept"}, Loop(then),
         UNCHANGED <<scenario, listenq, partial_nodesets, order, stage>>,
         \/ inbox' = [inbox EXCEPT ![order[at]] = Append(@, x)]
         \/ server = "ports" /\ UNCHANGED inbox
  PROVE  RegInv'
<1> USE DEF RegInv
<1> DEFINE n == order[at]
<1>1. reg' = reg /\ \A m : (Waits(m)' <=> Waits(m)) /\ (Known(m)' <=> Known(m)) BY DEF reg, Waits, Known, Answered
<1>2. /\ order \in Seq(Node) /\ at \in 1 .. Len(order) /\ Len(order) \in Nat /\ DOMAIN order = 1 .. Len(order)
      /\ n \in Node /\ Known(n)
  BY DEF OrderKnown
<1> HIDE DEF n
<1>3. /\ DOMAIN inbox' = Node /\ (\A m \in Node : m # n => inbox'[m] = inbox[m])
      /\ inbox'[n] = Append(inbox[n], x) \/ (server = "ports" /\ inbox'[n] = inbox[n])
      /\ IsSeq(inbox[n])
  BY <1>2 DEF RegTypes, n
<1>4. IsSeq(Append(inbox[n], x)) /\ Append(inbox[n], x) # << >> /\ (Len(Append(inbox[n], x)) = 1 => inbox[n] = << >>)
  BY <1>3, Appended
<1>5. /\ server' \in {"accept", "kids", "ports", "parents"} /\ at' \in 1 .. Len(order)
      /\ \/ at' = at + 1 /\ server' = server
         \/ at = Len(order) /\ server' # "kids"
  <2>1. CASE at < Len(order) BY <1>2, <2>1 DEF Loop, Making, RegTypes
  <2>2. CASE ~(at < Len(order))
    <3>1. at' = 1 /\ server' = then BY <2>2 DEF Loop
    <3>2. at = Len(order) /\ 1 \in 1 .. Len(order) BY ONLY <1>2, <2>2, Turn
    <3> QED BY <3>1, <3>2
  <2> QED BY <2>1, <2>2
<1>6. RegTypes' BY <1>3, <1>4, <1>5 DEF RegTypes
<1>7. Queued'
  <2>1. ~Waits(n) /\ stage[n] \notin {"absent", "connect"} BY <1>2 DEF Known, Answered
  <2>2. stage[n] = "ok" => inbox[n] # << >> BY <1>2, <2>1 DEF Queued
  <2>3. stage[n] # "write" BY <1>2, <2>1 DEF Queued
  <2>4. \A m \in Node : stage'[m] \in {"absent", "connect"} => ~Waits(m)' /\ inbox'[m] = << >>
    BY <1>1, <1>3, <2>1 DEF Queued
  <2>5. \A m \in Node : Waits(m)' => inbox'[m] = << >> BY <1>1, <1>3, <2>1 DEF Queued
  <2>6. \A m \in Node : stage'[m] = "write" \/ (stage'[m] = "ok" /\ inbox'[m] = << >>) => Waits(m)'
    BY <1>1, <1>3, <1>4, <2>2, <2>3 DEF Queued
  <2> QED BY <1>1, <2>4, <2>5, <2>6 DEF Queued
<1>8. MapKnown' BY <1>1 DEF MapKnown, Ids
<1>9. OrderKnown' BY <1>1, <1>2, <1>5 DEF OrderKnown
<1>10. NobodyForgotten'
  <2> SUFFICES ASSUME NEW m \in Node, Expects(m)' PROVE IsRemembered(m)' BY DEF NobodyForgotten
  <2>1. server # "down" BY DEF Making
  <2>2. CASE server = "ports" /\ inbox' = inbox
    <3>1. Expects(m) BY <2>2 DEF Expects
    <3>2. IsRemembered(m) BY <2>1, <3>1 DEF NobodyForgotten
    <3> QED BY <1>1, <2>2, <3>2 DEF IsRemembered, Ids
  <2>3. CASE inbox' = [inbox EXCEPT ![order[at]] = Append(@, x)]
    <3>1. inbox'[n] = Append(inbox[n], x) BY <1>2, <2>3 DEF RegTypes, n
    <3>2. m # n
      <4> SUFFICES ASSUME m = n PROVE FALSE OBVIOUS
      <4>1. stage[n] = "ok" /\ inbox[n] = << >> BY <1>4, <3>1 DEF Expects
      <4> QED BY <1>2, <4>1 DEF Queued, Known, Answered
    <3>3. Expects(m) BY <1>3, <3>2 DEF Expects
    <3>4. IsRemembered(m) BY <2>1, <3>3 DEF NobodyForgotten
    <3>5. CASE server = "kids" /\ \E i \in at .. Len(order) : order[i] = m
      <4>1. PICK i \in at .. Len(order) : order[i] = m BY <3>5
      <4>2. i # at BY <3>2, <4>1 DEF n
      <4>3. at # Len(order) /\ i \in at + 1 .. Len(order) BY ONLY <1>2, <4>1, <4>2, Turn
      <4>4. at' = at + 1 /\ server' = server /\ i \in at' .. Len(order) BY <1>5, <4>3
      <4> QED BY <3>5, <4>1, <4>4 DEF IsRemembered, Ids
    <3> QED BY <1>1, <3>4, <3>5 DEF IsRemembered, Ids
  <2> QED BY <2>2, <2>3
<1> QED BY <1>6, <1>7, <1>8, <1>9, <1>10

(* The map after a node is served: its job has the old set or the old set  *)
(* with the node, the other jobs what they had.                            *)
LEMMA ServeKeeps == ASSUME RegInv, Serve PROVE RegInv'
<1> USE DEF RegInv
<1>0. PICK n, r, old, ok, nodes :
        /\ n = Head(listenq) /\ r = reg[n] /\ old = Nodeset(r.nonce, r.total) /\ ok = Accepted(old, r)
        /\ nodes = IF ok THEN [old EXCEPT ![r.id] = n] ELSE old
  OBVIOUS
<1>1. /\ server = "accept" /\ listenq # << >> /\ stage[n] \notin {"write", "lost"}
      /\ listenq' = Tail(listenq) /\ inbox' = [inbox EXCEPT ![n] = Append(@, ok)]
      /\ stage' = stage /\ scenario' = scenario /\ reg' = reg
  BY <1>0 DEF Serve, nodeVars, reg
<1>2. \/ /\ \E i \in DOMAIN nodes : nodes[i] = NoNode
         /\ partial_nodesets' = Remembered(r, nodes, ok)
         /\ UNCHANGED <<server, order, at>>
      \/ /\ \A i \in DOMAIN nodes : nodes[i] # NoNode
         /\ partial_nodesets' = Without(r.nonce)
         /\ order' \in SetToSeqs({nodes[i] : i \in DOMAIN nodes})
         /\ server' = "kids" /\ at' = 1
  BY <1>0 DEF Serve
<1>3. /\ listenq \in Seq(Node) /\ Len(listenq) \in Nat /\ 1 \in DOMAIN listenq /\ listenq[1] = n
      /\ listenq' \in Seq(Node) /\ n \in Node
      /\ \A i \in DOMAIN listenq : i # 1 => i - 1 \in DOMAIN listenq' /\ listenq'[i - 1] = listenq[i]
      /\ \A i \in DOMAIN listenq' : i + 1 \in DOMAIN listenq /\ i + 1 # 1 /\ i \in Nat /\ listenq'[i] = listenq[i + 1]
  BY <1>0, <1>1 DEF RegTypes
<1>4. Waits(n) BY <1>3 DEF Waits
<1>5. \A m : Waits(m)' <=> Waits(m) /\ m # n
  <2>1. \A m : Waits(m) /\ m # n => Waits(m)' BY <1>3 DEF Waits
  <2>2. \A m : Waits(m)' => Waits(m) BY <1>3 DEF Waits
  <2>3. ~Waits(n)'
    <3> SUFFICES ASSUME NEW i \in DOMAIN listenq', listenq'[i] = n PROVE FALSE BY DEF Waits
    <3>1. listenq[i + 1] = listenq[1] /\ i + 1 \in DOMAIN listenq /\ i + 1 # 1 BY <1>3
    <3> QED BY <1>3, <3>1 DEF Queued
  <2> QED BY <2>1, <2>2, <2>3
<1>6. /\ n \in DOMAIN reg /\ inbox[n] = << >> /\ stage[n] \notin {"absent", "connect"}
      /\ IsSeq(inbox[n])
  BY <1>3, <1>4 DEF Queued, RegTypes
<1>7. \A m : Known(m) => Known(m)' /\ m # n BY <1>1, <1>4, <1>5 DEF Known, Answered
<1>8. Known(n)' BY <1>1, <1>5, <1>6 DEF Known, Answered
<1>9. r.total \in Nat \ {0} /\ r.id \in Nat /\ NoNode \notin Node /\ DOMAIN reg \subseteq Node BY <1>0, <1>6, RegOf
<1>10. /\ old \in [Ids(n) -> Node \union {NoNode}]
       /\ \A i \in Ids(n) : old[i] # NoNode => Known(old[i])
  BY <1>0, <1>6 DEF Nodeset, MapKnown, Ids
<1>11. /\ nodes \in [Ids(n) -> Node \union {NoNode}]
       /\ \A i \in Ids(n) : nodes[i] # NoNode => Known(nodes[i])'
       /\ \A i \in Ids(n) : old[i] # NoNode => nodes[i] = old[i]
       /\ ok => r.id \in Ids(n) /\ nodes[r.id] = n
  <2>1. CASE ok
    <3>1. r.id < r.total /\ old[r.id] = NoNode BY <1>0, <2>1 DEF Accepted
    <3>0. r.id \in Ids(n)
      <4>1. Ids(n) = 0 .. r.total - 1 BY <1>0 DEF Ids
      <4> QED BY <1>9, <3>1, <4>1
    <3>2. nodes = [old EXCEPT ![r.id] = n] BY <1>0, <2>1
    <3>3. nodes \in [Ids(n) -> Node \union {NoNode}] /\ nodes[r.id] = n /\ \A i \in Ids(n) : i # r.id => nodes[i] = old[i]
      BY <1>3, <1>10, <3>0, <3>2
    <3> QED BY <1>7, <1>8, <1>10, <3>0, <3>1, <3>3
  <2>2. CASE ~ok BY <1>0, <1>7, <1>10, <2>2
  <2> QED BY <2>1, <2>2
<1>12. inbox'[n] = Append(inbox[n], ok) /\ DOMAIN inbox' = Node /\ \A m \in Node : m # n => inbox'[m] = inbox[m]
  BY <1>1, <1>3 DEF RegTypes
<1>13. /\ IsSeq(Append(inbox[n], ok)) /\ Append(inbox[n], ok) # << >>
       /\ Len(Append(inbox[n], ok)) = 1 => Head(Append(inbox[n], ok)) = ok
  BY <1>6, Appended
<1>14. RegTypes'
  <2>1. server' \in {"accept", "kids"} BY <1>1, <1>2
  <2> QED BY <1>1, <1>3, <1>12, <1>13, <2>1 DEF RegTypes
<1>15. Queued'
  <2>1. ASSUME NEW i \in DOMAIN listenq', NEW j \in DOMAIN listenq', listenq'[i] = listenq'[j] PROVE i = j
    <3>1. i + 1 = j + 1 BY <1>3, <2>1 DEF Queued
    <3> QED BY <1>3, <3>1
  <2>2. \A m \in Node : stage'[m] \in {"absent", "connect"} => ~Waits(m)' /\ inbox'[m] = << >>
    BY <1>1, <1>5, <1>6, <1>12 DEF Queued
  <2>3. \A m \in Node : Waits(m)' => inbox'[m] = << >> BY <1>5, <1>12 DEF Queued
  <2>4. \A m \in Node : stage'[m] = "write" \/ (stage'[m] = "ok" /\ inbox'[m] = << >>) => Waits(m)'
    BY <1>1, <1>5, <1>12, <1>13 DEF Queued
  <2> QED BY <1>1, <2>1, <2>2, <2>3, <2>4 DEF Queued
<1>16. /\ \A k : k # r.nonce => /\ k \in DOMAIN partial_nodesets' <=> k \in DOMAIN partial_nodesets
                                /\ k \in DOMAIN partial_nodesets => partial_nodesets'[k] = partial_nodesets[k]
       /\ r.nonce \in DOMAIN partial_nodesets' => partial_nodesets'[r.nonce] = nodes
       /\ server' # "kids" => r.nonce \in DOMAIN partial_nodesets'
  <2>1. CASE partial_nodesets' = Remembered(r, nodes, ok)
    BY <2>1 DEF Remembered
  <2>2. CASE partial_nodesets' = Without(r.nonce) /\ server' = "kids"
    BY <2>2 DEF Without
  <2> QED BY <1>2, <2>1, <2>2
<1>17. MapKnown'
  <2> SUFFICES ASSUME NEW m \in DOMAIN reg, reg[m].nonce \in DOMAIN partial_nodesets'
               PROVE  /\ partial_nodesets'[reg[m].nonce] \in [Ids(m) -> Node \union {NoNode}]
                      /\ \A i \in Ids(m) : partial_nodesets'[reg[m].nonce][i] # NoNode
                                             => partial_nodesets'[reg[m].nonce][i] \in Answered'
    BY <1>1 DEF MapKnown, Ids, Known
  <2>1. CASE reg[m].nonce = r.nonce
    <3>1. Ids(m) = Ids(n) BY <1>0, <1>6, <2>1, RegOf DEF Ids
    <3> QED BY <1>11, <1>16, <2>1, <3>1 DEF Known
  <2>2. CASE reg[m].nonce # r.nonce BY <1>7, <1>16, <2>2 DEF MapKnown, Known
  <2> QED BY <2>1, <2>2
<1> DEFINE S == {nodes[i] : i \in Ids(n)}
<1>18. ASSUME server' = "kids"
       PROVE  /\ order' \in Seq(Node) /\ at' = 1 /\ Len(order') >= 1 /\ DOMAIN order' = 1 .. Len(order')
              /\ \A i \in DOMAIN order' : order'[i] \in S
              /\ \A m \in S : \E i \in DOMAIN order' : order'[i] = m
              /\ \A m \in S : m # NoNode
  <2>1. at' = 1 /\ order' \in SetToSeqs(S) /\ \A i \in Ids(n) : nodes[i] # NoNode
    BY <1>1, <1>2, <1>11, <1>18
  <2>2. S \subseteq Node BY <1>11, <2>1
  <2>3. IsFiniteSet(S)
    <3>1. IsFiniteSet(Ids(n))
      <4>1. 0 \in Int /\ reg[n].total - 1 \in Int BY <1>0, <1>9
      <4> QED BY <4>1, FS_Interval DEF Ids
    <3>2. nodes \in Surjection(Ids(n), S)
      <4>1. nodes \in [Ids(n) -> S] BY <1>11
      <4> QED BY <4>1 DEF Surjection
    <3> QED BY <3>1, <3>2, FS_Surjection
  <2>4. S # {}
    <3>1. 0 \in Ids(n) BY <1>0, <1>9 DEF Ids
    <3> QED BY <3>1
  <2> HIDE DEF S
  <2>5. Cardinality(S) \in Nat /\ Cardinality(S) >= 1
    BY <2>3, <2>4, FS_CardinalityType, FS_EmptySet
  <2> DEFINE c == Cardinality(S)
  <2>6. order' \in [1 .. c -> S] /\ \A i, j \in 1 .. c : i # j => order'[i] # order'[j] BY <2>1 DEF SetToSeqs
  <2> HIDE DEF c
  <2>7. order' \in Surjection(1 .. c, S)
    <3>1. order' \in Injection(1 .. c, S) BY <2>6 DEF Injection, IsInjective
    <3>2. Cardinality(1 .. c) = c BY <2>5, FS_Interval DEF c
    <3> QED BY <2>3, <3>1, <3>2, FS_Injection DEF c
  <2>8. order' \in Seq(Node) /\ Len(order') = c BY <2>2, <2>5, <2>6 DEF c
  <2>9. \A m \in S : \E i \in 1 .. c : order'[i] = m BY <2>7 DEF Surjection
  <2>10. \A m \in S : m # NoNode BY <1>9, <2>2
  <2> QED BY <2>1, <2>5, <2>6, <2>8, <2>9, <2>10 DEF c
<1>19. OrderKnown'
  <2> SUFFICES ASSUME Making' PROVE OrderKnown' BY DEF OrderKnown
  <2>1. server' = "kids" BY <1>1, <1>2 DEF Making
  <2>2. \A i \in DOMAIN order' : order'[i] \in Answered' BY <1>11, <1>18, <2>1 DEF Known
  <2>3. at' \in 1 .. Len(order') BY <1>18, <2>1
  <2> QED BY <1>18, <2>1, <2>2, <2>3 DEF OrderKnown, Known
<1>20. NobodyForgotten'
  <2> SUFFICES ASSUME NEW m \in Node, Expects(m)' PROVE IsRemembered(m)' BY DEF NobodyForgotten
  <2>1. m \in DOMAIN reg BY <1>1 DEF Expects, Queued
  <2>2. CASE reg[m].nonce # r.nonce
    <3>1. m # n BY <1>0, <2>2
    <3>2. Expects(m) BY <1>1, <1>12, <3>1 DEF Expects
    <3>3. IsRemembered(m) BY <1>1, <3>2 DEF NobodyForgotten
    <3> QED BY <1>1, <1>16, <2>2, <3>3 DEF IsRemembered, Ids
  <2>3. CASE reg[m].nonce = r.nonce
    <3>1. reg[m].id \in Ids(n) /\ nodes[reg[m].id] = m
      <4>1. CASE m = n
        <5>1. ok BY <1>12, <1>13, <4>1 DEF Expects
        <5> QED BY <1>0, <1>11, <4>1, <5>1
      <4>2. CASE m # n
        <5>1. Expects(m) BY <1>1, <1>12, <4>2 DEF Expects
        <5>2. /\ reg[m].nonce \in DOMAIN partial_nodesets /\ reg[m].id \in Ids(m)
              /\ partial_nodesets[reg[m].nonce][reg[m].id] = m
          BY <1>1, <5>1 DEF NobodyForgotten, IsRemembered
        <5>3. old[reg[m].id] = m BY <1>0, <2>3, <5>2 DEF Nodeset
        <5>4. Ids(m) = Ids(n) BY <1>0, <1>6, <2>1, <2>3, RegOf DEF Ids
        <5> QED BY <1>9, <1>11, <5>2, <5>3, <5>4
      <4> QED BY <4>1, <4>2
    <3>2. CASE server' = "kids"
      <4>1. \E i \in 1 .. Len(order') : order'[i] = m BY <1>18, <3>1, <3>2
      <4> QED BY <1>18, <3>2, <4>1 DEF IsRemembered, Ids
    <3>3. CASE server' # "kids"
      <4>1. Ids(m) = Ids(n) BY <1>0, <1>6, <2>1, <2>3, RegOf DEF Ids
      <4>2. partial_nodesets'[r.nonce] = nodes /\ r.nonce \in DOMAIN partial_nodesets' BY <1>16, <3>3
      <4>3. Ids(m)' = Ids(m) BY <1>1 DEF Ids
      <4> QED BY <1>1, <2>3, <3>1, <4>1, <4>2, <4>3 DEF IsRemembered
    <3> QED BY <3>2, <3>3
  <2> QED BY <2>2, <2>3
<1> QED BY <1>14, <1>15, <1>17, <1>19, <1>20

(* The server's steps: accept, the loops over the nodes, and its end.      *)
LEMMA ServerKeeps == ASSUME RegInv, Server PROVE RegInv'
<1>1. CASE Serve BY <1>1, ServeKeeps
<1>2. CASE SendKidCount
  <2>1. /\ Making /\ Loop("ports") /\ inbox' = [inbox EXCEPT ![order[at]] = Append(@, Kids(at))]
        /\ UNCHANGED <<scenario, listenq, partial_nodesets, order, stage>>
    BY <1>2 DEF SendKidCount, Making, nodeVars
  <2> QED BY <2>1, LoopKeeps
<1>3. CASE ReadPort
  <2>1. /\ Making /\ server = "ports" /\ Loop("parents") /\ inbox' = inbox
        /\ UNCHANGED <<scenario, listenq, partial_nodesets, order, stage>>
    BY <1>3 DEF ReadPort, AfterPorts, Making, nodeVars
  <2> QED BY <2>1, LoopKeeps
<1>4. CASE SendParent
  <2>1. /\ Making /\ Loop("accept") /\ inbox' = [inbox EXCEPT ![order[at]] = Append(@, ParentAddress(at))]
        /\ UNCHANGED <<scenario, listenq, partial_nodesets, order, stage>>
    BY <1>4 DEF SendParent, Making, nodeVars
  <2> QED BY <2>1, LoopKeeps
<1>5. CASE ServerThrows
  <2>1. /\ server' = "down" /\ UNCHANGED <<scenario, listenq, partial_nodesets, order, at, stage, inbox>>
    BY <1>5 DEF ServerThrows, nodeVars
  <2>2. RegTypes' BY <2>1 DEF RegInv, RegTypes
  <2>3. Queued' BY <2>1 DEF RegInv, Queued, Waits, reg
  <2>4. MapKnown' BY <2>1 DEF RegInv, MapKnown, Known, Answered, Waits, Ids, reg
  <2>5. OrderKnown' /\ NobodyForgotten' BY <2>1 DEF OrderKnown, Making, NobodyForgotten
  <2> QED BY <2>2, <2>3, <2>4, <2>5 DEF RegInv
<1> QED BY <1>1, <1>2, <1>3, <1>4, <1>5 DEF Server

(* Every step of the cluster preserves the registrations' invariant.       *)
LEMMA RegSteps == RegInv /\ [ClusterNext]_clusterVars => RegInv'
<1> SUFFICES ASSUME RegInv, [ClusterNext]_clusterVars PROVE RegInv' OBVIOUS
<1>1. CASE TreeNext BY <1>1, ServerKeeps, NodesKeep DEF TreeNext
<1>2. CASE (\E n \in Node : Stream(n)) \/ UNCHANGED clusterVars
  <2>1. UNCHANGED treeVars
    BY <1>2 DEF Stream, Call, PassUp, Select, ReadChild, PassDown, ReadParentBytes, clusterVars
  <2>2. UNCHANGED <<scenario, server, listenq, partial_nodesets, order, at, stage, inbox>>
    BY <2>1 DEF treeVars, serverVars, nodeVars
  <2> QED BY <2>2, RegStutters
<1> QED BY <1>1, <1>2 DEF ClusterNext

(* The server forgets nobody: a node that was accepted and has no number   *)
(* of children yet is in the map under its nonce and id, or in the tree    *)
(* being made, whatever other registrations come, are rejected or die.     *)
THEOREM ServerRemembers == ClusterSpec => []WaitingRemembered
<1>1. RegInv => WaitingRemembered
  BY DEF RegInv, NobodyForgotten, Expects, IsRemembered, WaitingRemembered
<1> QED BY <1>1, RegStarts, RegSteps, PTL DEF ClusterSpec
=============================================================================

-------------------------- MODULE AllReduceThreads --------------------------
(***************************************************************************)
(* VW::all_reduce_threads::all_reduce (allreduce.h): nodes that are        *)
(* threads of one process add up their buffers.  Each node registers its   *)
(* buffer, waits at the barrier, sums and broadcasts the cells of its own  *)
(* block over everybody's buffers, waits at the barrier again and returns. *)
(* It then changes its buffer as it likes and calls again.                 *)
(*                                                                         *)
(* The barrier is AllReduceSync, step for step.  A cell holds a number; in *)
(* its k-th call node t brings k * Weight(t), chosen so that a sum that    *)
(* misses, repeats or mixes contributions differs from the right one.      *)
(***************************************************************************)
EXTENDS AllReduceSync, Functions

CONSTANTS
  Nodes,      \* the number of nodes; node ids are 0 .. Nodes - 1
  Sizes,      \* the buffer lengths to consider
  MaxCalls    \* calls of all_reduce by each node

ASSUME NodesAssumption == Nodes \in Nat \ {0} /\ Threads = 0 .. Nodes - 1
ASSUME CallsAssumption == Sizes \subseteq Nat /\ MaxVisits = 2 * MaxCalls

VARIABLES
  n,          \* the length of the buffers
  stage,      \* where each node is
  calls,      \* calls[t]: calls of all_reduce begun by t
  registered, \* the nodes whose buffers[node] has been set
  buffer,     \* buffer[t][i]: cell i of node t's buffer
  index       \* index[t]: the next cell of t's block

dataVars == <<n, stage, calls, registered, buffer, index>>
vars == <<syncVars, dataVars>>

Cells == 0 .. n - 1
Weight(t) == (Nodes + 1) ^ t
SumOver(f) == FoldFunction(+, 0, f)
Fresh(t, k) == [i \in Cells |-> k * Weight(t)]

Init ==
  /\ SyncInit
  /\ n \in Sizes
  /\ stage = [t \in Threads |-> "idle"]
  /\ calls = [t \in Threads |-> 0]
  /\ registered = {}
  /\ buffer = [t \in Threads |-> [i \in Cells |-> 0]]
  /\ index = [t \in Threads |-> 0]

(* The caller prepares its buffer and all_reduce registers it.  The        *)
(* definition with the suffix _Slip is a plausible error in the next one   *)
(* and is not used.                                                        *)
AfterRegister_Slip == "reduce"
AfterRegister == "first"   \* nobody touches a buffer before all are registered

Register(t) ==
  /\ stage[t] = "idle" /\ calls[t] < MaxCalls
  /\ calls' = [calls EXCEPT ![t] = @ + 1]
  /\ buffer' = [buffer EXCEPT ![t] = Fresh(t, calls[t] + 1)]
  /\ registered' = registered \union {t}
  /\ stage' = [stage EXCEPT ![t] = AfterRegister]
  /\ UNCHANGED <<n, index, syncVars>>

(* The block of a node: its first cell and the cell after its last one.    *)
BlockSize == n \div Nodes
BlockBegin(t) == IF BlockSize = 0 THEN (IF t < n THEN t ELSE 0) ELSE t * BlockSize
BlockEnd_Slip(t) ==
  IF BlockSize = 0 THEN (IF t < n THEN t + 1 ELSE 0) ELSE (t + 1) * BlockSize
BlockEnd(t) ==
  IF BlockSize = 0 THEN (IF t < n THEN t + 1 ELSE 0)
  ELSE IF t = Nodes - 1 THEN n ELSE (t + 1) * BlockSize

(* What follows a visit of the barrier.                                    *)
StageAfter(t) == IF stage[t] = "first" THEN "reduce" ELSE "idle"

(* The two calls of wait_for_synchronization, from call to return.         *)
SyncStep(t) ==
  /\ stage[t] \in {"first", "second"}
  /\ Enter(t) \/ Wait(t) \/ Spurious(t)
  /\ IF left'[t] = left[t]
     THEN UNCHANGED <<stage, index>>
     ELSE /\ stage' = [stage EXCEPT ![t] = StageAfter(t)]
          /\ index' = [index EXCEPT ![t] = BlockBegin(t)]
  /\ UNCHANGED <<n, calls, registered, buffer>>

(* One turn of the loop over the block: everybody's cell is added to node  *)
(* 0's cell, in the order of the nodes ...                                 *)
Accumulate(t) ==
  /\ stage[t] = "reduce" /\ index[t] < BlockEnd(t)
  /\ buffer' = [buffer EXCEPT ![0][index[t]] =
                  SumOver([u \in Threads |-> buffer[u][index[t]]])]
  /\ stage' = [stage EXCEPT ![t] = "broadcast"]
  /\ UNCHANGED <<n, calls, registered, index, syncVars>>

(* ... and the sum is copied back to everybody.                            *)
Broadcast(t) ==
  /\ stage[t] = "broadcast"
  /\ buffer' = [u \in Threads |-> [buffer[u] EXCEPT ![index[t]] = buffer[0][index[t]]]]
  /\ index' = [index EXCEPT ![t] = @ + 1]
  /\ stage' = [stage EXCEPT ![t] = "reduce"]
  /\ UNCHANGED <<n, calls, registered, syncVars>>

BlockDone(t) ==
  /\ stage[t] = "reduce" /\ index[t] >= BlockEnd(t)
  /\ stage' = [stage EXCEPT ![t] = "second"]
  /\ UNCHANGED <<n, calls, registered, buffer, index, syncVars>>

Work(t) == Register(t) \/ Accumulate(t) \/ Broadcast(t) \/ BlockDone(t)

AllReduceNext == \E t \in Threads : Work(t) \/ SyncStep(t)

(* Every node is a running thread.                                         *)
AllReduceFairness ==
  \A t \in Threads : WF_vars(Work(t)) /\ WF_vars(SyncStep(t) /\ ~Spurious(t))

AllReduceSpec == Init /\ [][AllReduceNext]_vars /\ AllReduceFairness

-----------------------------------------------------------------------------
(* Sum of all contributions of call k.                                     *)
Sum(k) == SumOver([t \in Threads |-> k * Weight(t)])

(* A node that has returned from its k-th call finds the sum of all k-th   *)
(* contributions in every cell, whatever the others are doing, until it    *)
(* calls again: the two barriers separate the calls and the blocks cover   *)
(* every cell once.                                                        *)
ResultCorrect ==
  \A t \in Threads :
    stage[t] = "idle" /\ calls[t] > 0 => \A i \in Cells : buffer[t][i] = Sum(calls[t])

(* While a node works on its block nobody else has a claim on its cells,   *)
(* every buffer is registered and nobody is in another call.               *)
NoConflict ==
  \A t \in Threads : stage[t] \in {"reduce", "broadcast"} =>
    /\ registered = Threads
    /\ \A u \in Threads \ {t} :
         /\ calls[u] = calls[t]
         /\ stage[u] \in {"reduce", "broadcast"} =>
              BlockEnd(t) <= BlockBegin(u) \/ BlockEnd(u) <= BlockBegin(t)

(* Every call of every node returns.                                       *)
AllReturn == <>(\A t \in Threads : calls[t] = MaxCalls /\ stage[t] = "idle")

(* all_reduce_threads::all_reduce sums: every node that has returned finds *)
(* all contributions of this call in every cell, and while a node adds up  *)
(* its block nobody else has a claim on those cells.                       *)
CallsCorrect ==
  /\ ResultCorrect
  /\ NoConflict
=============================================================================

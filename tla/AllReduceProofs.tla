--------------------------- MODULE AllReduceProofs ---------------------------
(***************************************************************************)
(* all_reduce_threads is correct for any number of nodes, any length of    *)
(* the buffers and any number of calls.                                    *)
(*                                                                         *)
(* The barrier first.  The argument is the generation invariant of         *)
(* AllReduceSync: the number of openings so far determines where every     *)
(* thread can be, so one bit is enough to tell the visit that is gathering *)
(* from the one that has been released.                                    *)
(*                                                                         *)
(* Then all_reduce.  Its calls go through phases.  While call k + 1 is     *)
(* collected every node either has the sum of call k in all cells or its   *)
(* own contribution to call k + 1; while call k is reduced nobody is in    *)
(* another call, and a cell is untouched, summed up in node 0 or finished  *)
(* according to how far the one node has come whose block it is in.  The   *)
(* barrier turns one phase into the next only when everybody has arrived.  *)
(***************************************************************************)
EXTENDS AllReduceThreads, FiniteSetTheorems, TLAPS

USE ThreadsAssumption, VisitsAssumption

(* The number of threads is a positive number, and so is that of any part. *)
LEMMA Counting ==
  /\ total \in Nat /\ total > 0
  /\ \A S \in SUBSET Threads : IsFiniteSet(S) /\ Cardinality(S) \in Nat
  <1>1. \A S \in SUBSET Threads : IsFiniteSet(S) /\ Cardinality(S) \in Nat
    BY FS_Subset, FS_CardinalityType
  <1>2. Cardinality(Threads) # 0
    BY FS_EmptySet
  <1> QED
    BY <1>1, <1>2, FS_CardinalityType DEF total

(* The last one to arrive finds everybody else waiting in this visit.      *)
LEMMA LastFindsAll ==
  ASSUME NEW t \in Threads, NEW W \in SUBSET Threads, t \notin W,
         Cardinality(W) + 1 >= total
  PROVE  W = Threads \ {t} /\ Cardinality(W) + 1 = total
  <1>1. IsFiniteSet(Threads \ {t}) /\ W \subseteq Threads \ {t}
    BY Counting
  <1>2. Cardinality(Threads \ {t}) = total - 1
    BY FS_RemoveElement DEF total
  <1>3. Cardinality(W) <= Cardinality(Threads \ {t})
    BY <1>1, FS_Subset
  <1>4. Cardinality(W) = Cardinality(Threads \ {t})
    BY <1>2, <1>3, Counting
  <1>5. W = Threads \ {t}
    BY <1>1, <1>4, FS_Subset
  <1> QED
    BY <1>2, <1>4, <1>5, Counting

(* The barrier starts in generation zero.                                  *)
LEMMA InitInductive == SyncInit => Inductive
  <1> SUFFICES ASSUME SyncInit PROVE Inductive
    OBVIOUS
  <1>1. TypeOK
    BY Counting DEF SyncInit, TypeOK
  <1>2. Waiting = {}
    BY DEF SyncInit, Waiting
  <1>3. count = Cardinality(Waiting)
    BY <1>2, FS_EmptySet DEF SyncInit
  <1>4. InGeneration(0) /\ 0 \in 0 .. MaxVisits
    BY DEF SyncInit, InGeneration
  <1> QED
    BY <1>1, <1>3, <1>4 DEF SyncInit, Inductive, NoLostWakeup

(* When the last thread arrives, generation g ends and g + 1 begins: those *)
(* that were gathering become those that are still to leave.               *)
LEMMA ArriveLastInductive ==
  ASSUME Inductive, NEW t \in Threads, ArriveLast(t)
  PROVE  Inductive'
  <1> USE DEF ArriveLast, MayArrive, LastOne
  <1>1. PICK g \in 0 .. MaxVisits : InGeneration(g)
    BY DEF Inductive
  <1>2. Waiting = Threads \ {t} /\ t \notin inside
    BY LastFindsAll, Counting DEF Inductive, TypeOK, Waiting
  <1>3. TypeOK'
    <2>1. count' \in Nat /\ count' < total /\ run' \in BOOLEAN /\ cv' \subseteq inside'
      BY Counting DEF Inductive, TypeOK
    <2>2. arrived' \in [Threads -> 0 .. MaxVisits]
      BY DEF Inductive, TypeOK
    <2>3. left[t] = arrived[t]
      BY <1>1, <1>2 DEF InGeneration, Waiting
    <2>4. left' \in [Threads -> 0 .. MaxVisits]
      BY <2>3 DEF Inductive, TypeOK
    <2> QED
      BY <2>1, <2>2, <2>4 DEF Inductive, TypeOK
  <1>4. inside = Threads \ {t} /\ \A u \in inside : current_run[u] = run
    BY <1>2 DEF Waiting, Inductive, TypeOK
  <1>5. Waiting' = {}
    BY <1>4 DEF Waiting, Inductive, TypeOK
  <1>6. arrived[t] = g /\ left[t] = g /\ g < MaxVisits
    BY <1>1, <1>2 DEF InGeneration, Waiting
  <1>7. InGeneration(g + 1)'
    <2>1. ASSUME NEW u \in Threads, u # t
          PROVE  u \in (inside \ Waiting)' /\ arrived'[u] = g + 1 /\ left'[u] = (g + 1) - 1
      BY <1>1, <1>2, <1>4, <1>5, <2>1 DEF InGeneration, Waiting, Inductive, TypeOK
    <2>2. t \notin inside' /\ arrived'[t] = g + 1 /\ left'[t] = g + 1
      BY <1>2, <1>6 DEF Inductive, TypeOK
    <2> QED
      BY <2>1, <2>2 DEF InGeneration
  <1> QED
    BY <1>3, <1>5, <1>6, <1>7, FS_EmptySet DEF Inductive, NoLostWakeup

(* Any other arrival joins those that gather for the next opening.         *)
LEMMA ArriveAndSleepInductive ==
  ASSUME Inductive, NEW t \in Threads, ArriveAndSleep(t)
  PROVE  Inductive'
  <1> USE DEF ArriveAndSleep, MayArrive, LastOne
  <1>1. PICK g \in 0 .. MaxVisits : InGeneration(g)
    BY DEF Inductive
  <1>2. TypeOK'
    BY Counting DEF Inductive, TypeOK
  <1>3. Waiting' = Waiting \union {t} /\ t \notin Waiting
    BY DEF Waiting, Inductive, TypeOK
  <1>4. count' = Cardinality(Waiting')
    BY <1>3, Counting, FS_AddElement DEF Waiting, Inductive, TypeOK
  <1>5. NoLostWakeup'
    BY DEF NoLostWakeup, Released, Inductive, TypeOK
  <1>6. InGeneration(g)'
    <2>1. ASSUME NEW u \in Threads, u # t
          PROVE  /\ arrived'[u] = arrived[u] /\ left'[u] = left[u]
                 /\ u \in inside' <=> u \in inside
                 /\ u \in Waiting' <=> u \in Waiting
      BY <1>3, <2>1 DEF Inductive, TypeOK
    <2>2. t \in Waiting' /\ arrived'[t] = g + 1 /\ left'[t] = g
      BY <1>1, <1>3 DEF InGeneration, Waiting, Inductive, TypeOK
    <2> QED
      BY <1>1, <2>1, <2>2 DEF InGeneration
  <1> QED
    BY <1>2, <1>4, <1>5, <1>6 DEF Inductive

(* Only a released thread leaves, and it leaves generation g for the       *)
(* outside of generation g.                                                *)
LEMMA LeaveInductive ==
  ASSUME Inductive, NEW t \in Threads, Leave(t)
  PROVE  Inductive'
  <1> USE DEF Leave, Released
  <1>1. PICK g \in 0 .. MaxVisits : InGeneration(g)
    BY DEF Inductive
  <1>2. Waiting' = Waiting /\ t \notin Waiting /\ t \in inside
    BY DEF Waiting
  <1>3. arrived[t] = g /\ left[t] = g - 1
    BY <1>1, <1>2 DEF InGeneration
  <1>4. TypeOK'
    <2>1. left' \in [Threads -> 0 .. MaxVisits]
      BY <1>3 DEF Inductive, TypeOK
    <2> QED
      BY <2>1 DEF Inductive, TypeOK
  <1>5. InGeneration(g)'
    <2>1. ASSUME NEW u \in Threads, u # t
          PROVE  /\ arrived'[u] = arrived[u] /\ left'[u] = left[u]
                 /\ u \in inside' <=> u \in inside
                 /\ u \in Waiting' <=> u \in Waiting
      BY <1>2, <2>1 DEF Inductive, TypeOK
    <2>2. t \notin inside' /\ arrived'[t] = g /\ left'[t] = g
      BY <1>3 DEF Inductive, TypeOK
    <2> QED
      BY <1>1, <2>1, <2>2 DEF InGeneration
  <1> QED
    BY <1>2, <1>4, <1>5 DEF Inductive, NoLostWakeup

(* Waking and falling asleep again change nothing that matters.            *)
LEMMA SleepInductive ==
  ASSUME Inductive, NEW t \in Threads, Spurious(t) \/ SleepAgain(t)
  PROVE  Inductive'
  <1>1. UNCHANGED <<count, run, inside, current_run, arrived, left>>
    BY DEF Spurious, SleepAgain
  <1>2. TypeOK'
    BY <1>1 DEF Spurious, SleepAgain, Inductive, TypeOK
  <1>3. NoLostWakeup'
    BY <1>1 DEF Spurious, SleepAgain, Inductive, NoLostWakeup, Released
  <1>4. Waiting' = Waiting
    BY <1>1 DEF Waiting
  <1>5. \A g \in 0 .. MaxVisits : InGeneration(g) => InGeneration(g)'
    BY <1>1, <1>4 DEF InGeneration
  <1> QED
    BY <1>1, <1>2, <1>3, <1>4, <1>5 DEF Inductive

(* The generation invariant is inductive.                                  *)
LEMMA NextInductive == Inductive /\ [Next]_syncVars => Inductive'
  <1> SUFFICES ASSUME Inductive, [Next]_syncVars PROVE Inductive'
    OBVIOUS
  <1>1. CASE UNCHANGED syncVars
    BY <1>1 DEF syncVars, Inductive, TypeOK, NoLostWakeup, Released, Waiting, InGeneration
  <1> QED
    BY <1>1, ArriveLastInductive, ArriveAndSleepInductive, LeaveInductive, SleepInductive
    DEF Next, Enter, Wait

(* The generation invariant contains the barrier property.                 *)
LEMMA GenerationMeansBarrier == Inductive => NobodyEarly
  <1> SUFFICES ASSUME Inductive, NEW t \in Threads, NEW u \in Threads
               PROVE  left[t] <= arrived[u]
    BY DEF NobodyEarly
  <1>1. PICK g \in 0 .. MaxVisits : InGeneration(g)
    BY DEF Inductive
  <1>2. left[t] <= g
    BY <1>1 DEF InGeneration
  <1>3. arrived[u] >= g
    BY <1>1 DEF InGeneration
  <1> QED
    BY <1>2, <1>3 DEF Inductive, TypeOK

(* In every state of the barrier one generation accounts for all threads.  *)
THEOREM GenerationCorrect == Safe => []Inductive
  BY InitInductive, NextInductive, PTL DEF Safe

(* wait_for_synchronization is a barrier: nobody returns from visit k      *)
(* before everybody has begun visit k.                                     *)
THEOREM BarrierCorrect == Safe => []NobodyEarly
  BY GenerationCorrect, GenerationMeansBarrier, PTL

(* The barrier of allreduce_threads.cc implements the rendezvous.          *)
THEOREM BarrierRefinement == Safe => RefinesRendezvous
  <1>1. SyncInit => Abstract!Init
    BY DEF SyncInit, Abstract!Init
  <1>2. Inductive /\ [Next]_syncVars => [Abstract!Next]_(Abstract!vars)
    <2> SUFFICES ASSUME Inductive, [Next]_syncVars
                 PROVE  [Abstract!Next]_(Abstract!vars)
      OBVIOUS
    <2> USE DEF Abstract!vars
    <2>1. PICK g \in 0 .. MaxVisits : InGeneration(g)
      BY DEF Inductive
    <2>2. ASSUME NEW t \in Threads, ArriveLast(t) PROVE Abstract!Pass(t)
      <3>1. Waiting = Threads \ {t} /\ t \notin inside
        BY <2>2, LastFindsAll, Counting
           DEF ArriveLast, MayArrive, LastOne, Inductive, TypeOK, Waiting
      <3>2. arrived[t] = g /\ left[t] = g /\ \A u \in Threads \ {t} : arrived[u] = g + 1
        BY <2>1, <3>1 DEF InGeneration, Waiting
      <3> QED
        BY <2>2, <3>2 DEF ArriveLast, MayArrive, Abstract!Pass
    <2>3. ASSUME NEW t \in Threads, ArriveAndSleep(t) PROVE Abstract!Arrive(t)
      <3>1. arrived[t] = left[t]
        BY <2>1, <2>3 DEF InGeneration, ArriveAndSleep, MayArrive, Waiting
      <3> QED
        BY <2>3, <3>1 DEF ArriveAndSleep, MayArrive, Abstract!Arrive
    <2>4. ASSUME NEW t \in Threads, Leave(t) PROVE Abstract!Leave(t)
      <3>1. arrived[t] = g /\ left[t] = g - 1 /\ \A u \in Threads : arrived[u] >= g
        BY <2>1, <2>4 DEF InGeneration, Leave, Released, Waiting
      <3> QED
        BY <2>4, <3>1 DEF Leave, Abstract!Leave
    <2>5. ASSUME NEW t \in Threads, Spurious(t) \/ SleepAgain(t)
          PROVE  UNCHANGED Abstract!vars
      BY <2>5 DEF Spurious, SleepAgain
    <2>6. CASE UNCHANGED syncVars
      BY <2>6 DEF syncVars
    <2> QED
      BY <2>2, <2>3, <2>4, <2>5, <2>6 DEF Next, Enter, Wait, Abstract!Next
  <1> QED
    BY <1>1, <1>2, GenerationCorrect, PTL DEF Safe, RefinesRendezvous, Abstract!Spec

-----------------------------------------------------------------------------
USE NodesAssumption, CallsAssumption

(* The cells of a node's block.                                            *)
Owns(t, i) == BlockBegin(t) <= i /\ i < BlockEnd(t)

(* Division rounds down.                                                   *)
LEMMA Division ==
  ASSUME NEW a \in Nat, NEW b \in Nat \ {0}
  PROVE  a \div b \in Nat /\ b * (a \div b) <= a /\ a < b * (a \div b) + b
  OBVIOUS

(* Products grow with their factors.                                       *)
LEMMA Monotone ==
  ASSUME NEW a \in Nat, NEW b \in Nat, NEW c \in Nat, a <= b
  PROVE  a * c <= b * c
  OBVIOUS

(* A block lies within the buffer.                                         *)
LEMMA BlockShape ==
  ASSUME n \in Nat, NEW t \in Threads
  PROVE  /\ BlockSize \in Nat /\ Nodes * BlockSize <= n /\ n < Nodes * BlockSize + Nodes
         /\ t \in Nat /\ t < Nodes
         /\ BlockBegin(t) \in Nat /\ BlockEnd(t) \in Nat /\ BlockEnd(t) <= n
  <1>1. BlockSize \in Nat /\ Nodes * BlockSize <= n /\ n < Nodes * BlockSize + Nodes
    BY Division DEF BlockSize
  <1>2. t \in Nat /\ t < Nodes /\ t + 1 <= Nodes
    OBVIOUS
  <1>3. t * BlockSize \in Nat /\ (t + 1) * BlockSize \in Nat
    BY <1>1, <1>2
  <1>4. (t + 1) * BlockSize <= Nodes * BlockSize
    BY <1>1, <1>2, Monotone
  <1>5. BlockBegin(t) \in Nat /\ BlockEnd(t) \in Nat
    BY <1>1, <1>2, <1>3 DEF BlockBegin, BlockEnd
  <1>6. (t + 1) * BlockSize <= n
    BY <1>1, <1>3, <1>4
  <1>7. BlockEnd(t) <= n
    BY <1>1, <1>2, <1>3, <1>6 DEF BlockEnd
  <1> QED
    BY <1>1, <1>2, <1>5, <1>7

(* The blocks of two nodes do not overlap.                                 *)
LEMMA BlocksInOrder ==
  ASSUME n \in Nat, NEW t \in Threads, NEW u \in Threads, t < u
  PROVE  BlockEnd(t) <= BlockBegin(u) \/ BlockEnd(u) <= BlockBegin(t)
  <1>1. /\ BlockSize \in Nat /\ t \in Nat /\ u \in Nat /\ t + 1 <= u /\ u < Nodes
    BY BlockShape
  <1>2. (t + 1) * BlockSize <= u * BlockSize
    BY <1>1, Monotone
  <1>3. CASE BlockSize = 0
    BY <1>1, <1>3 DEF BlockBegin, BlockEnd
  <1>4. CASE BlockSize # 0
    BY <1>1, <1>2, <1>4 DEF BlockBegin, BlockEnd
  <1> QED
    BY <1>3, <1>4

(* Every cell is in a block, also those that the division leaves over and  *)
(* those of a buffer with fewer cells than there are nodes.                *)
LEMMA BlocksCover ==
  ASSUME n \in Nat, NEW i \in Cells
  PROVE  \E t \in Threads : Owns(t, i)
  <1>1. BlockSize \in Nat /\ Nodes * BlockSize <= n /\ n < Nodes * BlockSize + Nodes
    BY Division DEF BlockSize
  <1>2. i \in Nat /\ i < n
    BY DEF Cells
  <1>3. CASE BlockSize = 0
    <2>1. i \in Threads /\ Owns(i, i)
      BY <1>1, <1>2, <1>3 DEF Owns, BlockBegin, BlockEnd
    <2> QED
      BY <2>1
  <1>4. CASE BlockSize # 0
    <2> DEFINE q == i \div BlockSize
    <2>1. q \in Nat /\ BlockSize * q <= i /\ i < BlockSize * q + BlockSize
      BY <1>1, <1>2, <1>4, Division
    <2> HIDE DEF q
    <2>2. q * BlockSize <= i /\ i < (q + 1) * BlockSize
      BY <1>1, <2>1
    <2>3. CASE q < Nodes - 1
      <3>1. q \in Threads /\ Owns(q, i)
        BY <1>1, <1>2, <1>4, <2>1, <2>2, <2>3 DEF Owns, BlockBegin, BlockEnd
      <3> QED
        BY <3>1
    <2>4. CASE q >= Nodes - 1
      <3> DEFINE l == Nodes - 1
      <3>1. l \in Nat /\ l \in Threads /\ l <= q
        BY <2>1, <2>4
      <3>2. l * BlockSize <= q * BlockSize /\ l * BlockSize \in Nat /\ q * BlockSize \in Nat
        BY <1>1, <2>1, <3>1, Monotone
      <3>3. l * BlockSize <= i
        BY <1>2, <2>2, <3>2
      <3>4. Owns(l, i)
        BY <1>1, <1>2, <1>4, <3>1, <3>3 DEF Owns, BlockBegin, BlockEnd
      <3> QED
        BY <3>1, <3>4
    <2> QED
      BY <2>1, <2>3, <2>4
  <1> QED
    BY <1>3, <1>4

-----------------------------------------------------------------------------
(* What a cell of a block holds, by where its owner is.                    *)
Finished(t, i) == stage[t] = "second" \/ (stage[t] \in {"reduce", "broadcast"} /\ i < index[t])
SummedUp(t, i) == stage[t] = "broadcast" /\ i = index[t]

CellState(k, t, i) ==
  /\ Finished(t, i) => \A u \in Threads : buffer[u][i] = Sum(k)
  /\ SummedUp(t, i) => buffer[0][i] = Sum(k)
  /\ ~Finished(t, i) /\ ~SummedUp(t, i) => \A u \in Threads : buffer[u][i] = k * Weight(u)

(* Call k + 1 is being collected: the last barrier of call k has opened.   *)
Collected(k, t) ==
  \/ /\ stage[t] = "idle" /\ t \notin inside /\ calls[t] = k
     /\ k > 0 => \A i \in Cells : buffer[t][i] = Sum(k)
  \/ /\ stage[t] = "second" /\ t \in inside \ Waiting /\ calls[t] = k
     /\ k > 0 => \A i \in Cells : buffer[t][i] = Sum(k)
  \/ /\ stage[t] = "first" /\ (t \notin inside \/ t \in Waiting) /\ calls[t] = k + 1
     /\ \A i \in Cells : buffer[t][i] = (k + 1) * Weight(t)
Collecting(k) == \A t \in Threads : Collected(k, t)

(* Call k is being reduced: its first barrier has opened.                  *)
Reduced(k, t) ==
  /\ calls[t] = k
  /\ \/ stage[t] = "first" /\ t \in inside \ Waiting
     \/ stage[t] = "reduce" /\ t \notin inside
     \/ stage[t] = "broadcast" /\ t \notin inside /\ index[t] < BlockEnd(t)
     \/ stage[t] = "second" /\ (t \notin inside \/ t \in Waiting)
  /\ stage[t] \in {"reduce", "broadcast"} => index[t] \in Nat /\ BlockBegin(t) <= index[t]
  /\ \A i \in Cells : Owns(t, i) => CellState(k, t, i)
Reducing(k) == k > 0 /\ \A t \in Threads : Reduced(k, t)

(* The variables have the shape the actions rely on, and whoever has       *)
(* called is registered.                                                   *)
DataTypes ==
  /\ n \in Nat
  /\ stage \in [Threads -> {"idle", "first", "reduce", "broadcast", "second"}]
  /\ calls \in [Threads -> Nat]
  /\ DOMAIN index = Threads
  /\ DOMAIN buffer = Threads /\ \A t \in Threads : DOMAIN buffer[t] = Cells
  /\ registered \subseteq Threads /\ \A t \in Threads : calls[t] > 0 => t \in registered

(* The invariant: the barrier's, and one phase that accounts for all nodes *)
(* and all cells.                                                          *)
CallsInv == Inductive /\ DataTypes /\ \E k \in Nat : Collecting(k) \/ Reducing(k)

(* Two nodes never own the same cell.                                      *)
LEMMA OneOwner ==
  ASSUME n \in Nat, NEW t \in Threads, NEW u \in Threads, t # u
  PROVE  /\ BlockEnd(t) <= BlockBegin(u) \/ BlockEnd(u) <= BlockBegin(t)
         /\ \A i \in Cells : Owns(t, i) => ~Owns(u, i)
  <1>1. t \in Nat /\ u \in Nat /\ (t < u \/ u < t)
    BY BlockShape
  <1>2. BlockEnd(t) <= BlockBegin(u) \/ BlockEnd(u) <= BlockBegin(t)
    BY <1>1, BlocksInOrder
  <1>3. /\ BlockBegin(t) \in Nat /\ BlockEnd(t) \in Nat
        /\ BlockBegin(u) \in Nat /\ BlockEnd(u) \in Nat
    BY BlockShape
  <1>4. \A i \in Nat : Owns(t, i) => ~Owns(u, i)
    BY <1>2, <1>3 DEF Owns
  <1> QED
    BY <1>2, <1>4 DEF Cells

(* No node has called.                                                     *)
LEMMA CallsStart == Init => CallsInv
  <1> SUFFICES ASSUME Init PROVE CallsInv
    OBVIOUS
  <1>1. Inductive
    BY InitInductive DEF Init
  <1>2. DataTypes
    BY DEF Init, DataTypes
  <1>3. Collecting(0)
    BY DEF Init, SyncInit, Collecting, Collected
  <1> QED
    BY <1>1, <1>2, <1>3 DEF CallsInv

(* A node that calls again leaves the result of its last call and brings   *)
(* its contribution to the next one.                                       *)
LEMMA RegisterKeeps ==
  ASSUME DataTypes, NEW k \in Nat, Collecting(k) \/ Reducing(k), NEW t \in Threads, Register(t)
  PROVE  DataTypes' /\ Collecting(k)'
  <1>1. stage[t] = "idle" /\ Collecting(k)
    BY DEF Register, Reducing, Reduced
  <1>2. calls[t] = k
    BY <1>1 DEF Collecting, Collected
  <1>3. Cells' = Cells
    BY DEF Register, Cells
  <1>4. DataTypes'
    BY <1>3 DEF DataTypes, Register, AfterRegister, Fresh
  <1>5. UNCHANGED <<inside, Waiting>>
    BY DEF Register, syncVars, Waiting
  <1>6. ASSUME NEW u \in Threads PROVE Collected(k, u)'
    <2>1. CASE u = t
      <3>1. stage'[t] = "first" /\ calls'[t] = k + 1
        BY <1>2 DEF Register, AfterRegister, DataTypes
      <3>2. \A i \in Cells : buffer'[t][i] = (k + 1) * Weight(t)
        BY <1>2 DEF Register, Fresh, DataTypes
      <3>3. t \notin inside
        BY <1>1 DEF Collecting, Collected
      <3> QED
        BY <1>3, <1>5, <2>1, <3>1, <3>2, <3>3 DEF Collected, Weight
    <2>2. CASE u # t
      <3>1. stage'[u] = stage[u] /\ calls'[u] = calls[u] /\ buffer'[u] = buffer[u]
        BY <2>2 DEF Register, DataTypes
      <3>2. Collected(k, u)
        BY <1>1 DEF Collecting
      <3> QED
        BY <1>3, <1>5, <3>1, <3>2 DEF Collected, Sum, Weight
    <2> QED
      BY <2>1, <2>2
  <1> QED
    BY <1>4, <1>6 DEF Collecting

(* The node that owns cell index[t] adds up what everybody brought.        *)
LEMMA AccumulateKeeps ==
  ASSUME DataTypes, NEW k \in Nat, Collecting(k) \/ Reducing(k), NEW t \in Threads, Accumulate(t)
  PROVE  DataTypes' /\ Reducing(k)'
  <1> DEFINE i == index[t]
  <1>1. stage[t] = "reduce" /\ Reducing(k) /\ i < BlockEnd(t)
    BY DEF Accumulate, Collecting, Collected
  <1>2. i \in Cells /\ Owns(t, i)
    BY <1>1, BlockShape, SMTT(40) DEF Reducing, Reduced, Owns, Cells, DataTypes
  <1>3. 0 \in Threads
    OBVIOUS
  <1>4. \A u \in Threads : buffer[u][i] = k * Weight(u)
    BY <1>1, <1>2 DEF Reducing, Reduced, CellState, Finished, SummedUp
  <1>5. [u \in Threads |-> buffer[u][i]] = [u \in Threads |-> k * Weight(u)]
    BY <1>4
  <1>6. SumOver([u \in Threads |-> buffer[u][i]]) = Sum(k)
    BY <1>5 DEF Sum
  <1>7. Cells' = Cells /\ UNCHANGED <<n, inside, Waiting, index, calls>>
    BY DEF Accumulate, Cells, syncVars, Waiting
  <1>8. buffer' = [buffer EXCEPT ![0][i] = Sum(k)]
    BY <1>6 DEF Accumulate
  <1>9. /\ buffer'[0][i] = Sum(k)
        /\ \A u \in Threads, j \in Cells : j # i => buffer'[u][j] = buffer[u][j]
    BY <1>2, <1>3, <1>8 DEF DataTypes
  <1>10. stage'[t] = "broadcast" /\ \A u \in Threads : u # t => stage'[u] = stage[u]
    BY DEF Accumulate, DataTypes
  <1>11. DataTypes'
    BY <1>2, <1>3, <1>7, <1>8, <1>10 DEF DataTypes, Accumulate
  <1>12. \A u \in Threads : BlockBegin(u)' = BlockBegin(u) /\ BlockEnd(u)' = BlockEnd(u)
    BY <1>7 DEF BlockBegin, BlockEnd, BlockSize
  <1>13. ASSUME NEW u \in Threads, NEW j \in Cells, Owns(u, j) PROVE CellState(k, u, j)'
    <2>1. CellState(k, u, j)
      BY <1>1, <1>13 DEF Reducing, Reduced
    <2>2. CASE u = t /\ j = i
      <3>1. ~(i < i)
        BY <1>2 DEF Cells, DataTypes
      <3>2. ~Finished(u, j)' /\ SummedUp(u, j)'
        BY <1>7, <1>10, <2>2, <3>1 DEF Finished, SummedUp
      <3> QED
        BY <1>9, <2>2, <3>2 DEF CellState, Sum
    <2>3. CASE u = t /\ j # i
      BY <1>1, <1>7, <1>9, <1>10, <2>1, <2>3 DEF CellState, Finished, SummedUp, Sum, Weight
    <2>4. CASE u # t
      <3>1. j # i
        BY <1>2, <1>13, <2>4, OneOwner DEF DataTypes
      <3>2. Finished(u, j)' = Finished(u, j) /\ SummedUp(u, j)' = SummedUp(u, j)
        BY <1>7, <1>10, <2>4 DEF Finished, SummedUp
      <3> QED
        BY <1>3, <1>9, <2>1, <3>1, <3>2 DEF CellState, Sum, Weight
    <2> QED
      BY <2>2, <2>3, <2>4
  <1>14. ASSUME NEW u \in Threads PROVE Reduced(k, u)'
    <2>1. Reduced(k, u)
      BY <1>1 DEF Reducing
    <2>2. \A j \in Cells : Owns(u, j)' => CellState(k, u, j)'
      BY <1>12, <1>13 DEF Owns
    <2> QED
      BY <1>1, <1>7, <1>10, <1>12, <2>1, <2>2 DEF Reduced
  <1> QED
    BY <1>1, <1>11, <1>14 DEF Reducing

(* The sum is copied to everybody, and the cell is finished.               *)
LEMMA BroadcastKeeps ==
  ASSUME DataTypes, NEW k \in Nat, Collecting(k) \/ Reducing(k), NEW t \in Threads, Broadcast(t)
  PROVE  DataTypes' /\ Reducing(k)'
  <1> DEFINE i == index[t]
  <1>1. stage[t] = "broadcast" /\ Reducing(k) /\ i < BlockEnd(t)
    BY DEF Broadcast, Collecting, Collected, Reducing, Reduced
  <1>2. i \in Nat /\ i \in Cells /\ Owns(t, i)
    BY <1>1, BlockShape, SMTT(40) DEF Reducing, Reduced, Owns, Cells, DataTypes
  <1>3. buffer[0][i] = Sum(k)
    <2>1. ~(i < i)
      BY <1>2
    <2> QED
      BY <1>1, <1>2, <2>1 DEF Reducing, Reduced, CellState, SummedUp
  <1>4. Cells' = Cells /\ UNCHANGED <<n, inside, Waiting, calls>>
    BY DEF Broadcast, Cells, syncVars, Waiting
  <1>5. \A u \in Threads : /\ buffer'[u][i] = Sum(k)
                           /\ \A j \in Cells : j # i => buffer'[u][j] = buffer[u][j]
    BY <1>2, <1>3 DEF Broadcast, DataTypes
  <1>6. /\ stage'[t] = "reduce" /\ index'[t] = i + 1
        /\ \A u \in Threads : u # t => stage'[u] = stage[u] /\ index'[u] = index[u]
    BY DEF Broadcast, DataTypes
  <1>7. DataTypes'
    BY <1>4 DEF DataTypes, Broadcast
  <1>8. \A u \in Threads : BlockBegin(u)' = BlockBegin(u) /\ BlockEnd(u)' = BlockEnd(u)
    BY <1>4 DEF BlockBegin, BlockEnd, BlockSize
  <1>9. ASSUME NEW u \in Threads, NEW j \in Cells, Owns(u, j) PROVE CellState(k, u, j)'
    <2>1. CellState(k, u, j) /\ j \in Nat
      BY <1>1, <1>9 DEF Reducing, Reduced, Cells, DataTypes
    <2>2. CASE u = t /\ j = i
      <3>1. Finished(u, j)' /\ ~SummedUp(u, j)'
        BY <1>2, <1>6, <2>2 DEF Finished, SummedUp
      <3> QED
        BY <1>5, <2>2, <3>1 DEF CellState, Sum
    <2>3. CASE u = t /\ j # i
      <3>1. Finished(u, j)' = Finished(u, j) /\ ~SummedUp(u, j) /\ ~SummedUp(u, j)'
        BY <1>1, <1>2, <1>6, <2>1, <2>3 DEF Finished, SummedUp
      <3> QED
        BY <1>5, <2>1, <2>3, <3>1 DEF CellState, Sum, Weight
    <2>4. CASE u # t
      <3>1. j # i
        BY <1>2, <1>9, <2>4, OneOwner DEF DataTypes
      <3>2. Finished(u, j)' = Finished(u, j) /\ SummedUp(u, j)' = SummedUp(u, j)
        BY <1>6, <2>4 DEF Finished, SummedUp
      <3>3. 0 \in Threads
        OBVIOUS
      <3> QED
        BY <1>5, <2>1, <3>1, <3>2, <3>3 DEF CellState, Sum, Weight
    <2> QED
      BY <2>2, <2>3, <2>4
  <1>10. ASSUME NEW u \in Threads PROVE Reduced(k, u)'
    <2>1. Reduced(k, u)
      BY <1>1 DEF Reducing
    <2>2. \A j \in Cells : Owns(u, j)' => CellState(k, u, j)'
      BY <1>8, <1>9 DEF Owns
    <2>3. CASE u = t
      <3>1. i + 1 \in Nat /\ BlockBegin(t) <= i + 1
        <4>1. i \in Nat /\ BlockBegin(t) \in Nat /\ BlockBegin(t) <= i
          BY <1>2, BlockShape DEF Owns, DataTypes
        <4> QED
          BY ONLY <4>1
      <3> QED
        BY <1>1, <1>4, <1>6, <1>8, <2>1, <2>2, <2>3, <3>1 DEF Reduced
    <2>4. CASE u # t
      BY <1>4, <1>6, <1>8, <2>1, <2>2, <2>4 DEF Reduced
    <2> QED
      BY <2>3, <2>4
  <1> QED
    BY <1>1, <1>7, <1>10 DEF Reducing

(* A node goes to the second barrier with its whole block finished.        *)
LEMMA BlockDoneKeeps ==
  ASSUME DataTypes, NEW k \in Nat, Collecting(k) \/ Reducing(k), NEW t \in Threads, BlockDone(t)
  PROVE  DataTypes' /\ Reducing(k)'
  <1>1. stage[t] = "reduce" /\ Reducing(k) /\ index[t] >= BlockEnd(t) /\ index[t] \in Nat
    BY DEF BlockDone, Collecting, Collected, Reducing, Reduced
  <1>2. Cells' = Cells /\ UNCHANGED <<n, inside, Waiting, calls, buffer, index>>
    BY DEF BlockDone, Cells, syncVars, Waiting
  <1>3. stage'[t] = "second" /\ \A u \in Threads : u # t => stage'[u] = stage[u]
    BY DEF BlockDone, DataTypes
  <1>4. DataTypes'
    BY <1>2 DEF DataTypes, BlockDone
  <1>5. \A u \in Threads : BlockBegin(u)' = BlockBegin(u) /\ BlockEnd(u)' = BlockEnd(u)
    BY <1>2 DEF BlockBegin, BlockEnd, BlockSize
  <1>6. ASSUME NEW u \in Threads, NEW j \in Cells, Owns(u, j) PROVE CellState(k, u, j)'
    <2>1. CellState(k, u, j) /\ j \in Nat
      BY <1>1, <1>6 DEF Reducing, Reduced, Cells, DataTypes
    <2>2. CASE u = t
      <3>1. j < index[t]
        BY <1>1, <1>6, <2>1, <2>2, BlockShape, SMTT(40) DEF Owns, DataTypes
      <3>2. Finished(u, j) /\ Finished(u, j)' /\ ~SummedUp(u, j)'
        BY <1>1, <1>3, <2>2, <3>1 DEF Finished, SummedUp
      <3> QED
        BY <1>2, <2>1, <3>2 DEF CellState, Sum
    <2>3. CASE u # t
      BY <1>2, <1>3, <2>1, <2>3 DEF CellState, Finished, SummedUp, Sum, Weight
    <2> QED
      BY <2>2, <2>3
  <1>7. ASSUME NEW u \in Threads PROVE Reduced(k, u)'
    <2>1. Reduced(k, u)
      BY <1>1 DEF Reducing
    <2>2. \A j \in Cells : Owns(u, j)' => CellState(k, u, j)'
      BY <1>5, <1>6 DEF Owns
    <2> QED
      BY <1>1, <1>2, <1>3, <1>5, <2>1, <2>2 DEF Reduced
  <1> QED
    BY <1>1, <1>4, <1>7 DEF Reducing

-----------------------------------------------------------------------------
(* What a node does at the barrier that does not open it: it arrives,      *)
(* sleeps, wakes or leaves, and the phase stays.                           *)
LEMMA WaitKeeps ==
  ASSUME Inductive, DataTypes, NEW k \in Nat, Collecting(k) \/ Reducing(k),
         NEW t \in Threads, SyncStep(t), ~ArriveLast(t)
  PROVE  DataTypes' /\ (Collecting(k) \/ Reducing(k))'
  <1>1. Cells' = Cells /\ UNCHANGED <<n, calls, buffer, registered>>
    BY DEF SyncStep, Cells
  <1>2. \A u \in Threads : BlockBegin(u)' = BlockBegin(u) /\ BlockEnd(u)' = BlockEnd(u)
    BY <1>1 DEF BlockBegin, BlockEnd, BlockSize
  <1>3. stage[t] \in {"first", "second"} /\ left \in [Threads -> Nat]
    BY DEF SyncStep, Inductive, TypeOK
  <1>4. CASE Spurious(t) \/ SleepAgain(t)
    <2>1. UNCHANGED <<stage, index, inside, Waiting>>
      BY <1>4 DEF SyncStep, Spurious, SleepAgain, Waiting
    <2>2. DataTypes'
      BY <1>1, <2>1 DEF DataTypes
    <2>3. Collecting(k) => Collecting(k)'
      BY <1>1, <2>1 DEF Collecting, Collected, Sum, Weight
    <2>4. Reducing(k) => Reducing(k)'
      BY <1>1, <1>2, <2>1 DEF Reducing, Reduced, Owns, CellState, Finished, SummedUp, Sum, Weight
    <2> QED
      BY <2>2, <2>3, <2>4
  <1>5. CASE ArriveAndSleep(t)
    <2>1. UNCHANGED <<stage, index>>
      BY <1>5 DEF SyncStep, ArriveAndSleep
    <2>2. t \notin inside /\ inside' = inside \union {t} /\ Waiting' = Waiting \union {t}
      BY <1>5 DEF ArriveAndSleep, MayArrive, Waiting, Inductive, TypeOK
    <2>3. DataTypes'
      BY <1>1, <2>1 DEF DataTypes
    <2>4. Collecting(k) => Collecting(k)'
      <3> SUFFICES ASSUME Collecting(k), NEW u \in Threads PROVE Collected(k, u)'
        BY DEF Collecting
      <3>1. Collected(k, u)
        BY DEF Collecting
      <3> QED
        BY <1>1, <1>3, <2>1, <2>2, <3>1 DEF Collected, Sum, Weight
    <2>5. Reducing(k) => Reducing(k)'
      <3> SUFFICES ASSUME Reducing(k), NEW u \in Threads PROVE Reduced(k, u)'
        BY DEF Reducing
      <3>1. Reduced(k, u)
        BY DEF Reducing
      <3>2. \A j \in Cells : CellState(k, u, j) => CellState(k, u, j)'
        BY <1>1, <2>1 DEF CellState, Finished, SummedUp, Sum, Weight
      <3>3. \A j \in Cells : Owns(u, j)' = Owns(u, j)
        BY <1>2 DEF Owns
      <3> QED
        BY <1>1, <1>2, <1>3, <2>1, <2>2, <3>1, <3>2, <3>3 DEF Reduced
    <2> QED
      BY <2>3, <2>4, <2>5
  <1>6. CASE Leave(t)
    <2>1. t \in inside \ Waiting /\ inside' = inside \ {t} /\ Waiting' = Waiting
      BY <1>6 DEF Leave, Released, Waiting
    <2>2. left'[t] # left[t]
      BY <1>3, <1>6 DEF Leave
    <2>3. /\ stage' = [stage EXCEPT ![t] = StageAfter(t)]
          /\ index' = [index EXCEPT ![t] = BlockBegin(t)]
      BY <2>2 DEF SyncStep
    <2>4. DataTypes'
      BY <1>1, <2>3 DEF DataTypes, StageAfter
    <2>5. Collecting(k) => Collecting(k)'
      <3> SUFFICES ASSUME Collecting(k), NEW u \in Threads PROVE Collected(k, u)'
        BY DEF Collecting
      <3>1. Collected(k, u)
        BY DEF Collecting
      <3>2. CASE u = t
        <4>1. stage[t] = "second" /\ stage'[t] = "idle"
          BY <2>1, <2>3, <3>1, <3>2 DEF Collected, StageAfter, DataTypes
        <4> QED
          BY <1>1, <2>1, <3>1, <3>2, <4>1 DEF Collected, Sum
      <3>3. CASE u # t
        <4>1. stage'[u] = stage[u]
          BY <2>3, <3>3 DEF DataTypes
        <4> QED
          BY <1>1, <2>1, <3>1, <3>3, <4>1 DEF Collected, Sum, Weight
      <3> QED
        BY <3>2, <3>3
    <2>6. Reducing(k) => Reducing(k)'
      <3> SUFFICES ASSUME Reducing(k), NEW u \in Threads PROVE Reduced(k, u)'
        BY DEF Reducing
      <3>1. Reduced(k, u)
        BY DEF Reducing
      <3>2. \A j \in Cells : Owns(u, j)' = Owns(u, j)
        BY <1>2 DEF Owns
      <3>3. CASE u = t
        <4>1. stage[t] = "first" /\ stage'[t] = "reduce" /\ index'[t] = BlockBegin(t)
          BY <2>1, <2>3, <3>1, <3>3 DEF Reduced, StageAfter, DataTypes
        <4>2. BlockBegin(t) \in Nat
          BY BlockShape DEF DataTypes
        <4>3. ASSUME NEW j \in Cells, Owns(u, j) PROVE CellState(k, u, j)'
          <5>1. j \in Nat /\ ~(j < BlockBegin(t))
            BY <3>3, <4>2, <4>3 DEF Owns, Cells, DataTypes
          <5>2. ~Finished(u, j)' /\ ~SummedUp(u, j)' /\ ~Finished(u, j) /\ ~SummedUp(u, j)
            BY <3>3, <4>1, <5>1 DEF Finished, SummedUp
          <5>3. CellState(k, u, j)
            BY <3>1, <4>3 DEF Reduced
          <5> QED
            BY <1>1, <5>2, <5>3 DEF CellState, Weight
        <4> QED
          BY <1>1, <1>2, <2>1, <3>1, <3>2, <3>3, <4>1, <4>2, <4>3 DEF Reduced
      <3>4. CASE u # t
        <4>1. stage'[u] = stage[u] /\ index'[u] = index[u]
          BY <2>3, <3>4 DEF DataTypes
        <4>2. \A j \in Cells : CellState(k, u, j) => CellState(k, u, j)'
          BY <1>1, <4>1 DEF CellState, Finished, SummedUp, Sum, Weight
        <4> QED
          BY <1>1, <1>2, <2>1, <3>1, <3>2, <3>4, <4>1, <4>2 DEF Reduced
      <3> QED
        BY <3>3, <3>4
    <2> QED
      BY <2>4, <2>5, <2>6
  <1> QED
    BY <1>4, <1>5, <1>6 DEF SyncStep, Enter, Wait

(* The last node to arrive opens the barrier: all are at the same one, and *)
(* the phase changes for all at once.                                      *)
LEMMA OpenMoves ==
  ASSUME Inductive, DataTypes, NEW k \in Nat, Collecting(k) \/ Reducing(k),
         NEW t \in Threads, SyncStep(t), ArriveLast(t)
  PROVE  DataTypes' /\ (Reducing(k + 1)' \/ Collecting(k)')
  <1>1. Cells' = Cells /\ UNCHANGED <<n, calls, buffer, registered>>
    BY DEF SyncStep, Cells
  <1>2. \A u \in Threads : BlockBegin(u)' = BlockBegin(u) /\ BlockEnd(u)' = BlockEnd(u)
    BY <1>1 DEF BlockBegin, BlockEnd, BlockSize
  <1>3. stage[t] \in {"first", "second"} /\ left \in [Threads -> Nat]
    BY DEF SyncStep, Inductive, TypeOK
  <1>4. Waiting = Threads \ {t} /\ t \notin inside /\ Waiting \subseteq inside
    BY LastFindsAll, Counting DEF ArriveLast, MayArrive, LastOne, Inductive, TypeOK, Waiting
  <1>5. inside' = Threads \ {t} /\ Waiting' = {}
    BY <1>4 DEF ArriveLast, Waiting, Inductive, TypeOK
  <1>6. left'[t] # left[t]
    BY <1>3 DEF ArriveLast
  <1>7. /\ stage' = [stage EXCEPT ![t] = StageAfter(t)]
        /\ index' = [index EXCEPT ![t] = BlockBegin(t)]
    BY <1>6 DEF SyncStep
  <1>8. DataTypes'
    BY <1>1, <1>7 DEF DataTypes, StageAfter
  <1>9. ASSUME Collecting(k) PROVE Reducing(k + 1)'
    <2>1. \A u \in Threads : /\ stage[u] = "first" /\ calls[u] = k + 1
                             /\ \A i \in Cells : buffer[u][i] = (k + 1) * Weight(u)
      <3> SUFFICES ASSUME NEW u \in Threads
                   PROVE  /\ stage[u] = "first" /\ calls[u] = k + 1
                          /\ \A i \in Cells : buffer[u][i] = (k + 1) * Weight(u)
        OBVIOUS
      <3>1. Collected(k, u) /\ (u = t \/ (u \in Waiting /\ u \in inside))
        BY <1>4, <1>9 DEF Collecting
      <3> QED
        BY <1>3, <1>4, <3>1 DEF Collected
    <2>2. /\ stage'[t] = "reduce" /\ index'[t] = BlockBegin(t) /\ BlockBegin(t) \in Nat
          /\ \A u \in Threads : u # t => stage'[u] = "first"
      BY <1>7, <2>1, BlockShape DEF StageAfter, DataTypes
    <2>3. ASSUME NEW u \in Threads, NEW j \in Cells, Owns(u, j) PROVE CellState(k + 1, u, j)'
      <3>1. j \in Nat /\ (u = t => ~(j < BlockBegin(t)))
        BY <2>2, <2>3 DEF Owns, Cells, DataTypes
      <3>2. ~Finished(u, j)' /\ ~SummedUp(u, j)'
        BY <2>2, <3>1 DEF Finished, SummedUp
      <3> QED
        BY <1>1, <2>1, <3>2 DEF CellState, Weight
    <2>4. ASSUME NEW u \in Threads PROVE Reduced(k + 1, u)'
      <3>1. \A j \in Cells : Owns(u, j)' => CellState(k + 1, u, j)'
        BY <1>2, <2>3 DEF Owns
      <3>2. CASE u = t
        BY <1>1, <1>2, <1>5, <2>1, <2>2, <3>1, <3>2 DEF Reduced
      <3>3. CASE u # t
        BY <1>1, <1>2, <1>5, <2>1, <2>2, <3>1, <3>3 DEF Reduced
      <3> QED
        BY <3>2, <3>3
    <2> QED
      BY <2>4 DEF Reducing
  <1>10. ASSUME Reducing(k) PROVE Collecting(k)'
    <2>1. \A u \in Threads : stage[u] = "second" /\ calls[u] = k
      <3> SUFFICES ASSUME NEW u \in Threads PROVE stage[u] = "second" /\ calls[u] = k
        OBVIOUS
      <3>1. Reduced(k, u) /\ (u = t \/ (u \in Waiting /\ u \in inside))
        BY <1>4, <1>10 DEF Reducing
      <3> QED
        BY <1>3, <1>4, <3>1 DEF Reduced
    <2>2. ASSUME NEW u \in Threads, NEW i \in Cells PROVE buffer[u][i] = Sum(k)
      <3>1. PICK v \in Threads : Owns(v, i)
        BY BlocksCover DEF DataTypes
      <3>2. CellState(k, v, i) /\ Finished(v, i)
        BY <1>10, <2>1, <3>1 DEF Reducing, Reduced, Finished
      <3> QED
        BY <3>2 DEF CellState
    <2>3. stage'[t] = "idle" /\ \A u \in Threads : u # t => stage'[u] = "second"
      BY <1>7, <2>1 DEF StageAfter, DataTypes
    <2>4. ASSUME NEW u \in Threads PROVE Collected(k, u)'
      <3>1. \A i \in Cells' : buffer'[u][i] = Sum(k)'
        BY <1>1, <2>2 DEF Sum
      <3>2. CASE u = t
        BY <1>1, <1>5, <2>1, <2>3, <3>1, <3>2 DEF Collected
      <3>3. CASE u # t
        BY <1>1, <1>5, <2>1, <2>3, <3>1, <3>3 DEF Collected
      <3> QED
        BY <3>2, <3>3
    <2> QED
      BY <2>4 DEF Collecting
  <1> QED
    BY <1>8, <1>9, <1>10

(* Every step of every node leads from a phase to a phase.                 *)
LEMMA CallsStep == CallsInv /\ [AllReduceNext]_vars => CallsInv'
  <1> SUFFICES ASSUME CallsInv, [AllReduceNext]_vars PROVE CallsInv'
    OBVIOUS
  <1>1. Inductive'
    BY NextInductive DEF CallsInv, AllReduceNext, Work, Register, Accumulate, Broadcast, BlockDone,
                         SyncStep, Next, vars
  <1>2. PICK k \in Nat : Collecting(k) \/ Reducing(k)
    BY DEF CallsInv
  <1>3. CASE UNCHANGED vars
    <2>1. Cells' = Cells /\ Waiting' = Waiting
      BY <1>3 DEF vars, syncVars, dataVars, Cells, Waiting
    <2>2. DataTypes'
      BY <1>3, <2>1 DEF vars, dataVars, CallsInv, DataTypes
    <2>3. Collecting(k) => Collecting(k)'
      BY <1>3, <2>1 DEF vars, syncVars, dataVars, Collecting, Collected, Sum, Weight
    <2>4. \A u \in Threads : BlockBegin(u)' = BlockBegin(u) /\ BlockEnd(u)' = BlockEnd(u)
      BY <1>3 DEF vars, dataVars, BlockBegin, BlockEnd, BlockSize
    <2>5. Reducing(k) => Reducing(k)'
      BY <1>3, <2>1, <2>4, SMTT(40) DEF vars, syncVars, dataVars, Reducing, Reduced, Owns, CellState, Finished,
                              SummedUp, Sum, Weight
    <2> QED
      BY <1>1, <1>2, <2>2, <2>3, <2>5 DEF CallsInv
  <1>4. ASSUME NEW t \in Threads, Work(t) PROVE CallsInv'
    BY <1>1, <1>2, <1>4, RegisterKeeps, AccumulateKeeps, BroadcastKeeps, BlockDoneKeeps
    DEF CallsInv, Work
  <1>5. ASSUME NEW t \in Threads, SyncStep(t) PROVE CallsInv'
    <2>1. k + 1 \in Nat
      OBVIOUS
    <2> QED
      BY <1>1, <1>2, <1>5, <2>1, WaitKeeps, OpenMoves DEF CallsInv
  <1> QED
    BY <1>3, <1>4, <1>5 DEF AllReduceNext

(* all_reduce_threads::all_reduce sums, for every number of nodes, every   *)
(* length of the buffers, shorter than the number of nodes or not, and any *)
(* interleaving of the nodes at the barrier and in their blocks: a node    *)
(* that has returned finds the sum of all contributions to its call in     *)
(* every cell, and nobody else has a claim on the cells of a block that is *)
(* being added up.                                                         *)
THEOREM AllReduceSums == AllReduceSpec => []CallsCorrect
  <1>1. CallsInv => CallsCorrect
    <2> SUFFICES ASSUME CallsInv PROVE CallsCorrect
      OBVIOUS
    <2>1. PICK k \in Nat : Collecting(k) \/ Reducing(k)
      BY DEF CallsInv
    <2>2. ResultCorrect
      <3> SUFFICES ASSUME NEW t \in Threads, stage[t] = "idle", calls[t] > 0, NEW i \in Cells
                   PROVE  buffer[t][i] = Sum(calls[t])
        BY DEF ResultCorrect
      <3>1. Collecting(k)
        BY <2>1 DEF Reducing, Reduced
      <3>2. calls[t] = k
        BY <3>1 DEF Collecting, Collected
      <3> QED
        BY <3>1, <3>2 DEF Collecting, Collected
    <2>3. NoConflict
      <3> SUFFICES ASSUME NEW t \in Threads, stage[t] \in {"reduce", "broadcast"}
                   PROVE  /\ registered = Threads
                          /\ \A u \in Threads \ {t} :
                               /\ calls[u] = calls[t]
                               /\ BlockEnd(t) <= BlockBegin(u) \/ BlockEnd(u) <= BlockBegin(t)
        BY DEF NoConflict
      <3>1. Reducing(k)
        BY <2>1 DEF Collecting, Collected
      <3>2. \A u \in Threads : calls[u] = k /\ k > 0
        BY <3>1 DEF Reducing, Reduced
      <3>3. registered = Threads
        BY <3>2 DEF CallsInv, DataTypes
      <3> QED
        BY <3>2, <3>3, OneOwner DEF CallsInv, DataTypes
    <2> QED
      BY <2>2, <2>3 DEF CallsCorrect
  <1> QED
    BY <1>1, CallsStart, CallsStep, PTL DEF AllReduceSpec

(* all_reduce uses the barrier as it is meant to be used, so what holds of *)
(* wait_for_synchronization holds within all_reduce.                       *)
THEOREM AllReduceUsesBarrier == AllReduceSpec => Safe /\ []NobodyEarly /\ RefinesRendezvous
  <1>1. Init => SyncInit
    BY DEF Init
  <1>2. [AllReduceNext]_vars => [Next]_syncVars
    BY DEF AllReduceNext, Work, Register, Accumulate, Broadcast, BlockDone, SyncStep, Next, vars
  <1>3. AllReduceSpec => Safe
    BY <1>1, <1>2, PTL DEF AllReduceSpec, Safe
  <1> QED
    BY <1>3, BarrierCorrect, BarrierRefinement, PTL
=============================================================================

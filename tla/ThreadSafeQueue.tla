--------------------------- MODULE ThreadSafeQueue ---------------------------
(***************************************************************************)
(* VW::thread_safe_queue (core/include/vw/core/queue.h): a queue guarded   *)
(* by one mutex _mut and two condition variables.                          *)
(*                                                                         *)
(* Everything between taking _mut and releasing it (at the end of the call *)
(* or in wait()) is one action, since the members are only read and        *)
(* written under _mut.  A thread blocked in wait() is a member of the      *)
(* condition variable's wait set; notify_all empties the set, after which  *)
(* each of those threads re-takes _mut and tests its loop condition again. *)
(* wait() may also return on its own.  set_done releases _mut before it    *)
(* notifies, so its three parts are three actions.                         *)
(*                                                                         *)
(* The clients are those of the parse pipeline and of the thread pool:     *)
(* producers push up to MaxPushes elements (the bound that keeps the model *)
(* finite), consumers call try_pop until it returns false, closers call    *)
(* set_done once.                                                          *)
(***************************************************************************)
EXTENDS Integers, Sequences, TLAPS

CONSTANTS Producers, Consumers, Closers, MaxSize, MaxPushes

ASSUME SizeAssumption == MaxSize \in Nat \ {0}
ASSUME PushesAssumption == MaxPushes \in Nat
ASSUME RolesAssumption ==
  /\ Producers \intersect Consumers = {}
  /\ Producers \intersect Closers = {}
  /\ Consumers \intersect Closers = {}

VARIABLES
  object_queue,   \* _object_queue, front first
  done,           \* _done
  is_not_empty,   \* the threads blocked in _is_not_empty.wait
  is_not_full,    \* the threads blocked in _is_not_full.wait
  sent,           \* sent[p]: completed calls of push by producer p
  got,            \* got[c]: what consumer c's calls of try_pop returned
  returned,       \* the consumers whose try_pop returned false
  closing         \* closing[x]: how far closer x is inside set_done

vars == <<object_queue, done, is_not_empty, is_not_full, sent, got, returned,
          closing>>

Items == Producers \X (1 .. MaxPushes)

ClosingSteps == {"lock", "notify_not_empty", "notify_not_full", "returned"}

Init ==
  /\ object_queue = <<>>
  /\ done = FALSE
  /\ is_not_empty = {}
  /\ is_not_full = {}
  /\ sent = [p \in Producers |-> 0]
  /\ got = [c \in Consumers |-> <<>>]
  /\ returned = {}
  /\ closing = [x \in Closers |-> "lock"]

-----------------------------------------------------------------------------
(* The conditions and effects of queue.h, each with the slip its           *)
(* properties guard against (suffix _Slip: never part of Next).            *)

Full_Slip == Len(object_queue) > MaxSize
Full == Len(object_queue) = MaxSize

PopBlocked_Slip == object_queue = <<>>
PopBlocked == object_queue = <<>> /\ ~done

Front_Slip == object_queue[Len(object_queue)]
Front == Head(object_queue)

NotFullAfterPop_Slip == is_not_full
NotFullAfterPop == {}   \* notify_all

-----------------------------------------------------------------------------
(* push *)

PushRunning(p) == sent[p] < MaxPushes /\ p \notin is_not_full

PushWaits(p) ==
  /\ PushRunning(p)
  /\ Full
  /\ is_not_full' = is_not_full \union {p}
  /\ UNCHANGED <<object_queue, done, is_not_empty, sent, got, returned, closing>>

PushCompletes(p) ==
  /\ PushRunning(p)
  /\ ~Full
  /\ object_queue' = Append(object_queue, <<p, sent[p] + 1>>)
  /\ sent' = [sent EXCEPT ![p] = @ + 1]
  /\ is_not_empty' = {}
  /\ UNCHANGED <<done, is_not_full, got, returned, closing>>

PushSpurious(p) ==
  /\ p \in is_not_full
  /\ is_not_full' = is_not_full \ {p}
  /\ UNCHANGED <<object_queue, done, is_not_empty, sent, got, returned, closing>>

-----------------------------------------------------------------------------
(* try_pop *)

PopRunning(c) == c \notin returned /\ c \notin is_not_empty

PopWaits(c) ==
  /\ PopRunning(c)
  /\ PopBlocked
  /\ is_not_empty' = is_not_empty \union {c}
  /\ UNCHANGED <<object_queue, done, is_not_full, sent, got, returned, closing>>

PopReturnsFalse(c) ==
  /\ PopRunning(c) /\ ~PopBlocked
  /\ done /\ object_queue = <<>>
  /\ returned' = returned \union {c}
  /\ UNCHANGED <<object_queue, done, is_not_empty, is_not_full, sent, got, closing>>

PopReturnsItem(c) ==
  /\ PopRunning(c) /\ ~PopBlocked
  /\ object_queue # <<>>
  /\ got' = [got EXCEPT ![c] = Append(@, Front)]
  /\ object_queue' = Tail(object_queue)
  /\ is_not_full' = NotFullAfterPop
  /\ UNCHANGED <<done, is_not_empty, sent, returned, closing>>

PopSpurious(c) ==
  /\ c \in is_not_empty
  /\ is_not_empty' = is_not_empty \ {c}
  /\ UNCHANGED <<object_queue, done, is_not_full, sent, got, returned, closing>>

-----------------------------------------------------------------------------
(* set_done *)

SetDone(x) ==
  /\ closing[x] = "lock"
  /\ done' = TRUE
  /\ closing' = [closing EXCEPT ![x] = "notify_not_empty"]
  /\ UNCHANGED <<object_queue, is_not_empty, is_not_full, sent, got, returned>>

NotifyNotEmpty(x) ==
  /\ closing[x] = "notify_not_empty"
  /\ is_not_empty' = {}
  /\ closing' = [closing EXCEPT ![x] = "notify_not_full"]
  /\ UNCHANGED <<object_queue, done, is_not_full, sent, got, returned>>

NotifyNotFull(x) ==
  /\ closing[x] = "notify_not_full"
  /\ is_not_full' = {}
  /\ closing' = [closing EXCEPT ![x] = "returned"]
  /\ UNCHANGED <<object_queue, done, is_not_empty, sent, got, returned>>

-----------------------------------------------------------------------------
Push(p) == PushWaits(p) \/ PushCompletes(p)
TryPop(c) == PopWaits(c) \/ PopReturnsFalse(c) \/ PopReturnsItem(c)
CloserStep(x) == SetDone(x) \/ NotifyNotEmpty(x) \/ NotifyNotFull(x)

Next ==
  \/ \E p \in Producers : Push(p) \/ PushSpurious(p)
  \/ \E c \in Consumers : TryPop(c) \/ PopSpurious(c)
  \/ \E x \in Closers : CloserStep(x)

(* A thread that holds the processor and is not blocked goes on; nothing   *)
(* is assumed about spurious wakeups.                                      *)
Fairness ==
  /\ \A p \in Producers : WF_vars(Push(p))
  /\ \A c \in Consumers : WF_vars(TryPop(c))
  /\ \A x \in Closers : WF_vars(CloserStep(x))

Safe == Init /\ [][Next]_vars
Spec == Safe /\ Fairness

-----------------------------------------------------------------------------
(* Every variable of the queue and of its clients keeps its type, and the  *)
(* queue (which push compares with == _max_size) never exceeds its limit.  *)
TypeOK ==
  /\ object_queue \in Seq(Items)
  /\ Len(object_queue) <= MaxSize
  /\ done \in BOOLEAN
  /\ is_not_empty \subseteq Consumers
  /\ is_not_full \subseteq Producers
  /\ sent \in [Producers -> 0 .. MaxPushes]
  /\ got \in [Consumers -> Seq(Items)]
  /\ returned \subseteq Consumers
  /\ closing \in [Closers -> ClosingSteps]

(* try_pop and push never sleep through the event they wait for: a         *)
(* consumer blocked on _is_not_empty implies an empty queue, and a closed  *)
(* one only while some set_done has still to notify (it notifies after     *)
(* releasing _mut); a producer blocked on _is_not_full implies a full one. *)
NoLostWakeup ==
  /\ is_not_empty # {} => object_queue = <<>>
  /\ is_not_empty # {} /\ done => \E x \in Closers : closing[x] = "notify_not_empty"
  /\ is_not_full # {} => Len(object_queue) = MaxSize

(* The detailed queue implements the closable FIFO, its liveness included: *)
(* a consumer that could be served is not left waiting for ever.           *)
Abstract == INSTANCE ClosableQueue
              WITH contents <- object_queue, closed <- done, told <- returned

RefinesSafe == Abstract!Safe
RefinesClosableQueue == Abstract!Spec

(* After set_done every consumer (the learner waiting in get_example, the  *)
(* workers of a thread pool) gets its `false', however many are blocked.   *)
ConsumersReturn == \A c \in Consumers : done ~> c \in returned
-----------------------------------------------------------------------------
(***************************************************************************)
(* For any number of producers, consumers and closers and any limit of the *)
(* queue: its type invariant, the absence of lost wakeups, and that every  *)
(* step of the detailed queue is a step of the closable FIFO or a stutter. *)
(***************************************************************************)

USE SizeAssumption, PushesAssumption
USE DEF Full, PopBlocked, Front, NotFullAfterPop

(* The initial state of the queue is well typed.                           *)
LEMMA InitType == Init => TypeOK
  <1> SUFFICES ASSUME Init PROVE TypeOK
    OBVIOUS
  <1>1. object_queue \in Seq(Items) /\ Len(object_queue) <= MaxSize
    BY DEF Init
  <1>2. sent \in [Producers -> 0 .. MaxPushes] /\ got \in [Consumers -> Seq(Items)]
    BY DEF Init
  <1>3. closing \in [Closers -> ClosingSteps]
    BY DEF Init, ClosingSteps
  <1> QED
    BY <1>1, <1>2, <1>3 DEF Init, TypeOK

(* Every step of push, try_pop and set_done keeps the types, in particular *)
(* push never puts more than _max_size elements into the queue.            *)
LEMMA NextType == TypeOK /\ [Next]_vars => TypeOK'
  <1> SUFFICES ASSUME TypeOK, [Next]_vars PROVE TypeOK'
    OBVIOUS
  <1> USE DEF TypeOK, Items, ClosingSteps
  <1>1. ASSUME NEW p \in Producers, PushWaits(p) PROVE TypeOK'
    BY <1>1 DEF PushWaits
  <1>2. ASSUME NEW p \in Producers, PushCompletes(p) PROVE TypeOK'
    <2>1. <<p, sent[p] + 1>> \in Items
      BY <1>2 DEF PushCompletes, PushRunning
    <2>2. object_queue' \in Seq(Items) /\ Len(object_queue') = Len(object_queue) + 1
      BY <1>2, <2>1 DEF PushCompletes
    <2>3. Len(object_queue') <= MaxSize
      BY <1>2, <2>2 DEF PushCompletes
    <2>4. sent' \in [Producers -> 0 .. MaxPushes]
      BY <1>2 DEF PushCompletes, PushRunning
    <2> QED
      BY <1>2, <2>2, <2>3, <2>4 DEF PushCompletes
  <1>3. ASSUME NEW p \in Producers, PushSpurious(p) PROVE TypeOK'
    BY <1>3 DEF PushSpurious
  <1>4. ASSUME NEW c \in Consumers, PopWaits(c) PROVE TypeOK'
    BY <1>4 DEF PopWaits
  <1>5. ASSUME NEW c \in Consumers, PopReturnsFalse(c) PROVE TypeOK'
    BY <1>5 DEF PopReturnsFalse
  <1>6. ASSUME NEW c \in Consumers, PopReturnsItem(c) PROVE TypeOK'
    <2>1. Head(object_queue) \in Items
      BY <1>6 DEF PopReturnsItem
    <2>2. got' \in [Consumers -> Seq(Items)]
      BY <1>6, <2>1 DEF PopReturnsItem
    <2>3. object_queue' \in Seq(Items) /\ Len(object_queue') <= MaxSize
      BY <1>6 DEF PopReturnsItem
    <2> QED
      BY <1>6, <2>2, <2>3 DEF PopReturnsItem
  <1>7. ASSUME NEW c \in Consumers, PopSpurious(c) PROVE TypeOK'
    BY <1>7 DEF PopSpurious
  <1>8. ASSUME NEW x \in Closers, CloserStep(x) PROVE TypeOK'
    BY <1>8 DEF CloserStep, SetDone, NotifyNotEmpty, NotifyNotFull
  <1>9. CASE UNCHANGED vars
    BY <1>9 DEF vars
  <1> QED
    BY <1>1, <1>2, <1>3, <1>4, <1>5, <1>6, <1>7, <1>8, <1>9
    DEF Next, Push, TryPop

(* No step of push, try_pop or set_done leaves a thread asleep on a        *)
(* condition that holds: each step that makes a condition true empties its *)
(* wait set, or (set_done) has yet to do so.                               *)
LEMMA NextWakeup == TypeOK /\ NoLostWakeup /\ [Next]_vars => NoLostWakeup'
  <1> SUFFICES ASSUME TypeOK, NoLostWakeup, [Next]_vars PROVE NoLostWakeup'
    OBVIOUS
  <1> USE DEF NoLostWakeup
  <1>1. ASSUME NEW p \in Producers, PushWaits(p) PROVE NoLostWakeup'
    BY <1>1 DEF PushWaits
  <1>2. ASSUME NEW p \in Producers, PushCompletes(p) PROVE NoLostWakeup'
    BY <1>2 DEF PushCompletes
  <1>3. ASSUME NEW p \in Producers, PushSpurious(p) PROVE NoLostWakeup'
    BY <1>3 DEF PushSpurious
  <1>4. ASSUME NEW c \in Consumers, PopWaits(c) PROVE NoLostWakeup'
    <2>1. object_queue' = <<>> /\ ~done' /\ is_not_full' = is_not_full
      BY <1>4 DEF PopWaits
    <2> QED
      BY <1>4, <2>1 DEF PopWaits
  <1>5. ASSUME NEW c \in Consumers, PopReturnsFalse(c) PROVE NoLostWakeup'
    BY <1>5 DEF PopReturnsFalse
  <1>6. ASSUME NEW c \in Consumers, PopReturnsItem(c) PROVE NoLostWakeup'
    BY <1>6 DEF PopReturnsItem
  <1>7. ASSUME NEW c \in Consumers, PopSpurious(c) PROVE NoLostWakeup'
    BY <1>7 DEF PopSpurious
  <1>8. ASSUME NEW x \in Closers, SetDone(x) PROVE NoLostWakeup'
    <2>1. closing'[x] = "notify_not_empty"
      BY <1>8 DEF SetDone, TypeOK
    <2> QED
      BY <1>8, <2>1 DEF SetDone
  <1>9. ASSUME NEW x \in Closers, NotifyNotEmpty(x) PROVE NoLostWakeup'
    BY <1>9 DEF NotifyNotEmpty
  <1>10. ASSUME NEW x \in Closers, NotifyNotFull(x) PROVE NoLostWakeup'
    <2>1. \A y \in Closers :
            closing[y] = "notify_not_empty" => closing'[y] = "notify_not_empty"
      BY <1>10 DEF NotifyNotFull, TypeOK
    <2> QED
      BY <1>10, <2>1 DEF NotifyNotFull
  <1>11. CASE UNCHANGED vars
    BY <1>11 DEF vars
  <1> QED
    BY <1>1, <1>2, <1>3, <1>4, <1>5, <1>6, <1>7, <1>8, <1>9, <1>10, <1>11
    DEF Next, Push, TryPop, CloserStep

(* The queue is well typed and within its limit in every state.            *)
THEOREM TypeCorrect == Safe => []TypeOK
  BY InitType, NextType, PTL DEF Safe

(* No consumer sleeps on a non-empty or fully closed queue and no producer *)
(* on one that has room: the notifications of queue.h are sufficient.      *)
THEOREM WakeupCorrect == Safe => []NoLostWakeup
  <1>1. Init => NoLostWakeup
    BY DEF Init, NoLostWakeup
  <1> QED
    BY <1>1, NextWakeup, TypeCorrect, PTL DEF Safe

(* The detailed queue implements the closable FIFO: push, the two outcomes *)
(* of try_pop and the first part of set_done are its steps; waiting,       *)
(* waking and notifying are stutters.                                      *)
THEOREM QueueRefinement == Safe => RefinesSafe
  <1>1. Init => Abstract!Init
    BY DEF Init, Abstract!Init
  <1>2. TypeOK /\ [Next]_vars => [Abstract!Next]_(Abstract!vars)
    <2> SUFFICES ASSUME TypeOK, [Next]_vars
                 PROVE  [Abstract!Next]_(Abstract!vars)
      OBVIOUS
    <2> USE DEF Abstract!vars
    <2>1. ASSUME NEW p \in Producers, PushCompletes(p) PROVE Abstract!Push(p)
      <3>1. Len(object_queue) < MaxSize
        BY <2>1 DEF PushCompletes, TypeOK
      <3> QED
        BY <2>1, <3>1 DEF PushCompletes, PushRunning, Abstract!Push
    <2>2. ASSUME NEW c \in Consumers, PopReturnsFalse(c) PROVE Abstract!ReportClosed(c)
      BY <2>2 DEF PopReturnsFalse, PopRunning, Abstract!ReportClosed
    <2>3. ASSUME NEW c \in Consumers, PopReturnsItem(c) PROVE Abstract!Pop(c)
      BY <2>3 DEF PopReturnsItem, PopRunning, Abstract!Pop
    <2>4. ASSUME NEW x \in Closers, SetDone(x) PROVE Closers # {} /\ Abstract!Close
      BY <2>4 DEF SetDone, Abstract!Close
    <2>5. ASSUME NEW p \in Producers, PushWaits(p) \/ PushSpurious(p)
          PROVE  UNCHANGED Abstract!vars
      BY <2>5 DEF PushWaits, PushSpurious
    <2>6. ASSUME NEW c \in Consumers, PopWaits(c) \/ PopSpurious(c)
          PROVE  UNCHANGED Abstract!vars
      BY <2>6 DEF PopWaits, PopSpurious
    <2>7. ASSUME NEW x \in Closers, NotifyNotEmpty(x) \/ NotifyNotFull(x)
          PROVE  UNCHANGED Abstract!vars
      BY <2>7 DEF NotifyNotEmpty, NotifyNotFull
    <2>8. CASE UNCHANGED vars
      BY <2>8 DEF vars
    <2> QED
      BY <2>1, <2>2, <2>3, <2>4, <2>5, <2>6, <2>7, <2>8
      DEF Next, Push, TryPop, CloserStep, Abstract!Next
  <1> QED
    BY <1>1, <1>2, TypeCorrect, PTL DEF Safe, RefinesSafe, Abstract!Safe
=============================================================================

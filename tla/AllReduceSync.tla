---------------------------- MODULE AllReduceSync ----------------------------
(***************************************************************************)
(* VW::all_reduce_sync::wait_for_synchronization (allreduce_threads.cc):   *)
(* the barrier of the all_reduce between threads, with one mutex, one      *)
(* condition variable, a counter and a flag _run that flips each time the  *)
(* barrier opens.  What happens under the mutex is one action.  A thread   *)
(* in wait() is in the wait set cv until it is notified or wakes on its    *)
(* own; it then tests the flag against its own copy and goes back to sleep *)
(* or returns.  A thread that returned may call again at once, while       *)
(* others have not yet left the previous visit.                            *)
(***************************************************************************)
EXTENDS Integers, FiniteSets

CONSTANTS Threads, MaxVisits   \* MaxVisits bounds the calls of each thread

ASSUME ThreadsAssumption == IsFiniteSet(Threads) /\ Threads # {}
ASSUME VisitsAssumption == MaxVisits \in Nat

VARIABLES
  count,        \* _count
  run,          \* _run
  cv,           \* the threads asleep in _cv.wait
  inside,       \* the threads that have called and not yet returned
  current_run,  \* current_run[t]: the flag thread t saw when it arrived
  arrived,      \* arrived[t]: how often t has called
  left          \* left[t]: how often t has returned

syncVars == <<count, run, cv, inside, current_run, arrived, left>>

total == Cardinality(Threads)

SyncInit ==
  /\ count = 0 /\ run = TRUE
  /\ cv = {} /\ inside = {}
  /\ current_run = [t \in Threads |-> TRUE]
  /\ arrived = [t \in Threads |-> 0]
  /\ left = [t \in Threads |-> 0]

(* The conditions of the code; definitions with the suffixes _Slip and     *)
(* _Late are plausible errors in the one after them and are not used.      *)
LastOne_Late == count + 1 > total
LastOne_Slip == count + 2 >= total
LastOne == count + 1 >= total

Released_Slip(t) == count = 0   \* "this predicate cannot depend on _count"
Released(t) == run # current_run[t]

MayArrive(t) == t \notin inside /\ arrived[t] < MaxVisits

ArriveLast(t) ==
  /\ MayArrive(t) /\ LastOne
  /\ count' = 0 /\ run' = ~run /\ cv' = {}
  /\ arrived' = [arrived EXCEPT ![t] = @ + 1]
  /\ left' = [left EXCEPT ![t] = @ + 1]
  /\ UNCHANGED <<inside, current_run>>

ArriveAndSleep(t) ==
  /\ MayArrive(t) /\ ~LastOne
  /\ count' = count + 1
  /\ current_run' = [current_run EXCEPT ![t] = run]
  /\ inside' = inside \union {t} /\ cv' = cv \union {t}
  /\ arrived' = [arrived EXCEPT ![t] = @ + 1]
  /\ UNCHANGED <<run, left>>

Spurious(t) ==
  /\ t \in cv
  /\ cv' = cv \ {t}
  /\ UNCHANGED <<count, run, inside, current_run, arrived, left>>

Leave(t) ==
  /\ t \in inside \ cv /\ Released(t)
  /\ inside' = inside \ {t}
  /\ left' = [left EXCEPT ![t] = @ + 1]
  /\ UNCHANGED <<count, run, cv, current_run, arrived>>

SleepAgain(t) ==
  /\ t \in inside \ cv /\ ~Released(t)
  /\ cv' = cv \union {t}
  /\ UNCHANGED <<count, run, inside, current_run, arrived, left>>

Enter(t) == ArriveLast(t) \/ ArriveAndSleep(t)
Wait(t) == Leave(t) \/ SleepAgain(t)

Next == \E t \in Threads : Enter(t) \/ Wait(t) \/ Spurious(t)

Safe == SyncInit /\ [][Next]_syncVars

-----------------------------------------------------------------------------
(* Types; in particular _count never reaches the number of threads, so the *)
(* assertion `_count == _total' holds when the last one arrives.           *)
TypeOK ==
  /\ count \in Nat /\ count < total
  /\ run \in BOOLEAN
  /\ cv \subseteq inside /\ inside \subseteq Threads
  /\ current_run \in [Threads -> BOOLEAN]
  /\ arrived \in [Threads -> 0 .. MaxVisits]
  /\ left \in [Threads -> 0 .. MaxVisits]

(* The barrier: whoever has returned k times knows that everybody has      *)
(* called k times, although the same flag and counter serve all visits     *)
(* and fast threads call again while slow ones still wake up.              *)
NobodyEarly == \A t, u \in Threads : left[t] <= arrived[u]

(* A thread asleep in _cv.wait has not been released.                      *)
NoLostWakeup == \A t \in cv : ~Released(t)

(* Why a flag suffices: after g openings of the barrier a thread is        *)
(* outside with g visits, or waits in visit g + 1 (its copy equals _run),  *)
(* or is still to leave visit g (it does not); there is no fourth case.    *)
Waiting == {t \in inside : current_run[t] = run}

InGeneration(g) ==
  \A t \in Threads :
    \/ t \notin inside /\ arrived[t] = g /\ left[t] = g
    \/ t \in Waiting /\ arrived[t] = g + 1 /\ left[t] = g
    \/ t \in inside \ Waiting /\ arrived[t] = g /\ left[t] = g - 1

Inductive ==
  /\ TypeOK
  /\ count = Cardinality(Waiting)
  /\ NoLostWakeup
  /\ \E g \in 0 .. MaxVisits : InGeneration(g)

(* The barrier implements the rendezvous.                                  *)
Abstract == INSTANCE Rendezvous
RefinesRendezvous == Abstract!Spec
=============================================================================

----------------------------- MODULE Rendezvous -----------------------------
(***************************************************************************)
(* What all_reduce_sync promises: a barrier that can be used again and     *)
(* again.  Nobody leaves its k-th visit before everybody has begun its     *)
(* k-th visit.                                                             *)
(***************************************************************************)
EXTENDS Integers

CONSTANTS Threads, MaxVisits

VARIABLES arrived, left   \* visits begun and visits ended, for each thread

vars == <<arrived, left>>

Init == arrived = [t \in Threads |-> 0] /\ left = [t \in Threads |-> 0]

Arrive(t) ==
  /\ arrived[t] = left[t] /\ arrived[t] < MaxVisits
  /\ arrived' = [arrived EXCEPT ![t] = @ + 1]
  /\ UNCHANGED left

Leave(t) ==
  /\ left[t] < arrived[t]
  /\ \A u \in Threads : arrived[u] >= arrived[t]
  /\ left' = [left EXCEPT ![t] = @ + 1]
  /\ UNCHANGED arrived

\* the last one to arrive need not wait
Pass(t) ==
  /\ arrived[t] = left[t] /\ arrived[t] < MaxVisits
  /\ \A u \in Threads \ {t} : arrived[u] > arrived[t]
  /\ arrived' = [arrived EXCEPT ![t] = @ + 1]
  /\ left' = [left EXCEPT ![t] = @ + 1]

Next == \E t \in Threads : Arrive(t) \/ Leave(t) \/ Pass(t)

Spec == Init /\ [][Next]_vars
=============================================================================

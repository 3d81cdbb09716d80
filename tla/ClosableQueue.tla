---------------------------- MODULE ClosableQueue ----------------------------
(***************************************************************************)
(* What VW::thread_safe_queue promises its clients, without locks and      *)
(* condition variables: a bounded FIFO that can be closed.  A producer's   *)
(* push takes effect when there is room; a consumer's try_pop either takes *)
(* the front element or, once the queue is closed and empty, reports that  *)
(* there will be nothing more.  Closing does not stop a producer.          *)
(***************************************************************************)
EXTENDS Integers, Sequences

CONSTANTS Producers, Consumers, Closers, MaxSize, MaxPushes

VARIABLES
  contents,  \* the elements inside, front first
  closed,    \* set_done has been called
  sent,      \* sent[p]: how many elements producer p has pushed
  got,       \* got[c]: what consumer c has popped, in order
  told       \* the consumers whose last try_pop returned false

vars == <<contents, closed, sent, got, told>>

Items == Producers \X (1 .. MaxPushes)

Init ==
  /\ contents = <<>>
  /\ closed = FALSE
  /\ sent = [p \in Producers |-> 0]
  /\ got = [c \in Consumers |-> <<>>]
  /\ told = {}

Push(p) ==
  /\ sent[p] < MaxPushes
  /\ Len(contents) < MaxSize
  /\ sent' = [sent EXCEPT ![p] = @ + 1]
  /\ contents' = Append(contents, <<p, sent[p] + 1>>)
  /\ UNCHANGED <<closed, got, told>>

Pop(c) ==
  /\ c \notin told
  /\ contents # <<>>
  /\ got' = [got EXCEPT ![c] = Append(@, Head(contents))]
  /\ contents' = Tail(contents)
  /\ UNCHANGED <<closed, sent, told>>

ReportClosed(c) ==
  /\ c \notin told
  /\ closed /\ contents = <<>>
  /\ told' = told \union {c}
  /\ UNCHANGED <<contents, closed, sent, got>>

Close ==
  /\ closed' = TRUE
  /\ UNCHANGED <<contents, sent, got, told>>

Next ==
  \/ \E p \in Producers : Push(p)
  \/ \E c \in Consumers : Pop(c) \/ ReportClosed(c)
  \/ Closers # {} /\ Close

Safe == Init /\ [][Next]_vars

(* A consumer that can be served is served.                                *)
Fairness == \A c \in Consumers : WF_vars(Pop(c) \/ ReportClosed(c))

Spec == Safe /\ Fairness
=============================================================================

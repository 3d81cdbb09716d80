---------------------------- MODULE DaemonParent ----------------------------
(***************************************************************************)
(* The parent of vw --daemon (enable_sources, parser.cc): it forks         *)
(* num_children processes, waits for one to end and forks another in its   *)
(* place, until a SIGTERM tells it to end them all.                        *)
(*                                                                         *)
(* The operating system gives a pid to a new process once nobody holds it: *)
(* not while its process runs, and not before its parent has waited for    *)
(* it.  Children forked after the parent has installed its handler inherit *)
(* it; they only note the signal, unless it interrupts their accept.       *)
(***************************************************************************)
EXTENDS Integers, FiniteSets

CONSTANTS
  num_children,
  Pid,         \* the pids the system hands out
  MaxForks,    \* bound: forks in one behaviour
  ForkFails    \* whether fork may fail

ASSUME DaemonAssumption ==
  /\ num_children \in Nat /\ Pid \subseteq Nat \ {0} /\ MaxForks \in Nat
  /\ ForkFails \in BOOLEAN

VARIABLES
  daemon,        \* "fork", "loop", "wait", "returned", "kill", "exited"; "killed":
                 \* ended by a signal before its handler was there
  kidSlot,       \* the loop index over the slots
  kids,          \* children: the pid in each slot, -1 after a fork that failed, 0 before
  waited,        \* what wait returned
  got_sigterm,
  processes,     \* processes[p]: "none", "child", "zombie", or "other": not ours
  handler,       \* the children that run with handle_sigterm
  told,          \* processes that have been sent a SIGTERM
  forks          \* forks so far

daemonVars == <<daemon, kidSlot, kids, waited, got_sigterm, processes, handler, told, forks>>

Slots == 1 .. num_children
Free == {p \in Pid : processes[p] = "none"}
OwnChild(p) == processes[p] \in {"child", "zombie"}

DaemonInit ==
  /\ daemon = "fork" /\ kidSlot = 1 /\ kids = [i \in Slots |-> 0] /\ waited = 0
  /\ got_sigterm = FALSE /\ processes = [p \in Pid |-> "none"]
  /\ handler = {} /\ told = {} /\ forks = 0

-----------------------------------------------------------------------------
(* children[i] = fork(): the return value is stored whatever it is.        *)
PidStored_Slip(i, p) == IF kids[i] = 0 THEN [kids EXCEPT ![i] = p] ELSE kids
PidStored(i, p) == [kids EXCEPT ![i] = p]

Forked(i, inherits) ==
  /\ forks < MaxForks /\ forks' = forks + 1
  /\ \/ \E p \in Free :
          /\ kids' = PidStored(i, p)
          /\ processes' = [processes EXCEPT ![p] = "child"]
          /\ handler' = IF inherits THEN handler \union {p} ELSE handler \ {p}
          /\ told' = told \ {p}
     \/ /\ ForkFails
        /\ kids' = PidStored(i, -1)
        /\ UNCHANGED <<processes, handler, told>>

Fork ==
  /\ daemon = "fork" /\ kidSlot <= num_children
  /\ Forked(kidSlot, FALSE) /\ kidSlot' = kidSlot + 1
  /\ UNCHANGED <<daemon, waited, got_sigterm>>

Install ==
  /\ daemon = "fork" /\ kidSlot > num_children
  /\ daemon' = "loop"
  /\ UNCHANGED <<kidSlot, kids, waited, got_sigterm, processes, handler, told, forks>>

CallWait ==
  /\ daemon = "loop" /\ daemon' = "wait"
  /\ UNCHANGED <<kidSlot, kids, waited, got_sigterm, processes, handler, told, forks>>

(* wait collects a child that has ended, and fails where there is none.    *)
WaitReturns ==
  /\ daemon = "wait" /\ daemon' = "returned"
  /\ \/ \E p \in Pid : /\ processes[p] = "zombie" /\ waited' = p
                       /\ processes' = [processes EXCEPT ![p] = "none"]
     \/ (\A p \in Pid : ~OwnChild(p)) /\ waited' = -1 /\ UNCHANGED processes
  /\ UNCHANGED <<kidSlot, kids, got_sigterm, handler, told, forks>>

(* The slots that a pid returned by wait belongs to.                       *)
SlotOf_Slip(p) == {i \in Slots : kids[i] > 0}
SlotOf(p) == {i \in Slots : kids[i] = p}

AfterWait ==
  /\ daemon = "returned"
  /\ IF got_sigterm
     THEN daemon' = "kill" /\ kidSlot' = 1 /\ UNCHANGED <<kids, processes, handler, told, forks>>
     ELSE /\ daemon' = "loop" /\ UNCHANGED kidSlot
          /\ \/ \E i \in SlotOf(waited) :
                  waited >= 0 /\ (\A j \in SlotOf(waited) : i <= j) /\ Forked(i, TRUE)
             \/ waited < 0 /\ UNCHANGED <<kids, processes, handler, told, forks>>
  /\ UNCHANGED <<waited, got_sigterm>>

(* kill(-1, SIGTERM) goes to every process.                                *)
Signalled(i) == IF kids[i] = -1 THEN {p \in Pid : processes[p] # "none"}
                ELSE {kids[i]} \intersect {p \in Pid : processes[p] # "none"}

LastKilled_Slip(i) == i >= num_children
LastKilled(i) == i > num_children

KillChild ==
  /\ daemon = "kill"
  /\ IF LastKilled(kidSlot) THEN daemon' = "exited" /\ UNCHANGED <<told, kidSlot>>
     ELSE told' = told \union Signalled(kidSlot) /\ kidSlot' = kidSlot + 1 /\ UNCHANGED daemon
  /\ UNCHANGED <<kids, waited, got_sigterm, processes, handler, forks>>

-----------------------------------------------------------------------------
(* SIGTERM to the parent: before the handler is there it ends the process, *)
(* later it interrupts wait, and anywhere else it is only noted.           *)
Sigterm ==
  /\ daemon \notin {"exited", "killed"} /\ ~got_sigterm /\ got_sigterm' = TRUE
  /\ daemon' = CASE daemon = "fork" -> "killed" [] daemon = "wait" -> "returned"
                 [] OTHER -> daemon
  /\ waited' = IF daemon = "wait" THEN -1 ELSE waited
  /\ UNCHANGED <<kidSlot, kids, processes, handler, told, forks>>

(* What a child makes of its SIGTERM.                                      *)
Obey(p) ==
  /\ p \in told /\ processes[p] = "child" /\ p \notin handler
  /\ processes' = [processes EXCEPT ![p] = "zombie"]
  /\ UNCHANGED <<daemon, kidSlot, kids, waited, got_sigterm, handler, told, forks>>

(* A child ends by itself, after an exception or a crash.                  *)
ChildEnds(p) ==
  /\ processes[p] = "child" /\ processes' = [processes EXCEPT ![p] = "zombie"]
  /\ UNCHANGED <<daemon, kidSlot, kids, waited, got_sigterm, handler, told, forks>>

(* Another program takes a pid, or gives it back.                          *)
OtherProcess(p) ==
  /\ processes' = [processes EXCEPT ![p] = IF @ = "none" THEN "other" ELSE "none"]
  /\ processes[p] = "other" \/ (processes[p] = "none" /\ Cardinality(Free) > num_children)
  /\ told' = told \ {p}
  /\ UNCHANGED <<daemon, kidSlot, kids, waited, got_sigterm, handler, forks>>

Parent == Fork \/ Install \/ CallWait \/ WaitReturns \/ AfterWait \/ KillChild

DaemonNext ==
  \/ Parent \/ Sigterm
  \/ \E p \in Pid : Obey(p) \/ ChildEnds(p) \/ OtherProcess(p)

DaemonSpec ==
  /\ DaemonInit /\ [][DaemonNext]_daemonVars
  /\ WF_daemonVars(Parent) /\ \A p \in Pid : WF_daemonVars(Obey(p))

-----------------------------------------------------------------------------
(* While the parent runs it knows every child it has not collected, each   *)
(* in one slot: none is forgotten when wait hands out a pid that comes     *)
(* back for another slot.                                                  *)
ChildrenKnown ==
  daemon \notin {"exited", "killed"} =>
    \A p \in Pid : OwnChild(p) => Cardinality({i \in Slots : kids[i] = p}) = 1

(* The SIGTERMs go to the parent's own children; the one pid that may be   *)
(* stale is the one wait has just returned, which can already belong to    *)
(* another program, and a fork that failed makes the parent signal         *)
(* everybody.                                                              *)
SignalsOwn ==
  [][\A p \in told' \ told : OwnChild(p) \/ p = waited \/ \E i \in Slots : kids[i] = -1]_daemonVars

(* A parent that exits after it was told to has sent a SIGTERM to every    *)
(* child that still runs, also to one that was respawned a moment ago.     *)
AllTold ==
  daemon = "exited" =>
    \A p \in Pid : processes[p] = "child" => p \in told

(* As long as forks succeed and nobody ends the parent every slot has a    *)
(* running child again and again, however often the children end.          *)
Respawns ==
  \/ <>(got_sigterm \/ forks = MaxForks \/ \E i \in Slots : kids[i] = -1)
  \/ \A i \in Slots : []<>(kids[i] \in Pid /\ processes[kids[i]] = "child")

(* "install signal handler so we can kill children when killed": once the  *)
(* parent has ended after a SIGTERM no child is left.                      *)
NoOrphans == [](daemon = "exited" => <>(\A p \in Pid : processes[p] # "child"))

(* The parent of the daemon (enable_sources) knows every child it has not  *)
(* collected, each in one slot, and leaves no running child without a      *)
(* SIGTERM when it exits because it was told to.                           *)
DaemonSafe ==
  /\ ChildrenKnown
  /\ AllTold
=============================================================================

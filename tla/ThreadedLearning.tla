-------------------------- MODULE ThreadedLearning --------------------------
(***************************************************************************)
(* VowpalWabbitThreadedLearning (cs_parallel): one VW instance per node,   *)
(* each behind a bounded action block, kept together by AllReduce.  An     *)
(* EndOfPass item is put into every block after ExampleCountPerRun         *)
(* examples or by Flush; the root runs the pending synchronisation actions *)
(* (saving a model, completing a Flush) right after it.  A model is the    *)
(* set of examples it has learned from; AllReduce makes it the union.      *)
(***************************************************************************)
EXTENDS Integers, Sequences, FiniteSets

CONSTANTS
  NumNodes,             \* MaxDegreeOfParallelism
  Callers,              \* threads that submit work; one of them calls Complete
  ExampleCountPerRun,
  QueueLength,          \* MaxExampleQueueLengthPerInstance
  MaxPosts,             \* bound: examples
  SaveIds, FlushIds     \* the calls of SaveModel and of Flush

ASSUME LearningAssumption ==
  /\ NumNodes \in Nat \ {0} /\ ExampleCountPerRun \in Nat \ {0}
  /\ QueueLength \in Nat \ {0} /\ MaxPosts \in Nat /\ SaveIds \cap FlushIds = {}

Nodes == 0 .. NumNodes - 1
EndOfPass == 0          \* the item; an example is its number, from 1

VARIABLES
  blocks,       \* blocks[n]: the items of node n, the one being run first
  nodeAt,       \* "run", "drain" (root, after an AllReduce), "final", "finalDrain", "done"
  models,       \* models[n]: what node n's instance has learned
  exampleCount,
  sending,      \* sending[c]: the calls of OnNext caller c has still to make
  syncActions, listCompleted,   \* the ConcurrentList
  running,      \* the actions the root has taken out of it and not yet run
  tasksDone,    \* calls of SaveModel and Flush whose task has completed
  called,       \* calls of SaveModel and Flush that have been made
  owed,         \* owed[f]: the examples posted when Flush f was called
  saved,        \* the models saved
  merges,       \* what AllReduce has produced so far
  completing    \* Complete has been called

learnVars == <<blocks, nodeAt, models, exampleCount, sending, syncActions, listCompleted,
               running, tasksDone, called, owed, saved, merges, completing>>

LearnInit ==
  /\ blocks = [n \in Nodes |-> <<>>] /\ nodeAt = [n \in Nodes |-> "run"]
  /\ models = [n \in Nodes |-> {}] /\ exampleCount = 0 /\ sending = [c \in Callers |-> <<>>]
  /\ syncActions = <<>> /\ listCompleted = FALSE /\ running = <<>>
  /\ tasksDone = {} /\ called = {} /\ owed = [f \in FlushIds |-> {}]
  /\ saved = {} /\ merges = {} /\ completing = FALSE

AllDone == \A n \in Nodes : nodeAt[n] = "done"

-----------------------------------------------------------------------------
(* The callers.  A call is a sequence of OnNext, each of which waits until *)
(* the block has room.                                                     *)
SyncTargets_Slip == [i \in 1 .. NumNodes - 1 |-> <<i - 1, EndOfPass>>]
SyncTargets == [i \in 1 .. NumNodes |-> <<i - 1, EndOfPass>>]

(* Post: the examples are dealt out in turn or at random.                  *)
Post(c) ==
  /\ ~completing /\ sending[c] = <<>> /\ exampleCount < MaxPosts
  /\ exampleCount' = exampleCount + 1
  /\ \E n \in Nodes :
       sending' = [sending EXCEPT ![c] =
         (IF exampleCount' % ExampleCountPerRun = 0 THEN SyncTargets ELSE <<>>)
           \o << <<n, exampleCount'>> >>]
  /\ UNCHANGED <<blocks, nodeAt, models, syncActions, listCompleted, running, tasksDone,
                 called, owed, saved, merges, completing>>

OnNext(c) ==
  /\ sending[c] # <<>>
  /\ LET n == Head(sending[c])[1]
     IN /\ Len(blocks[n]) < QueueLength
        /\ blocks' = [blocks EXCEPT ![n] = Append(@, Head(sending[c])[2])]
  /\ sending' = [sending EXCEPT ![c] = Tail(@)]
  /\ UNCHANGED <<nodeAt, models, exampleCount, syncActions, listCompleted, running, tasksDone,
                 called, owed, saved, merges, completing>>

(* Examples whose Post has returned.                                       *)
Posted ==
  (1 .. exampleCount) \ UNION {{sending[c][i][2] : i \in DOMAIN sending[c]} : c \in Callers}

Flush(c, f) ==
  /\ ~completing /\ sending[c] = <<>> /\ f \notin called
  /\ called' = called \cup {f} /\ owed' = [owed EXCEPT ![f] = Posted]
  /\ syncActions' = Append(syncActions, f)
  /\ sending' = [sending EXCEPT ![c] = SyncTargets]
  /\ UNCHANGED <<blocks, nodeAt, models, exampleCount, listCompleted, running, tasksDone,
                 saved, merges, completing>>

(* SaveModel: at once when everything is complete or the root has taken    *)
(* its last actions, else with the next synchronisation.                   *)
SavesDirectly_Slip == listCompleted \/ completing
SavesDirectly == AllDone \/ listCompleted

SaveModel(c, s) ==
  /\ sending[c] = <<>> /\ s \notin called /\ called' = called \cup {s}
  /\ IF SavesDirectly
     THEN /\ saved' = saved \cup {models[0]} /\ tasksDone' = tasksDone \cup {s}
          /\ UNCHANGED syncActions
     ELSE /\ syncActions' = Append(syncActions, s)
          /\ UNCHANGED <<saved, tasksDone>>
  /\ UNCHANGED <<blocks, nodeAt, models, exampleCount, sending, listCompleted, running, owed,
                 merges, completing>>

(* Complete, once no caller is inside a call.                              *)
Complete ==
  /\ ~completing /\ \A c \in Callers : sending[c] = <<>>
  /\ completing' = TRUE
  /\ UNCHANGED <<blocks, nodeAt, models, exampleCount, sending, syncActions, listCompleted,
                 running, tasksDone, called, owed, saved, merges>>

-----------------------------------------------------------------------------
(* The nodes.                                                              *)
Learn(n) ==
  /\ nodeAt[n] = "run" /\ blocks[n] # <<>> /\ Head(blocks[n]) # EndOfPass
  /\ models' = [models EXCEPT ![n] = @ \cup {Head(blocks[n])}]
  /\ blocks' = [blocks EXCEPT ![n] = Tail(@)]
  /\ UNCHANGED <<nodeAt, exampleCount, sending, syncActions, listCompleted, running, tasksDone,
                 called, owed, saved, merges, completing>>

(* A completed block's continuation starts once the block is empty.        *)
BlockEnds_Slip(n) == completing
BlockEnds(n) == completing /\ blocks[n] = <<>>

BlockCompletes(n) ==
  /\ nodeAt[n] = "run" /\ BlockEnds(n)
  /\ nodeAt' = [nodeAt EXCEPT ![n] = "final"]
  /\ UNCHANGED <<blocks, models, exampleCount, sending, syncActions, listCompleted, running,
                 tasksDone, called, owed, saved, merges, completing>>

(* EndOfPass: AllReduce lets nobody go before everybody has come.          *)
InEndOfPass(n) ==
  \/ nodeAt[n] = "final"
  \/ nodeAt[n] = "run" /\ blocks[n] # <<>> /\ Head(blocks[n]) = EndOfPass

AllReduce ==
  /\ \A n \in Nodes : InEndOfPass(n)
  /\ LET merged == UNION {models[n] : n \in Nodes}
     IN models' = [n \in Nodes |-> merged] /\ merges' = merges \cup {merged}
  /\ nodeAt' = [n \in Nodes |-> IF n = 0
                               THEN IF nodeAt[n] = "final" THEN "finalDrain" ELSE "drain"
                               ELSE IF nodeAt[n] = "final" THEN "done" ELSE "run"]
  /\ blocks' = [n \in Nodes |-> IF n # 0 /\ nodeAt[n] = "run" THEN Tail(blocks[n])
                                ELSE blocks[n]]
  /\ UNCHANGED <<exampleCount, sending, syncActions, listCompleted, running, tasksDone, called,
                 owed, saved, completing>>

(* The root takes all pending actions, the last time for good, and runs    *)
(* them before its next item.                                              *)
Marked_Slip == listCompleted
Marked == listCompleted \/ nodeAt[0] = "finalDrain"

RemoveAll ==
  /\ nodeAt[0] \in {"drain", "finalDrain"}
  /\ running' = syncActions /\ syncActions' = <<>> /\ listCompleted' = Marked
  /\ nodeAt' = [nodeAt EXCEPT ![0] = IF @ = "drain" THEN "sync" ELSE "finalSync"]
  /\ UNCHANGED <<blocks, models, exampleCount, sending, tasksDone, called, owed, saved, merges,
                 completing>>

RunSyncAction ==
  /\ nodeAt[0] \in {"sync", "finalSync"} /\ running # <<>>
  /\ running' = Tail(running) /\ tasksDone' = tasksDone \cup {Head(running)}
  /\ saved' = IF Head(running) \in SaveIds THEN saved \cup {models[0]} ELSE saved
  /\ UNCHANGED <<blocks, nodeAt, models, exampleCount, sending, syncActions, listCompleted,
                 called, owed, merges, completing>>

SyncActionsRun ==
  /\ nodeAt[0] \in {"sync", "finalSync"} /\ running = <<>>
  /\ IF nodeAt[0] = "sync"
     THEN /\ nodeAt' = [nodeAt EXCEPT ![0] = "run"]
          /\ blocks' = [blocks EXCEPT ![0] = Tail(@)]
     ELSE nodeAt' = [nodeAt EXCEPT ![0] = "done"] /\ UNCHANGED blocks
  /\ UNCHANGED <<models, exampleCount, sending, syncActions, listCompleted, running, tasksDone,
                 called, owed, saved, merges, completing>>

NodeStep == AllReduce \/ RemoveAll \/ RunSyncAction \/ SyncActionsRun
              \/ \E n \in Nodes : Learn(n) \/ BlockCompletes(n)

LearnNext ==
  \/ NodeStep \/ Complete
  \/ \E c \in Callers : \/ Post(c) \/ OnNext(c)
                        \/ \E f \in FlushIds : Flush(c, f)
                        \/ \E s \in SaveIds : SaveModel(c, s)

(* The task scheduler runs the blocks and callers blocked in OnNext go on. *)
LearnFairness == WF_learnVars(NodeStep) /\ \A c \in Callers : WF_learnVars(OnNext(c))

-----------------------------------------------------------------------------
(* A model that is saved is one AllReduce has made, never what the root    *)
(* alone has learned, whether it is saved at a synchronisation, by the     *)
(* last one or by the caller after it.                                     *)
SavedMerged == saved \subseteq merges

(* When the task of Complete is complete, every instance has learned from  *)
(* every example, and every save or flush asked for before has been done.  *)
CompleteIsAll ==
  AllDone => /\ \A n \in Nodes : models[n] = 1 .. exampleCount
             /\ called \subseteq tasksDone

(* Once Complete is called, all blocks finish: neither the full queues nor *)
(* the AllReduce barrier leaves a node or a caller waiting for ever.       *)
LearningEnds == completing ~> AllDone

(* What Learn's documentation says of Flush: when its task is complete,    *)
(* the examples posted before it have been learned.  An EndOfPass that was *)
(* already in the blocks when Flush was called completes the task.         *)
FlushLearns ==
  \A f \in FlushIds \cap tasksDone : owed[f] \subseteq UNION {models[n] : n \in Nodes}
=============================================================================

----------------------------- MODULE MCWorkers ------------------------------
(* Threads and peers that hand work to one another: the thread pool, the   *)
(* sender and the daemon it sends to, and from the .NET bindings learning  *)
(* on several nodes and the pool of models behind threaded prediction.     *)
(* They share no variables; a behaviour drives the one that `part` names,  *)
(* and the others stay in a fixed initial state.                           *)
EXTENDS ThreadPool, Sender, ThreadedLearning, ModelPool

VARIABLE part

workersVars == <<part, tpVars, senderVars, learnVars, poolVars>>

(* One value for the choices of a component that is not driven.            *)
Fixes(name, choice) == part # name => choice

WorkersInit ==
  /\ part \in {"pool", "sender", "learning", "prediction"}
  /\ TpInit /\ Fixes("pool", size = 0 /\ block_size = 0)
  /\ SenderInit /\ Fixes("sender", limit = 4)
  /\ LearnInit /\ PoolInit

Rests(name, vars) == IF part = name THEN TRUE ELSE UNCHANGED vars

WorkersNext ==
  /\ UNCHANGED part
  /\ Rests("pool", tpVars) /\ Rests("sender", senderVars)
  /\ Rests("learning", learnVars) /\ Rests("prediction", poolVars)
  /\ \/ part = "pool" /\ TpNext
     \/ part = "sender" /\ SenderNext
     \/ part = "learning" /\ LearnNext
     \/ part = "prediction" /\ PoolNext

(* Each component with the fairness of its own specification, as far as it *)
(* is driven.                                                              *)
WorkersSpec ==
  /\ WorkersInit /\ [][WorkersNext]_workersVars
  /\ WF_tpVars(part = "pool" /\ Owner)
  /\ \A w \in Workers : WF_tpVars(part = "pool" /\ Worker(w))
  /\ WF_senderVars(part = "sender" /\ Send) /\ WF_senderVars(part = "sender" /\ Predict)
  /\ WF_learnVars(part = "learning" /\ NodeStep)
  /\ \A c \in Callers : WF_learnVars(part = "learning" /\ OnNext(c))

-----------------------------------------------------------------------------
(* See Finishes: with the daemon up the sender gets all its answers.       *)
SenderFinishes == part = "sender" => Finishes

(* See Ends: the sender comes to an end, whatever the daemon does.         *)
SenderEnds == part = "sender" => Ends

(* Work that is handed to others is done once and comes back to its place: *)
(* generate_AOmega computes every row once and before it returns, the      *)
(* sender scores every prediction against its own example, and threaded    *)
(* learning saves merged models only and is complete when every example is *)
(* learned and every save done.                                            *)
WorkSafe ==
  /\ RowsOnce
  /\ PairedRight
  /\ SavedMerged
  /\ CompleteIsAll

(* Nobody waits for ever: calls on the thread pool return, its destructor  *)
(* and a constructor that failed leave no worker behind, the sender gets   *)
(* all its answers or ends without them, and threaded learning completes.  *)
WorkEnds ==
  /\ CallReturns
  /\ PoolEnds
  /\ SenderFinishes
  /\ SenderEnds
  /\ LearningEnds
=============================================================================

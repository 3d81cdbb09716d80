----------------------------- MODULE ModelPool ------------------------------
(***************************************************************************)
(* The pool of VW instances for prediction on many threads (cs/ObjectPool, *)
(* ObjectFactory, PooledObject and VowpalWabbitThreadedPredictionBase) and *)
(* the reference count of the model they are seeded from (cli/vw_base).    *)
(* UpdateModel replaces the model under the feet of the threads; several   *)
(* calls of it may overlap, since each disposes of what it has replaced    *)
(* outside the lock.  Models are numbered by the version they are the      *)
(* model of, and so is the call that retires a version.                    *)
(***************************************************************************)
EXTENDS Integers, Sequences, FiniteSets

CONSTANTS
  Predictors,   \* threads that get, use and return instances
  MaxUpdates    \* bound: calls of UpdateModel

ASSUME PoolAssumption == MaxUpdates \in Nat /\ IsFiniteSet(Predictors)

Versions == 0 .. MaxUpdates
None == MaxUpdates + 1

VARIABLES
  version,      \* ObjectPool.version; the model of factory v is model v
  pool,         \* a stack of instances, each the model it is seeded from
  poolDisposed, \* pool = null
  source,       \* source[v]: factory v has its model still
  refs,         \* refs[v]: m_instanceCount of model v
  live,         \* live[v]: m_vw of model v is not null
  freed,        \* freed[v]: how often VW::finish was called for model v
  toDispose,    \* toDispose[v]: the steps left to the call that retires v
  retirer,      \* retirer[v]: where that call is: "next", "release", "finish"
  thread,       \* thread[t]: see ThreadStates
  holds,        \* holds[t]: the version of the object t makes or uses
  late,         \* the threads whose instance was counted on a retired model
  busy          \* the models that had a thread at work when they retired

modelVars == <<refs, live, freed>>
retireVars == <<version, poolDisposed, source, toDispose, retirer, busy>>
poolVars == <<retireVars, modelVars, pool, thread, holds, late>>

(* A thread in "outdated" finishes its own workspace, on the weights of    *)
(* its model still; in "release" it is about to test the model's m_vw and  *)
(* in "finish" it has found one.                                           *)
ThreadStates == {"idle", "create", "seed", "count", "use", "outdated", "release", "finish", "empty"}

PoolInit ==
  /\ version = 0 /\ pool = <<>> /\ poolDisposed = FALSE
  /\ source = [v \in Versions |-> TRUE] /\ refs = [v \in Versions |-> 0]
  /\ live = [v \in Versions |-> TRUE] /\ freed = [v \in Versions |-> 0]
  /\ toDispose = [v \in Versions |-> 0] /\ retirer = [v \in Versions |-> "next"]
  /\ thread = [t \in Predictors |-> "idle"] /\ holds = [t \in Predictors |-> None]
  /\ late = {} /\ busy = {}

(* A version that has been replaced, or whose pool is gone.                *)
Retired(v) == v < version \/ (v = version /\ poolDisposed)

(* Dispose of the pool keeps the write lock until all is disposed of.      *)
Unlocked == poolDisposed => toDispose[version] = 0

-----------------------------------------------------------------------------
(* InternalDispose of a model tests m_vw, and then takes and finishes it;  *)
(* nothing keeps two callers from both passing the test.                   *)
FinishModel(v) ==
  /\ live' = [live EXCEPT ![v] = FALSE] /\ freed' = [freed EXCEPT ![v] = @ + 1]
  /\ UNCHANGED refs

(* DecrementReference, by an instance that has been finished.              *)
LastReference(v) == refs[v] - 1 <= 0
DecrementReference(v) == refs' = [refs EXCEPT ![v] = @ - 1] /\ UNCHANGED <<live, freed>>

(* The model's own Dispose: it stays while instances refer to it.          *)
Unreferenced_Slip(v) == TRUE
Unreferenced(v) == refs[v] <= 0

-----------------------------------------------------------------------------
(* GetOrCreate: pop, or copy version and factory and leave the lock.       *)
GetOrCreate(t) ==
  /\ thread[t] = "idle" /\ ~poolDisposed
  /\ IF pool # <<>>
     THEN /\ thread' = [thread EXCEPT ![t] = "use"]
          /\ holds' = [holds EXCEPT ![t] = Head(pool)] /\ pool' = Tail(pool)
     ELSE /\ thread' = [thread EXCEPT ![t] = "create"]
          /\ holds' = [holds EXCEPT ![t] = version] /\ UNCHANGED pool
  /\ UNCHANGED <<retireVars, modelVars, late>>

(* Create, in three steps: the factory's source is read, an instance is    *)
(* seeded from it, the reference is counted.                               *)
ReadSource(t) ==
  /\ thread[t] = "create" /\ source[holds[t]]
  /\ thread' = [thread EXCEPT ![t] = "seed"]
  /\ UNCHANGED <<retireVars, modelVars, pool, holds, late>>

(* The factory has been disposed of: an instance without any model.        *)
CreateEmpty(t) ==
  /\ thread[t] = "create" /\ ~source[holds[t]]
  /\ thread' = [thread EXCEPT ![t] = "empty"] /\ holds' = [holds EXCEPT ![t] = None]
  /\ UNCHANGED <<retireVars, modelVars, pool, late>>

(* Seeding from a model that has been finished is undefined; the thread    *)
(* does not come back.                                                     *)
SeedModel(t) ==
  /\ thread[t] = "seed" /\ live[holds[t]]
  /\ thread' = [thread EXCEPT ![t] = "count"]
  /\ UNCHANGED <<retireVars, modelVars, pool, holds, late>>

IncrementReference(t) ==
  /\ thread[t] = "count"
  /\ thread' = [thread EXCEPT ![t] = "use"] /\ refs' = [refs EXCEPT ![holds[t]] = @ + 1]
  /\ late' = IF Retired(holds[t]) THEN late \union {t} ELSE late
  /\ UNCHANGED <<retireVars, live, freed, pool, holds>>

(* ReturnObject: back to the pool if it is of this version, else away.     *)
Returns_Slip(v) == ~poolDisposed
Returns(v) == v = version /\ ~poolDisposed

ReturnObject(t) ==
  /\ thread[t] = "use" /\ Unlocked
  /\ IF Returns(holds[t])
     THEN /\ pool' = <<holds[t]>> \o pool /\ thread' = [thread EXCEPT ![t] = "idle"]
          /\ holds' = [holds EXCEPT ![t] = None] /\ late' = late \ {t}
     ELSE thread' = [thread EXCEPT ![t] = "outdated"] /\ UNCHANGED <<pool, holds, late>>
  /\ UNCHANGED <<retireVars, modelVars>>

(* Dispose of an outdated instance: its workspace is finished, and then    *)
(* its reference given up.                                                 *)
DisposeInstance(t) ==
  /\ thread[t] = "outdated" /\ DecrementReference(holds[t])
  /\ late' = late \ {t}
  /\ IF LastReference(holds[t])
     THEN thread' = [thread EXCEPT ![t] = "release"] /\ UNCHANGED holds
     ELSE thread' = [thread EXCEPT ![t] = "idle"] /\ holds' = [holds EXCEPT ![t] = None]
  /\ UNCHANGED <<retireVars, pool>>

(* The last one has the model to finish, unless another has done it.       *)
ReleaseModel(t) ==
  /\ thread[t] = "release"
  /\ IF live[holds[t]]
     THEN thread' = [thread EXCEPT ![t] = "finish"] /\ UNCHANGED holds
     ELSE thread' = [thread EXCEPT ![t] = "idle"] /\ holds' = [holds EXCEPT ![t] = None]
  /\ UNCHANGED <<retireVars, modelVars, pool, late>>

FinishByThread(t) ==
  /\ thread[t] = "finish" /\ FinishModel(holds[t])
  /\ thread' = [thread EXCEPT ![t] = "idle"] /\ holds' = [holds EXCEPT ![t] = None]
  /\ UNCHANGED <<retireVars, pool, late>>

ReturnEmpty(t) ==
  /\ thread[t] = "empty" /\ thread' = [thread EXCEPT ![t] = "idle"]
  /\ UNCHANGED <<retireVars, modelVars, pool, holds, late>>

-----------------------------------------------------------------------------
(* What retires a version disposes of the instances in its pool, then of   *)
(* the factory: of the model, and the factory's source becomes null.       *)
Outdated_Slip(s) == 2
Outdated(s) == Len(s) + 2
InDisposal(v) == IF toDispose[v] > 2 THEN toDispose[v] - 2 ELSE 0

AtWork(v) == \E t \in Predictors : holds[t] = v
Retire(v) ==
  /\ toDispose' = [toDispose EXCEPT ![v] = Outdated(pool)] /\ pool' = <<>>
  /\ busy' = IF AtWork(v) THEN busy \union {v} ELSE busy
  /\ UNCHANGED <<source, retirer, modelVars, thread, holds, late>>

(* UpdateFactory: under the lock the new version, factory and pool; what   *)
(* it retires it disposes of after leaving the lock.                       *)
UpdateModel ==
  /\ ~poolDisposed /\ version < MaxUpdates
  /\ version' = version + 1 /\ Retire(version) /\ UNCHANGED poolDisposed

(* Dispose of the pool, all of it under the lock.                          *)
DisposePool ==
  /\ ~poolDisposed
  /\ poolDisposed' = TRUE /\ Retire(version) /\ UNCHANGED version

RetirerRests == UNCHANGED <<version, poolDisposed, busy, pool, thread, holds, late>>

(* One of the instances that were in the pool.                             *)
RetireInstance(v) ==
  /\ retirer[v] = "next" /\ toDispose[v] > 2 /\ DecrementReference(v)
  /\ retirer' = IF LastReference(v) THEN [retirer EXCEPT ![v] = "release"] ELSE retirer
  /\ toDispose' = [toDispose EXCEPT ![v] = @ - 1]
  /\ UNCHANGED source /\ RetirerRests

(* The factory's model.                                                    *)
RetireModel(v) ==
  /\ retirer[v] = "next" /\ toDispose[v] = 2
  /\ retirer' = IF Unreferenced(v) THEN [retirer EXCEPT ![v] = "release"] ELSE retirer
  /\ toDispose' = [toDispose EXCEPT ![v] = 1]
  /\ UNCHANGED <<source, modelVars>> /\ RetirerRests

RetireSource(v) ==
  /\ retirer[v] = "next" /\ toDispose[v] = 1
  /\ source' = [source EXCEPT ![v] = FALSE] /\ toDispose' = [toDispose EXCEPT ![v] = 0]
  /\ UNCHANGED <<retirer, modelVars>> /\ RetirerRests

ReleaseByRetirer(v) ==
  /\ retirer[v] = "release"
  /\ retirer' = [retirer EXCEPT ![v] = IF live[v] THEN "finish" ELSE "next"]
  /\ UNCHANGED <<toDispose, source, modelVars>> /\ RetirerRests

FinishByRetirer(v) ==
  /\ retirer[v] = "finish" /\ FinishModel(v) /\ retirer' = [retirer EXCEPT ![v] = "next"]
  /\ UNCHANGED <<toDispose, source>> /\ RetirerRests

PoolNext ==
  \/ UpdateModel \/ DisposePool
  \/ \E v \in Versions : \/ RetireInstance(v) \/ RetireModel(v) \/ RetireSource(v)
                         \/ ReleaseByRetirer(v) \/ FinishByRetirer(v)
  \/ \E t \in Predictors : \/ GetOrCreate(t) \/ ReadSource(t) \/ CreateEmpty(t)
                           \/ SeedModel(t) \/ IncrementReference(t)
                           \/ ReturnObject(t) \/ DisposeInstance(t) \/ ReleaseModel(t)
                           \/ FinishByThread(t) \/ ReturnEmpty(t)

PoolSpec == PoolInit /\ [][PoolNext]_poolVars

-----------------------------------------------------------------------------
(* What the pool has to give out is of the current version: an instance of *)
(* an old model never comes back to it, whether it was in use when the     *)
(* model was replaced or was still being made then.  (A call that copied   *)
(* the factory before the update does get an instance of the old model.)   *)
PoolCurrent == \A i \in DOMAIN pool : pool[i] = version

(* The weights an instance shares with its model are there as long as it   *)
(* needs them: in the pool, in the hands of a thread until its own         *)
(* workspace is finished, and while it waits to be disposed of.  The one   *)
(* exception is an instance that was still being made when its model was   *)
(* retired, so that it was counted too late: see SeedsLiveModel.           *)
ModelAlive ==
  /\ \A t \in Predictors : thread[t] \in {"use", "outdated"} /\ t \notin late => live[holds[t]]
  /\ \A i \in DOMAIN pool : live[pool[i]]
  /\ \A v \in Versions : InDisposal(v) > 0 => live[v]

(* No model leaks: once the call that retired it is through and no thread  *)
(* has an instance of it, a model is finished, also when instances of it   *)
(* were being made at the time.  It is finished once if no thread was at   *)
(* work with it when it was retired; otherwise the last thread to give its *)
(* instance up and the retiring call may both find m_vw and finish it.     *)
ModelsFreed ==
  \A v \in Versions :
    /\ Retired(v) /\ toDispose[v] = 0 /\ ~AtWork(v) => freed[v] >= 1
    /\ v \notin busy => freed[v] <= 1

(* What "Updates the model used for prediction in a thread-safe manner"    *)
(* (VowpalWabbitThreadedPredictionBase.cs:73) would mean to a thread that  *)
(* is making an instance: the model it is about to seed from has not been  *)
(* finished by an update.  The code does not give it, since the instance   *)
(* is counted only once it has been seeded.                                *)
SeedsLiveModel ==
  \A t \in Predictors : thread[t] = "seed" /\ ~poolDisposed => live[holds[t]]

(* The pool behind threaded prediction has instances of the current model  *)
(* only; no instance counted before its model was retired is left without  *)
(* the model's weights, even while updates overlap; and every retired      *)
(* model is finished in the end, once if no thread was at work with it.    *)
PoolSafe ==
  /\ PoolCurrent
  /\ ModelAlive
  /\ ModelsFreed
=============================================================================

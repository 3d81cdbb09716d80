# Vowpal Wabbit: TLA+ models, model checking and proofs

This directory holds TLA+ modules for the parts of Vowpal Wabbit whose
correctness depends on what happened before or at the same time: the two threads of
the `vw` executable and the queue between them, multi-threaded and distributed
training, daemons, the files that survive a process, the readers that fill recycled
objects, the reductions that keep state from example to example or borrow an example
and have to give it back, and the threads of the .NET bindings.  Each module is
translated from the source; `PROJECT.json` maps every definition to the lines it
stands for.

Run a model with `tlc -config X.cfg M`, check the proofs with `tlapm M.tla`.

## 1. Inventory

### The system

`vw` reads examples, learns from them one after the other, and writes predictions
and a model.  Most of the code base is the *reduction stack*, a chain of learners
that call each other in one thread.  Around it sits the machinery that moves
examples, passes, processes and files along.

| Component | State | Operations | Interacts with | Module |
|---|---|---|---|---|
| `thread_safe_queue` (`queue.h`) | a bounded deque, `_done`, a mutex, two condition variables | `push`, `try_pop`, `set_done` | producers and consumers in other threads | `ThreadSafeQueue` |
| parser thread (`parse_dispatch_loop.h`, `parser.cc`, `vw.cc`) | input files or socket, cache, example and pass counters, the batch in hand | `parse_dispatch`, `setup_example`, `reset_source`, `lock_done` | takes from the pool, pushes on the queue, waits for the main thread in daemon mode, stashes its exceptions for it | `ParsePipeline` |
| example pool (`object_pool.h`) | a queue of free objects under a mutex | `get_object`, `return_object` | parser thread takes, both threads return | `ParsePipeline` |
| driver and handlers (`learner.cc`, `main.cc`) | the example in hand, the open group `_ec_seq`, `early_terminate` | `process_examples`, `on_example`, `save`, `end_pass`, `process_remaining`, `drain_examples` | pops from the queue, calls the learner, returns examples, joins the parser | `ParsePipeline` |
| daemon, child side (`parser.cc`) | accepted socket, prediction sink | `reset_source` | clients over TCP | `ParsePipeline` |
| daemon, parent side (`parser.cc`) | table of children, `got_sigterm` | fork, `wait`, respawn, signal | children, the operating system | `DaemonParent` |
| holdout and early stop (`gd.cc`, `simple_label.cc`) | best loss and pass, `no_win_counter` | `end_pass`, `summarize_holdout_set`, `set_done` | saves the model, stops the driver | `HoldoutStop` |
| model files (`parse_regressor.cc`) | `name`, `name.writing` on disk; header with options | `dump_regressor`, `save_load_header`, `finalize_regressor` | file system, later runs | `HoldoutStop`, `ModelFile` |
| cache files (`parser.cc`, `cache.cc`) | `name`, `name.writing`, bits | `make_write_cache`, `parse_cache`, `reset_source` | other processes | `CacheFiles` |
| `io_buf` | buffer, head, end, files | `buf_read`, `readto`, `fill`, `buf_write`, `flush`, `reset` | io adapters below, readers above | `IoBuf` |
| text and CSV parsers, label parsers, feature groups | what a line leaves in an example object used before | `parse_example`, `parse_label`, `setup_example`, `empty_example`; `push_back`, `concat`, `sort` | the pool, the cache | `TextReaders` |
| JSON, DSJSON and flatbuffer parsers | state of the automaton; position in an object | handlers of tokens; `parse_examples` | the pool | `StructuredReaders` |
| options, command line, reduction stack | registered, supplied and kept options; stack of learners | `add_and_parse`, `check_unregistered`, `setup_base`, `build` | model header | `Configuration` |
| `all_reduce_sync`, `all_reduce_threads` | counter, flag, condition variable; table of buffers | `wait_for_synchronization`, `all_reduce` | one learner thread per node | `AllReduceSync`, `AllReduceThreads` |
| spanning tree server, `all_reduce_sockets` | partial node sets per nonce; sockets, positions | `run`, `build_tree`; `all_reduce_init`, `reduce`, `broadcast` | processes on other machines | `SpanningTree`, `AllReduceSockets` |
| `thread_pool` and `one_pass_svd_impl` | threads, task queue, `_done`; block size, futures | constructor, `submit`, destructor; `generate_AOmega` | workers write rows of one matrix | `ThreadPool` |
| `sender` (`sender.cc`, `daemon_utils.cc`) | two indices, `delay_ring`, a socket | `send_example`, `receive_result`, `end_examples` | a `vw` daemon | `Sender` |
| .NET threaded learning | action blocks, example count, list of synchronous actions | `Learn`, `Flush`, `SaveModel`, `Complete` | one instance per node, AllReduce | `ThreadedLearning` |
| .NET threaded prediction | object pool with a version, reference counts of seed models | `GetOrCreate`, `ReturnObject`, `UpdateModel`, `Dispose` | predicting threads | `ModelPool` |
| epsilon_decay, automl | estimators, weights, configurations, champion | learning, promotion, rebalancing, leases | learners below | `ModelSelection` |
| memory_tree, eigen_memory_tree, log_multi, recall_tree | trees with counts and memories | insert, split, route, swap, bound, load | routers | `LearnedTrees` |
| conditional contextual bandits | stashed labels, injected features, exclusions | `learn_or_predict` | cb_adf below | `Ccb` |
| bfgs, kernel_svm | ring of correction pairs; support vectors with cached rows | passes, line search; learn, reprocess, trim | driver | `BatchLearners` |
| search, its tasks, dependency parser, selective_branching | trajectory, action cache, timesteps | `search_predict`, rollouts; the tasks' `run` | task code as a callback | `Search`, `SearchTasks` |
| interactions; autolink, interact, lrq, lrqfa, mf, marginal, baseline | compiled interactions, what was added to the example | expand, generate; change features and undo | learner below | `FeatureReductions` |
| oaa, ect, csoaa, multilabel_oaa, plt, bs, topk, boosting, active learning | rounds, weights, queues | ask, teach, vote | learner below | `ScoreReductions` |
| exploration library, cb_explore(_adf), cb_sample | policies, counters | `generate_*`, `sample_*`, learn, predict | policies below | `Explore`, `CbExplore` |
| cb, cb_adf, csoaa_ldf | generated costs, borrowed labels and weights | learn, predict | learner below | `CbAdf` |
| cbify, warm_cb, cb_to_cb_adf, cb_actions_mask, explore_eval, mwt, slates, igl | stashed labels, swapped states | learn, predict | bandit learner below | `CbSimulation` |
| cats, cats_pdf, cats_tree, pmf_to_pdf, cb_explore_pdf, sample_pdf, get_pmf, offset tree | tree of binary learners, density | learn, predict | learner below | `ContinuousActions` |
| io adapters, base learners' arithmetic, loss functions, hashing, model merging, slim, active interactor, other bindings | | | | none, see section 8 |

### What is hard

* **Two threads and recycled objects.**  Examples travel pool → parser → queue →
  learner → pool without reference counts, and nothing but the order of the
  statements keeps two threads from holding the same one.
* **Ends.**  The end of input, of a pass, of a connection, an early stop and an
  exception in either thread all have to get two threads out of two condition
  variables, in every order.
* **Counters with special values.**  `--passes`, `--examples`,
  `--initial_pass_length`, `--early_terminate` and `--example_queue_limit` are compared with `==`,
  `>=` and in unsigned arithmetic.
* **Crashes.**  Models and caches are replaced by remove and rename.
* **Barriers that are used again at once**, with spurious wake-ups; trees of sockets
  whose reads end inside a value.
* **Partial failure.**  Threads and processes that cannot be created, peers that go
  away, writes that fail, one learner of many that throws.
* **Borrowed state.**  Reductions swap labels, weights, offsets and features of the
  example they were given and have to put them back on every path; objects come back
  from the pool with what the last line left in them.
* **Structures that must agree**: a tree and its counts, a cached kernel row and the
  support vectors, an estimator and the weights it describes.

`PROJECT.json` lists every hazard at its line under `hazards`, with the
properties that would catch it.

## 2. Modules

| Module | Models | Kind |
|---|---|---|
| `ClosableQueue` | what `thread_safe_queue` promises | abstract specification |
| `ThreadSafeQueue` | `queue.h`, with locks, wait sets and spurious wake-ups | implements `ClosableQueue` |
| `ParsePipeline` | the parser thread and the main thread | component, uses the queue as `ClosableQueue` describes it |
| `MCParsePipeline` | the scenarios: small inputs and options | instance for TLC |
| `Rendezvous` | what `all_reduce_sync` promises | abstract specification |
| `AllReduceSync` | the barrier | implements `Rendezvous` |
| `AllReduceThreads` | `all_reduce_threads::all_reduce` | extends `AllReduceSync`: the barrier step for step, plus buffers |
| `HoldoutStop` | holdout, early stop, model files | component |
| `SpanningTree` | the server, and joining the tree | component |
| `AllReduceSockets` | the streaming sums over the tree | extends `SpanningTree` |
| `MCAllReduceSockets` | small clusters | instance for TLC |
| `DaemonParent`, `CacheFiles`, `ModelFile`, `IoBuf`, `StructuredReaders`, `TextReaders`, `Configuration` | what stands between the learner and its environment | components |
| `MCStorage` | these seven and `HoldoutStop`, driven one at a time | instance for TLC |
| `ThreadPool`, `Sender`, `ThreadedLearning`, `ModelPool` | threads and peers that hand work to one another | components |
| `MCWorkers` | these four, driven one at a time | instance for TLC |
| `ModelSelection`, `LearnedTrees`, `Ccb`, `BatchLearners`, `Search`, `SearchTasks`, `FeatureReductions`, `ScoreReductions` | reductions that keep state | components |
| `MCReductions` | these eight, driven one at a time | instance for TLC |
| `Explore` | the exploration library | operators, and what they promise |
| `CbExplore`, `CbAdf`, `CbSimulation`, `ContinuousActions` | contextual bandits, on top of `Explore` | components |
| `MCBandits` | these four, driven one at a time | instance for TLC |
| `AllReduceProofs`, `ProcessProofs`, `ParsePipelineProofs`, `WorkersProofs`, `LearnerProofs`, `ReductionProofs` | | proofs, each extends the modules it is about (those of `ThreadSafeQueue` are at its end) |
| `InductionLemmas` | | induction over numbers, and the increasing enumeration of a finite set of numbers |

Definitions whose names end in `_Slip`, `LastOne_Late` and `GetPrediction_Blocks`
are plausible errors in the definition that follows them: a dropped guard, an
off-by-one, a missing reset.  No specification uses them.  Each property, and most
of the named parts of the conjunctions, is known to fail when the error listed for it in
`PROJECT.json` is put in place.

The four larger MC modules hold components that share no variables.  A behaviour drives
the one that the constant variable `part` names; the others stay in one fixed initial
state (`Fixes`), so the states of a run are the sum and not the product of the components'.
`Driven` keeps the statements about a component to the behaviours that drive it.

### ThreadSafeQueue

State: `object_queue`, `done`, and for each condition variable the set of threads
asleep on it; for the clients, how far they are.  What happens under `_mut` is one
action.  `PushWaits`/`PopWaits` put a thread to sleep, `notify_one` removes one
element of the set chosen arbitrarily, `notify_all` empties it, and a sleeping
thread may always wake by itself (`PushSpurious`, `PopSpurious`).  `set_done`
stores the flag under the lock and notifies after releasing it, so it is three
actions.  A woken thread tests its predicate again.

### ParsePipeline

One variable per field the two threads use.  The parser's actions follow
`parse_dispatch` from top to bottom: take an example from the pool; read a
batch and set it up; dispatch its examples one by one (each push is a
step and waits for room); at the end of a pass reset the source, count the pass, let
the pass length grow, dispatch the end-of-pass example, test for the last pass;
catch an exception, return the batch, tell the main thread; `lock_done`.  The
main thread's actions follow `process_examples`, the two handlers, `finish_example`
(clean, then count: two steps, since the parser waits for the count),
`process_remaining`, `drain_examples` and the scope guard in `main`.

Abstractions:

* An example is an identity and its content a kind (`learn`, `newline`, `save`,
  `end_pass`) with the pass or client it came from and its position.
* The input is a sequence of *batches*, one for each call of the reader.  Text and
  cache readers deliver one example, the JSON reader several.
* `parser::done` and the queue's `_done` are one variable.  `parser::done` is a plain
  `bool` read by the parser thread while the main thread may write it; the parser's
  test is a step of its own that may come any time after the write, which covers
  late reads.  That the race is formally undefined behaviour is not
  modelled further, since the compiled loop calls functions that cannot be inlined
  away and reads the field each time.
* In daemon mode `passes` connections stand for the unbounded number that a child
  serves; a child accepts one more connection than it serves to the end.
* `do_reset_source`, which only the C wrapper sets, is left out.
* The learner is a black box that may throw and may call `set_done`: after an example
  only if it handles examples singly (as `audit_regressor` does), after the end of a
  pass in either case.
* What the command line and the input say is one record, `options`, chosen by `Init` from
  `Scenarios` and never changed.  A scenario gives the possible inputs, the limits, whether `vw` is a
  daemon or has a cache, and which faults and early stops are possible.

### AllReduceSync and AllReduceThreads

`ArriveLast` and `ArriveAndSleep` are the two branches of
`wait_for_synchronization`; `cv` is the wait set, `inside` the threads between call
and return, and `current_run[t]` the local copy of the flag.  `arrived` and `left`
count visits and are history.  `AllReduceThreads` runs `Register`, the barrier, the
loop over the block (`Accumulate` and `Broadcast` for each cell) and the barrier
again.  Cells hold numbers; node *t* brings *k* · (*N* + 1)^*t* in its *k*-th call, so
any sum that misses, repeats or mixes contributions is different from the right one.

### SpanningTree and AllReduceSockets

The server is one thread: it accepts a connection once its registration can be read,
keeps one set of nodes per nonce, and, when a set is full, hands out child counts, reads
ports and hands out parents in three loops.  A node follows `all_reduce_init`.  Reads
of a closed connection end the server or the node as they do in the code.
`AllReduceSockets` adds what happens on the tree: byte streams with a bounded
buffer in which a read ends anywhere; a byte is known by the value it is part of, so that a
value put together from two is recognised.

### HoldoutStop

The main thread only.  Weights are known by the pass that made them; the losses of
the passes are chosen freely.  `FltMax` stands for `FLT_MAX`: a pass that had
no holdout example has the loss `FLT_MAX / 2`, and NaN or infinity are values that `<` never
prefers.  `summarize_holdout_set` has a condition on `no_win_counter++` that is always
true (the best loss starts at `FLT_MAX`, which is finite, and only falls); it is left
out.  `dump_regressor` is four steps: open `name.writing`, write it, remove `name`,
rename.  Any but the remove may throw, and the process may be killed
between any two.  The text and inverted-hash models use the same protocol under
other names and are left out.

### DaemonParent, CacheFiles, ModelFile, IoBuf

`DaemonParent` keeps the table of children, the pids that run, are zombies or are
free, and the pending SIGTERM; forks fail, pids are reused, and the handler may run between any
two steps.  `CacheFiles` keeps the two names, what every inode holds and which
process has it open; several processes write, rename, read and are killed.  `ModelFile`
follows chains of runs, each loading what the last one saved: which options the header
keeps, in which order, and what is on disk after a crash between remove and rename.  `IoBuf`
keeps the positions of the buffer over files whose reads end anywhere.

### The readers and the configuration

`TextReaders` asks what a line leaves in an example object that was used before: labels of all
kinds, their cache records, namespaces, weights, CSV columns, and the groups of features with
their extents.  Characters, hashes and quoting are abstracted.  `StructuredReaders` is the automaton of the JSON
reader (which state handles a token, which example and which label a part goes to) and the
state the flatbuffer parser keeps between calls.  `Configuration` is the progressive parsing of the command
line and the construction of the stack from it: the order of the setup functions, the
options they insert, the widths, label and prediction types of neighbours.

### ThreadPool, Sender, ThreadedLearning, ModelPool

The owner constructs the pool, calls `generate_AOmega` and destroys the pool; the
workers loop.  The queue is the closable FIFO without a limit.  A task is a block
`<<begin, end>>` of rows; `computed` counts how often each row was written.  `Sender` has
two indices and the ring; the two directions of the socket are FIFOs; the daemon
answers one example after the other and may go away.  A read at the end of the stream gives a
zeroed record or throws, a write to a closed connection is lost or throws.
`size_t` counts modulo `Word`.  In `ThreadedLearning` a model is the set of examples it has learned
from and AllReduce makes it the union; the blocks are bounded queues, a call is a
sequence of `OnNext`.  `ModelPool` has the versions, the factories, the reference counts
of the seed models and the threads between their steps; each retired version has a call of its own that
disposes of what it replaced, so that updates overlap, and the test of `m_vw` in `InternalDispose` and the
finishing that follows it are two steps.

### The reductions and the bandits

Real numbers are abstracted to what decides: where a comparison of learned numbers steers the control
flow, both outcomes are possible; where numbers are moved, added or used as
probabilities they are small integers or parts of `One`, which is divisible by all
the numbers that occur; where it matters which point a number was computed at, it is
that point.  The learner below is asked and taught by actions that record with which label,
weight, offset and features, and may throw where the code handles or should handle that.

## 3. Runs that pass

A property of a larger run is a conjunction; its parts are named definitions with comments of
their own in the modules, and the table names them.

| Run | Property | Parts, and what they show |
|---|---|---|
| `queue` | `NoLostWakeup`, `RefinesClosableQueue`, `ConsumersReturn` | nobody sleeps who could go on; refinement of the closable FIFO with its liveness; every consumer gets its `false` |
| `pipeline` | `SharedStateSafe` | `TypeOK`, `Ownership` (no object in two hands), `NothingLeaked`, `CountersAgree` (the set-up and finished counters differ by what is under way), `SinkStable` (no prediction goes to another client) |
| | `LearnsInput` | `LearnsAll`, `LearnsPrefix`, `NoInFlightMultiEx`, `LimitsRespected`, `CoversInput`: what is learned is the input, once per pass, in order, within the limits |
| | `StopsLearning`, `PredictionsSent`, `Termination` | nothing is learned after `set_done`; waiting for predictions ends; `vw` ends |
| `allreduce` | `NobodyEarly`, `Inductive`, `RefinesRendezvous` | the barrier, its inductive invariant, its refinement |
| | `CallsCorrect`, `AllReturn` | `ResultCorrect` and `NoConflict`: the right sum in every cell of every node, no two nodes at the same cells; every call returns |
| `cluster` | `ClusterSafe` | `WaitingRemembered`, `RightParent`, `TreeShape`, `SumCorrect`, `DataFromParent`: from registration to sum |
| | `Served` | every announced id is served and makes its sums |
| `storage` | `DaemonSafe` | `ChildrenKnown`, `AllTold` |
| | `DaemonServes` | `SignalsOwn`, `DaemonRespawns` |
| | `CacheSafe` | `CacheWhole`, `EveryPassWhole`, `EnoughBits` |
| | `ModelFaithful` | `ModelOnDisk`, `LoadedAsSaved` |
| | `InputRead` | `StreamRead`, `WholeChunks`, `AlwaysAligned`, `StreamWritten` (io_buf); `FeaturesPlaced`, `LabelsPlaced`, `LineRead` (JSON); `FileInOrder`, `SpanWhole`, `NothingStale` (flatbuffers); `LineAlone`, `CachedAsParsed`, `IndicesExact`, `CsvLineAlone` (text and CSV); `ExtentsRight`, `ExtentsApart`, `FitsBuffer` (feature groups) |
| | `OptionsRight`, `StackSound` | `EarlyParseRight`, `CommandLineWins`; `TestedSetsBuild`, `WidthsAgree`, `EnabledIsUsed`, `FinishRight` |
| | `NeverTorn`, `BestIsBest`, `BestModelKept`, `StopsInTime`, `ModelSurvives` | holdout: whole files in spite of failures and kills; best loss, best model, early stop |
| `workers` | `WorkSafe` | `RowsOnce` (thread pool), `PairedRight` (sender), `SavedMerged`, `CompleteIsAll` (threaded learning) |
| | `PoolSafe` | threaded prediction while updates overlap: `PoolCurrent` (only instances of the present model wait in the pool), `ModelAlive` (an instance counted before its model was retired keeps it until its own workspace is finished), `ModelsFreed` (no retired model leaks; it is finished once if no thread was at work with it) |
| | `WorkEnds` | `CallReturns`, `PoolEnds`, `SenderFinishes`, `SenderEnds`, `LearningEnds` |
| `reductions` | `ChampionsFair` | `SameHorizon`, `OldestLast`, `SlotsAgree`, `SlotOwnsWeights`, `FairComparison`, `PriorityBudget` |
| | `TreesSound` | `MemoryOnce`, `CountsExact`, `RoutersApart`, `RoutedHome`, `LruAlive`, `BoundedButLoaded`; `SwapKeepsTree`, `LeastUsedLeaf`, `CountsBelowVisits`; `CandidatesFrequent`, `EntropyExact`, `StoppedSeenBelow`, `AlwaysAnswers`, `BoundsCurrent` |
| | `SlotsIndependent` | `DistinctChoices`, `LinesRestored` (also what an exception leaves behind, exactly), `CostOnLabelled` (ccb) |
| | `StepsConsistent` | `GradientFresh`, `PairsConsecutive`, `CurvatureOfThisPoint` (bfgs); `RowsAligned`, `DeltasCurrent` (kernel_svm) |
| | `SearchSound` | `FairRollouts`, `CostsNamed`, `EachTimestep`, `CachedRight`; `ReadWordsAttached`, `ArcsFormForest`, `OracleRebuilds`; `SpansLegal`, `OracleAllowed`, `OracleIsRight`, `LearnersOwn`, `LabelOfAllowed`, `RelationsFit`, `GraphVisits`, `NeighborsCurrent`, `BranchesBest` |
| | `CrossedRight` | `EachCombinationOnce`, `SquaresAgree`, `WildcardsExpanded`; `WrapRestores`, `ValuesAligned`, `FactorsOfPair`, `ConstantMoved` |
| | `ScoresReduced` | `ReducesConsistently`, `GivenBack`, `OffsetsInRange`, `UpdatesOwnPrediction`, `MeasuredTowardsOther`, `LabelHidden`, `VotesCounted`, `CoefficientsRight` |
| `bandits` | `ExplorationSound` | `XTypeOK`, `PmfValid`, `MinimumKept`, `DearerNotLikelier`, `EliminatedRight`, `LabelKept`, `LearnsLogged`, `OffsetsApart`, `CoversTheRest`, `MetricsRight`, `LossOfLogged`, `DrawnRight` |
| | `LoggedLearningSound` | `ATypeOK`, `LinesBack`, `Unbiased`, `TaughtInPlace`, `RegretsTaught`, `RankedBefore`, `LossEstimated`, `CountedApart` |
| | `SimulationSound` | `FeedbackHonest`, `ExampleBack`, `SeedsOnce`, `CopiesApart`, `LossInUnit`, `CostMoved`, `MaskComplete`, `PoliciesCompared`, `EvaluationFair`, `PoliciesValued`, `SlotsLocal`, `LearnersApart`; `DensityWhole`, `DrawnInside`, `WindowHolds`, `TaughtByCost`, `TournamentsWon` |

The scenarios of `pipeline`, and what they are there for:

| Scenarios | What they reach |
|---|---|
| `Plain` | text and JSON, single-line and multiline, two passes with a cache: every example, or group, of every pass is learned once and in order |
| `Saves` | save commands inside and between groups, when objects are not reused at once |
| `Stops` | after `set_done` nothing more is learned, everything is returned, and `vw` ends although the parser may be blocked on a full queue |
| `Failing` | reader, set-up or reset throws: what was learned is a prefix of the input, nothing leaks, `vw` ends |
| `LearnerFails` | the learner throws and the rest of the input fits into the queue: `vw` ends |
| `Clients` | a daemon: the sink is never redirected under a client's examples, waiting for predictions ends |
| `Limits` | `--examples` and `--initial_pass_length` for readers that deliver single examples |

## 4. Disagreements found, and where the properties stop

Each row is a run that expects a violation; `PROJECT.json` quotes the line it is about.

| Run | What happens |
|---|---|
| `pipeline_save_reuse` | the multiline handler reads flags of a `save` example that is already back in the pool; with a short queue the parser has refilled it, and an assertion of the handler fails |
| `pipeline_unwind` | an exception of the learner while the parser waits for room: `vw` hangs in the join |
| `pipeline_open_client` | a daemon client that disconnects inside a group: parser and main thread wait for each other |
| `pool_update` | `UpdateModel` while a thread makes an instance: the instance is counted only once it is seeded, so the update may finish the model the thread is about to seed from |

Further statements that a comment, a help text or a reader of the code would expect are kept as
definitions with a comment, next to the properties that do hold, and are not checked as properties of any run because the
code does not keep them.  They are: `StopsAtACheck` (HoldoutStop), `OutputsResults` (Sender), `NoOrphans`
(DaemonParent), `FlushLearns` (ThreadedLearning),
`PositionalAfterTerminator` (Configuration), `ContextPIgnored` (StructuredReaders), `GraphCached`, `CsvEveryLineAlone`,
`ExtentsAlwaysRight`, `SumKept` (TextReaders), `OneDifference`, `AutomlRefuses` (ModelSelection and Configuration), `TreeBound`,
`AnswersUnpenalised` (LearnedTrees), `CbExRebuilt` (Ccb), `PreconditionerFromData` (BatchLearners), `OneRoot`,
`ConditionedOnNeighbors`, `ConfusionOfRun`, `LabelsPutBack`, `AskedOnce`, `KindsApart`, `OracleAlwaysAllowed`
(SearchTasks), `AlwaysExpanded`, `LrqfaAligned`, `FactorsOfEveryPair` (FeatureReductions),
`MostFrequentVote`, `QueriedIsLearnt`, `OwnProbabilities`, `WonIsPredicted`, `QueryDataFresh` (ScoreReductions), `NoImportanceWeights`,
`ElimPmfValid`, `TargetsOfOwnScores`, `PredictedLossFresh`, `OwnLineCost` (bandits), `MassOnAnyRange`, `MassWhenReused`, `LossAroundPrediction`,
`TaughtOnceAnySize`, `TaughtAnyBandwidth`, `WeightAfterThrow`, `WindowBelowRange` (ContinuousActions).

The properties that hold are stated, or their scenarios chosen, inside the boundaries below,
which come from the code.

**Pipeline, holdout, workers**

* `LimitsRespected` needs a reader that delivers single examples.  When a JSON batch goes
  beyond `--examples`, the test `max_examples >= example_number` (`parse_dispatch_loop.h:60`)
  fails, `lock_done` is not called and another pass begins.
* `CoversInput` does not hold for `--initial_pass_length` together with a cache: the
  cache is written in the first, short pass, and later passes see no more than that.
* `drain_examples` ends when the queue is closed and, at that moment, empty; the parser may
  still push the rest of its batch, which `free_parser` then finishes.  `Termination` after an early stop
  therefore needs that rest to fit into the queue.  It does, because a multiline learner stops
  at the end of a pass, later passes come from the cache one example at a time, and
  single-line readers deliver one example at a time.
* `StopsInTime` needs `--early_terminate` to be positive (with 0 the comparison with
  `no_win_counter` is true just after a pass that improved) and a check after every pass: with
  `--check_holdout_every_n_passes` 2 the threshold is missed (`StopsAtACheck`).
* `generate_AOmega` keeps the block size computed by its first call
  (`one_pass_svd_impl.cc:127`), so later calls with more rows use smaller blocks than
  their own number of rows would give.  `RowsOnce` holds all the same.  `large_action_space.cc:338` subtracts from
  `hardware_concurrency()`, which may be 0.
* `Sender` is checked with rings of at least four entries.  With a limit of 2 or 3
  the window is 0 and the sender waits for an answer to nothing (`sender.cc:112`); with a limit of 1
  `example_queue_limit / 2 - 1` wraps around, the window never closes and entries of the
  ring are overwritten while their predictions are outstanding.  After the daemon has closed the connection zeros
  are output as predictions (`daemon_utils.cc:32`).
* .NET: an EndOfPass already in the blocks completes a `Flush` called after it, although its examples are
  still queued; a `SaveModel` after the last synchronisation runs on the caller's thread; cancellation is not modelled.
  A thread that copied the old factory before an `UpdateModel` gets an instance of the old model; if that model is finished first it
  seeds from nothing (`pool_update`), and if it is finished between seeding and counting it predicts without weights.  These late
  instances are the exception in `ModelAlive`.  When threads are at work with a model as it is retired, the last of them and the
  retiring call may both pass the test of `m_vw` and finish it twice (`vw_base.cpp:146-153`), the exception in `ModelsFreed`.

**Processes and files**

* DaemonParent: SIGTERM before `sigaction` leaves children without a parent; respawned children inherit
  the parent's handler and survive a SIGTERM; a failed fork stores -1, and the parent later signals pid -1.
* CacheFiles: two processes that write one cache at once share `name.writing`; the file is then
  garbled, and `CacheSafe` says nothing of that cache.
* ModelFile: after a crash between remove and rename only `name.writing` is whole, and the next save
  truncates it.  `-i model --random_seed S` throws once the generator has advanced.
* spanning tree: totals that disagree within a nonce are undefined behaviour (`spanning_tree.cc:262`); a `recv` of 0 bytes
  in `reduce` makes it spin (`allreduce.h:296`).  After the tree is made no process ends in the model.

**Readers and configuration**

* JSON: `_p` in a context is not ignored as its comment says; a `null` inside namespaces, `_label*` after `"c"`, `_outcomes` of a line that is
  wrong, the observation example of a failed line, a leftover `_a` or `_p`, and `_slots` inside an action
  are outside what `LabelsPlaced` covers.  pdf and graph labels are not modelled.
* flatbuffers: a span with a collection of multi-examples stops at the first newline and leaves the parser active.
* text, CSV: a graph label is not kept by the cache; a CSV file that is only a header leaves a stale label; with
  `--csv_header` the header of a later file is read as data; the split of a line keeps views into a vector that grows.
  The ccb label reader relies on `default_label` having been called.
* options: a positional argument after `--` is parsed as an option (`PositionalAfterTerminator`).
* stack: `--cats_tree` alone is finished by gd's simple-label functions; `fail_if_enabled` of automl
  never fires, because `all.l` is null while the stack is built (`automl_util.cc:61-72`).

**Reductions**

* automl: the oracle `one_diff_inclusion` proposes configurations that differ in more than one
  place; a first example without namespaces makes the champion its own challenger.
* trees: eigen_memory_tree exceeds its bound after a reload (`TreeBound`); log_multi's swap may take the root;
  recall_tree's `bern_hyper` is not kept in the model, and with 0 a prediction may end in an empty
  node.  A base learner that throws leaves recall_tree's node namespace in the example.
* ccb: an invalid line type loses the labels; a base that throws leaves the features, id and tag of the slot at work in the shared
  line (`conditional_contextual_bandit.cc:520-529` are skipped), which `LinesRestored` states; emptied slot namespaces remain; a check of probabilities is never reached.
* bfgs: not every pass recomputes the preconditioner from the examples (`PreconditionerFromData`).  kernel_svm: rows of a pool are stale with a pool size above 1.
* search: the action cache's key keeps the low byte of the tag.  `CachedRight` says what a hit guarantees, equality up to multiples of
  `TagRange` (256 in the code, 2 in the run, with a horizon of 4, so that stale hits happen), and `EachTimestep` which steps
  are then not learned from.  BILOU spans may be open at the end of a sentence (`search_sequencetask.cc:249-265`);
  `learn_allowed_actions` is not cleared; `search_kbest` has no effect; the LDF branch of
  `allowed_actions_to_ld` never shrinks; `read_allowed_transitions` discards its result.  Tasks: graph conditions are
  read from the first lines instead of the neighbours, the confusion matrix is never cleared, sequencespan restores a copy
  of the label, `er_mixed_decoding` predicts an entity twice, oracles of multiclasstask and entity_relation may be disallowed.
  dependency parser: several roots are possible, one-word sentences are out of bounds with arc-eager, some gold trees cannot
  be rebuilt.
* features: an exception below mf leaves `ec.interactions` pointing at a local vector, below baseline the
  constant; interactions with permutations and a split namespace are
  expanded once only; a new extent clears the list of character interactions, which is then compiled no more if extents have
  wildcards (`AlwaysExpanded`).  `--check_enabled` of baseline, `--compete` of marginal and the dropout of lrq are left out, as are the
  means that `update_marginal` learns and what interact does to `num_features` and `total_sum_feat_sq`.
* scores: the vote of bs is not the most frequent value with five rounds; multilabel_oaa appends
  probabilities without clearing; cs_active keeps stale predictions once the query budget is used
  (its saving of the model at `min_labels`, which doubles, is left out); ect's counts
  omit early losses; csoaa leaves the weight it set; oaa's random subsample takes labels out of range; plt with `kary` of 3 or more goes beyond its table.

**Bandits**

* Labels, weights or swapped states are not put back when the learner below throws in
  cb_explore_adf_base, explore_eval, cb_adf (mtr, sm, dr), cb, warm_cb, mwt, igl, cbify, cats_tree and offset tree;
  `LabelKept`, `LinesBack` and `ExampleBack` name the paths that do.
* cb_explore `first` also counts predictions, and `cover` counts before it learns; when an oracle of `cover` throws, `second_cs_label` is
  lost and the next learn writes beyond it (not modelled); regcb and squarecb leave the last action's logged probability;
  squarecb `--elim` gives negative probabilities; sm's targets are misaligned with its scores; dr teaches
  unlogged lines a default label; `predict_csoaa_ldf_rank` reads beyond its vectors on an exception.
* mwt `--exclude_eval` has no effect, and its feature for value 0 of a policy is that of the last action of the policy before;
  warm_cb teaches nothing unless `--warm_start_update` or `--interaction_update` is given, and with one of them all lambdas are equal;
  explore_eval's multiplier stays 1 with `--target_rate`, so that chances above 1 happen; cbify_ldf takes positions for classes; slates need actions grouped by slot; igl needs
  an observation, and a logged probability below 1; cb_to_cb_adf drops an action that is out of range.
* continuous actions: `pmf_to_pdf` compares with 0 instead of `min_value`; `first_only` appends to a density
  without clearing it; a logged action at `max_value` or below the range falls outside of the units; cats_tree with a
  number of actions that is not a power of two teaches the root twice; `get_loss` divides by a bandwidth of 0.
  large_action_space and graph_feedback (linear algebra), cbzo and the random omission of tiny weights are left out.

## 5. Bounds

* `queue`: two producers, two consumers, two closers and two slots with two pushes each:
  both kinds of thread can be asleep in pairs, one being notified while the other
  sleeps on, and two `set_done` overlap.
* `pipeline`: `example_queue_limit` 2 with inputs of up to five examples, so that the queue
  fills, empties and the pool reuses objects several times; 1 and 6 where reuse
  is to be forced or excluded, 4 where the whole input is to fit.  Two passes are the
  least with a pass that is not the last, and the second one reads what the first has
  cached; three connections make one that is neither first nor last.  `NoLimit`
  is 100, more than any counter reaches.
* `allreduce`: three nodes, buffers of 2 (fewer cells than nodes) and 4 (a
  remainder), two calls, so four visits to the barrier: calls can overlap, one node can be a
  visit ahead while another is still leaving, and the flag takes each value twice.
* `cluster`: up to four processes (a root with two children and a grandchild, or two jobs
  on one host), values of two bytes, chunks of three, so that reads end inside values; two sums, so that one node can
  begin the second while another ends the first.
* `storage`: two children and three pids with five forks (pids are reused); two processes on
  one cache, two examples, two passes, one crash, three runs; buffers of 2 growing to 3 units over
  files of up to nine; three tokens on a command line; lines of up to four levels of JSON; three lines
  into recycled objects; the tested sets of options and each with one more.
  Holdout: five passes over the losses 1, 2, 4 and 6 (above `FltMax` 5) with a
  threshold of 2: improvement, tie, worsening and useless losses in any order, with
  an early stop after a recovery.
* `workers`: up to two threads; 1, 4 and 5 rows; given and computed block sizes;
  two calls, the second with the block size of the first.  Rings of 4, 5, 6 and 8 entries, 12 examples: each
  ring wraps around; `Word` 256 stands for 2^64 and is above every index.  Two nodes, two callers, blocks of one item, three
  examples, a synchronisation after two.  Two predictors and two new
  models: one thread can be making an instance of a model while another gives up its last one, and two updates overlap.
* `reductions`: four models of epsilon_decay and seven examples; three live configurations; trees of up to six nodes, leaves of two memories,
  four memories; two actions and slots; nine passes of bfgs with rings of 0 to 3 pairs; trajectories of four
  steps with keys modulo 2; sentences of four words; pools of 1 and 2; three classes.
* `bandits`: `One` = 15120, divisible by what the explorers divide by; one and three actions; two policies; two
  or three events (two counted by `cover` when calls throw); four and eight continuous units, and numbers of actions that are not powers of two.

Deadlock checking is off: every one of these systems ends, and the liveness properties say
where.  Symmetry is not used; the runs are small.

## 6. Fairness

Weak fairness per thread or process: the operating system runs every thread of a process that
can run, and mutexes are held for a few statements only.  Spurious wake-ups,
exceptions, kills, failing forks, a daemon that goes away and connection errors get none: nothing may depend on them.
In `ParsePipeline` the two threads are fair and the choice
between a fault and the normal outcome is free.  `ThreadSafeQueue` needs weak
fairness only, because `notify_one` is called for every push and the woken thread keeps the right to
go on until another one takes the element.  In `Sender` the daemon is assumed to answer
as long as it is up.  In `DaemonParent` the parent runs and children obey a SIGTERM they were sent.  In `AllReduceSockets`
the server and every node run; a node that dies is not obliged to.  In
`ThreadedLearning` the task scheduler runs the blocks and callers blocked in `OnNext` go on.  The reductions and
readers are sequential and have no liveness properties.

## 7. Proofs

All leaves are checked by TLAPS (SMT, Zenon, LS4), for all values of the constants
that satisfy the assumptions of the modules.

* **`ThreadSafeQueue`**: `TypeCorrect`, `WakeupCorrect`, `QueueRefinement`, for any sets
  of threads and any `MaxSize`.  `NoLostWakeup` is inductive with the type
  invariant; the exception in it (a closed queue with sleepers while some `set_done` has still to notify)
  is what the notification outside the lock requires.  The refinement
  proof maps `push`, the two results of `try_pop` and the first part of
  `set_done` to steps of `ClosableQueue` and everything else to stutters.
* **`AllReduceProofs`**, the barrier: `GenerationCorrect`, `BarrierCorrect`, `BarrierRefinement`, for any
  finite non-empty set of threads and any number of visits.  `NobodyEarly` is not
  inductive.  `Inductive` says that there is a number *g* of openings such that each
  thread is outside with *g* visits, or waits in visit *g* + 1 with the current
  flag, or is still to leave visit *g* with the old one, and that the counter is the number of those that wait.
  It follows that the last one arrives only if all others wait, which is where cardinalities of finite sets are used.
  The sums: `AllReduceSums` (`CallsCorrect`) and `AllReduceUsesBarrier`, for any number of nodes and
  calls and any length of the buffer.  The invariant distinguishes, by the generation, calls that are *collecting* (every
  node that waits has registered its buffer, untouched) from calls that are *reducing* (each block is final, in work by its
  node alone, or untouched); partial sums are folds over an initial segment of the nodes.
* **`ProcessProofs`**, holdout and the saved model: `TypeCorrect`, `FilesWhole`, `BestKept`, `BestFound`, `StopCorrect`, `ModelSafe`, for any number
  of passes and any losses.  `IInv` adds to the types what each step of
  `dump_regressor` may assume of the two files, that the saved model is the best
  one except while it is being replaced, and that the counter is the
  number of passes since the best one; `BestFound` adds that the best loss is below all earlier ones.  `StopCorrect` assumes
  `EarlyStop > 0` and `CheckEvery <= 1`; section 4 says why
  both are needed.  `ModelSafe` is a temporal statement reduced to an action invariant.
* **`ProcessProofs`**, the daemon's parent: `DaemonIsSafe` (`DaemonSafe`) and `DaemonSignalsOwn` (`SignalsOwn`, an action
  property), for any number of slots and pids.  The invariant relates the parent's
  table to the pids that run or are zombies at each step of the fork, wait and
  signal loops: no pid is in two slots, and whoever is not in the table was not forked or is being collected.
  The cache: `CacheIsSafe` (`CacheSafe`), for any number of processes, runs and crashes.  The invariant
  says, for each position of a process, what the inode it has open and the two names hold, as long as no two
  processes have written at once; that a new inode is always free is a pigeonhole argument over finite sets.
  Model files: `ModelAsSaved` (`ModelFaithful`), for any options, values, chain of runs and crashes.  The invariant
  says what the two names hold at each step of a save, that every model on disk keeps values of its options'
  types, and what the running process had from its command line and from the file when it loaded.  That
  `save_load_header` writes the values of an accumulated option once each and in order is a fact about the
  increasing enumeration of a finite set of numbers (`ChosenOrder`).
* **`WorkersProofs`**, the cluster: two conjuncts of `ClusterSafe`, for any nodes, jobs, deaths, sizes and reads.  `ServerRemembers`
  (`WaitingRemembered`): `RegInv` says that whoever is in the socket's queue has no answer and is there once, that the map and
  the tree being made hold only nodes that have been answered, and that whoever was accepted, also before it has read
  so, is in the map under its id or still to be told in the first loop.  It assumes that the nodes of a job are
  started with the same `--total` (`ScenariosAssumption`): the server sizes the set of a nonce by the first total it reads.
  `BroadcastHasData` (`DataFromParent`): what a node has read from its parent is at most one chunk ahead of what it has
  sent to its children, and not ahead when it comes to read; this also holds for leaves, whose unsigned difference wraps around.
* **`ParsePipelineProofs`**: `PipelineIsSafe` (`SharedStateSafe`), `PipelineStops` (`StopsLearning`) and `PipelineAsserts`
  (`NoInFlightMultiEx`), for every input, queue length, number of passes and clients, failure and early stop.
  `Ownership` is not inductive: `PipelineInv` says that every example object ever allocated is in exactly one of six places (the
  pool, the parser's undispatched batch, the queue, the handler's open group, the examples still to be returned, the main thread's
  hand), what the parser (`ParserShape`) and the main thread (`MainShape`) hold at each of their
  positions, that the two counters differ by the examples on the way (`Accounted`), and that these all came from the
  connection the sink belongs to (`FromClient`).  `Stopped` says what the main thread can still do after `set_done`.
  The theorems assume `NoSaveInGroups`: no scenario has both a multiline learner and a save
  command.  That is the condition under which the code is right: `pipeline_save_reuse` violates the
  statement without it.
* **`WorkersProofs`**: `WorkersAreSafe` (`WorkSafe`) and `PoolIsSafe` (`PoolSafe`), for any number of workers, rows, examples,
  nodes, callers, predicting threads and updates.  The four components share no variable, so each has an
  inductive invariant of its own, and a step of the composition is a step of each of them or leaves it alone.
  The *thread pool*: the blocks of rows in the queue, in the hands of workers and
  computed have no row in common and are together the rows before `row_index_begin`, and whatever is not
  computed has a future (`TpInv`).  The *sender*: at most half of the ring is in flight, so the ring still knows every example in flight, and
  answers and questions are on their way in order (`SenderInv`); the theorem assumes rings of at least four entries, and section 4 says
  what happens with shorter ones.  *Threaded learning*: every example is being sent, in a block or in a model;
  a node at its last `EndOfPass` has an empty block; the root has a merged model from each `AllReduce` to its
  next item, which is when it saves; each call of `SaveModel` or `Flush` is pending, being run or done (`LearnInv`).
  The *pool of instances* (`PoolInv`): the reference count of each model is the number of its instances in the pool, waiting to be
  disposed of and held by threads (`RefsCounted`, by cardinalities of finite sets); a retired model without references is finished,
  or somebody is on the way to finish it (`EndDecided`), and only a model in such a state is ever finished
  (`FinishedRight`).  The statement has no assumption on what races with what: the late instances are named by the history variable `late`, the
  models with a thread at work by `busy`.
* **`LearnerProofs`**, conditional contextual bandits: `SlotsRight` (`SlotsIndependent`), for any number of actions and
  slots, any labels and a base learner that may throw at each call.  `CcbInv` adds that the exclude list holds exactly the
  actions the slots before this one have taken, that there is one decision for each of them, and what the shared line carries while
  the base runs, hence what is left in it when the base throws; that the labelled action stands where its cost is put follows from the order of the actions that are left.
* **`LearnerProofs`** and `ReductionProofs`, the batch learners: `StepsRight` (`StepsConsistent`), with `BfgsStepsRight` and `KernelRowsRight` for
  each of them alone.  bfgs, for any memory, passes, examples and line searches: `BfgsInv` says that what a pass has accumulated
  is a prefix of the examples at the present weights, and that the ring holds, from its origin on, the point of
  the last accepted step and behind it pairs each of which starts where the older one ends; the lemmas on rings say where a cell is after the
  origin has moved by two modulo the stride.  kernel_svm, for any pool, cache, reprocess steps and updates: `KsInv` says, as long as no member
  of a pool has waited while the vectors moved (`ksStale`, section 4), that the support vectors are distinct, the arrays
  are parallel, each row of a vector or of a waiting member is a prefix of the vectors, and each delta counts all of them; the lemmas say
  what a removal, a move to the front and an addition do to prefixes.  `ReductionProofs` holds the
  composition: a step of `MCReductions` is a step of each learner or leaves it alone.
* **`LearnerProofs`** and `ReductionProofs`, model selection: `ChampionsRight` (`ChampionsFair`), with `DecayFair` and `AutomlFair` for each reduction
  alone.  epsilon_decay, for any number of models, scopes and outcomes of the two tests: `EpsInv` says that the rows of weights are a
  permutation, the models are ordered by age, and each cell of the triangle describes the model of its row since the start of the
  model of its column; the swaps of `promote_model` are shown, one position after the other, to move positions 0 .. *i* up by *d* and to
  leave the displaced rows below *d*, where they are cleared.  automl, for any finite set of namespaces, number of slots, leases and
  priorities: `ChampionsFair` is not inductive.  `AmlInv` adds that slot 0 is never up for replacement (once a namespace has been
  seen its configuration is live and it has priority), that champdupe has one or three configurations, and that a slot `schedule` could not
  fill is followed only by slots it cannot fill, so that a new estimator is always appended at its own slot.  `insert_config` is
  shown to change nothing at or before the last valid configuration, also when it moves the elements out of a stale one, and
  the candidates of an oracle are inserted by induction; that they can be listed in order is a fact about finite sets of
  pairs (`PairsListed`).
* **`InductionLemmas`**: the library's induction theorems take an operator as a parameter, which these provers cannot
  instantiate.  `InductiveSet` states induction for a *set* of numbers instead (from the well-foundedness of `<`), and
  `EnumerationExists`, `EnumerationOnto` and `ChosenOrder` show that a finite set of numbers has an increasing enumeration, that it
  reaches every element, and that it is the sequence the models choose.

Out of this prover's reach and only model-checked:

* liveness (no fairness and no ENABLED): `Termination`, `PredictionsSent`, `ConsumersReturn`, `AllReturn`, `Served`,
  `WorkEnds`, the second half of `DaemonServes`, and the liveness part of the queue's refinement;
* statements about what a fold or a selection over a sequence computes, which the provers do not unfold: `LearnsInput`
  (concatenations over passes), the tree of `build_tree` (`TreeShape`), `InputRead`, `OptionsRight`, `StackSound`, and the
  reductions' and bandits' properties that sum over sequences.

Within reach and not done: `RightParent`, and `SumCorrect` of the socket sums given a tree;
`LimitsRespected`.

## 8. Not modelled, and the plan

Floating-point learning (gd, ftrl, freegrad, lda, nn, the arithmetic of bfgs and of the loss
functions), hashing, model merging and slim have no interleavings and no small state, and are
out of a model checker's reach.  The C, Python, Java and WebAssembly bindings are marshalling; the io adapters
are thin wrappers around files, sockets and zlib, and `IoBuf` takes what they deliver as reads that end anywhere; the
active interactor is terminal input and output.  These parts are most of the code base, and the reason why
the map covers a small share of its lines.

Left to model: the driver for one thread and for several learners on one parser, active learning and several
policies in search, the random and cubic oracles of automl, saving of the reductions' states.

Left to prove, in this order: `RightParent` and the streaming sums of `AllReduceSockets`;
`LimitsRespected`; type and ownership invariants of the
readers' recycled objects.

---------------------------- MODULE MCReductions ----------------------------
(* Reductions, which run alone in the learner's thread.  They             *)
(* share no variables; a behaviour drives the one that `part` names, and   *)
(* the others stay in a fixed initial state.                               *)
EXTENDS ModelSelection, LearnedTrees, Ccb, BatchLearners, Search, SearchTasks,
        FeatureReductions, ScoreReductions

VARIABLE part

reductionsVars ==
  <<part, epsVars, amlVars, mtVars, emtVars, ccbVars, bfgsVars, searchVars, dpVars,
    ksvmVars, lmVars, interactionVars, wrapVars, srVars, tkVars, rtVars>>

Parts == {"rt", "eps", "aml", "mt", "emt", "ccb", "bfgs", "search", "dp", "ksvm", "lm", "cross",
          "wrap", "scores", "tasks"}

(* The actions a task allows at each step, and what its oracle says.       *)
SomeAllowed == <<<<2, 1>>, <<1>>, <<2, 1>>, <<1, 2>>>>
SomeOracle == <<1, 1, 1, 1>>

(* Three namespaces, pairs that share one, and features with and without   *)
(* the anchor that interact needs.                                         *)
SomeFields == <<1, 2, 3>>
SomeLrqPairs == <<<<1, 2>>, <<2, 3>>>>
SomeMfPairs == {<<<<1, 2>>>>, <<<<1, 2>>, <<1, 3>>>>}
SomeFeatureLists == {<< >>, <<0, 1>>, <<0, 2, 1>>}

(* Extents are named by two digits, of which the first is the              *)
(* namespace; 0 is a wildcard.  A group that is split in two extents, an   *)
(* extent that appears twice, and interactions of two to four terms.       *)
Extent(h, n) == [ns |-> h \div 10, hash |-> h, size |-> n]
SomeExamples ==
  {<<Extent(11, 2)>>, <<Extent(11, 1), Extent(12, 1), Extent(11, 2), Extent(21, 2)>>,
   <<Extent(21, 1), Extent(22, 2), Extent(21, 1)>>}
Options(chars, extents, permutations, leave) ==
  [chars |-> chars, extents |-> extents, permutations |-> permutations, leave_duplicates |-> leave]
QuadraticAll == <<0, 0>>
SomeSpecs ==
  {Options(c, << >>, p, l) :
     c \in {<<QuadraticAll, <<1, 0>>>>, <<<<0, 0, 0>>, <<1, 0, 0, 2>>>>}, p, l \in BOOLEAN}
  \cup {Options(<<<<1, 1, 1, 2>>, <<1, 1>>, <<1, 2, 2, 2>>>>, << >>, p, FALSE) : p \in BOOLEAN}
  \cup {Options(<< >>, <<QuadraticAll, <<11, 0, 0>>>>, p, l) : p, l \in BOOLEAN}
  \cup {Options(<<QuadraticAll>>, <<QuadraticAll>>, FALSE, FALSE)}
  \cup {Options(<< >>, <<<<11, 11, 11>>, <<11, 11, 21, 21>>>>, p, FALSE) : p \in BOOLEAN}

(* Labels, chains of words, spans, pairs of entities and small graphs for  *)
(* the tasks of search; costs of two actions at three steps for            *)
(* selective_branching.                                                    *)
Policies == {"any", "oracle"}
LabelInputs ==
  {[task |-> t, policy |-> p, actions |-> 2, gold |-> g] :
     t \in {"sequence", "sequence_ctg", "sequence_demoldf"}, p \in Policies, g \in {<<1, 2, 2>>, <<2, 2, 1>>}}
  \cup {[task |-> "sequencespan", policy |-> p, actions |-> 5, gold |-> g, bilou |-> b, multipass |-> 1] :
          p \in Policies, b \in BOOLEAN, g \in [1 .. 3 -> {1, 2, 3, 5}]}
  \cup {[task |-> "sequencespan", policy |-> "any", actions |-> 3, gold |-> <<2, 3>>, bilou |-> b, multipass |-> 2] :
          b \in BOOLEAN}
  \cup {[task |-> "argmax", policy |-> p, actions |-> 3, gold |-> <<3, 2>>, predict_max |-> m, false_negative_cost |-> 10] :
          p \in Policies, m \in BOOLEAN}
  \cup {[task |-> "multiclasstask", policy |-> p, actions |-> n, gold |-> <<g>>] : p \in Policies, n \in {3, 5}, g \in 1 .. 3}
  \cup {[task |-> "multiclasstask", policy |-> "any", actions |-> 1, gold |-> <<1>>]}
EntityInputs ==
  {[task |-> "entity_relation", policy |-> p, order |-> o, constraints |-> c, gold |-> g] :
     p \in Policies, o \in 0 .. 3, c \in BOOLEAN, g \in {<<2, 4, 5>>, <<1, 3, 10>>}}
  \cup {[task |-> "entity_relation", policy |-> "oracle", order |-> o, constraints |-> TRUE, gold |-> <<2, 4, 2, 5, 9, 10>>] :
          o \in {0, 1, 3}}
GraphInput(lines, directed, separate, cross, loops) ==
  [task |-> "graph", policy |-> "any", actions |-> 2, lines |-> lines, directed |-> directed, separate |-> separate,
   cross |-> cross, loops |-> loops]
GraphInputs ==
  {GraphInput(<<<<1>>, <<2>>, <<1>>, <<1, 3>>, <<3, 2>>>>, d, TRUE, FALSE, 2) : d \in BOOLEAN}
  \cup {GraphInput(<<<<2>>, <<1>>, <<2>>, <<1>>, <<2, 4>>, <<4, 0, 3, 2>>>>, d, FALSE, d, 1) : d \in BOOLEAN}
  \cup {GraphInput(<<<<1>>, <<1, 2>>, <<2>>>>, FALSE, FALSE, FALSE, 1), GraphInput(<<<<1>>, <<1, 4>>>>, FALSE, FALSE, FALSE, 1)}
CostRows == {<<0, 1>>, <<2, 1>>}
BranchInputs ==
  {[task |-> "selective_branching", policy |-> "forced", actions |-> 2, max_branches |-> b, costs |-> <<<<r, r>>, c, d>>] :
     b \in {1, 2}, r \in CostRows, c \in CostRows \X CostRows, d \in CostRows \X CostRows}
SomeTasks == LabelInputs \cup EntityInputs \cup GraphInputs \cup BranchInputs

SomeRecalls == {[label |-> 1, weight |-> 1], [label |-> 2, weight |-> 2]}

-----------------------------------------------------------------------------
(* One value for the choices of a component that is not driven; the        *)
(* longest sentences are parsed with separate learners and no costs to go. *)
Fixes(name, choice) == part # name => choice

ReductionsInit ==
  /\ part \in Parts
  /\ DpInit /\ Fixes("dp", /\ parser = [sys |-> "eager", root_label |-> 0, one_learner |-> FALSE,
                                        cost_to_go |-> FALSE, policy |-> "oracle"]
                           /\ sentence.heads = <<0, 1>>)
  /\ part = "dp" /\ Len(sentence.heads) = MaxWords => ~parser.one_learner /\ ~parser.cost_to_go
  /\ SearchInit /\ Fixes("search", /\ rollout = "none" /\ rollout_num_steps = 0 /\ ~gives_allowed)
  /\ BfgsInit /\ Fixes("bfgs", bopt = [m |-> 1, hessian_on |-> FALSE, l2 |-> FALSE])
  /\ CcbInit /\ Fixes("ccb", ~no_pred)
  /\ AmlInit /\ Fixes("aml", oracle = "one_diff")
  /\ KsvmInit /\ Fixes("ksvm", pool_size = 1 /\ ~ksActive)
  /\ InteractionsInit /\ Fixes("cross", ixSpec = Options(<<QuadraticAll, <<1, 0>>>>, << >>, FALSE, FALSE))
  /\ WrapInit /\ Fixes("wrap", wred.name = "autolink")
  /\ SrInit /\ Fixes("scores", sred = "binary")
  /\ TkInit /\ Fixes("tasks", tin = [task |-> "multiclasstask", policy |-> "any", actions |-> 1, gold |-> <<1>>])
  /\ RtInit /\ Fixes("rt", bern_hyper = 0)
  /\ EpsInit /\ MtInit /\ EmtInit /\ LmInit

Rests(name, vars) == IF part = name THEN TRUE ELSE UNCHANGED vars

ReductionsNext ==
  /\ UNCHANGED part
  /\ Rests("eps", epsVars) /\ Rests("aml", amlVars) /\ Rests("mt", mtVars)
  /\ Rests("emt", emtVars) /\ Rests("ccb", ccbVars) /\ Rests("bfgs", bfgsVars)
  /\ Rests("search", searchVars) /\ Rests("dp", dpVars) /\ Rests("ksvm", ksvmVars)
  /\ Rests("lm", lmVars) /\ Rests("cross", interactionVars) /\ Rests("wrap", wrapVars)
  /\ Rests("scores", srVars) /\ Rests("tasks", tkVars) /\ Rests("rt", rtVars)
  /\ \/ part = "eps" /\ EpsNext
     \/ part = "aml" /\ AmlNext
     \/ part = "mt" /\ MtNext
     \/ part = "emt" /\ EmtNext
     \/ part = "ccb" /\ CcbNext
     \/ part = "bfgs" /\ BfgsNext
     \/ part = "search" /\ SearchNext
     \/ part = "dp" /\ DpNext
     \/ part = "ksvm" /\ KsvmNext
     \/ part = "lm" /\ LmNext
     \/ part = "cross" /\ InteractionsNext
     \/ part = "wrap" /\ WrapNext
     \/ part = "scores" /\ SrNext
     \/ part = "tasks" /\ TkNext
     \/ part = "rt" /\ RtNext

(* A statement about a component is evaluated where that one is driven:    *)
(* elsewhere it stays in one of its initial states.                        *)
Driven(names) == part \in names

ReductionsSpec == ReductionsInit /\ [][ReductionsNext]_reductionsVars

(* epsilon_decay and automl compare models over the same examples:         *)
(* promotion, rebalancing and a change of champion move estimators,        *)
(* weights and configurations together, every weight belongs to one model, *)
(* and no more challengers have priority than were asked for.              *)
ChampionsFair ==
  /\ Driven({"eps", "aml"}) => SameHorizon /\ OldestLast /\ SlotsAgree /\ SlotOwnsWeights
  /\ Driven({"eps", "aml"}) => FairComparison /\ PriorityBudget

(* The trees that grow while they learn. log_multi: a tree it stays        *)
(* through every swap, min_count leads to the least used leaf until a swap *)
(* takes the root, and no leaf counts a label more often than it was       *)
(* visited. memory_tree and eigen_memory_tree: every memory is in one leaf *)
(* and found by routing, the counts on the way to it are exact, nodes do   *)
(* not share a router, and the LRU list names memories that are there, no  *)
(* more of them than allowed, and all but those a model file brought.      *)
(* recall_tree: the candidates of a node are its most frequent labels, its *)
(* bound and entropy are those of its counts, and a prediction always has  *)
(* a candidate.                                                            *)
TreesSound ==
  /\ Driven({"mt", "emt"}) => MemoryOnce /\ CountsExact /\ RoutersApart /\ RoutedHome
  /\ Driven({"mt", "emt"}) => LruAlive /\ BoundedButLoaded
  /\ Driven({"lm"}) => SwapKeepsTree /\ LeastUsedLeaf /\ CountsBelowVisits
  /\ Driven({"rt"}) => CandidatesFrequent /\ EntropyExact /\ StoppedSeenBelow /\ AlwaysAnswers /\ BoundsCurrent

(* Every step of bfgs uses numbers that belong together: a gradient of the *)
(* present weights, correction pairs of consecutive iterations, and the    *)
(* curvature along the present direction. The cached kernel rows and       *)
(* gradients of kernel_svm describe the support vectors as they are now,   *)
(* through moves, removals, trimming and reprocessing, as long as no       *)
(* member of a pool has waited while they moved.                           *)
StepsConsistent ==
  /\ Driven({"bfgs"}) => GradientFresh /\ PairsConsecutive /\ CurvatureOfThisPoint
  /\ Driven({"ksvm"}) => RowsAligned /\ DeltasCurrent

(* The costs search learns from are comparable and name their actions:     *)
(* rollouts of one timestep draw the same random numbers, every timestep   *)
(* is trained once, and a cached action answers the same question, as far  *)
(* as a byte of its tag and of its conditioning tells. In the dependency   *)
(* parser, whatever valid actions a policy takes every word that was read  *)
(* gets one head and the arcs form a forest, and following the oracle      *)
(* rebuilds the gold tree where the system can. The other tasks ask for    *)
(* actions that fit what was answered before: open spans are continued,    *)
(* relations fit their entities, a graph is visited breadth first with the *)
(* present predictions of neighbours, the oracle asks for allowed actions  *)
(* and following it gives back the labels, and selective_branching answers *)
(* with the cheapest path it has tried.                                    *)
SearchSound ==
  /\ Driven({"search"}) => FairRollouts /\ CostsNamed /\ EachTimestep /\ CachedRight
  /\ Driven({"dp"}) => ReadWordsAttached /\ ArcsFormForest /\ OracleRebuilds
  /\ Driven({"tasks"}) => SpansLegal /\ OracleAllowed /\ OracleIsRight /\ LearnersOwn /\ LabelOfAllowed
  /\ Driven({"tasks"}) => RelationsFit /\ GraphVisits /\ NeighborsCurrent /\ BranchesBest

(* Interactions: every combination of features is generated once, the sum  *)
(* of squares computed by formula is the one of the generated features     *)
(* (but for --permutations of a namespace that is split in extents), and   *)
(* wildcards stand for all namespaces, or all extents, seen so far. The    *)
(* reductions that change the features of an example on its way down       *)
(* (autolink, interact, lrq, lrqfa, mf, marginal, baseline) show the       *)
(* learner below the features they mean to (lrqfa with three fields only   *)
(* in its first round, mf with one pair) and give the example back as it   *)
(* came when they return (lrqfa: its values, not its indices).             *)
CrossedRight ==
  /\ Driven({"cross"}) => EachCombinationOnce /\ SquaresAgree /\ WildcardsExpanded
  /\ Driven({"wrap"}) => WrapRestores /\ ValuesAligned /\ FactorsOfPair /\ ConstantMoved
=============================================================================

SPECIFICATION ReductionsSpec
CONSTANTS
  model_count = 4
  min_scope = 1
  min_champ_examples = 1
  shift_model_bounds = 0
  MaxLearns = 7
  Namespaces = {1, 2}
  Fixed = {}
  Oracles = {"one_diff", "one_diff_inclusion", "champdupe"}
  max_live_configs = 3
  priority_challengers = 1
  default_lease = 1
  MaxSteps = 4
  max_nodes = 6
  max_leaf_examples = 2
  dream_repeats = 1
  dream_at_update = FALSE
  MaxStored = 3
  MaxLearned = 4
  MaxTreePasses = 1
  Feats = {"x", "y", "z"}
  emt_tree = 2
  emt_leaf = 1
  MaxMemories = 4
  MaxLoads = 1
  MaxActions = 2
  MaxSlots = 2
  MaxCcbCalls = 2
  Memories = {0, 1, 2, 3}
  numpasses = 9
  NumPerPass = 2
  Horizon = 4
  NumActions = 2
  AllowedAt <- SomeAllowed
  OracleAt <- SomeOracle
  Rollins = {"mix_per_state"}
  Rollouts = {"mix_per_state", "mix_per_roll", "none"}
  RolloutSteps = {0, 1}
  TagRange = 2
  MaxSequences = 1
  MaxWords = 4
  num_label = 2
  RootLabels = {0, 2}
  pool_sizes = {1, 2}
  reprocess = 2
  maxcache = 4
  MaxKsvm = 4
  Labels = {1, 2}
  max_predictors = 2
  swap_resist = 1
  MaxLogMulti = 7
  RtExamples <- SomeRecalls
  RtHypers = {0, 300}
  max_candidates = 1
  max_depth = 2
  RtMaxLearned = 3
  InteractionSpecs <- SomeSpecs
  CrossedExamples <- SomeExamples
  MaxCrossed = 2
  WrapFields <- SomeFields
  LrqPairs <- SomeLrqPairs
  MfPairLists <- SomeMfPairs
  Rank = 2
  GivenFeatures <- SomeFeatureLists
  MaxWrapped = 2
  SrK = 3
  SrErrors = 1
  SrKary = 2
  SrMaxLabels = 9
  SrReductions = {"oaa", "oaa_scores", "oaa_subsample", "ect", "csoaa", "multilabel_oaa", "multilabel_probabilities", "plt", "plt_top", "bs_mean", "bs_vote", "topk", "classweight", "binary", "scorer", "confidence", "confidence_after", "active_simulation", "active", "active_direct", "active_cover", "cs_active", "cs_active_simulation", "boosting", "boosting_logistic", "boosting_adaptive"}
  SrReused = {"oaa", "active", "boosting", "multilabel_probabilities", "cs_active_simulation"}
  SrMaxExamples = 2
  TaskInputs <- SomeTasks
  HistoryLength = 1
  MaxRuns = 1
INVARIANTS ChampionsFair TreesSound SlotsIndependent StepsConsistent SearchSound CrossedRight ScoresReduced
CHECK_DEADLOCK FALSE

SPECIFICATION BanditsSpec
CONSTANTS
  One = 15120
  XSizes = {1, 3}
  XPolicies = 2
  XEpsilon = 11340
  XExplorers = {"greedy", "greedy_first", "first", "softmax", "synthcover", "regcb_opt", "regcb_opt_first", "regcb_elim", "squarecb", "squarecb_elim", "bag", "cover_mtr", "cover_no_predict", "cover_nounif", "rnd", "plain_greedy", "plain_first", "plain_bag", "plain_cover"}
  XMaxEvents = 2
  ASizes = {1, 3}
  ATypes = {"ips", "dm", "dr", "mtr", "mtr_no_predict", "sm", "oaa", "classifier", "wap", "cb_ips", "cb_dm", "cb_dr"}
  AOffsets = {0, 1}
  AClip = 0
  AMaxLearns = 2
  SReductions = {"cbify_mc", "cbify_cs", "cbify_adf", "cbify_adf_cs", "cbify_ldf", "cbify_discrete", "cbify_continuous", "cb_to_cb_adf", "actions_mask", "warm", "warm_sim", "warm_ws_only", "warm_inter_only", "warm_idle", "explore_eval", "mwt", "slates", "igl"}
  SActions = 3
  WsPeriod = 1
  InterPeriod = 2
  ChoicesLambda = 2
  SPolicies = {0, 1}
  SMaxCalls = 3
  CSetups <- SomeSetups
  CMaxCalls = 2
INVARIANTS ExplorationSound LoggedLearningSound SimulationSound
CHECK_DEADLOCK FALSE

---------------------------- MODULE CbSimulation -----------------------------
(***************************************************************************)
(* Reductions that turn one kind of feedback into another, around a        *)
(* contextual bandit: cbify and warm_cb play a bandit on labelled          *)
(* examples, cb_to_cb_adf and slates rewrite labels for the learner below, *)
(* explore_eval and mwt replay logged actions, igl learns costs from       *)
(* observations, cb_actions_mask completes a prediction.  The learner      *)
(* below answers with any distribution, and any of the calls to it may     *)
(* throw.  Actions of a ranking count from 0, labels and lines from 1.     *)
(* Costs and probabilities are parts of One.                               *)
(***************************************************************************)
EXTENDS Explore

CONSTANTS
  SReductions,        \* the reductions, with their options
  SActions,           \* actions of an example
  WsPeriod, InterPeriod, ChoicesLambda,   \* warm_cb: --warm_start, --interaction, --choices_lambda
  SPolicies,          \* the policies that mwt values
  SMaxCalls           \* bound: examples

ASSUME SimulationAssumption ==
  /\ SActions \in Nat \ {0} /\ {WsPeriod, InterPeriod, SMaxCalls} \subseteq Nat /\ ChoicesLambda \in Nat \ {0}

VARIABLES
  mred,     \* the reduction
  mmem,     \* what it keeps between examples
  mlines,   \* the lines of the example: [label, cb, weight]
  mrun,     \* << >>, or the last call
  mhist     \* history: calls, seeds, and the sums that the estimates should be

mVars == <<mred, mmem, mlines, mrun, mhist>>

SLine(label) == [label |-> label, cb |-> << >>, weight |-> One]
Lost == << >>                                  \* a label that was moved out
BanditLabel(action, cost, p) == <<[action |-> action, cost |-> cost, p |-> p]>>
CopiesOf(n, weight) == [a \in 1..n |-> [SLine(Lost) EXCEPT !.weight = weight]]

(* A call in progress.  After as many calls below as `throws`, one throws. *)
Ask(st, op, policy, sees) ==
  IF st.thrown THEN st
  ELSE IF Len(st.steps) = st.throws THEN [st EXCEPT !.thrown = TRUE]
  ELSE [st EXCEPT !.steps = Append(@, [op |-> op, policy |-> policy, sees |-> sees])]
AskIf(asked, st, op, policy, sees) == IF asked THEN Ask(st, op, policy, sees) ELSE st
IfDone(st, next) == IF st.thrown THEN st ELSE next
(* A draw: the seed is app_seed + example_counter++.                       *)
(* Slip: the counter stays.                                                *)
DrawSeed_Slip(st) == IF st.thrown THEN st ELSE [st EXCEPT !.seeds = Append(@, st.mem.counter)]
DrawSeed(st) == IF st.thrown THEN st ELSE [st EXCEPT !.seeds = Append(@, st.mem.counter), !.mem.counter = @ + 1]
DrawnIndex(in) == sample_after_normalizing(ScoresOf(in.ranking), in.draw).index + 1

-----------------------------------------------------------------------------
(* cbify.  The cost of an action under the label of the example.           *)
Costs01(label, a) == IF a = label THEN 0 ELSE One
SimLoss(kind, label, a) == IF kind = "cs" THEN label[a] ELSE Costs01(label, a)

(* Over cb_explore: its distribution is in the order of the actions.  A    *)
(* cost-sensitive label is moved out of the example.                       *)
CbifyPlainTaught(st, in, is_learn, cb) ==
  AskIf(is_learn, IfDone(st, [st EXCEPT !.lines[1].cb = cb, !.pred = cb[1].action]), "learn", 0, <<cb>>)
CbifyPlainDone(st, in) == IfDone(st, [st EXCEPT !.lines = <<SLine(in.label)>>])
CbifyPlain(kind, st, in, is_learn) ==
  CbifyPlainDone(
    CbifyPlainTaught(
      DrawSeed(Ask([st EXCEPT !.lines[1].label = IF kind = "cs" THEN Lost ELSE @], "predict", 0, <<<< >>>>)), in, is_learn,
      BanditLabel(DrawnIndex(in), SimLoss(kind, in.label, DrawnIndex(in)), in.ranking[DrawnIndex(in)].score)), in)

(* Over cb_explore_adf: a copy of the example for every action.            *)
(* Slip: the position in the ranking is taken for the action.              *)
AdfChosen_Slip(in) == DrawnIndex(in)
AdfChosen(in) == in.ranking[DrawnIndex(in)].action + 1
AdfLabel(kind, in) == BanditLabel(AdfChosen(in), SimLoss(kind, in.label, AdfChosen(in)), in.ranking[DrawnIndex(in)].score)
LabelCopy(n, cb) == [a \in 1..n |-> IF a = cb[1].action THEN cb ELSE << >>]
NoLabels(n) == [a \in 1..n |-> << >>]
CbifyAdfDrawn(st, in) == IfDone(st, [DrawSeed(st) EXCEPT !.pred = AdfChosen(in)])
CbifyAdf(kind, st, in, is_learn) ==
  AskIf(is_learn, CbifyAdfDrawn(Ask(st, "predict", 0, NoLabels(SActions)), in), "learn", 0,
        LabelCopy(SActions, AdfLabel(kind, in)))

(* Every copy has its features in a block of its own: the low bits, as     *)
(* many as all actions take, are replaced.                                 *)
BitLength(x) == Min({b \in 0..16 : 2^b > x})
(* Slip: a mask for the actions, whatever each of them takes.              *)
CustomMask_Slip(n, width) == 2^BitLength(n)
CustomMask(n, width) == 2^BitLength(n * width)
CopyIndex(idx, a, n, width) == (idx - (idx % CustomMask(n, width))) + a * width

(* Lines with costs (ldf): labels [class, x]; the cost is that of the      *)
(* first line whose class is the position of the one that was drawn.       *)
LdfLoss(labels, a) ==
  LET found == {i \in 1..Len(labels) : labels[i].class = a} IN IF found = {} THEN 0 ELSE labels[Min(found)].x
LdfLabel(in) == BanditLabel(AdfChosen(in), LdfLoss(in.label, AdfChosen(in)), in.ranking[DrawnIndex(in)].score)
CbifyLdf(st, in, is_learn) ==
  AskIf(is_learn, CbifyAdfDrawn(Ask(st, "predict", 0, NoLabels(Len(st.lines))), in), "learn", 0,
        LabelCopy(Len(st.lines), LdfLabel(in)))

(* Regression: actions are values, and the cost is a loss between 0 and 1  *)
(* that may be scaled back for the report.  min_value is 0 and the range   *)
(* is the number of actions, so that action a stands for a - 1.            *)
Abs(x) == IF x < 0 THEN -x ELSE x
RegressionLoss(option, value, label) ==
  CASE option = "squared" -> (One * (label - value) * (label - value)) \div (SActions * SActions)
    [] option = "absolute" -> (One * Abs(label - value)) \div SActions
    [] option = "01" -> IF Abs(label - value) <= 1 THEN 0 ELSE One
(* Slip: the absolute loss is scaled as the squared one.                   *)
LossReported_Slip(option, report, cost) == IF report /\ option \in {"squared", "absolute"} THEN cost * SActions * SActions ELSE cost
LossReported(option, report, cost) ==
  CASE report /\ option = "squared" -> cost * SActions * SActions
    [] report /\ option = "absolute" -> cost * SActions
    [] OTHER -> cost
RegressionLabel(in, i) == BanditLabel(i, RegressionLoss(in.option, i - 1, in.label), in.ranking[i].score)
RegressionReported(st, in, cb) ==
  IfDone(st, [st EXCEPT !.mem.reported = LossReported(in.option, in.report, cb[1].cost), !.lines[1].cb = << >>, !.pred = cb[1].action - 1])
RegressionTaught(st, in, is_learn, cb) ==
  RegressionReported(AskIf(is_learn, IfDone(st, [st EXCEPT !.lines[1].cb = cb]), "learn", 0, <<cb>>), in, cb)
CbifyDiscrete(st, in, is_learn) ==
  RegressionTaught(DrawSeed(Ask([st EXCEPT !.lines[1].cb = << >>], "predict", 0, <<<< >>>>)), in, is_learn, RegressionLabel(in, DrawnIndex(in)))
(* The learner below draws: ranking[1] is what it drew and its density.    *)
CbifyContinuous(st, in, is_learn) ==
  RegressionTaught(Ask(st, "predict", 0, <<<< >>>>), in, is_learn,
                   [RegressionLabel(in, in.ranking[1].action + 1) EXCEPT ![1].p = in.ranking[1].score])

-----------------------------------------------------------------------------
(* cb_to_cb_adf: the label is a sequence of costs; one that was observed   *)
(* moves to the copy of its action, if there is one.                       *)
ObservedCosts(label) == {i \in 1..Len(label) : label[i].p > 0}
IndexWithCost(label) == IF Len(label) > 1 THEN Min(ObservedCosts(label)) ELSE 1
ToCopies(label, n) ==
  IF ObservedCosts(label) = {} \/ label[IndexWithCost(label)].action > n THEN NoLabels(n)
  ELSE LabelCopy(n, <<label[IndexWithCost(label)]>>)
CbToAdf(st, in, is_learn) ==
  LET sees == ToCopies(in.label, SActions)
      asked == AskIf(~is_learn \/ ~in.returns, st, "predict", 0, sees)
      taught == AskIf(is_learn, asked, "learn", 0, sees)
  IN  IfDone(taught, [taught EXCEPT !.pred = in.ranking[1].action + 1])

(* cb_actions_mask: the learner below may rank some of the actions only.   *)
(* A learn that returns no prediction leaves the one of the learner below, *)
(* unless nothing is labelled.                                             *)
Completed(ranking, n) ==
  ranking \o [k \in 1..(n - Len(ranking)) |->
                Pair(SetToSortSeq((0..(n - 1)) \ ToSet(ActionsOf(ranking)), <)[k], 0)]
MaskAnswers(in, is_learn) == ~is_learn \/ in.returns \/ in.label = << >>
ActionsMask(st, in, is_learn) ==
  LET asked == Ask(st, IF is_learn THEN "learn" ELSE "predict", 0, in.label)
  IN  IfDone(asked, [asked EXCEPT !.pred = IF MaskAnswers(in, is_learn) THEN Completed(in.ranking, SActions) ELSE in.ranking])

-----------------------------------------------------------------------------
(* warm_cb: a supervised or bandit warm start, then a bandit, then nothing.*)
(* One policy for each lambda; the one whose estimated cost is smallest    *)
(* predicts.  Both periods teach ("warm", and "warm_sim" with --sim_bandit)*)
(* or one of them, or neither ("warm_idle"), which is the default.         *)
Warm == {"warm", "warm_sim", "warm_ws_only", "warm_inter_only", "warm_idle"}
IndUpdate(red, phase) ==
  red \in {"warm", "warm_sim"} \/ red = (IF phase = "warm" THEN "warm_ws_only" ELSE "warm_inter_only")
SetupLambdas(n, mid_value, zero_one, upd_ws, upd_inter) ==
  LET mid == n \div 2 + 1
      down[i \in 1..mid] == IF i = mid THEN mid_value ELSE down[i + 1] \div 2
      up[i \in mid..n] == IF i = mid THEN mid_value ELSE One - (One - up[i - 1]) \div 2
  IN  [i \in 1..n |->
         CASE upd_ws # upd_inter -> IF upd_inter THEN One ELSE 0
           [] upd_ws = upd_inter -> IF zero_one /\ i = n THEN One ELSE IF zero_one /\ i = 1 THEN 0 ELSE IF i <= mid THEN down[i] ELSE up[i]]
Lambdas(red) == SetupLambdas(ChoicesLambda, One \div 2, FALSE, IndUpdate(red, "warm"), IndUpdate(red, "interaction"))
ShareOf(red, i, phase) == IF phase = "warm" THEN One - Lambdas(red)[i] ELSE Lambdas(red)[i]
(* Slip: the sizes of the two periods swapped in the total.                *)
WeightMultiplier_Slip(red, i, phase) ==
  LET total_weight == ShareOf(red, i, "warm") * InterPeriod + ShareOf(red, i, "interaction") * WsPeriod
  IN  (ShareOf(red, i, phase) * (WsPeriod + InterPeriod) * (One \div 60)) \div (total_weight \div 60)
WeightMultiplier(red, i, phase) ==
  LET total_weight == ShareOf(red, i, "warm") * WsPeriod + ShareOf(red, i, "interaction") * InterPeriod
  IN  (ShareOf(red, i, phase) * (WsPeriod + InterPeriod) * (One \div 60)) \div (total_weight \div 60)
FindMin(costs) == Min({i \in 1..Len(costs) : costs[i] = Min(ToSet(costs))})
WarmPhase(mem) == IF mem.ws_iter < WsPeriod THEN "warm" ELSE IF mem.inter_iter < InterPeriod THEN "interaction" ELSE "over"
(* in.first[i]: what policy i ranks first; the policy that predicts gives  *)
(* in.ranking.  in.corrupt: the label that corrupt_action gives.           *)
WeightedBy(labels, weight) == [a \in 1..Len(labels) |-> [cb |-> labels[a], weight |-> weight]]
TeachPolicies(red, st, op, labels, phase) ==
  IF ~IndUpdate(red, phase) THEN st
  ELSE FoldLeft(LAMBDA s, i : Ask(s, op, i, WeightedBy(labels, WeightMultiplier(red, i, phase))), st, [i \in 1..ChoicesLambda |-> i])
WarmSupervised(red, st, in) ==
  LET best == FindMin(st.mem.costs)
      taught == TeachPolicies(red, Ask(st, "predict", best, NoLabels(SActions)), "supervised",
                              [a \in 1..SActions |-> BanditLabel(a, Costs01(st.lines[1].label, a), One)], "warm")
  IN  IfDone(taught, [taught EXCEPT !.pred = in.first[best]])
WarmDrawn(st, in) == CbifyAdfDrawn(Ask(st, "predict", FindMin(st.mem.costs), NoLabels(SActions)), in)
WarmLabel(st, in) == BanditLabel(AdfChosen(in), Costs01(st.lines[1].label, AdfChosen(in)), in.ranking[DrawnIndex(in)].score)
(* accumu_costs_iv_adf: every policy is asked before any is taught.        *)
(* Slip: what was drawn counts for every policy.                           *)
Accumulated_Slip(st, in, i, cb) == IfDone(st, [st EXCEPT !.mem.costs[i] = @ + (cb.cost * One) \div cb.p])
Accumulated(st, in, i, cb) ==
  IfDone(st, IF in.first[i] = cb.action THEN [st EXCEPT !.mem.costs[i] = @ + (cb.cost * One) \div cb.p] ELSE st)
AccumulateCosts(st, in, cb) ==
  FoldLeft(LAMBDA s, i : Accumulated(Ask(s, "predict", i, NoLabels(SActions)), in, i, cb), st, [i \in 1..ChoicesLambda |-> i])
WarmBandit(red, st, in, phase, cb) ==
  TeachPolicies(red, IF phase = "interaction" THEN AccumulateCosts(WarmDrawn(st, in), in, cb[1]) ELSE WarmDrawn(st, in),
                "learn", LabelCopy(SActions, cb), phase)
(* The label is corrupted in the warm start, and given back unless a call  *)
(* throws; the weight tells the statistics what to leave out.              *)
WarmDone(st, in, phase) ==
  IfDone(st, [st EXCEPT !.lines[1] = [SLine(in.label) EXCEPT !.weight = IF phase = "interaction" THEN One ELSE 0],
                        !.mem.ws_iter = @ + (IF phase = "warm" THEN 1 ELSE 0),
                        !.mem.inter_iter = @ + (IF phase = "interaction" THEN 1 ELSE 0)])
WarmVariance(st, in, phase) ==
  AskIf(phase = "interaction", st, "predict", FindMin(st.mem.costs), NoLabels(SActions))
WarmCall(red, st, in) ==
  LET corrupted == [st EXCEPT !.lines[1].label = in.corrupt]
  IN  CASE WarmPhase(st.mem) = "warm" /\ red # "warm_sim" -> WarmSupervised(red, corrupted, in)
        [] WarmPhase(st.mem) = "warm" /\ red = "warm_sim" -> WarmBandit(red, corrupted, in, "warm", WarmLabel(corrupted, in))
        [] WarmPhase(st.mem) = "interaction" -> WarmVariance(WarmBandit(red, st, in, "interaction", WarmLabel(st, in)), in, "interaction")
        [] OTHER -> [st EXCEPT !.pred = 1]
WarmCb(red, st, in) == WarmDone(WarmCall(red, st, in), in, WarmPhase(st.mem))

-----------------------------------------------------------------------------
(* explore_eval: a logged action is learned with the probability that the  *)
(* explorer would have taken it, over that of the log.  in.label is        *)
(* [action, cost, p], in.option "min", "fixed" or "rate", in.draw a number *)
(* in parts of One.                                                        *)
EvalFound(in) == in.label.action \in ToSet([i \in 1..Len(in.ranking) |-> in.ranking[i].action + 1])
EvalProbability(in) == IF EvalFound(in) THEN ScoreOf(in.ranking, in.label.action - 1) ELSE 0
EvalRatio(in) == (EvalProbability(in) * One) \div in.label.p
(* Slip: the multiplier is left as it is.                                  *)
EvalMultiplier_Slip(mem, in) == mem.multiplier
EvalMultiplier(mem, in) ==
  IF in.option = "min" /\ EvalFound(in) /\ EvalRatio(in) > 0 THEN Min({mem.multiplier, (One * One) \div EvalRatio(in)}) ELSE mem.multiplier
EvalThreshold(in, multiplier) == (EvalRatio(in) * multiplier) \div One
(* rate_target: the rate that would have given the target so far.          *)
TargetRate == One \div 2
RateOf(mem) == IF mem.sum_p > 0 THEN (TargetRate * mem.rated * One) \div mem.sum_p ELSE One
EvalCounted(st, in, multiplier, threshold) ==
  [st EXCEPT !.mem.multiplier = multiplier, !.mem.sum_p = @ + threshold, !.mem.rated = @ + 1,
             !.mem.violations = @ + (IF EvalFound(in) /\ threshold > One THEN 1 ELSE 0)]
EvalAccepts(in, threshold) == EvalFound(in) /\ in.draw < threshold
EvalWeight(threshold) == IF threshold > One THEN threshold ELSE One
EvalSees(in, threshold) ==
  [i \in 1..SActions |-> [cb |-> IF i = in.label.action THEN <<[in.label EXCEPT !.p = EvalProbability(in)]>> ELSE << >>,
                          weight |-> EvalWeight(threshold)]]
EvalLines(in, sees) == [i \in 1..SActions |-> [SLine(IF i = in.label.action THEN in.label ELSE Lost) EXCEPT !.cb = sees[i].cb, !.weight = sees[i].weight]]
(* The weights and the probability are set back, but not when learn throws.*)
EvalSetBack(st, in) == IfDone(st, [st EXCEPT !.lines = EvalLines(in, [i \in 1..SActions |-> [cb |-> << >>, weight |-> One]])])
EvalLearns(st, in, threshold) ==
  IF ~st.thrown /\ EvalAccepts(in, threshold)
  THEN EvalSetBack(Ask([st EXCEPT !.lines = EvalLines(in, EvalSees(in, threshold)), !.mem.updates = @ + 1], "learn", 0, EvalSees(in, threshold)), in)
  ELSE st
EvalRated(in, threshold, rate) == IF in.option = "rate" THEN (threshold * rate) \div One ELSE threshold
EvalTaught(st, in, multiplier, threshold) ==
  EvalLearns(EvalCounted(st, in, multiplier, threshold), in, EvalRated(in, threshold, RateOf(st.mem)))
(* The label is hidden while the explorer predicts, without a guard.       *)
EvalPredicted(st, in) ==
  LET asked == Ask([st EXCEPT !.lines = EvalLines([in EXCEPT !.label = [action |-> 0]], [i \in 1..SActions |-> [cb |-> << >>, weight |-> One]])],
                   "predict", 0, NoLabels(SActions))
  IN  IfDone(asked, [asked EXCEPT !.lines = st.lines])
ExploreEval(st, in, is_learn) ==
  LET asked == EvalPredicted(st, in)
  IN  IF asked.thrown \/ ~is_learn THEN asked
      ELSE EvalTaught(asked, in, EvalMultiplier(st.mem, in), EvalThreshold(in, EvalMultiplier(st.mem, in)))

-----------------------------------------------------------------------------
(* mwt: features of the example are policies, their values the actions     *)
(* they take.  in.feats is a set of [policy, action], in.label << >> or an *)
(* observed [action, cost, p].                                             *)
Seen(mem, in) == mem.policies \o SetToSortSeq({f.policy : f \in in.feats} \ ToSet(mem.policies), <)
VotedFor(mem, in, p) == IF \E f \in in.feats : f.policy = p THEN (CHOOSE f \in in.feats : f.policy = p).action ELSE mem.votes[p]
(* Slip: the action of a policy stays until it says another.               *)
Revoked_Slip(mem, in) == [p \in SPolicies |-> VotedFor(mem, in, p)]
Revoked(mem, in) == [p \in SPolicies |-> 0]
CostEstimate(observed, action) == IF action = observed.action THEN (observed.cost * One) \div observed.p ELSE 0
Valued(mem, in) ==
  IF in.label = << >> THEN mem
  ELSE [mem EXCEPT !.total = @ + 1, !.policies = Seen(mem, in), !.votes = Revoked(mem, in),
                   !.evals = [p \in SPolicies |-> IF p \in ToSet(Seen(mem, in)) THEN @[p] + CostEstimate(in.label[1], VotedFor(mem, in, p)) ELSE @[p]]]
(* With --learn the learner below gets a feature for each policy and       *)
(* action.  They are swapped in, and back when it returns; its class comes *)
(* first in the prediction.                                                *)
MwtIndex(f) == f.policy * SActions + f.action
MwtShown(in) == {MwtIndex(f) : f \in in.feats}
MwtAsked(st, in, is_learn) ==
  IF in.learn THEN Ask([st EXCEPT !.lines[1].label = MwtShown(in)], IF is_learn THEN "learn" ELSE "predict", 0, MwtShown(in)) ELSE st
Mwt(st, in, is_learn) ==
  LET mem == Valued(st.mem, in)
      asked == MwtAsked([st EXCEPT !.mem = mem], in, is_learn)
  IN  IfDone(asked, [asked EXCEPT !.lines[1].label = in.feats,
                                  !.pred = (IF in.learn THEN <<in.class>> ELSE << >>)
                                             \o [k \in 1..Len(mem.policies) |-> mem.evals[mem.policies[k]] \div mem.total]])

-----------------------------------------------------------------------------
(* slates: actions belong to slots; the labels become those of a ccb over  *)
(* all actions.  in.layout[k]: the slot of action k - 1; in.label: << >>   *)
(* or the cost; in.logged[s]: the action that slot s took, in its own      *)
(* numbers; in.ranking[s]: what the learner below ranks for slot s.        *)
Pool(layout, s) == SelectSeq([k \in 1..Len(layout) |-> k - 1], LAMBDA a : layout[a + 1] = s)
SlotSees(in, s) ==
  [included |-> ToSet(Pool(in.layout, s)),
   outcome |-> IF in.label = << >> THEN << >> ELSE BanditLabel(Pool(in.layout, s)[in.logged[s] + 1], in.label[1], One \div 2)]
(* Slip: every slot subtracts the actions of the first.                    *)
SizeSoFar_Slip(in, s) == IF s = 1 THEN 0 ELSE Len(in.ranking[1])
SizeSoFar(in, s) == SumOf([t \in 1..(s - 1) |-> Len(in.ranking[t])])
LocalScores(in) == [s \in 1..Len(in.ranking) |-> [k \in 1..Len(in.ranking[s]) |-> in.ranking[s][k] - SizeSoFar(in, s)]]
SlatesLabels(in) == [i \in 1..(1 + Len(in.layout) + Len(in.ranking)) |-> SLine(i)]
Slates(st, in, is_learn) ==
  LET moved == [st EXCEPT !.lines = [i \in 1..Len(st.lines) |-> SLine(Lost)]]
      asked == Ask(moved, IF is_learn THEN "learn" ELSE "predict", 0, [s \in 1..Len(in.ranking) |-> SlotSees(in, s)])
  IN  IF \E k \in 1..Len(in.layout) : in.layout[k] > Len(in.ranking) THEN [moved EXCEPT !.thrown = TRUE]
      ELSE IfDone(asked, [asked EXCEPT !.lines = SlatesLabels(in), !.pred = LocalScores(in)])

-----------------------------------------------------------------------------
(* igl: a policy, and a model ik of which action led to the observation.   *)
(* They share one base learner: the state of ftrl, the loss and the        *)
(* statistics in its place are swapped around the calls.                   *)
SwapFtrl(st) == IfDone(st, [st EXCEPT !.mem.ftrl = IF @ = "pi" THEN "ik" ELSE "pi"])
SwapLoss(st) == IfDone(st, [st EXCEPT !.mem.loss = IF @ = "pi" THEN "ik" ELSE "pi"])
AskAs(st, op, offset, sees) == Ask(st, op, offset, [ftrl |-> st.mem.ftrl, loss |-> st.mem.loss, sees |-> sees])
Events(in) == [i \in 1..SActions |-> SLine(IF i = in.label.action THEN <<in.label>> ELSE << >>)]
AsCb(lines) == [i \in 1..Len(lines) |-> [lines[i] EXCEPT !.cb = lines[i].label, !.label = Lost]]
AsEvents(lines) == [i \in 1..Len(lines) |-> [lines[i] EXCEPT !.label = lines[i].cb, !.cb = << >>]]
Observation == SLine("observation")
IglPolicy(st, op) == SwapFtrl(AskAs(SwapFtrl(st), op, 1, [i \in 1..Len(st.lines) |-> st.lines[i].cb]))
WithLines(st, lines) == IfDone(st, [st EXCEPT !.lines = lines])
IglPredict(st) ==
  LET asked == IglPolicy([st EXCEPT !.lines = AsCb(Front(st.lines))], "predict")
  IN  WithLines(asked, Append(AsEvents(asked.lines), Observation))
(* The weights make both classes as likely as the prior, whatever the      *)
(* probability of the action.                                              *)
(* Slip: one over the probability for all.                                 *)
IkWeight_Slip(in, i) == IF i = in.label.action THEN (One * One) \div (4 * ScoreOf(in.ranking, i - 1)) ELSE (3 * One * (One \div 4)) \div ScoreOf(in.ranking, i - 1)
IkWeight(in, i) ==
  IF i = in.label.action THEN (One * One) \div (4 * ScoreOf(in.ranking, i - 1))
  ELSE (3 * One * (One \div 4)) \div (One - ScoreOf(in.ranking, i - 1))
(* A line's label is moved as soon as ik was taught with it.               *)
IglTeachLine(st, in, i) ==
  LET taught == AskAs(st, "ik", 0, [line |-> i, label |-> IF i = in.label.action THEN 1 ELSE -1, weight |-> IkWeight(in, i)])
  IN  IfDone(taught, [taught EXCEPT !.lines[i] = AsCb(<<@>>)[1]])
IglTeachIk(st, in) ==
  FoldLeft(LAMBDA s, i : IglTeachLine(s, in, i), IfDone(st, [st EXCEPT !.lines = Front(@)]), [i \in 1..SActions |-> i])
PredictedCost(in) == IF ~in.likely THEN 0 ELSE IF in.bad THEN 2 * One ELSE -One
IglCosted(st, in) == IfDone(st, [st EXCEPT !.lines[in.label.action].cb[1].cost = PredictedCost(in)])
IglTaught(st) == WithLines(st, Append(AsEvents(st.lines), Observation))
IglLearn(st, in) == IglTaught(IglPolicy(IglCosted(SwapLoss(IglTeachIk(SwapLoss(IglPredict(st)), in)), in), "learn"))
Igl(st, in, is_learn) == IF is_learn THEN IglLearn(st, in) ELSE IglPredict(st)

-----------------------------------------------------------------------------
Simulate(red, st, in, is_learn) ==
  CASE red = "cbify_mc" -> CbifyPlain("mc", st, in, is_learn)
    [] red = "cbify_cs" -> CbifyPlain("cs", st, in, is_learn)
    [] red = "cbify_adf" -> CbifyAdf("mc", st, in, is_learn)
    [] red = "cbify_adf_cs" -> CbifyAdf("cs", st, in, is_learn)
    [] red = "cbify_ldf" -> CbifyLdf(st, in, is_learn)
    [] red = "cbify_discrete" -> CbifyDiscrete(st, in, is_learn)
    [] red = "cbify_continuous" -> CbifyContinuous(st, in, is_learn)
    [] red = "cb_to_cb_adf" -> CbToAdf(st, in, is_learn)
    [] red = "actions_mask" -> ActionsMask(st, in, is_learn)
    [] red \in Warm -> WarmCb(red, st, in)
    [] red = "explore_eval" -> ExploreEval(st, in, is_learn)
    [] red = "mwt" -> Mwt(st, in, is_learn)
    [] red = "slates" -> Slates(st, in, is_learn)
    [] red = "igl" -> Igl(st, in, is_learn)

(* What comes in, and what the learner below answers.                      *)
SPmf == <<One \div 2, One \div 4, One \div 4>>
Rotated(k) == [i \in 1..SActions |-> Pair((i + k) % SActions, SPmf[i])]
SRankings == {Rotated(k) : k \in 0..(SActions - 1)}
ByActionRankings == {ByAction(<<One \div 4, One \div 2, One \div 4>>), ByAction(<<0, One, 0>>)}
SDraws == {0, One \div 2, One - 1}
SLabels == 1..SActions
(* Uniformly at random, the next one, or a fixed one: any.                 *)
CorruptAction == {1, 2}
SLogged(a, c, p) == [action |-> a, cost |-> c, p |-> p]
LdfClasses == {<<1, 2, 3>>, <<2, 1, 3>>}
SInputs(red) ==
  CASE red = "cbify_mc" -> [label : SLabels, ranking : ByActionRankings, draw : SDraws]
    [] red = "cbify_cs" -> [label : [1..SActions -> {0, One}], ranking : ByActionRankings, draw : SDraws]
    [] red = "cbify_adf" -> [label : SLabels, ranking : SRankings, draw : SDraws]
    [] red = "cbify_adf_cs" -> [label : [1..SActions -> {0, One}], ranking : SRankings, draw : SDraws]
    [] red = "cbify_ldf" ->
         [label : {[i \in 1..SActions |-> [class |-> c[i], x |-> x[i]]] : c \in LdfClasses, x \in [1..SActions -> {0, One}]},
          ranking : SRankings, draw : SDraws]
    [] red \in {"cbify_discrete", "cbify_continuous"} ->
         [label : 0..SActions, ranking : IF red = "cbify_continuous" THEN SRankings ELSE ByActionRankings, draw : SDraws, option : {"squared", "absolute", "01"}, report : BOOLEAN]
    [] red = "cb_to_cb_adf" ->
         [label : {<< >>, <<SLogged(1, One, -1), SLogged(2, One, One \div 2)>>, <<SLogged(2, One, -1)>>}
                    \cup {<<SLogged(a, One, One \div 4)>> : a \in 1..(SActions + 1)},
          ranking : SRankings, draw : {0}, returns : BOOLEAN]
    [] red = "actions_mask" -> [label : {<< >>, <<SLogged(1, One, One \div 2)>>}, ranking : {SubSeq(r, 1, n) : r \in SRankings, n \in 1..SActions}, draw : {0}, returns : BOOLEAN]
    [] red \in Warm ->
         [label : {1, 2}, corrupt : CorruptAction, ranking : SRankings, draw : {0, One - 1}, first : [1..ChoicesLambda -> {1, 2}]]
    [] red = "explore_eval" ->
         [label : {SLogged(a, One, p) : a \in SLabels, p \in {One \div 2, One \div 4}}, ranking : {Rotated(0), SubSeq(Rotated(1), 1, 2)},
          draw : SDraws, option : {"min", "fixed", "rate"}]
    [] red = "mwt" ->
         [label : {<< >>, <<SLogged(1, One, One \div 2)>>, <<SLogged(SActions, One, One \div 4)>>}, draw : {0}, learn : BOOLEAN, class : {2},
          feats : {{[policy |-> p, action |-> v[p]] : p \in ps} : ps \in SUBSET SPolicies, v \in [SPolicies -> {0, 1, SActions}]}]
    [] red = "slates" ->
         {[label |-> l, layout |-> y.slots, logged |-> [s \in 1..Len(y.ranking) |-> IF g THEN Len(y.ranking[s]) - 1 ELSE 0], ranking |-> y.ranking, draw |-> 0] :
            l \in {<< >>, <<One>>}, g \in BOOLEAN,
            y \in {[slots |-> <<1, 1, 2>>, ranking |-> <<<<1, 0>>, <<2>>>>], [slots |-> <<1, 2, 2>>, ranking |-> <<<<0>>, <<2, 1>>>>],
                   [slots |-> <<1, 2, 2, 3>>, ranking |-> <<<<0>>, <<2, 1>>, <<3>>>>], [slots |-> <<1, 3, 2>>, ranking |-> <<<<0>>, <<2>>>>]}}
    [] red = "igl" -> [label : {SLogged(a, One, One \div 2) : a \in SLabels}, ranking : SRankings, draw : {0}, likely : BOOLEAN, bad : BOOLEAN]
(* One option for a run of explore_eval; the policy that predicts ranks    *)
(* what it ranks.                                                          *)
Sensible(red, in) ==
  /\ red \in Warm => in.first[FindMin(mmem.costs)] = in.ranking[1].action + 1
  /\ red \in Warm \ {"warm"} => in.corrupt = 1
  /\ red = "explore_eval" => (mhist.calls = 0 \/ in.option = mhist.option)
StartLines(red, in) ==
  CASE red = "cbify_ldf" -> [i \in 1..SActions |-> SLine(in.label[i])]
    [] red = "explore_eval" -> EvalLines(in, [i \in 1..SActions |-> [cb |-> << >>, weight |-> One]])
    [] red = "mwt" -> <<SLine(in.feats)>>
    [] red = "slates" -> [i \in 1..(1 + Len(in.layout) + Len(in.ranking)) |-> SLine(i)]
    [] red = "igl" -> Append(Events(in), Observation)
    [] OTHER -> <<SLine(in.label)>>
StartCall(red, in, mem, throws) ==
  [lines |-> StartLines(red, in), mem |-> mem, steps |-> << >>, seeds |-> << >>, pred |-> << >>, throws |-> throws, thrown |-> FALSE]

NoSMem ==
  [counter |-> 0, reported |-> 0, ws_iter |-> 0, inter_iter |-> 0, costs |-> [i \in 1..ChoicesLambda |-> 0],
   multiplier |-> One, sum_p |-> 0, rated |-> 0, violations |-> 0, updates |-> 0,
   total |-> 0, policies |-> << >>, evals |-> [p \in SPolicies |-> 0], votes |-> [p \in SPolicies |-> 0],
   ftrl |-> "ik", loss |-> "pi"]
MInit ==
  /\ mred \in SReductions /\ mmem = NoSMem /\ mlines = << >> /\ mrun = << >>
  /\ mhist = [calls |-> 0, seeds |-> << >>, threw |-> FALSE, option |-> "", ips |-> [i \in 1..ChoicesLambda |-> 0], votes |-> [p \in SPolicies |-> 0]]

(* History: what the importance-weighted sums should be.                   *)
IpsOf(red, mem, in, i) ==
  IF red \in Warm /\ WarmPhase(mem) = "interaction" /\ in.first[i] = AdfChosen(in)
  THEN (Costs01(in.label, AdfChosen(in)) * One) \div in.ranking[DrawnIndex(in)].score ELSE 0
VoteOf(red, in, p) ==
  IF red = "mwt" /\ in.label # << >> /\ [policy |-> p, action |-> in.label[1].action] \in in.feats
  THEN (in.label[1].cost * One) \div in.label[1].p ELSE 0
Remembered(in, st) ==
  [calls |-> mhist.calls + 1, seeds |-> mhist.seeds \o st.seeds, threw |-> mhist.threw \/ st.thrown,
   option |-> IF mred = "explore_eval" THEN in.option ELSE "",
   ips |-> [i \in 1..ChoicesLambda |-> mhist.ips[i] + IpsOf(mred, mmem, in, i)],
   votes |-> [p \in SPolicies |-> mhist.votes[p] + VoteOf(mred, in, p)]]
SCallsOf(red) == IF red \in Warm THEN SMaxCalls + 1 ELSE IF red \in {"mwt", "explore_eval", "igl"} THEN SMaxCalls ELSE 2
SThrows(in) == IF in.draw = 0 THEN {0, 1, 2, 4, 99} ELSE {99}
MCall(is_learn) ==
  /\ mrun = << >> /\ mhist.calls < SCallsOf(mred)
  /\ \E in \in SInputs(mred) :
       /\ Sensible(mred, in)
       /\ \E throws \in SThrows(in) : \E st \in {Simulate(mred, StartCall(mred, in, mmem, throws), in, is_learn)} :
            /\ mlines' = st.lines /\ mmem' = st.mem
            /\ mrun' = [is_learn |-> is_learn, in |-> in, before |-> mmem, steps |-> st.steps, pred |-> st.pred, thrown |-> st.thrown]
            /\ mhist' = Remembered(in, st)
  /\ UNCHANGED mred
MFinish ==
  /\ mrun # << >>
  /\ mlines' = << >> /\ mrun' = << >> /\ UNCHANGED <<mred, mmem, mhist>>
MNext == (\E is_learn \in BOOLEAN : MCall(is_learn)) \/ MFinish
MSpec == MInit /\ [][MNext]_mVars

-----------------------------------------------------------------------------
MTypeOK ==
  /\ mred \in SReductions /\ mhist.calls \in 0..(SMaxCalls + 1) /\ mmem.ws_iter \in 0..WsPeriod /\ mmem.inter_iter \in 0..InterPeriod
  /\ mmem.ftrl \in {"pi", "ik"} /\ mmem.loss \in {"pi", "ik"}

SDone == mrun # << >> /\ ~mrun.thrown
StepsAsked(op) == {k \in 1..Len(mrun.steps) : mrun.steps[k].op = op}
Bandits == {"cbify_mc", "cbify_cs", "cbify_adf", "cbify_adf_cs", "cbify_ldf", "cbify_discrete", "cbify_continuous"} \cup Warm
OneLine == {"cbify_mc", "cbify_cs", "cbify_discrete", "cbify_continuous"}
LabelsSeen(k) == IF mred \in Warm THEN [a \in 1..SActions |-> mrun.steps[k].sees[a].cb] ELSE mrun.steps[k].sees
ClassesInPlace == mred = "cbify_ldf" => \A i \in 1..SActions : mrun.in.label[i].class = i
(* What action a would have cost, by the label of the example.             *)
TrueCost(a) ==
  CASE mred \in {"cbify_cs", "cbify_adf_cs"} -> mrun.in.label[a]
    [] mred = "cbify_ldf" -> mrun.in.label[a].x
    [] mred \in {"cbify_discrete", "cbify_continuous"} -> RegressionLoss(mrun.in.option, a - 1, mrun.in.label)
    [] OTHER -> IF a = (IF WarmPhase(mrun.before) = "warm" /\ mred = "warm_sim" THEN mrun.in.corrupt ELSE mrun.in.label) THEN 0 ELSE One
(* The bandit that cbify and warm_cb play is an honest one: the learner    *)
(* below sees a label only when it is taught, and then on one line, that   *)
(* of the action which is returned as the prediction, with what this       *)
(* action costs and the probability it was drawn with.  For cbify over     *)
(* lines with costs, only if the classes of these are their positions (see *)
(* OwnLineCost).                                                           *)
FeedbackHonest ==
  (SDone /\ mred \in Bandits /\ ClassesInPlace) =>
    /\ \A k \in StepsAsked("predict") : ToSet(mrun.steps[k].sees) = {<< >>}
    /\ \A k \in StepsAsked("learn") :
         \E i \in 1..Len(LabelsSeen(k)) :
           /\ \A j \in 1..Len(LabelsSeen(k)) : LabelsSeen(k)[j] # << >> <=> j = i
           /\ LET c == LabelsSeen(k)[i][1]
              IN  /\ c.action = mrun.pred + (IF mred \in {"cbify_discrete", "cbify_continuous"} THEN 1 ELSE 0)
                  /\ mred \notin OneLine => i = c.action
                  /\ c.cost = TrueCost(c.action) /\ c.p = ScoreOf(mrun.in.ranking, c.action - 1) /\ c.p > 0

(* The example comes back with its label and weight; but warm_cb gives     *)
(* those outside the interaction no weight, and igl leaves the cost it     *)
(* predicted.  After a call that throws only some of the labels are there. *)
LosesLabel == {"cbify_cs", "explore_eval", "mwt", "slates", "igl"} \cup Warm
ExampleBack ==
  /\ (SDone /\ mred \notin {"igl", "cbify_mc"} \cup Warm) => mlines = StartLines(mred, mrun.in)
  /\ (SDone /\ mred \in Warm) =>
       mlines = <<[SLine(mrun.in.label) EXCEPT !.weight = IF WarmPhase(mrun.before) = "interaction" THEN One ELSE 0]>>
  /\ (SDone /\ mred = "igl") =>
       mlines = Append(IF mrun.is_learn THEN [Events(mrun.in) EXCEPT ![mrun.in.label.action].label[1].cost = PredictedCost(mrun.in)] ELSE Events(mrun.in), Observation)
  /\ (mrun # << >> /\ mred \notin LosesLabel) => [i \in 1..Len(mlines) |-> mlines[i].label] = [i \in 1..Len(mlines) |-> StartLines(mred, mrun.in)[i].label]

(* No two examples are drawn with the same seed.                           *)
SeedsOnce == IsInjective(mhist.seeds)

(* The copies of an example share no weight, whatever room the learners    *)
(* below take for each feature.                                            *)
CopiesApart ==
  (mred = "cbify_adf" /\ mhist.calls = 0) =>
    \A n \in 1..4, width \in 1..3 : \A i, j \in {0, 1, 5, 7, 8, 13, 16, 30} : \A a, b \in 0..(n - 1) : \A x, y \in 0..(width - 1) :
      a # b => CopyIndex(i, a, n, width) + x # CopyIndex(j, b, n, width) + y

(* The loss that is reported is that of the value which is returned, in    *)
(* the unit that was asked for.                                            *)
LossInUnit ==
  (SDone /\ mred \in {"cbify_discrete", "cbify_continuous"}) =>
    LET diff == Abs(mrun.in.label - mrun.pred)
    IN  CASE mrun.in.option = "squared" -> mmem.reported = (One * diff * diff) \div (IF mrun.in.report THEN 1 ELSE SActions * SActions)
          [] mrun.in.option = "absolute" -> mmem.reported = (One * diff) \div (IF mrun.in.report THEN 1 ELSE SActions)
          [] OTHER -> mmem.reported = IF diff <= 1 THEN 0 ELSE One

(* cb_to_cb_adf shows a cost on the copy of its action, and no other; an   *)
(* action that does not exist is not learned from.                         *)
CostMoved ==
  mred = "cb_to_cb_adf" /\ mrun # << >> =>
    \A k \in 1..Len(mrun.steps) : \A a \in 1..SActions :
      ToSet(mrun.steps[k].sees[a]) = {c \in ToSet(mrun.in.label) : c.p > 0 /\ c.action = a}

(* cb_actions_mask returns every action once, those of the learner below   *)
(* first and as they were: when it predicts, and when it learns from an    *)
(* example without a label or over a learner that returns a prediction.    *)
MaskComplete ==
  (SDone /\ mred = "actions_mask" /\ (mrun.is_learn => mrun.in.returns \/ mrun.in.label = << >>)) =>
    /\ Len(mrun.pred) = SActions /\ ToSet(ActionsOf(mrun.pred)) = 0..(SActions - 1)
    /\ SubSeq(mrun.pred, 1, Len(mrun.in.ranking)) = mrun.in.ranking /\ SumOf(ScoresOf(mrun.pred)) = SumOf(ScoresOf(mrun.in.ranking))

(* warm_cb compares its policies by the importance-weighted costs of the   *)
(* interaction alone, taken before they learn from it; the weights of warm *)
(* start and interaction add up to the number of examples, whatever        *)
(* lambda; lambdas are different and in order, unless only one of the      *)
(* periods teaches; and a period teaches every policy or none.             *)
PoliciesCompared ==
  mred \in Warm =>
    /\ ~mhist.threw => mmem.costs = mhist.ips
    /\ \A i \in 1..ChoicesLambda : WsPeriod * WeightMultiplier(mred, i, "warm") + InterPeriod * WeightMultiplier(mred, i, "interaction") = One * (WsPeriod + InterPeriod)
    /\ \A n \in 1..5, mid \in {One \div 4, One \div 2}, ends \in BOOLEAN, both \in BOOLEAN :
         LET lambdas == SetupLambdas(n, mid, ends, both, both) IN \A i \in 1..(n - 1) : 0 <= lambdas[i] /\ lambdas[i] < lambdas[i + 1] /\ lambdas[i + 1] <= One
    /\ mrun # << >> => \A k \in StepsAsked("learn") \cup StepsAsked("supervised") :
         \A m \in 1..Len(mrun.steps) : (mrun.steps[m].op = "predict" /\ m > k) => m = Len(mrun.steps)
    /\ (mrun # << >> /\ WarmPhase(mrun.before) = "over") => mrun.steps = << >>
    /\ (SDone /\ WarmPhase(mrun.before) # "over") =>
         {mrun.steps[k].policy : k \in StepsAsked("learn") \cup StepsAsked("supervised")}
           = IF IndUpdate(mred, WarmPhase(mrun.before)) THEN 1..ChoicesLambda ELSE {}

(* explore_eval with neither --multiplier nor --target_rate never has to   *)
(* accept an action with "probability" above 1; under all options, what it *)
(* accepts is learned with the explorer's probability, and with a weight   *)
(* that makes up for a chance above 1.                                     *)
EvaluationFair ==
  mred = "explore_eval" =>
    /\ mhist.option = "min" => mmem.violations = 0
    /\ (mrun # << >> /\ mrun.is_learn) => \A k \in StepsAsked("learn") :
         LET a == mrun.in.label.action
             chance == EvalRated(mrun.in, EvalThreshold(mrun.in, mmem.multiplier), RateOf(mrun.before))
             sees == mrun.steps[k].sees
         IN  /\ sees[a].cb[1].p = ScoreOf(mrun.in.ranking, a - 1) /\ sees[a].cb[1].cost = mrun.in.label.cost
             /\ \A i \in 1..SActions : (sees[i].weight * Min({One, chance})) \div One = chance /\ (i # a => sees[i].cb = << >>)

(* mwt charges a policy for the observed actions that it named in that     *)
(* very example, and reports the average; it shows different choices as    *)
(* different features, but that the value 0, which is no action, is the    *)
(* last action of the policy before.                                       *)
PoliciesValued ==
  mred = "mwt" =>
    /\ mmem.evals = mhist.votes
    /\ SDone => \A k \in 1..Len(mmem.policies) :
         mrun.pred[k + (IF mrun.in.learn THEN 1 ELSE 0)] = mhist.votes[mmem.policies[k]] \div mmem.total
    /\ mrun # << >> => \A f, g \in mrun.in.feats :
         (f # g /\ MwtIndex(f) = MwtIndex(g)) => {f.action, g.action} = {0, SActions}

(* slates: with the actions in the order of their slots, every slot gets   *)
(* the numbers its actions have among its own, and learns from an action   *)
(* that it has.                                                            *)
SlotsLocal ==
  (SDone /\ mred = "slates") =>
    \A s \in 1..Len(mrun.in.ranking) :
      /\ \A k \in 1..Len(mrun.pred[s]) : mrun.pred[s][k] + 1 \in DOMAIN Pool(mrun.in.layout, s) /\ Pool(mrun.in.layout, s)[mrun.pred[s][k] + 1] = mrun.in.ranking[s][k]
      /\ \A k \in 1..Len(mrun.steps) : \A c \in ToSet(mrun.steps[k].sees[s].outcome) : c.action \in mrun.steps[k].sees[s].included

(* igl: the policy and ik are asked and taught with their own state, loss  *)
(* and weights, as long as nothing throws in between; and ik learns from   *)
(* both classes as much as the prior says, whatever the policy plays.      *)
LearnersApart ==
  mred = "igl" =>
    /\ ~mhist.threw => mmem.ftrl = "ik" /\ mmem.loss = "pi"
    /\ (mrun # << >> /\ (mhist.threw => mrun.before.ftrl = "ik" /\ mrun.before.loss = "pi")) =>
         \A k \in 1..Len(mrun.steps) :
           LET own == IF mrun.steps[k].op = "ik" THEN "ik" ELSE "pi"
           IN  mrun.steps[k].sees.ftrl = own /\ mrun.steps[k].sees.loss = own /\ mrun.steps[k].policy = (IF own = "pi" THEN 1 ELSE 0)
    /\ mrun # << >> => \A k \in StepsAsked("ik") :
         LET x == mrun.steps[k].sees.sees
             p == ScoreOf(mrun.in.ranking, x.line - 1)
         IN  IF x.label = 1 THEN (x.weight \div 4) * p = (One \div 4) * (One \div 4) ELSE (x.weight \div 4) * (One - p) = 3 * (One \div 4) * (One \div 4)

(* The cost of the line that was drawn is the one this line has: not when  *)
(* the classes of the labels are not the positions of the lines, although  *)
(* nothing asks for that.                                                  *)
OwnLineCost ==
  (SDone /\ mred = "cbify_ldf") => \A k \in StepsAsked("learn") : \A i \in 1..SActions : \A c \in ToSet(LabelsSeen(k)[i]) : c.cost = mrun.in.label[i].x
=============================================================================

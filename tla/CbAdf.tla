-------------------------------- MODULE CbAdf --------------------------------
(* Learning from logged actions: cb_adf turns the cost of the one action   *)
(* that was taken into costs of all of them (ips, dm, dr) or into a        *)
(* weighted line (mtr, sm), and csoaa_ldf, below it, turns those into      *)
(* calls of the learner for one line; cb does it for a fixed number of     *)
(* actions.  Labels, weights and offsets of the lines are borrowed on the  *)
(* way, and any call below may throw.  Costs, scores and weights are in    *)
(* parts of One.                                                           *)
EXTENDS Explore

CONSTANTS
  ASizes,        \* numbers of lines
  ATypes,        \* cb_type, or what csoaa_ldf does alone
  AOffsets,      \* models: the offsets an example may come with, from 0
  AClip,         \* --clip_p
  AMaxLearns     \* bound: examples learned

ASSUME AAssumption == ASizes \subseteq Nat \ {0} /\ 0 \in AOffsets /\ AOffsets \subseteq Nat /\ AMaxLearns \in Nat

VARIABLES
  atype,    \* the type
  amem,     \* event_sum and action_sum per model, known_cost, pred_scores
  alines,   \* the lines of the example
  apred,    \* its prediction
  arun,     \* << >>, or the last call
  agiven    \* history: what each model learned

aVars == <<atype, amem, alines, apred, arun, agiven>>

MAX == 1000 * One                 \* FLT_MAX
ALine(cb, cs, weight, offset) == [cb |-> cb, cs |-> cs, weight |-> weight, offset |-> offset]
NoCb == [cost |-> MAX, p |-> -1]
HasCost(line) == line.cb # NoCb
LoggedLines(lines) == {i \in 1..Len(lines) : HasCost(lines[i])}
KnownCost(lines) ==
  IF LoggedLines(lines) = {} THEN [action |-> 0, cost |-> MAX, p |-> -1]
  ELSE LET i == Max(LoggedLines(lines)) IN [action |-> i, cost |-> lines[i].cb.cost, p |-> lines[i].cb.p]

-----------------------------------------------------------------------------
(* A call in progress: the lines, what was asked of the learner below, and *)
(* after how many of these calls one throws.  After that only guards run.  *)
Call(st, op, i, policy, label, minus) ==
  IF st.thrown THEN st
  ELSE IF Len(st.steps) = st.throws THEN [st EXCEPT !.thrown = TRUE]
  ELSE [st EXCEPT !.steps = Append(@, [op |-> op, line |-> i, policy |-> policy, offset |-> st.lines[i].offset,
                                       label |-> label, weight |-> st.lines[i].weight, minus |-> minus])]
Unless(st, next) == IF st.thrown THEN st ELSE next
EachLine(st, Body(_, _)) == FoldLeft(Body, st, Indices(st.lines))
(* A line is set back after a call that returned.                          *)
SetBack(called, st, i) == IF st.thrown THEN st ELSE IF called.thrown THEN called ELSE [called EXCEPT !.lines[i] = st.lines[i]]
SetLine(st, i, line) == [st EXCEPT !.lines[i] = line]

(* csoaa_ldf.  data.ft_offset is the offset of the first line.             *)
make_single_prediction(st, i, ft_offset) ==
  LET line == st.lines[i]
  IN  SetLine(Call(SetLine(st, i, [line EXCEPT !.offset = ft_offset]), "predict", i, 0, MAX, 0), i, line)
LdfRanked(st) == [st EXCEPT !.pred = IF st.thrown THEN << >> ELSE Ranked([a \in 0..(Len(st.lines) - 1) |-> st.scores[a + 1]])]
LdfPredict(st) == LdfRanked(EachLine(st, LAMBDA s, i : make_single_prediction(s, i, st.lines[1].offset)))
test_ldf_sequence(lines) == \E i \in 1..Len(lines) : lines[i].cs = MAX

MinCost(lines) == Min({lines[i].cs : i \in 1..Len(lines)})
MaxCost(lines) == Max({lines[i].cs : i \in 1..Len(lines)})
OaaLabel(classifier, line, lines) == IF ~classifier THEN line.cs ELSE IF line.cs <= MinCost(lines) THEN -One ELSE One
(* Slip: the cheapest line has no weight.                                  *)
OaaWeight_Slip(classifier, line, lines) == IF ~classifier THEN line.weight ELSE (line.weight * (MaxCost(lines) - line.cs)) \div One
OaaWeight(classifier, line, lines) ==
  IF ~classifier THEN line.weight
  ELSE (line.weight * (IF line.cs <= MinCost(lines) THEN MaxCost(lines) - MinCost(lines) ELSE line.cs - MinCost(lines))) \div One
do_actual_learning_oaa(classifier, st, ft_offset) ==
  EachLine(st, LAMBDA s, i :
    LET line == st.lines[i]
    IN  Unless(s, SetLine(Call(SetLine(s, i, [line EXCEPT !.offset = ft_offset, !.weight = OaaWeight(classifier, line, st.lines)]),
                               "learn", i, 0, OaaLabel(classifier, line, st.lines), 0), i, line)))

(* wap: pairs of lines, the features of one less those of the other.       *)
ByCost(lines) == SortSeq(Indices(lines), LAMBDA i, j : lines[i].cs < lines[j].cs \/ (lines[i].cs = lines[j].cs /\ i < j))
(* Slip: divided by one more.                                              *)
WapStep_Slip(lines, order, k) == (lines[order[k]].cs - lines[order[k - 1]].cs) \div k
WapStep(lines, order, k) == (lines[order[k]].cs - lines[order[k - 1]].cs) \div (k - 1)
compute_wap_values(lines) ==
  LET order == ByCost(lines)
      rank(i) == CHOOSE k \in 1..Len(order) : order[k] = i
  IN  [i \in 1..Len(lines) |-> SumOf([k \in 1..(rank(i) - 1) |-> WapStep(lines, order, k + 1)])]
WapPair(st, ft_offset, value, i, j) ==
  LET line == st.lines[i]
      diff == IF value[i] > value[j] THEN value[i] - value[j] ELSE value[j] - value[i]
  IN  IF st.thrown \/ diff = 0 THEN st
      ELSE SetLine(Call(SetLine(st, i, [line EXCEPT !.offset = ft_offset, !.weight = diff]), "learn", i, 0,
                        IF line.cs < st.lines[j].cs THEN -One ELSE One, j), i, line)
do_actual_learning_wap(st, ft_offset, value) ==
  EachLine(st, LAMBDA s, i : FoldLeft(LAMBDA t, j : IF j > i THEN WapPair(t, ft_offset, value, i, j) ELSE t, s, Indices(st.lines)))

LdfLearn(kind, st) ==
  IF test_ldf_sequence(st.lines) THEN st
  ELSE IF kind = "wap" THEN do_actual_learning_wap(st, st.lines[1].offset, compute_wap_values(st.lines))
  ELSE do_actual_learning_oaa(kind = "classifier", st, st.lines[1].offset)

(* cs_ldf_learn_or_predict: cost-sensitive labels are put on the lines,    *)
(* and the bandit ones back by a guard.                                    *)
cs_prep_labels(st, costs, offset) ==
  [st EXCEPT !.lines = [i \in 1..Len(st.lines) |-> [st.lines[i] EXCEPT !.cb = NoCb, !.cs = costs[i], !.offset = offset]]]
(* Slip: without the guard.                                                *)
RestoreCb_Slip(st, lines, offset) ==
  IF st.thrown THEN st ELSE [st EXCEPT !.lines = [i \in 1..Len(lines) |-> [st.lines[i] EXCEPT !.cb = lines[i].cb, !.cs = MAX, !.offset = offset]]]
RestoreCb(st, lines, offset) ==
  [st EXCEPT !.lines = [i \in 1..Len(lines) |-> [st.lines[i] EXCEPT !.cb = lines[i].cb, !.cs = MAX, !.offset = offset]]]
LdfPredicts(asked, st) == IF asked THEN LdfPredict(st) ELSE st
LdfLearns(asked, st) == IF asked /\ ~st.thrown THEN LdfLearn("oaa", st) ELSE st
cs_ldf_learn_or_predict(is_learn, predict_first, st, costs, offset) ==
  IF st.thrown THEN st
  ELSE RestoreCb(LdfLearns(is_learn, LdfPredicts(~is_learn \/ predict_first, cs_prep_labels(st, costs, offset))), st.lines, offset)

-----------------------------------------------------------------------------
(* The costs that are made up.                                             *)
gen_cs_test_example(lines) == [i \in 1..Len(lines) |-> MAX]
(* Slip: probabilities below 1/2 are taken for 1/2.                        *)
gen_cs_example_ips_Slip(lines, clip_p) ==
  [i \in 1..Len(lines) |-> IF HasCost(lines[i]) THEN (lines[i].cb.cost * One) \div Max({lines[i].cb.p, One \div 2}) ELSE 0]
gen_cs_example_ips(lines, clip_p) ==
  [i \in 1..Len(lines) |-> IF HasCost(lines[i]) THEN (lines[i].cb.cost * One) \div Max({lines[i].cb.p, clip_p}) ELSE 0]
gen_cs_example_dm(lines) == [i \in 1..Len(lines) |-> IF HasCost(lines[i]) THEN lines[i].cb.cost ELSE 0]
(* Slip: the correction leaves the score out.                              *)
DrOf_Slip(lines, regressor, i, clip_p) ==
  regressor[i] + (IF HasCost(lines[i]) THEN (lines[i].cb.cost * One) \div Max({lines[i].cb.p, clip_p}) ELSE 0)
DrOf(lines, regressor, i, clip_p) ==
  regressor[i] + (IF HasCost(lines[i]) THEN ((lines[i].cb.cost - regressor[i]) * One) \div Max({lines[i].cb.p, clip_p}) ELSE 0)
gen_cs_example_dr(lines, regressor, clip_p) == [i \in 1..Len(lines) |-> DrOf(lines, regressor, i, clip_p)]
(* get_cost_pred: the regressor is policy 1.  A line without a cost is     *)
(* "learned" with the default label, which the scorer takes as a test, at  *)
(* the weight -1.  No guard.                                               *)
get_cost_pred(st, i) ==
  LET line == st.lines[i]
  IN  SetBack(Call(SetLine(st, i, [line EXCEPT !.weight = (@ * One) \div (IF HasCost(line) THEN line.cb.p ELSE -One)]),
                   IF HasCost(line) THEN "learn" ELSE "predict", i, 1, line.cb.cost, 0), st, i)

(* cb_adf::learn.                                                          *)
learn_ips(st, offset, clip_p) == cs_ldf_learn_or_predict(TRUE, TRUE, st, gen_cs_example_ips(st.lines, clip_p), offset)
learn_dm(st, offset) == cs_ldf_learn_or_predict(TRUE, TRUE, st, gen_cs_example_dm(st.lines), offset)
learn_dr(st, offset, clip_p) ==
  cs_ldf_learn_or_predict(TRUE, TRUE, EachLine([st EXCEPT !.mem.pred_scores = st.regressor], get_cost_pred),
                          gen_cs_example_dr(st.lines, st.regressor, clip_p), offset)
(* mtr: the line that was taken alone, its weight by the inverse of its    *)
(* probability and of the average number of lines.                         *)
(* Slip: the same counters for all models.                                 *)
MtrCount_Slip(mem, offset, n) == [mem EXCEPT !.event_sum = [o \in AOffsets |-> @[o] + 1], !.action_sum = [o \in AOffsets |-> @[o] + n]]
MtrCount(mem, offset, n) == [mem EXCEPT !.event_sum[offset] = @ + 1, !.action_sum[offset] = @ + n]
MtrWeight(line, mem, offset, clip_p) == (((line.weight * One) \div Max({line.cb.p, clip_p})) * mem.event_sum[offset]) \div mem.action_sum[offset]
MtrTaught(called, st, i) ==
  IF called.thrown THEN [called EXCEPT !.pred = << >>, !.lines[i].cb = st.lines[i].cb, !.lines[i].cs = MAX]
  ELSE [called EXCEPT !.lines[i] = st.lines[i]]
MtrAlone(st, i, offset, mem, clip_p) ==
  LET line == st.lines[i]
  IN  IF st.thrown THEN st
      ELSE MtrTaught(Call([st EXCEPT !.mem = mem, !.lines[i] = [line EXCEPT !.cb = NoCb, !.cs = line.cb.cost, !.offset = offset,
                                                                            !.weight = MtrWeight(line, mem, offset, clip_p)]],
                          "learn", i, 0, line.cb.cost, 0), st, i)
learn_mtr(predict, st, offset, clip_p) ==
  MtrAlone(IF predict THEN cs_ldf_learn_or_predict(FALSE, FALSE, st, gen_cs_example_ips(st.lines, 0), offset) ELSE st,
           Min(LoggedLines(st.lines)), offset, MtrCount(st.mem, offset, Len(st.lines)), clip_p)
(* sm: the line that was taken is moved by the sign of its cost, all       *)
(* others against it, as much as the softmax policy would play them.  The  *)
(* targets are in the order of the ranking, the lines in their own.        *)
Capped(x) == Max({-100 * One, Min({x, 100 * One})})
gen_cs_example_sm(chosen, sign, ranking) ==
  [k \in 1..Len(ranking) |-> Capped(ranking[k].score + (IF ranking[k].action + 1 = chosen THEN sign ELSE -sign))]
SmWeights(lines, chosen, prob) ==
  LET size == ((IF lines[chosen].cb.cost < 0 THEN -lines[chosen].cb.cost ELSE lines[chosen].cb.cost) * One) \div lines[chosen].cb.p
      own == (size * prob[chosen]) \div One
  IN  [i \in 1..Len(lines) |-> (lines[i].weight * ((own * (IF i = chosen THEN One - prob[i] ELSE prob[i])) \div One)) \div One]
SmWeighted(st, weights) == [st EXCEPT !.lines = [i \in 1..Len(st.lines) |-> [st.lines[i] EXCEPT !.weight = weights[i]]]]
SmSetBack(taught, lines) ==
  IF taught.thrown THEN taught
  ELSE [taught EXCEPT !.lines = [i \in 1..Len(lines) |-> [taught.lines[i] EXCEPT !.weight = lines[i].weight]]]
SmTaught(st, offset, chosen, prob) ==
  IF st.thrown THEN st
  ELSE SmSetBack(cs_ldf_learn_or_predict(TRUE, FALSE, SmWeighted(st, SmWeights(st.lines, chosen, prob)),
                   gen_cs_example_sm(chosen, IF st.lines[chosen].cb.cost < 0 THEN -One ELSE One, st.pred), offset), st.lines)
learn_sm(st, offset) ==
  SmTaught(cs_ldf_learn_or_predict(FALSE, FALSE, st, gen_cs_test_example(st.lines), offset), offset, Min(LoggedLines(st.lines)),
           generate_softmax([i \in 1..Len(st.lines) |-> st.scores[i] \div One]))
cb_adf_learn(type, st, offset) ==
  CASE type = "ips" -> learn_ips(st, offset, AClip)
    [] type = "dm" -> learn_dm(st, offset)
    [] type = "dr" -> learn_dr(st, offset, AClip)
    [] type = "sm" -> learn_sm(st, offset)
    [] OTHER -> learn_mtr(type = "mtr", st, offset, AClip)
cb_adf_predict(st, offset) == cs_ldf_learn_or_predict(FALSE, FALSE, st, gen_cs_test_example(st.lines), offset)

-----------------------------------------------------------------------------
(* cb: one example (line 1 stands for it) and as many actions as there are *)
(* labels.  The regressor of an action has a policy of its own; the direct *)
(* method has no other policies.  Nothing is guarded.                      *)
(* Slip: dr's regressors start at 0.                                       *)
FirstRegressor_Slip(type, n) == 0
FirstRegressor(type, n) == IF type = "cb_dr" THEN n ELSE 0
PlainCostPred(type, is_learn, known, st, i) ==
  LET learn == is_learn /\ known.action = i
  IN  SetBack(Call(SetLine(st, 1, [st.lines[1] EXCEPT !.weight = IF learn THEN (@ * One) \div known.p ELSE @]), IF learn THEN "learn" ELSE "predict",
                   1, FirstRegressor(type, Len(st.lines)) + i - 1, IF known.action = i THEN known.cost ELSE MAX, 0), st, 1)
PlainCosts(type, st, known) ==
  CASE type = "cb_ips" -> gen_cs_example_ips(st.lines, 0)
    [] type = "cb_dr" -> IF known.p > 0 THEN gen_cs_example_dr(st.lines, st.regressor, 0) ELSE gen_cs_test_example(st.lines)
    [] OTHER -> st.regressor
PlainScored(type, is_learn, st, known) ==
  IF type = "cb_ips" \/ (type = "cb_dr" /\ known.p < 0) THEN st
  ELSE EachLine([st EXCEPT !.mem.pred_scores = st.regressor], LAMBDA s, i : PlainCostPred(type, is_learn, known, s, i))
PlainChosen(st, best) ==
  IF st.thrown THEN st ELSE [st EXCEPT !.pred = <<Pair(Min({i \in 1..Len(best) : best[i] = Min(ToSet(best))}) - 1, 0)>>]
PlainBase(type, is_learn, st, costs) ==
  IF type = "cb_dm" THEN st ELSE Call(st, IF is_learn THEN "cs_learn" ELSE "cs_predict", 1, 0, costs, 0)
PlainCb(type, is_learn, st, known) ==
  PlainChosen(PlainBase(type, is_learn, PlainScored(type, is_learn, st, known), PlainCosts(type, st, known)),
              IF type = "cb_dm" THEN st.regressor ELSE st.scores)

-----------------------------------------------------------------------------
LdfKinds == {"oaa", "classifier", "wap"}
PlainTypes == {"cb_ips", "cb_dm", "cb_dr"}
(* learn_returns_prediction: all but mtr with --no_predict.  The workspace *)
(* predicts first for what does not, and keeps that prediction.            *)
CbRank(type, is_learn, st, offset, labelled) ==
  IF type \in LdfKinds THEN LdfPredict(st)
  ELSE IF is_learn /\ labelled /\ type # "mtr_no_predict" THEN st ELSE cb_adf_predict(st, offset)
CbTeach(type, st, offset, labelled) ==
  IF st.thrown THEN st
  ELSE IF type \in LdfKinds THEN LdfLearn(type, st)
  ELSE IF labelled THEN cb_adf_learn(type, st, offset) ELSE st
PlainPasses(type, is_learn, st, known) ==
  FoldLeft(LAMBDA s, learn : IF s.thrown THEN s ELSE PlainCb(type, learn, s, known), st, IF is_learn THEN <<FALSE, TRUE>> ELSE <<FALSE>>)
CbCallWith(type, is_learn, st, offset, known) ==
  IF type \in PlainTypes THEN PlainPasses(type, is_learn, st, known)
  ELSE IF is_learn THEN CbTeach(type, CbRank(type, TRUE, st, offset, known.p > 0), offset, known.p > 0)
  ELSE CbRank(type, FALSE, st, offset, FALSE)
CbCall(type, is_learn, st, offset) == CbCallWith(type, is_learn, [st EXCEPT !.mem.known = KnownCost(st.lines)], offset, KnownCost(st.lines))

(* What is given.                                                          *)
Probability == One \div 4
Units == {0, One}
LinesOf(type, n, offset) ==
  IF type \in LdfKinds
  THEN {[i \in 1..n |-> ALine(NoCb, c[i], One, offset)] : c \in [1..n -> {0, One, 2 * One}] \union {[i \in 1..n |-> IF i = n THEN MAX ELSE 0]}}
  ELSE {[i \in 1..n |-> ALine(NoCb, MAX, One, offset)]} \union
       {[i \in 1..n |-> ALine(IF i = k THEN [cost |-> c, p |-> Probability] ELSE NoCb, MAX, One, offset)] : k \in 1..n, c \in {-One, One}}
Fresh(lines, scores, regressor, throws, mem) ==
  [lines |-> lines, scores |-> scores, regressor |-> regressor, throws |-> throws, thrown |-> FALSE, steps |-> << >>, pred |-> << >>, mem |-> mem]
Regressors(type, n) == IF type \in {"dr", "cb_dm", "cb_dr"} THEN [1..n -> Units] ELSE {[i \in 1..n |-> 0]}
(* Where all scores are the same, call 0, 1, 2 or 3 of those below throws, *)
(* if there are so many.                                                   *)
Throws(scores) == IF \A i \in 1..Len(scores) : scores[i] = 0 THEN {0, 1, 2, 3, 99} ELSE {99}

AReady == arun = << >>
ZeroPerModel == [o \in AOffsets |-> 0]
AInit ==
  /\ atype \in ATypes
  /\ amem = [event_sum |-> ZeroPerModel, action_sum |-> ZeroPerModel, known |-> KnownCost(<< >>), pred_scores |-> << >>]
  /\ alines = << >> /\ apred = << >> /\ arun = << >> /\ agiven = [learned |-> 0, events |-> ZeroPerModel, actions |-> ZeroPerModel]
AEnd(is_learn, lines, st) ==
  /\ alines' = st.lines /\ apred' = st.pred /\ amem' = st.mem
  /\ arun' = [thrown |-> st.thrown, is_learn |-> is_learn, lines |-> lines, scores |-> st.scores, regressor |-> st.regressor, steps |-> st.steps]
ACall(is_learn) ==
  /\ AReady /\ agiven.learned < AMaxLearns
  /\ \E n \in ASizes, offset \in AOffsets : \E lines \in LinesOf(atype, n, offset) :
       /\ (atype \in PlainTypes /\ is_learn) => LoggedLines(lines) # {}
       /\ \E scores \in [1..n -> Units], regressor \in Regressors(atype, n) : \E throws \in Throws(scores) :
            AEnd(is_learn, lines, CbCall(atype, is_learn, Fresh(lines, scores, regressor, throws, amem), offset))
       /\ agiven' = IF ~is_learn THEN agiven
                    ELSE [agiven EXCEPT !.learned = @ + 1,
                            !.events[offset] = @ + (IF LoggedLines(lines) # {} THEN 1 ELSE 0), !.actions[offset] = @ + (IF LoggedLines(lines) # {} THEN n ELSE 0)]
  /\ UNCHANGED atype
(* The next example.  known_cost is set anew by every call.                *)
AFinish ==
  /\ ~AReady
  /\ alines' = << >> /\ apred' = << >> /\ arun' = << >>
  /\ amem' = [amem EXCEPT !.known = KnownCost(<< >>)]
  /\ UNCHANGED <<atype, agiven>>
(* Saved and loaded: the counters of the first model, or of all.           *)
AReload(per_model) ==
  /\ AReady /\ atype = "mtr"
  /\ amem' = [amem EXCEPT !.pred_scores = << >>,
                          !.event_sum = [o \in AOffsets |-> IF per_model \/ o = 0 THEN @[o] ELSE 0],
                          !.action_sum = [o \in AOffsets |-> IF per_model \/ o = 0 THEN @[o] ELSE 0]]
  /\ UNCHANGED <<atype, alines, apred, arun, agiven>>
ANext == (\E is_learn \in BOOLEAN : ACall(is_learn)) \/ AFinish \/ (\E per_model \in BOOLEAN : AReload(per_model))
ASpec == AInit /\ [][ANext]_aVars

-----------------------------------------------------------------------------
ATypeOK ==
  /\ atype \in ATypes /\ amem.event_sum \in [AOffsets -> Nat] /\ amem.action_sum \in [AOffsets -> Nat]
  /\ agiven.learned \in 0..AMaxLearns

ADone == ~AReady /\ ~arun.thrown
ALearnt == {i \in 1..(IF AReady THEN 0 ELSE Len(arun.steps)) : arun.steps[i].op = "learn"}

(* The lines come back as they were given: labels, weights and offsets.    *)
(* When a call throws, guards put labels and offsets back; the weight of a *)
(* line of mtr, sm, dr and cb is then lost.                                *)
Unguarded == {"mtr", "mtr_no_predict", "sm", "dr"} \union PlainTypes
LinesBack ==
  ~AReady => \A i \in 1..Len(alines) :
     /\ alines[i].cb = arun.lines[i].cb /\ alines[i].offset = arun.lines[i].offset /\ alines[i].cs = arun.lines[i].cs
     /\ (ADone \/ atype \notin Unguarded) => alines[i].weight = arun.lines[i].weight

(* Whatever the regressor says, what the policy is taught of an action,    *)
(* averaged over the actions that might have been taken, is what it costs: *)
(* for ips and dr; for mtr up to the average number of lines.              *)
Truths(n) == [1..n -> Units]
Taken(n) == [i \in 1..n |-> IF n = 1 THEN One ELSE IF i = 1 THEN One \div 2 ELSE Probability]
TaughtTo(steps, a) ==
  SumOf([k \in 1..Len(steps) |-> IF steps[k].op = "learn" /\ steps[k].policy = 0 /\ steps[k].line = a THEN (steps[k].label * steps[k].weight) \div One ELSE 0])
TaughtOf(type, n, truth, regressor, l, a) ==
  TaughtTo(CbCall(type, TRUE, Fresh([i \in 1..n |-> ALine(IF i = l THEN [cost |-> truth[i], p |-> Taken(n)[i]] ELSE NoCb, MAX, One, 0)], truth, regressor, 99, amem), 0).steps, a)
Unbiased ==
  (AReady /\ agiven.learned = 0 /\ atype \in {"ips", "dr", "mtr"}) =>
     \A n \in ASizes \ {2} : \A truth \in Truths(n), regressor \in Regressors(atype, n) : \A a \in 1..n :
       LET expected == SumOf([l \in 1..n |-> (Taken(n)[l] * (TaughtOf(atype, n, truth, regressor, l, a) \div 4)) \div (One \div 4)])
       IN  (IF atype = "mtr" THEN n ELSE 1) * expected = truth[a]

(* The policy learns at the offset of the example: every line once, the    *)
(* regressor beside it; mtr the line that was taken and no other.  No      *)
(* regressor shares the weights of a policy.                               *)
TaughtInPlace ==
  ADone =>
    /\ \A k \in ALearnt : arun.steps[k].offset = arun.lines[1].offset
    /\ ~arun.is_learn => ALearnt = {}
    /\ (arun.is_learn /\ LoggedLines(arun.lines) # {} /\ atype \notin PlainTypes) =>
         LET of(p) == {k \in ALearnt : arun.steps[k].policy = p}
             linesOf(p) == {arun.steps[k].line : k \in of(p)}
         IN  /\ Cardinality(of(0)) = Cardinality(linesOf(0))
             /\ linesOf(0) = IF atype \in {"mtr", "mtr_no_predict"} THEN LoggedLines(arun.lines) ELSE 1..Len(arun.lines)
             /\ linesOf(1) = IF atype = "dr" THEN LoggedLines(arun.lines) ELSE {}
    /\ atype = "cb_dr" => \A k \in 1..Len(arun.steps) : arun.steps[k].op \in {"learn", "predict"} => arun.steps[k].policy \in Len(arun.lines)..(2 * Len(arun.lines) - 1)

(* csoaa_ldf as a classifier and by pairs: what a line is charged with is  *)
(* what it costs more than the best one, and a line that costs more is     *)
(* never taught as the better one.                                         *)
RegretOf(i) == arun.lines[i].cs - MinCost(arun.lines)
ChargedTo(i) ==
  SumOf([k \in 1..Len(arun.steps) |->
    LET s == arun.steps[k]
    IN  IF s.op = "learn" /\ (IF s.minus = 0 THEN s.line = i /\ s.label > 0 ELSE i = (IF s.label > 0 THEN s.line ELSE s.minus)) THEN s.weight ELSE 0])
RegretsTaught ==
  (ADone /\ arun.is_learn /\ atype \in {"classifier", "wap"}) =>
    IF \E i \in 1..Len(arun.lines) : arun.lines[i].cs = MAX THEN ALearnt = {}
    ELSE /\ \A i \in 1..Len(arun.lines) : ChargedTo(i) = RegretOf(i)
         /\ \A k \in ALearnt : arun.steps[k].weight >= 0 /\ (arun.steps[k].minus > 0 =>
              (arun.lines[arun.steps[k].line].cs < arun.lines[arun.steps[k].minus].cs) = (arun.steps[k].label < 0))
         /\ atype = "classifier" => \A i \in 1..Len(arun.lines) : RegretOf(i) = 0 =>
              \E k \in ALearnt : arun.steps[k].line = i /\ arun.steps[k].label < 0 /\ arun.steps[k].weight = MaxCost(arun.lines) - MinCost(arun.lines)

(* What is returned is the ranking before anything was taught.             *)
RankedBefore ==
  (ADone /\ atype \notin PlainTypes) =>
     /\ Len(apred) = Len(arun.lines)
     /\ \A i, j \in 1..Len(apred) : i < j => apred[i].score <= apred[j].score
     /\ \A x \in ToSet(apred) : x.score = arun.scores[x.action + 1]
     /\ \A k \in ALearnt, m \in 1..Len(arun.steps) :
          (arun.steps[m].op = "predict" /\ arun.steps[m].policy = 0 /\ arun.steps[k].policy = 0) => m < k

(* The statistics of an example that was learned: the doubly robust or the *)
(* importance-weighted estimate of the action that is predicted.           *)
StatLoss == LET a == apred[1].action + 1
                ips(x) == IF a = amem.known.action THEN ((amem.known.cost - x) * One) \div amem.known.p ELSE 0
            IN  IF a \in 1..Len(amem.pred_scores) THEN ips(amem.pred_scores[a]) + amem.pred_scores[a] ELSE ips(0)
LossEstimated ==
  (ADone /\ arun.is_learn /\ LoggedLines(arun.lines) # {} /\ atype # "cb_dm") =>
     LET a == apred[1].action + 1
         x == IF atype \in {"dr", "cb_dr"} THEN arun.regressor[a] ELSE 0
     IN  StatLoss = x + (IF HasCost(arun.lines[a]) THEN ((arun.lines[a].cb.cost - x) * One) \div arun.lines[a].cb.p ELSE 0)
(* mtr counts the events and lines of every model by itself; what a model  *)
(* has counted is never more than it learned.  It may be less, after a     *)
(* call that threw before it was counted or a model that was loaded.       *)
CountedApart ==
  atype \in {"mtr", "mtr_no_predict"} =>
    \A o \in AOffsets : /\ amem.event_sum[o] <= agiven.events[o] /\ amem.action_sum[o] <= agiven.actions[o]
                        /\ amem.event_sum[o] <= amem.action_sum[o]
(* What the comment on sm says, "use sign(w) as an offset in the           *)
(* regression target": every line is moved away from its own score.  The   *)
(* targets are handed out in the order of the ranking, and the lines are   *)
(* not in that order.                                                      *)
TargetsOfOwnScores ==
  (ADone /\ atype = "sm") => \A k \in ALearnt : \E d \in {-One, One} : arun.steps[k].label = arun.scores[arun.steps[k].line] + d
(* The estimate of a labelled example that is only predicted uses the      *)
(* regressor's answers for the last one that was learned.                  *)
PredictedLossFresh ==
  (ADone /\ ~arun.is_learn /\ atype = "dr" /\ LoggedLines(arun.lines) # {}) => amem.pred_scores \in {<< >>, arun.regressor}

(* All of it, for the run.                                                 *)
LoggedLearningSound ==
  ATypeOK /\ LinesBack /\ Unbiased /\ TaughtInPlace /\ RegretsTaught /\ RankedBefore /\ LossEstimated /\ CountedApart
==============================================================================

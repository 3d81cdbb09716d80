------------------------------ MODULE CbExplore ------------------------------
(* Exploration over the actions of an example: cb_explore_adf with its     *)
(* explorers, cb_explore for a fixed number of actions, and cb_sample,     *)
(* which draws one.  An explorer calls policies below (offsets of the      *)
(* learner below), makes probabilities out of their rankings, and teaches  *)
(* them the logged cost.  Any call may throw.                              *)
EXTENDS Explore

CONSTANTS
  XSizes,        \* numbers of actions
  XPolicies,     \* policies of bag and cover
  XEpsilon,      \* --epsilon, in parts of One
  XExplorers,    \* the explorers that are driven
  XMaxEvents     \* bound: examples of those that remember something

ASSUME XAssumption ==
  /\ XSizes \subseteq Nat \ {0} /\ XPolicies \in Nat \ {0} /\ XMaxEvents \in Nat
  /\ XEpsilon \in 0..One /\ \A n \in XSizes : XEpsilon % n = 0

VARIABLES
  xred,     \* the explorer
  xcount,   \* examples so far
  xmem,     \* what the explorer and its base class remember
  xlab,     \* labels of the lines of the example
  xpred,    \* its prediction
  xrun      \* << >>, or the last call: what was given, the answers and what happened

xVars == <<xred, xcount, xmem, xlab, xpred, xrun>>

-----------------------------------------------------------------------------
(* Labels: lab[a] is the cost and the probability of line a.               *)
NoCost == [cost |-> 0, p |-> 0]
Unlabelled(n) == [a \in 0..(n - 1) |-> NoCost]
LabelledLines(lab) == {a \in DOMAIN lab : lab[a] # NoCost}
Size(lab) == Cardinality(DOMAIN lab)
(* Two lines with costs: refused.                                          *)
test_cb_adf_sequence(lab) == Cardinality(LabelledLines(lab)) <= 1
NoKnownCost == [action |-> 0, cost |-> 0, p |-> -1]
get_observed_cost_or_default_cb_adf(lab) ==
  IF LabelledLines(lab) = {} THEN NoKnownCost
  ELSE LET a == Max(LabelledLines(lab)) IN [action |-> a, cost |-> lab[a].cost, p |-> lab[a].p]

(* Steps.  A learner is the cb learner below, the cost-sensitive one under *)
(* it or the scorer of costs.  Policy id answers b.p[id], in one call. *)
Step(learner, op, id, lab, costs) == <<[learner |-> learner, op |-> op, id |-> id, lab |-> lab, costs |-> costs]>>
Base(is_learn, id, lab) == Step("cb", IF is_learn THEN "learn" ELSE "predict", id, lab, << >>)
CostSensitive(is_learn, id, lab, costs) ==
  (IF is_learn THEN Step("cs", "predict", id, lab, << >>) ELSE << >>) \o
  Step("cs", IF is_learn THEN "learn" ELSE "predict", id, lab, IF is_learn THEN costs ELSE << >>)
(* Slip: at the offset of the first policy.                                *)
Scorer_Slip(is_learn, lab, a) == Step("scorer", IF is_learn /\ lab[a] # NoCost THEN "learn" ELSE "predict", 0, lab, <<a>>)
Scorer(is_learn, lab, a) == Step("scorer", IF is_learn /\ lab[a] # NoCost THEN "learn" ELSE "predict", 1, lab, <<a>>)
XLoop(n, Body(_)) == FlattenSeq([i \in 1..n |-> Body(i - 1)])
Explored(steps, preds, mem, lab) == [steps |-> steps, preds |-> preds, mem |-> mem, lab |-> lab]

NoXMem == [tau |-> 2, counter |-> 0, min_cost |-> 0, max_cost |-> 0, known |-> NoKnownCost,
           labeled |-> 0, predict_in_learn |-> 0, first |-> 0, not_first |-> 0, sum_cost |-> 0]

-----------------------------------------------------------------------------
(* The explorers with one policy.                                          *)
Enforced(preds) == WithScores(preds, enforce_minimum_probability(XEpsilon, TRUE, ScoresOf(preds)))
(* Slip: what is left of the probability goes to every tied action.        *)
Greedy_Slip(first_only, preds) ==
  [i \in 1..Len(preds) |->
     Pair(preds[i].action, XEpsilon \div Len(preds) + (IF i <= (IF first_only THEN 1 ELSE fill_tied(preds)) THEN One - XEpsilon ELSE 0))]
Greedy(first_only, preds) ==
  LET tied == IF first_only THEN 1 ELSE fill_tied(preds)
  IN  [i \in 1..Len(preds) |->
         Pair(preds[i].action, XEpsilon \div Len(preds) + (IF i <= tied THEN (One - XEpsilon) \div tied ELSE 0))]
ExploreGreedy(first_only, is_learn, lab, mem, b) ==
  Explored(Base(is_learn, 0, lab), Greedy(first_only, Ranked(b.p[0])), mem, lab)
ExploreFirst(is_learn, lab, mem, b) ==
  LET preds == Ranked(b.p[0])
      n == Len(preds)
  IN  Explored(Base(is_learn, 0, lab),
               Enforced(WithScores(preds, [i \in 1..n |-> IF mem.tau > 0 THEN One \div n ELSE IF i = 1 THEN One ELSE 0])),
               IF is_learn /\ mem.tau > 0 THEN [mem EXCEPT !.tau = @ - 1] ELSE mem, lab)
ExploreSoftmax(is_learn, lab, mem, b) ==
  LET preds == Ranked(b.p[0])
  IN  Explored(Base(is_learn, 0, lab), Enforced(WithScores(preds, generate_softmax(ScoresOf(preds)))), mem, lab)

(* synthcover: how often the cheapest action is taken when every time      *)
(* makes it dearer.  Costs are in steps of psi / synthcoversize.           *)
SynthSize == 4
Cheapest(score) == CHOOSE a \in DOMAIN score : \A c \in DOMAIN score \ {a} : score[a] < score[c] \/ (score[a] = score[c] /\ a < c)
SynthTaken(score) ==
  FoldLeft(LAMBDA acc, k : LET a == Cheapest(acc.score)
                           IN  [score |-> [acc.score EXCEPT ![a] = @ + 1], taken |-> [acc.taken EXCEPT ![a] = @ + 1]],
           [score |-> score, taken |-> [a \in DOMAIN score |-> 0]], [k \in 1..SynthSize |-> k]).taken
Clamped(x, lo, hi) == Max({lo, Min({x, hi})})
ExploreSynthcover(is_learn, lab, mem, b) ==
  LET n == Size(lab)
      seen == get_observed_cost_or_default_cb_adf(lab).cost
      m2 == IF LabelledLines(lab) = {} THEN mem ELSE [mem EXCEPT !.min_cost = Min({@, seen}), !.max_cost = Max({@, seen})]
      taken == SynthTaken([a \in 0..(n - 1) |-> Clamped(b.p[0][a], m2.min_cost, m2.max_cost)])
      pmf == enforce_minimum_probability(XEpsilon, TRUE, [i \in 1..n |-> (One * taken[i - 1]) \div SynthSize])
  IN  Explored(Base(is_learn, 0, lab),
               IF n = 1 THEN <<Pair(0, One)>> ELSE SortSeq(ByAction(pmf), LAMBDA x, y : ScoreLess(y, x)), m2, lab)

(* regcb and squarecb: ranges of costs, b.lo and b.hi.  Their learn shows  *)
(* the learner below probability 1, but for the last line.                 *)
Certain(lab) == [a \in DOMAIN lab |-> IF lab[a] # NoCost /\ a < Size(lab) - 1 THEN [lab[a] EXCEPT !.p = One] ELSE lab[a]]
Sensitivities(n, twice, lab) == XLoop(n, LAMBDA i : XLoop(IF twice THEN 2 ELSE 1, LAMBDA j : Step("cb", "sensitivity", 0, lab, <<i>>)))
LearnWithoutPrediction(lab, mem, pred) == Explored(Base(TRUE, 0, Certain(lab)), pred, [mem EXCEPT !.counter = @ + 1], Certain(lab))
Optimistic(first_only, preds, lo) ==
  LET opt == Min({lo[a] : a \in DOMAIN lo})
      a_opt == Min({a \in DOMAIN lo : lo[a] = opt})
  IN  [i \in 1..Len(preds) |-> Pair(preds[i].action, IF preds[i].action = a_opt \/ (~first_only /\ lo[preds[i].action] = opt) THEN One ELSE 0)]
(* enforce_minimum_probability is called after every element, while those  *)
(* that follow still hold scores; the last call decides.                   *)
Surviving(lo, hi) == {a \in DOMAIN lo : lo[a] <= Min({hi[c] : c \in DOMAIN hi})}
(* Slip: every action is kept.                                             *)
Eliminated_Slip(preds, lo, hi) ==
  WithScores(preds, enforce_minimum_probability(One, FALSE, [i \in 1..Len(preds) |-> One]))
Eliminated(preds, lo, hi) ==
  WithScores(preds, enforce_minimum_probability(One, FALSE,
    [i \in 1..Len(preds) |-> IF preds[i].action \in Surviving(lo, hi) THEN One ELSE 0]))
ExploreRegcb(kind, is_learn, lab, mem, b, pred) ==
  IF is_learn THEN LearnWithoutPrediction(lab, mem, pred)
  ELSE Explored(Base(FALSE, 0, lab) \o Sensitivities(Size(lab), kind = "elim", lab),
                IF kind = "elim" THEN Eliminated(Ranked(b.p[0]), b.lo, b.hi) ELSE Optimistic(kind = "opt_first", Ranked(b.p[0]), b.lo), mem, lab)
(* The inverse gaps; gamma grows with the examples learned.                *)
InverseGap(score, best, n, gamma) == One \div (n + gamma * (score - best))
(* Slip: the gap is taken towards the worst action.                        *)
SquareCb_Slip(preds, gamma) ==
  LET share == [i \in 1..Len(preds) |-> IF i = 1 THEN 0 ELSE InverseGap(preds[Len(preds)].score, preds[i].score, Len(preds), gamma)]
  IN  WithScores(preds, [i \in 1..Len(preds) |-> IF i = 1 THEN One - SumOf(share) ELSE share[i]])
SquareCb(preds, gamma) ==
  LET share == [i \in 1..Len(preds) |-> IF i = 1 THEN 0 ELSE InverseGap(preds[i].score, preds[1].score, Len(preds), gamma)]
  IN  WithScores(preds, [i \in 1..Len(preds) |-> IF i = 1 THEN One - SumOf(share) ELSE share[i]])
(* Survivors are counted only where one improves on those before it.       *)
SquareCbElim(preds, gamma, lo, hi) ==
  LET survives(i) == preds[i].action \in Surviving(lo, hi)
      improves(i) == survives(i) /\ \A j \in 1..(i - 1) : survives(j) => preds[j].score > preds[i].score
      counted == Cardinality({i \in 1..Len(preds) : improves(i)})
      a_min == Max({1} \union {i \in 1..Len(preds) : improves(i)})
      share == [i \in 1..Len(preds) |-> IF ~survives(i) \/ i = a_min THEN 0 ELSE InverseGap(preds[i].score, preds[a_min].score, counted, gamma)]
  IN  WithScores(preds, [i \in 1..Len(preds) |-> IF i = a_min THEN One - SumOf(share) ELSE share[i]])
ExploreSquarecb(elim, is_learn, lab, mem, b, pred) ==
  IF is_learn THEN LearnWithoutPrediction(lab, mem, pred)
  ELSE IF elim THEN Explored(Base(FALSE, 0, lab) \o Sensitivities(Size(lab), TRUE, lab), SquareCbElim(Ranked(b.p[0]), mem.counter, b.lo, b.hi), mem, lab)
  ELSE Explored(Base(FALSE, 0, lab), Enforced(SquareCb(Ranked(b.p[0]), mem.counter)), mem, lab)

-----------------------------------------------------------------------------
(* The explorers with several policies.  A policy has 6 votes, which the   *)
(* actions it ranks first share.                                           *)
VotesOf(first_only, preds) ==
  LET tied == IF first_only THEN 1 ELSE fill_tied(preds)
  IN  [a \in {preds[i].action : i \in 1..tied} |-> 6 \div tied]
Voted(votes, a) == IF a \in DOMAIN votes THEN votes[a] ELSE 0
(* Slip: the policies share one offset.                                    *)
ExploreBag_Slip(first_only, is_learn, lab, mem, b, pred) ==
  LET top == [i \in 1..Size(lab) |-> SumOf([k \in 1..XPolicies |-> Voted(VotesOf(first_only, Ranked(b.p[k - 1])), i - 1)])]
      scores == [i \in 1..Size(lab) |-> SumOf([k \in 1..XPolicies |-> b.p[k - 1][i - 1]])]
  IN  IF is_learn THEN Explored(XLoop(XPolicies, LAMBDA i : XLoop(b.count[i], LAMBDA j : Base(TRUE, XPolicies - i, lab))), pred, mem, lab)
      ELSE Explored(XLoop(XPolicies, LAMBDA i : Base(FALSE, i, lab)),
                    sort_action_probs(ByAction(enforce_minimum_probability(XEpsilon, TRUE, generate_bag(top))), scores), mem, lab)
ExploreBag(first_only, is_learn, lab, mem, b, pred) ==
  LET top == [i \in 1..Size(lab) |-> SumOf([k \in 1..XPolicies |-> Voted(VotesOf(first_only, Ranked(b.p[k - 1])), i - 1)])]
      scores == [i \in 1..Size(lab) |-> SumOf([k \in 1..XPolicies |-> b.p[k - 1][i - 1]])]
  IN  IF is_learn THEN Explored(XLoop(XPolicies, LAMBDA i : XLoop(b.count[i], LAMBDA j : Base(TRUE, i, lab))), pred, mem, lab)
      ELSE Explored(XLoop(XPolicies, LAMBDA i : Base(FALSE, i, lab)),
                    sort_action_probs(ByAction(enforce_minimum_probability(XEpsilon, TRUE, generate_bag(top))), scores), mem, lab)

(* cover: policy 0 minimises the cost, every other one the cost less what  *)
(* the policies before it have not covered.                                *)
Root(x) == CHOOSE r \in 0..x : r * r <= x /\ (r + 1) * (r + 1) > x
MinProb(decay, counter, n) ==
  IF ~decay \/ counter = 0 THEN XEpsilon \div n ELSE Min({XEpsilon \div n, XEpsilon \div Root(counter * n)})
Psi == 2
(* Slip: the bonus for what is covered instead.                            *)
PseudoCost_Slip(x, covered, min, norm) == x * One - (Psi * Max({covered, min}))
PseudoCost(x, covered, min, norm) == x * One - (Psi * min * norm) \div Max({covered, min})
CoverNorm(norm, covered, min, add) == norm + (IF covered < min THEN Max({0, add - (min - covered)}) ELSE add)
IpsCost(lab, a) == IF lab[a] = NoCost THEN 0 ELSE (lab[a].cost * One) \div lab[a].p
DrCost(lab, scores, a) == scores[a] + (IF lab[a] = NoCost THEN 0 ELSE ((lab[a].cost - scores[a]) * One) \div lab[a].p)
(* Covered actions after one more policy; acc.probs by action.             *)
CoverBy(first_only, min, acc, preds) ==
  LET tied == IF first_only THEN 1 ELSE fill_tied(preds)
      add == (One \div XPolicies) \div tied
  IN  FoldLeft(LAMBDA c, i : LET a == preds[i].action
                             IN  [c EXCEPT !.norm = CoverNorm(@, c.probs[a], min, add), !.probs[a] = @ + add],
               acc, [i \in 1..tied |-> i])
CoverFirst(first_only, min, n, preds) ==
  [CoverBy(first_only, min, [probs |-> [a \in 0..(n - 1) |-> 0], norm |-> 0, scores |-> ScoresOf(preds), steps |-> << >>], preds)
     EXCEPT !.norm = min * n + (One \div XPolicies - min)]
(* Scores are added up by rank, not by action.                             *)
CoverNext(first_only, is_learn, lab, costs, min, acc, i, preds) ==
  CoverBy(first_only, min,
    [acc EXCEPT !.scores = [j \in 1..Len(preds) |-> @[j] + preds[j].score],
                !.steps = @ \o CostSensitive(is_learn, i + 1, lab,
                                [j \in 1..Len(preds) |-> PseudoCost(costs[j - 1], acc.probs[j - 1], min, acc.norm)])], preds)
Covered(first_only, is_learn, lab, costs, min, b) ==
  FoldLeft(LAMBDA acc, i : CoverNext(first_only, is_learn, lab, costs, min, acc, i, Ranked(b.p[i + 1])),
           CoverFirst(first_only, min, Size(lab), Ranked(b.p[0])), [i \in 1..(XPolicies - 1) |-> i])
CoverPmf(cov, min, n, nounif) ==
  enforce_minimum_probability(min * n, ~nounif, [i \in 1..n |-> cov.probs[i - 1]])
CoverPreds(cov, min, n, nounif) == sort_action_probs(ByAction(CoverPmf(cov, min, n, nounif)), cov.scores)
(* With mtr the scorer learns, and with --no_predict the base does not     *)
(* return a prediction when it learns.                                     *)
CoverBase(mtr, no_predict, is_learn, lab) ==
  (IF is_learn /\ mtr THEN XLoop(Size(lab), LAMBDA a : Scorer(TRUE, lab, a)) ELSE << >>) \o
  (IF is_learn /\ no_predict THEN Base(FALSE, 0, lab) ELSE << >>) \o Base(is_learn, 0, lab)
CoverSteps(mtr, no_predict, is_learn, lab, mem, cov, min, nounif) ==
  Explored(CoverBase(mtr, no_predict, is_learn, lab) \o cov.steps, CoverPreds(cov, min, Size(lab), nounif),
           IF is_learn THEN [mem EXCEPT !.counter = @ + 1] ELSE mem, lab)
ExploreCover(mtr, no_predict, nounif, is_learn, lab, mem, b) ==
  LET min == MinProb(~nounif, mem.counter, Size(lab))
      costs == [a \in DOMAIN lab |-> IF mtr /\ is_learn THEN DrCost(lab, b.p[1], a) ELSE IpsCost(lab, a)]
  IN  CoverSteps(mtr, no_predict, is_learn, lab, mem, Covered(FALSE, is_learn, lab, costs, min, b), min, nounif)

(* rnd: how far a random prediction is from being learned is a bonus.      *)
(* Constants of the bonus are 1; the initial predictions are 0.            *)
NumRnd == 1
Fake(lab) == [a \in DOMAIN lab |-> IF lab[a].p > 0 THEN [cost |-> 9, p |-> One] ELSE lab[a]]
Bonus(b, a) == SumOf([k \in 1..NumRnd |-> b.p[k][a] * b.p[k][a]])
ExploreRnd(is_learn, lab, mem, b) ==
  LET preds == Ranked(b.p[0])
      most == Max({Bonus(b, a) : a \in DOMAIN lab})
      ci == [i \in 1..Len(preds) |-> preds[i].score - (Bonus(b, preds[i].action) - most)]
  IN  Explored(XLoop(NumRnd, LAMBDA k : Base(is_learn, 1 + k, IF is_learn THEN Fake(lab) ELSE lab)) \o Base(is_learn, 0, lab),
               Enforced(WithScores(preds, generate_softmax(ci))), mem, lab)

-----------------------------------------------------------------------------
(* cb_explore: a fixed number of actions, and a policy answers with one.   *)
Chosen(b, id) == Cheapest(b.p[id])
PlainGreedy(is_learn, lab, mem, b) ==
  Explored(Base(is_learn, 0, lab), ByAction(generate_epsilon_greedy(XEpsilon, Chosen(b, 0), Size(lab))), mem, lab)
(* tau counts predictions too.                                             *)
PlainFirst(is_learn, lab, mem, b) ==
  LET n == Size(lab)
  IN  Explored(Base(is_learn /\ \E a \in LabelledLines(lab) : lab[a].p < One, 0, lab),
               ByAction([i \in 1..n |-> IF mem.tau > 0 THEN One \div n ELSE IF i = Chosen(b, 0) + 1 THEN One ELSE 0]),
               IF mem.tau > 0 THEN [mem EXCEPT !.tau = @ - 1] ELSE mem, lab)
PlainBag(is_learn, lab, mem, b) ==
  Explored(XLoop(XPolicies, LAMBDA i : Base(is_learn /\ b.count[i] > 0, i, lab) \o
                                       (IF is_learn THEN XLoop(b.count[i] - 1, LAMBDA j : Base(TRUE, i, lab)) ELSE << >>)),
           ByAction([k \in 1..Size(lab) |-> SumOf([i \in 1..XPolicies |-> IF Chosen(b, i - 1) = k - 1 THEN One \div XPolicies ELSE 0])]), mem, lab)
PolicyAt(i) == IF i = 0 THEN 0 ELSE i + 1
(* Every policy is asked before any is taught.                             *)
PlainCovered(lab, b, min) ==
  FoldLeft(LAMBDA acc, i :
             LET a == Chosen(b, PolicyAt(i))
                 add == One \div XPolicies
                 cost(c) == PseudoCost(IpsCost(lab, c) + 1, acc.probs[c], min, acc.norm)
             IN  [norm |-> CoverNorm(acc.norm, acc.probs[a], min, add), probs |-> [acc.probs EXCEPT ![a] = @ + add],
                  steps |-> IF i = 0 THEN acc.steps ELSE acc.steps \o Step("cs", "learn", i + 1, lab, [j \in 1..Size(lab) |-> cost(j - 1)])],
           [norm |-> min * Size(lab), probs |-> [c \in DOMAIN lab |-> 0], steps |-> << >>], [i \in 1..XPolicies |-> i - 1])
PlainCoverSteps(is_learn, lab, mem, cov, min) ==
  Explored(XLoop(XPolicies, LAMBDA i : Step("cs", "predict", PolicyAt(i), Unlabelled(Size(lab)), << >>)) \o
           (IF is_learn THEN Base(TRUE, 0, lab) \o XLoop(Size(lab), LAMBDA a : Scorer(FALSE, lab, a)) \o cov.steps ELSE << >>),
           ByAction(CoverPmf(cov, min, Size(lab), FALSE)), IF is_learn THEN [mem EXCEPT !.counter = @ + 1] ELSE mem, lab)
PlainCover(is_learn, lab, mem, b) ==
  LET min == MinProb(TRUE, mem.counter, Size(lab)) IN PlainCoverSteps(is_learn, lab, mem, PlainCovered(lab, b, min), min)

-----------------------------------------------------------------------------
PlainExplorers == {"plain_greedy", "plain_first", "plain_bag", "plain_cover"}
Explore(red, is_learn, lab, mem, b, pred) ==
  CASE red = "greedy" -> ExploreGreedy(FALSE, is_learn, lab, mem, b)
    [] red = "greedy_first" -> ExploreGreedy(TRUE, is_learn, lab, mem, b)
    [] red = "first" -> ExploreFirst(is_learn, lab, mem, b)
    [] red = "softmax" -> ExploreSoftmax(is_learn, lab, mem, b)
    [] red = "synthcover" -> ExploreSynthcover(is_learn, lab, mem, b)
    [] red = "regcb_opt" -> ExploreRegcb("opt", is_learn, lab, mem, b, pred)
    [] red = "regcb_opt_first" -> ExploreRegcb("opt_first", is_learn, lab, mem, b, pred)
    [] red = "regcb_elim" -> ExploreRegcb("elim", is_learn, lab, mem, b, pred)
    [] red = "squarecb" -> ExploreSquarecb(FALSE, is_learn, lab, mem, b, pred)
    [] red = "squarecb_elim" -> ExploreSquarecb(TRUE, is_learn, lab, mem, b, pred)
    [] red = "bag" -> ExploreBag(FALSE, is_learn, lab, mem, b, pred)
    [] red = "cover_mtr" -> ExploreCover(TRUE, FALSE, FALSE, is_learn, lab, mem, b)
    [] red = "cover_no_predict" -> ExploreCover(TRUE, TRUE, FALSE, is_learn, lab, mem, b)
    [] red = "cover_nounif" -> ExploreCover(FALSE, FALSE, TRUE, is_learn, lab, mem, b)
    [] red = "rnd" -> ExploreRnd(is_learn, lab, mem, b)
    [] red = "plain_greedy" -> PlainGreedy(is_learn, lab, mem, b)
    [] red = "plain_first" -> PlainFirst(is_learn, lab, mem, b)
    [] red = "plain_bag" -> PlainBag(is_learn, lab, mem, b)
    [] red = "plain_cover" -> PlainCover(is_learn, lab, mem, b)

(* cb_explore_adf_base: the passes of a call through the workspace.  A     *)
(* pass that predicts does not see the label; an example without one is    *)
(* predicted even when it is to be learned.  An explorer that does not     *)
(* return a prediction when it learns predicts first, and that is kept.    *)
LearnReturnsPrediction == {"greedy", "greedy_first", "cover_mtr", "cover_no_predict", "cover_nounif"}
Pass(red, is_learn, in_learn, lab) ==
  [learn |-> is_learn, in_learn |-> in_learn, lab |-> IF is_learn \/ red \in PlainExplorers THEN lab ELSE Unlabelled(Size(lab))]
(* Slip: the label stays where it is.                                      *)
Passes_Slip(red, is_learn, lab) == <<[learn |-> is_learn, in_learn |-> is_learn, lab |-> lab]>>
Passes(red, is_learn, lab) ==
  LET learns == is_learn /\ (red \in PlainExplorers \/ LabelledLines(lab) # {})
      predicts == <<Pass(red, FALSE, FALSE, lab)>>
  IN  IF ~is_learn THEN predicts
      ELSE (IF red \in LearnReturnsPrediction THEN << >> ELSE predicts) \o <<Pass(red, learns, TRUE, lab)>>
(* Slip: kept when there is no label.                                      *)
Known_Slip(red, mem, lab) == IF LabelledLines(lab) = {} THEN mem ELSE [mem EXCEPT !.known = get_observed_cost_or_default_cb_adf(lab)]
Known(red, mem, lab) == IF red \in PlainExplorers THEN mem ELSE [mem EXCEPT !.known = get_observed_cost_or_default_cb_adf(lab)]
(* Slip: the cost of the example before.                                   *)
Metrics_Slip(red, pass, before, mem) ==
  IF red \in PlainExplorers \/ ~pass.in_learn THEN mem
  ELSE IF ~pass.learn THEN [mem EXCEPT !.predict_in_learn = @ + 1]
  ELSE [mem EXCEPT !.labeled = @ + 1, !.first = @ + (IF before.known.action = 0 THEN 1 ELSE 0),
                   !.not_first = @ + (IF before.known.action = 0 THEN 0 ELSE 1), !.sum_cost = @ + before.known.cost]
Metrics(red, pass, before, mem) ==
  IF red \in PlainExplorers \/ ~pass.in_learn THEN mem
  ELSE IF ~pass.learn THEN [mem EXCEPT !.predict_in_learn = @ + 1]
  ELSE [mem EXCEPT !.labeled = @ + 1, !.first = @ + (IF mem.known.action = 0 THEN 1 ELSE 0),
                   !.not_first = @ + (IF mem.known.action = 0 THEN 0 ELSE 1), !.sum_cost = @ + mem.known.cost]
(* After a pass.  A label that was hidden is put back.                     *)
AfterPass(red, lab, before, acc, pass, e) ==
  Explored(acc.steps \o e.steps, IF acc.preds = << >> THEN e.preds ELSE acc.preds, Metrics(red, pass, before, e.mem),
           IF pass.learn THEN e.lab ELSE lab)
WorkspaceCall(red, is_learn, lab, mem, b) ==
  FoldLeft(LAMBDA acc, pass : AfterPass(red, lab, mem, acc, pass, Explore(red, pass.learn, pass.lab, Known(red, acc.mem, lab), b, acc.preds)),
           Explored(<< >>, << >>, mem, lab), Passes(red, is_learn, lab))

-----------------------------------------------------------------------------
(* What is given: labels, and the answers of the policies below.           *)
Bagging == {"bag", "plain_bag"}
Several == Bagging \union {"cover_mtr", "cover_no_predict", "cover_nounif", "rnd", "plain_cover"}
Ranges == {"regcb_opt", "regcb_opt_first", "regcb_elim", "squarecb_elim"}
HalfLogged(cost) == [cost |-> cost, p |-> One \div 2]
XLabels(n) ==
  {Unlabelled(n), [Unlabelled(n) EXCEPT ![0] = HalfLogged(0)]} \union {[Unlabelled(n) EXCEPT ![a] = HalfLogged(1)] : a \in 0..(n - 1)}
    \union {[Unlabelled(n) EXCEPT ![0] = HalfLogged(1), ![n - 1] = HalfLogged(0)]}
Answer(p, lo, hi, count) == [p |-> p, lo |-> lo, hi |-> hi, count |-> count]
NoCount == [i \in 0..(XPolicies - 1) |-> 1]
XAnswers(red, n) ==
  IF red \in Ranges
  THEN {Answer([i \in {0} |-> s], [a \in 0..(n - 1) |-> s[a] - w[a]], [a \in 0..(n - 1) |-> s[a] + w[a]], NoCount) :
          s \in [0..(n - 1) -> 0..2], w \in [0..(n - 1) -> {0, 1}]}
  ELSE IF red \in Bagging
  THEN {Answer(p, << >>, << >>, c) : p \in [0..(XPolicies - 1) -> [0..(n - 1) -> 0..1]], c \in [0..(XPolicies - 1) -> {0, 2}]}
  ELSE IF red \in Several
  THEN {Answer(p, << >>, << >>, NoCount) : p \in {q \in [0..XPolicies -> [0..(n - 1) -> 0..1]] : \A a \in 1..(n - 1) : q[1][a] = 0}}
  ELSE {Answer([i \in {0} |-> s], << >>, << >>, NoCount) : s \in [0..(n - 1) -> 0..2]}

(* What a loaded model has counted.                                        *)
XCounters(red) == CASE red \in {"cover_mtr", "plain_cover"} -> {0, 12}
                    [] red = "squarecb_elim" -> {0, 3}
                    [] OTHER -> {0}
XCalls(red) == IF red \in Several \union Ranges THEN 1 ELSE XMaxEvents

XReady == xrun = << >>
XInit ==
  /\ xred \in XExplorers
  /\ \E c \in XCounters(xred) : xmem = [NoXMem EXCEPT !.counter = c]
  /\ xcount = [calls |-> 0, learned |-> 0, unlabelled |-> 0, cost |-> 0]
  /\ xlab = << >> /\ xpred = << >> /\ xrun = << >>

Run(how, is_learn, lab, b, steps) == [how |-> how, is_learn |-> is_learn, lab |-> lab, b |-> b, steps |-> steps, mem |-> xmem, drawn |-> << >>]
(* costs[0] is read without a test by cb_explore's first.                  *)
Allowed(red, is_learn, lab) == red \in PlainExplorers => (test_cb_adf_sequence(lab) /\ (red = "plain_first" /\ is_learn => LabelledLines(lab) # {}))
XDone(is_learn, lab, b, e) ==
  /\ xlab' = e.lab /\ xpred' = e.preds /\ xmem' = e.mem
  /\ xrun' = Run("done", is_learn, lab, b, e.steps)
  /\ xcount' = [xcount EXCEPT !.calls = @ + 1,
                              !.learned = @ + (IF is_learn /\ LabelledLines(lab) # {} THEN 1 ELSE 0),
                              !.unlabelled = @ + (IF is_learn /\ LabelledLines(lab) = {} THEN 1 ELSE 0),
                              !.cost = @ + (IF is_learn THEN get_observed_cost_or_default_cb_adf(lab).cost ELSE 0)]
(* Call k of those below throws.  A label that was hidden or changed at    *)
(* that moment stays so, except that rnd and cb_explore's cover have a     *)
(* guard.  (cover's guard does not give second_cs_label back, which the    *)
(* next learn then writes beyond; that is not modelled.)  Answers of a     *)
(* call that throws are all the same.                                      *)
Flat(b) == \A i \in DOMAIN b.p : \A a \in DOMAIN b.p[i] : b.p[i][a] = 0
(* cb_explore's first counts the prediction that comes first.              *)
TauAt(k, tau) == IF xred = "plain_first" /\ k = 2 /\ tau > 0 THEN tau - 1 ELSE tau
(* cb_explore's cover counts before the first call that learns.            *)
CounterAt(steps, k, counter) ==
  IF xred = "plain_cover" /\ \E j \in 1..k : steps[j].op = "learn" THEN counter + 1 ELSE counter
(* Bound: the examples counted from a value of XCounters on, if a call     *)
(* that throws is among them; the other calls are bounded by XCalls.       *)
MaxCounted == 2
CountsOn(counter) == \E c \in XCounters(xred) : counter - c \in 0..(MaxCounted - 1)
XGuarded(steps, k) == xred = "plain_cover" \/ (xred = "rnd" /\ LabelledLines(steps[k].lab) # {})
XThrownAt(is_learn, lab, b, e, k) ==
  /\ CounterAt(e.steps, k, xmem.counter) = xmem.counter \/ CountsOn(xmem.counter)
  /\ xlab' = IF XGuarded(e.steps, k) THEN lab ELSE e.steps[k].lab
  /\ xpred' = << >>
  /\ xmem' = [Known(xred, xmem, lab) EXCEPT !.tau = TauAt(k, @), !.counter = CounterAt(e.steps, k, @)]
  /\ xrun' = Run("threw", is_learn, lab, b, SubSeq(e.steps, 1, k))
  /\ UNCHANGED xcount
XCall(is_learn) ==
  /\ XReady /\ xcount.calls < XCalls(xred)
  /\ \E n \in XSizes : \E lab \in XLabels(n), b \in XAnswers(xred, n) :
       /\ Allowed(xred, is_learn, lab) /\ test_cb_adf_sequence(lab)
       /\ \E e \in {WorkspaceCall(xred, is_learn, lab, xmem, b)} :
            \/ XDone(is_learn, lab, b, e)
            \/ Flat(b) /\ \E k \in 1..Len(e.steps) : XThrownAt(is_learn, lab, b, e, k)
  /\ UNCHANGED xred
(* More than one line with costs: the sequence is refused as it stands.    *)
XRefuse(is_learn) ==
  /\ XReady /\ xred \notin PlainExplorers
  /\ \E n \in XSizes : \E lab \in XLabels(n) :
       /\ ~test_cb_adf_sequence(lab)
       /\ xlab' = lab /\ xrun' = Run("refused", is_learn, lab, << >>, << >>)
  /\ UNCHANGED <<xred, xcount, xmem, xpred>>
(* The example goes back to the pool.                                      *)
XFinish ==
  /\ ~XReady
  /\ xrun' = << >> /\ xlab' = << >> /\ xpred' = << >>
  /\ UNCHANGED <<xred, xcount, xmem>>

(* cb_sample: the labelled action where the call learns, else one drawn.   *)
Position(preds, a) == IF \E i \in 1..Len(preds) : preds[i].action = a THEN Min({i \in 1..Len(preds) : preds[i].action = a}) - 1 ELSE 0
Drawn(index, pmf, draw) == [index |-> index, pmf |-> pmf, draw |-> draw]
XSampleWith(r) ==
  /\ xrun' = [xrun EXCEPT !.drawn = <<[r EXCEPT !.pmf = xpred]>>]
  /\ xpred' = swap_chosen(WithScores(xpred, r.pmf), r.index)
  /\ UNCHANGED <<xred, xcount, xmem, xlab>>
XSampleable == ~XReady /\ xrun.how = "done" /\ xrun.drawn = << >> /\ xred \in {"softmax", "regcb_elim", "squarecb_elim"}
Edges(pmf) == {x \in UNION {{SumOf(SubSeq(pmf, 1, i)) - 1, SumOf(SubSeq(pmf, 1, i))} : i \in 0..Len(pmf)} : x \in 0..(One - 1)}
XSampleLogged ==
  /\ XSampleable /\ xrun.is_learn /\ LabelledLines(xlab) # {}
  /\ XSampleWith(Drawn(Position(xpred, Min(LabelledLines(xlab))), ScoresOf(xpred), -1))
XSample ==
  /\ XSampleable /\ (xrun.is_learn => LabelledLines(xlab) = {})
  /\ \E draw \in Edges(ScoresOf(xpred)) :
       \E s \in {sample_after_normalizing(ScoresOf(xpred), draw)} : XSampleWith(Drawn(s.index, s.pmf, draw))

XNext == \/ \E is_learn \in BOOLEAN : XCall(is_learn) \/ XRefuse(is_learn)
         \/ XFinish \/ XSampleLogged \/ XSample
XSpec == XInit /\ [][XNext]_xVars
-----------------------------------------------------------------------------
XTypeOK ==
  /\ xred \in XExplorers /\ xcount.calls \in 0..XMaxEvents
  /\ xmem.tau \in 0..2 /\ xmem.counter \in Nat
  /\ XReady => xlab = << >>

Finished == ~XReady /\ xrun.how = "done"
LogOf == get_observed_cost_or_default_cb_adf(xrun.lab)
Logged == LabelledLines(xrun.lab) # {}
StepsOf(learner, op) == SelectSeq(xrun.steps, LAMBDA s : s.learner = learner /\ s.op = op)

(* The prediction is a distribution over the actions of the example, each  *)
(* once.  Not so where squarecb eliminates, and where regcb ties.          *)
PmfValid ==
  (Finished /\ xrun.drawn = << >> /\ xred \notin {"squarecb_elim", "regcb_opt"}) =>
     /\ ToSet(ActionsOf(xpred)) = DOMAIN xrun.lab /\ Len(xpred) = Size(xrun.lab)
     /\ \A x \in ToSet(xpred) : x.score >= 0
     /\ SumOf(ScoresOf(xpred)) = One

(* However certain the policies are, every action keeps the share of       *)
(* epsilon the user asked for; cover's falls as the model learns.          *)
Kept(n) == CASE xred \in {"greedy", "greedy_first", "first", "softmax", "squarecb", "bag", "rnd", "plain_greedy"} -> XEpsilon \div n
             [] xred = "synthcover" -> IF n = 1 THEN One ELSE XEpsilon \div n
             [] xred \in {"cover_mtr", "cover_no_predict", "plain_cover"} -> MinProb(TRUE, xrun.mem.counter, n)
             [] OTHER -> 0
MinimumKept ==
  (Finished /\ xrun.drawn = << >> /\ xred # "squarecb_elim") => \A x \in ToSet(xpred) : x.score >= Kept(Size(xrun.lab))

(* An action that every policy finds dearer than another one does not get  *)
(* the higher probability, and the first of the prediction is the likeliest.*)
Asked == IF xred \in Bagging THEN 0..(XPolicies - 1)
         ELSE IF xred \in Several THEN {0} \union 2..XPolicies ELSE {0}
DearerNotLikelier ==
  (Finished /\ xrun.drawn = << >> /\ xred \notin Ranges \union {"synthcover", "rnd"}) =>
     /\ \A x, y \in DOMAIN xrun.lab :
          (\A i \in Asked : xrun.b.p[i][x] < xrun.b.p[i][y]) => ScoreOf(xpred, x) >= ScoreOf(xpred, y)
     /\ xred \notin PlainExplorers => \A y \in ToSet(xpred) : xpred[1].score >= y.score
(* Elimination: exactly the actions whose range of costs meets the best    *)
(* upper bound are played, and all alike.                                  *)
EliminatedRight ==
  (Finished /\ xrun.drawn = << >> /\ xred = "regcb_elim") =>
     \A x \in DOMAIN xrun.lab :
       LET beaten == \E y \in DOMAIN xrun.lab : xrun.b.hi[y] < xrun.b.lo[x]
       IN  IF beaten THEN ScoreOf(xpred, x) = 0 ELSE \A y \in DOMAIN xrun.lab : ScoreOf(xpred, x) >= ScoreOf(xpred, y)

(* Predicting shows no learner the label and teaches nothing; afterwards   *)
(* the label is back.  regcb and squarecb change the probability of what   *)
(* they learn, never its cost.                                             *)
LabelKept ==
  /\ (Finished /\ ~xrun.is_learn /\ xred \notin PlainExplorers) => \A i \in 1..Len(xrun.steps) : LabelledLines(xrun.steps[i].lab) = {}
  /\ (Finished /\ ~xrun.is_learn) => \A i \in 1..Len(xrun.steps) : xrun.steps[i].op # "learn"
  /\ Finished => \A a \in DOMAIN xlab : /\ xlab[a].cost = xrun.lab[a].cost
                                        /\ (xlab[a] # xrun.lab[a] => xrun.is_learn /\ xred \in Ranges \union {"squarecb"})
(* The true policies are taught the cost that was logged, each as often    *)
(* as its weight says and at an offset of its own; rnd's others a made-up  *)
(* one.                                                                    *)
TaughtAt(id) == Cardinality({i \in 1..Len(xrun.steps) : xrun.steps[i].learner = "cb" /\ xrun.steps[i].op = "learn" /\ xrun.steps[i].id = id})
LearnsLogged ==
  (Finished /\ xrun.is_learn /\ Logged) =>
     /\ \A i \in 1..Len(xrun.steps) :
          (xrun.steps[i].op = "learn" /\ xrun.steps[i].learner = "cb" /\ ~(xred = "rnd" /\ xrun.steps[i].id > 0)) =>
             /\ get_observed_cost_or_default_cb_adf(xrun.steps[i].lab).action = LogOf.action
             /\ get_observed_cost_or_default_cb_adf(xrun.steps[i].lab).cost = LogOf.cost
     /\ IF xred \in Bagging THEN \A i \in 0..(XPolicies - 1) : TaughtAt(i) = xrun.b.count[i]
        ELSE TaughtAt(0) = 1 /\ (xred = "rnd" => \A k \in 1..NumRnd : TaughtAt(k) = 1)
(* Which policies an explorer calls: cover's scorer sits between the first *)
(* policy and the others, at offset 1, and nothing is beyond its width.    *)
OffsetsApart ==
  Finished => \A i \in 1..Len(xrun.steps) :
     LET s == xrun.steps[i]
     IN  IF xred \in {"cover_mtr", "cover_no_predict", "cover_nounif", "plain_cover"}
         THEN /\ s.learner = "cb" => s.id = 0
              /\ s.learner = "scorer" => s.id = 1
              /\ s.learner = "cs" => s.id \in (IF xred = "plain_cover" THEN {0} ELSE {}) \union 2..XPolicies
         ELSE s.learner = "cb" /\ s.id \in Asked \union (IF xred = "rnd" THEN 1..NumRnd ELSE {})
(* cover: of two actions with the same estimated cost, the one that some   *)
(* policy before this one plays is not cheaper than the one that none      *)
(* plays, and dearer where they all play just that one.                    *)
Best(score) == {a \in DOMAIN score : \A c \in DOMAIN score : score[a] <= score[c]}
PlayedBefore(id) == UNION {IF xred = "plain_cover" THEN {Cheapest(xrun.b.p[k])} ELSE Best(xrun.b.p[k]) : k \in ({0} \union 2..(id - 1))}
Estimate(a) == IF xred \in {"cover_mtr", "cover_no_predict"} THEN DrCost(xrun.lab, xrun.b.p[1], a) ELSE IpsCost(xrun.lab, a)
CoversTheRest ==
  Finished => \A i \in 1..Len(xrun.steps) :
     LET s == xrun.steps[i]
     IN  (s.learner = "cs" /\ s.op = "learn") =>
           \A x, y \in DOMAIN xrun.lab :
             (Estimate(x) = Estimate(y) /\ x \in PlayedBefore(s.id) /\ y \notin PlayedBefore(s.id)) =>
                /\ s.costs[x + 1] >= s.costs[y + 1]
                /\ PlayedBefore(s.id) = {x} => s.costs[x + 1] > s.costs[y + 1]

(* The statistics: what the metrics count is what was learned, and the     *)
(* loss that is reported weighs the cost of this very example.             *)
MetricsRight ==
  xred \notin PlainExplorers =>
    /\ xmem.labeled = xcount.learned /\ xmem.predict_in_learn = xcount.unlabelled
    /\ xmem.first + xmem.not_first = xmem.labeled /\ xmem.sum_cost = xcount.cost
Loss == FoldLeft(LAMBDA acc, x : acc + (IF x.action = xmem.known.action THEN (xmem.known.cost * x.score) \div xmem.known.p ELSE 0), 0, xpred)
LossOfLogged ==
  (Finished /\ xrun.drawn = << >> /\ xred \notin PlainExplorers) =>
     IF Logged THEN Loss = (LogOf.cost * ScoreOf(xpred, LogOf.action)) \div LogOf.p
     ELSE xmem.known = NoKnownCost

(* cb_sample: an action is drawn for as many numbers as its probability    *)
(* has parts, one of probability zero never, and it is put first while all *)
(* others stay; learning, the logged one is put first.                     *)
DrawnRight ==
  (Finished /\ xrun.drawn # << >>) =>
     LET r == xrun.drawn[1]
         total == SumOf(NonNegative(ScoresOf(r.pmf)))
         before(i) == SumOf(NonNegative(ScoresOf(SubSeq(r.pmf, 1, i))))
     IN  /\ Len(xpred) = Len(r.pmf) /\ ToSet(ActionsOf(xpred)) = ToSet(ActionsOf(r.pmf))
         /\ xpred[1].action = r.pmf[r.index + 1].action
         /\ IF r.draw < 0 THEN xrun.is_learn /\ xpred[1].action = LogOf.action /\ xpred[1].score = ScoreOf(r.pmf, LogOf.action)
            ELSE /\ before(r.index) * One <= r.draw * total /\ before(r.index + 1) * One > r.draw * total
                 /\ xpred[1].score > 0

(* What a comment on regcb and squarecb says ("use fixed probability of    *)
(* one, since there is no importance weighting"): it does not hold for the *)
(* last action of an example.                                              *)
NoImportanceWeights ==
  (Finished /\ xrun.is_learn /\ xred \in Ranges) =>
     \A i \in 1..Len(xrun.steps) : xrun.steps[i].op = "learn" => \A a \in LabelledLines(xrun.steps[i].lab) : xrun.steps[i].lab[a].p = One
(* Elimination in squarecb gives no distribution.                          *)
ElimPmfValid ==
  (Finished /\ xrun.drawn = << >> /\ xred = "squarecb_elim") => (\A x \in ToSet(xpred) : x.score >= 0)

(* All of it, for the run.                                                 *)
ExplorationSound ==
  /\ XTypeOK /\ PmfValid /\ MinimumKept /\ DearerNotLikelier /\ EliminatedRight /\ LabelKept
  /\ LearnsLogged /\ OffsetsApart /\ CoversTheRest /\ MetricsRight /\ LossOfLogged /\ DrawnRight
=============================================================================

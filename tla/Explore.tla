------------------------------- MODULE Explore -------------------------------
(* The exploration library: how scores become probabilities, and how an    *)
(* action is drawn from them.  A probability is a number of parts of One,  *)
(* a distribution a sequence of them; exp(-x) is 2^-x.  One is a multiple  *)
(* of every denominator that comes up, so that divisions are exact.        *)
EXTENDS Integers, Sequences, SequencesExt, FiniteSets, FiniteSetsExt, TLC

CONSTANT One      \* the parts that probability 1 has

ASSUME OneAssumption == One \in Nat \ {0}

SumOf(seq) == FoldLeft(LAMBDA x, y : x + y, 0, seq)
Indices(seq) == [i \in 1..Len(seq) |-> i]
BAD_RANGE == << >>

(* An action that is out of range is replaced by the last one.             *)
generate_epsilon_greedy(epsilon, top_action, num_actions) ==
  IF num_actions = 0 THEN BAD_RANGE
  ELSE LET top == Min({top_action, num_actions - 1})
       IN  [i \in 1..num_actions |-> epsilon \div num_actions + (IF i = top + 1 THEN One - epsilon ELSE 0)]

(* For costs: the smallest score gets the most (lambda is negative).       *)
(* Slip: the largest score gets the most.                                  *)
generate_softmax_Slip(scores) ==
  LET weight == [i \in 1..Len(scores) |-> 2^(scores[i] - Min(ToSet(scores)))]
  IN  [i \in 1..Len(scores) |-> (One * weight[i]) \div SumOf(weight)]
generate_softmax(scores) ==
  LET worst == Max(ToSet(scores))
      weight == [i \in 1..Len(scores) |-> 2^(worst - scores[i])]
  IN  IF scores = << >> THEN BAD_RANGE ELSE [i \in 1..Len(scores) |-> (One * weight[i]) \div SumOf(weight)]

(* The votes of the models, in any unit; nobody votes: the first action.   *)
generate_bag(top_actions) ==
  IF top_actions = << >> THEN BAD_RANGE
  ELSE IF SumOf(top_actions) = 0 THEN [i \in 1..Len(top_actions) |-> IF i = 1 THEN One ELSE 0]
  ELSE [i \in 1..Len(top_actions) |-> (One * top_actions[i]) \div SumOf(top_actions)]

(* What is below the minimum is raised to it, and the same amount is taken *)
(* from everything else, as far as that does not fall below it.            *)
(* Slip: what is above the minimum may fall below it.                      *)
Raised_Slip(pmf, zeros, min, tau) == [i \in 1..Len(pmf) |-> IF zeros \/ pmf[i] > 0 THEN (IF pmf[i] > min THEN pmf[i] - tau ELSE min) ELSE pmf[i]]
Raised(pmf, zeros, min, tau) == [i \in 1..Len(pmf) |-> IF zeros \/ pmf[i] > 0 THEN Max({pmf[i] - tau, min}) ELSE pmf[i]]
Above(sorted, support, min) ==
  Max({1} \union {k \in 1..support : k * (sorted[k] - min) > (support - k) * min + SumOf(SubSeq(sorted, 1, k)) - One})
enforce_minimum_probability(epsilon, zeros, pmf) ==
  LET support == IF zeros THEN Len(pmf) ELSE Cardinality({i \in 1..Len(pmf) : pmf[i] # 0})
      min == epsilon \div support
      sorted == SortSeq(pmf, >)
      rho == Above(sorted, support, min)
  IN  IF pmf = << >> \/ epsilon = 0 \/ epsilon \notin 0..One THEN pmf
      ELSE IF 1000 * epsilon > 999 * One THEN [i \in 1..Len(pmf) |-> IF zeros \/ pmf[i] > 0 THEN One \div support ELSE pmf[i]]
      ELSE Raised(pmf, zeros, min, ((support - rho) * min + SumOf(SubSeq(sorted, 1, rho)) - One) \div rho)

mix_with_uniform(epsilon, pmf) ==
  IF pmf = << >> THEN BAD_RANGE ELSE [i \in 1..Len(pmf) |-> ((One - epsilon) * pmf[i]) \div One + epsilon \div Len(pmf)]

-----------------------------------------------------------------------------
(* Drawing: draw is a number of parts below the total, as merand48 gives   *)
(* it.  Indices count from 0.                                              *)
NonNegative(scores) == [i \in 1..Len(scores) |-> Max({scores[i], 0})]
(* Slip: the index is taken when the sum reaches the draw.                 *)
FirstAbove_Slip(scores, draw) ==
  LET reached == {i \in 1..Len(scores) : SumOf(SubSeq(scores, 1, i)) >= draw}
  IN  IF reached = {} THEN Len(scores) - 1 ELSE Min(reached) - 1
FirstAbove(scores, draw) ==
  LET above == {i \in 1..Len(scores) : SumOf(SubSeq(scores, 1, i)) > draw}
  IN  IF above = {} THEN Len(scores) - 1 ELSE Min(above) - 1
(* sample_after_normalizing leaves probabilities that sum up to One; when  *)
(* all are zero the first one becomes certain.                             *)
sample_after_normalizing(pmf, draw) ==
  LET p == NonNegative(pmf)
      total == SumOf(p)
  IN  IF total = 0 THEN [index |-> 0, pmf |-> [p EXCEPT ![1] = One]]
      ELSE [index |-> FirstAbove(p, (draw * total) \div One), pmf |-> [i \in 1..Len(p) |-> (One * p[i]) \div total]]
sample_scores(scores, draw) ==
  LET s == NonNegative(scores)
  IN  IF SumOf(s) = 0 THEN 0 ELSE FirstAbove(s, (draw * SumOf(s)) \div One)
swap_chosen(seq, chosen) ==
  IF chosen >= Len(seq) THEN BAD_RANGE
  ELSE [i \in 1..Len(seq) |-> IF i = 1 THEN seq[chosen + 1] ELSE IF i = chosen + 1 THEN seq[1] ELSE seq[i]]

(* A density: segments [left, right, value].  The draw is below the mass;  *)
(* the place is where the mass to its left is the draw.                    *)
Mass(segment) == (segment.right - segment.left) * segment.value
sample_pdf(pdf, draw) ==
  LET before(i) == SumOf([j \in 1..(i - 1) |-> Mass(pdf[j])])
      i == Min({k \in 1..Len(pdf) : draw <= before(k) + Mass(pdf[k])})
  IN  [at |-> pdf[i].left, extra |-> draw - before(i), value |-> pdf[i].value]

-----------------------------------------------------------------------------
(* Scores of actions, as the learner below returns them: the smallest cost *)
(* first, of equal ones the first action.                                  *)
Pair(a, s) == [action |-> a, score |-> s]
ScoreLess(x, y) == x.score < y.score \/ (x.score = y.score /\ x.action < y.action)
Ranked(score) == SortSeq([i \in 1..Cardinality(DOMAIN score) |-> Pair(i - 1, score[i - 1])], ScoreLess)
ScoresOf(preds) == [i \in 1..Len(preds) |-> preds[i].score]
ActionsOf(preds) == [i \in 1..Len(preds) |-> preds[i].action]
WithScores(preds, scores) == [i \in 1..Len(preds) |-> Pair(preds[i].action, scores[i])]
ByAction(pmf) == [i \in 1..Len(pmf) |-> Pair(i - 1, pmf[i])]
ScoreOf(preds, a) == (CHOOSE x \in ToSet(preds) : x.action = a).score
fill_tied(preds) ==
  IF preds = << >> THEN 0
  ELSE Max({k \in 1..Len(preds) : \A i \in 1..k : preds[i].score = preds[1].score})
(* By probability, then by the score of the action, then by its number.    *)
sort_action_probs(probs, scores) ==
  SortSeq(probs, LAMBDA x, y : \/ x.score > y.score
                               \/ x.score = y.score /\ scores[x.action + 1] < scores[y.action + 1]
                               \/ x.score = y.score /\ scores[x.action + 1] = scores[y.action + 1] /\ x.action < y.action)
=============================================================================

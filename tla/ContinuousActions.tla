-------------------------- MODULE ContinuousActions --------------------------
(***************************************************************************)
(* Contextual bandits with a continuous action (cats, cats_pdf and what    *)
(* they are made of: sample_pdf, cb_explore_pdf, pmf_to_pdf, get_pmf,      *)
(* cats_tree), and the offset tree.  The range is cut into as many units   *)
(* as there are discrete actions; a place on it is counted in half units.  *)
(* What the learners in the nodes of a tree answer, and when one throws,   *)
(* is free.  One call of the whole stack is one step.                      *)
(***************************************************************************)
EXTENDS Explore

CONSTANTS
    CSetups,    \* [top, actions, bandwidth, min, epsilon, first_only, answers]: the options, and what nodes may answer
    CMaxCalls   \* bound: calls

VARIABLES
    cset,       \* the setup
    cex,        \* [weight, pdf]: what a call may leave in the example
    cdone,      \* what the last call did
    ccalls      \* calls so far

cVars == <<cset, cex, cdone, ccalls>>

MaxValue(s) == s.min + 2 * s.actions
UpToLen(n) == [i \in 1 .. n |-> i]
AbsOf(x) == IF x < 0 THEN -x ELSE x

-----------------------------------------------------------------------------
(* cats_tree: 2n - 1 nodes in the order of a heap, the last n are leaves.  *)
(* pmf_to_pdf_setup: the bandwidth in whole units, rounded up.             *)
TreeBandwidth(s) == IF s.bandwidth <= 1 THEN 0 ELSE (s.bandwidth + 1) \div 2
IsLeafNode(s, v) == v >= s.actions - 1
ParentOf(v) == IF v = 0 THEN 0 ELSE (v - 1) \div 2
SiblingOf(v) == IF v = 2 * ParentOf(v) + 1 THEN 2 * ParentOf(v) + 2 ELSE 2 * ParentOf(v) + 1
DepthOf(v) == Max({d \in 0 .. 8 : 2^d <= v + 1})
(* Nodes with one child that is followed: they keep the bandwidth of an    *)
(* action inside the range.  The root never is one.                        *)
(* Slip: the node on the right is one to the side.                         *)
LeftOnly_Slip(s, v) == v > 0 /\ TreeBandwidth(s) > 0 /\ v = s.actions \div TreeBandwidth(s) - 1
LeftOnly(s, v) == v > 0 /\ TreeBandwidth(s) > 0 /\ v = s.actions \div TreeBandwidth(s) - 2
RightOnly(s, v) == v > 0 /\ TreeBandwidth(s) > 0 /\ v = (s.actions \div TreeBandwidth(s)) \div 2 - 1
OnlyChild(s, v) == LeftOnly(s, v) \/ RightOnly(s, v)

(* cats_tree::predict: 1 to n.                                             *)
ChildOf(s, answer, v) ==
    IF RightOnly(s, v) \/ (~LeftOnly(s, v) /\ answer[v] >= 0) THEN 2 * v + 2 ELSE 2 * v + 1
Descent(s, answer) ==
    FoldLeft(LAMBDA path, i : IF IsLeafNode(s, Last(path)) THEN path ELSE Append(path, ChildOf(s, answer, Last(path))),
             <<0>>, UpToLen(s.actions))
CatsAction(s, answer) == Last(Descent(s, answer)) - (s.actions - 1) + 1

(* cats_tree::learn climbs from the two ends of the window, one level at a *)
(* time.  cost is that of the leaf that the present tree leads to from     *)
(* the node, or the mean where the learner's answer is between -1 and 1.   *)
NodeOfAction(s, action) == Min({action + s.actions - 2, 2 * s.actions - 2})
WindowStart(s, label) ==
    [a |-> NodeOfAction(s, label.lo), ca |-> label.cost, b |-> NodeOfAction(s, label.hi), cb |-> label.cost, taught |-> << >>]
(* Slip: what is between the ends costs nothing.                           *)
ReturnCost_Slip(st, star, w) == IF w = st.a THEN st.ca ELSE IF w = st.b THEN st.cb ELSE 0
ReturnCost(st, star, w) ==
    CASE w = st.a -> st.ca
      [] w > st.a /\ w < st.b -> star
      [] w > st.a /\ w = st.b -> st.cb
      [] OTHER -> 0
(* Slip: the answer is taken to be right.                                  *)
MeanCost_Slip(answer, left, lo, hi) == (lo * (1 + AbsOf(answer)) + hi * (1 - AbsOf(answer))) \div 2
MeanCost(answer, left, lo, hi) ==
    IF (answer < 0) = left THEN (lo * (1 + AbsOf(answer)) + hi * (1 - AbsOf(answer))) \div 2
    ELSE (hi * (1 + AbsOf(answer)) + lo * (1 - AbsOf(answer))) \div 2
TaughtAbove(v, cv, cw) ==
    [node |-> ParentOf(v), left |-> (IF cv < cw THEN v ELSE SiblingOf(v)) = 2 * ParentOf(v) + 1, weight |-> AbsOf(cv - cw)]
Climb(s, answer, v, cv, cw) ==
    IF OnlyChild(s, ParentOf(v)) \/ cv = cw THEN [cost |-> cv, taught |-> << >>]
    ELSE [cost |-> MeanCost(answer[ParentOf(v)], TaughtAbove(v, cv, cw).left, Min({cv, cw}), Max({cv, cw})),
          taught |-> <<TaughtAbove(v, cv, cw)>>]
Level(st, one, two) ==
    [a |-> ParentOf(st.a), ca |-> one.cost, b |-> ParentOf(st.b), cb |-> two.cost,
     taught |-> st.taught \o one.taught \o two.taught]
ClimbLevel(s, answer, star, st) ==
    Level(st, Climb(s, answer, st.a, st.ca, ReturnCost(st, star, SiblingOf(st.a))),
          IF ParentOf(st.a) = ParentOf(st.b) THEN [cost |-> st.cb, taught |-> << >>]
          ELSE Climb(s, answer, st.b, st.cb, ReturnCost(st, star, SiblingOf(st.b))))
CatsTaught(s, answer, label) ==
    FoldLeft(LAMBDA st, d : ClimbLevel(s, answer, label.cost, st), WindowStart(s, label), UpToLen(DepthOf(2 * s.actions - 2))).taught

-----------------------------------------------------------------------------
(* pmf_to_pdf: an action becomes a density around its centre.              *)
CentreOf(s, action) == s.min + 2 * action + 1
Radius(s) == IF s.bandwidth = 0 THEN 1 ELSE s.bandwidth
LeftEnd(s, c) == Max({c - Radius(s), s.min})
RightEnd(s, c) == Min({c + Radius(s), MaxValue(s)})
(* pdf_lim.  The left end is put in only where the centre is not below the *)
(* bandwidth, which compares with 0, not with the least value.             *)
FirstLimit(s, c) == IF c - Radius(s) # s.min THEN <<s.min>> ELSE << >>
WithLeftEnd(s, c, lim) ==
    IF c >= Radius(s) /\ (lim = << >> \/ Last(lim) # LeftEnd(s, c)) THEN Append(lim, LeftEnd(s, c)) ELSE lim
ClosedAt(lim, max) == IF Last(lim) # max THEN Append(lim, max) ELSE lim
Limits(s, c) == ClosedAt(Append(WithLeftEnd(s, c, FirstLimit(s, c)), RightEnd(s, c)), MaxValue(s))
(* Slip: the density is not raised where the window is cut.                *)
ActualWidth_Slip(s, c) == 2 * Radius(s)
ActualWidth(s, c) == RightEnd(s, c) - LeftEnd(s, c)
StartsWindow(s, c, limit) == (c - s.min < Radius(s) /\ limit = s.min) \/ limit = c - Radius(s)
Segment(l, r, v) == [left |-> l, right |-> r, value |-> v]
Segments(s, c, lim) ==
    [i \in 1 .. Len(lim) - 1 |->
       Segment(lim[i], lim[i + 1],
               IF StartsWindow(s, c, lim[i]) /\ \A j \in 1 .. i - 1 : ~StartsWindow(s, c, lim[j])
               THEN One \div ActualWidth(s, c) ELSE 0)]
transform_prediction(s, action) == Segments(s, CentreOf(s, action), Limits(s, CentreOf(s, action)))
(* With first_only a chosen action replaces the prediction of the tree.    *)
SegmentOf(s, x) == Min({s.actions - 1, (x - s.min) \div 2})
DiscreteAction(s, ex, answer) ==
    IF s.first_only /\ ex.chosen # << >> THEN SegmentOf(s, ex.chosen[1]) ELSE CatsAction(s, answer) - 1

(* pmf_to_pdf::learn: the window of units around the logged action.  At    *)
(* the greatest value the index goes beyond the last unit; a sum below     *)
(* zero wraps around.                                                      *)
(* Slip: the nearest limit is taken for the unit.                          *)
LoggedIndex_Slip(s, x) == Min({s.actions - 1, (x - s.min + 1) \div 2})
LoggedIndex(s, x) == IF x < s.min + 2 * (SegmentOf(s, x) + 1) THEN SegmentOf(s, x) ELSE SegmentOf(s, x) + 1
(* Slip: the window begins at the logged unit.                             *)
WindowLow_Slip(s, x) == Max({0, LoggedIndex(s, x)})
WindowLow(s, x) == Max({0, LoggedIndex(s, x) - TreeBandwidth(s)})
WindowHigh(s, x) ==
    IF LoggedIndex(s, x) + TreeBandwidth(s) < 0 THEN s.actions - 1
    ELSE Min({s.actions - 1, LoggedIndex(s, x) + TreeBandwidth(s)})
WindowUnits(s) == IF TreeBandwidth(s) = 0 THEN 1 ELSE 2 * TreeBandwidth(s)    \* the probability is the density times these
WindowLabel(s, label) == [lo |-> WindowLow(s, label.action) + 1, hi |-> WindowHigh(s, label.action) + 1, cost |-> label.cost, units |-> WindowUnits(s)]

-----------------------------------------------------------------------------
(* cb_explore_pdf.  Without a first action the uniform density is added to *)
(* what the prediction already holds.                                      *)
UniformSegment(s) == Segment(s.min, MaxValue(s), One \div (2 * s.actions))
MixedPdf(s, pdf) ==
    [i \in DOMAIN pdf |-> [pdf[i] EXCEPT !.value = (@ * (One - s.epsilon)) \div One + s.epsilon \div (2 * s.actions)]]
ExplorePdf(s, ex, answer, left) ==
    CASE s.first_only /\ ex.given = << >> /\ ex.chosen = << >> -> Append(left, UniformSegment(s))
      [] s.first_only /\ ex.given # << >> -> ex.given
      [] OTHER -> MixedPdf(s, transform_prediction(s, DiscreteAction(s, ex, answer)))

(* sample_pdf: a density without mass is refused, after the random state   *)
(* has gone on.  A place is rounded down.                                  *)
TotalMass(pdf) == SumOf([i \in DOMAIN pdf |-> Mass(pdf[i])])
PlaceOf(drawn) == drawn.at + drawn.extra \div drawn.value
SampleAt(pdf, draw) == IF TotalMass(pdf) = 0 THEN << >> ELSE <<PlaceOf(sample_pdf(pdf, draw))>>

(* cats::get_loss: the unit of the drawn place stands for the prediction.  *)
CatsLoss(s, label, place) ==
    LET c == CentreOf(s, SegmentOf(s, place))
    IN IF AbsOf(label.action - c) > s.bandwidth THEN << >> ELSE <<label.cost, ActualWidth(s, c)>>

-----------------------------------------------------------------------------
(* The offset tree: a tournament for every pair that is left in a round.   *)
(* Leaves are 0 .. n - 1; kids is what is below the others.                *)
PairUp(st) ==
    LET t == st.left
        k == Len(t) \div 2
    IN [size |-> st.size + k, kids |-> st.kids \o [j \in 1 .. k |-> <<t[2 * j - 1], t[2 * j]>>],
        left |-> [j \in 1 .. k |-> st.size + j - 1] \o SubSeq(t, 2 * k + 1, Len(t))]
Tournaments(n) ==
    FoldLeft(LAMBDA st, i : PairUp(st), [size |-> n, kids |-> << >>, left |-> [i \in 1 .. n |-> i - 1]], UpToLen(n)).kids
RowOf(n, v) == v - n + 1     \* the row of node v in kids
NextRound(n, kids, v) ==
    IF \E j \in DOMAIN kids : v \in ToSet(kids[j]) THEN n + (CHOOSE j \in DOMAIN kids : v \in ToSet(kids[j])) - 1 ELSE v

(* predict: from the root down, the chances of a node's children are       *)
(* multiplied by that of the node.                                         *)
Times(pair, p) == <<(pair[1] * p) \div One, (pair[2] * p) \div One>>
(* Slip: the right child is left out.                                      *)
ScaledBelow_Slip(n, kids, buffer, i) ==
    [j \in DOMAIN buffer |-> IF kids[i][1] = n + j - 1 THEN Times(buffer[j], buffer[i][1]) ELSE buffer[j]]
ScaledBelow(n, kids, buffer, i) ==
    [j \in DOMAIN buffer |->
       CASE kids[i][1] = n + j - 1 -> Times(buffer[j], buffer[i][1])
         [] kids[i][2] = n + j - 1 -> Times(buffer[j], buffer[i][2])
         [] OTHER -> buffer[j]]
LeafScores(n, kids, buffer) ==
    [a \in 1 .. n |-> LET i == CHOOSE i \in DOMAIN kids : a - 1 \in ToSet(kids[i])
                      IN buffer[i][IF kids[i][1] = a - 1 THEN 1 ELSE 2]]
OtScores(n, kids, answer) ==
    IF n = 1 THEN <<One>>
    ELSE LeafScores(n, kids, FoldLeft(LAMBDA b, i : ScaledBelow(n, kids, b, i),
                                      [i \in DOMAIN kids |-> <<answer[i - 1], One - answer[i - 1]>>], Reverse(UpToLen(Len(kids)))))

(* learn: up from the logged action; the weight is multiplied by the       *)
(* chance that a tournament, taught already, gives to where it came from.  *)
Ascend(n, kids, answer, st) ==
    LET up == NextRound(n, kids, st.at)
        i == RowOf(n, up)
        left == kids[i][1] = st.at
    IN IF up = st.at THEN st
       ELSE [at |-> up, weight |-> (st.weight * (IF left THEN answer[i - 1] ELSE One - answer[i - 1])) \div One,
             taught |-> Append(st.taught, [node |-> i - 1, left |-> left, weight |-> st.weight])]
OtTaught(n, kids, answer, action) ==
    FoldLeft(LAMBDA st, i : Ascend(n, kids, answer, st), [at |-> action - 1, weight |-> One, taught |-> << >>], UpToLen(n)).taught

-----------------------------------------------------------------------------
NoDone == [kind |-> "none"]
CInit == cset \in CSetups /\ cex = [weight |-> One, pdf |-> << >>] /\ cdone = NoDone /\ ccalls = 0

CReady == cdone = NoDone /\ ccalls < CMaxCalls /\ ccalls' = ccalls + 1 /\ UNCHANGED cset
TreeAnswers == [0 .. cset.actions - 2 -> cset.answers]
ChosenActions == {<< >>, <<cset.min>>, <<cset.min + 3>>, <<MaxValue(cset)>>}
GivenPdfs == {<< >>, <<Segment(cset.min, cset.min + 1, One)>>}
CDraws == {1, One \div 2, One - 1}

(* cats and cats_pdf predict.  sample_pdf clears its own density and puts  *)
(* the example's back; cats_pdf leaves it in the example.                  *)
CatsPredict ==
    /\ CReady /\ cset.top \in {"cats", "cats_pdf"}
    /\ \E answer \in TreeAnswers, chosen \in ChosenActions, given \in GivenPdfs, draw \in CDraws :
         LET ex == [chosen |-> IF cset.first_only THEN chosen ELSE << >>, given |-> IF cset.first_only THEN given ELSE << >>]
             pdf == ExplorePdf(cset, ex, answer, IF cset.top = "cats" THEN << >> ELSE cex.pdf)
         IN /\ cdone' = [kind |-> "predict", ex |-> ex, action |-> DiscreteAction(cset, ex, answer), pdf |-> pdf,
                         drawn |-> IF cset.top = "cats" THEN SampleAt(pdf, draw) ELSE << >>]
            /\ cex' = IF cset.top = "cats" THEN cex ELSE [cex EXCEPT !.pdf = pdf]

(* Places beyond the range are as good as any in a label.                  *)
LoggedPlaces == (cset.min - 3) .. MaxValue(cset)
(* The learning of cats_tree, and what is left when the k-th learner       *)
(* throws: the labels are put back by the guards above, the weight is not. *)
CatsLearn ==
    /\ CReady /\ cset.top \in {"cats", "cats_pdf"} /\ ~cset.first_only
    /\ \E answer \in TreeAnswers, x \in LoggedPlaces, cost \in {-8, 8} :
         LET label == WindowLabel(cset, [action |-> x, cost |-> cost])
             taught == CatsTaught(cset, answer, label)
         IN \E throws \in {0, Len(taught)} :
              /\ cdone' = [kind |-> "learn", x |-> x, label |-> label, answer |-> answer, taught |-> taught, thrown |-> throws > 0]
              /\ cex' = IF throws = 0 THEN cex ELSE [cex EXCEPT !.weight = taught[throws].weight]

OtPredict ==
    /\ CReady /\ cset.top = "offset_tree" /\ UNCHANGED cex
    /\ \E answer \in TreeAnswers :
         cdone' = [kind |-> "ot_predict", answer |-> answer, scores |-> OtScores(cset.actions, Tournaments(cset.actions), answer)]
OtLearn ==
    /\ CReady /\ cset.top = "offset_tree" /\ cset.actions > 1
    /\ \E answer \in TreeAnswers, action \in 1 .. cset.actions :
         LET taught == OtTaught(cset.actions, Tournaments(cset.actions), answer, action)
         IN \E throws \in {0, Len(taught)} :
              /\ cdone' = [kind |-> "ot_learn", answer |-> answer, action |-> action, taught |-> taught, thrown |-> throws > 0]
              /\ cex' = IF throws = 0 THEN cex ELSE [cex EXCEPT !.weight = taught[throws].weight]

(* The example is given back, and used for the next line: its weight is    *)
(* set again, its prediction is not.                                       *)
CFinish == cdone # NoDone /\ cdone' = NoDone /\ cex' = [cex EXCEPT !.weight = One] /\ UNCHANGED <<cset, ccalls>>

CNext == CatsPredict \/ CatsLearn \/ OtPredict \/ OtLearn \/ CFinish
CSpec == CInit /\ [][CNext]_cVars

-----------------------------------------------------------------------------
PowerOfTwo(n) == \E d \in 0 .. 8 : n = 2^d
Predicted == cdone.kind = "predict"

(* The density that is predicted covers the range without gaps and has     *)
(* mass 1, and around the centre of the tree's action it is highest;       *)
(* stated for ranges that begin at zero or above, and for a prediction     *)
(* that was empty before.                                                  *)
Adjacent(pdf) == \A i \in 1 .. Len(pdf) - 1 : pdf[i].right = pdf[i + 1].left /\ pdf[i].left < pdf[i].right
DensityWhole ==
    (Predicted /\ cset.min >= 0 /\ cdone.ex.given = << >> /\ (cset.top = "cats" \/ ccalls = 1)) =>
        LET pdf == cdone.pdf IN
        /\ pdf[1].left = cset.min /\ pdf[Len(pdf)].right = MaxValue(cset) /\ Adjacent(pdf)
        /\ TotalMass(pdf) = One
        /\ (cset.first_only /\ cdone.ex.chosen = << >>) \/
           \E i \in DOMAIN pdf : /\ pdf[i].left < CentreOf(cset, cdone.action) /\ CentreOf(cset, cdone.action) < pdf[i].right
                                 /\ \A j \in DOMAIN pdf : pdf[j].value <= pdf[i].value

LossAroundPrediction ==
    (Predicted /\ cdone.drawn # << >> /\ cset.min >= 0 /\ cset.epsilon = 0 /\ ~cset.first_only) =>
        \A x \in cset.min .. MaxValue(cset) :
            CatsLoss(cset, [action |-> x, cost |-> 8], cdone.drawn[1]) = CatsLoss(cset, [action |-> x, cost |-> 8], CentreOf(cset, cdone.action))

(* An action that is drawn lies in the range, and without mixing within    *)
(* the bandwidth of the tree's action; where the number of actions and the *)
(* bandwidth are powers of two, as the tree is meant for, the tree never   *)
(* predicts an action so near the end of the range that its window is cut. *)
(* With the default bandwidth the loss that is reported is that of the     *)
(* tree's action, wherever in its window the action was drawn.             *)
DrawnInside ==
    Predicted =>
        /\ (cset.min >= 0 /\ cset.top = "cats" /\ cdone.ex.given = << >>) =>
             /\ cdone.drawn # << >> /\ cdone.drawn[1] \in cset.min .. MaxValue(cset)
             /\ (cset.epsilon = 0 /\ ~cset.first_only) =>
                  cdone.drawn[1] \in (CentreOf(cset, cdone.action) - Radius(cset)) .. (CentreOf(cset, cdone.action) + Radius(cset))
        /\ (~cset.first_only /\ PowerOfTwo(cset.actions) /\ PowerOfTwo(TreeBandwidth(cset)) /\ cset.actions >= 4 * TreeBandwidth(cset)) =>
             ActualWidth(cset, CentreOf(cset, cdone.action)) = 2 * Radius(cset)
        /\ cset.bandwidth = 1 => LossAroundPrediction

(* The window that is taught holds the unit of the logged action, and      *)
(* nothing further from it than the bandwidth; stated for actions inside   *)
(* the range.                                                              *)
WindowHolds ==
    (cdone.kind = "learn" /\ cdone.x >= cset.min) =>
        LET unit == SegmentOf(cset, cdone.x) + cset.actions - 1 IN
        /\ NodeOfAction(cset, cdone.label.lo) <= unit /\ unit <= NodeOfAction(cset, cdone.label.hi)
        /\ unit - NodeOfAction(cset, cdone.label.lo) <= TreeBandwidth(cset)
        /\ NodeOfAction(cset, cdone.label.hi) - unit <= TreeBandwidth(cset)

(* What the present tree costs below a node: the label's cost where it     *)
(* leads into the window, else nothing.                                    *)
InWindow(v) == NodeOfAction(cset, cdone.label.lo) <= v /\ v <= NodeOfAction(cset, cdone.label.hi)
CostBelow ==
    LET cost[v \in 0 .. 2 * cset.actions - 2] ==
          IF IsLeafNode(cset, v) THEN (IF InWindow(v) THEN cdone.label.cost ELSE 0)
          ELSE IF RightOnly(cset, v) THEN cost[2 * v + 2]
          ELSE IF LeftOnly(cset, v) THEN cost[2 * v + 1]
          ELSE LET p == cdone.answer[v] IN
               IF p < 0 THEN (cost[2 * v + 1] * (1 - p) + cost[2 * v + 2] * (1 + p)) \div 2
               ELSE (cost[2 * v + 2] * (1 + p) + cost[2 * v + 1] * (1 - p)) \div 2
    IN cost
(* Every node with a choice is taught exactly when its two sides cost      *)
(* differently, once, the cheaper side, with the difference as weight;     *)
(* stated for powers of two, a bandwidth of at most one unit and an action *)
(* inside the range, its end left out: there the window may end below a    *)
(* node with one child that is not followed.                               *)
TaughtExactly(below) ==
    /\ {t.node : t \in ToSet(cdone.taught)} =
         {v \in 0 .. cset.actions - 2 : ~OnlyChild(cset, v) /\ below[2 * v + 1] # below[2 * v + 2]}
    /\ \A t \in ToSet(cdone.taught) :
         t.left = (below[2 * t.node + 1] < below[2 * t.node + 2]) /\ t.weight = AbsOf(below[2 * t.node + 1] - below[2 * t.node + 2])
InRange(x) == cset.min <= x /\ x < MaxValue(cset)
TaughtByCost ==
    (cdone.kind = "learn" /\ PowerOfTwo(cset.actions) /\ TreeBandwidth(cset) <= 1 /\ InRange(cdone.x)) =>
        /\ \A i, j \in DOMAIN cdone.taught : cdone.taught[i].node = cdone.taught[j].node => i = j
        /\ TaughtExactly(CostBelow)
        /\ ~cdone.thrown => cex.weight = One

(* The chances of the offset tree sum up to 1; the tournaments an action   *)
(* has to win are taught once each, from the leaf up to the last one, and  *)
(* the weights that are passed on upwards end with the chance that the     *)
(* tree predicts for the action.                                           *)
BranchChance(t) == IF t.left THEN cdone.answer[t.node] ELSE One - cdone.answer[t.node]
TournamentsWon ==
    /\ cdone.kind = "ot_predict" => SumOf(cdone.scores) = One
    /\ cdone.kind = "ot_learn" =>
         /\ Last(cdone.taught).node = cset.actions - 2
         /\ \A i \in DOMAIN cdone.taught : \A j \in 1 .. i - 1 : cdone.taught[j].node < cdone.taught[i].node
         /\ (Last(cdone.taught).weight * BranchChance(Last(cdone.taught))) \div One =
              OtScores(cset.actions, Tournaments(cset.actions), cdone.answer)[cdone.action]
         /\ ~cdone.thrown => cex.weight = One

-----------------------------------------------------------------------------
(* Statements that do not hold.  A density has mass on a range that begins *)
(* below zero (pdf_lim misses the left end), and when the example's        *)
(* prediction was not empty; the loss is that of the tree's action for any *)
(* bandwidth; a node is taught once for any number of actions, and by the  *)
(* costs of its sides for any bandwidth; the weight is back after a throw; *)
(* a logged action beyond the range teaches the nearest units.             *)
MassOnAnyRange == (Predicted /\ cset.top = "cats" /\ cdone.ex.given = << >>) => TotalMass(cdone.pdf) = One
MassWhenReused == (Predicted /\ cset.min >= 0 /\ cdone.ex.given = << >>) => TotalMass(cdone.pdf) = One
TaughtOnceAnySize == cdone.kind = "learn" => \A i, j \in DOMAIN cdone.taught : cdone.taught[i].node = cdone.taught[j].node => i = j
TaughtAnyBandwidth == (cdone.kind = "learn" /\ PowerOfTwo(cset.actions) /\ PowerOfTwo(TreeBandwidth(cset)) /\ InRange(cdone.x)) => TaughtExactly(CostBelow)
WeightAfterThrow == cdone # NoDone => cex.weight = One
WindowBelowRange == (cdone.kind = "learn" /\ cdone.x < cset.min) => cdone.label.hi <= TreeBandwidth(cset) + 1
=============================================================================

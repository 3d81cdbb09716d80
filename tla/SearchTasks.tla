----------------------------- MODULE SearchTasks ----------------------------
(* The tasks that run on search: the dependency parser, then the others.    *)
(* They share nothing.                                                     *)
EXTENDS Integers, FiniteSets, Sequences, SequencesExt, FiniteSetsExt, TLC

(***************************************************************************)
(* The dependency parser task of search (search_dep_parser.cc): a sentence  *)
(* of n words is read left to right with a stack, and each predicted action *)
(* shifts a word, or gives a word its head and takes it off the stack.      *)
(* `run' is one sentence under one choice of transition system, of learner  *)
(* encoding (one_learner) and of supervision (cost_to_go), following        *)
(* either the policy that the oracle teaches or any allowed action.         *)
(* Features and the losses' scale are left out.                             *)
(***************************************************************************)

CONSTANTS
    MaxWords,       \* the longest sentence; the shortest has two words
    num_label,      \* --num_label
    RootLabels      \* the values of --root_label; 0 puts the word 0 on the stack

SHIFT == 1
REDUCE_RIGHT == 2
REDUCE_LEFT == 3
REDUCE == 4
MY_NULL == 9999999

VARIABLES
    sentence,   \* [num_words, heads, tags]: the words with their gold heads and gold tags
    parser,     \* [sys, root_label, one_learner, cost_to_go, policy]: the options, and whom the learner follows
    dpStack, dpIdx, dpHeads, dpTags,
    dpDone

dpVars == <<sentence, parser, dpStack, dpIdx, dpHeads, dpTags, dpDone>>

num_words == sentence.num_words
words == 1 .. num_words
gold_heads == sentence.heads
gold_tags == sentence.tags
hybrid == parser.sys = "hybrid"

-----------------------------------------------------------------------------
(* Trees over the words, with 0 above the root. *)

Above(heads, w, k) ==   \* the word reached from w by k arcs, as a recursive function of k
    LET up[i \in 0 .. k] == IF i = 0 THEN w
                            ELSE IF up[i - 1] \in DOMAIN heads THEN heads[up[i - 1]] ELSE 0
    IN  up[k]
Descends(heads, w, a, len) == \E k \in 0 .. len : Above(heads, w, k) = a

\* No word is its own ancestor.
Acyclic(heads, len) ==
    \A w \in DOMAIN heads : \A k \in 1 .. len : Above(heads, w, k) = w => w = 0

\* Every word strictly between a word and its head descends from that head.
ProjectiveTree(heads, len) ==
    \A w \in DOMAIN heads : heads[w] \in DOMAIN heads =>
        \A v \in DOMAIN heads :
            (v > w /\ v < heads[w]) \/ (v < w /\ v > heads[w]) => Descends(heads, v, heads[w], len)

\* What a treebank gives: one root, no cycle, no crossing arcs.
GoldTrees(len) ==
    { h \in [1 .. len -> 0 .. len] :
        /\ Cardinality({ w \in 1 .. len : h[w] = 0 }) = 1
        /\ Acyclic(h, len) /\ ProjectiveTree(h, len) }

-----------------------------------------------------------------------------
(* get_valid_actions *)

TopWord == IF dpStack = <<>> THEN 0 ELSE dpStack[Len(dpStack)]
Headed(w) == w \in DOMAIN dpHeads /\ dpHeads[w] # MY_NULL

\* A slip in get_valid_actions: one word on the stack is enough for a right arc.
ValidHybrid_Slip ==
    { a \in {SHIFT, REDUCE_RIGHT, REDUCE_LEFT} :
        \/ a = SHIFT /\ dpIdx <= num_words
        \/ a = REDUCE_RIGHT /\ Len(dpStack) >= 1
        \/ a = REDUCE_LEFT /\ Len(dpStack) >= 1 /\ TopWord # 0 /\ dpIdx <= num_words }
ValidHybrid ==
    { a \in {SHIFT, REDUCE_RIGHT, REDUCE_LEFT} :
        \/ a = SHIFT /\ dpIdx <= num_words
        \/ a = REDUCE_RIGHT /\ Len(dpStack) >= 2
        \/ a = REDUCE_LEFT /\ Len(dpStack) >= 1 /\ TopWord # 0 /\ dpIdx <= num_words }

\* A slip in get_valid_actions: a word may be reduced before it has a head.
ValidEager_Slip ==
    { a \in {SHIFT, REDUCE_RIGHT, REDUCE_LEFT, REDUCE} :
        /\ a \in {SHIFT, REDUCE_RIGHT} => dpIdx < num_words
        /\ a # SHIFT => dpStack # <<>>
        /\ a = REDUCE_LEFT => ~Headed(TopWord)
        /\ a = REDUCE_RIGHT => (dpIdx <= num_words => ~Headed(dpIdx)) }
ValidEager ==
    { a \in {SHIFT, REDUCE_RIGHT, REDUCE_LEFT, REDUCE} :
        /\ a \in {SHIFT, REDUCE_RIGHT} => dpIdx < num_words
        /\ a = REDUCE => dpStack # <<>> /\ (dpIdx <= num_words + 1 => Headed(TopWord))
        /\ a = REDUCE_LEFT => dpStack # <<>> /\ ~Headed(TopWord)
        /\ a = REDUCE_RIGHT => dpStack # <<>> /\ (dpIdx <= num_words => ~Headed(dpIdx)) }

get_valid_actions == IF hybrid THEN ValidHybrid ELSE ValidEager

-----------------------------------------------------------------------------
(* get_hybrid_action_cost, get_eager_action_cost: the gold arcs that an     *)
(* action puts out of reach.                                                *)

Gold(w) == IF w = 0 THEN 0 ELSE gold_heads[w]
IsGold(w, h) == w \in 0 .. num_words /\ Gold(w) = h
Below == IF dpStack = <<>> THEN {} ELSE 1 .. Len(dpStack) - 1     \* positions under the top
One(b) == IF b THEN 1 ELSE 0

\* A slip in get_hybrid_action_cost: a word that still waits for its own dependents may be reduced.
HybridCost_Slip(a) ==
    CASE a = SHIFT -> One(dpStack # <<>> /\ IsGold(TopWord, dpIdx))
      [] a = REDUCE_LEFT -> Cardinality({ i \in dpIdx + 1 .. num_words : IsGold(i, TopWord) \/ IsGold(TopWord, i) })
      [] a = REDUCE_RIGHT -> One(Gold(TopWord) >= dpIdx)
HybridCost(a) ==
    CASE a = SHIFT ->
           Cardinality({ i \in Below : dpIdx <= num_words /\ (IsGold(dpStack[i], dpIdx) \/ IsGold(dpIdx, dpStack[i])) })
           + One(dpStack # <<>> /\ IsGold(TopWord, dpIdx))
      [] a = REDUCE_LEFT ->
           Cardinality({ i \in dpIdx + 1 .. num_words : IsGold(i, TopWord) \/ IsGold(TopWord, i) })
           + One(dpStack # <<>> /\ dpIdx <= num_words /\ IsGold(dpIdx, TopWord))
           + One(Len(dpStack) >= 2 /\ IsGold(TopWord, dpStack[Len(dpStack) - 1]))
      [] a = REDUCE_RIGHT ->
           One(Gold(TopWord) >= dpIdx) + Cardinality({ i \in dpIdx .. num_words : IsGold(i, TopWord) })

EagerCost(a) ==
    LET waiting == Cardinality({ i \in DOMAIN dpStack : IsGold(dpStack[i], dpIdx) /\ ~Headed(dpStack[i]) })
        heads(S) == Cardinality({ i \in DOMAIN dpStack : IsGold(dpIdx, dpStack[i]) /\ dpStack[i] \in S })
        coming == Cardinality({ i \in dpIdx .. num_words : IsGold(i, TopWord) })
    IN  CASE a = SHIFT -> waiting + heads(1 .. num_words)
          [] a = REDUCE_RIGHT ->
               waiting + heads((0 .. num_words) \ {TopWord})
               + One(dpIdx \in words /\ (Gold(dpIdx) > dpIdx \/ (Gold(dpIdx) = 0 /\ dpStack # <<>> /\ dpStack[1] # 0)))
          [] a = REDUCE -> coming
          [] a = REDUCE_LEFT -> coming + Cardinality({ i \in dpIdx + 1 .. num_words + 1 : IsGold(TopWord, i) })

action_loss(a) == IF hybrid THEN HybridCost(a) ELSE EagerCost(a)

\* get_gold_actions: the loop starts from SHIFT whether it is valid or not.
get_gold_actions ==
    LET valid == get_valid_actions
        actions == IF hybrid THEN 1 .. 3 ELSE 1 .. 4
        best[i \in 0 .. 4] == IF i = 0 THEN SHIFT
                              ELSE IF i \in valid /\ action_loss(i) < action_loss(best[i - 1]) THEN i
                              ELSE best[i - 1]
    IN  IF hybrid /\ SHIFT \in valid /\ (dpStack = <<>> \/ IsGold(dpIdx, TopWord)) THEN {SHIFT}
        ELSE IF hybrid /\ REDUCE_LEFT \in valid /\ IsGold(TopWord, dpIdx) THEN {REDUCE_LEFT}
        ELSE { i \in valid : action_loss(i) = action_loss(best[Cardinality(actions)]) }

-----------------------------------------------------------------------------
(* The labels, and the one-learner encoding of an action with its label.    *)

left_label == IF dpStack = <<>> \/ TopWord = 0 THEN MY_NULL ELSE gold_tags[TopWord]
right_label ==
    IF hybrid THEN left_label
    ELSE IF dpIdx <= num_words THEN gold_tags[dpIdx] ELSE parser.root_label

LabelsOf(sys, a) ==         \* the labels an unsupervised reduction may be given
    { l \in 1 .. num_label : l = parser.root_label => (sys = "eager" /\ a = REDUCE_LEFT) }

Encode(a, l) == CASE a = SHIFT -> SHIFT
                  [] a = REDUCE -> 2 + 2 * num_label
                  [] a = REDUCE_RIGHT -> 1 + l
                  [] a = REDUCE_LEFT -> 1 + l + num_label
Labelled(a) == a \in {REDUCE_RIGHT, REDUCE_LEFT}
GoldLabel(a) == IF a = REDUCE_LEFT THEN left_label ELSE right_label

\* convert_to_onelearner_actions with the gold labels, and without any.
OneLearnerGold ==
    { Encode(a, GoldLabel(a)) : a \in { b \in get_gold_actions : Labelled(b) => left_label # MY_NULL } }
    \cup { Encode(a, l) : a \in { b \in get_gold_actions : Labelled(b) /\ left_label = MY_NULL }, l \in LabelsOf(parser.sys, REDUCE_RIGHT) }
OneLearnerAllowed ==
    UNION { { Encode(a, l) : l \in IF Labelled(a) THEN LabelsOf(parser.sys, a) ELSE {1} } : a \in get_valid_actions }

\* get_cost_to_go_losses: the allowed actions, each with its cost.
cost_to_go_losses ==
    UNION { { <<Encode(a, l), action_loss(a) + One(Labelled(a) /\ l # GoldLabel(a))>> :
                 l \in IF ~Labelled(a) THEN {1}
                       ELSE IF hybrid THEN (1 .. num_label) \ {parser.root_label} ELSE 1 .. num_label } :
            a \in get_valid_actions }

\* A slip in the decoding: the labels are counted from zero.
Decode_Slip(e) ==
    IF e = SHIFT THEN <<SHIFT, 0>>
    ELSE IF e = 2 * num_label + 2 THEN <<REDUCE, 0>>
    ELSE IF e <= num_label THEN <<REDUCE_RIGHT, e - 1>>
    ELSE <<REDUCE_LEFT, e - num_label>>
\* The end of `run''s prediction: what a one-learner action stands for.
Decode(e) ==
    IF e = SHIFT THEN <<SHIFT, 0>>
    ELSE IF e = 2 * num_label + 2 THEN <<REDUCE, 0>>
    ELSE IF e - 1 <= num_label THEN <<REDUCE_RIGHT, e - 1>>
    ELSE <<REDUCE_LEFT, e - num_label - 1>>

\* What the oracle teaches the learner to answer, and what the learner may answer.
CheapestOf(costs) == { c[1] : c \in { d \in costs : \A e \in costs : d[2] <= e[2] } }
Teaches ==
    IF parser.one_learner
    THEN IF parser.cost_to_go THEN { Decode(e) : e \in CheapestOf(cost_to_go_losses) }
         ELSE { Decode(e) : e \in OneLearnerGold }
    ELSE LET acts == IF parser.cost_to_go
                     THEN { a \in get_valid_actions : \A b \in get_valid_actions : action_loss(a) <= action_loss(b) }
                     ELSE get_gold_actions
         IN  { <<a, IF Labelled(a) THEN GoldLabel(a) ELSE 0>> : a \in acts }
Allows ==
    IF parser.one_learner
    THEN IF parser.cost_to_go THEN { Decode(c[1]) : c \in cost_to_go_losses }
         ELSE { Decode(e) : e \in OneLearnerAllowed }
    ELSE { p \in get_valid_actions \X (0 .. num_label) : Labelled(p[1]) <=> p[2] # 0 }

-----------------------------------------------------------------------------
DpInit ==
    /\ parser \in [sys : {"hybrid", "eager"}, root_label : RootLabels, one_learner : BOOLEAN,
                   cost_to_go : BOOLEAN, policy : {"oracle", "any"}]
    /\ \E len \in 2 .. MaxWords : \E h \in GoldTrees(len) :
         sentence = [num_words |-> len, heads |-> h,
                     tags |-> [w \in 1 .. len |-> IF h[w] = 0 THEN num_label ELSE 1 + (w % (num_label - 1))]]
    /\ dpStack = IF parser.root_label = 0 /\ hybrid THEN <<0>> ELSE <<1>>
    /\ dpIdx = IF parser.root_label = 0 /\ hybrid THEN 1 ELSE 2
    /\ dpHeads = [w \in words |-> MY_NULL]
    /\ dpTags = [w \in words |-> MY_NULL]
    /\ dpDone = FALSE

Stops == dpIdx >= num_words /\ (IF hybrid THEN Len(dpStack) <= 1 ELSE dpStack = <<>>)

Attach(w, h, l) == /\ dpHeads' = [dpHeads EXCEPT ![w] = h]
                   /\ dpTags' = [dpTags EXCEPT ![w] = l]

\* transition_hybrid
TransitionHybrid(a, l) ==
    \/ /\ a = SHIFT
       /\ dpStack' = Append(dpStack, dpIdx)
       /\ dpIdx' = dpIdx + 1
       /\ UNCHANGED <<dpHeads, dpTags>>
    \/ /\ a = REDUCE_RIGHT
       /\ Attach(TopWord, IF Len(dpStack) >= 2 THEN dpStack[Len(dpStack) - 1] ELSE TopWord, l)
       /\ dpStack' = Front(dpStack)
       /\ UNCHANGED dpIdx
    \/ /\ a = REDUCE_LEFT
       /\ Attach(TopWord, dpIdx, l)
       /\ dpStack' = Front(dpStack)
       /\ UNCHANGED dpIdx

\* transition_eager
TransitionEager(a, l) ==
    \/ /\ a = SHIFT
       /\ dpStack' = Append(dpStack, dpIdx)
       /\ dpIdx' = dpIdx + 1
       /\ UNCHANGED <<dpHeads, dpTags>>
    \/ /\ a = REDUCE_RIGHT
       /\ Attach(dpIdx, TopWord, l)
       /\ dpStack' = Append(dpStack, dpIdx)
       /\ dpIdx' = dpIdx + 1
    \/ /\ a = REDUCE_LEFT
       /\ Attach(TopWord, IF dpIdx > num_words THEN 0 ELSE dpIdx, l)
       /\ dpStack' = Front(dpStack)
       /\ UNCHANGED dpIdx
    \/ /\ a = REDUCE
       /\ dpStack' = Front(dpStack)
       /\ UNCHANGED <<dpIdx, dpHeads, dpTags>>

\* One round of the loop of run. Where the oracle names nothing, search lets any allowed action through.
Round ==
    /\ ~dpDone /\ ~Stops
    /\ \E al \in IF parser.policy = "oracle" /\ Teaches # {} THEN Teaches ELSE Allows :
         IF hybrid THEN TransitionHybrid(al[1], al[2]) ELSE TransitionEager(al[1], al[2])
    /\ UNCHANGED <<sentence, parser, dpDone>>

\* The end of run: in the hybrid system what is left on the stack is the root.
Finish ==
    /\ ~dpDone /\ Stops
    /\ dpDone' = TRUE
    /\ IF hybrid /\ TopWord # 0 THEN Attach(TopWord, 0, parser.root_label) ELSE UNCHANGED <<dpHeads, dpTags>>
    /\ UNCHANGED <<sentence, parser, dpStack, dpIdx>>

DpNext == Round \/ Finish
DpSpec == DpInit /\ [][DpNext]_dpVars

-----------------------------------------------------------------------------
(* Properties *)

WordsRead == { w \in words : w < dpIdx }
Arcs == [w \in { v \in words : Headed(v) } |-> dpHeads[w]]

\* The parser always has an action to take until it stops, and stops with a head for every word it has
\* read: get_valid_actions, the stop test of run and the transitions agree about an empty stack, the
\* last word and the word that is left over as the root.
ReadWordsAttached ==
    /\ ~dpDone /\ ~Stops => Allows # {}
    /\ dpDone => \A w \in WordsRead : Headed(w)

\* Whatever actions are predicted, the arcs never form a cycle and never cross.
ArcsFormForest == Acyclic(Arcs, num_words) /\ ProjectiveTree(Arcs, num_words)

\* The sentences that a system can rebuild: arc-eager takes the last word for the root, and arc-hybrid
\* with a root label stops before a last word that would be the root.
Rebuildable == IF hybrid THEN parser.root_label # 0 => gold_heads[num_words] # 0 ELSE gold_heads[num_words] = 0

\* Following the actions that the oracle teaches (get_gold_actions or the costs of cost_to_go, in either
\* encoding) gives every word that is read its gold head and its gold tag.
OracleRebuilds ==
    dpDone /\ parser.policy = "oracle" /\ Rebuildable =>
        \A w \in WordsRead : dpHeads[w] = gold_heads[w] /\ (w # TopWord => dpTags[w] = gold_tags[w])

\* Exactly one word of a parsed sentence is its root, and every other has a head.
OneRoot ==
    dpDone /\ hybrid /\ parser.root_label # 0 =>
        /\ Cardinality({ w \in words : dpHeads[w] = 0 }) = 1
        /\ \A w \in words : Headed(w)

-----------------------------------------------------------------------------
(***************************************************************************)
(* The other tasks: sequence labelling (sequence, sequence_ctg,            *)
(* sequence_demoldf, sequencespan), argmax, multiclasstask,                *)
(* entity_relation and graph, and the metatask selective_branching.  A     *)
(* task is a program whose only inputs are the labels of its examples and  *)
(* the answers to its predict calls; here it is what it asks next (a call),*)
(* and what it makes of the answer.  A call is answered by a learned       *)
(* policy, with any allowed action, or by the oracle, with any of the      *)
(* oracle actions, allowed or not (choose_oracle_action).                  *)
(***************************************************************************)

CONSTANTS
    TaskInputs,     \* [task, policy, and the task's options and labels]
    HistoryLength,  \* --search_history_length
    MaxRuns         \* bound: runs of the task on one input

VARIABLES
    tin,        \* the input
    tkeep,      \* the task's data, and the label search keeps for allowed actions
    tmem,       \* the local variables of the run, or of the last one
    trunning,   \* a run is under way
    tcalls,     \* the calls of this run, with their answers
    tlosses,    \* the losses declared in this run
    truns       \* runs done

tkVars == <<tin, tkeep, tmem, trunning, tcalls, tlosses, truns>>

TaskIs(names) == tin.task \in names

-----------------------------------------------------------------------------
(* Search::predictor: what a call says.  An empty list of allowed actions  *)
(* means all; lines is 0 unless the features depend on the label.          *)
Asks(tag, ex, oracle, learner) ==
    [tag |-> tag, ex |-> ex, oracle |-> oracle, learner |-> learner, allowed |-> << >>, costs |-> << >>, lines |-> 0, cond |-> << >>]
(* Slip: one tag more than there is history.                               *)
ConditionRange_Slip(hi, count) == [k \in 1 .. Min({count + 1, hi + 1}) |-> hi - k + 1]
ConditionRange(hi, count) == [k \in 1 .. Min({count, hi + 1}) |-> hi - k + 1]

(* action_hamming_loss: no oracle, no loss.                                *)
HammingLoss(a, oracle) == IF oracle = << >> \/ a \in ToSet(oracle) THEN 0 ELSE 1
CostLoss(a, call) == call.costs[a]

(* allowed_actions_to_ld: a label of A entries is taken to name all        *)
(* actions; with lines it grows and never shrinks.                         *)
AllActions(n) == [a \in 1 .. n |-> a]
(* Slip: a list as long as the one before is taken to be the same.         *)
AllowedToLd_Slip(ld, call, n) ==
    CASE call.lines > 0 -> IF Len(ld) >= call.lines THEN ld ELSE [k \in 1 .. call.lines |-> k - 1]
      [] call.lines = 0 /\ call.allowed # << >> -> IF Len(ld) = Len(call.allowed) THEN ld ELSE call.allowed
      [] OTHER -> IF Len(ld) = n THEN ld ELSE AllActions(n)
AllowedToLd(ld, call, n) ==
    CASE call.lines > 0 -> IF Len(ld) >= call.lines THEN ld ELSE [k \in 1 .. call.lines |-> k - 1]
      [] call.lines = 0 /\ call.allowed # << >> -> call.allowed
      [] OTHER -> IF Len(ld) = n THEN ld ELSE AllActions(n)

(* choose_oracle_action, and what a learned policy may answer.             *)
CheapestActions(costs) == {a \in DOMAIN costs : \A b \in DOMAIN costs : costs[a] <= costs[b]}
ChoosesOracle(call) ==
    IF call.costs # << >> THEN CheapestActions(call.costs) ELSE ToSet(call.oracle)
ChoosesLearned(call, n) ==
    CASE call.lines > 0 -> 0 .. call.lines - 1
      [] call.lines = 0 /\ call.allowed # << >> -> ToSet(call.allowed)
      [] OTHER -> 1 .. n

-----------------------------------------------------------------------------
(* Sequences: one call for each example, with the tag of its position and  *)
(* the tags before it as conditions.  The task with costs gives them all;  *)
(* the one with lines counts classes from 0.                               *)
SequenceAsk(m) ==
    LET call == [Asks(m.i, m.i, <<tin.gold[m.i]>>, 0) EXCEPT !.cond = ConditionRange(m.i - 1, HistoryLength)]
    IN CASE tin.task = "sequence" -> call
         [] tin.task = "sequence_ctg" -> [call EXCEPT !.oracle = << >>,
              !.costs = [k \in 1 .. tin.actions |-> IF k = tin.gold[m.i] THEN 0 ELSE 1]]
         [] tin.task = "sequence_demoldf" -> [call EXCEPT !.oracle = <<tin.gold[m.i] - 1>>, !.lines = tin.actions]
SequenceTold(m, a) ==
    [m EXCEPT !.i = @ + 1, !.out = Append(@, IF tin.task = "sequence_demoldf" THEN a + 1 ELSE a)]

-----------------------------------------------------------------------------
(* Spans.  BIO: 1 is outside, 2x begins and 2x + 1 continues a span of     *)
(* kind x.  BILOU: 4x - 2 is a unit, then begin, in and last.              *)
bilou_to_bio(y) == y \div 2 + 1
(* Slip: the last word of a span is not told from those inside.            *)
ToBilou_Slip(y, next) ==
    CASE y = 1 -> 1
      [] y # 1 /\ y % 2 = 0 -> (y \div 2 - 1) * 4 + (IF next # y + 1 THEN 2 ELSE 3)
      [] OTHER -> (y - 1) * 2
ToBilou(y, next) ==
    CASE y = 1 -> 1
      [] y # 1 /\ y % 2 = 0 -> (y \div 2 - 1) * 4 + (IF next # y + 1 THEN 2 ELSE 3)
      [] OTHER -> (y - 1) * 2 + (IF next # y THEN 1 ELSE 0)
convert_bio_to_bilou(gold) ==
    [n \in DOMAIN gold |-> ToBilou(gold[n], IF n = Len(gold) THEN 0 ELSE gold[n + 1])]

SpanActions == IF tin.bilou THEN tin.actions * 2 - 1 ELSE tin.actions
(* The last entry is written over before each call.                        *)
SpanAllowed(n, bilou) ==
    IF bilou THEN <<1>> \o FlattenSeq([k \in 1 .. (n + 1) \div 4 |-> <<4 * k - 2, 4 * k - 1>>])
    ELSE <<1>> \o [k \in 1 .. (n - 1) \div 2 |-> 2 * k] \o <<1>>
(* Slip: what may continue a span is not written when it was begun.        *)
Continues_Slip(last) == last
Continues(last) == IF last % 2 = 0 THEN last + 1 ELSE last
BioAllowed(list, last) == IF last = 1 THEN Front(list) ELSE [list EXCEPT ![Len(list)] = Continues(last)]
BioOracle(oracle, last) ==
    IF oracle > 1 /\ oracle % 2 = 1 /\ last # oracle /\ last # oracle - 1 THEN 1 ELSE oracle
Ended(last) == last = 1 \/ last % 4 \in {2, 1}      \* outside, a unit, or the last of a span
OtherOf(last) == IF last % 4 = 3 THEN last + 2 ELSE last
BilouAllowed(list, last) == IF Ended(last) THEN list ELSE <<last + 1, OtherOf(last)>>
BilouOracle(oracle, last) ==
    IF Ended(last) THEN (IF oracle > 1 /\ oracle % 4 \in {0, 1} THEN 1 ELSE oracle)
    ELSE IF oracle \in {last + 1, OtherOf(last)} THEN oracle ELSE OtherOf(last)

SpanAsk(m) ==
    LET gold == tkeep.labels[m.i]
        call == Asks(m.i, m.i, <<IF tin.bilou THEN BilouOracle(gold, m.last) ELSE BioOracle(gold, m.last)>>, m.pass - 1)
    IN [call EXCEPT
          !.allowed = IF tin.bilou THEN BilouAllowed(tkeep.allowed, m.last) ELSE BioAllowed(tkeep.allowed, m.last),
          !.cond = ConditionRange(m.i - 1, HistoryLength)
                     \o (IF m.pass > 1 THEN ConditionRange(m.i + HistoryLength, HistoryLength + 1) ELSE << >>)]
SpanTold(m, a) ==
    IF m.i < Len(tin.gold) THEN [m EXCEPT !.i = @ + 1, !.last = a, !.out = Append(@, IF tin.bilou THEN bilou_to_bio(a) ELSE a)]
    ELSE [m EXCEPT !.i = 1, !.pass = @ + 1, !.last = 1,
                   !.out = IF m.pass = tin.multipass THEN Append(@, IF tin.bilou THEN bilou_to_bio(a) ELSE a) ELSE << >>]

-----------------------------------------------------------------------------
(* argmax: only the largest prediction counts.                             *)
MaxLabel == Max(ToSet(tin.gold) \union {1})
ArgmaxAsk(m) ==
    [Asks(m.i, m.i, <<IF tin.predict_max THEN MaxLabel ELSE tin.gold[m.i]>>, 0) EXCEPT !.cond = <<m.i - 1>>]
ArgmaxTold(m, a) == [m EXCEPT !.i = @ + 1, !.out = <<Max({a, 1} \union ToSet(m.out))>>]
ArgmaxLoss(m) ==
    CASE MaxLabel > Head(m.out) -> tin.false_negative_cost
      [] Head(m.out) > MaxLabel -> 1
      [] OTHER -> 0

(* multiclasstask: one call for each bit of the label, with a learner for  *)
(* every node of the tree.                                                 *)
NumLevel(n) == Min({l \in 0 .. 8 : 2^l >= n})
LevelMask(m) == 2^(NumLevel(tin.actions) - m.i)
(* Slip: the last label cannot be reached.                                 *)
LabelFits_Slip(m) == m.label + LevelMask(m) + 1 < tin.actions
LabelFits(m) == m.label + LevelMask(m) + 1 <= tin.actions
MulticlassAsk(m) ==
    [Asks(0, 1, <<(((tin.gold[1] - 1) \div LevelMask(m)) % 2) + 1>>, m.learner) EXCEPT
       !.allowed = IF LabelFits(m) THEN <<1, 2>> ELSE <<1>>]
(* Slip: both branches lead to the same learner.                           *)
MulticlassTold_Slip(m, a) ==
    LET label == IF a = 2 THEN m.label + LevelMask(m) ELSE m.label
    IN [m EXCEPT !.i = @ + 1, !.label = label, !.learner = 2 * @ + 1, !.out = <<label + 1>>]
MulticlassTold(m, a) ==
    LET label == IF a = 2 THEN m.label + LevelMask(m) ELSE m.label
    IN [m EXCEPT !.i = @ + 1, !.label = label, !.learner = 2 * @ + a, !.out = <<label + 1>>]

-----------------------------------------------------------------------------
(* entity_relation: examples are entities, then relations between two of   *)
(* them; with constraints a relation must fit the entities predicted.      *)
R_NONE == 10
LABEL_SKIP == 11
EntityAllowed == <<1, 2, 3, 4>>
RelationAllowed == <<5, 6, 7, 8, 9, 10>>
ValidEnt1 == <<2, 3, 4, 2, 2>>
ValidEnt2 == <<4, 4, 4, 3, 2>>
check_constraints(ent1, ent2, rel) ==
    rel = R_NONE \/ (ValidEnt1[rel - 4] = ent1 /\ ValidEnt2[rel - 4] = ent2)

ErCount == Len(tin.gold)
NumEntities == Max({n \in 0 .. ErCount : (n * (n + 1)) \div 2 <= ErCount})
ErPairs == [k \in 1 .. (ErCount - NumEntities) |->     \* what the tags of the relations say
              CHOOSE p \in (1 .. NumEntities) \X (1 .. NumEntities) :
                p[1] < p[2] /\ ((p[1] - 1) * (2 * NumEntities - p[1])) \div 2 + p[2] - p[1] = k]
PairOf(x) == ErPairs[x - NumEntities]
(* Slip: a constraint is applied when one of the two entities is known.    *)
Constrained_Slip(m, x) == tin.constraints /\ (m.pred[PairOf(x)[1]] # 0 \/ m.pred[PairOf(x)[2]] # 0)
Constrained(m, x) == tin.constraints /\ m.pred[PairOf(x)[1]] # 0 /\ m.pred[PairOf(x)[2]] # 0
RelationLabels(m, x) ==
    SelectSeq(RelationAllowed,
              LAMBDA r : ~Constrained(m, x) \/ check_constraints(m.pred[PairOf(x)[1]], m.pred[PairOf(x)[2]], r))

(* predict_entity, predict_relation.                                       *)
ErSkips(m) == tin.order = 2 /\ ~m.must
ErStar(x, skip) == IF skip THEN <<tin.gold[x], LABEL_SKIP>> ELSE <<tin.gold[x]>>
EntityAsk(m, x) ==
    IF tin.order = 3 THEN [Asks(x - 1, x, <<tin.gold[x] - 1>>, 1) EXCEPT !.lines = 4]
    ELSE [Asks(x - 1, x, ErStar(x, ErSkips(m)), IF ErSkips(m) THEN 1 ELSE 0) EXCEPT
            !.allowed = IF ErSkips(m) THEN Append(EntityAllowed, LABEL_SKIP) ELSE EntityAllowed]
PositionOf(list, y) == IF y \in ToSet(list) THEN Max({k \in DOMAIN list : list[k] = y}) - 1 ELSE 0
RelationAsk(m, x) ==
    IF tin.order = 3
    THEN [Asks(x - 1, x, <<PositionOf(RelationLabels(m, x), tin.gold[x])>>, 2) EXCEPT !.lines = Len(RelationLabels(m, x))]
    ELSE [Asks(x - 1, x, ErStar(x, ErSkips(m)), IF ErSkips(m) THEN 2 ELSE 1) EXCEPT
            !.allowed = IF ErSkips(m) THEN Append(RelationLabels(m, x), LABEL_SKIP) ELSE RelationLabels(m, x),
            !.cond = IF ErSkips(m) THEN PairOf(x) ELSE << >>]
ErAsk(m, x) == IF x <= NumEntities THEN EntityAsk(m, x) ELSE RelationAsk(m, x)
ErPrediction(m, x, a) ==
    CASE tin.order # 3 -> a
      [] tin.order = 3 /\ x <= NumEntities -> a + 1
      [] OTHER -> RelationLabels(m, x)[a + 1]
ErLoss(x, y) ==     \* in hundredths
    CASE y = LABEL_SKIP -> 1
      [] y # LABEL_SKIP /\ y = tin.gold[x] -> 0
      [] y # LABEL_SKIP /\ y # tin.gold[x] /\ x > NumEntities /\ tin.gold[x] = R_NONE -> 50
      [] OTHER -> 100

(* er_mixed_decoding: an entity, then its relations to the ones before it. *)
(* The break after a relation leaves the inner loop only, so that the next *)
(* entity is predicted in the same round.                                  *)
RelIndex(i, j) == NumEntities + ((2 * NumEntities - j - 1) * j) \div 2 + (i - j - 1) + 1   \* i, j from 0
MixedTurns == FlattenSeq([i \in 1 .. NumEntities |-> <<i>> \o [j \in 1 .. i - 1 |-> RelIndex(i - 1, j - 1)]])
EntityOf(x) == PairOf(x)[2]
MixedRound(t) ==
    LET x == MixedTurns[t]
    IN IF x > NumEntities /\ EntityOf(x) < NumEntities THEN <<x, EntityOf(x) + 1>> ELSE <<x>>
MixedOrder == FlattenSeq([t \in 1 .. ErCount |-> MixedRound(t)])

(* Which example is next; the one of er_allow_skip_decoding is the next    *)
(* one, round and round, that has no prediction.                           *)
ErOrder == IF tin.order = 1 THEN MixedOrder ELSE AllActions(ErCount)
ErCurrent(m) == IF tin.order = 2 THEN m.i ELSE ErOrder[m.i]
(* At the end of a round: when nothing was predicted in it, the next call  *)
(* must predict.                                                           *)
(* Slip: only when nothing was predicted at all.                           *)
Stalled_Slip(m) == m.done = 0
Stalled(m) == m.done = m.before
RoundEnds(m) ==
    IF m.i < ErCount THEN [m EXCEPT !.i = @ + 1]
    ELSE [m EXCEPT !.i = 1, !.must = @ \/ Stalled(m), !.before = m.done]
ErSkipTold(m, y) ==
    RoundEnds([m EXCEPT !.pred[m.i] = IF y = LABEL_SKIP THEN 0 ELSE y, !.done = IF y = LABEL_SKIP THEN @ ELSE @ + 1, !.must = FALSE])
ErTold(m, a) ==
    LET x == ErCurrent(m)
        y == ErPrediction(m, x, a)
    IN IF tin.order = 2 THEN ErSkipTold(m, y) ELSE [m EXCEPT !.pred[x] = y, !.i = @ + 1, !.done = @ + 1]

-----------------------------------------------------------------------------
(* graph: lines are nodes, with at most one label, then edges, with two or *)
(* more nodes; 0 separates sources from sinks.                             *)
IsEdge(line) == Len(line) > 1
GraphNodes == {n \in DOMAIN tin.lines : ~IsEdge(tin.lines[n])}
GraphSize == Cardinality(GraphNodes)
SetupThrows ==
    \/ \E n, e \in DOMAIN tin.lines : e < n /\ IsEdge(tin.lines[e]) /\ ~IsEdge(tin.lines[n])
    \/ GraphNodes = {}
    \/ \E e \in DOMAIN tin.lines \ GraphNodes : \E k \in DOMAIN tin.lines[e] : tin.lines[e][k] > GraphSize
AdjacentEdges(n) == SetToSortSeq({e \in DOMAIN tin.lines \ GraphNodes : n \in ToSet(tin.lines[e])}, <)

(* run_bfs: outward from the first node; then from the first one that was  *)
(* not reached.                                                            *)
NodesOf(e) == SelectSeq(tin.lines[e], LAMBDA n : n > 0)
Reached(seq) == FoldLeft(LAMBDA out, n : IF n \in ToSet(out) THEN out ELSE Append(out, n), << >>, seq)
Visit(bfs, n) == Reached(bfs \o FlattenSeq([k \in DOMAIN AdjacentEdges(n) |-> NodesOf(AdjacentEdges(n)[k])]))
BfsStep(st) ==
    IF st.i < Len(st.bfs) THEN [bfs |-> Visit(st.bfs, st.bfs[st.i + 1]), i |-> st.i + 1]
    ELSE IF Len(st.bfs) < GraphSize THEN [st EXCEPT !.bfs = Append(@, Min(GraphNodes \ ToSet(st.bfs)))]
    ELSE st
run_bfs == FoldLeft(LAMBDA st, k : BfsStep(st), [bfs |-> <<1>>, i |-> 0], AllActions(2 * GraphSize)).bfs

(* Outward on even loops, inward on odd ones (the first loop is 0).        *)
LoopNode(m) == IF m.loop % 2 = 0 THEN tkeep.bfs[m.i] ELSE tkeep.bfs[GraphSize + 1 - m.i]
(* add_edge_features: for every edge of a node, the present predictions of *)
(* the other nodes on it, those across a directed edge apart.              *)
SideOf(n, e) ==     \* n_in_sink: not among the sources
    ~tin.directed \/ ~(\E k \in 1 .. Len(tin.lines[e]) - 1 : tin.lines[e][k] = n /\ \A j \in 1 .. k : tin.lines[e][j] # 0)
InSink(e, k) == k = Len(tin.lines[e]) \/ \E j \in 1 .. k : tin.lines[e][j] = 0
NeighborPredictions(m, n, e) ==
    LET others == SelectSeq(AllActions(Len(tin.lines[e])), LAMBDA k : tin.lines[e][k] \notin {0, n})
    IN [j \in DOMAIN others |->
          m.pred[tin.lines[e][others[j]]] - 1
            + (IF tin.directed /\ SideOf(n, e) # InSink(e, others[j]) THEN tin.actions + 1 ELSE 0)]
EdgeFeatures(m, n) ==
    SelectSeq([k \in DOMAIN AdjacentEdges(n) |-> [edge |-> AdjacentEdges(n)[k], seen |-> NeighborPredictions(m, n, AdjacentEdges(n)[k])]],
              LAMBDA f : f.seen # << >>)
(* An edge with one other node gives one feature, else one for each        *)
(* prediction that occurs.  Interactions with them are counted too, and    *)
(* del_edge_features takes the features off again, not the interactions.   *)
EdgeFeatureCount(fs) == FoldLeft(LAMBDA s, f : s + Cardinality(ToSet(f.seen)), 0, fs)
(* Slip: the features are not taken off.                                   *)
AfterCall_Slip(size, added, crossed) == size + added + crossed
AfterCall(size, added, crossed) == size + added + crossed - added

(* The conditions are read from the first lines of the input, as many as   *)
(* the node has edges, instead of from its edges.                          *)
GraphConditions(n) ==
    SelectSeq(FlattenSeq([i \in DOMAIN AdjacentEdges(n) |-> tin.lines[i]]), LAMBDA l : l \notin {0, n})
GraphAsk(m) ==
    [Asks(LoopNode(m), LoopNode(m), tin.lines[LoopNode(m)], IF tin.separate THEN m.loop ELSE 0) EXCEPT
       !.cond = GraphConditions(LoopNode(m))]
(* Slip: the predictions of a loop are seen in the next one only.          *)
GraphTold_Slip(m, a) == IF m.i < GraphSize THEN [m EXCEPT !.i = @ + 1] ELSE [m EXCEPT !.pred[LoopNode(m)] = a, !.i = 1, !.loop = @ + 1]
GraphTold(m, a) ==
    LET next == [m EXCEPT !.pred[LoopNode(m)] = a]
    IN IF m.i < GraphSize THEN [next EXCEPT !.i = @ + 1] ELSE [next EXCEPT !.i = 1, !.loop = @ + 1]
GraphLoss(m, a) ==      \* in parts: a loop has 1 part, the last as many as there are loops
    IF tin.lines[LoopNode(m)][1] = a THEN 0 ELSE IF m.loop = tin.loops - 1 THEN tin.loops ELSE 1
(* The loss of a run is 1 - macro_f over every run so far: the confusion   *)
(* matrix is never cleared.                                                *)
Confused(matrix, m) ==
    [c \in DOMAIN matrix |-> matrix[c] + Cardinality({n \in GraphNodes : <<tin.lines[n][1], m.pred[n]>> = c})]

-----------------------------------------------------------------------------
(* selective_branching, when testing: a task of tin.steps steps is run     *)
(* greedily, then again for each of the cheapest deviations, which is      *)
(* forced (maybe_override_prediction) up to its end, and at last along the *)
(* cheapest path.  The cost of an action depends on the one before it.     *)
CostsAt(path) == tin.costs[Len(path) + 1][IF path = << >> THEN 1 ELSE Last(path)]
Greedy(path) == Min(CheapestActions(CostsAt(path)))
Overrides(m) ==
    CASE m.phase = "branch" -> m.branches[m.cur].path
      [] m.phase = "final" -> m.finals[1].path
      [] OTHER -> << >>
BranchAnswer(m) == IF Len(m.path) < Len(Overrides(m)) THEN Overrides(m)[Len(m.path) + 1] ELSE Greedy(m.path)
BranchAsk(m) == [Asks(Len(m.path) + 1, Len(m.path) + 1, << >>, 0) EXCEPT !.costs = CostsAt(m.path)]

(* foreach_action: the deviations from what is taken.                      *)
(* Slip: a deviation is costed by itself, not by what it adds.             *)
Delta_Slip(path, b) == CostsAt(path)[b]
Delta(path, b) == CostsAt(path)[b] - Min({CostsAt(path)[c] : c \in DOMAIN CostsAt(path)})
Deviations(m, a) ==
    LET others == SelectSeq(AllActions(tin.actions), LAMBDA b : b # a)
    IN [k \in DOMAIN others |-> [cost |-> Delta(m.path, others[k]), path |-> Append(m.path, others[k])]]
CheapestFirst(list) ==
    LET order == SortSeq(AllActions(Len(list)), LAMBDA i, j : list[i].cost < list[j].cost \/ (list[i].cost = list[j].cost /\ i < j))
    IN [k \in DOMAIN list |-> list[order[k]]]
(* The end of one run of the task below.                                   *)
ClosePath(m) ==
    LET finals == IF m.phase = "final" THEN m.finals ELSE Append(m.finals, [cost |-> m.total, path |-> m.path])
        branches == IF m.phase = "initial" THEN CheapestFirst(m.branches) ELSE m.branches
        more == m.cur < Min({tin.max_branches, Len(branches)})
    IN [m EXCEPT !.path = << >>, !.total = 0, !.branches = branches, !.cur = @ + 1,
                 !.finals = IF more THEN finals ELSE CheapestFirst(finals),
                 !.out = m.path,
                 !.phase = CASE m.phase = "final" -> "over" [] m.phase # "final" /\ more -> "branch" [] OTHER -> "final"]
BranchTold(m, a) ==
    LET next == [m EXCEPT !.path = Append(@, a), !.total = @ + CostsAt(m.path)[a],
                          !.branches = IF m.phase = "initial" THEN @ \o Deviations(m, a) ELSE @]
    IN IF Len(next.path) = Len(tin.costs) THEN ClosePath(next) ELSE next

-----------------------------------------------------------------------------
(* Runs of a task.                                                         *)
TaskActions == IF TaskIs({"sequencespan"}) THEN SpanActions ELSE IF TaskIs({"entity_relation"}) THEN LABEL_SKIP ELSE tin.actions
FeatureWidth ==     \* set_feature_width
    CASE TaskIs({"sequencespan"}) -> SpanActions
      [] TaskIs({"multiclasstask"}) -> 2^NumLevel(tin.actions)
      [] TaskIs({"entity_relation"}) -> IF tin.order >= 2 THEN 3 ELSE 2
      [] TaskIs({"graph"}) /\ tin.separate -> tin.loops
      [] OTHER -> 1

(* initialize and setup.                                                   *)
TaskKeep(in) ==
    [ld |-> << >>,
     labels |-> IF in.task # "sequencespan" THEN << >> ELSE IF in.bilou THEN convert_bio_to_bilou(in.gold) ELSE in.gold,
     allowed |-> IF in.task # "sequencespan" THEN << >> ELSE SpanAllowed(IF in.bilou THEN in.actions * 2 - 1 ELSE in.actions, in.bilou),
     bfs |-> << >>, size |-> << >>, confusion |-> << >>]
TkInit ==
    /\ tin \in TaskInputs /\ tkeep = TaskKeep(tin)
    /\ tmem = << >> /\ trunning = FALSE /\ tcalls = << >> /\ tlosses = << >> /\ truns = 0

RunStart ==
    CASE TaskIs({"sequence", "sequence_ctg", "sequence_demoldf"}) -> [i |-> 1, out |-> << >>]
      [] TaskIs({"sequencespan"}) -> [i |-> 1, pass |-> 1, last |-> 1, out |-> << >>]
      [] TaskIs({"argmax"}) -> [i |-> 1, out |-> <<1>>]
      [] TaskIs({"multiclasstask"}) -> [i |-> 1, label |-> 0, learner |-> 0, out |-> <<1>>]
      [] TaskIs({"entity_relation"}) -> [i |-> 1, pred |-> [x \in 1 .. ErCount |-> 0], must |-> FALSE, done |-> 0, before |-> 0]
      [] TaskIs({"selective_branching"}) ->
           [phase |-> "initial", cur |-> 0, path |-> << >>, total |-> 0, branches |-> << >>, finals |-> << >>, out |-> << >>]
      [] TaskIs({"graph"}) -> [i |-> 1, loop |-> 0, pred |-> [n \in GraphNodes |-> tin.actions + 1]]

TaskMore(m) ==
    CASE TaskIs({"sequence", "sequence_ctg", "sequence_demoldf", "argmax"}) -> m.i <= Len(tin.gold)
      [] TaskIs({"sequencespan"}) -> m.pass <= tin.multipass
      [] TaskIs({"multiclasstask"}) -> m.i <= NumLevel(tin.actions)
      [] TaskIs({"entity_relation"}) -> IF tin.order = 2 THEN m.done < ErCount ELSE m.i <= Len(ErOrder)
      [] TaskIs({"selective_branching"}) -> m.phase # "over"
      [] TaskIs({"graph"}) -> m.loop < tin.loops

TaskAsk(m) ==
    CASE TaskIs({"sequence", "sequence_ctg", "sequence_demoldf"}) -> SequenceAsk(m)
      [] TaskIs({"sequencespan"}) -> SpanAsk(m)
      [] TaskIs({"argmax"}) -> ArgmaxAsk(m)
      [] TaskIs({"multiclasstask"}) -> MulticlassAsk(m)
      [] TaskIs({"entity_relation"}) -> ErAsk(m, ErCurrent(m))
      [] TaskIs({"selective_branching"}) -> BranchAsk(m)
      [] TaskIs({"graph"}) -> GraphAsk(m)
TaskTold(m, a) ==
    CASE TaskIs({"sequence", "sequence_ctg", "sequence_demoldf"}) -> SequenceTold(m, a)
      [] TaskIs({"sequencespan"}) -> SpanTold(m, a)
      [] TaskIs({"argmax"}) -> ArgmaxTold(m, a)
      [] TaskIs({"multiclasstask"}) -> MulticlassTold(m, a)
      [] TaskIs({"entity_relation"}) -> ErTold(m, a)
      [] TaskIs({"selective_branching"}) -> BranchTold(m, a)
      [] TaskIs({"graph"}) -> GraphTold(m, a)
(* The loss that a call declares, and the one at the end of the run.       *)
LossOfCall(m, call, a) ==
    CASE TaskIs({"sequence", "sequence_demoldf", "sequencespan"}) -> <<HammingLoss(a, call.oracle)>>
      [] TaskIs({"sequence_ctg"}) -> <<CostLoss(a, call)>>
      [] TaskIs({"argmax", "multiclasstask", "selective_branching"}) -> << >>
      [] TaskIs({"entity_relation"}) -> <<ErLoss(call.ex, ErPrediction(m, call.ex, a))>>
      [] TaskIs({"graph"}) -> <<GraphLoss(m, a)>>
LossOfRun(m) ==
    CASE TaskIs({"argmax"}) -> <<ArgmaxLoss(m)>>
      [] TaskIs({"multiclasstask"}) -> <<IF Head(m.out) = tin.gold[1] THEN 0 ELSE 1>>
      [] OTHER -> << >>

(* A run begins; a graph is set up before the first one.                   *)
BeginRun ==
    /\ ~trunning /\ truns < MaxRuns /\ trunning' = TRUE
    /\ TaskIs({"graph"}) => ~SetupThrows
    /\ tmem' = RunStart /\ tcalls' = << >> /\ tlosses' = << >>
    /\ tkeep' = IF TaskIs({"graph"}) /\ truns = 0
                THEN [tkeep EXCEPT !.bfs = run_bfs, !.size = [n \in GraphNodes |-> 0],
                                   !.confusion = [c \in (1 .. tin.actions) \X (1 .. tin.actions) |-> 0]]
                ELSE tkeep
    /\ UNCHANGED <<tin, truns>>

(* The skipping decoder passes by what has a prediction.                   *)
PassesBy == TaskIs({"entity_relation"}) /\ tin.order = 2 /\ tmem.pred[tmem.i] # 0
PassBy ==
    /\ trunning /\ TaskMore(tmem) /\ PassesBy
    /\ tmem' = RoundEnds(tmem)
    /\ UNCHANGED <<tin, tkeep, trunning, tcalls, tlosses, truns>>

PolicyAnswers(call, n) ==
    IF tin.policy = "forced" THEN {BranchAnswer(tmem)}
    ELSE IF tin.policy = "oracle" THEN ChoosesOracle(call) ELSE ChoosesLearned(call, n) \union ChoosesOracle(call)

(* A predict call.  Nodes of a graph carry edge features while it lasts.   *)
EdgesFor(m) == IF TaskIs({"graph"}) THEN EdgeFeatures(m, LoopNode(m)) ELSE << >>
KeptAfter(call) ==
    LET kept == [tkeep EXCEPT !.ld = AllowedToLd(tkeep.ld, call, TaskActions)]
    IN IF ~TaskIs({"graph"}) THEN kept
       ELSE [kept EXCEPT !.size[call.ex] =
               AfterCall(@, EdgeFeatureCount(EdgesFor(tmem)), IF tin.cross THEN EdgeFeatureCount(EdgesFor(tmem)) ELSE 0)]
PredictorAnswers(call, a) ==
    /\ a \in PolicyAnswers(call, TaskActions)
    /\ tmem' = TaskTold(tmem, a) /\ tkeep' = KeptAfter(call)
    /\ tcalls' = Append(tcalls, [call |-> call, a |-> a, edges |-> EdgesFor(tmem)])
    /\ tlosses' = tlosses \o LossOfCall(tmem, call, a)
    /\ UNCHANGED <<tin, trunning, truns>>
PredictStep ==
    /\ trunning /\ TaskMore(tmem) /\ ~PassesBy
    /\ \E a \in 0 .. TaskActions : PredictorAnswers(TaskAsk(tmem), a)

EndRun ==
    /\ trunning /\ ~TaskMore(tmem)
    /\ tlosses' = tlosses \o LossOfRun(tmem)
    /\ tkeep' = IF TaskIs({"graph"}) THEN [tkeep EXCEPT !.confusion = Confused(@, tmem)] ELSE tkeep
    /\ trunning' = FALSE /\ truns' = truns + 1
    /\ UNCHANGED <<tin, tmem, tcalls>>

TkNext == BeginRun \/ PassBy \/ PredictStep \/ EndRun
TkSpec == TkInit /\ [][TkNext]_tkVars

-----------------------------------------------------------------------------
CallsDone == DOMAIN tcalls
RunOver == truns > 0 /\ trunning = FALSE

(* Predicted spans are well formed, whoever answers: BIO and BILOU labels  *)
(* continue the span that is open, and in BILOU the next label continues   *)
(* or closes it.  Nothing closes one that is open after the last label.    *)
Follows(prev, y) ==
    IF tin.bilou THEN (~Ended(prev)) = (y > 1 /\ y % 4 \in {0, 1}) /\ (~Ended(prev) => bilou_to_bio(y) = 2 * ((bilou_to_bio(prev)) \div 2) + 1)
    ELSE y > 1 /\ y % 2 = 1 => prev \in {y - 1, y}
SpansLegal ==
    TaskIs({"sequencespan"}) =>
        \A k \in CallsDone : Follows(IF (k - 1) % Len(tin.gold) = 0 THEN 1 ELSE tcalls[k - 1].a, tcalls[k].a)

(* The oracle of a span, a sequence, an entity or a relation that chooses  *)
(* among lines never asks for an action that is not allowed, whatever was  *)
(* answered before, and conditions are on tags that are already known.     *)
OracleAllowed ==
    \A k \in CallsDone :
        LET call == tcalls[k].call IN
        /\ \/ TaskIs({"multiclasstask"}) \/ (TaskIs({"entity_relation"}) /\ call.ex > NumEntities /\ call.lines = 0)
           \/ ToSet(call.oracle) \subseteq ChoosesLearned(call, TaskActions)
        /\ TaskIs({"sequence", "sequence_ctg", "sequence_demoldf", "sequencespan"}) =>
             \A c \in ToSet(call.cond) : c # 0 /\ call.learner = 0 =>
                c < call.ex /\ call.ex - c <= HistoryLength /\ \E j \in 1 .. k - 1 : tcalls[j].call.tag = c

(* Following the oracle never leads to an action that is not allowed,      *)
(* costs nothing and gives back the labels, where they are labels that the *)
(* task can predict.                                                       *)
GoldFits ==
    CASE TaskIs({"sequencespan"}) -> \A n \in DOMAIN tin.gold : tin.gold[n] % 2 = 0 \/ tin.gold[n] = 1 \/ (n > 1 /\ tin.gold[n - 1] \in {tin.gold[n], tin.gold[n] - 1})
      [] TaskIs({"entity_relation"}) ->
           \A x \in NumEntities + 1 .. ErCount : tin.constraints => check_constraints(tin.gold[PairOf(x)[1]], tin.gold[PairOf(x)[2]], tin.gold[x])
      [] OTHER -> TRUE
OracleIsRight ==
    (tin.policy = "oracle" /\ RunOver /\ GoldFits) =>
        /\ \A k \in CallsDone : tcalls[k].a \in ChoosesLearned(tcalls[k].call, TaskActions)
        /\ ToSet(tlosses) \subseteq (IF TaskIs({"entity_relation"}) /\ tin.order = 2 THEN {0, 1} ELSE {0})
        /\ TaskIs({"sequence", "sequence_ctg", "sequence_demoldf", "sequencespan", "multiclasstask"}) => tmem.out = tin.gold
        /\ TaskIs({"argmax"}) => tmem.out = <<MaxLabel>>
        /\ TaskIs({"entity_relation"}) => tmem.pred = tin.gold

(* Every call goes to a learner that search has made room for, and the     *)
(* learner of multiclasstask is the node that the answers lead to.         *)
LearnersOwn ==
    \A k \in CallsDone :
        /\ tcalls[k].call.learner < FeatureWidth
        /\ TaskIs({"multiclasstask"}) =>
             tcalls[k].call.learner + 1 = FoldLeft(LAMBDA n, j : 2 * n + tcalls[j].a - 1, 1, AllActions(k - 1))

(* The label that search keeps for allowed actions names those of the last *)
(* call; stated for tasks without lines.                                   *)
LabelOfAllowed ==
    \A k \in CallsDone : (k = Len(tcalls) /\ tcalls[k].call.lines = 0) =>
        ToSet(tkeep.ld) = ChoosesLearned(tcalls[k].call, TaskActions)

(* Every entity and every relation has a label when a run is over, within  *)
(* two rounds for each however often they are skipped, and with            *)
(* constraints a relation that is predicted after its entities fits them.  *)
RelationsFit ==
    TaskIs({"entity_relation"}) =>
        /\ RunOver => \A x \in DOMAIN tmem.pred : tmem.pred[x] \in ToSet(IF x <= NumEntities THEN EntityAllowed ELSE RelationAllowed)
        /\ tcalls # << >> => Len(tcalls) <= 2 * ErCount * (tmem.done + 1)
        /\ (RunOver /\ tin.constraints /\ tin.policy # "oracle" /\ tin.order # 2) =>
             \A x \in NumEntities + 1 .. ErCount : 
                \/ check_constraints(tmem.pred[PairOf(x)[1]], tmem.pred[PairOf(x)[2]], tmem.pred[x])
                \/ tmem.pred[x] = tin.gold[x]       \* the oracle's answer

(* The nodes of a graph are visited in breadth-first order, each once in   *)
(* every loop, with the present predictions of its neighbours, and its     *)
(* features are taken off again; stated without interactions with them.    *)
Linked(n, m) == \E k \in DOMAIN AdjacentEdges(n) : m \in ToSet(tin.lines[AdjacentEdges(n)[k]])
GraphVisits ==
    (TaskIs({"graph"}) /\ tkeep.bfs # << >>) =>
        /\ ToSet(tkeep.bfs) = GraphNodes /\ Len(tkeep.bfs) = GraphSize
        /\ \A k \in 2 .. GraphSize : \A j \in k .. GraphSize : \A i \in 1 .. k - 1 :
             Linked(tkeep.bfs[i], tkeep.bfs[j]) => \E h \in 1 .. i : Linked(tkeep.bfs[h], tkeep.bfs[k])
        /\ RunOver => \A n \in GraphNodes : Cardinality({k \in CallsDone : tcalls[k].call.ex = n}) = tin.loops
        /\ ~tin.cross => \A n \in GraphNodes : tkeep.size[n] = 0
NeighborsCurrent ==
    TaskIs({"graph"}) =>
        \A k \in CallsDone : \A f \in DOMAIN tcalls[k].edges :
            LET edge == tcalls[k].edges[f]
                others == SelectSeq(tin.lines[edge.edge], LAMBDA n : n \notin {0, tcalls[k].call.ex})
                known(n) == {j \in 1 .. k - 1 : tcalls[j].call.ex = n}
            IN \A i \in DOMAIN others :
                 edge.seen[i] % (tin.actions + 1) = IF known(others[i]) = {} THEN tin.actions ELSE tcalls[Max(known(others[i]))].a - 1

(* selective_branching answers with the cheapest of the paths it has tried:*)
(* the greedy one and, for the deviations that add least, the path that    *)
(* takes the deviation; their costs are those of the actions on them.      *)
PathCost(path) == FoldLeft(LAMBDA c, k : c + CostsAt(SubSeq(path, 1, k - 1))[path[k]], 0, AllActions(Len(path)))
BranchesBest ==
    (TaskIs({"selective_branching"}) /\ RunOver) =>
        /\ \A f \in ToSet(tmem.finals) : f.cost = PathCost(f.path) /\ PathCost(tmem.out) <= f.cost
        /\ Len(tmem.finals) = 1 + Min({tin.max_branches, Len(tmem.branches)})
        /\ \A b \in 1 .. Min({tin.max_branches, Len(tmem.branches)}) :
             \E f \in ToSet(tmem.finals) : IsPrefix(tmem.branches[b].path, f.path)
        /\ \A b, c \in DOMAIN tmem.branches : b < c =>
             tmem.branches[b].cost <= tmem.branches[c].cost /\ tmem.branches[b].path # tmem.branches[c].path
        /\ \E f \in ToSet(tmem.finals) : \A b \in DOMAIN tmem.branches :
             LET p == tmem.branches[b].path IN
             /\ IsPrefix(Front(p), f.path) /\ ~IsPrefix(p, f.path)
             /\ tmem.branches[b].cost = PathCost(p) - PathCost(SubSeq(f.path, 1, Len(p)))

-----------------------------------------------------------------------------
(* Statements that do not hold.  The oracle's action is always allowed     *)
(* (multiclasstask after a wrong turn; a relation that the entities rule   *)
(* out); entity_relation asks for every example once (in mixed order the   *)
(* next entity is asked again after every relation), and entities and      *)
(* relations from different learners (order 2); a node is conditioned on   *)
(* its neighbours; the loss of a graph is that of this run; the labels of  *)
(* spans are put back (takedown changes a copy).                           *)
OracleAlwaysAllowed == \A k \in CallsDone : ToSet(tcalls[k].call.oracle) \subseteq ChoosesLearned(tcalls[k].call, TaskActions)
AskedOnce == (TaskIs({"entity_relation"}) /\ tin.order # 2) => \A k, j \in CallsDone : tcalls[k].call.ex = tcalls[j].call.ex => k = j
KindsApart ==
    TaskIs({"entity_relation"}) => \A k, j \in CallsDone :
        tcalls[k].call.learner = tcalls[j].call.learner => (tcalls[k].call.ex <= NumEntities) = (tcalls[j].call.ex <= NumEntities)
ConditionedOnNeighbors ==
    TaskIs({"graph"}) => \A k \in CallsDone : \A c \in ToSet(tcalls[k].call.cond) : Linked(tcalls[k].call.ex, c)
ConfusionOfRun ==
    (TaskIs({"graph"}) /\ RunOver) => FoldLeft(LAMBDA n, c : n + tkeep.confusion[c], 0, SetToSeq(DOMAIN tkeep.confusion)) = GraphSize
LabelsPutBack == (TaskIs({"sequencespan"}) /\ RunOver) => tkeep.labels = tin.gold
=============================================================================

--------------------------- MODULE ScoreReductions ---------------------------
(* Reductions that make one prediction out of several scores of the learner *)
(* below: multiclass, cost-sensitive, multilabel, bootstrap, boosting and   *)
(* active learning.  A reduction is a sequence of steps on the example      *)
(* object: fields it overwrites, and calls of the learner below at an       *)
(* offset, any of which may throw.  The object comes from the pool, so it   *)
(* holds the prediction of an earlier example when the next one starts.     *)
EXTENDS Integers, Sequences, SequencesExt, FiniteSets, FiniteSetsExt, Combinatorics

CONSTANTS
  SrK,            \* classes, labels or rounds
  SrErrors,       \* --error of ect
  SrKary,         \* --kary_tree of plt
  SrMaxLabels,    \* --max_labels of cs_active, for all classes together
  SrReductions,   \* the reductions that are driven
  SrReused,       \* those of them whose object and memory meet more than one example
  SrMaxExamples   \* bound: examples of those

VARIABLES
  sred,    \* the reduction on top
  scount,  \* examples so far
  sobj,    \* the example object
  smem,    \* what the reduction remembers
  srun     \* << >>, or the last call: what was given, the answers and what happened

srVars == <<sred, scount, sobj, smem, srun>>

FLT_MAX == 99    \* the label of an unlabelled example
ASSUME SrAssumption ==
  /\ SrK \in Nat \ {0, 1} /\ SrErrors \in Nat /\ SrKary \in Nat \ {0, 1}
  /\ SrMaxLabels \in Nat /\ SrMaxExamples \in Nat

-----------------------------------------------------------------------------
(* Steps, and what they do to the object and to the log of calls.  Once an *)
(* offset was taught it may answer something else: base.s before, base.a   *)
(* after; learning returns the prediction from before.                     *)
Put(field, value) == <<[op |-> "put", field |-> field, value |-> value, off |-> 0]>>
Call(op, off) == <<[op |-> op, field |-> "scalar", value |-> 0, off |-> off]>>
PredictAt(off) == Call("predict", off)
LearnAt(off) == Call("learn", off)
UpdateAt(off) == Call("update", off)
SensitivityAt(off) == Call("sensitivity", off)
LearnIf(is_learn, off) == IF is_learn THEN LearnAt(off) ELSE PredictAt(off)
(* The bodies of a loop over 0..n-1.                                       *)
Loop(n, Body(_)) == FlattenSeq([i \in 1..n |-> Body(i - 1)])
Multipredict(first, n) == Loop(n, LAMBDA i : Call("multipredict", first + i))

IsTaught(c) == c.op \in {"learn", "update"}
Answer(base, log, off) ==
  IF \E i \in 1..Len(log) : log[i].off = off /\ IsTaught(log[i]) THEN base.a[off] ELSE base.s[off]
Logged(st, step) ==
  Append(st.log, [op |-> step.op, off |-> step.off, label |-> st.obj.simple, weight |-> st.obj.weight, pred |-> st.obj.scalar])
Exec(base, st, step) ==
  CASE step.op = "put" -> [st EXCEPT !.obj[step.field] = step.value]
    [] step.op \in {"predict", "learn"} ->
         [obj |-> [st.obj EXCEPT !.scalar = Answer(base, st.log, step.off)], log |-> Logged(st, step)]
    [] OTHER -> [st EXCEPT !.log = Logged(st, step)]
ExecAll(base, obj, steps) ==
  FoldLeft(LAMBDA st, step : Exec(base, st, step), [obj |-> obj, log |-> << >>], steps)

(* What a call does: its steps, what the reduction remembers afterwards,   *)
(* and what it remembers when a call of the learner below throws.          *)
Does(steps, mem) == [steps |-> steps, mem |-> mem, thrown |-> mem]
DoesOrThrows(steps, mem, thrown) == [steps |-> steps, mem |-> mem, thrown |-> thrown]
Best(S, Better(_, _)) == CHOOSE i \in S : \A j \in S \ {i} : ~Better(j, i)
Sign(x) == IF x > 0 THEN 1 ELSE -1
Abs(x) == IF x < 0 THEN -x ELSE x
NoMem == [indexing |-> 2, pred |-> [i \in 0..(SrK - 1) |-> 0], next |-> 0, cache |-> {}, alpha |-> [i \in 0..(SrK - 1) |-> 0],
          queries |-> 0, t |-> 1, query_data |-> << >>, seen |-> <<0, 1>>, circuit |-> << >>]
NoObj == [multi |-> 0, cs |-> << >>, labels |-> << >>, simple |-> FLT_MAX, weight |-> 2, scalar |-> 0, multiclass |-> 0,
          scalars |-> << >>, multilabels |-> << >>, tag |-> ""]

-----------------------------------------------------------------------------
(* oaa.  Whether classes count from 0 or from 1 is found out from the      *)
(* first label that tells (indexing 2: not known).                         *)
Indexing(ix, label) == IF ix # 2 THEN ix ELSE IF label = 0 THEN 0 ELSE IF label = SrK THEN 1 ELSE 2
FirstClass(ix) == IF ix = 0 THEN 0 ELSE 1
(* A label out of range is overwritten, but what was read before is used.  *)
OutOfRange(ix, label) ==
  IF ix = 0 /\ label >= SrK THEN Put("multi", 0)
  ELSE IF ix = 1 /\ (label < 1 \/ label > SrK) THEN Put("multi", SrK) ELSE << >>
(* Slip: the loop leaves the last class out.                               *)
OaaBest_Slip(s) == Best(0..(SrK - 2), LAMBDA j, i : s[j] > s[i] \/ (s[j] = s[i] /\ j < i))
OaaBest(s) == Best(0..(SrK - 1), LAMBDA j, i : s[j] > s[i] \/ (s[j] = s[i] /\ j < i))
OaaPredict(e, m, b) ==
  Does(Multipredict(0, SrK) \o Put("multiclass", FirstClass(m.indexing) + OaaBest(b.s)), [m EXCEPT !.pred = [i \in 0..(SrK - 1) |-> b.s[i]]])
OaaScores(e, m, b) ==
  Does(Multipredict(0, SrK) \o Put("scalars", [i \in 1..SrK |-> b.s[i - 1]]), [m EXCEPT !.pred = [i \in 0..(SrK - 1) |-> b.s[i]]])
(* Slip: the prediction of the class is not put back before update.        *)
OaaLearn_Slip(e, m, b) ==
  Does(Loop(SrK, LAMBDA i : Put("simple", IF e.multi = i + FirstClass(Indexing(m.indexing, e.multi)) THEN 1 ELSE -1) \o UpdateAt(i)) \o
       Put("multi", e.multi), [m EXCEPT !.indexing = Indexing(@, e.multi)])
OaaLearn(e, m, b) ==
  LET ix == Indexing(m.indexing, e.multi)
  IN  Does(OutOfRange(ix, e.multi) \o
           Loop(SrK, LAMBDA i : Put("simple", IF e.multi = i + FirstClass(ix) THEN 1 ELSE -1) \o Put("scalar", m.pred[i]) \o UpdateAt(i)) \o
           Put("multi", e.multi),
           [m EXCEPT !.indexing = ix])
(* --oaa_subsample 1: the next class in the order that is not (label + k - 1) mod k. *)
Negative(m, label) ==
  CHOOSE p \in m.next..(m.next + SrK) :
    /\ p % SrK # (label + SrK - 1) % SrK
    /\ \A q \in m.next..(p - 1) : q % SrK = (label + SrK - 1) % SrK
(* Slip: the weight of the negatives stays.                                *)
OaaRandomized_Slip(e, m, b) ==
  Does(Put("simple", 1) \o LearnAt(e.multi - FirstClass(m.indexing)) \o Put("simple", -1) \o Put("weight", e.weight * SrK) \o
       LearnAt(Negative(m, e.multi) % SrK) \o Put("multi", e.multi), m)
OaaRandomized(e, m, b) ==
  LET ix == Indexing(m.indexing, e.multi)
      truth == e.multi - FirstClass(ix)
      p == Negative(m, e.multi)
      other == p % SrK
  IN  Does(OutOfRange(ix, e.multi) \o
           Put("simple", 1) \o LearnAt(truth) \o Put("simple", -1) \o Put("weight", e.weight * SrK) \o LearnAt(other) \o
           Put("multiclass", IF b.s[other] > b.s[truth] THEN (IF ix = 0 /\ other + 1 = SrK THEN 0 ELSE other + 1) ELSE e.multi) \o
           Put("multi", e.multi) \o Put("weight", e.weight),
           [m EXCEPT !.indexing = ix, !.next = (p + 1) % SrK])

-----------------------------------------------------------------------------
(* ect: a circuit of pairings.  The loser of a game goes on in the next    *)
(* tournament, the winner of a tournament plays in the next one as well,   *)
(* and the winners of the tournaments meet in the finals.                  *)
Eliminations == SrErrors + 1
LastPair == (SrK - 1) * Eliminations
FinalDepth == CHOOSE i \in 0..SrErrors : SrErrors \div 2^i = 0 /\ \A j \in 0..(i - 1) : SrErrors \div 2^j # 0
Direction(t, left, right) == [tournament |-> t, winner |-> 0, loser |-> 0, left |-> left, right |-> right, last |-> FALSE]
Upward(dirs, x, i, id) == IF dirs[x].tournament = i THEN [dirs EXCEPT ![x].winner = id] ELSE [dirs EXCEPT ![x].loser = id]
(* One game of tournament i; node numbers count from 0.                    *)
PushBack(ts, i, id) == IF i < Eliminations THEN [ts EXCEPT ![i] = Append(@, id)] ELSE ts
Pairing(c, cur, i, j) ==
  LET id == Cardinality(DOMAIN c.dirs)
      left == cur[i][2 * j + 1]
      right == cur[i][2 * j + 2]
      is_last == Len(cur[i]) = 2 /\ (i = 0 \/ cur[i - 1] = << >>)
      new == [n \in 0..id |-> IF n = id THEN Direction(i, left, right) ELSE c.dirs[n]]
      up == Upward(Upward(new, left, i, id), right, i, id)
      up2 == IF up[left].last THEN [up EXCEPT ![left].winner = id] ELSE up
  IN  [dirs |-> [up2 EXCEPT ![id].last = is_last],
       finals |-> IF is_last THEN Append(c.finals, id) ELSE c.finals,
       ts |-> PushBack(PushBack(c.ts, IF is_last THEN i + 1 ELSE i, id), i + 1, id)]
UpTo(n) == [j \in 1..n |-> j - 1]
OneTournament(c, cur, i) ==
  LET played == FoldLeft(LAMBDA d, j : Pairing(d, cur, i, j), c, UpTo(Len(cur[i]) \div 2))
  IN  IF Len(cur[i]) % 2 = 1 THEN [played EXCEPT !.ts = PushBack(@, i, Last(cur[i]))] ELSE played
Level(c) ==
  FoldLeft(LAMBDA d, i : OneTournament(d, c.ts, i), [c EXCEPT !.ts = [i \in 0..(Eliminations - 1) |-> << >>]], UpTo(Eliminations))
NobodyLeft(ts) == \A i \in DOMAIN ts : Len(ts[i]) = 0
create_circuit ==
  FoldLeft(LAMBDA c, n : IF NobodyLeft(c.ts) THEN c ELSE Level(c),
           [dirs |-> [i \in 0..(SrK - 1) |-> Direction(0, 0, 0)], finals |-> << >>,
            ts |-> [i \in 0..(Eliminations - 1) |-> IF i = 0 THEN UpTo(SrK) ELSE << >>]],
           UpTo(4 * SrK * Eliminations))

(* From the finals down to a class: the answer above the boundary is the   *)
(* right one.                                                              *)
ect_predict(c, b) ==
  LET final == FoldRight(LAMBDA i, acc :
                 IF acc.w + 2^i > SrErrors THEN acc
                 ELSE [w |-> IF b.s[LastPair + acc.w + 2^i - 1] > 0 THEN acc.w + 2^i ELSE acc.w,
                       steps |-> acc.steps \o PredictAt(LastPair + acc.w + 2^i - 1)],
                 UpTo(FinalDepth), [w |-> 0, steps |-> << >>])
      down == FoldLeft(LAMBDA acc, n :
                IF acc.id < SrK THEN acc
                ELSE [id |-> IF b.s[acc.id - SrK] > 0 THEN c.dirs[acc.id].right ELSE c.dirs[acc.id].left,
                      steps |-> acc.steps \o PredictAt(acc.id - SrK)],
                [id |-> c.finals[final.w + 1], steps |-> final.steps], UpTo(SrK * Eliminations))
  IN  [class |-> down.id + 1, steps |-> Put("simple", FLT_MAX) \o down.steps]
EctClass(p, m) == Does(p.steps \o Put("multiclass", p.class), m)
EctPredict(e, m, b) == EctClass(ect_predict(m.circuit, b), m)

(* One game on the way up: taught, then asked again with no weight.        *)
Game(c, e, b, acc) ==
  LET id == acc.id
      d == c.dirs[id]
      label == IF acc.left THEN -1 ELSE 1
      won == b.a[id - SrK] * label > 0
      up == IF won THEN d.winner ELSE d.loser
  IN  [id |-> up,
       left |-> IF d.last THEN acc.left ELSE c.dirs[up].left = id,
       won |-> IF d.last THEN Append(acc.won, won)
               ELSE IF ~won /\ d.loser = 0 THEN Append(acc.won, FALSE) ELSE acc.won,
       steps |-> acc.steps \o Put("simple", label) \o LearnAt(id - SrK) \o Put("weight", 0) \o LearnAt(id - SrK) \o Put("weight", e.weight)]
(* Slip: the side of the class in its first game is not looked up.         *)
GamesOf_Slip(c, e, b) ==
  LET first == c.dirs[e.multi - 1].winner
  IN  FoldLeft(LAMBDA acc, n : IF acc.id = 0 THEN acc ELSE Game(c, e, b, acc),
               [id |-> first, left |-> TRUE, won |-> << >>, steps |-> << >>], UpTo(SrK * Eliminations))
GamesOf(c, e, b) ==
  LET first == c.dirs[e.multi - 1].winner
  IN  FoldLeft(LAMBDA acc, n : IF acc.id = 0 THEN acc ELSE Game(c, e, b, acc),
               [id |-> first, left |-> c.dirs[first].left = e.multi - 1, won |-> << >>, steps |-> << >>],
               UpTo(SrK * Eliminations))
(* Finals: the vector shrinks after every pair, inside the loop over them. *)
FinalGame(b, i, acc, j) ==
  IF j >= Len(acc.won) \div 2 THEN acc
  ELSE LET left == acc.won[2 * j + 1]
           right == acc.won[2 * j + 2]
           off == LastPair + j * 2^(i + 1) + 2^i - 1
           kept == [acc.won EXCEPT ![j + 1] = IF left = right THEN left ELSE IF b.s[off] > 0 THEN right ELSE left]
           odd == IF Len(kept) % 2 = 1 THEN [kept EXCEPT ![Len(kept) \div 2 + 1] = Last(kept)] ELSE kept
       IN  [won |-> SubSeq(odd, 1, (1 + Len(odd)) \div 2),
            steps |-> IF left = right THEN acc.steps
                      ELSE acc.steps \o Put("simple", IF left THEN -1 ELSE 1) \o Put("weight", 2^(FinalDepth - i - 1)) \o LearnAt(off)]
FinalsOf(b, games) ==
  FoldLeft(LAMBDA acc, i : FoldLeft(LAMBDA d, j : FinalGame(b, i, d, j), acc, UpTo(Eliminations)),
           [won |-> games.won, steps |-> << >>], UpTo(FinalDepth))
TaughtGames(e, m, b, games) ==
  Does((IF e.multi = 0 \/ e.multi > SrK THEN << >> ELSE games.steps \o FinalsOf(b, games).steps) \o
       Put("multi", e.multi) \o Put("multiclass", e.multiclass), m)
EctLearn(e, m, b) == TaughtGames(e, m, b, GamesOf(m.circuit, e, b))

-----------------------------------------------------------------------------
(* csoaa: one regressor for each class; the label is moved away and a      *)
(* guard puts it back, whatever happens.                                   *)
CsIndexing(ix, costs) == FoldLeft(LAMBDA x, c : Indexing(x, c.class), ix, costs)
(* Every class is checked against what is known when it is reached.        *)
Checked(ix, costs) ==
  FoldLeft(LAMBDA acc, c :
             LET x == Indexing(acc.ix, c.class)
                 class == IF x = 0 /\ c.class >= SrK THEN 0 ELSE IF x = 1 /\ (c.class < 1 \/ c.class > SrK) THEN SrK ELSE c.class
             IN  [ix |-> x, costs |-> Append(acc.costs, [c EXCEPT !.class = class])],
           [ix |-> ix, costs |-> << >>], costs)
Least(first, classes, score) ==
  FoldLeft(LAMBDA acc, c : IF score[c] < acc.score \/ (score[c] = acc.score /\ c < acc.p) THEN [p |-> c, score |-> score[c]] ELSE acc,
           [p |-> first, score |-> FLT_MAX], classes).p
Csoaa(is_learn, e, m, b) ==
  LET ch == Checked(m.indexing, e.cs)
      at(c) == c - FirstClass(ch.ix)
      all == [i \in 1..SrK |-> i - 1 + FirstClass(ch.ix)]
      classes == [i \in 1..Len(ch.costs) |-> ch.costs[i].class]
      one(c) == (IF is_learn THEN Put("weight", IF c.x = FLT_MAX THEN 0 ELSE 1) \o Put("simple", c.x) ELSE << >>) \o LearnIf(is_learn, at(c.class))
      score == [c \in FirstClass(ch.ix)..(SrK - 1 + FirstClass(ch.ix)) |-> b.s[at(c)]]
      m2 == [m EXCEPT !.indexing = ch.ix]
  IN  DoesOrThrows(
        Put("cs", << >>) \o Put("simple", 0) \o
        (IF ch.costs # << >> THEN Loop(Len(ch.costs), LAMBDA i : one(ch.costs[i + 1])) \o Put("multiclass", Least(FirstClass(ch.ix), classes, score))
         ELSE IF is_learn
         THEN Loop(SrK, LAMBDA i : PredictAt(at(i + 1))) \o Put("multiclass", Least(FirstClass(ch.ix), [i \in 1..SrK |-> i], [c \in 1..SrK |-> b.s[at(c)]]))
         ELSE Put("simple", FLT_MAX) \o Multipredict(0, SrK) \o Put("multiclass", Least(FirstClass(ch.ix), all, score))) \o
        Put("cs", ch.costs), m2, m2)

(* multilabel_oaa: label lists are taken as sorted.                        *)
MultilabelOaa(is_learn, e, m, b) ==
  LET truth == FoldLeft(LAMBDA acc, i : IF acc.n < Len(e.labels) /\ e.labels[acc.n + 1] = i
                                        THEN [n |-> acc.n + 1, on |-> acc.on \union {i}] ELSE acc,
                        [n |-> 0, on |-> {}], UpTo(SrK)).on
  IN  Does(Put("simple", FLT_MAX) \o
           Loop(SrK, LAMBDA i : (IF is_learn THEN Put("simple", IF i \in truth THEN 1 ELSE -1) ELSE << >>) \o LearnIf(is_learn, i)) \o
           Put("multilabels", SelectSeq(UpTo(SrK), LAMBDA i : b.s[i] > 0)), m)
(* With --probabilities the scores are appended to what the object holds.  *)
MultilabelProbabilities(is_learn, e, m, b) ==
  LET d == MultilabelOaa(is_learn, e, m, b)
  IN  [d EXCEPT !.steps = SelectSeq(@, LAMBDA x : x.field # "multilabels") \o
                          Put("scalars", e.scalars \o [i \in 1..SrK |-> b.s[i - 1]])]

-----------------------------------------------------------------------------
(* plt: a tree of binary problems in an array; labels are its leaves.      *)
PltA == CHOOSE p \in {SrKary^n : n \in 0..SrK} : p <= SrK /\ p * SrKary > SrK
PltNodes == SrK - (PltA - ((SrK - PltA + SrKary - 2) \div (SrKary - 1))) + (SrKary * PltA - 1) \div (SrKary - 1)
PltInner == PltNodes - SrK
Parent(n) == (n - 1) \div SrKary
PathUp(n) == {x \in 0..n : \E k \in 0..SrK : FoldLeft(LAMBDA y, i : IF y = 0 THEN 0 ELSE Parent(y), n, UpTo(k)) = x}
Children(n) == {SrKary * n + i : i \in 1..SrKary}
get_nodes_to_update(labels) ==
  LET positive == UNION {PathUp(l + PltInner) : l \in {x \in ToSet(labels) : x + PltInner < PltNodes}}
  IN  IF labels = << >> THEN [positive |-> {}, negative |-> {0}]
      ELSE [positive |-> positive,
            negative |-> {c \in UNION {Children(n) : n \in {x \in positive : x < PltInner}} : c < PltNodes /\ c \notin positive}]
Each(S, Body(_)) == FlattenSeq([i \in 1..Cardinality(S) |-> Body(SetToSortSeq(S, <)[i])])
OnNodes(n, Calls(_)) == Put("simple", 1) \o Each(n.positive, Calls) \o Put("simple", -1) \o Each(n.negative, Calls)
(* Slip: siblings of the positive nodes are not taught.                    *)
PltLearn_Slip(e, m, b) ==
  Does(Put("labels", << >>) \o Put("simple", 1) \o Each(get_nodes_to_update(e.labels).positive, LearnAt) \o
       Put("scalar", e.scalar) \o Put("labels", e.labels), m)
PltLearn(e, m, b) ==
  Does(Put("labels", << >>) \o OnNodes(get_nodes_to_update(e.labels), LearnAt) \o Put("scalar", e.scalar) \o Put("labels", e.labels), m)
(* With labels the loss is measured first.  Answers are probabilities 0, 1. *)
Evaluated(e) ==
  IF e.labels = << >> THEN << >> ELSE OnNodes(get_nodes_to_update(e.labels), PredictAt)
(* The threshold search: a stack of nodes above the threshold.             *)
Search_threshold(b) ==
  FoldLeft(LAMBDA acc, k :
             IF acc.stack = << >> THEN acc
             ELSE LET n == Last(acc.stack)
                      above == SelectSeq([i \in 1..SrKary |-> SrKary * n + i], LAMBDA c : b.s[c] > 0)
                  IN  [stack |-> Front(acc.stack) \o SelectSeq(above, LAMBDA c : c < PltInner),
                       found |-> acc.found \o [i \in 1..Len(SelectSeq(above, LAMBDA c : c >= PltInner)) |->
                                                  SelectSeq(above, LAMBDA c : c >= PltInner)[i] - PltInner],
                       steps |-> acc.steps \o Multipredict(SrKary * n + 1, SrKary)],
           [stack |-> IF b.s[0] > 0 THEN <<0>> ELSE << >>, found |-> << >>, steps |-> PredictAt(0)], UpTo(PltNodes))
(* The best-first search for the top_k labels.                             *)
Search_top(b, top_k) ==
  FoldLeft(LAMBDA acc, k :
             IF acc.queue = {} \/ Len(acc.found) >= top_k THEN acc
             ELSE LET x == CHOOSE y \in acc.queue : \A z \in acc.queue : z.p <= y.p
                  IN  IF x.n >= PltInner
                      THEN [acc EXCEPT !.queue = @ \ {x}, !.found = Append(@, x.n - PltInner)]
                      ELSE [queue |-> (acc.queue \ {x}) \union {[n |-> c, p |-> x.p * b.s[c]] : c \in Children(x.n)},
                            found |-> acc.found, steps |-> acc.steps \o Multipredict(SrKary * x.n + 1, SrKary)],
           [queue |-> {[n |-> 0, p |-> b.s[0]]}, found |-> << >>, steps |-> PredictAt(0)], UpTo(PltNodes * SrKary))
HasLabel(e, m, search) ==
  Does(Put("labels", << >>) \o Evaluated(e) \o Put("simple", FLT_MAX) \o search.steps \o Put("scalar", e.scalar) \o
       Put("multilabels", search.found) \o Put("labels", e.labels), m)
PltPredict(e, m, b, top_k) ==
  IF top_k = 0 THEN HasLabel(e, m, Search_threshold(b)) ELSE HasLabel(e, m, Search_top(b, top_k))

-----------------------------------------------------------------------------
(* bs: rounds with random weights, then the mean or a vote.                *)
Rounded(b) == [i \in 1..SrK |-> b.s[i - 1]]
(* Slip: a counter that starts at the second vote.                         *)
Candidate_Slip(votes) ==
  FoldLeft(LAMBDA acc, v : IF acc.counter = 0 THEN [acc EXCEPT !.counter = 1, !.label = v]
                           ELSE [acc EXCEPT !.counter = IF v = acc.label THEN @ + 1 ELSE @ - 1],
           [counter |-> 0, label |-> votes[1], multi |-> FALSE], Tail(votes))
Candidate(votes) ==
  FoldLeft(LAMBDA acc, i :
             LET v == votes[i]
                 multi == acc.multi \/ (i # 1 /\ votes[1] # acc.label /\ v # acc.label /\ v # votes[1])
             IN  IF acc.counter = 0 THEN [counter |-> 1, label |-> v, multi |-> multi]
                 ELSE [counter |-> IF v = acc.label THEN acc.counter + 1 ELSE acc.counter - 1, label |-> acc.label, multi |-> multi],
           [counter |-> 0, label |-> votes[1], multi |-> FALSE], [i \in 1..Len(votes) |-> i])
Votes(votes, v) == Cardinality({i \in 1..Len(votes) : votes[i] = v})
(* The longest run of equal votes, of the runs that another one follows.   *)
Runs(sorted, first) ==
  FoldLeft(LAMBDA acc, i :
             IF sorted[i] = acc.tmp THEN [acc EXCEPT !.count = @ + 1]
             ELSE [tmp |-> sorted[i], count |-> 1,
                   best |-> IF acc.count > acc.counter THEN acc.tmp ELSE acc.best,
                   counter |-> IF acc.count > acc.counter THEN acc.count ELSE acc.counter],
           [tmp |-> sorted[1], count |-> 1, best |-> first, counter |-> 1], [i \in 1..(Len(sorted) - 1) |-> i + 1]).best
BsVote(votes) ==
  LET c == Candidate(votes)
      majority == c.counter > 0 /\ c.multi /\ Votes(votes, c.label) * 2 > Len(votes)
  IN  IF c.multi /\ ~majority THEN Runs(SortSeq(votes, <), c.label) ELSE c.label
(* The sum stands for the mean.                                            *)
BsMean(votes) == FoldLeft(LAMBDA x, y : x + y, 0, votes)
Bs(vote, is_learn, e, m, b) ==
  LET votes == Rounded(b)
  IN  Does(Loop(SrK, LAMBDA i : Put("weight", e.weight * b.w[i]) \o LearnIf(is_learn, i)) \o
           Put("weight", e.weight) \o Put("scalar", IF vote THEN BsVote(votes) ELSE BsMean(votes)), m)

(* topk: the best of the examples of a list, in a queue of bounded length. *)
(* The offset of a call stands for the place of its example in the list.   *)
TopNum == SrK - 1
(* Slip: the best one of a full queue goes.                                *)
update_priority_queue_Slip(queue, pred, index) ==
  LET worst == CHOOSE x \in queue : \A y \in queue : x.pred > y.pred \/ (x.pred = y.pred /\ x.index >= y.index)
  IN  IF Cardinality(queue) < TopNum THEN queue \union {[pred |-> pred, index |-> index]}
      ELSE IF worst.pred < pred THEN (queue \ {worst}) \union {[pred |-> pred, index |-> index]} ELSE queue
update_priority_queue(queue, pred, index) ==
  LET worst == CHOOSE x \in queue : \A y \in queue : x.pred < y.pred \/ (x.pred = y.pred /\ x.index <= y.index)
  IN  IF Cardinality(queue) < TopNum THEN queue \union {[pred |-> pred, index |-> index]}
      ELSE IF worst.pred < pred THEN (queue \ {worst}) \union {[pred |-> pred, index |-> index]} ELSE queue
TopQueue(preds) == FoldLeft(LAMBDA q, i : update_priority_queue(q, preds[i], i), {}, [i \in 1..Len(preds) |-> i])
Topk(is_learn, e, m, b) ==
  Does(Put("scalars", << >>) \o Loop(SrK, LAMBDA i : LearnIf(is_learn, i)) \o Put("scalars", Rounded(b)), m)

(* classweight, binary and scorer.                                         *)
ClassWeight(label) == IF label = 1 THEN 2 ELSE 1
Classweight(is_learn, e, m, b) ==
  Does((IF is_learn THEN Put("weight", e.weight * ClassWeight(e.simple)) ELSE << >>) \o LearnIf(is_learn, 0), m)
Binary(is_learn, e, m, b) ==
  Does(LearnIf(is_learn, 0) \o Put("scalar", Sign(b.s[0])), m)
Scorer(is_learn, e, m, b) == Does(LearnIf(is_learn /\ e.simple # FLT_MAX /\ e.weight > 0, 0), m)

(* confidence: how far the prediction is from changing, measured towards   *)
(* the other label when there is none.                                     *)
Confidence(after, is_learn, e, m, b) ==
  Does((IF e.simple = FLT_MAX THEN PredictAt(0) \o Put("simple", IF b.s[0] > 0 THEN -1 ELSE 1) ELSE << >>) \o
       (IF after THEN << >> ELSE SensitivityAt(0)) \o Put("simple", e.simple) \o LearnIf(is_learn, 0) \o
       (IF after THEN SensitivityAt(0) ELSE << >>), m)

-----------------------------------------------------------------------------
(* Active learning.  base.imp is the importance query_decision returns.    *)
ActiveSimulation(is_learn, e, m, b) ==
  Does(PredictAt(0) \o
       (IF ~is_learn THEN << >>
        ELSE SensitivityAt(0) \o
             (IF b.imp > 0 THEN Put("weight", e.weight * b.imp) \o LearnAt(0) ELSE Put("simple", FLT_MAX) \o Put("weight", 0))),
       IF is_learn /\ b.imp > 0 THEN [m EXCEPT !.queries = @ + 1] ELSE m)
(* Slip: the largest label seen is forgotten.                              *)
SeenLabels_Slip(m, label) == [m EXCEPT !.seen = <<Min({@[1], label}), label>>]
SeenLabels(m, label) == [m EXCEPT !.seen = <<Min({@[1], label}), Max({@[2], label})>>]
(* The threshold lies between the labels seen so far.                      *)
TowardsOther(m, pred) == Put("simple", IF 2 * pred >= m.seen[1] + m.seen[2] THEN m.seen[1] ELSE m.seen[2])
Active(direct, is_learn, e, m, b) ==
  LET asks == e.simple = FLT_MAX /\ (direct => e.tag = "query?")
  IN  Does(LearnIf(is_learn, 0) \o
           (IF asks THEN TowardsOther(m, b.s[0]) \o SensitivityAt(0) \o Put("simple", FLT_MAX) \o
                         (IF direct THEN Put("scalar", b.imp) ELSE << >>) ELSE << >>),
           IF e.simple = FLT_MAX THEN m ELSE SeenLabels(m, e.simple))

(* active_cover: a first policy and a cover of others.  base.dis says      *)
(* whether the policies disagree, base.early that it is too early to tell. *)
(* Slip: the cover is taught with the cost of the label even when it was not asked for. *)
CoverDelta_Slip(e, b, i) == IF b.dis THEN (IF Sign(b.s[0]) # Sign(e.simple) THEN 2 ELSE 0) - b.w[i] ELSE -1
CoverDelta(e, b, i) ==
  LET imp == Max({b.imp, 0})
      cost == IF Sign(b.s[0]) # Sign(e.simple) THEN imp ELSE 0
  IN  IF b.dis THEN 2 * cost - imp - b.w[i] ELSE -1
ActiveCover(is_learn, e, m, b) ==
  LET delta(i) == CoverDelta(e, b, i)
      queried == b.dis /\ b.imp > 0
      kept == IF ~b.dis THEN [l |-> Sign(b.s[0]), w |-> e.weight]
              ELSE IF queried THEN [l |-> e.simple, w |-> e.weight * b.imp] ELSE [l |-> FLT_MAX, w |-> 0]
  IN  IF ~is_learn THEN Does(PredictAt(0), m)
      ELSE Does(PredictAt(0) \o (IF b.early THEN << >> ELSE SensitivityAt(0)) \o
                (IF b.dis /\ ~b.early THEN Loop(SrK - 1, LAMBDA i : PredictAt(i + 1)) ELSE << >>) \o
                Put("simple", kept.l) \o Put("weight", kept.w) \o (IF ~b.dis \/ queried THEN LearnAt(0) ELSE << >>) \o
                Loop(SrK - 1, LAMBDA i : Put("simple", -Sign(delta(i)) * Sign(b.s[0])) \o Put("weight", e.weight * Abs(delta(i))) \o
                                         LearnAt(i + 1) \o PredictAt(i + 1)) \o
                Put("weight", kept.w) \o Put("simple", kept.l) \o Put("scalar", b.s[0]),
                IF queried THEN [m EXCEPT !.queries = @ + 1] ELSE m)

(* cs_active: the costs a class may have, from its score and how sure the  *)
(* score is (base.w: 0 is sure).                                           *)
CostMax == 2
CostRange(m, b, c) ==
  IF m.t <= 1 THEN [min |-> 0, max |-> CostMax, large |-> TRUE]
  ELSE [min |-> Max({b.s[c - 1] - b.w[c - 1], 0}), max |-> Min({b.s[c - 1] + b.w[c - 1], CostMax}), large |-> b.w[c - 1] > 0]
Overlapped(m, b, costs, c) == CostRange(m, b, c).min <= Min({CostRange(m, b, costs[i].class).max : i \in 1..Len(costs)})
AskFor(m, b, costs, c) ==
  /\ Cardinality({i \in 1..Len(costs) : Overlapped(m, b, costs, costs[i].class)}) > 1
  /\ Overlapped(m, b, costs, c) /\ CostRange(m, b, c).large
(* Slip: the class itself as offset.                                       *)
CsInner_Slip(simulation, is_learn, asked, c) == IF is_learn /\ asked THEN PredictAt(c.class) ELSE PredictAt(c.class - 1)
(* query_needed is 0 in every new lq_data, so only a simulation learns.    *)
CsInner(simulation, is_learn, asked, c) ==
  PredictAt(c.class - 1) \o
  (IF ~is_learn THEN << >>
   ELSE Put("weight", 1) \o (IF simulation /\ asked THEN Put("simple", c.x) \o LearnAt(c.class - 1) ELSE Put("simple", FLT_MAX)))
(* Saving the regressor whenever min_labels is reached, and doubling       *)
(* min_labels then, changes nothing that a call reads here.                *)
CsActive(simulation, is_learn, e, m, b) ==
  LET n == Len(e.cs)
      asked(i) == AskFor(m, b, e.cs, e.cs[i].class)
      classes == IF n = 0 THEN [c \in 1..SrK |-> c] ELSE [i \in 1..n |-> e.cs[i].class]
      needed == IF simulation \/ is_learn THEN << >> ELSE SelectSeq(classes, LAMBDA c : \E i \in 1..n : e.cs[i].class = c /\ asked(i))
  IN  IF m.queries >= SrMaxLabels THEN Does(<< >>, m)
      ELSE DoesOrThrows(
             Put("simple", 0) \o Loop(n, LAMBDA i : PredictAt(e.cs[i + 1].class - 1) \o SensitivityAt(e.cs[i + 1].class - 1)) \o
             (IF n = 0 THEN Loop(SrK, LAMBDA i : PredictAt(i)) ELSE Loop(n, LAMBDA i : CsInner(simulation, is_learn, asked(i + 1), e.cs[i + 1]))) \o
             Put("multilabels", e.multilabels \o needed) \o Put("multiclass", Least(1, classes, [c \in 1..SrK |-> b.s[c - 1]])) \o Put("cs", e.cs),
             [m EXCEPT !.queries = @ + (IF simulation /\ is_learn THEN Cardinality({i \in 1..n : asked(i)}) ELSE 0),
                       !.t = IF is_learn /\ n > 0 THEN Min({@ + 1, 2}) ELSE @],
             [m EXCEPT !.query_data = @ \o classes])

-----------------------------------------------------------------------------
(* boosting.  BBM keeps binomial coefficients it has computed; s counts    *)
(* the rounds won less those lost.                                         *)
Binomial(n, k) == IF k > n \/ k < 0 THEN 0 ELSE choose(n, k)
Rounds(e, b, i) == FoldLeft(LAMBDA x, j : x + e.simple * b.s[j], 0, UpTo(i))
CoeffAt(e, b, i) == <<SrK - (i + 1), (SrK - i - Rounds(e, b, i)) \div 2>>
(* Slip: coefficients are kept under the round they were computed in.      *)
CoeffKey_Slip(e, b, i) == <<SrK - 1, CoeffAt(e, b, i)[2]>>
CoeffKey(e, b, i) == CoeffAt(e, b, i)
Coefficient(m, e, b, i) ==
  IF \E x \in m.cache : x.at = CoeffKey(e, b, i) THEN (CHOOSE x \in m.cache : x.at = CoeffKey(e, b, i)).c
  ELSE Binomial(CoeffAt(e, b, i)[1], CoeffAt(e, b, i)[2])
Cached(m, e, b) ==
  FoldLeft(LAMBDA mm, i : LET k == CoeffAt(e, b, i)
                          IN  IF k[2] > k[1] \/ k[2] < 0 THEN mm
                              ELSE [mm EXCEPT !.cache = @ \union {[at |-> CoeffKey(e, b, i), c |-> Coefficient(mm, e, b, i)]}], m, UpTo(SrK))
Bbm(is_learn, e, m, b) ==
  LET sum == FoldLeft(LAMBDA x, i : x + b.s[i], 0, UpTo(SrK))
  IN  IF is_learn
      THEN Does(Loop(SrK, LAMBDA i : Put("weight", e.weight * Coefficient(m, e, b, i)) \o PredictAt(i) \o LearnAt(i)) \o
                Put("weight", e.weight) \o Put("scalar", sum), Cached(m, e, b))
      ELSE Does(Loop(SrK, LAMBDA i : PredictAt(i)) \o Put("scalar", sum), m)
Alpha(a, z) == Max({Min({a + z, 2}), -2})
(* Weights of rounds are moved after they are used; the adaptive form      *)
(* stops, at random, when enough of the rounds were counted (base.stop).   *)
Boosted(adaptive, is_learn, e, m, b) ==
  LET counted == IF adaptive THEN b.stop ELSE SrK
      asked == IF adaptive /\ ~is_learn THEN Min({b.stop + 1, SrK}) ELSE SrK
      sum == FoldLeft(LAMBDA x, i : x + b.s[i] * m.alpha[i], 0, UpTo(counted))
  IN  IF is_learn
      THEN Does(Loop(SrK, LAMBDA i : Put("weight", e.weight) \o PredictAt(i) \o LearnAt(i)) \o Put("weight", e.weight) \o Put("scalar", sum),
                [m EXCEPT !.alpha = [i \in DOMAIN @ |-> Alpha(@[i], e.simple * b.s[i])]])
      ELSE Does(Loop(asked, LAMBDA i : PredictAt(i)) \o Put("weight", e.weight) \o Put("scalar", sum), m)

-----------------------------------------------------------------------------
(* The reductions together.                                                *)
Code(r, is_learn, e, m, b) ==
  CASE r = "oaa" -> IF is_learn THEN OaaLearn(e, m, b) ELSE OaaPredict(e, m, b)
    [] r = "oaa_scores" -> IF is_learn THEN OaaLearn(e, m, b) ELSE OaaScores(e, m, b)
    [] r = "oaa_subsample" -> IF is_learn THEN OaaRandomized(e, m, b) ELSE OaaPredict(e, m, b)
    [] r = "ect" -> IF is_learn THEN EctLearn(e, m, b) ELSE EctPredict(e, m, b)
    [] r = "csoaa" -> Csoaa(is_learn, e, m, b)
    [] r = "multilabel_oaa" -> MultilabelOaa(is_learn, e, m, b)
    [] r = "multilabel_probabilities" -> MultilabelProbabilities(is_learn, e, m, b)
    [] r = "plt" -> IF is_learn THEN PltLearn(e, m, b) ELSE PltPredict(e, m, b, 0)
    [] r = "plt_top" -> IF is_learn THEN PltLearn(e, m, b) ELSE PltPredict(e, m, b, 1)
    [] r = "bs_mean" -> Bs(FALSE, is_learn, e, m, b)
    [] r = "bs_vote" -> Bs(TRUE, is_learn, e, m, b)
    [] r = "topk" -> Topk(is_learn, e, m, b)
    [] r = "classweight" -> Classweight(is_learn, e, m, b)
    [] r = "binary" -> Binary(is_learn, e, m, b)
    [] r = "scorer" -> Scorer(is_learn, e, m, b)
    [] r = "confidence" -> Confidence(FALSE, is_learn, e, m, b)
    [] r = "confidence_after" -> Confidence(TRUE, is_learn, e, m, b)
    [] r = "active_simulation" -> ActiveSimulation(is_learn, e, m, b)
    [] r = "active" -> Active(FALSE, is_learn, e, m, b)
    [] r = "active_direct" -> Active(TRUE, is_learn, e, m, b)
    [] r = "active_cover" -> ActiveCover(is_learn, e, m, b)
    [] r = "cs_active" -> CsActive(FALSE, is_learn, e, m, b)
    [] r = "cs_active_simulation" -> CsActive(TRUE, is_learn, e, m, b)
    [] r = "boosting" -> Bbm(is_learn, e, m, b)
    [] r = "boosting_logistic" -> Boosted(FALSE, is_learn, e, m, b)
    [] r = "boosting_adaptive" -> Boosted(TRUE, is_learn, e, m, b)

LearnReturnsPrediction(r) ==
  r \in {"csoaa", "multilabel_oaa", "multilabel_probabilities", "topk", "bs_mean", "bs_vote", "confidence", "confidence_after",
         "active_simulation", "binary", "cs_active", "cs_active_simulation"}
Width(r) ==
  CASE r = "ect" -> LastPair + SrErrors
    [] r \in {"plt", "plt_top"} -> PltNodes
    [] r \in {"classweight", "binary", "scorer", "confidence", "confidence_after", "active_simulation", "active", "active_direct"} -> 1
    [] OTHER -> SrK

-----------------------------------------------------------------------------
(* What a call does to the object, and the calls it makes below.           *)
Done(e, b, d) == [x |-> ExecAll(b, e, d.steps), mem |-> d.mem]
Outcome(r, is_learn, e, m, b) == Done(e, b, Code(r, is_learn, e, m, b))
(* A call below throws: the steps after it are skipped, but for the guard  *)
(* of csoaa.                                                               *)
CallsIn(steps) == {i \in 1..Len(steps) : steps[i].op # "put"}
Guard(r, steps) == IF r = "csoaa" THEN <<Last(steps)>> ELSE << >>
Thrown(r, e, b, d, at) == [x |-> ExecAll(b, e, SubSeq(d.steps, 1, at - 1) \o Guard(r, d.steps)), mem |-> d.thrown]

(* Learning by the workspace: with the prediction of a call of its own     *)
(* where learn does not return one.                                        *)
PredFields == {"scalar", "multiclass", "scalars", "multilabels"}
SavedPrediction(p, l) ==
  [x |-> [obj |-> [f \in DOMAIN l.x.obj |-> IF f \in PredFields THEN p.x.obj[f] ELSE l.x.obj[f]], log |-> p.x.log \o l.x.log],
   mem |-> l.mem]
LearnAfter(r, p, b) == SavedPrediction(p, Outcome(r, TRUE, p.x.obj, p.mem, b))
WorkspaceLearn(r, e, m, b) ==
  IF LearnReturnsPrediction(r) THEN Outcome(r, TRUE, e, m, b) ELSE LearnAfter(r, Outcome(r, FALSE, e, m, b), b)

(* The labels a reduction is given, and the answers of the learner below.  *)
MulticlassOf(r) == IF r = "oaa_subsample" THEN 1..SrK ELSE 0..SrK
Costs(S) == {[i \in 1..SrK |-> [class |-> i, x |-> f[i]]] : f \in [1..SrK -> S]} \union {<< >>, <<[class |-> 2, x |-> 1]>>}
LabelledAs(r, e) ==
  CASE r \in {"oaa", "oaa_scores", "oaa_subsample", "ect"} -> {[e EXCEPT !.multi = l] : l \in MulticlassOf(r)}
    [] r \in {"csoaa", "cs_active", "cs_active_simulation"} -> {[e EXCEPT !.cs = c] : c \in Costs({0, 2})}
    [] r \in {"multilabel_oaa", "multilabel_probabilities", "plt", "plt_top"} ->
         {[e EXCEPT !.labels = SetToSortSeq(S, <)] : S \in SUBSET (0..(SrK - 1))}
    [] r = "active_direct" -> {[e EXCEPT !.simple = l, !.tag = t] : l \in {-1, 1, FLT_MAX}, t \in {"query?", ""}}
    [] r \in {"active_cover", "boosting", "boosting_logistic", "boosting_adaptive"} -> {[e EXCEPT !.simple = l] : l \in {-1, 1}}
    [] OTHER -> {[e EXCEPT !.simple = l] : l \in {-1, 1, FLT_MAX}}
Scores(r) ==
  CASE r \in {"plt", "plt_top"} -> {0, 1}
    [] r \in {"cs_active", "cs_active_simulation"} -> {0, 2}
    [] r \in {"csoaa", "topk", "bs_vote"} -> {0, 1, 2}
    [] OTHER -> {-1, 1}
(* Beyond the weights of the reduction there is something else.            *)
AllScores(r) == {[i \in 0..Width(r) |-> IF i < Width(r) THEN f[i] ELSE 0] : f \in [0..(Width(r) - 1) -> Scores(r)]}
Answers(s, a) == [s |-> s, a |-> a, w |-> [i \in 0..(SrK - 1) |-> 1], imp |-> -1, dis |-> TRUE, early |-> FALSE, stop |-> SrK]
Bases(r) ==
  CASE r = "ect" -> {Answers(a, a) : a \in AllScores(r)}
    [] r \in {"plt", "plt_top", "oaa_scores", "csoaa", "topk", "bs_vote", "bs_mean", "multilabel_oaa", "multilabel_probabilities"} ->
         {Answers(s, s) : s \in AllScores(r)}
    [] r \in {"active_simulation", "active_direct"} -> {[Answers(s, s) EXCEPT !.imp = i] : s \in AllScores(r), i \in {-1, 2}}
    [] r = "active_cover" ->
         {[Answers(s, s) EXCEPT !.imp = c[1], !.dis = c[2], !.early = c[3], !.w = w] :
            s \in AllScores(r), c \in {<<-1, FALSE, FALSE>>, <<-1, TRUE, FALSE>>, <<2, TRUE, FALSE>>, <<1, TRUE, TRUE>>},
            w \in [0..(SrK - 1) -> {-1, 1}]}
    [] r \in {"cs_active", "cs_active_simulation"} -> {[Answers(s, s) EXCEPT !.w = w] : s \in AllScores(r), w \in [0..(SrK - 1) -> {0, 1}]}
    [] r = "boosting_adaptive" -> {[Answers(s, s) EXCEPT !.stop = n] : s \in AllScores(r), n \in 1..SrK}
    [] OTHER -> {Answers(s, a) : s \in AllScores(r), a \in AllScores(r)}

-----------------------------------------------------------------------------
MaxExamples == IF sred \in SrReused THEN SrMaxExamples ELSE 1
SrInit == sred \in SrReductions /\ scount = 0 /\ sobj = NoObj /\ smem = [NoMem EXCEPT !.circuit = IF sred = "ect" THEN create_circuit ELSE << >>] /\ srun = << >>

Ran(e, b, how, out) ==
  /\ srun' = <<[given |-> e, base |-> b, how |-> how, mem |-> smem, log |-> out.x.log]>>
  /\ sobj' = out.x.obj /\ smem' = out.mem
  /\ UNCHANGED <<sred, scount>>

(* -t, or an example of the holdout set.                                   *)
SrPredict ==
  /\ srun = << >> /\ scount < MaxExamples
  /\ \E e \in LabelledAs(sred, sobj), b \in Bases(sred) : Ran(e, b, "predict", Outcome(sred, FALSE, e, smem, b))
SrLearn ==
  /\ srun = << >> /\ scount < MaxExamples
  /\ \E e \in LabelledAs(sred, sobj), b \in Bases(sred) : Ran(e, b, "learn", WorkspaceLearn(sred, e, smem, b))
SrThrow ==
  /\ srun = << >> /\ scount < MaxExamples /\ sred \in {"csoaa", "plt", "cs_active_simulation"}
  /\ \E e \in LabelledAs(sred, sobj), s \in {[i \in 0..Width(sred) |-> v] : v \in {0, 1}} :
       \E d \in {Code(sred, TRUE, e, smem, Answers(s, s))} : \E at \in CallsIn(d.steps) :
         Ran(e, Answers(s, s), "throw", Thrown(sred, e, Answers(s, s), d, at))
(* The example is finished; its object comes back with the next one, with  *)
(* a label of its own but the predictions it holds.                        *)
SrFinish ==
  /\ srun # << >>
  /\ srun' = << >> /\ scount' = scount + 1
  /\ sobj' = [f \in DOMAIN sobj |-> IF f \in PredFields THEN sobj[f] ELSE NoObj[f]]
  /\ UNCHANGED <<sred, smem>>
SrDone == srun = << >> /\ scount = MaxExamples /\ UNCHANGED srVars

SrNext == SrPredict \/ SrLearn \/ SrThrow \/ SrFinish \/ SrDone
SrSpec == SrInit /\ [][SrNext]_srVars

-----------------------------------------------------------------------------
After(hows) == srun # << >> /\ srun[1].how \in hows
Unlabelled(e) == [e EXCEPT !.multi = 0, !.cs = << >>, !.labels = << >>, !.simple = FLT_MAX]
AsTaught(r, label) == IF r \in {"plt", "plt_top"} THEN (IF label = 1 THEN 1 ELSE 0) ELSE label
(* The learner below answers, from now on, what it was taught last.        *)
LearntAll(run) ==
  \A i \in 1..Len(run.log) :
    (IsTaught(run.log[i]) /\ run.log[i].weight > 0) => run.base.a[run.log[i].off] = AsTaught(sred, run.log[i].label)
Usable(e) ==
  CASE sred = "oaa" -> IF smem.indexing = 0 THEN e.multi < SrK ELSE e.multi > 0
    [] sred = "ect" -> e.multi > 0
    [] sred = "csoaa" -> Len(e.cs) = SrK
    [] sred \in {"multilabel_oaa", "plt"} -> TRUE
    [] sred = "plt_top" -> Len(e.labels) = 1
    [] OTHER -> FALSE
PredictsRight(e, obj) ==
  CASE sred \in {"oaa", "ect"} -> obj.multiclass = e.multi
    [] sred = "csoaa" -> \A i \in 1..SrK : e.cs[obj.multiclass].x <= e.cs[i].x
    [] OTHER -> ToSet(obj.multilabels) = ToSet(e.labels)
(* The reductions to binary problems or to regressions are consistent: a   *)
(* learner below that answers what oaa, ect, csoaa, multilabel_oaa or plt  *)
(* taught it makes them predict the label they were given.                 *)
ReducesConsistently ==
  After({"learn"}) =>
    LET run == srun[1]
    IN  (Usable(run.given) /\ LearntAll(run)) =>
          PredictsRight(run.given, Outcome(sred, FALSE, Unlabelled(run.given), smem, [run.base EXCEPT !.s = run.base.a]).x.obj)

(* The caller gets the label and the weight back that it gave, whatever    *)
(* was put into the example for the learner below; csoaa keeps the label   *)
(* when a call below throws.  Weights change with classweight, and with    *)
(* learning by csoaa and ect; simulated active learning hides the label.   *)
GivenBack ==
  /\ (After({"predict"}) \/ (After({"learn"}) /\ sred \notin {"active_simulation", "active_cover"})) =>
       \A f \in {"multi", "cs", "labels"} : sobj[f] = srun[1].given[f]
  /\ (After({"predict"}) \/ (After({"learn"}) /\ sred \notin {"active_simulation", "active_cover", "classweight", "csoaa", "ect",
                                                              "cs_active", "cs_active_simulation"})) =>
       sobj.weight = srun[1].given.weight
  /\ (After({"throw"}) /\ sred = "csoaa") => sobj.cs = srun[1].given.cs

(* No call goes beyond the weights the reduction asked for, where those of *)
(* its neighbour begin.                                                    *)
OffsetsInRange == srun # << >> => \A i \in 1..Len(srun[1].log) : srun[1].log[i].off \in 0..(Width(sred) - 1)

(* oaa updates every class with the prediction made for this example by    *)
(* this class, although predictions and updates are different calls.       *)
UpdatesOwnPrediction ==
  (After({"learn"}) /\ sred \in {"oaa", "oaa_scores"}) =>
    \A i \in 1..Len(srun[1].log) : srun[1].log[i].op = "update" => srun[1].log[i].pred = srun[1].base.s[srun[1].log[i].off]

(* How sure a prediction is is measured towards a label that is not the    *)
(* predicted one, whatever labels were seen.                               *)
MeasuredTowardsOther ==
  (srun # << >> /\ sred \in {"confidence", "active", "active_direct"} /\ srun[1].given.simple = FLT_MAX) =>
    \A i \in 1..Len(srun[1].log) :
      srun[1].log[i].op = "sensitivity" => srun[1].log[i].label \notin {FLT_MAX, srun[1].base.s[0]}

(* A label that was not asked for is not used: every other label would     *)
(* have led to the same calls below.                                       *)
LabelHidden ==
  (After({"learn"}) /\ sred \in {"active_simulation", "active_cover", "cs_active_simulation"}) =>
    \A e \in LabelledAs(sred, srun[1].given) :
      LET run == srun[1]
          asked(c) == AskFor(run.mem, run.base, run.given.cs, c)
          alike == IF sred = "cs_active_simulation"
                   THEN Len(e.cs) = Len(run.given.cs) /\
                        \A i \in 1..Len(e.cs) : e.cs[i] = run.given.cs[i] \/ (e.cs[i].class = run.given.cs[i].class /\ ~asked(e.cs[i].class))
                   ELSE smem.queries = run.mem.queries
      IN  alike => SelectSeq(WorkspaceLearn(sred, e, run.mem, run.base).x.log, IsTaught) = SelectSeq(run.log, IsTaught)

(* The vote of bs is the label most rounds agree on, where more than half  *)
(* of them do, and topk prints examples that none it leaves out beats.     *)
VotesCounted ==
  /\ (srun # << >> /\ sred = "bs_vote") =>
       \A v \in Scores(sred) : Votes(Rounded(srun[1].base), v) * 2 > SrK => sobj.scalar = v
  /\ (srun # << >> /\ sred = "topk") =>
       LET q == TopQueue(sobj.scalars)
       IN  /\ Cardinality(q) = TopNum
           /\ \A x \in q, i \in 1..SrK : i \in {y.index : y \in q} \/ sobj.scalars[i] <= x.pred

(* BBM weighs every round by the binomial coefficient of the rounds still  *)
(* to come and of how many of them are needed, computed now or kept from   *)
(* an earlier example.                                                     *)
CoefficientsRight ==
  (After({"learn"}) /\ sred = "boosting") =>
    \A i \in 1..Len(srun[1].log) :
      IsTaught(srun[1].log[i]) =>
        LET at == CoeffAt(srun[1].given, srun[1].base, srun[1].log[i].off)
        IN  srun[1].log[i].weight = srun[1].given.weight * Binomial(at[1], at[2])

-----------------------------------------------------------------------------
(* Statements of comments that do not hold.                                *)
(* bs.cc, with five rounds: "then find most frequent element - if tie: smallest tie label". *)
MostFrequentVote ==
  (srun # << >> /\ sred = "bs_vote") =>
    \A v \in Scores(sred) : Votes(Rounded(srun[1].base), v) <= Votes(Rounded(srun[1].base), sobj.scalar)
(* cs_active.cc: "If the cost of this label was previously queried, then   *)
(* it should be available for learning now."                               *)
QueriedIsLearnt ==
  (After({"learn"}) /\ sred = "cs_active") =>
    \A i \in 1..Len(srun[1].given.cs) :
      AskFor(srun[1].mem, srun[1].base, srun[1].given.cs, srun[1].given.cs[i].class) =>
        \E j \in 1..Len(srun[1].log) : IsTaught(srun[1].log[j]) /\ srun[1].log[j].off = srun[1].given.cs[i].class - 1
(* The probabilities that are printed are those of this example.           *)
OwnProbabilities == (srun # << >> /\ sred = "multilabel_probabilities") => SubSeq(sobj.scalars, 1, SrK) = Rounded(srun[1].base)
(* ect.cc: "tournaments_won is a bit vector determining which tournaments  *)
(* the label won.": an example that won one of them is predicted right.    *)
WonIsPredicted ==
  (After({"learn"}) /\ sred = "ect" /\ srun[1].given.multi > 0) =>
    LET run == srun[1]
        games == GamesOf(smem.circuit, run.given, run.base)
        taught == {run.log[i].off : i \in {j \in 1..Len(run.log) : IsTaught(run.log[j])}}
        kept == \A i \in 1..Len(run.log) : run.log[i].off >= LastPair /\ IsTaught(run.log[i]) => run.base.a[run.log[i].off] = run.log[i].label
    IN  (kept /\ TRUE \in ToSet(games.won)) => ect_predict(smem.circuit, [run.base EXCEPT !.s = run.base.a]).class = run.given.multi
(* No entry of a call that threw is left for the next one.                 *)
QueryDataFresh == smem.query_data = << >>

(* The reductions that ask several scores for one prediction: answered as  *)
(* they taught they predict the label they were given; they give the       *)
(* example back with its label, but for active learning that hides it, and *)
(* with its weight, but for the ones that set it (see GivenBack); they     *)
(* stay within their weights, use the predictions of this example, measure *)
(* towards labels they did not predict, hide the labels that were not      *)
(* asked for, and count votes and rounds right.                            *)
ScoresReduced ==
  /\ ReducesConsistently
  /\ GivenBack
  /\ OffsetsInRange
  /\ UpdatesOwnPrediction
  /\ MeasuredTowardsOther
  /\ LabelHidden
  /\ VotesCounted
  /\ CoefficientsRight
=============================================================================

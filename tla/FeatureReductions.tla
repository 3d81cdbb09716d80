-------------------------- MODULE FeatureReductions -------------------------
(* What reductions add to the features of an example: interactions, and    *)
(* the reductions that change features around the base call.               *)
EXTENDS Integers, Sequences, FiniteSets, SequencesExt, FiniteSetsExt, TLC

(* Interactions of namespaces: the reduction that expands wildcards as new *)
(* namespaces are seen (core/src/reductions/generate_interactions.cc,      *)
(* interactions.h), the generation of the crossed features of an example   *)
(* (interactions_predict.h) and the sum of their squares that is computed  *)
(* beside it (interactions.cc).  Features are [term, pos]; hashes and the  *)
(* product of the values are left out, the squares are kept.               *)

CONSTANTS
  InteractionSpecs,  \* [chars, extents: lists of interactions; permutations, leave_duplicates]
  CrossedExamples,   \* each a list of extents [ns, hash, size] in the order they were read
  MaxCrossed         \* bound: examples

VARIABLES
  ixSpec, ixSeen,      \* the options; the examples seen
  ixExample,           \* the example at hand, << >> between two
  generated_interactions, generated_extent_interactions,
  crossTodo,           \* interactions still to be crossed: [terms, whole]
  crossing,            \* the one at hand or just finished, << >> before the first
  crossFrames,         \* in_process_frames
  crossRanges,         \* the combinations of ranges still to be crossed
  crossGen,            \* state of process_generic_interaction, << >> outside
  crossed, num_features

interactionVars ==
  <<ixSpec, ixSeen, ixExample, generated_interactions, generated_extent_interactions, crossTodo,
    crossing, crossFrames, crossRanges, crossGen, crossed, num_features>>

Wildcard == 0

InteractionsInit ==
  /\ ixSpec \in InteractionSpecs /\ ixSeen = {} /\ ixExample = << >>
  /\ generated_interactions = << >> /\ generated_extent_interactions = << >>
  /\ crossTodo = << >> /\ crossing = << >> /\ crossFrames = << >> /\ crossRanges = << >> /\ crossGen = << >>
  /\ crossed = {} /\ num_features = 0

-----------------------------------------------------------------------------
(* Expanding wildcards.                                                    *)
Listed(set, before(_, _)) == SortSeq(FoldSet(LAMBDA x, list : Append(list, x), << >>, set), before)
Ascending(set) == Listed(set, <)
Shorter(a, b) ==
  \/ Len(a) < Len(b)
  \/ /\ Len(a) = Len(b)
     /\ \E i \in DOMAIN a : a[i] < b[i] /\ \A j \in 1 .. i - 1 : a[j] = b[j]

(* generate_namespace_combinations_with_repetition: a counter with one     *)
(* digit more than it needs; a carry sets the digits below it to the one   *)
(* that was increased.                                                     *)
Carried(c, i, last) ==
  IF c[i] <= last THEN c
  ELSE [j \in 1 .. i + 1 |-> c[i + 1] + 1] \o SubSeq(c, i + 2, Len(c))
CombinationsWithRepetition(namespaces, pick) ==
  LET ns == Ascending(namespaces)
      last == Len(ns) - 1
      carry(c) == FoldLeft(LAMBDA d, i : Carried(d, i, last), c, [i \in 1 .. pick |-> i])
      after[k \in 0 .. Len(ns) ^ pick] ==   \* the counter and what was emitted after k rounds
        IF k = 0 THEN [c |-> [i \in 1 .. pick + 1 |-> 0], out |-> << >>]
        ELSE LET p == after[k - 1]
                 c == carry(p.c)
             IN IF c[pick + 1] > 0 THEN [p EXCEPT !.c = c]
                ELSE [c |-> [c EXCEPT ![1] = @ + 1],
                      out |-> Append(p.out, [i \in 1 .. pick |-> ns[c[i] + 1]])]
  IN after[Len(ns) ^ pick].out

PermutationsWithRepetition(namespaces, pick) == Listed([1 .. pick -> namespaces], Shorter)

(* expand_quadratics_wildcard_interactions                                 *)
ExpandQuadratics(namespaces, leave) ==
  Listed({p \in namespaces \X namespaces : p[1] <= p[2] \/ leave}, Shorter)

Expansions(namespaces, pick, leave, whole) ==
  IF whole /\ pick = 2 THEN ExpandQuadratics(namespaces, leave)
  ELSE IF leave THEN PermutationsWithRepetition(namespaces, pick)
  ELSE CombinationsWithRepetition(namespaces, pick)

(* compile_interaction: the other terms are put back at their places.      *)
CompileInteraction(inter, namespaces, leave, whole) ==
  LET free == {i \in DOMAIN inter : inter[i] = Wildcard}
      nth(i) == Cardinality({j \in free : j <= i})
      out == Expansions(namespaces, Cardinality(free), leave, whole)
  IN IF free = {} THEN <<inter>>
     ELSE [k \in DOMAIN out |-> [i \in DOMAIN inter |-> IF i \in free THEN out[k][nth(i)] ELSE inter[i]]]

Sorted(inter) == SortSeq(inter, <)
MustBeLeftSorted(s) ==
  \/ Len(s) <= 1
  \/ /\ \E i \in 1 .. Len(s) - 1 : s[i] = s[i + 1]
     /\ \E i \in 1 .. Len(s) - 1 : s[i] # s[i + 1]
SortAndFilterDuplicates(list, filter) ==
  LET first == {i \in DOMAIN list : \A j \in 1 .. i - 1 : Sorted(list[j]) # Sorted(list[i])}
      kept == Ascending(IF filter THEN first ELSE DOMAIN list)
  IN [k \in DOMAIN kept |-> LET s == Sorted(list[kept[k]]) IN
                            IF MustBeLeftSorted(s) THEN s ELSE list[kept[k]]]

CompileInteractions(list, namespaces, leave, whole) ==
  LET all == FlattenSeq([i \in DOMAIN list |-> CompileInteraction(list[i], namespaces, leave, whole)])
  IN SortAndFilterDuplicates(IF whole THEN SortSeq(all, Shorter) ELSE all, ~leave)

-----------------------------------------------------------------------------
(* transform_single_ex: both lists are compiled anew when something new is *)
(* seen.  A new extent clears the list of the characters.                  *)
NamespacesOf(examples) == {x.ns : x \in UNION {Range(e) : e \in examples}}
ExtentsOf(examples) == {x.hash : x \in UNION {Range(e) : e \in examples}}
HasExtentWildcards == \E i \in DOMAIN ixSpec.extents : Wildcard \in Range(ixSpec.extents[i])

CharsAfter_Slip(now) ==
  IF NamespacesOf(now) = NamespacesOf(ixSeen) \/ generated_interactions # << >>
  THEN generated_interactions
  ELSE CompileInteractions(ixSpec.chars, NamespacesOf(now), ixSpec.leave_duplicates, TRUE)
CharsAfter(now) ==
  IF NamespacesOf(now) = NamespacesOf(ixSeen) THEN generated_interactions
  ELSE CompileInteractions(ixSpec.chars, NamespacesOf(now), ixSpec.leave_duplicates, TRUE)
NewExtents(now) == ExtentsOf(now) # ExtentsOf(ixSeen)

TransformExample ==
  /\ ixExample = << >> /\ Cardinality(ixSeen) < MaxCrossed
  /\ \E e \in CrossedExamples \ ixSeen :
       LET now == ixSeen \cup {e} IN
       /\ ixExample' = e /\ ixSeen' = now
       /\ generated_interactions' =
            IF HasExtentWildcards /\ NewExtents(now) THEN << >> ELSE CharsAfter(now)
       /\ generated_extent_interactions' =
            IF ~HasExtentWildcards THEN ixSpec.extents
            ELSE IF NewExtents(now)
                 THEN CompileInteractions(ixSpec.extents, ExtentsOf(now), ixSpec.leave_duplicates, FALSE)
            ELSE generated_extent_interactions
  /\ crossTodo' = [i \in DOMAIN generated_interactions' |->
                     [terms |-> generated_interactions'[i], whole |-> TRUE]]
               \o [i \in DOMAIN generated_extent_interactions' |->
                     [terms |-> generated_extent_interactions'[i], whole |-> FALSE]]
  /\ UNCHANGED <<ixSpec, crossing, crossFrames, crossRanges, crossGen, crossed, num_features>>

-----------------------------------------------------------------------------
(* Crossing.  A range of features of a group begins at `from`.             *)
Start(i) == FoldLeft(LAMBDA n, k : IF ixExample[k].ns = ixExample[i].ns THEN n + ixExample[k].size ELSE n,
                     0, [k \in 1 .. i - 1 |-> k])
ExtentRange(i) == [ns |-> ixExample[i].ns, from |-> Start(i), to |-> Start(i) + ixExample[i].size]
HashExtents(hash) ==
  LET is == Ascending({i \in DOMAIN ixExample : ixExample[i].hash = hash})
  IN [k \in DOMAIN is |-> ExtentRange(is[k])]
GroupSize(ns) ==
  FoldLeft(LAMBDA n, x : IF x.ns = ns THEN n + x.size ELSE n, 0, ixExample)
Group(ns) == [ns |-> ns, from |-> 0, to |-> GroupSize(ns)]

EmptyTerm(x, term) ==
  IF x.whole THEN GroupSize(term) = 0 ELSE HashExtents(term) = << >>

FirstFrames(terms) ==
  [i \in DOMAIN HashExtents(terms[1]) |->
     [term |-> 2, prev |-> 1, offset |-> i - 1, so_far |-> <<HashExtents(terms[1])[i]>>]]

NothingOpen == crossFrames = << >> /\ crossRanges = << >> /\ crossGen = << >>

BeginCross ==
  /\ ixExample # << >> /\ crossTodo # << >> /\ NothingOpen
  /\ crossing' = Head(crossTodo) /\ crossTodo' = Tail(crossTodo)
  /\ LET x == Head(crossTodo)
         empty == \E i \in DOMAIN x.terms : EmptyTerm(x, x.terms[i])
     IN /\ crossRanges' = IF ~empty /\ x.whole THEN << [i \in DOMAIN x.terms |-> Group(x.terms[i])] >>
                          ELSE << >>
        /\ crossFrames' = IF ~empty /\ ~x.whole THEN FirstFrames(x.terms) ELSE << >>
  /\ crossed' = {} /\ num_features' = 0
  /\ UNCHANGED <<ixSpec, ixSeen, ixExample, generated_interactions, generated_extent_interactions, crossGen>>

(* generate_generic_extent_combination_iterative: one frame of its stack.  *)
OffsetAfter(top, same, i) == (IF same THEN top.offset ELSE 0) + i
PopFrame ==
  /\ crossFrames # << >> /\ crossRanges = << >> /\ crossGen = << >>
  /\ LET terms == crossing.terms
         top == Last(crossFrames)
         same == terms[top.prev] = terms[top.term]
         extents == HashExtents(terms[top.term])
         rest == SubSeq(extents, (IF same THEN top.offset ELSE 0) + 1, Len(extents))
     IN IF top.term = Len(terms)
        THEN /\ crossRanges' = [i \in DOMAIN rest |-> Append(top.so_far, rest[i])]
             /\ crossFrames' = Front(crossFrames)
        ELSE /\ crossFrames' = Front(crossFrames)
                  \o [i \in DOMAIN rest |-> [term |-> top.term + 1, prev |-> top.term,
                                             offset |-> OffsetAfter(top, same, i - 1),
                                             so_far |-> Append(top.so_far, rest[i])]]
             /\ UNCHANGED crossRanges
  /\ UNCHANGED <<ixSpec, ixSeen, ixExample, generated_interactions, generated_extent_interactions,
                 crossTodo, crossing, crossGen, crossed, num_features>>

Whole(r) == r.from .. r.to - 1
Feat(r, pos) == <<r.ns, pos>>
Same(r, s) == ~ixSpec.permutations /\ r.ns = s.ns /\ r.from = s.from

(* process_quadratic_interaction, process_cubic_interaction: the nested    *)
(* loops, with the position the inner one begins at.                       *)
Pairs(r, s) ==
  {<<Feat(r, p[1]), Feat(s, p[2])>> : p \in {q \in Whole(r) \X Whole(s) : Same(r, s) => q[2] >= q[1]}}
Triples(r, s, t) ==
  {<<Feat(r, p[1]), Feat(s, p[2]), Feat(t, p[3])>> :
     p \in {q \in Whole(r) \X Whole(s) \X Whole(t) :
              /\ Same(r, s) => q[2] >= q[1]
              /\ Same(s, t) => q[3] >= q[2]}}

ProcessLoops ==
  /\ crossRanges # << >> /\ crossGen = << >> /\ Len(Head(crossRanges)) <= 3
  /\ LET r == Head(crossRanges)
         new == IF Len(r) = 2 THEN Pairs(r[1], r[2]) ELSE Triples(r[1], r[2], r[3])
     IN crossed' = crossed \cup new /\ num_features' = num_features + Cardinality(new)
  /\ crossRanges' = Tail(crossRanges)
  /\ UNCHANGED <<ixSpec, ixSeen, ixExample, generated_interactions, generated_extent_interactions,
                 crossTodo, crossing, crossFrames, crossGen>>

(* process_generic_interaction: forward to the last namespace, over all of *)
(* its features, and back to the first one that has a next feature.        *)
BeginGeneric ==
  /\ crossRanges # << >> /\ crossGen = << >> /\ Len(Head(crossRanges)) > 3
  /\ crossGen' = [cur |-> 1, it |-> [i \in DOMAIN Head(crossRanges) |-> Head(crossRanges)[i].from]]
  /\ UNCHANGED <<ixSpec, ixSeen, ixExample, generated_interactions, generated_extent_interactions,
                 crossTodo, crossing, crossFrames, crossRanges, crossed, num_features>>

NextIt_Slip(r, i, it) == it[i + 1]
NextIt(r, i, it) == r[i + 1].from + (IF Same(r[i], r[i + 1]) THEN it[i] - r[i].from ELSE 0)
GenericForward ==
  /\ crossGen # << >> /\ crossGen.cur < Len(Head(crossRanges))
  /\ crossGen' = [cur |-> crossGen.cur + 1,
                  it |-> [crossGen.it EXCEPT ![crossGen.cur + 1] =
                            NextIt(Head(crossRanges), crossGen.cur, crossGen.it)]]
  /\ UNCHANGED <<ixSpec, ixSeen, ixExample, generated_interactions, generated_extent_interactions,
                 crossTodo, crossing, crossFrames, crossRanges, crossed, num_features>>

GenericLast ==
  /\ crossGen # << >> /\ crossGen.cur = Len(Head(crossRanges))
  /\ LET r == Head(crossRanges)
         len == Len(r)
         start == IF ixSpec.permutations THEN r[len].from ELSE crossGen.it[len]
         new == {[i \in 1 .. len |-> Feat(r[i], IF i < len THEN crossGen.it[i] ELSE p)] :
                   p \in start .. r[len].to - 1}
         more == {i \in 1 .. len - 1 : crossGen.it[i] + 1 < r[i].to}
     IN /\ crossed' = crossed \cup new /\ num_features' = num_features + Cardinality(new)
        /\ IF more = {} THEN crossGen' = << >> /\ crossRanges' = Tail(crossRanges)
           ELSE /\ crossGen' = [cur |-> Max(more), it |-> [crossGen.it EXCEPT ![Max(more)] = @ + 1]]
                /\ UNCHANGED crossRanges
  /\ UNCHANGED <<ixSpec, ixSeen, ixExample, generated_interactions, generated_extent_interactions,
                 crossTodo, crossing, crossFrames>>

EndExample ==
  /\ ixExample # << >> /\ crossTodo = << >> /\ NothingOpen
  /\ ixExample' = << >> /\ crossing' = << >> /\ crossed' = {} /\ num_features' = 0
  /\ UNCHANGED <<ixSpec, ixSeen, generated_interactions, generated_extent_interactions, crossTodo,
                 crossFrames, crossRanges, crossGen>>

InteractionsNext ==
  \/ TransformExample \/ BeginCross \/ PopFrame \/ ProcessLoops
  \/ BeginGeneric \/ GenericForward \/ GenericLast \/ EndExample

-----------------------------------------------------------------------------
(* eval_sum_ft_squared_of_generated_ft; the value of a feature.            *)
Square(f) == (f[2] + f[1]) * (f[2] + f[1])
TermFeatures(x, term) ==
  IF x.whole THEN [i \in 1 .. GroupSize(term) |-> <<term, i - 1>>]
  ELSE FlattenSeq([k \in DOMAIN HashExtents(term) |->
                     LET r == HashExtents(term)[k] IN [i \in 1 .. r.to - r.from |-> <<r.ns, r.from + i - 1>>]])
SumSquares(fs) == FoldLeft(LAMBDA n, f : n + Square(f), 0, fs)

(* A block of equal terms: sums over the combinations of up to `order`     *)
(* features, built up feature by feature.                                  *)
WithFeature_Slip(results, x) == [j \in DOMAIN results |-> results[j] + (IF j = 1 THEN x ELSE results[j - 1] * x)]
WithFeature(results, x) ==
  LET new[j \in DOMAIN results] == results[j] + (IF j = 1 THEN x ELSE new[j - 1] * x) IN new
BlockSum(fs, order) ==
  FoldLeft(LAMBDA results, f : WithFeature(results, Square(f)), [j \in 1 .. order |-> 0], fs)[order]

Blocks(terms) ==   \* where the blocks of equal neighbours begin, and their lengths
  LET begins == {i \in DOMAIN terms : i = 1 \/ terms[i] # terms[i - 1]}
  IN {<<i, Min({j \in begins : j > i} \cup {Len(terms) + 1}) - i>> : i \in begins}
SumFtSquared(x) ==
  LET factors == IF ixSpec.permutations THEN {<<i, 1>> : i \in DOMAIN x.terms} ELSE Blocks(x.terms)
  IN FoldSet(LAMBDA b, n : n * BlockSum(TermFeatures(x, x.terms[b[1]]), b[2]), 1, factors)

-----------------------------------------------------------------------------
(* What an interaction is meant to give: all ways to take a feature of     *)
(* each term; where a term is repeated, each combination once.             *)
Reference(x) ==
  LET fs(i) == TermFeatures(x, x.terms[i])
      rising(p) == \A i \in 1 .. Len(p) - 1 : x.terms[i] = x.terms[i + 1] => p[i] <= p[i + 1]
      places == {p \in [DOMAIN x.terms -> 1 .. Max({Len(fs(i)) : i \in DOMAIN x.terms})] :
                   /\ \A i \in DOMAIN p : p[i] <= Len(fs(i))
                   /\ ixSpec.permutations \/ rising(p)}
  IN {[i \in DOMAIN p |-> fs(i)[p[i]]] : p \in places}

(* With --permutations a namespace whose features are in several extents   *)
(* is crossed with itself in one order of the extents only.                *)
SplitPermutation(x) ==
  /\ ixSpec.permutations /\ ~x.whole
  /\ \E i \in 1 .. Len(x.terms) - 1 :
       x.terms[i] = x.terms[i + 1] /\ Len(HashExtents(x.terms[i])) > 1

Finished == crossing # << >> /\ NothingOpen

(* The loops, the generic cycle and the extents' stack generate exactly    *)
(* the combinations, none twice.                                           *)
EachCombinationOnce ==
  Finished /\ ~SplitPermutation(crossing) =>
    crossed = Reference(crossing) /\ num_features = Cardinality(crossed)

(* "sum of their squared values": the sum that normalises the example is   *)
(* computed by other code than the features, and is that of the features   *)
(* generated.                                                              *)
SquaresAgree ==
  Finished /\ ~SplitPermutation(crossing) =>
    SumFtSquared(crossing) =
      FoldSet(LAMBDA f, n : n + FoldLeft(LAMBDA m, g : m * Square(g), 1, f), 0, crossed)

(* For every way to fill an interaction's wildcards with what was seen so  *)
(* far, in any example, there is one interaction of the same terms, and    *)
(* only one unless duplicates are left: of characters where no extent has  *)
(* a wildcard, and of extents where one has.  In the second case nothing   *)
(* is left of the characters' list: a new extent clears it, and whatever   *)
(* is new to it is a new extent as well.                                   *)
Fillings(inter, seen) ==
  {f \in [DOMAIN inter -> seen \cup Range(inter)] :
     \A i \in DOMAIN inter : IF inter[i] = Wildcard THEN f[i] \in seen ELSE f[i] = inter[i]}
Compiled(list, specs, seen) ==
  LET have == {Sorted(list[i]) : i \in DOMAIN list} IN
  /\ have = UNION {{Sorted(f) : f \in Fillings(specs[i], seen)} : i \in DOMAIN specs}
  /\ ~ixSpec.leave_duplicates => Cardinality(have) = Len(list)
WildcardsExpanded ==
  ixSeen # {} =>
    IF HasExtentWildcards
    THEN generated_interactions = << >> /\ Compiled(generated_extent_interactions, ixSpec.extents, ExtentsOf(ixSeen))
    ELSE Compiled(generated_interactions, ixSpec.chars, NamespacesOf(ixSeen))

(* "expand out wildcards (:) for each index present", whatever the extents *)
(* are.                                                                    *)
AlwaysExpanded == ixSeen # {} => Compiled(generated_interactions, ixSpec.chars, NamespacesOf(ixSeen))

-----------------------------------------------------------------------------
(* Reductions that change the features of an example, call the learner     *)
(* below and put the features back: autolink, interact, lrq, lrqfa, mf,    *)
(* marginal and baseline.  An action runs from one base call to the next,  *)
(* so that a state with wpc = "base" is what the learner below is given,   *)
(* and the place where it may throw.                                       *)
(*                                                                         *)
(* A feature is an index <<namespace, number, latent>> and a value, which  *)
(* is the index it was computed for and what it was multiplied with.       *)

CONSTANTS
  WrapFields,     \* the namespaces of --lrqfa, in order
  LrqPairs,       \* --lrq, as a sequence of pairs of namespaces
  MfPairLists,    \* possible values of -q under --new_mf
  Rank,           \* k of lrq and lrqfa, rank of mf
  GivenFeatures,  \* what a namespace may hold: sequences of numbers
  MaxWrapped      \* bound on the number of examples

ASSUME WrapAssumption ==
  Rank \in Nat \ {0} /\ MaxWrapped \in Nat /\ LrqPairs \in Seq(Seq(Nat)) /\ WrapFields \in Seq(Nat)

VARIABLES
  wred,     \* the reduction with its options
  wex,      \* the example: indices, feature_space, whether interactions are its own
  worig,    \* the example as it was given
  wpc,      \* "idle", "base" or "done"
  wstep,    \* how often base was called for this example
  wlearn,   \* learn or predict
  wsees,    \* the example base is called with: the given one or the reduction's own
  wdata,    \* what the reduction keeps
  wthrew,   \* base has thrown before
  wcount

wrapVars == <<wred, wex, worig, wpc, wstep, wlearn, wsees, wdata, wthrew, wcount>>

CONSTANT_NS == 9
AUTOLINK_NS == 8
N1 == 1
N2 == 2
WrapNs == {1, 2, 3, AUTOLINK_NS, CONSTANT_NS}

Value(of, by) == [of |-> of, by |-> by]
Plainly == <<0, 0, 0>>
Features(is) == [v |-> [j \in 1..Len(is) |-> Value(is[j], Plainly)], i |-> is]
NoFeatures == Features(<< >>)
Pushed(f, value, index) == [v |-> Append(f.v, value), i |-> Append(f.i, index)]
PushedAll(f, values, indices) == [v |-> f.v \o values, i |-> f.i \o indices]
Size(f) == Len(f.v)
(* Slip: the values are cut back and the indices are not.                  *)
TruncateTo_Slip(f, n) == [f EXCEPT !.v = SubSeq(@, 1, n)]
TruncateTo(f, n) == IF n = Size(f) THEN f ELSE [v |-> SubSeq(f.v, 1, n), i |-> SubSeq(f.i, 1, n)]
With(ex, n, f) == [ex EXCEPT !.fs[n] = f]

Given(parts) ==
  [indices |-> SelectSeq(<<1, 2, 3>>, LAMBDA n : parts[n] # << >>) \o <<CONSTANT_NS>>,
   fs |-> [n \in WrapNs |-> IF n \in {1, 2, 3}
             THEN Features([j \in 1..Len(parts[n]) |-> <<n, parts[n][j], 0>>])
             ELSE IF n = CONSTANT_NS THEN Features(<<<<CONSTANT_NS, 0, 0>>>>) ELSE NoFeatures],
   own |-> TRUE]

-----------------------------------------------------------------------------
(* autolink: powers of the prediction become features of a namespace.      *)
AutolinkPrepare(ex, nonzero) ==
  [ex EXCEPT !.indices = Append(@, AUTOLINK_NS),
             !.fs[AUTOLINK_NS] = PushedAll(@,
                [d \in 1..(IF nonzero THEN 2 ELSE 0) |-> Value(<<AUTOLINK_NS, d, 0>>, Plainly)],
                [d \in 1..(IF nonzero THEN 2 ELSE 0) |-> <<AUTOLINK_NS, d, 0>>])]
AutolinkReset(ex) == [ex EXCEPT !.fs[AUTOLINK_NS] = NoFeatures, !.indices = Front(@)]

-----------------------------------------------------------------------------
(* interact: namespace N1 is replaced by its elementwise product with N2,  *)
(* matched by the distance of an index from that of the anchor feature.    *)
Anchored(f) == Size(f) > 0 /\ f.i[1][2] = 0
ContainsValidNamespaces(ex) == Anchored(ex.fs[N1]) /\ Anchored(ex.fs[N2])
Matched(f1, f2) ==
  LET id(f, j) == f.i[j][2]
      Top == {0} \cup {id(f1, j) : j \in 1..Size(f1)} \cup {id(f2, j) : j \in 1..Size(f2)}
      mul[i1 \in 1..(Size(f1) + 1), i2 \in 1..(Size(f2) + 1), p1 \in Top, p2 \in Top] ==
        IF i1 > Size(f1) \/ i2 > Size(f2) THEN << >>
        ELSE IF id(f1, i1) < p1 \/ id(f2, i2) < p2 THEN << >>
        ELSE LET c1 == id(f1, i1)
                 c2 == id(f2, i2)
             IN  IF c1 = c2 THEN <<<<i1, i2>>>> \o mul[i1 + 1, i2 + 1, c1, c2]
                 ELSE IF c1 < c2 THEN mul[i1 + 1, i2, c1, c2] ELSE mul[i1, i2 + 1, c1, c2]
  IN  <<<<1, 1>>>> \o mul[2, 2, 0, 0]
(* Slip: the product gets the index of the second factor.                  *)
Multiply_Slip(f1, f2) ==
  LET ps == Matched(f1, f2)
  IN  [v |-> [j \in 1..Len(ps) |-> Value(f1.i[ps[j][1]], f2.i[ps[j][2]])],
       i |-> [j \in 1..Len(ps) |-> f2.i[ps[j][2]]]]
Multiply(f1, f2) ==
  LET ps == Matched(f1, f2)
  IN  [v |-> [j \in 1..Len(ps) |-> Value(f1.i[ps[j][1]], f2.i[ps[j][2]])],
       i |-> [j \in 1..Len(ps) |-> f1.i[ps[j][1]]]]
InteractPrepare(ex) ==
  [ex EXCEPT !.fs[N1] = Multiply(ex.fs[N1], ex.fs[N2]), !.indices = Remove(@, N2)]
InteractRestore(ex, store, place) ==
  [ex EXCEPT !.fs[N1] = store,
             !.indices = IF place > Len(@) + 1 THEN @ ELSE InsertAt(@, place, N2)]
PlaceOfN2(ex) == CHOOSE p \in 1..Len(ex.indices) : ex.indices[p] = N2

-----------------------------------------------------------------------------
(* lrq and lrqfa: for each pair of a left and a right namespace, and each  *)
(* latent factor, the right one gets the products of its original features *)
(* with the left ones.                                                     *)
OrigSize(ex) == [n \in WrapNs |-> IF Contains(ex.indices, n) THEN Size(ex.fs[n]) ELSE 0]

Products(ex, size, left, right, latent(_)) ==
  LET order == FlattenSeq([l \in 1..size[left] |-> FlattenSeq([n \in 1..Rank |->
                 [r \in 1..size[right] |-> <<l, n, r>>]])])
      index(t) == LET at == ex.fs[right].i[t[3]] IN <<at[1], at[2], latent(t[2])>>
  IN  With(ex, right, PushedAll(ex.fs[right],
         [j \in 1..Len(order) |-> Value(index(order[j]), ex.fs[left].i[order[j][1]])],
         [j \in 1..Len(order) |-> index(order[j])]))

(* which alternates the direction; `left` of a pair is i[which % 2].       *)
LrqAdd(ex, size, which) ==
  FoldLeft(LAMBDA e, p : Products(e, size, p[(which % 2) + 1], p[((which + 1) % 2) + 1], LAMBDA n : n),
           ex, LrqPairs)
LrqTruncate(ex, size, which) ==
  FoldLeft(LAMBDA e, p : LET right == p[((which + 1) % 2) + 1]
                         IN  With(e, right, TruncateTo(e.fs[right], size[right])),
           ex, LrqPairs)

FieldId(n) == (CHOOSE j \in 1..Len(WrapFields) : WrapFields[j] = n) - 1
OrderedFieldPairs ==
  FlattenSeq([j \in 1..Len(WrapFields) |-> [k \in 1..(Len(WrapFields) - j) |-> <<j, j + k>>]])
LrqfaAdd(ex, size, which) ==
  FoldLeft(LAMBDA e, p : LET i1 == WrapFields[p[1]]
                             i2 == WrapFields[p[2]]
                             left == IF which % 2 = 1 THEN i1 ELSE i2
                             right == IF (which + 1) % 2 = 1 THEN i1 ELSE i2
                         IN  Products(e, size, left, right, LAMBDA n : FieldId(left) * Rank + n),
           ex, OrderedFieldPairs)
(* Only the values are cut back; the indices stay.                         *)
LrqfaTruncate(ex, size) ==
  FoldLeft(LAMBDA e, n : With(e, n, [e.fs[n] EXCEPT !.v = SubSeq(@, 1, size[n])]), ex, WrapFields)

-----------------------------------------------------------------------------
(* mf: the calls of learn, in order.  A prediction on one side of a pair   *)
(* fills a cell of sub_predictions, an update multiplies the features of   *)
(* one side with the cell of the other.                                    *)
UsedPairs(ex, pairs) == SelectSeq(pairs, LAMBDA p : Size(ex.fs[p[1]]) > 0 /\ Size(ex.fs[p[2]]) > 0)
MfCall(what, pair, ns, cell) == [what |-> what, pair |-> pair, ns |-> ns, cell |-> cell]
PredictCalls(p) ==
  FlattenSeq([k \in 1..Rank |-> <<MfCall("predict", p, p[1], 2 * k - 1), MfCall("predict", p, p[2], 2 * k)>>])
(* Slip: each side is scaled with its own prediction.                      *)
UpdateCalls_Slip(p) ==
  [k \in 1..Rank |-> MfCall("update", p, p[1], 2 * k - 1)]
    \o [k \in 1..Rank |-> MfCall("update", p, p[2], 2 * k)]
UpdateCalls(p) ==
  [k \in 1..Rank |-> MfCall("update", p, p[1], 2 * k)]
    \o [k \in 1..Rank |-> MfCall("update", p, p[2], 2 * k - 1)]
MfCalls(ex, pairs, learn) ==
  LET used == UsedPairs(ex, pairs)
      flat(f(_)) == FlattenSeq([j \in 1..Len(used) |-> f(used[j])])
  IN  <<MfCall("linear", << >>, 0, 0)>> \o flat(PredictCalls)
        \o (IF learn THEN <<MfCall("linear", << >>, 0, 0)>> \o flat(UpdateCalls) ELSE << >>)

Scaled(f, factor) == [f EXCEPT !.v = [j \in 1..Len(f.v) |-> [f.v[j] EXCEPT !.by = factor]]]
(* What base is given for call c, and the cell a prediction fills.         *)
MfView(ex, c, sub) ==
  IF c.what = "linear" THEN ex
  ELSE [ex EXCEPT !.indices = <<c.ns>>, !.own = FALSE,
                  !.fs[c.ns] = IF c.what = "update" THEN Scaled(@, sub[c.cell]) ELSE @]
MfCell(c, sub) == IF c.what = "predict" THEN [sub EXCEPT ![c.cell] = <<c.pair[1], c.pair[2], c.ns>>] ELSE sub
(* Slip: the features keep the factor.                                     *)
MfUndo_Slip(ex, orig, c) ==
  IF c.what = "linear" THEN ex ELSE [ex EXCEPT !.indices = orig.indices, !.own = TRUE]
MfUndo(ex, orig, c) ==
  IF c.what = "linear" THEN ex
  ELSE [ex EXCEPT !.indices = orig.indices, !.own = TRUE, !.fs[c.ns] = orig.fs[c.ns]]
(* scope_exit restores the interactions of predict; learn has no guard.    *)
MfThrown(ex, c) == IF c.what = "predict" THEN [ex EXCEPT !.own = TRUE] ELSE ex

-----------------------------------------------------------------------------
(* marginal: pairs of id features become one feature with the mean label   *)
(* of the second id.  The means are learned numbers: Value stands for the  *)
(* one of the moment, and update_marginal, which changes nothing but them, *)
(* has no step of its own.                                                 *)
MakeMarginal(ex, ids) ==
  [ex EXCEPT !.fs = [n \in WrapNs |->
     IF n \notin ids \/ ~Contains(ex.indices, n) THEN @[n]
     ELSE LET f == @[n]
              half == Size(f) \div 2
          IN  [v |-> [j \in 1..half |-> Value(f.i[2 * j - 1], f.i[2 * j])],
               i |-> [j \in 1..half |-> f.i[2 * j - 1]]]]]
Swapped(ex, ids, temp) ==
  [ex EXCEPT !.fs = [n \in WrapNs |-> IF n \in ids /\ Contains(ex.indices, n) THEN temp[n] ELSE @[n]]]
MarginalKeys(f) == {f.i[2 * j] : j \in 1..(Size(f) \div 2)}

-----------------------------------------------------------------------------
(* baseline: the constant features move to an example of its own.          *)
(* Slip: the constant is copied.                                           *)
MovedConstant_Slip(ex, own) == <<ex, ex.fs[CONSTANT_NS]>>
MovedConstant(ex, own) ==
  IF ~Contains(ex.indices, CONSTANT_NS) THEN <<ex, own>>
  ELSE <<With(ex, CONSTANT_NS, own), ex.fs[CONSTANT_NS]>>

-----------------------------------------------------------------------------
WrapInit ==
  /\ wred \in [name : {"marginal", "baseline"}, opt : BOOLEAN, pairs : {<< >>}]
               \cup [name : {"autolink", "interact", "lrq", "lrqfa"}, opt : {FALSE}, pairs : {<< >>}]
               \cup [name : {"mf"}, opt : {FALSE}, pairs : MfPairLists]
  /\ wex = Given([n \in {1, 2, 3} |-> << >>])
  /\ worig = wex
  /\ wpc = "idle"
  /\ wstep = 0
  /\ wlearn = FALSE
  /\ wsees = "given"
  /\ wdata = [temp |-> wex.fs, place |-> 0, sub |-> [c \in 1..(2 * Rank) |-> <<0, 0, 0>>],
              keys |-> {}, own |-> NoFeatures, which |-> 0]
  /\ wthrew = FALSE
  /\ wcount = 0

(* To the next call of base with example e, from the given or the own one. *)
Calls(e, sees) == wex' = e /\ wsees' = sees /\ wpc' = "base" /\ wstep' = wstep + 1
Returns(e) == wex' = e /\ wpc' = "done" /\ UNCHANGED <<wsees, wstep>>

(* An example arrives, and the reduction runs up to the first call.        *)
WrapBegin ==
  /\ wpc # "base"
  /\ wcount < MaxWrapped
  /\ wcount' = wcount + 1
  /\ \E parts \in [{1, 2, 3} -> GivenFeatures], learn \in BOOLEAN :
       LET ex == Given(parts)
           size == OrigSize(ex)
       IN  /\ worig' = ex
           /\ wlearn' = learn
           /\ wsees' = "given" /\ wpc' = "base" /\ wstep' = 1
           /\ \/ /\ wred.name \in {"autolink", "baseline", "mf"}
                 /\ wex' = ex
                 /\ UNCHANGED wdata
              \/ /\ wred.name = "interact"
                 /\ wex' = IF ContainsValidNamespaces(ex) THEN InteractPrepare(ex) ELSE ex
                 /\ wdata' = IF ContainsValidNamespaces(ex)
                             THEN [wdata EXCEPT !.temp[N1] = ex.fs[N1], !.place = PlaceOfN2(ex)] ELSE wdata
              \/ /\ wred.name \in {"lrq", "lrqfa"}
                 /\ LET which == IF learn THEN wcount ELSE 0
                    IN  /\ wdata' = [wdata EXCEPT !.which = which]
                        /\ wex' = IF wred.name = "lrq" THEN LrqAdd(ex, size, which) ELSE LrqfaAdd(ex, size, which)
              \/ /\ wred.name = "marginal"
                 /\ wex' = MakeMarginal(ex, {N1})
                 /\ wdata' = [wdata EXCEPT !.temp[N1] = ex.fs[N1], !.keys = @ \cup MarginalKeys(ex.fs[N1])]
  /\ UNCHANGED <<wred, wthrew>>

AutolinkStep ==
  /\ wred.name = "autolink"
  /\ UNCHANGED wdata
  /\ \/ wstep = 1 /\ \E nonzero \in BOOLEAN : Calls(AutolinkPrepare(wex, nonzero), "given")
     \/ wstep = 2 /\ Returns(AutolinkReset(wex))

(* num_features, which is put back with the features, and                  *)
(* total_sum_feat_sq, which is reset before the calls and not again after  *)
(* them, are left out.                                                     *)
InteractStep ==
  /\ wred.name = "interact"
  /\ UNCHANGED wdata
  /\ IF ~ContainsValidNamespaces(worig) THEN Returns(wex)
     ELSE \/ wstep = 1 /\ wlearn /\ Calls(wex, "given")
          \/ (wstep = 2 \/ ~wlearn) /\ Returns(InteractRestore(wex, wdata.temp[N1], wdata.place))

(* Two rounds in learn, in both directions; one in predict.                *)
LrqStep ==
  /\ wred.name \in {"lrq", "lrqfa"}
  /\ LET size == OrigSize(worig)
         which == wdata.which
         cut == IF wred.name = "lrq" THEN LrqTruncate(wex, size, which) ELSE LrqfaTruncate(wex, size)
     IN  \/ /\ wstep = 1 /\ wlearn
            /\ wdata' = [wdata EXCEPT !.which = @ + 1]
            /\ Calls(IF wred.name = "lrq" THEN LrqAdd(cut, size, which + 1) ELSE LrqfaAdd(cut, size, which + 1),
                     "given")
         \/ (wstep = 2 \/ ~wlearn) /\ Returns(cut) /\ UNCHANGED wdata

MfStep ==
  /\ wred.name = "mf"
  /\ LET calls == MfCalls(worig, wred.pairs, wlearn)
         sub == MfCell(calls[wstep], wdata.sub)
         back == MfUndo(wex, worig, calls[wstep])
     IN  /\ wdata' = [wdata EXCEPT !.sub = sub]
         /\ \/ wstep < Len(calls) /\ Calls(MfView(back, calls[wstep + 1], sub), "given")
            \/ wstep = Len(calls) /\ Returns(back)

(* opt is update_before_learn.                                             *)
MarginalStep ==
  /\ wred.name = "marginal"
  /\ UNCHANGED wdata
  /\ \/ /\ wstep = 1 /\ wlearn /\ wred.opt
        /\ Calls(MakeMarginal(Swapped(wex, {N1}, wdata.temp), {N1}), "given")
     \/ /\ wstep = 2 \/ ~(wlearn /\ wred.opt)
        /\ Returns(Swapped(wex, {N1}, wdata.temp))

(* opt is global_only, whose own example has one constant for ever.        *)
BaselineStep ==
  /\ wred.name = "baseline"
  /\ IF wred.opt
     THEN /\ UNCHANGED wdata
          /\ \/ wstep = 1 /\ Calls(wex, "own")
             \/ wstep = 2 /\ wlearn /\ Calls(wex, "own")
             \/ wstep = 3 /\ Calls(wex, "given")
             \/ (wstep = 4 \/ (wstep = 2 /\ ~wlearn)) /\ Returns(wex)
     ELSE \/ /\ wstep = 1 /\ wlearn
             /\ LET m == MovedConstant(wex, wdata.own)
                IN  Calls(m[1], "own") /\ wdata' = [wdata EXCEPT !.own = m[2]]
          \/ wstep = 2 /\ Calls(wex, "given") /\ UNCHANGED wdata
          \/ /\ wstep = 3
             /\ LET m == MovedConstant(wex, wdata.own)
                IN  Returns(m[1]) /\ wdata' = [wdata EXCEPT !.own = m[2]]
          \/ wstep = 1 /\ ~wlearn /\ Returns(wex) /\ UNCHANGED wdata

BaseReturnsTo ==
  /\ wpc = "base"
  /\ AutolinkStep \/ InteractStep \/ LrqStep \/ MfStep \/ MarginalStep \/ BaselineStep
  /\ UNCHANGED <<wred, worig, wlearn, wthrew, wcount>>

(* Nothing is put back, but for what a scope_exit does.                    *)
BaseThrowsInto ==
  /\ wpc = "base"
  /\ wpc' = "thrown"
  /\ wthrew' = TRUE
  /\ wex' = IF wred.name = "mf" THEN MfThrown(wex, MfCalls(worig, wred.pairs, wlearn)[wstep]) ELSE wex
  /\ UNCHANGED <<wred, worig, wstep, wlearn, wsees, wdata, wcount>>

WrapNext == WrapBegin \/ BaseReturnsTo \/ BaseThrowsInto

WrapSpec == WrapInit /\ [][WrapNext]_wrapVars

-----------------------------------------------------------------------------
(* When a reduction returns, the values, the namespaces and the            *)
(* interactions of the example are the given ones: the reductions above,   *)
(* the output and the next call read them.  (lrqfa leaves indices behind.) *)
WrapRestores ==
  wpc = "done" =>
    /\ wex.indices = worig.indices
    /\ wex.own
    /\ \A n \in WrapNs : wex.fs[n].v = worig.fs[n].v
    /\ wred.name # "lrqfa" => wex.fs = worig.fs

(* Every value base is given stands beside the index it was computed for.  *)
(* Under lrqfa that holds in the first of the two rounds only, unless no   *)
(* field is on the right in both, which takes three fields.                *)
ValuesAligned ==
  (wpc = "base" /\ (wred.name = "lrqfa" => (wstep = 1 \/ Len(WrapFields) < 3))) =>
    \A k \in 1..Len(wex.indices) :
      LET f == wex.fs[wex.indices[k]]
      IN  Size(f) <= Len(f.i) /\ \A j \in 1..Size(f) : f.v[j].of = f.i[j]

(* The same for every number of fields, which the code does not achieve:   *)
(* the indices of the first round are still there in the second.           *)
LrqfaAligned ==
  wpc = "base" =>
    \A k \in 1..Len(wex.indices) :
      LET f == wex.fs[wex.indices[k]] IN \A j \in 1..Size(f) : f.v[j].of = f.i[j]

(* mf: an update of one side of a pair is scaled with the prediction of    *)
(* the other side of the same pair.  With several pairs the code keeps the *)
(* predictions of the last one only.                                       *)
FactorsOfPair ==
  (wpc = "base" /\ wred.name = "mf" /\ Len(wred.pairs) = 1) =>
    LET c == MfCalls(worig, wred.pairs, wlearn)[wstep]
    IN  c.what = "update" =>
          \A j \in 1..Size(wex.fs[c.ns]) :
            LET by == wex.fs[c.ns].v[j].by
            IN  <<by[1], by[2]>> = c.pair /\ by[3] # c.ns

FactorsOfEveryPair ==
  (wpc = "base" /\ wred.name = "mf") =>
    LET c == MfCalls(worig, wred.pairs, wlearn)[wstep]
    IN  c.what = "update" =>
          \A j \in 1..Size(wex.fs[c.ns]) :
            LET by == wex.fs[c.ns].v[j].by IN <<by[1], by[2]>> = c.pair /\ by[3] # c.ns

(* baseline: the constant is learned by the baseline and not again by the  *)
(* residual, as long as base has not thrown while it was away.             *)
ConstantMoved ==
  (wpc = "base" /\ wred.name = "baseline" /\ ~wred.opt /\ wlearn /\ wstep > 1 /\ ~wthrew) =>
    /\ wex.fs[CONSTANT_NS] = NoFeatures
    /\ wdata.own = worig.fs[CONSTANT_NS]
=============================================================================

---------------------------- MODULE LearnedTrees ----------------------------
(* The trees that grow while they learn: memory_tree, eigen_memory_tree,   *)
(* log_multi and recall_tree.  They share nothing.                         *)
EXTENDS Integers, Sequences, FiniteSets, SequencesExt, TLC, FiniteSetsExt

(***************************************************************************)
(* The memory_tree reduction (reductions/memory_tree.cc): a binary tree    *)
(* whose leaves hold the indices of stored examples and whose inner nodes  *)
(* are routers that learn.  Full leaves are split; "dreaming" pops a       *)
(* random memory and inserts it again.  What a router predicts is any of   *)
(* the two directions.  The counts nl and nr start at 0.001 in the code    *)
(* and are kept here in thousandths; those of a leaf only weigh its        *)
(* router's training and are left out.                                     *)
(***************************************************************************)

CONSTANTS max_nodes, max_leaf_examples, dream_repeats,
          dream_at_update,
          MaxStored, MaxLearned, MaxTreePasses   \* bounds: examples, calls of learn, passes

ASSUME MemoryTreeAssumption ==
  /\ {max_nodes, max_leaf_examples, dream_repeats, MaxStored, MaxLearned, MaxTreePasses} \subseteq Nat
  /\ max_nodes > 0 /\ dream_at_update \in BOOLEAN

VARIABLES
  nodes,        \* nodes[n], n = 0 .. : [internal, parent, left, right, nl, nr, router, examples_index]
  mtStored,       \* examples.size(): the memories are 0 .. stored - 1
  routers_used,
  current_pass, iter,
  dreams,       \* experience_replay: calls to go
  held          \* the memory that has been popped, or -1

mtVars == <<nodes, mtStored, routers_used, current_pass, iter, dreams, held>>

NoChild == 0
Leaf(parent, router, examples) ==
  [internal |-> FALSE, parent |-> parent, left |-> NoChild, right |-> NoChild,
   nl |-> 1, nr |-> 1, router |-> router, examples_index |-> examples]

MtInit ==
  /\ nodes = 0 :> Leaf(0, 0, << >>) /\ routers_used = 1 /\ mtStored = 0
  /\ current_pass = 0 /\ iter = 0 /\ dreams = 0 /\ held = -1

-----------------------------------------------------------------------------
Leaves(t) == {n \in DOMAIN t : ~t[n].internal}
Ancestors(t, leaf) == LET up[n \in DOMAIN t] == IF n = 0 THEN {} ELSE {t[n].parent} \cup up[t[n].parent]
                  IN up[leaf]
GoesLeft(t, n, leaf) == t[n].left \in Ancestors(t, leaf) \cup {leaf}

(* insert_descent on the way to a leaf, and the way of a pop.              *)
Walked(t, leaf, by) ==
  [n \in DOMAIN t |->
     IF n \notin Ancestors(t, leaf) THEN t[n]
     ELSE IF GoesLeft(t, n, leaf) THEN [t[n] EXCEPT !.nl = @ + by] ELSE [t[n] EXCEPT !.nr = @ + by]]

(* split_leaf: two leaves, to which the router sends any of the examples.  *)
AtLeast(count) == IF count = 0 THEN 1 ELSE 1000 * count
LeftBehind_Slip(t, cn) == t[cn].examples_index
LeftBehind(t, cn) == << >>
Split(t, cn, toLeft) ==
  LET l == Cardinality(DOMAIN t)
      left == SelectSeq(t[cn].examples_index, LAMBDA e : e \in toLeft)
      right == SelectSeq(t[cn].examples_index, LAMBDA e : e \notin toLeft)
  IN [t EXCEPT ![cn] = [@ EXCEPT !.internal = TRUE, !.left = l, !.right = l + 1,
                                 !.nl = AtLeast(Len(left)), !.nr = AtLeast(Len(right)),
                                 !.examples_index = LeftBehind(t, cn)]]
     @@ (l :> Leaf(cn, routers_used, left)) @@ (l + 1 :> Leaf(cn, routers_used + 1, right))

(* insert_example splits as long as two more nodes are allowed, and        *)
(* route_to_leaf, which inserts in later passes, leaves one free.          *)
Room_Slip(t, trains) == Cardinality(DOMAIN t) + 2 <= max_nodes + 1
Room(t, trains) == Cardinality(DOMAIN t) + 2 <= (IF trains THEN max_nodes ELSE max_nodes - 1)

Insert(e, trains) ==
  \E leaf \in Leaves(nodes) :
    LET t == [Walked(nodes, leaf, 1000) EXCEPT ![leaf].examples_index = Append(@, e)]
    IN IF Len(t[leaf].examples_index) >= max_leaf_examples /\ Room(t, trains)
       THEN /\ \E toLeft \in SUBSET Range(t[leaf].examples_index) : nodes' = Split(t, leaf, toLeft)
            /\ routers_used' = routers_used + 2
       ELSE nodes' = t /\ UNCHANGED routers_used

-----------------------------------------------------------------------------
(* learn: the first pass stores the example; the later ones only teach     *)
(* routers and scorers.  Both dream afterwards.                            *)
Store ==
  /\ dreams = 0 /\ current_pass = 0 /\ iter < MaxLearned /\ mtStored < MaxStored
  /\ iter' = iter + 1 /\ mtStored' = mtStored + 1 /\ dreams' = dream_repeats
  /\ Insert(mtStored, TRUE) /\ UNCHANGED <<current_pass, held>>

Requery ==
  /\ dreams = 0 /\ current_pass > 0 /\ iter < MaxLearned /\ mtStored > 0
  /\ iter' = iter + 1 /\ dreams' = dream_repeats
  /\ UNCHANGED <<nodes, mtStored, routers_used, current_pass, held>>

(* random_sample_example_pop: only nodes that were taken to a side as      *)
(* often as not go on there; an empty leaf gives nothing.                  *)
MayGo(n, left) ==
  IF nodes[n].nl < 1000 THEN ~left ELSE IF nodes[n].nr < 1000 THEN left ELSE TRUE
Popped_Slip(leaf) == nodes
Popped(leaf) == Walked(nodes, leaf, -1000)

Pop ==
  /\ dreams > 0 /\ held = -1
  /\ \E leaf \in Leaves(nodes) :
       /\ \A n \in Ancestors(nodes, leaf) : MayGo(n, GoesLeft(nodes, n, leaf))
       /\ LET t == Popped(leaf) index == nodes[leaf].examples_index
          IN IF index = << >> THEN nodes' = t /\ dreams' = dreams - 1 /\ UNCHANGED held
             ELSE \E k \in DOMAIN index :
                    /\ nodes' = [t EXCEPT ![leaf].examples_index = RemoveAt(@, k)]
                    /\ held' = index[k] /\ UNCHANGED dreams
  /\ UNCHANGED <<mtStored, routers_used, current_pass, iter>>

Reinsert ==
  /\ held # -1 /\ held' = -1 /\ dreams' = dreams - 1
  /\ Insert(held, current_pass = 0 \/ dream_at_update)
  /\ UNCHANGED <<mtStored, current_pass, iter>>

EndTreePass ==
  /\ dreams = 0 /\ current_pass < MaxTreePasses /\ current_pass' = current_pass + 1
  /\ UNCHANGED <<nodes, mtStored, routers_used, iter, dreams, held>>

MtNext == Store \/ Requery \/ Pop \/ Reinsert \/ EndTreePass

-----------------------------------------------------------------------------
Places(e) == {p \in (DOMAIN nodes) \X (1 .. mtStored) :
                LET index == nodes[p[1]].examples_index IN p[2] <= Len(index) /\ index[p[2]] = e}

(* However leaves are split and memories moved, every stored example is in *)
(* one place of one leaf, but for the one that is just being moved.        *)
MemoryOnce ==
  \A e \in 0 .. mtStored - 1 :
    /\ Cardinality(Places(e)) = (IF e = held THEN 0 ELSE 1)
    /\ \A p \in Places(e) : ~nodes[p[1]].internal

(* nl and nr of an inner node are the numbers of memories below it on that *)
(* side: the pop, which descends by them alone, never ends at an empty     *)
(* leaf and never takes a count below zero.                                *)
CountsExact ==
  \A n \in DOMAIN nodes : nodes[n].internal =>
    LET below(side) == {e \in 0 .. mtStored - 1 : \E p \in Places(e) :
                          n \in Ancestors(nodes, p[1]) /\ GoesLeft(nodes, n, p[1]) = side}
    IN /\ nodes[n].nl \div 1000 = Cardinality(below(TRUE))
       /\ nodes[n].nr \div 1000 = Cardinality(below(FALSE))

(* No two nodes share a router, and none uses the weights at max_routers,  *)
(* which are the leaf scorer's, or above, which are the labels'.           *)
RoutersApart ==
  /\ \A n \in DOMAIN nodes : nodes[n].router < max_nodes
  /\ \A n, k \in DOMAIN nodes : n # k => nodes[n].router # nodes[k].router

-----------------------------------------------------------------------------
(***************************************************************************)
(* The eigen memory tree (reductions/eigen_memory_tree.cc): memories in    *)
(* the leaves of a tree whose routers are fixed when a leaf is split, and  *)
(* a list of the memories by their last use that bounds how many there     *)
(* are.  The list holds pointers; the one that falls off its end is found  *)
(* again by routing its features.  A memory is <<features, serial>>: the   *)
(* serial number tells it from another one with the same features.         *)
(***************************************************************************)

CONSTANTS Feats,                 \* what examples are made of
          emt_tree, emt_leaf,    \* the bounds on memories in the tree (0: none) and in a leaf
          MaxMemories, MaxLoads  \* bounds: insertions, reloads

ASSUME EmtAssumption == {emt_tree, emt_leaf, MaxMemories, MaxLoads} \subseteq Nat

VARIABLES
  emt,        \* emt[n]: [split, left, right, goesLeft, examples]
  lru,        \* emt_lru::list, the last one used first
  serial,     \* memories made
  loads, loaded  \* reloads, and the memories the last one brought

emtVars == <<emt, lru, serial, loads, loaded>>

EmtLeaf(examples) == [split |-> FALSE, left |-> 0, right |-> 0, goesLeft |-> {}, examples |-> examples]
EmtInit == emt = 0 :> EmtLeaf({}) /\ lru = << >> /\ serial = 0 /\ loads = 0 /\ loaded = {}

-----------------------------------------------------------------------------
(* tree_route.                                                             *)
RouteTo(t, f) ==
  LET down[n \in DOMAIN t] ==
        IF ~t[n].split THEN n
        ELSE IF f \in t[n].goesLeft THEN down[t[n].left] ELSE down[t[n].right]
  IN down[0]

(* tree_bound: emt_lru::bound moves the memory to the front and gives the  *)
(* one beyond the bound, which is erased from the leaf it is routed to.    *)
ToFront(list, m) == <<m>> \o SelectSeq(list, LAMBDA x : x # m)
Beyond_Slip(list) == Len(list) > emt_tree + 1
Beyond(list) == Len(list) > emt_tree
Dropped_Slip(list) == list
Dropped(list) == Front(list)

Bound(s, m) ==
  LET list == ToFront(s.lru, m) old == list[Len(list)]
  IN IF emt_tree = 0 THEN s
     ELSE IF ~Beyond(list) THEN [s EXCEPT !.lru = list]
     ELSE [lru |-> Dropped(list),
           tree |-> [s.tree EXCEPT ![RouteTo(s.tree, old[1])].examples = @ \ {old}]]

(* node_predict: any memory of the leaf may be the closest.                *)
Picks(s, leaf) ==
  IF s.tree[leaf].examples = {} THEN {s}
  ELSE {Bound(s, m) : m \in s.tree[leaf].examples}

(* node_insert keeps one memory of the same features.                      *)
Known(s, leaf, f) == \E m \in s.tree[leaf].examples : m[1] = f
NodeInsert(s, leaf, f) ==
  LET m == <<f, serial>>
  IN IF Known(s, leaf, f) THEN s
     ELSE Bound([s EXCEPT !.tree[leaf].examples = @ \cup {m}], m)

(* node_split: the router's decision is the median, so that no more than   *)
(* half of the memories lie below it.                                      *)
Under_Slip(t, leaf, L) == {m \in t[leaf].examples : m[1] \notin L}
Under(t, leaf, L) == {m \in t[leaf].examples : m[1] \in L}

Splits(t, leaf) ==
  LET n == Cardinality(DOMAIN t)
  IN IF Cardinality(t[leaf].examples) <= emt_leaf THEN {t}
     ELSE {[t EXCEPT ![leaf] = [split |-> TRUE, left |-> n, right |-> n + 1, goesLeft |-> L,
                                examples |-> {}]]
             @@ (n :> EmtLeaf(Under(t, leaf, L)))
             @@ (n + 1 :> EmtLeaf(t[leaf].examples \ Under(t, leaf, L))) :
           L \in {X \in SUBSET Feats : 2 * Cardinality({m \in t[leaf].examples : m[1] \in X})
                                         <= Cardinality(t[leaf].examples)}}

EmtState == [tree |-> emt, lru |-> lru]

emt_learn(f) ==
  /\ serial < MaxMemories /\ serial' = serial + 1
  /\ LET leaf == RouteTo(emt, f)
     IN \E s \in Picks(EmtState, leaf) :
          LET i == NodeInsert(s, leaf, f)
          IN lru' = i.lru /\ \E t \in Splits(i.tree, leaf) : emt' = t
  /\ UNCHANGED <<loads, loaded>>

emt_predict(f) ==
  /\ \E s \in Picks(EmtState, RouteTo(emt, f)) : lru' = s.lru /\ emt' = s.tree
  /\ UNCHANGED <<serial, loads, loaded>>

AllMemories(t) == UNION {t[n].examples : n \in DOMAIN t}

(* Saved and loaded again: the tree comes back, the list starts empty.     *)
EmtReload ==
  /\ loads < MaxLoads /\ loads' = loads + 1
  /\ lru' = << >> /\ loaded' = AllMemories(emt) /\ UNCHANGED <<emt, serial>>

EmtNext == (\E f \in Feats : emt_learn(f) \/ emt_predict(f)) \/ EmtReload

-----------------------------------------------------------------------------
(* A memory is in the leaf its features lead to, however often the leaves  *)
(* have been split since, and there is one for the same features: it can   *)
(* be found when it is to be evicted.                                      *)
RoutedHome ==
  /\ \A n \in DOMAIN emt : \A m \in emt[n].examples : RouteTo(emt, m[1]) = n
  /\ \A m, o \in AllMemories(emt) : m[1] = o[1] => m = o

(* The pointers of the list are those of memories that are in the tree,    *)
(* each once: none is used after its memory has been freed.                *)
LruAlive ==
  /\ Range(lru) \subseteq AllMemories(emt)
  /\ Cardinality(Range(lru)) = Len(lru)

(* The list keeps the bound, and whatever the tree holds that the list     *)
(* does not know has come from the model file.                             *)
BoundedButLoaded ==
  emt_tree > 0 => Len(lru) <= emt_tree /\ AllMemories(emt) \ Range(lru) \subseteq loaded

(* "Indicates the maximum number of memories the tree can have": false     *)
(* once a model has been loaded, whose memories the list does not know.    *)
TreeBound == emt_tree > 0 => Cardinality(AllMemories(emt)) <= emt_tree

-----------------------------------------------------------------------------
(* The logarithmic time multiclass tree (core/src/reductions/log_multi.cc).*)
(* A leaf that sees more than one label becomes internal; once all         *)
(* predictors are used it takes the least used leaf and that leaf's parent *)
(* out of their place for its children.                                    *)

CONSTANTS
  Labels,           \* the classes
  max_predictors,
  swap_resist,
  MaxLogMulti       \* bound: examples learned from

ASSUME LogMultiAssumption ==
  /\ Labels \subseteq Nat /\ max_predictors \in Nat /\ swap_resist \in Nat \ {0} /\ MaxLogMulti \in Nat

VARIABLES
  lmTree,           \* the nodes, numbered from 0
  predictors_used,
  lmAt,             \* the node learn is at, -1 between examples
  lmLabel,          \* the label of the example
  lmLearned,        \* examples so far
  rootTaken         \* whether a swap has taken the root

lmVars == <<lmTree, predictors_used, lmAt, lmLabel, lmLearned, rootTaken>>

(* init_leaf leaves parent and min_count as they are.                      *)
InitLeaf_Slip(node) ==
  [node EXCEPT !.internal = FALSE, !.base_predictor = 0, !.left = 0, !.right = 0]
InitLeaf(node) ==
  [node EXCEPT !.internal = FALSE, !.counts = << >>, !.base_predictor = 0,
               !.max_count = 0, !.max_count_label = 1, !.left = 0, !.right = 0]
InitNode ==
  [parent |-> 0, min_count |-> 0, internal |-> FALSE, counts |-> << >>, base_predictor |-> 0,
   max_count |-> 0, max_count_label |-> 1, left |-> 0, right |-> 0]

LmInit ==
  /\ lmTree = [n \in {0} |-> InitNode] /\ predictors_used = 0
  /\ lmAt = -1 /\ lmLabel = 0 /\ lmLearned = 0 /\ rootTaken = FALSE

-----------------------------------------------------------------------------
MinLeftRight(t, n) == Min({t[t[n].left].min_count, t[t[n].right].min_count})

(* find_switch_node: towards the smaller min_count, to the right when they *)
(* are equal.                                                              *)
FindSwitchNode(t) ==
  LET down[d \in 0 .. Cardinality(DOMAIN t)] ==
        IF d = 0 THEN 0
        ELSE LET n == down[d - 1] IN
             IF ~t[n].internal THEN n
             ELSE IF t[t[n].left].min_count < t[t[n].right].min_count THEN t[n].left ELSE t[n].right
  IN down[Cardinality(DOMAIN t)]

(* update_min_count: up to the root, or to a node whose count already is   *)
(* the one below it.                                                       *)
UpdateMinCount_Slip(t, node) ==
  IF node = 0 THEN t
  ELSE LET up == t[node].parent IN [t EXCEPT ![up].min_count = MinLeftRight(t, up)]
UpdateMinCount(t, node) ==
  LET climb[d \in 0 .. Cardinality(DOMAIN t)] ==
        IF d = 0 THEN [tree |-> t, at |-> node]
        ELSE LET s == climb[d - 1]
                 up == s.tree[s.at].parent
             IN IF s.at = 0 THEN s
                ELSE IF s.tree[up].min_count = s.tree[s.at].min_count THEN [s EXCEPT !.at = 0]
                ELSE [tree |-> [s.tree EXCEPT ![up].min_count = MinLeftRight(s.tree, up)], at |-> up]
  IN climb[Cardinality(DOMAIN t)].tree

(* The first part of children: the label is counted.                       *)
LabelCounted(t, n, label) ==
  LET count == (IF label \in DOMAIN t[n].counts THEN t[n].counts[label] ELSE 0) + 1
      counts == [l \in DOMAIN t[n].counts \cup {label} |->
                   IF l = label THEN count ELSE t[n].counts[l]]
      more == count > t[n].max_count
  IN [t EXCEPT ![n].counts = counts,
               ![n].max_count = IF more THEN count ELSE @,
               ![n].max_count_label = IF more THEN label ELSE @]

HasRoom == predictors_used < max_predictors
NeedsChildren(t, n) ==
  /\ ~t[n].internal /\ Cardinality(DOMAIN t[n].counts) > 1
  /\ HasRoom \/ t[n].min_count - t[n].max_count > swap_resist * (t[0].min_count + 1)

(* The leaf and the parent that are taken: the sibling moves up.           *)
Detached_Slip(t, child) ==
  LET up == t[child].parent
      top == t[up].parent
      other == IF child = t[up].right THEN t[up].left ELSE t[up].right
      moved == [t EXCEPT ![top].left = IF up = t[top].left THEN other ELSE @,
                         ![top].right = IF up = t[top].left THEN @ ELSE other]
  IN UpdateMinCount(moved, other)
Detached(t, child) ==
  LET up == t[child].parent
      top == t[up].parent
      other == IF child = t[up].right THEN t[up].left ELSE t[up].right
      moved == [t EXCEPT ![top].left = IF up = t[top].left THEN other ELSE @,
                         ![top].right = IF up = t[top].left THEN @ ELSE other]
  IN UpdateMinCount([moved EXCEPT ![other].parent = top], other)

(* The children of n, and n with the predictor it gets.                    *)
NewChildren(t, n) ==
  LET size == Cardinality(DOMAIN t) IN
  [tree |-> [k \in 0 .. size + 1 |-> IF k < size THEN t[k] ELSE InitNode],
   left |-> size, right |-> size + 1, predictor |-> predictors_used]
SwappedChildren(t, n) ==
  LET child == FindSwitchNode(t)
      up == t[child].parent
      free == Detached(t, child)
  IN [tree |-> [free EXCEPT ![child] = InitLeaf(@), ![up] = InitLeaf(@)],
      left |-> child, right |-> up, predictor |-> free[up].base_predictor]

WithChildren(t, n) ==
  LET c == IF HasRoom THEN NewChildren(t, n) ELSE SwappedChildren(t, n)
      half == c.tree[n].min_count \div 2
      linked == [c.tree EXCEPT
                   ![n].left = c.left, ![n].right = c.right, ![n].base_predictor = c.predictor,
                   ![c.left].parent = n, ![c.left].min_count = half,
                   ![c.right].parent = n, ![c.right].min_count = c.tree[n].min_count - half]
      done == UpdateMinCount(linked, c.left)
  IN [done EXCEPT ![n].internal = TRUE,
                  ![c.left].max_count_label = done[n].max_count_label,
                  ![c.right].max_count_label = done[n].max_count_label]

-----------------------------------------------------------------------------
LmBegin ==
  /\ lmAt = -1 /\ lmLearned < MaxLogMulti
  /\ lmAt' = 0 /\ lmLabel' \in Labels /\ lmLearned' = lmLearned + 1
  /\ UNCHANGED <<lmTree, predictors_used, rootTaken>>

(* children and train_node: where the example goes is up to the predictor. *)
LmChildren ==
  /\ lmAt >= 0
  /\ LET t == LabelCounted(lmTree, lmAt, lmLabel)
         split == NeedsChildren(t, lmAt)
         after == IF split THEN WithChildren(t, lmAt) ELSE t
         leaf == UpdateMinCount([after EXCEPT ![lmAt].min_count = @ + 1], lmAt)
     IN IF after[lmAt].internal
        THEN /\ lmTree' = after /\ lmAt' \in {after[lmAt].left, after[lmAt].right}
             /\ predictors_used' = IF split /\ HasRoom THEN predictors_used + 1 ELSE predictors_used
             /\ rootTaken' = (rootTaken \/ (split /\ ~HasRoom /\ t[FindSwitchNode(t)].parent = 0))
             /\ UNCHANGED lmLabel
        ELSE /\ lmTree' = leaf /\ lmAt' = -1 /\ lmLabel' = 0
             /\ UNCHANGED <<predictors_used, rootTaken>>
  /\ UNCHANGED lmLearned

(* save_load_tree: of an internal node the most common label is not saved. *)
LmReload ==
  /\ lmAt = -1
  /\ lmTree' = [n \in DOMAIN lmTree |->
                  IF lmTree[n].internal THEN [lmTree[n] EXCEPT !.max_count = 0, !.max_count_label = 1]
                  ELSE lmTree[n]]
  /\ UNCHANGED <<predictors_used, lmAt, lmLabel, lmLearned, rootTaken>>

LmNext == LmBegin \/ LmChildren \/ LmReload

-----------------------------------------------------------------------------
Internal == {n \in DOMAIN lmTree : lmTree[n].internal}

(* Until a swap takes the root: every node but the root hangs once, under  *)
(* the parent it names, and no two internal nodes share a predictor.       *)
SwapKeepsTree ==
  ~rootTaken =>
    /\ \A n \in DOMAIN lmTree \ {0} :
         {m \in Internal : lmTree[m].left = n \/ lmTree[m].right = n} = {lmTree[n].parent}
    /\ \A n \in Internal : 0 \notin {lmTree[n].left, lmTree[n].right} /\ lmTree[n].left # lmTree[n].right
    /\ \A m, n \in Internal : m # n => lmTree[m].base_predictor # lmTree[n].base_predictor

(* Until then the count of an internal node is the least of its leaves,    *)
(* although update_min_count stops early: the leaf find_switch_node        *)
(* reaches is the least used one.                                          *)
LeastUsedLeaf ==
  ~rootTaken =>
    /\ \A n \in Internal : lmTree[n].min_count = MinLeftRight(lmTree, n)
    /\ \A n \in DOMAIN lmTree \ Internal : lmTree[FindSwitchNode(lmTree)].min_count <= lmTree[n].min_count

(* A leaf has counted no label more often than it has been reached, or the *)
(* unsigned difference of the two would be huge and the leaf swap at once. *)
CountsBelowVisits ==
  lmAt = -1 => \A n \in DOMAIN lmTree \ Internal : lmTree[n].max_count <= lmTree[n].min_count

-----------------------------------------------------------------------------
(***************************************************************************)
(* The recall tree (core/src/reductions/recall_tree.cc): a complete tree   *)
(* whose nodes count the labels of the examples they saw and keep the most *)
(* frequent ones as candidates.  An example stops at a node whose lower    *)
(* bound on the recall of its candidates is not beaten by the child's.     *)
(* What routers and the predictors of labels answer is free.  Bounds and   *)
(* bern_hyper are in thousandths; entropy is kept as n times the entropy,  *)
(* in thousandths of a nat.                                                *)
(***************************************************************************)

CONSTANTS
  RtExamples,       \* [label, weight]
  RtHypers,         \* --bern_hyper
  max_candidates, max_depth,
  RtMaxLearned      \* bound: examples learned from

ASSUME RecallTreeAssumption ==
  /\ RtExamples \subseteq [label : Nat \ {0}, weight : Nat \ {0}] /\ RtHypers \subseteq Nat
  /\ {max_candidates, max_depth, RtMaxLearned} \subseteq Nat

VARIABLES
  rtNodes,          \* rtNodes[v] = [preds, n, entropy, recall_lbest]
  bern_hyper,
  rtCall,           \* what the last call did
  rtLearned         \* examples so far

rtVars == <<rtNodes, bern_hyper, rtCall, rtLearned>>

(* init_tree numbers both children before it descends to the left one.     *)
RtShapeAt(st) ==
  LET at == Head(st.todo) size == Cardinality(DOMAIN st.kids)
  IN IF at.depth > max_depth THEN [st EXCEPT !.todo = Tail(@)]
     ELSE [kids |-> [st.kids EXCEPT ![at.node] = <<size, size + 1>>] @@ (size :> << >>) @@ (size + 1 :> << >>),
           routers |-> Append(st.routers, at.node),
           todo |-> <<[node |-> size, depth |-> at.depth + 1], [node |-> size + 1, depth |-> at.depth + 1]>> \o Tail(st.todo)]
RtShape ==
  FoldLeft(LAMBDA st, i : RtShapeAt(st),
           [kids |-> (0 :> << >>), routers |-> << >>, todo |-> <<[node |-> 0, depth |-> 1]>>],
           [i \in 1 .. 2^(max_depth + 1) - 1 |-> i])
RtKids == RtShape.kids
RtInternal(v) == RtKids[v] # << >>
RtMaxRouters == Len(RtShape.routers)
RtRouter(v) == CHOOSE i \in 0 .. RtMaxRouters - 1 : RtShape.routers[i + 1] = v

RtInit ==
  /\ rtNodes = [v \in DOMAIN RtKids |-> [preds |-> << >>, n |-> 0, entropy |-> 0, recall_lbest |-> 0]]
  /\ bern_hyper \in RtHypers /\ rtCall = [kind |-> "none"] /\ rtLearned = 0

-----------------------------------------------------------------------------
(* x log x, of which an entropy is made.                                   *)
XLogX(x) == <<0, 0, 1386, 3296, 5545, 8047, 10751, 13621, 16636, 19775, 23026>>[x + 1]
ISqrt(x) == CHOOSE r \in 0 .. 1000 : r * r <= x /\ (r + 1) * (r + 1) > x
CountSum(preds) == FoldLeft(LAMBDA sum, p : sum + p.label_count, 0, preds)
CountIn(node, label) == CountSum(SelectSeq(node.preds, LAMBDA p : p.label = label))
Candidates(node) == SubSeq(node.preds, 1, Min({max_candidates, Len(node.preds)}))
is_candidate(node, label) == \E p \in Range(Candidates(node)) : p.label = label

(* updated_entropy: with the example's weight in the count and the total.  *)
UpdatedEntropy(node, label, w) ==
  node.entropy + (XLogX(node.n + w) - XLogX(node.n))
    - (XLogX(CountIn(node, label) + w) - XLogX(CountIn(node, label)))

(* compute_recall_lbest: the candidates' share, less its deviation and a   *)
(* term in 1/n (15 / sqrt 18 = 3.535).                                     *)
LowerBound(h, mass, n) ==
  Max({0, (1000 * mass) \div n - ISqrt((h * 1000 * mass * (n - mass)) \div (n * n * n)) - (h * 3535) \div (1000 * n)})
compute_recall_lbest(h, node) ==
  IF node.n = 0 THEN node
  ELSE [node EXCEPT !.recall_lbest = LowerBound(h, CountSum(Candidates(node)), node.n)]

(* insert_example_at_node: the label moves up past those that are rarer.   *)
(* Slip: it stays where it is.                                             *)
PlaceFor_Slip(preds, i) == i
PlaceFor(preds, i) == Max({0} \cup {k \in 1 .. i - 1 : preds[k].label_count >= preds[i].label_count}) + 1
MovedUp(preds, i) == InsertAt(RemoveAt(preds, i), PlaceFor(preds, i), preds[i])
FindOrCreate(node, label) ==
  IF \E p \in Range(node.preds) : p.label = label THEN node
  ELSE [node EXCEPT !.preds = Append(@, [label |-> label, label_count |-> 0])]
WeightCounted(node, label, w) ==
  LET i == CHOOSE k \in DOMAIN node.preds : node.preds[k].label = label
  IN [node EXCEPT !.preds = MovedUp([@ EXCEPT ![i].label_count = @ + w], i), !.n = @ + w]
(* Slip: the entropy is updated when the label is counted already.         *)
InsertCounted_Slip(node, label, w) ==
  LET after == WeightCounted(node, label, w) IN [after EXCEPT !.entropy = UpdatedEntropy(after, label, w)]
InsertCounted(node, label, w) == WeightCounted([node EXCEPT !.entropy = UpdatedEntropy(node, label, w)], label, w)
InsertExample(node, label, w) == compute_recall_lbest(bern_hyper, InsertCounted(FindOrCreate(node, label), label, w))

(* Slip: goes on where the bounds are equal.                               *)
StopRecurse_Slip(t, parent, child) == bern_hyper > 0 /\ t[parent].recall_lbest > t[child].recall_lbest
StopRecurse(t, parent, child) == bern_hyper > 0 /\ t[parent].recall_lbest >= t[child].recall_lbest

-----------------------------------------------------------------------------
(* train_node: the router is told the side where the example adds less to  *)
(* the entropy; where it sends the example is free.                        *)
AddedEntropy(node, label, w) == UpdatedEntropy(node, label, w) - node.entropy
ToldLeft(t, v, label, w) == AddedEntropy(t[RtKids[v][1]], label, w) < AddedEntropy(t[RtKids[v][2]], label, w)
(* The child where the example stopped sees it too.                        *)
SeenBelow_Slip(t, child, stop, label, w) == t
SeenBelow(t, child, stop, label, w) == IF stop THEN [t EXCEPT ![child] = InsertExample(@, label, w)] ELSE t
LearnNode(st, child, stop, label, w) ==
  [nodes |-> SeenBelow([st.nodes EXCEPT ![st.at] = InsertExample(@, label, w)], child, stop, label, w),
   at |-> IF stop THEN st.at ELSE child, stopped |-> stop,
   told |-> Append(st.told, [router |-> RtRouter(st.at), left |-> ToldLeft(st.nodes, st.at, label, w)])]
LearnLevel(st, right, label, w) ==
  IF st.stopped \/ ~RtInternal(st.at) THEN st
  ELSE LET child == RtKids[st.at][IF right THEN 2 ELSE 1]
       IN LearnNode(st, child, StopRecurse(st.nodes, st.at, child), label, w)
LearnLeaf(st, label, w) ==
  IF RtInternal(st.at) THEN st ELSE [st EXCEPT !.nodes[st.at] = InsertExample(@, label, w)]
LearnPath(sides, label, w) ==
  LearnLeaf(FoldLeft(LAMBDA st, right : LearnLevel(st, right, label, w),
                     [nodes |-> rtNodes, at |-> 0, stopped |-> FALSE, told |-> << >>], sides), label, w)

(* The label's own predictor first, then the other candidates'.            *)
PredictorsTaught(node, label) ==
  IF ~is_candidate(node, label) THEN << >>
  ELSE <<[offset |-> RtMaxRouters + label - 1, target |-> 1]>>
       \o [i \in DOMAIN SelectSeq(Candidates(node), LAMBDA p : p.label # label) |->
             [offset |-> RtMaxRouters + SelectSeq(Candidates(node), LAMBDA p : p.label # label)[i].label - 1, target |-> -1]]

Sides == [1 .. max_depth -> BOOLEAN]
RtLearn ==
  /\ rtLearned < RtMaxLearned /\ rtLearned' = rtLearned + 1
  /\ \E sides \in Sides, ex \in RtExamples :
       LET end == LearnPath(sides, ex.label, ex.weight)
       IN /\ rtNodes' = end.nodes
          /\ rtCall' = [kind |-> "learn", at |-> end.at, label |-> ex.label, told |-> end.told,
                        taught |-> PredictorsTaught(end.nodes[end.at], ex.label)]
  /\ UNCHANGED bern_hyper

(* predict_from and oas_predict, which answers 0 where there is no label.  *)
PredictLevel(st, right) ==
  IF st.stopped \/ ~RtInternal(st.at) THEN st
  ELSE LET child == RtKids[st.at][IF right THEN 2 ELSE 1]
           stop == StopRecurse(rtNodes, st.at, child)
       IN [at |-> IF stop THEN st.at ELSE child, stopped |-> stop]
PredictFrom(sides) == FoldLeft(LAMBDA st, right : PredictLevel(st, right), [at |-> 0, stopped |-> FALSE], sides).at
OasPredict(node) == IF Candidates(node) = << >> THEN {0} ELSE {p.label : p \in Range(Candidates(node))}
RtPredict ==
  /\ \E sides \in Sides : \E class \in OasPredict(rtNodes[PredictFrom(sides)]) :
       rtCall' = [kind |-> "predict", at |-> PredictFrom(sides), class |-> class]
  /\ UNCHANGED <<rtNodes, bern_hyper, rtLearned>>

(* save_load_tree: the bounds are computed again, with the bern_hyper of   *)
(* the run that loads, which the model does not keep.                      *)
Rebounded_Slip(h, t) == t
Rebounded(h, t) == [v \in DOMAIN t |-> compute_recall_lbest(h, t[v])]
RtReload ==
  /\ \E h \in RtHypers : bern_hyper' = h /\ rtNodes' = Rebounded(h, rtNodes)
  /\ rtCall' = [kind |-> "none"] /\ UNCHANGED rtLearned

RtNext == RtLearn \/ RtPredict \/ RtReload

-----------------------------------------------------------------------------
(* The candidates of a node are its most frequent labels, whatever the     *)
(* order and the weights they came with: preds is sorted by count, names   *)
(* every label once, and the counts add up to n.                           *)
CandidatesFrequent ==
  \A v \in DOMAIN rtNodes : LET preds == rtNodes[v].preds IN
    /\ \A i, k \in DOMAIN preds : i < k => preds[i].label # preds[k].label /\ preds[i].label_count >= preds[k].label_count
    /\ CountSum(preds) = rtNodes[v].n

(* The entropy that is carried along from example to example is that of    *)
(* the counts, which is what the routers of the parent are told by.        *)
EntropyExact ==
  \A v \in DOMAIN rtNodes :
    rtNodes[v].entropy = XLogX(rtNodes[v].n) - FoldLeft(LAMBDA sum, p : sum + XLogX(p.label_count), 0, rtNodes[v].preds)

(* A node's children together see no example that it does not see, and the *)
(* root's see all: an example that stops is still counted one level down,  *)
(* so that the child's bound can overtake the node's later.                *)
StoppedSeenBelow ==
  \A v \in DOMAIN rtNodes : RtInternal(v) =>
    LET below == rtNodes[RtKids[v][1]].n + rtNodes[RtKids[v][2]].n
    IN below <= rtNodes[v].n /\ (v = 0 => below = rtNodes[v].n)

(* A prediction names a label that was learned, from the first example on, *)
(* as long as the depth is penalised (bern_hyper > 0): no prediction then  *)
(* ends in a node that has seen nothing.  The predictor of the label is    *)
(* taught where a prediction that ends there would compare it, with all it *)
(* is compared with, and none is in a router's place.                      *)
AlwaysAnswers ==
  /\ rtCall.kind = "predict" /\ bern_hyper > 0 /\ rtLearned > 0 => rtCall.class # 0
  /\ rtCall.kind = "learn" /\ rtCall.taught # << >> =>
       LET asked == {RtMaxRouters + p.label - 1 : p \in Range(Candidates(rtNodes[rtCall.at]))}
       IN /\ {t.offset : t \in Range(rtCall.taught)} = asked /\ Len(rtCall.taught) = Cardinality(asked)
          /\ asked \cap {t.router : t \in Range(rtCall.told)} = {}

(* The bound of every node is the one its counts and the present           *)
(* bern_hyper give, also after a model was loaded with another one.        *)
BoundsCurrent == \A v \in DOMAIN rtNodes : rtNodes[v] = compute_recall_lbest(bern_hyper, rtNodes[v])

(* Without the penalty predictions may end in an empty node and answer 0,  *)
(* which is no label: false.                                               *)
AnswersUnpenalised == rtCall.kind = "predict" /\ rtLearned > 0 => rtCall.class # 0
=============================================================================

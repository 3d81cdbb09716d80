--------------------------- MODULE LearnerProofs ----------------------------
(***************************************************************************)
(* For any number of actions, slots, labels and base learners: the slots   *)
(* of a conditional contextual bandit are decided and learned on their     *)
(* own, and every line is put back as it came, base learners that throw    *)
(* included.  For any memory, passes and line searches: every step of bfgs *)
(* uses a gradient, correction pairs and a curvature that belong to the    *)
(* same weights.  For any pools, cache and updates: the cached rows and    *)
(* deltas of kernel_svm are those of its support vectors.  For any number  *)
(* of models, slots, configurations and leases: epsilon_decay and automl   *)
(* compare champion and challengers over the same examples.                *)
(***************************************************************************)
EXTENDS ModelSelection, Ccb, BatchLearners, InductionLemmas

(* The actions that the slots before slot k have taken.                    *)
TopsTo(k) == {decision_scores[j][1] : j \in {i \in 1 .. k - 1 : decision_scores[i] # << >>}}

CcbInv ==
  /\ ccbStep \in {"idle", "slot", "base", "lost"} /\ slot_id \in Nat /\ numActions \in Nat
  /\ ccbSlots \in Seq(SlotLabels) /\ decision_scores \in Seq(Seq(Nat))
  /\ DistinctChoices /\ LinesRestored /\ CostOnLabelled
  /\ ccbStep \in {"idle", "slot"} => ccbCosts = {} /\ (ccbThrown \/ cb_ex = << >>)
  /\ ccbStep = "slot" => shared = Plain
  /\ ccbStep = "base" => shared = [features |-> <<slot_id>>, id |-> TRUE, tag |-> slot_id] /\ slot_id <= Len(ccbSlots)
                         /\ ~ccbThrown /\ \A c \in ccbCosts : c.action \in Free
  /\ ccbStep \in {"slot", "base"} => /\ slot_id \in 1 .. Len(ccbSlots) + 1 /\ ~(Len(ccbSlots) > numActions)
                                     /\ ~no_pred => Len(decision_scores) = slot_id - 1 /\ exclude_list = TopsTo(slot_id)

(* The actions that are left, in their order.                              *)
LEMMA AvailableSeq ==
  ASSUME numActions \in Nat
  PROVE  /\ Free \in SUBSET Nat /\ Available \in Seq(Nat)
         /\ Range(Available) = Free /\ (Available = << >> <=> Free = {})
         /\ \A top \in Free : InOrder(Free \ {top}) \in Seq(Nat) /\ Range(InOrder(Free \ {top})) = Free \ {top}
<1>1. ASSUME NEW S \in SUBSET (0 .. numActions - 1)
      PROVE  InOrder(S) \in Seq(Nat) /\ Range(InOrder(S)) = S /\ (InOrder(S) = << >> <=> S = {})
  <2>1. S \in SUBSET Nat OBVIOUS
  <2>2. IsFiniteSet(S)
    <3>1. 0 \in Int /\ numActions - 1 \in Int OBVIOUS
    <3>2. IsFiniteSet(0 .. numActions - 1) BY <3>1, FS_Interval
    <3> QED BY <3>2, FS_Subset
  <2> DEFINE m == InOrder(S)
  <2>3. Enumerates(m, S)
    <3>1. m = CHOOSE s \in [1 .. Cardinality(S) -> S] : \A i, j \in 1 .. Cardinality(S) : i < j => s[i] < s[j]
      BY DEF InOrder
    <3> HIDE DEF m
    <3> QED BY <2>1, <2>2, <3>1, ChosenOrder, Zenon
  <2> HIDE DEF m
  <2>4. m \in Seq(Nat) /\ {m[i] : i \in DOMAIN m} = S /\ (m = << >> <=> S = {}) BY <2>1, <2>2, <2>3, EnumerationSeq
  <2> QED BY <2>4 DEF m, Range
<1>2. Free \in SUBSET (0 .. numActions - 1) BY DEF Free
<1>3. \A top \in Free : Free \ {top} \in SUBSET (0 .. numActions - 1) BY <1>2
<1> HIDE DEF Free
<1>4. Free \in SUBSET Nat BY <1>2
<1> QED BY <1>1, <1>2, <1>3, <1>4 DEF Available

(* What the next slot's decision adds.                                     *)
LEMMA DecisionAdded ==
  ASSUME CcbInv, ~no_pred, UNCHANGED <<no_pred, numActions, ccbSlots>>, ccbStep = "base",
         NEW d \in Seq(Nat), decision_scores' = Append(decision_scores, d), Range(d) = Free,
         exclude_list' = IF d = << >> THEN exclude_list ELSE exclude_list \union {d[1]},
         slot_id' = slot_id + 1
  PROVE  /\ DistinctChoices' /\ decision_scores' \in Seq(Seq(Nat)) /\ Len(decision_scores') = slot_id' - 1
         /\ exclude_list' = (TopsTo(slot_id))'
<1> DEFINE n == Len(decision_scores)
<1>1. /\ slot_id \in Nat /\ n = slot_id - 1 /\ n \in Nat /\ slot_id = n + 1 /\ exclude_list = TopsTo(n + 1)
      /\ decision_scores \in Seq(Seq(Nat))
  BY DEF CcbInv
<1>2. /\ decision_scores' \in Seq(Seq(Nat)) /\ Len(decision_scores') = n + 1
      /\ \A j \in 1 .. n : decision_scores'[j] = decision_scores[j]
      /\ decision_scores'[n + 1] = d
      /\ DOMAIN decision_scores' = 1 .. n + 1 /\ DOMAIN decision_scores = 1 .. n
  BY <1>1
<1> HIDE DEF n
<1> DEFINE Tops(k) == {decision_scores[j][1] : j \in {i \in 1 .. k - 1 : decision_scores[i] # << >>}}
           TopsP(k) == {decision_scores'[j][1] : j \in {i \in 1 .. k - 1 : decision_scores'[i] # << >>}}
           Allowed(k) == {a \in 0 .. numActions - 1 : ccbSlots[k].includes = {} \/ a \in ccbSlots[k].includes}
<1>3. ASSUME NEW k \in 1 .. n + 1 PROVE TopsP(k) = Tops(k)
  <2>1. \A i \in 1 .. k - 1 : i \in 1 .. n BY <1>1
  <2>2. \A i \in 1 .. k - 1 : decision_scores'[i] = decision_scores[i] BY <1>2, <2>1
  <2> QED BY <2>2
<1>4. TopsP(n + 2) = IF d = << >> THEN Tops(n + 1) ELSE Tops(n + 1) \union {d[1]}
  <2>1. TopsP(n + 2) = TopsP(n + 1) \union (IF d = << >> THEN {} ELSE {d[1]})
    <3>1. 1 .. (n + 2) - 1 = (1 .. (n + 1) - 1) \union {n + 1} BY <1>1
    <3>2. decision_scores'[n + 1] = d BY <1>2
    <3>3. CASE d = << >>
      <4>1. {i \in 1 .. (n + 2) - 1 : decision_scores'[i] # << >>} = {i \in 1 .. (n + 1) - 1 : decision_scores'[i] # << >>}
        BY ONLY <3>1, <3>2, <3>3
      <4> QED BY ONLY <3>3, <4>1
    <3>4. CASE d # << >>
      <4>1. {i \in 1 .. (n + 2) - 1 : decision_scores'[i] # << >>}
              = {i \in 1 .. (n + 1) - 1 : decision_scores'[i] # << >>} \union {n + 1}
        BY ONLY <3>1, <3>2, <3>4
      <4> QED BY ONLY <3>2, <3>4, <4>1
    <3> QED BY <3>3, <3>4
  <2>2. n + 1 \in 1 .. n + 1 BY <1>1
  <2>3. TopsP(n + 1) = Tops(n + 1) BY <1>3, <2>2
  <2> QED BY <2>1, <2>3
<1>5. exclude_list' = (TopsTo(slot_id))'
  <2>1. (TopsTo(slot_id))' = TopsP(n + 2)
    <3>1. slot_id' = n + 2 BY <1>1
    <3> QED BY <3>1 DEF TopsTo
  <2>2. exclude_list = Tops(n + 1) BY <1>1 DEF TopsTo
  <2> QED BY <1>4, <2>1, <2>2
<1>6. \A k \in 1 .. n : Range(decision_scores[k]) = {a \in 0 .. numActions - 1 : a \notin Tops(k)
            /\ (ccbSlots[k].includes = {} \/ a \in ccbSlots[k].includes)}
  BY <1>2 DEF CcbInv, DistinctChoices
<1>7. Range(d) = {a \in 0 .. numActions - 1 : a \notin Tops(n + 1)
            /\ (ccbSlots[n + 1].includes = {} \/ a \in ccbSlots[n + 1].includes)}
  BY <1>1 DEF Free, Included, Taken, Label, TopsTo
<1>8. DistinctChoices'
  <2> SUFFICES ASSUME NEW k \in 1 .. n + 1
               PROVE  Range(decision_scores'[k]) = {a \in 0 .. numActions - 1 : a \notin TopsP(k)
                        /\ (ccbSlots[k].includes = {} \/ a \in ccbSlots[k].includes)}
    BY <1>2, SMTT(40) DEF DistinctChoices
  <2>1. TopsP(k) = Tops(k) BY <1>3
  <2> HIDE DEF Tops, TopsP
  <2>2. CASE k = n + 1 BY <1>2, <1>7, <2>1, <2>2
  <2>3. CASE k # n + 1
    <3>1. k \in 1 .. n BY <1>1, <2>3
    <3> QED BY <1>2, <1>6, <2>1, <3>1
  <2> QED BY <2>2, <2>3
<1>9. slot_id' - 1 = n + 1 BY <1>1
<1> QED BY <1>2, <1>5, <1>8, <1>9

(* The values of a call before its slots.                                  *)
LEMMA StartsCall ==
  ASSUME CcbInv, UNCHANGED no_pred, NEW isLearn \in BOOLEAN, NEW wellTyped \in BOOLEAN, NEW n \in 0 .. MaxActions,
         NEW k \in 0 .. MaxSlots, NEW labels \in [1 .. k -> SlotLabels], LearnOrPredict(isLearn, n, labels, wellTyped)
  PROVE  CcbInv'
<1>1. n \in Nat /\ k \in Nat BY CcbAssumption
<1>2. labels \in Seq(SlotLabels) BY <1>1
<1>3. /\ ccbStep = "idle" /\ numActions' = n /\ ccbSlots' = labels /\ ccbCosts' = {} /\ shared' = Plain
      /\ decision_scores' = << >> /\ slot_id' = 1 /\ UNCHANGED <<cb_ex, ccbThrown>>
  BY DEF LearnOrPredict
<1>4. \/ ccbStep' = "idle" /\ (outcomeOf' = "malformed" \/ (outcomeOf' = "threw" /\ labelsIn' = "examples" /\ Len(labels) > n))
      \/ ccbStep' = "slot" /\ exclude_list' = {} /\ ~(Len(labels) > n)
  BY DEF LearnOrPredict, Restored
<1>5. /\ slot_id' \in Nat /\ numActions' \in Nat /\ ccbSlots' \in Seq(SlotLabels) /\ decision_scores' \in Seq(Seq(Nat))
      /\ Len(decision_scores') = slot_id' - 1 /\ slot_id' \in 1 .. Len(ccbSlots') + 1 /\ DOMAIN decision_scores' = {}
  <2>1. << >> \in Seq(Seq(Nat)) /\ Len(<< >>) = 1 - 1 /\ DOMAIN << >> = {} OBVIOUS
  <2>2. Len(labels) \in Nat BY <1>2
  <2>3. 1 \in 1 .. Len(labels) + 1 BY <2>2
  <2> QED BY <1>1, <1>2, <1>3, <2>1, <2>3
<1>6. DistinctChoices' BY <1>5 DEF DistinctChoices
<1>7. LinesRestored' BY <1>3, <1>4 DEF LinesRestored
<1>8. CostOnLabelled' BY <1>4 DEF CostOnLabelled
<1>9. (TopsTo(slot_id))' = {}
  <2>1. 1 .. slot_id' - 1 = {} BY <1>3
  <2> QED BY <2>1 DEF TopsTo
<1> QED BY <1>3, <1>4, <1>5, <1>6, <1>7, <1>8, <1>9 DEF CcbInv

(* The base gets the label of this slot where its action stands.           *)
LEMMA BuildsExample == ASSUME CcbInv, UNCHANGED no_pred, BuildCbExample PROVE CcbInv'
<1>1. /\ ccbStep = "slot" /\ slot_id <= Len(ccbSlots) /\ ccbCosts = {} /\ shared = Plain
      /\ UNCHANGED <<ccbCall, learns, numActions, ccbSlots, decision_scores, slot_id, outcomeOf, ccbThrown, exclude_list>>
      /\ ccbStep' = IF ccbThrown THEN "lost" ELSE "base"
  BY DEF CcbInv, BuildCbExample
<1>2. DistinctChoices' BY <1>1 DEF CcbInv, DistinctChoices
<1>3. LinesRestored' BY <1>1 DEF LinesRestored
<1>4. shared' = [features |-> <<slot_id>>, id |-> TRUE, tag |-> slot_id]
  <2>1. Append(<< >>, slot_id) = <<slot_id>> BY DEF CcbInv
  <2>2. shared.features = << >> BY <1>1 DEF Plain
  <2> QED BY <2>1, <2>2 DEF BuildCbExample
<1>5. CostOnLabelled'
  <2> SUFFICES ASSUME ~ccbThrown
               PROVE  /\ \A c \in ccbCosts' : /\ c.slotNo = slot_id /\ c.action = ccbSlots[slot_id].outcome
                                              /\ cb_ex'[c.position + 1] = <<ccbCall, c.action>>
                      /\ ~learns => ccbCosts' = {}
    BY <1>1 DEF CostOnLabelled
  <2>1. ccbCosts' = Attached BY <1>1 DEF BuildCbExample
  <2>2. CASE ~(learns /\ Label.outcome \in Range(Available)) BY <2>1, <2>2 DEF Attached
  <2>3. CASE learns /\ Label.outcome \in Range(Available)
    <3> DEFINE pos == PlaceOf(Label.outcome)
               rest == [i \in DOMAIN Available |-> <<ccbCall, Available[i]>>]
               head == << <<ccbCall, "shared">> >>
    <3>1. pos \in DOMAIN Available /\ Available[pos] = Label.outcome
      <4>1. \E i \in DOMAIN Available : Available[i] = Label.outcome BY <2>3 DEF Range
      <4> QED BY <4>1 DEF PlaceOf
    <3>2. Available \in Seq(Nat) BY AvailableSeq DEF CcbInv
    <3> DEFINE S == {<<ccbCall, x>> : x \in Nat} \union {<<ccbCall, "shared">>}
    <3>3. rest \in Seq(S) /\ Len(rest) = Len(Available)
      <4>1. DOMAIN Available = 1 .. Len(Available) /\ Len(Available) \in Nat /\ \A i \in DOMAIN Available : Available[i] \in Nat BY <3>2
      <4>2. \A i \in DOMAIN Available : <<ccbCall, Available[i]>> \in S BY <4>1
      <4> HIDE DEF S
      <4>3. rest \in [1 .. Len(Available) -> S] BY <4>1, <4>2
      <4> HIDE DEF rest
      <4> QED BY <4>1, <4>3
    <3>4. head \in Seq(S) /\ Len(head) = 1 OBVIOUS
    <3>5. cb_ex' = head \o rest
      <4>1. cb_ex' = cb_ex \o head \o rest /\ cb_ex = << >> BY <1>1 DEF BuildCbExample, CcbInv
      <4> HIDE DEF head, rest, S
      <4>2. << >> \o head = head BY <3>4
      <4> QED BY <4>1, <4>2
    <3>6. pos \in 1 .. Len(Available) BY <3>1, <3>2
    <3>7. rest[pos] = <<ccbCall, Label.outcome>> BY <3>1
    <3> HIDE DEF pos, rest, head, S
    <3>8. (head \o rest)[pos + 1] = rest[pos]
      <4>1. Len(Available) \in Nat BY <3>2
      <4>2. pos \in Nat /\ pos + 1 \in 1 .. Len(head) + Len(rest) /\ ~(pos + 1 <= Len(head)) /\ (pos + 1) - Len(head) = pos
        BY <3>3, <3>4, <3>6, <4>1
      <4>3. \A i \in 1 .. Len(head) + Len(rest) :
              (head \o rest)[i] = IF i <= Len(head) THEN head[i] ELSE rest[i - Len(head)]
        BY <3>3, <3>4, ConcatProperties, ZenonT(60)
      <4> QED BY <4>2, <4>3
    <3>9. Attached = {[action |-> Label.outcome, position |-> pos, slotNo |-> slot_id]} BY <2>3 DEF Attached, pos
    <3>10. cb_ex'[pos + 1] = <<ccbCall, Label.outcome>> BY <3>5, <3>7, <3>8
    <3>11. Label = ccbSlots[slot_id] BY DEF Label
    <3> HIDE DEF Label
    <3> QED BY <2>1, <2>3, <3>9, <3>10, <3>11
  <2> QED BY <2>2, <2>3
<1>6. (TopsTo(slot_id))' = TopsTo(slot_id) /\ Free' = Free BY <1>1 DEF TopsTo, Free, Included, Label, Taken
<1>7. \A c \in ccbCosts' : c.action \in Free'
  <2>1. \A c \in Attached : c.action \in Range(Available) BY DEF Attached
  <2>2. Range(Available) = Free BY AvailableSeq DEF CcbInv
  <2>3. ccbCosts' = Attached BY <1>1 DEF BuildCbExample
  <2> QED BY <1>6, <2>1, <2>2, <2>3
<1> QED BY <1>1, <1>2, <1>3, <1>4, <1>5, <1>6, <1>7 DEF CcbInv

(* What every way to end a slot has in common.                             *)
LEMMA SlotEnds ==
  ASSUME CcbInv, UNCHANGED no_pred, ccbStep = "base", NextSlot, ccbCosts' = {},
         DistinctChoices', decision_scores' \in Seq(Seq(Nat)),
         ~no_pred => Len(decision_scores') = slot_id' - 1 /\ exclude_list' = (TopsTo(slot_id))'
  PROVE  CcbInv'
<1>1. /\ ccbStep' = "slot" /\ slot_id' = slot_id + 1 /\ cb_ex' = << >> /\ shared' = Removed
      /\ UNCHANGED <<numActions, ccbSlots>>
  BY DEF NextSlot
<1>2. shared' = Plain
  <2>1. shared.features = <<slot_id>> /\ slot_id \in Nat BY DEF CcbInv
  <2>2. Front(<<slot_id>>) = << >> BY <2>1 DEF Front
  <2> QED BY <1>1, <2>1, <2>2 DEF Removed, Plain
<1>3. slot_id' \in 1 .. Len(ccbSlots') + 1
  <2>1. slot_id \in Nat /\ slot_id <= Len(ccbSlots) /\ Len(ccbSlots) \in Nat BY DEF CcbInv
  <2> QED BY <1>1, <2>1
<1>4. LinesRestored' /\ CostOnLabelled' BY <1>1 DEF LinesRestored, CostOnLabelled
<1> QED BY <1>1, <1>2, <1>3, <1>4 DEF CcbInv

(* The decision of a slot is on what was left to it.                       *)
LEMMA SlotDecides == ASSUME CcbInv, UNCHANGED no_pred, BaseReturns PROVE CcbInv'
<1>1. PICK top \in Range(Available) :
        /\ exclude_list' = exclude_list \union {top}
        /\ decision_scores' = Append(decision_scores, <<top>> \o InOrder(Free \ {top}))
  BY DEF BaseReturns
<1>2. ccbStep = "base" /\ ~no_pred /\ ccbCosts' = {} /\ NextSlot BY DEF BaseReturns, NoCosts
<1>3. UNCHANGED <<numActions, ccbSlots>> /\ slot_id' = slot_id + 1 BY <1>2 DEF NextSlot
<1> DEFINE rest == InOrder(Free \ {top})
           d == <<top>> \o rest
<1>4. top \in Free /\ top \in Nat /\ rest \in Seq(Nat) /\ Range(rest) = Free \ {top}
  <2>1. numActions \in Nat BY DEF CcbInv
  <2> QED BY <1>1, <2>1, AvailableSeq
<1> HIDE DEF rest
<1>5. <<top>> \in Seq(Nat) /\ Len(<<top>>) = 1 /\ <<top>>[1] = top /\ <<top>> # << >> BY <1>4
<1>6. /\ d \in Seq(Nat) /\ Len(d) = Len(rest) + 1
      /\ \A i \in 1 .. Len(rest) + 1 : d[i] = IF i <= 1 THEN <<top>>[i] ELSE rest[i - 1]
  BY <1>4, <1>5, ConcatProperties
<1> HIDE DEF d
<1>7. Len(rest) \in Nat /\ DOMAIN rest = 1 .. Len(rest) /\ DOMAIN d = 1 .. Len(rest) + 1 BY <1>4, <1>6
<1>8. d # << >> /\ d[1] = top
  <2>1. Len(<< >>) = 0 OBVIOUS
  <2>2. Len(rest) + 1 # 0 /\ 1 \in 1 .. Len(rest) + 1 BY <1>7
  <2> QED BY <1>5, <1>6, <2>1, <2>2
<1>9. Range(d) = Free
  <2>1. Range(d) \subseteq {top} \union Range(rest)
    <3> SUFFICES ASSUME NEW i \in 1 .. Len(rest) + 1 PROVE d[i] \in {top} \union Range(rest) BY <1>7 DEF Range
    <3>1. CASE i = 1 BY <1>8, <3>1
    <3>2. CASE i # 1
      <4>1. i - 1 \in 1 .. Len(rest) /\ ~(i <= 1) BY <1>7, <3>2
      <4> QED BY <1>6, <1>7, <4>1 DEF Range
    <3> QED BY <3>1, <3>2
  <2>2. {top} \union Range(rest) \subseteq Range(d)
    <3>1. \A i \in 1 .. Len(rest) : i + 1 \in 1 .. Len(rest) + 1 /\ d[i + 1] = rest[i] BY <1>6, <1>7
    <3>2. 1 \in 1 .. Len(rest) + 1 BY <1>7
    <3> QED BY <1>7, <1>8, <3>1, <3>2 DEF Range
  <2> QED BY <1>4, <2>1, <2>2
<1>10. decision_scores' = Append(decision_scores, d) BY <1>1 DEF d, rest
<1>11. exclude_list' = IF d = << >> THEN exclude_list ELSE exclude_list \union {d[1]} BY <1>1, <1>8
<1>12. /\ DistinctChoices' /\ decision_scores' \in Seq(Seq(Nat)) /\ Len(decision_scores') = slot_id' - 1
       /\ exclude_list' = (TopsTo(slot_id))'
  BY <1>2, <1>3, <1>6, <1>9, <1>10, <1>11, DecisionAdded
<1> QED BY <1>2, <1>12, SlotEnds

(* Nothing is decided with --no_predict, and nothing where nothing is left. *)
LEMMA SlotPasses == ASSUME CcbInv, UNCHANGED no_pred, BaseLearnsOnly \/ NoAction PROVE CcbInv'
<1>1. CASE BaseLearnsOnly
  <2>1. ccbStep = "base" /\ no_pred /\ ccbCosts' = {} /\ NextSlot /\ UNCHANGED decision_scores BY <1>1 DEF BaseLearnsOnly, NoCosts
  <2>2. DistinctChoices' BY <2>1 DEF DistinctChoices
  <2>3. decision_scores' \in Seq(Seq(Nat)) BY <2>1 DEF CcbInv
  <2> QED BY <2>1, <2>2, <2>3, SlotEnds
<1>2. CASE NoAction
  <2>1. /\ ccbStep = "base" /\ Available = << >> /\ NextSlot /\ decision_scores' = Append(decision_scores, << >>)
        /\ UNCHANGED <<ccbCosts, exclude_list>>
    BY <1>2 DEF NoAction
  <2>2. numActions \in Nat /\ decision_scores \in Seq(Seq(Nat)) BY DEF CcbInv
  <2>3. Free = {} BY <2>1, <2>2, AvailableSeq
  <2>4. ccbCosts' = {}
    <3> SUFFICES ASSUME NEW c \in ccbCosts PROVE FALSE BY <2>1
    <3>1. QED BY <2>1, <2>3 DEF CcbInv
  <2>5. << >> \in Seq(Nat) /\ Range(<< >>) = Free BY <2>3 DEF Range
  <2>6. UNCHANGED <<numActions, ccbSlots>> /\ slot_id' = slot_id + 1 BY <2>1 DEF NextSlot
  <2>7. decision_scores' \in Seq(Seq(Nat)) BY <2>1, <2>2, <2>5
  <2>8. ASSUME ~no_pred
        PROVE  DistinctChoices' /\ Len(decision_scores') = slot_id' - 1 /\ exclude_list' = (TopsTo(slot_id))'
    BY <2>1, <2>5, <2>6, <2>8, DecisionAdded
  <2>9. DistinctChoices' BY <2>8 DEF DistinctChoices
  <2> QED BY <2>1, <2>4, <2>7, <2>8, <2>9, SlotEnds
<1> QED BY <1>1, <1>2

(* A throw, the return of a call and the cleanup end it.                   *)
LEMMA CallEnds == ASSUME CcbInv, UNCHANGED no_pred, BaseThrows \/ CcbReturns \/ CcbCleanup PROVE CcbInv'
<1>1. CASE BaseThrows
  <2>1. /\ ccbStep' = "idle" /\ outcomeOf' = "threw" /\ ccbThrown' = TRUE /\ labelsIn' = "examples" /\ ccbCosts' = {}
        /\ UNCHANGED <<numActions, ccbSlots, decision_scores, slot_id, shared>> /\ ccbStep = "base"
    BY <1>1 DEF BaseThrows, Restored
  <2>2. DistinctChoices' BY <2>1 DEF CcbInv, DistinctChoices
  <2>3. ~(Len(ccbSlots) > numActions) /\ shared = [features |-> <<slot_id>>, id |-> TRUE, tag |-> slot_id]
    BY <2>1 DEF CcbInv
  <2>4. LinesRestored' /\ CostOnLabelled' BY <2>1, <2>3 DEF LinesRestored, CostOnLabelled
  <2> QED BY <2>1, <2>2, <2>4 DEF CcbInv
<1>2. CASE CcbReturns
  <2>1. /\ ccbStep = "slot" /\ slot_id > Len(ccbSlots) /\ ccbStep' = "idle" /\ labelsIn' = "examples" /\ ccbCosts' = {}
        /\ outcomeOf' = "returned"
        /\ UNCHANGED <<numActions, ccbSlots, decision_scores, slot_id, shared, cb_ex, ccbThrown>>
    BY <1>2 DEF CcbReturns, Restored
  <2>2. DistinctChoices' BY <2>1 DEF CcbInv, DistinctChoices
  <2>3. no_pred \/ Len(decision_scores) = Len(ccbSlots)
    <3>1. slot_id \in Nat /\ slot_id \in 1 .. Len(ccbSlots) + 1 /\ Len(ccbSlots) \in Nat BY <2>1 DEF CcbInv
    <3>2. slot_id - 1 = Len(ccbSlots) BY <2>1, <3>1
    <3> QED BY <2>1, <3>2 DEF CcbInv
  <2>4. shared = Plain BY <2>1 DEF CcbInv
  <2>5. LinesRestored' /\ CostOnLabelled' BY <2>1, <2>3, <2>4 DEF LinesRestored, CostOnLabelled
  <2> QED BY <2>1, <2>2, <2>5 DEF CcbInv
<1>3. CASE CcbCleanup
  <2>1. /\ ccbStep = "idle" /\ outcomeOf' = "none" /\ numActions' = 0 /\ ccbSlots' = << >> /\ labelsIn' = "examples"
        /\ decision_scores' = << >> /\ slot_id' = 0 /\ UNCHANGED <<ccbStep, ccbCosts, cb_ex, ccbThrown>>
    BY <1>3 DEF CcbCleanup
  <2>2. << >> \in Seq(SlotLabels) /\ << >> \in Seq(Seq(Nat)) /\ DOMAIN << >> = {} OBVIOUS
  <2>3. DistinctChoices' BY <2>1, <2>2 DEF DistinctChoices
  <2>4. ccbCosts = {} BY <2>1 DEF CcbInv
  <2>5. LinesRestored' /\ CostOnLabelled' BY <2>1, <2>4 DEF LinesRestored, CostOnLabelled
  <2> QED BY <2>1, <2>2, <2>3, <2>4, <2>5 DEF CcbInv
<1> QED BY <1>1, <1>2, <1>3

(* Every slot of a conditional contextual bandit example decides on an     *)
(* action its label allows and no earlier slot has taken, the base learns  *)
(* this slot's cost only and at its action's line; a call that is over     *)
(* leaves the labels as they were given, also when the base throws, and    *)
(* the shared line too unless it throws, when it carries what was added    *)
(* for the slot at work and nothing of another (learn_or_predict); for any *)
(* number of actions, slots and calls.                                     *)
THEOREM SlotsRight == CcbSpec => []SlotsIndependent
<1>1. CcbInit => CcbInv
  <2> SUFFICES ASSUME CcbInit PROVE CcbInv OBVIOUS
  <2>1. << >> \in Seq(SlotLabels) /\ << >> \in Seq(Seq(Nat)) /\ DOMAIN << >> = {} OBVIOUS
  <2>2. DistinctChoices /\ LinesRestored /\ CostOnLabelled
    BY <2>1 DEF CcbInit, DistinctChoices, LinesRestored, CostOnLabelled
  <2> QED BY <2>1, <2>2 DEF CcbInit, CcbInv
<1>2. ASSUME CcbInv, [CcbNext]_ccbVars PROVE CcbInv'
  <2>1. CASE UNCHANGED ccbVars
    <3>1. Free' = Free /\ (TopsTo(slot_id))' = TopsTo(slot_id) BY <2>1 DEF ccbVars, Free, Included, Label, Taken, TopsTo
    <3>2. DistinctChoices' /\ LinesRestored' /\ CostOnLabelled'
      BY <1>2, <2>1 DEF ccbVars, CcbInv, DistinctChoices, LinesRestored, CostOnLabelled
    <3> QED BY <1>2, <2>1, <3>1, <3>2 DEF ccbVars, CcbInv
  <2>2. CASE CcbNext
    <3>1. UNCHANGED no_pred BY <2>2 DEF CcbNext
    <3>2. CASE \E isLearn, wellTyped \in BOOLEAN, n \in 0 .. MaxActions, k \in 0 .. MaxSlots :
                 \E labels \in [1 .. k -> SlotLabels] : LearnOrPredict(isLearn, n, labels, wellTyped)
      BY <1>2, <3>1, <3>2, StartsCall
    <3>3. CASE BuildCbExample BY <1>2, <3>1, <3>3, BuildsExample
    <3>4. CASE BaseReturns BY <1>2, <3>1, <3>4, SlotDecides
    <3>5. CASE BaseLearnsOnly \/ NoAction BY <1>2, <3>1, <3>5, SlotPasses
    <3>6. CASE BaseThrows \/ CcbReturns \/ CcbCleanup BY <1>2, <3>1, <3>6, CallEnds
    <3> QED BY <2>2, <3>2, <3>3, <3>4, <3>5, <3>6 DEF CcbNext, CcbStep
  <2> QED BY <1>2, <2>1, <2>2
<1>3. CcbInv => SlotsIndependent BY DEF CcbInv, SlotsIndependent
<1> QED BY <1>1, <1>2, <1>3, PTL DEF CcbSpec

-----------------------------------------------------------------------------
(* bfgs.                                                                   *)

(* Places in a ring of S cells.                                            *)
LEMMA RingPlaces ==
  ASSUME NEW S \in Nat, S > 1, NEW o \in 0 .. S - 1
  PROVE  /\ \A k \in 0 .. S - 1 : (k + o) % S \in 0 .. S - 1
         /\ \A k, l \in 0 .. S - 1 : (k + o) % S = (l + o) % S => k = l
<1>1. ASSUME NEW k \in 0 .. S - 1
      PROVE  (k + o) % S = IF k + o < S THEN k + o ELSE k + o - S
  <2>1. CASE k + o < S
    <3>1. k + o \in 0 .. S - 1 BY <2>1
    <3>2. \A x \in 0 .. S - 1 : x % S = x OBVIOUS
    <3> QED BY <2>1, <3>1, <3>2
  <2>2. CASE ~(k + o < S)
    <3>1. k + o \in S .. 2 * S - 1 BY <2>2
    <3>2. \A x \in S .. 2 * S - 1 : x % S = x - S OBVIOUS
    <3> QED BY <2>2, <3>1, <3>2
  <2> QED BY <2>1, <2>2
<1> QED BY <1>1

(* One pair back: what was at offset k is at offset k + 2.                 *)
LEMMA RingShift ==
  ASSUME NEW S \in Nat, S > 1, NEW o \in 0 .. S - 1, NEW n, n = (o + S - 2) % S
  PROVE  n \in 0 .. S - 1 /\ \A k \in 0 .. S - 3 : (k + 2 + n) % S = (k + o) % S
<1>1. \A x \in 0 .. S - 1 : x % S = x OBVIOUS
<1>2. \A x \in S .. 2 * S - 1 : x % S = x - S OBVIOUS
<1>3. n = IF o < 2 THEN o + S - 2 ELSE o - 2
  <2>1. CASE o < 2
    <3>1. o + S - 2 \in 0 .. S - 1 BY <2>1
    <3> QED BY <1>1, <2>1, <3>1
  <2>2. CASE ~(o < 2)
    <3>1. o + S - 2 \in S .. 2 * S - 1 BY <2>2
    <3> QED BY <1>2, <2>2, <3>1
  <2> QED BY <2>1, <2>2
<1>4. n \in 0 .. S - 1 BY <1>3
<1>5. ASSUME NEW k \in 0 .. S - 3 PROVE (k + 2 + n) % S = (k + o) % S
  <2>1. CASE o < 2
    <3>1. k + 2 + n = k + o + S BY <1>3, <2>1
    <3>2. CASE k + o < S
      <4>1. k + o \in 0 .. S - 1 /\ k + 2 + n \in S .. 2 * S - 1 BY <3>1, <3>2
      <4> QED BY <1>1, <1>2, <3>1, <4>1
    <3>3. CASE ~(k + o < S) BY <2>1, <3>3
    <3> QED BY <3>2, <3>3
  <2>2. CASE ~(o < 2)
    <3>1. k + 2 + n = k + o BY <1>3, <2>2
    <3> QED BY <3>1
  <2> QED BY <2>1, <2>2
<1> QED BY <1>4, <1>5

Cells == [what : {"none", "g", "x", "y", "s"}, at : Nat \X Nat]

(* The cells from the origin: a gradient and weights of one point, then    *)
(* the differences of the last l steps up to it, newest first.             *)
Ring(S, mm, rr, o, l) ==
  /\ mm[(0 + o) % S].at[1] = mm[(1 + o) % S].at[1]
  /\ \A j \in 1 .. l :
       /\ mm[(2 * j + 0 + o) % S] = [what |-> "y", at |-> rr[j]]
       /\ mm[(2 * j + 1 + o) % S] = [what |-> "s", at |-> rr[j]]
       /\ rr[j][2] = IF j = 1 THEN mm[(1 + o) % S].at[1] ELSE rr[j - 1][1]

(* A step of the ring: the pair p, from its point to w, is stored, and the *)
(* origin moves one pair back, to the point w.                             *)
PutTwo(S, mm, o, a, b) == [mm EXCEPT ![(0 + o) % S] = a, ![(1 + o) % S] = b]
PairIn(S, mm, o, p) == PutTwo(S, mm, o, [what |-> "y", at |-> p], [what |-> "s", at |-> p])
PointIn(S, mm, n, w) == PutTwo(S, mm, n, [what |-> "g", at |-> <<w, w>>], [what |-> "x", at |-> <<w, w>>])
ShiftedBy(rr, k) == [j \in DOMAIN rr |-> IF j \in 1 .. k THEN rr[j - 1] ELSE rr[j]]
Longer(l, m) == IF l < m - 1 THEN l + 1 ELSE m - 1

(* The offsets of a ring of m pairs.                                       *)
LEMMA Offsets ==
  ASSUME NEW m \in Nat, m > 0, NEW S, S = 2 * m
  PROVE  /\ S \in Nat /\ S > 1 /\ 0 \in 0 .. S - 1 /\ 1 \in 0 .. S - 1 /\ 0 \in 0 .. m - 1
         /\ \A j \in 1 .. m - 1 : /\ 2 * j + 0 \in 0 .. S - 1 /\ 2 * j + 1 \in 0 .. S - 1
                                  /\ 2 * j + 0 \notin {0, 1} /\ 2 * j + 1 \notin {0, 1}
                                  /\ 2 * (j - 1) + 0 \in 0 .. S - 3 /\ 2 * (j - 1) + 1 \in 0 .. S - 3
                                  /\ j \in 0 .. m - 1 /\ j - 1 \in 0 .. m - 1
OBVIOUS

IsPut(S, mm, o, a, b, nn) ==
  /\ nn \in [0 .. S - 1 -> Cells] /\ nn[(0 + o) % S] = a /\ nn[(1 + o) % S] = b
  /\ \A i \in 0 .. S - 1 : i \notin {0, 1} => nn[(i + o) % S] = mm[(i + o) % S] /\ (i + o) % S \in 0 .. S - 1

(* A stored pair is found, and the other cells are as before.              *)
LEMMA Found ==
  ASSUME NEW S \in Nat, S > 1, NEW o \in 0 .. S - 1, NEW mm \in [0 .. S - 1 -> Cells], NEW a \in Cells, NEW b \in Cells,
         NEW nn, nn = PutTwo(S, mm, o, a, b)
  PROVE  IsPut(S, mm, o, a, b, nn)
<1>1. /\ \A i \in 0 .. S - 1 : (i + o) % S \in 0 .. S - 1
      /\ \A i, j \in 0 .. S - 1 : (i + o) % S = (j + o) % S => i = j
  BY RingPlaces
<1>2. 0 \in 0 .. S - 1 /\ 1 \in 0 .. S - 1 /\ 0 # 1 OBVIOUS
<1>3. (0 + o) % S \in 0 .. S - 1 /\ (1 + o) % S \in 0 .. S - 1 /\ (0 + o) % S # (1 + o) % S BY <1>1, <1>2
<1>4. nn \in [0 .. S - 1 -> Cells] /\ nn[(0 + o) % S] = a /\ nn[(1 + o) % S] = b BY <1>3 DEF PutTwo
<1>5. ASSUME NEW i \in 0 .. S - 1, i \notin {0, 1} PROVE nn[(i + o) % S] = mm[(i + o) % S] /\ (i + o) % S \in 0 .. S - 1
  <2>1. (i + o) % S \in 0 .. S - 1 /\ (i + o) % S # (0 + o) % S /\ (i + o) % S # (1 + o) % S BY <1>1, <1>2, <1>5
  <2> QED BY <2>1 DEF PutTwo
<1> QED BY <1>4, <1>5 DEF IsPut

(* The pairs from the origin, each with its rho, newest first.             *)
PairsIn(S, o, l, st, now) ==
  \A j \in 0 .. l :
    /\ st[(2 * j + 0 + o) % S] = [what |-> "y", at |-> now[j]]
    /\ st[(2 * j + 1 + o) % S] = [what |-> "s", at |-> now[j]]
    /\ j > 0 => now[j][2] = now[j - 1][1]

PointOf(S, mm, o) == mm[(1 + o) % S].at[1]
WithPair(rr, p) == [rr EXCEPT ![0] = p]
StoredWell(m, S, o, l, st, now, v, w) ==
  /\ st \in [0 .. S - 1 -> Cells] /\ now \in [0 .. m - 1 -> Nat \X Nat] /\ now[0] = <<v, w>> /\ v \in Nat
  /\ PairsIn(S, o, l, st, now)
MovedWell(m, S, mn, rn, n, k) ==
  /\ Ring(S, mn, rn, n, k) /\ mn \in [0 .. S - 1 -> Cells] /\ rn \in [0 .. m - 1 -> Nat \X Nat]
  /\ n \in 0 .. S - 1 /\ k \in 0 .. m - 1

(* The pairs of the ring with the one that was just stored.                *)
LEMMA PairsStored ==
  ASSUME NEW m \in Nat, m > 0, NEW S, S = 2 * m, NEW o \in 0 .. S - 1, NEW l \in 0 .. m - 1,
         NEW mm \in [0 .. S - 1 -> Cells], NEW rr \in [0 .. m - 1 -> Nat \X Nat], Ring(S, mm, rr, o, l),
         NEW w \in Nat, NEW v, v = PointOf(S, mm, o),
         NEW st, st = PairIn(S, mm, o, <<v, w>>), NEW now, now = WithPair(rr, <<v, w>>)
  PROVE  StoredWell(m, S, o, l, st, now, v, w)
<1>1. S \in Nat /\ S > 1 /\ 0 \in 0 .. S - 1 /\ 1 \in 0 .. S - 1 /\ 0 \in 0 .. m - 1 BY Offsets
<1>2. v \in Nat
  <2>1. (1 + o) % S \in 0 .. S - 1 BY <1>1, RingPlaces
  <2>2. mm[(1 + o) % S].at \in Nat \X Nat BY <2>1 DEF Cells
  <2> QED BY <2>2 DEF PointOf
<1>3. [what |-> "y", at |-> <<v, w>>] \in Cells /\ [what |-> "s", at |-> <<v, w>>] \in Cells BY <1>2 DEF Cells
<1>4. /\ st \in [0 .. S - 1 -> Cells] /\ st[(0 + o) % S] = [what |-> "y", at |-> <<v, w>>]
      /\ st[(1 + o) % S] = [what |-> "s", at |-> <<v, w>>]
      /\ \A i \in 0 .. S - 1 : i \notin {0, 1} => st[(i + o) % S] = mm[(i + o) % S] /\ (i + o) % S \in 0 .. S - 1
  <2>1. st = PutTwo(S, mm, o, [what |-> "y", at |-> <<v, w>>], [what |-> "s", at |-> <<v, w>>]) BY DEF PairIn
  <2>2. IsPut(S, mm, o, [what |-> "y", at |-> <<v, w>>], [what |-> "s", at |-> <<v, w>>], st)
    BY ONLY <1>1, <1>3, <2>1, Found, o \in 0 .. S - 1, mm \in [0 .. S - 1 -> Cells]
  <2> QED BY ONLY <2>2 DEF IsPut
<1>5. now \in [0 .. m - 1 -> Nat \X Nat] /\ now[0] = <<v, w>> /\ \A j \in 0 .. m - 1 : j # 0 => now[j] = rr[j]
  BY <1>1, <1>2 DEF WithPair
<1>6. ASSUME NEW j \in 0 .. l
      PROVE  /\ st[(2 * j + 0 + o) % S] = [what |-> "y", at |-> now[j]]
             /\ st[(2 * j + 1 + o) % S] = [what |-> "s", at |-> now[j]]
             /\ j > 0 => now[j][2] = now[j - 1][1]
  <2>1. CASE j = 0
    <3>1. 2 * j + 0 + o = 0 + o /\ 2 * j + 1 + o = 1 + o /\ ~(j > 0) BY ONLY <2>1, o \in 0 .. S - 1
    <3> QED BY <1>4, <1>5, <2>1, <3>1
  <2>2. CASE j # 0
    <3>1. j \in 1 .. l /\ j \in 1 .. m - 1 BY ONLY <2>2, j \in 0 .. l, l \in 0 .. m - 1, m \in Nat
    <3>2. /\ 2 * j + 0 \in 0 .. S - 1 /\ 2 * j + 1 \in 0 .. S - 1 /\ 2 * j + 0 \notin {0, 1} /\ 2 * j + 1 \notin {0, 1}
          /\ j \in 0 .. m - 1 /\ j - 1 \in 0 .. m - 1
      BY <3>1, Offsets
    <3>3. st[(2 * j + 0 + o) % S] = mm[(2 * j + 0 + o) % S] /\ st[(2 * j + 1 + o) % S] = mm[(2 * j + 1 + o) % S]
      BY <1>4, <3>2
    <3>4. /\ mm[(2 * j + 0 + o) % S] = [what |-> "y", at |-> rr[j]]
          /\ mm[(2 * j + 1 + o) % S] = [what |-> "s", at |-> rr[j]]
          /\ rr[j][2] = IF j = 1 THEN v ELSE rr[j - 1][1]
      BY <3>1 DEF Ring, PointOf
    <3>5. now[j] = rr[j] BY <1>5, <2>2, <3>2
    <3>6. now[j - 1][1] = IF j = 1 THEN v ELSE rr[j - 1][1]
      <4>1. CASE j = 1
        <5>1. j - 1 = 0 BY ONLY <4>1
        <5>2. now[j - 1] = <<v, w>> BY <1>5, <5>1
        <5> QED BY ONLY <4>1, <5>2
      <4>2. CASE j # 1
        <5>1. j - 1 # 0 BY ONLY <3>1, <4>2, l \in 0 .. m - 1, m \in Nat
        <5> QED BY <1>5, <3>2, <4>2, <5>1
      <4> QED BY <4>1, <4>2
    <3> QED BY <3>3, <3>4, <3>5, <3>6
  <2> QED BY <2>1, <2>2
<1> QED BY <1>2, <1>4, <1>5, <1>6 DEF PairsIn, StoredWell

(* The ring after its origin has moved.                                    *)
LEMMA RingMoved ==
  ASSUME NEW m \in Nat, m > 0, NEW S, S = 2 * m, NEW o \in 0 .. S - 1, NEW l \in 0 .. m - 1,
         NEW st, NEW now, NEW v, NEW w \in Nat, StoredWell(m, S, o, l, st, now, v, w), NEW n, n = (o + S - 2) % S, NEW k, k = Longer(l, m),
         NEW mn, mn = PointIn(S, st, n, w), NEW rn, rn = ShiftedBy(now, k)
  PROVE  MovedWell(m, S, mn, rn, n, k)
<1>0. /\ st \in [0 .. S - 1 -> Cells] /\ now \in [0 .. m - 1 -> Nat \X Nat] /\ now[0] = <<v, w>> /\ v \in Nat
      /\ PairsIn(S, o, l, st, now)
  BY DEF StoredWell
<1>1. S \in Nat /\ S > 1 /\ 0 \in 0 .. S - 1 /\ 1 \in 0 .. S - 1 BY Offsets
<1>2. n \in 0 .. S - 1 /\ \A i \in 0 .. S - 3 : (i + 2 + n) % S = (i + o) % S BY ONLY <1>1, RingShift, o \in 0 .. S - 1, n = (o + S - 2) % S
<1>3. k \in 0 .. m - 1 /\ \A j \in 1 .. k : j \in 1 .. m - 1 /\ j - 1 \in 0 .. l /\ (j # 1 => j - 1 \in 1 .. k /\ j - 1 > 0)
  BY ONLY k = Longer(l, m), l \in 0 .. m - 1, m \in Nat, m > 0 DEF Longer
<1>4. [what |-> "g", at |-> <<w, w>>] \in Cells /\ [what |-> "x", at |-> <<w, w>>] \in Cells BY DEF Cells
<1>5. /\ mn \in [0 .. S - 1 -> Cells] /\ mn[(0 + n) % S] = [what |-> "g", at |-> <<w, w>>]
      /\ mn[(1 + n) % S] = [what |-> "x", at |-> <<w, w>>]
      /\ \A i \in 0 .. S - 1 : i \notin {0, 1} => mn[(i + n) % S] = st[(i + n) % S] /\ (i + n) % S \in 0 .. S - 1
  <2>1. mn = PutTwo(S, st, n, [what |-> "g", at |-> <<w, w>>], [what |-> "x", at |-> <<w, w>>]) BY DEF PointIn
  <2>2. IsPut(S, st, n, [what |-> "g", at |-> <<w, w>>], [what |-> "x", at |-> <<w, w>>], mn)
    BY ONLY <1>1, <1>2, <1>4, <2>1, Found, <1>0
  <2> QED BY ONLY <2>2 DEF IsPut
<1>6. /\ rn \in [0 .. m - 1 -> Nat \X Nat] /\ \A j \in 1 .. k : rn[j] = now[j - 1]
  <2>1. DOMAIN now = 0 .. m - 1 BY <1>0
  <2>2. \A j \in 1 .. k : j - 1 \in 0 .. m - 1 /\ j \in 0 .. m - 1 BY <1>3, Offsets
  <2>3. \A j \in 0 .. m - 1 : rn[j] = IF j \in 1 .. k THEN now[j - 1] ELSE now[j] BY <2>1 DEF ShiftedBy
  <2>4. ASSUME NEW j \in 0 .. m - 1 PROVE rn[j] \in Nat \X Nat
    <3>1. CASE j \in 1 .. k
      <4>1. rn[j] = now[j - 1] /\ j - 1 \in 0 .. m - 1 BY ONLY <2>2, <2>3, <3>1, j \in 0 .. m - 1
      <4> QED BY ONLY <4>1, <1>0
    <3>2. CASE j \notin 1 .. k
      <4>1. rn[j] = now[j] BY ONLY <2>3, <3>2, j \in 0 .. m - 1
      <4> QED BY ONLY <4>1, <1>0, j \in 0 .. m - 1
    <3> QED BY <3>1, <3>2
  <2>5. rn = [j \in 0 .. m - 1 |-> rn[j]] BY <2>1 DEF ShiftedBy
  <2> QED BY <2>2, <2>3, <2>4, <2>5
<1>7. ASSUME NEW j \in 1 .. k
      PROVE  /\ mn[(2 * j + 0 + n) % S] = [what |-> "y", at |-> rn[j]]
             /\ mn[(2 * j + 1 + n) % S] = [what |-> "s", at |-> rn[j]]
             /\ rn[j][2] = IF j = 1 THEN mn[(1 + n) % S].at[1] ELSE rn[j - 1][1]
  <2>1. /\ 2 * j + 0 \in 0 .. S - 1 /\ 2 * j + 1 \in 0 .. S - 1 /\ 2 * j + 0 \notin {0, 1} /\ 2 * j + 1 \notin {0, 1}
        /\ 2 * (j - 1) + 0 \in 0 .. S - 3 /\ 2 * (j - 1) + 1 \in 0 .. S - 3
    BY <1>3, Offsets
  <2>2. 2 * j + 0 + n = 2 * (j - 1) + 0 + 2 + n /\ 2 * j + 1 + n = 2 * (j - 1) + 1 + 2 + n
    <3>1. n \in Int /\ j \in Int BY ONLY <1>1, <1>2, <1>3, j \in 1 .. k, m \in Nat
    <3> QED BY ONLY <3>1
  <2>3. /\ (2 * j + 0 + n) % S = (2 * (j - 1) + 0 + o) % S /\ (2 * j + 1 + n) % S = (2 * (j - 1) + 1 + o) % S
    BY <1>2, <2>1, <2>2
  <2>4. mn[(2 * j + 0 + n) % S] = st[(2 * j + 0 + n) % S] /\ mn[(2 * j + 1 + n) % S] = st[(2 * j + 1 + n) % S]
    BY <1>5, <2>1
  <2>5. /\ st[(2 * (j - 1) + 0 + o) % S] = [what |-> "y", at |-> now[j - 1]]
        /\ st[(2 * (j - 1) + 1 + o) % S] = [what |-> "s", at |-> now[j - 1]]
        /\ j - 1 > 0 => now[j - 1][2] = now[(j - 1) - 1][1]
    <3>1. j - 1 \in 0 .. l BY <1>3
    <3>2. PairsIn(S, o, l, st, now) BY <1>0
    <3> QED BY ONLY <3>1, <3>2 DEF PairsIn
  <2>6. rn[j] = now[j - 1] BY <1>6
  <2>7. rn[j][2] = IF j = 1 THEN w ELSE rn[j - 1][1]
    <3>1. CASE j = 1
      <4>1. j - 1 = 0 BY ONLY <3>1
      <4> QED BY <1>0, <2>6, <3>1, <4>1
    <3>2. CASE j # 1
      <4>1. j - 1 \in 1 .. k /\ j - 1 > 0 BY <1>3, <3>2
      <4>2. rn[j - 1] = now[(j - 1) - 1] BY <1>6, <4>1
      <4> QED BY <2>5, <2>6, <3>2, <4>1, <4>2
    <3> QED BY <3>1, <3>2
  <2>8. mn[(1 + n) % S].at[1] = w BY <1>5
  <2> QED BY <2>3, <2>4, <2>5, <2>6, <2>7, <2>8
<1>8. mn[(0 + n) % S].at[1] = mn[(1 + n) % S].at[1] BY <1>5
<1> QED BY <1>2, <1>3, <1>5, <1>6, <1>7, <1>8 DEF Ring, MovedWell

-----------------------------------------------------------------------------
(* What is known of the optimizer: its memory is a ring of consecutive     *)
(* pairs, and the gradient, the predictions and the curvature are those    *)
(* of the present weights wherever they are still to be used.              *)
FullPass(w) == [i \in 1 .. NumPerPass |-> <<w, i>>]

PassTypes == [current : Nat, final : Nat, first : BOOLEAN, gradient : BOOLEAN, precond : BOOLEAN]
BfgsTypes ==
  /\ bopt \in [m : Memories, hessian_on : BOOLEAN, l2 : BOOLEAN]
  /\ bpass \in PassTypes
  /\ wver \in Nat /\ exampleNumber \in Nat /\ bread \in BOOLEAN /\ bdone \in BOOLEAN

PassInv ==
  /\ bpass.first => bpass.gradient
  /\ bdone => ~bread
  /\ bpass.gradient \/ ~bread => curvUses = << >>
  /\ bread /\ bpass.gradient => grad = <<wver>> /\ preds = FullPass(wver)
  /\ ~bdone /\ ~bread /\ bpass.gradient => grad = << >> /\ preds = << >>
  /\ ~bdone /\ ~bpass.gradient => grad = << >> /\ preds = FullPass(wver)
  /\ ~bdone /\ ~bread /\ ~bpass.gradient => exampleNumber = 0
  /\ bread /\ ~bpass.gradient => curvUses = FullPass(wver)

MemoryInv ==
  bopt.m > 0 =>
    /\ mem \in [0 .. Stride - 1 -> Cells] /\ rho \in [0 .. bopt.m - 1 -> Nat \X Nat]
    /\ lastj \in 0 .. bopt.m - 1 /\ origin \in 0 .. Stride - 1
    /\ ~bdone /\ ~bpass.first => Ring(Stride, mem, rho, origin, lastj)

BfgsInv == BfgsTypes /\ PassInv /\ MemoryInv /\ PairsConsecutive

(* mem_stride is two cells for each pair.                                  *)
LEMMA StrideIs ==
  ASSUME BfgsTypes, bopt.m > 0 PROVE bopt.m \in Nat /\ bopt.m # 0 /\ Stride = 2 * bopt.m
<1>1. bopt.m \in Nat BY BfgsAssumption DEF BfgsTypes
<1>2. bopt.m # 0 BY <1>1
<1> QED BY <1>1, <1>2 DEF Stride

(* The optimizer starts with nothing accumulated and nothing stored.       *)
LEMMA BfgsInitInv == BfgsInit => BfgsInv
<1> SUFFICES ASSUME BfgsInit PROVE BfgsInv OBVIOUS
<1> USE BfgsAssumption
<1>1. BfgsTypes BY DEF BfgsInit, BfgsTypes, PassTypes
<1>2. PassInv BY DEF BfgsInit, PassInv
<1>3. MemoryInv
  <2> SUFFICES ASSUME bopt.m > 0 
               PROVE  /\ mem \in [0 .. Stride - 1 -> Cells] /\ rho \in [0 .. bopt.m - 1 -> Nat \X Nat]
                      /\ lastj \in 0 .. bopt.m - 1 /\ origin \in 0 .. Stride - 1 /\ bpass.first
    BY DEF MemoryInv
  <2>1. bopt.m \in Nat /\ bopt.m # 0 /\ Stride = 2 * bopt.m BY <1>1, StrideIs
  <2>2. [what |-> "none", at |-> NoPair] \in Cells /\ NoPair \in Nat \X Nat BY DEF Cells, NoPair
  <2>3. mem \in [0 .. Stride - 1 -> Cells] BY <2>2 DEF BfgsInit
  <2>4. rho \in [0 .. bopt.m - 1 -> Nat \X Nat] BY <2>1, <2>2 DEF BfgsInit
  <2>5. lastj \in 0 .. bopt.m - 1 /\ origin \in 0 .. Stride - 1 /\ bpass.first BY <2>1 DEF BfgsInit
  <2> QED BY <2>3, <2>4, <2>5
<1>4. PairsConsecutive BY DEF BfgsInit, PairsConsecutive
<1> QED BY <1>1, <1>2, <1>3, <1>4 DEF BfgsInv

(* A pass over the examples accumulates at the present weights.            *)
LEMMA ReadPassInv == BfgsInv /\ ReadPass => BfgsInv'
<1> SUFFICES ASSUME BfgsInv, ReadPass PROVE BfgsInv' OBVIOUS
<1> USE BfgsAssumption
<1>0. BfgsTypes /\ PassInv /\ MemoryInv /\ PairsConsecutive BY DEF BfgsInv
<1>1. BfgsTypes'
  <2>1. exampleNumber' \in Nat BY <1>0 DEF ReadPass, BfgsTypes, PassTypes
  <2> QED BY <1>0, <2>1 DEF ReadPass, BfgsTypes, PassTypes
<1>2. PassInv'
  <2>0. ~bread /\ ~bdone /\ bread' /\ ~bdone' /\ bpass' = bpass /\ wver' = wver BY DEF ReadPass
  <2>1. CASE bpass.gradient
    <3>1. grad = << >> /\ preds = << >> /\ curvUses = << >> BY <1>0, <2>0, <2>1 DEF PassInv
    <3>2. grad' = Append(grad, wver) /\ preds' = preds \o FullPass(wver) /\ curvUses' = curvUses
      BY <2>1 DEF ReadPass, FullPass
    <3>3. grad' = <<wver>> BY <3>1, <3>2
    <3>4. FullPass(wver) \in Seq(Nat \X Nat) BY <1>0 DEF FullPass, BfgsTypes
    <3>5. preds' = FullPass(wver) BY <3>1, <3>2, <3>4
    <3> QED BY <1>0, <2>0, <2>1, <3>1, <3>2, <3>3, <3>5 DEF PassInv, FullPass
  <2>2. CASE ~bpass.gradient
    <3>1. grad = << >> /\ preds = FullPass(wver) /\ exampleNumber = 0 BY <1>0, <2>0, <2>2 DEF PassInv
    <3>2. Len(preds) = NumPerPass BY <3>1 DEF FullPass
    <3>3. grad' = grad /\ preds' = preds /\ curvUses' = [i \in 1 .. NumPerPass |->
                     LET k == exampleNumber + i IN preds[IF k > Len(preds) THEN Len(preds) ELSE k]]
      BY <2>2 DEF ReadPass
    <3>4. \A i \in 1 .. NumPerPass : (LET k == exampleNumber + i IN preds[IF k > Len(preds) THEN Len(preds) ELSE k]) = <<wver, i>>
      BY <3>1, <3>2 DEF FullPass
    <3>5. curvUses' = FullPass(wver) BY <3>3, <3>4 DEF FullPass
    <3> QED BY <1>0, <2>0, <2>2, <3>1, <3>3, <3>5 DEF PassInv, FullPass
  <2> QED BY <2>1, <2>2
<1>3. MemoryInv' BY <1>0 DEF ReadPass, MemoryInv, Stride
<1>4. PairsConsecutive' BY <1>0 DEF ReadPass, PairsConsecutive
<1> QED BY <1>1, <1>2, <1>3, <1>4 DEF BfgsInv

(* The parts of the end of a pass that all cases share.                    *)
PassEnded(status) ==
  /\ ~bdone /\ bpass.current < bpass.final /\ bread /\ bread' = FALSE
  /\ bdone' = (status # "ok" \/ bpass.current + 1 = bpass.final)
  /\ bopt' = bopt

(* After the first pass the curvature of the present weights is next.      *)
LEMMA FirstPassInv == BfgsInv /\ EndPassWith(FirstPass) => BfgsInv'
<1> SUFFICES ASSUME BfgsInv, NEW status \in {"ok", "conv", "curv"}, PassEnded(status), FirstPass(status) PROVE BfgsInv'
  BY DEF EndPassWith, PassEnded
<1> USE BfgsAssumption
<1>0. BfgsTypes /\ PassInv /\ MemoryInv /\ PairsConsecutive BY DEF BfgsInv
<1>1. BfgsTypes'
  <2>1. bpass.current \in Nat /\ bpass \in PassTypes /\ wver \in Nat /\ exampleNumber \in Nat BY <1>0 DEF BfgsTypes, PassTypes
  <2>2. bpass' \in PassTypes
    <3>1. bpass.current + 1 \in Nat BY <2>1
    <3> QED BY <2>1, <3>1 DEF FirstPass, PassTypes
  <2>3. wver' \in Nat /\ exampleNumber' \in Nat BY <2>1 DEF FirstPass
  <2>4. bopt' \in [m : Memories, hessian_on : BOOLEAN, l2 : BOOLEAN] BY <1>0 DEF BfgsTypes, PassEnded
  <2>5. bread' \in BOOLEAN /\ bdone' \in BOOLEAN BY Zenon DEF PassEnded
  <2> QED BY <2>2, <2>3, <2>4, <2>5 DEF BfgsTypes, PassTypes
<1>2. PassInv'
  <2>1. bread /\ bpass.gradient /\ ~bread' /\ ~bpass'.gradient /\ ~bpass'.first
    BY <1>0 DEF PassEnded, FirstPass, BfgsTypes, PassTypes, PassInv
  <2>2. grad' = << >> /\ preds' = preds /\ wver' = wver /\ exampleNumber' = 0 /\ curvUses' = << >>
    BY DEF FirstPass, IterStart
  <2> QED BY <1>0, <2>1, <2>2 DEF PassInv, FullPass
<1>3. MemoryInv'
  <2> SUFFICES ASSUME bopt.m > 0
               PROVE  /\ mem' \in [0 .. Stride - 1 -> Cells] /\ rho' \in [0 .. bopt.m - 1 -> Nat \X Nat]
                      /\ lastj' \in 0 .. bopt.m - 1 /\ origin' \in 0 .. Stride - 1
                      /\ Ring(Stride, mem', rho', origin', lastj')
    BY DEF MemoryInv, PassEnded, Stride
  <2>1. bopt.m \in Nat /\ bopt.m # 0 /\ Stride = 2 * bopt.m BY <1>0, StrideIs
  <2>2. mem \in [0 .. Stride - 1 -> Cells] /\ rho \in [0 .. bopt.m - 1 -> Nat \X Nat] BY <1>0 DEF MemoryInv
  <2>3. origin' = 0 /\ lastj' = 0 /\ rho' = rho BY DEF FirstPass, IterStart
  <2>4. 0 \in 0 .. Stride - 1 /\ 1 \in 0 .. Stride - 1 /\ 0 \in 0 .. bopt.m - 1 /\ Stride \in Nat /\ Stride > 1
    BY ONLY <2>1
  <2>5. (0 + 0) % Stride = 0 /\ (1 + 0) % Stride = 1
    <3>1. 0 % Stride = 0 /\ 1 % Stride = 1 BY ONLY <2>4
    <3> QED BY ONLY <3>1
  <2>6. mem' = [i \in 0 .. Stride - 1 |->
                 IF i = 0 THEN [what |-> "g", at |-> <<wver, wver>>]
                 ELSE IF i = 1 THEN [what |-> "x", at |-> <<wver, wver>>] ELSE mem[i]]
    <3>1. mem' = [i \in DOMAIN mem |->
                 IF i = (0 + 0) % Stride THEN [what |-> "g", at |-> <<wver, wver>>]
                 ELSE IF bopt.m > 0 /\ i = (1 + 0) % Stride THEN [what |-> "x", at |-> <<wver, wver>>] ELSE mem[i]]
      BY DEF FirstPass, IterStart, At, GT, XT
    <3> QED BY ONLY <2>2, <2>5, <3>1, bopt.m > 0
  <2>7. [what |-> "g", at |-> <<wver, wver>>] \in Cells /\ [what |-> "x", at |-> <<wver, wver>>] \in Cells
    BY <1>0 DEF Cells, BfgsTypes
  <2>8. mem' \in [0 .. Stride - 1 -> Cells] BY ONLY <2>2, <2>6, <2>7
  <2>9. mem'[0].at[1] = mem'[1].at[1] BY ONLY <2>4, <2>6
  <2>10. Ring(Stride, mem', rho', 0, 0)
    <3>1. mem'[(0 + 0) % Stride].at[1] = mem'[(1 + 0) % Stride].at[1] BY ONLY <2>5, <2>9
    <3>2. 1 .. 0 = {} OBVIOUS
    <3> QED BY ONLY <3>1, <3>2 DEF Ring
  <2> QED BY ONLY <2>2, <2>3, <2>4, <2>8, <2>10
<1>4. PairsConsecutive' BY <1>0 DEF FirstPass, IterStart, PairsConsecutive
<1> QED BY <1>1, <1>2, <1>3, <1>4 DEF BfgsInv

(* Half a step back and a found minimum leave the memory alone.            *)
LEMMA MinimumFoundInv == BfgsInv /\ EndPassWith(MinimumFound) => BfgsInv'
<1> SUFFICES ASSUME BfgsInv, NEW status \in {"ok", "conv", "curv"}, PassEnded(status), MinimumFound(status) PROVE BfgsInv'
  BY DEF EndPassWith, PassEnded
<1> USE BfgsAssumption
<1>0. BfgsTypes /\ PassInv /\ MemoryInv /\ PairsConsecutive BY DEF BfgsInv
<1>1. BfgsTypes'
  <2>1. bpass.current \in Nat /\ bpass \in PassTypes /\ wver \in Nat /\ exampleNumber \in Nat BY <1>0 DEF BfgsTypes, PassTypes
  <2>2. bpass' \in PassTypes
    <3>1. bpass.current + 1 \in Nat BY <2>1
    <3> QED BY <2>1, <3>1 DEF MinimumFound, PassTypes
  <2>3. wver' \in Nat /\ exampleNumber' \in Nat BY <2>1 DEF MinimumFound
  <2>4. bopt' \in [m : Memories, hessian_on : BOOLEAN, l2 : BOOLEAN] BY <1>0 DEF BfgsTypes, PassEnded
  <2>5. bread' \in BOOLEAN /\ bdone' \in BOOLEAN BY Zenon DEF PassEnded
  <2> QED BY <2>2, <2>3, <2>4, <2>5 DEF BfgsTypes, PassTypes
<1>2. bdone' /\ ~bread' /\ bpass'.gradient /\ ~bpass'.first /\ bpass.gradient /\ curvUses' = curvUses
  BY <1>0 DEF PassEnded, MinimumFound, BfgsTypes, PassTypes
<1>3. PassInv' BY <1>0, <1>2 DEF PassInv
<1>4. MemoryInv' BY <1>0, <1>2 DEF MemoryInv, MinimumFound, PassEnded, Stride
<1>5. PairsConsecutive' BY <1>0 DEF MinimumFound, PairsConsecutive
<1> QED BY <1>1, <1>3, <1>4, <1>5 DEF BfgsInv

(* After half a step back the gradient is accumulated anew.                *)
LEMMA StepBackInv == BfgsInv /\ EndPassWith(StepBack) => BfgsInv'
<1> SUFFICES ASSUME BfgsInv, NEW status \in {"ok", "conv", "curv"}, PassEnded(status), StepBack(status) PROVE BfgsInv'
  BY DEF EndPassWith, PassEnded
<1> USE BfgsAssumption
<1>0. BfgsTypes /\ PassInv /\ MemoryInv /\ PairsConsecutive BY DEF BfgsInv
<1>1. BfgsTypes'
  <2>1. bpass.current \in Nat /\ bpass \in PassTypes /\ wver \in Nat /\ exampleNumber \in Nat BY <1>0 DEF BfgsTypes, PassTypes
  <2>2. bpass' \in PassTypes
    <3>1. bpass.current + 1 \in Nat BY <2>1
    <3> QED BY <2>1, <3>1 DEF StepBack, PassTypes
  <2>3. wver' \in Nat /\ exampleNumber' \in Nat BY <2>1 DEF StepBack, Moved
  <2>4. bopt' \in [m : Memories, hessian_on : BOOLEAN, l2 : BOOLEAN] BY <1>0 DEF BfgsTypes, PassEnded
  <2>5. bread' \in BOOLEAN /\ bdone' \in BOOLEAN BY Zenon DEF PassEnded
  <2> QED BY <2>2, <2>3, <2>4, <2>5 DEF BfgsTypes, PassTypes
<1>2. /\ ~bread' /\ bpass'.gradient /\ ~bpass'.first /\ ~bpass.first /\ bpass.gradient /\ curvUses' = curvUses
      /\ grad' = << >> /\ preds' = << >> /\ ~bdone
  BY <1>0 DEF PassEnded, StepBack, BfgsTypes, PassTypes
<1>3. PassInv' BY <1>0, <1>2 DEF PassInv
<1>4. MemoryInv' BY <1>0, <1>2 DEF MemoryInv, StepBack, PassEnded, Stride
<1>5. PairsConsecutive' BY <1>0 DEF StepBack, PairsConsecutive
<1> QED BY <1>1, <1>3, <1>4, <1>5 DEF BfgsInv

(* When the curvature is known the next gradient starts from nothing.      *)
LEMMA CurvatureKnownInv == BfgsInv /\ EndPassWith(CurvatureKnown) => BfgsInv'
<1> SUFFICES ASSUME BfgsInv, NEW status \in {"ok", "conv", "curv"}, PassEnded(status), CurvatureKnown(status) PROVE BfgsInv'
  BY DEF EndPassWith, PassEnded
<1> USE BfgsAssumption
<1>0. BfgsTypes /\ PassInv /\ MemoryInv /\ PairsConsecutive BY DEF BfgsInv
<1>1. BfgsTypes'
  <2>1. bpass.current \in Nat /\ bpass \in PassTypes /\ wver \in Nat /\ exampleNumber \in Nat BY <1>0 DEF BfgsTypes, PassTypes
  <2>2. bpass' \in PassTypes
    <3>1. bpass.current + 1 \in Nat BY <2>1
    <3> QED BY <2>1, <3>1 DEF CurvatureKnown, PassTypes
  <2>3. wver' \in Nat /\ exampleNumber' \in Nat BY <2>1 DEF CurvatureKnown, Moved
  <2>4. bopt' \in [m : Memories, hessian_on : BOOLEAN, l2 : BOOLEAN] BY <1>0 DEF BfgsTypes, PassEnded
  <2>5. bread' \in BOOLEAN /\ bdone' \in BOOLEAN BY Zenon DEF PassEnded
  <2> QED BY <2>2, <2>3, <2>4, <2>5 DEF BfgsTypes, PassTypes
<1>2. /\ ~bread' /\ bpass'.gradient /\ ~bpass'.first /\ ~bpass.first /\ ~bpass.gradient /\ curvUses' = << >>
      /\ grad' = grad /\ preds' = << >> /\ ~bdone
  BY <1>0 DEF PassEnded, CurvatureKnown, BfgsTypes, PassTypes
<1>3. PassInv' BY <1>0, <1>2 DEF PassInv
<1>4. MemoryInv' BY <1>0, <1>2 DEF MemoryInv, CurvatureKnown, PassEnded, Stride
<1>5. PairsConsecutive' BY <1>0 DEF CurvatureKnown, PairsConsecutive
<1> QED BY <1>1, <1>3, <1>4, <1>5 DEF BfgsInv

(* The pair of a step starts at the point of the memory and ends at the    *)
(* present weights.                                                        *)
LEMMA PairIsStep ==
  ASSUME BfgsInv, bopt.m > 0, ~bdone, ~bpass.first, bread, bpass.gradient,
         NEW v, v = PointOf(Stride, mem, origin)
  PROVE  /\ PairS.at = <<v, wver>> /\ PairStored = PairIn(Stride, mem, origin, <<v, wver>>)
         /\ Ring(Stride, mem, rho, origin, lastj)
<1>0. BfgsTypes /\ PassInv /\ MemoryInv BY DEF BfgsInv
<1>1. Ring(Stride, mem, rho, origin, lastj) BY <1>0 DEF MemoryInv
<1>2. PairS = [what |-> "s", at |-> <<v, wver>>] BY DEF PairS, At, XT, PointOf
<1>3. mem[(0 + origin) % Stride].at[1] = v BY <1>1 DEF Ring, PointOf
<1>4. grad = <<wver>> BY <1>0 DEF PassInv
<1>5. (IF grad = << >> THEN 0 ELSE grad[Len(grad)]) = wver BY ONLY <1>4
<1>6. PairY = [what |-> "y", at |-> <<v, wver>>] BY <1>3, <1>5 DEF PairY, At, GT
<1>7. PairStored = PairIn(Stride, mem, origin, <<v, wver>>) BY <1>2, <1>6 DEF PairStored, PairIn, PutTwo, At, YT, ST
<1> QED BY <1>1, <1>2, <1>7

(* bfgs_iter_middle combines consecutive pairs and leaves a ring of them.  *)
LEMMA IterMiddleInv ==
  ASSUME BfgsInv, bopt.m > 0, ~bdone, ~bpass.first, bread, bpass.gradient, IterMiddle
  PROVE  /\ mem' \in [0 .. Stride - 1 -> Cells] /\ rho' \in [0 .. bopt.m - 1 -> Nat \X Nat]
         /\ lastj' \in 0 .. bopt.m - 1 /\ origin' \in 0 .. Stride - 1
         /\ Ring(Stride, mem', rho', origin', lastj') /\ PairsConsecutive' /\ grad' = << >>
<1> DEFINE v == PointOf(Stride, mem, origin)
           st == PairIn(Stride, mem, origin, <<v, wver>>)
           now == WithPair(rho, <<v, wver>>)
           n == (origin + Stride - 2) % Stride
           k == Longer(lastj, bopt.m)
<1>0. BfgsTypes /\ PassInv /\ MemoryInv BY DEF BfgsInv
<1>1. bopt.m \in Nat /\ bopt.m # 0 /\ Stride = 2 * bopt.m BY <1>0, StrideIs
<1>2. /\ mem \in [0 .. Stride - 1 -> Cells] /\ rho \in [0 .. bopt.m - 1 -> Nat \X Nat]
      /\ lastj \in 0 .. bopt.m - 1 /\ origin \in 0 .. Stride - 1 /\ wver \in Nat
  BY <1>0 DEF MemoryInv, BfgsTypes
<1>3. PairS.at = <<v, wver>> /\ PairStored = st /\ Ring(Stride, mem, rho, origin, lastj) BY PairIsStep
<1>4. /\ pairsUsed' = [j \in 1 .. lastj + 1 |->
                 [y |-> st[(2 * (j - 1) + 0 + origin) % Stride], s |-> st[(2 * (j - 1) + 1 + origin) % Stride],
                  rho |-> IF j - 1 \in DOMAIN now THEN now[j - 1] ELSE NoPair]]
      /\ lastj' = k /\ origin' = n
      /\ mem' = PointIn(Stride, st, n, wver)
      /\ rho' = [j \in DOMAIN rho |-> IF j \in 1 .. k THEN now[j - 1] ELSE now[j]]
      /\ grad' = << >>
  <2>1. ~(bopt.m = 0) BY <1>1
  <2> HIDE DEF v, st
  <2> QED BY <1>3, <2>1 DEF IterMiddle, NextLast, NextOrigin, Longer, PointIn, PutTwo, At, GT, XT, YT, ST, WithPair
<1>5. rho' = ShiftedBy(now, k)
  <2>1. DOMAIN now = DOMAIN rho BY DEF WithPair
  <2> HIDE DEF now, k
  <2> QED BY <1>4, <2>1 DEF ShiftedBy
<1>6. /\ st \in [0 .. Stride - 1 -> Cells] /\ now \in [0 .. bopt.m - 1 -> Nat \X Nat] /\ now[0] = <<v, wver>> /\ v \in Nat
      /\ PairsIn(Stride, origin, lastj, st, now)
  <2>1. StoredWell(bopt.m, Stride, origin, lastj, st, now, v, wver) BY ONLY <1>1, <1>2, <1>3, bopt.m > 0, PairsStored
  <2> HIDE DEF v, st, now
  <2> QED BY ONLY <2>1 DEF StoredWell
<1> HIDE DEF v, st, now
<1>7. /\ Ring(Stride, mem', rho', n, k) /\ mem' \in [0 .. Stride - 1 -> Cells] /\ rho' \in [0 .. bopt.m - 1 -> Nat \X Nat]
      /\ n \in 0 .. Stride - 1 /\ k \in 0 .. bopt.m - 1
  <2> HIDE DEF n, k
  <2>1. n = (origin + Stride - 2) % Stride /\ k = Longer(lastj, bopt.m) BY DEF n, k
  <2>2. mem' = PointIn(Stride, st, n, wver) /\ rho' = ShiftedBy(now, k) BY <1>4, <1>5
  <2>3. StoredWell(bopt.m, Stride, origin, lastj, st, now, v, wver) BY ONLY <1>6 DEF StoredWell
  <2>4. MovedWell(bopt.m, Stride, mem', rho', n, k) BY ONLY <1>1, <1>2, <2>1, <2>2, <2>3, bopt.m > 0, RingMoved
  <2> QED BY ONLY <2>4 DEF MovedWell
<1>8. PairsConsecutive'
  <2> SUFFICES ASSUME NEW j \in 1 .. lastj + 1
               PROVE  /\ pairsUsed'[j].y.what = "y" /\ pairsUsed'[j].s.what = "s"
                      /\ pairsUsed'[j].y.at = pairsUsed'[j].s.at /\ pairsUsed'[j].rho = pairsUsed'[j].s.at
                      /\ j > 1 => pairsUsed'[j].s.at[2] = pairsUsed'[j - 1].s.at[1]
    BY <1>4 DEF PairsConsecutive
  <2>1. DOMAIN now = 0 .. bopt.m - 1 BY <1>6
  <2>2. ASSUME NEW i \in 1 .. lastj + 1
        PROVE  /\ i - 1 \in 0 .. lastj
               /\ pairsUsed'[i].y.what = "y" /\ pairsUsed'[i].s.what = "s"
               /\ pairsUsed'[i].y.at = now[i - 1] /\ pairsUsed'[i].s.at = now[i - 1] /\ pairsUsed'[i].rho = now[i - 1]
    <3>1. i - 1 \in 0 .. lastj /\ i - 1 \in 0 .. bopt.m - 1 BY ONLY <1>1, <1>2, i \in 1 .. lastj + 1
    <3>2. pairsUsed'[i] = [y |-> st[(2 * (i - 1) + 0 + origin) % Stride], s |-> st[(2 * (i - 1) + 1 + origin) % Stride],
                           rho |-> IF i - 1 \in DOMAIN now THEN now[i - 1] ELSE NoPair]
      BY ONLY <1>4, i \in 1 .. lastj + 1
    <3>3. /\ st[(2 * (i - 1) + 0 + origin) % Stride] = [what |-> "y", at |-> now[i - 1]]
          /\ st[(2 * (i - 1) + 1 + origin) % Stride] = [what |-> "s", at |-> now[i - 1]]
      BY ONLY <1>6, <3>1 DEF PairsIn
    <3> QED BY ONLY <2>1, <3>1, <3>2, <3>3
  <2>3. j > 1 => now[j - 1][2] = now[(j - 1) - 1][1]
    <3> SUFFICES ASSUME j > 1 PROVE now[j - 1][2] = now[(j - 1) - 1][1] OBVIOUS
    <3>1. j - 1 \in 0 .. lastj /\ j - 1 > 0 BY ONLY <1>2, j \in 1 .. lastj + 1, j > 1
    <3> QED BY ONLY <1>6, <3>1 DEF PairsIn
  <2>4. j > 1 => j - 1 \in 1 .. lastj + 1 BY ONLY <1>2, j \in 1 .. lastj + 1
  <2>5. /\ pairsUsed'[j].y.what = "y" /\ pairsUsed'[j].s.what = "s"
        /\ pairsUsed'[j].y.at = pairsUsed'[j].s.at /\ pairsUsed'[j].rho = pairsUsed'[j].s.at /\ pairsUsed'[j].s.at = now[j - 1]
    BY ONLY <2>2, j \in 1 .. lastj + 1
  <2>6. j > 1 => pairsUsed'[j - 1].s.at = now[(j - 1) - 1] BY ONLY <2>2, <2>4
  <2> QED BY ONLY <2>3, <2>5, <2>6
<1> QED BY <1>4, <1>7, <1>8

(* A new direction: from a step of the ring, or, for want of curvature,    *)
(* the end.                                                                *)
LEMMA NewDirectionInv == BfgsInv /\ EndPassWith(NewDirection) => BfgsInv'
<1> SUFFICES ASSUME BfgsInv, NEW status \in {"ok", "conv", "curv"}, PassEnded(status), NewDirection(status) PROVE BfgsInv'
  BY DEF EndPassWith, PassEnded
<1> USE BfgsAssumption
<1>0. BfgsTypes /\ PassInv /\ MemoryInv /\ PairsConsecutive BY DEF BfgsInv
<1>1. BfgsTypes'
  <2>1. bpass.current \in Nat /\ bpass \in PassTypes /\ wver \in Nat /\ exampleNumber \in Nat /\ bopt.hessian_on \in BOOLEAN
    BY <1>0 DEF BfgsTypes, PassTypes
  <2>2. bpass' \in PassTypes
    <3>1. bpass.current + 1 \in Nat BY <2>1
    <3> QED BY <2>1, <3>1 DEF NewDirection, PassTypes
  <2>3. wver' \in Nat /\ exampleNumber' \in Nat BY <2>1 DEF NewDirection, Moved
  <2>4. bopt' \in [m : Memories, hessian_on : BOOLEAN, l2 : BOOLEAN] BY <1>0 DEF BfgsTypes, PassEnded
  <2>5. bread' \in BOOLEAN /\ bdone' \in BOOLEAN BY Zenon DEF PassEnded
  <2> QED BY <2>2, <2>3, <2>4, <2>5 DEF BfgsTypes, PassTypes
<1>2. /\ ~bread' /\ ~bdone /\ bread /\ bpass.gradient /\ ~bpass.first /\ bpass'.first = bpass.first
      /\ bpass'.gradient = ~bopt.hessian_on /\ curvUses' = << >> /\ exampleNumber' = 0 /\ bopt' = bopt
      /\ IF bopt.hessian_on THEN wver' = wver /\ preds' = preds ELSE preds' = << >>
  BY <1>0 DEF PassEnded, NewDirection, BfgsTypes, PassTypes
<1>3. ASSUME grad' = << >> \/ bdone' PROVE PassInv' BY <1>0, <1>2, <1>3 DEF PassInv, FullPass
<1>4. CASE IterMiddle
  <2>1. CASE bopt.m > 0
    <3>1. /\ mem' \in [0 .. Stride - 1 -> Cells] /\ rho' \in [0 .. bopt.m - 1 -> Nat \X Nat]
          /\ lastj' \in 0 .. bopt.m - 1 /\ origin' \in 0 .. Stride - 1
          /\ Ring(Stride, mem', rho', origin', lastj') /\ PairsConsecutive' /\ grad' = << >>
      BY <1>2, <1>4, <2>1, IterMiddleInv
    <3>2. Stride' = Stride BY <1>2 DEF Stride
    <3>3. MemoryInv' BY <1>2, <3>1, <3>2 DEF MemoryInv
    <3> QED BY <1>1, <1>3, <3>1, <3>3 DEF BfgsInv
  <2>2. CASE ~(bopt.m > 0)
    <3>0. bopt.m \in Nat BY <1>0 DEF BfgsTypes
    <3>1. bopt.m = 0 BY ONLY <2>2, <3>0
    <3>2. grad' = << >> /\ pairsUsed' = pairsUsed BY <1>4, <3>1 DEF IterMiddle
    <3>3. MemoryInv' BY <1>2, <2>2 DEF MemoryInv
    <3>4. PairsConsecutive' BY <1>0, <3>2 DEF PairsConsecutive
    <3> QED BY <1>1, <1>3, <3>2, <3>3, <3>4 DEF BfgsInv
  <2> QED BY <2>1, <2>2
<1>5. CASE bopt.m > 0 /\ status = "curv" /\ mem' = PairStored /\ UNCHANGED <<grad, rho, lastj, origin, pairsUsed>>
  <2> DEFINE v == PointOf(Stride, mem, origin)
  <2>1. bdone' BY <1>5 DEF PassEnded
  <2>2. bopt.m \in Nat /\ bopt.m # 0 /\ Stride = 2 * bopt.m BY <1>0, <1>5, StrideIs
  <2>3. /\ mem \in [0 .. Stride - 1 -> Cells] /\ rho \in [0 .. bopt.m - 1 -> Nat \X Nat]
        /\ lastj \in 0 .. bopt.m - 1 /\ origin \in 0 .. Stride - 1 /\ wver \in Nat
    BY <1>0, <1>5 DEF MemoryInv, BfgsTypes
  <2>4. mem' = PairIn(Stride, mem, origin, <<v, wver>>) /\ Ring(Stride, mem, rho, origin, lastj)
    BY <1>2, <1>5, PairIsStep
  <2>5. mem' \in [0 .. Stride - 1 -> Cells]
    <3>1. bopt.m > 0 BY <1>5
    <3>2. StoredWell(bopt.m, Stride, origin, lastj, mem', WithPair(rho, <<v, wver>>), v, wver)
      BY ONLY <2>2, <2>3, <2>4, <3>1, PairsStored
    <3> QED BY ONLY <3>2 DEF StoredWell
  <2>6. Stride' = Stride BY <1>2 DEF Stride
  <2>7. MemoryInv' BY <1>2, <1>5, <2>1, <2>3, <2>5, <2>6 DEF MemoryInv
  <2>8. PairsConsecutive' BY <1>0, <1>5 DEF PairsConsecutive
  <2> QED BY <1>1, <1>3, <2>1, <2>7, <2>8 DEF BfgsInv
<1> QED BY <1>4, <1>5 DEF NewDirection

(* Every step of bfgs.                                                     *)
LEMMA BfgsStep == BfgsInv /\ [BfgsNext]_bfgsVars => BfgsInv'
<1> SUFFICES ASSUME BfgsInv, [BfgsNext]_bfgsVars PROVE BfgsInv' OBVIOUS
<1>1. CASE BfgsNext
  BY <1>1, ReadPassInv, FirstPassInv, MinimumFoundInv, StepBackInv, NewDirectionInv, CurvatureKnownInv DEF BfgsNext
<1>2. CASE UNCHANGED bfgsVars
  <2>1. BfgsTypes' /\ PassInv' BY <1>2 DEF bfgsVars, BfgsInv, BfgsTypes, PassInv, FullPass
  <2>2. MemoryInv' BY <1>2 DEF bfgsVars, BfgsInv, MemoryInv, Stride
  <2>3. PairsConsecutive' BY <1>2 DEF bfgsVars, BfgsInv, PairsConsecutive
  <2> QED BY <2>1, <2>2, <2>3 DEF BfgsInv
<1> QED BY <1>1, <1>2

(* What the invariant says of the steps.                                   *)
LEMMA BfgsGood == BfgsInv => GradientFresh /\ PairsConsecutive /\ CurvatureOfThisPoint
BY DEF BfgsInv, PassInv, GradientFresh, CurvatureOfThisPoint, FullPass

(* Each step of bfgs uses numbers that belong together: the gradient of    *)
(* the weights as they are, pairs of consecutive accepted steps, and the   *)
(* curvature from each example's own prediction; for any memory, number of *)
(* passes, examples and outcome of the line searches.                      *)
THEOREM BfgsStepsRight == BfgsSpec => [](GradientFresh /\ PairsConsecutive /\ CurvatureOfThisPoint)
<1> QED BY BfgsInitInv, BfgsStep, BfgsGood, PTL DEF BfgsSpec

-----------------------------------------------------------------------------
(* kernel_svm.                                                             *)

(* A prefix, position by position.                                         *)
LEMMA PrefixIs ==
  ASSUME NEW T, NEW s \in Seq(T), NEW t \in Seq(T)
  PROVE  IsPrefix(s, t) <=> Len(s) <= Len(t) /\ \A k \in 1 .. Len(s) : s[k] = t[k]
<1>1. CASE Len(s) <= Len(t)
  <2>1. /\ SubSeq(s, 1, Len(s)) \in Seq(T) /\ Len(SubSeq(s, 1, Len(s))) = Len(s)
        /\ \A k \in 1 .. Len(s) : SubSeq(s, 1, Len(s))[k] = s[k]
    OBVIOUS
  <2>2. /\ SubSeq(t, 1, Len(s)) \in Seq(T) /\ Len(SubSeq(t, 1, Len(s))) = Len(s)
        /\ \A k \in 1 .. Len(s) : SubSeq(t, 1, Len(s))[k] = t[k]
    BY <1>1
  <2>3. SubSeq(s, 1, Len(s)) = SubSeq(t, 1, Len(s)) <=> \A k \in 1 .. Len(s) : s[k] = t[k]
    <3>1. ASSUME \A k \in 1 .. Len(s) : s[k] = t[k] PROVE SubSeq(s, 1, Len(s)) = SubSeq(t, 1, Len(s))
      BY <2>1, <2>2, <3>1
    <3> QED BY <2>1, <2>2, <3>1
  <2> QED BY <1>1, <2>3 DEF IsPrefix
<1>2. CASE ~(Len(s) <= Len(t)) BY <1>2 DEF IsPrefix
<1> QED BY <1>1, <1>2

(* Removing a position.                                                    *)
LEMMA RemoveAtIs ==
  ASSUME NEW T, NEW s \in Seq(T), NEW i \in 1 .. Len(s)
  PROVE  /\ RemoveAt(s, i) \in Seq(T) /\ Len(RemoveAt(s, i)) = Len(s) - 1
         /\ \A k \in 1 .. Len(s) - 1 : RemoveAt(s, i)[k] = IF k < i THEN s[k] ELSE s[k + 1]
<1> DEFINE a == SubSeq(s, 1, i - 1)
           b == SubSeq(s, i + 1, Len(s))
<1>1. a \in Seq(T) /\ Len(a) = i - 1 /\ \A k \in 1 .. i - 1 : a[k] = s[k] OBVIOUS
<1>2. b \in Seq(T) /\ Len(b) = Len(s) - i /\ \A k \in 1 .. Len(s) - i : b[k] = s[k + i] OBVIOUS
<1>3. RemoveAt(s, i) = a \o b BY DEF RemoveAt
<1>4. Len(s) \in Nat OBVIOUS
<1> HIDE DEF a, b
<1>5. RemoveAt(s, i) \in Seq(T) /\ Len(RemoveAt(s, i)) = Len(s) - 1 BY <1>1, <1>2, <1>3, <1>4
<1>6. ASSUME NEW k \in 1 .. Len(s) - 1 PROVE RemoveAt(s, i)[k] = IF k < i THEN s[k] ELSE s[k + 1]
  <2>1. RemoveAt(s, i)[k] = IF k <= i - 1 THEN a[k] ELSE b[k - (i - 1)] BY <1>1, <1>2, <1>3, <1>4
  <2>2. CASE k < i
    <3>1. k \in 1 .. i - 1 /\ k <= i - 1 BY <2>2
    <3> QED BY <1>1, <2>1, <2>2, <3>1
  <2>3. CASE ~(k < i)
    <3>1. k - (i - 1) \in 1 .. Len(s) - i /\ (k - (i - 1)) + i = k + 1 /\ ~(k <= i - 1) BY <1>4, <2>3
    <3> QED BY <1>2, <2>1, <2>3, <3>1
  <2> QED BY <2>2, <2>3
<1> QED BY <1>5, <1>6

(* Moving a position to the front.                                         *)
LEMMA MovedIs ==
  ASSUME NEW T, NEW s \in Seq(T), NEW i \in 1 .. Len(s)
  PROVE  /\ MovedToFront(s, i) \in Seq(T) /\ Len(MovedToFront(s, i)) = Len(s)
         /\ \A k \in 1 .. Len(s) : MovedToFront(s, i)[k] = IF k = 1 THEN s[i] ELSE IF k <= i THEN s[k - 1] ELSE s[k]
<1>1. /\ RemoveAt(s, i) \in Seq(T) /\ Len(RemoveAt(s, i)) = Len(s) - 1
      /\ \A k \in 1 .. Len(s) - 1 : RemoveAt(s, i)[k] = IF k < i THEN s[k] ELSE s[k + 1]
  BY RemoveAtIs
<1>2. <<s[i]>> \in Seq(T) /\ Len(<<s[i]>>) = 1 /\ <<s[i]>>[1] = s[i] OBVIOUS
<1>3. MovedToFront(s, i) \in Seq(T) /\ Len(MovedToFront(s, i)) = Len(s) BY <1>1, <1>2 DEF MovedToFront
<1>4. ASSUME NEW k \in 1 .. Len(s)
      PROVE  MovedToFront(s, i)[k] = IF k = 1 THEN s[i] ELSE IF k <= i THEN s[k - 1] ELSE s[k]
  <2>1. MovedToFront(s, i)[k] = IF k <= 1 THEN <<s[i]>>[k] ELSE RemoveAt(s, i)[k - 1] BY <1>1, <1>2 DEF MovedToFront
  <2>2. CASE k = 1 BY <1>2, <2>1, <2>2
  <2>3. CASE k # 1
    <3>1. k - 1 \in 1 .. Len(s) - 1 /\ (k - 1 < i <=> k <= i) /\ (k - 1) + 1 = k /\ ~(k <= 1) BY <2>3
    <3> QED BY <1>1, <2>1, <2>3, <3>1
  <2> QED BY <2>2, <2>3
<1> QED BY <1>3, <1>4

(* A row that fits before a position is removed, or moved to the front,    *)
(* fits afterwards.                                                        *)
LEMMA RowRemoved ==
  ASSUME NEW T, NEW s \in Seq(T), NEW t \in Seq(T), IsPrefix(s, t), NEW i \in 1 .. Len(t),
         NEW u, u = IF i <= Len(s) THEN RemoveAt(s, i) ELSE s
  PROVE  u \in Seq(T) /\ IsPrefix(u, RemoveAt(t, i))
<1>1. Len(s) <= Len(t) /\ \A k \in 1 .. Len(s) : s[k] = t[k] BY PrefixIs
<1>2. /\ RemoveAt(t, i) \in Seq(T) /\ Len(RemoveAt(t, i)) = Len(t) - 1
      /\ \A k \in 1 .. Len(t) - 1 : RemoveAt(t, i)[k] = IF k < i THEN t[k] ELSE t[k + 1]
  BY RemoveAtIs
<1>3. Len(s) \in Nat /\ Len(t) \in Nat OBVIOUS
<1>4. CASE i <= Len(s)
  <2>1. i \in 1 .. Len(s) BY <1>4
  <2>2. /\ u \in Seq(T) /\ Len(u) = Len(s) - 1
        /\ \A k \in 1 .. Len(s) - 1 : u[k] = IF k < i THEN s[k] ELSE s[k + 1]
    BY <1>4, <2>1, RemoveAtIs
  <2>3. ASSUME NEW k \in 1 .. Len(u) PROVE u[k] = RemoveAt(t, i)[k]
    <3>1. k \in 1 .. Len(s) - 1 /\ k \in 1 .. Len(t) - 1 /\ k \in 1 .. Len(s) /\ k + 1 \in 1 .. Len(s) BY <1>1, <1>3, <2>2
    <3> QED BY <1>1, <1>2, <2>2, <3>1
  <2>4. Len(u) <= Len(RemoveAt(t, i)) BY ONLY <1>1, <1>2, <1>3, <2>2
  <2> QED BY ONLY <1>2, <2>2, <2>3, <2>4, PrefixIs
<1>5. CASE ~(i <= Len(s))
  <2>1. u = s BY <1>5
  <2>2. ASSUME NEW k \in 1 .. Len(s) PROVE s[k] = RemoveAt(t, i)[k]
    <3>1. k \in 1 .. Len(t) - 1 /\ k < i BY <1>1, <1>3, <1>5
    <3> QED BY <1>1, <1>2, <3>1
  <2>3. Len(s) <= Len(t) - 1 BY <1>3, <1>5
  <2> QED BY <1>2, <2>1, <2>2, <2>3, PrefixIs
<1> QED BY <1>4, <1>5

(* The same where the position is moved to the front.                      *)
LEMMA RowMoved ==
  ASSUME NEW T, NEW s \in Seq(T), NEW t \in Seq(T), IsPrefix(s, t), NEW i \in 1 .. Len(t),
         NEW u, u = IF i <= Len(s) THEN MovedToFront(s, i) ELSE <<t[i]>> \o s
  PROVE  u \in Seq(T) /\ IsPrefix(u, MovedToFront(t, i))
<1>1. Len(s) <= Len(t) /\ \A k \in 1 .. Len(s) : s[k] = t[k] BY PrefixIs
<1>2. /\ MovedToFront(t, i) \in Seq(T) /\ Len(MovedToFront(t, i)) = Len(t)
      /\ \A k \in 1 .. Len(t) : MovedToFront(t, i)[k] = IF k = 1 THEN t[i] ELSE IF k <= i THEN t[k - 1] ELSE t[k]
  BY MovedIs
<1>3. Len(s) \in Nat /\ Len(t) \in Nat OBVIOUS
<1>4. CASE i <= Len(s)
  <2>1. i \in 1 .. Len(s) BY <1>4
  <2>2. /\ u \in Seq(T) /\ Len(u) = Len(s)
        /\ \A k \in 1 .. Len(s) : u[k] = IF k = 1 THEN s[i] ELSE IF k <= i THEN s[k - 1] ELSE s[k]
    BY <1>4, <2>1, MovedIs
  <2>3. ASSUME NEW k \in 1 .. Len(u) PROVE u[k] = MovedToFront(t, i)[k]
    <3>1. k \in 1 .. Len(s) /\ k \in 1 .. Len(t) /\ (k # 1 => k - 1 \in 1 .. Len(s)) BY <1>1, <1>3, <2>2
    <3> QED BY <1>1, <1>2, <2>1, <2>2, <3>1
  <2> QED BY <1>1, <1>2, <1>3, <2>2, <2>3, PrefixIs
<1>5. CASE ~(i <= Len(s))
  <2>0. u = <<t[i]>> \o s /\ t[i] \in T BY <1>5
  <2>1. /\ u \in Seq(T) /\ Len(u) = Len(s) + 1
        /\ \A k \in 1 .. Len(s) + 1 : u[k] = IF k = 1 THEN t[i] ELSE s[k - 1]
    BY ONLY <1>3, <2>0, s \in Seq(T)
  <2>2. ASSUME NEW k \in 1 .. Len(u) PROVE u[k] = MovedToFront(t, i)[k]
    <3>1. k \in 1 .. Len(s) + 1 /\ k \in 1 .. Len(t) /\ k <= i /\ (k # 1 => k - 1 \in 1 .. Len(s)) BY <1>1, <1>3, <1>5, <2>1
    <3> QED BY <1>1, <1>2, <2>1, <3>1
  <2>3. Len(u) <= Len(t) BY <1>3, <1>5, <2>1
  <2> QED BY <1>2, <2>1, <2>2, <2>3, PrefixIs
<1> QED BY <1>4, <1>5

(* compute_kernels makes a row that fits a whole row.                      *)
LEMMA RowFilled ==
  ASSUME NEW T, NEW s \in Seq(T), NEW t \in Seq(T), IsPrefix(s, t)
  PROVE  s \o SubSeq(t, Len(s) + 1, Len(t)) = t
<1> DEFINE b == SubSeq(t, Len(s) + 1, Len(t))
<1>1. Len(s) <= Len(t) /\ \A k \in 1 .. Len(s) : s[k] = t[k] BY PrefixIs
<1>2. Len(s) \in Nat /\ Len(t) \in Nat OBVIOUS
<1>3. b \in Seq(T) /\ Len(b) = Len(t) - Len(s) /\ \A k \in 1 .. Len(t) - Len(s) : b[k] = t[k + Len(s)] BY <1>1, <1>2
<1> HIDE DEF b
<1>4. s \o b \in Seq(T) /\ Len(s \o b) = Len(t) BY <1>1, <1>2, <1>3
<1>5. ASSUME NEW k \in 1 .. Len(t) PROVE (s \o b)[k] = t[k]
  <2>1. (s \o b)[k] = IF k <= Len(s) THEN s[k] ELSE b[k - Len(s)] BY <1>2, <1>3
  <2>2. CASE k <= Len(s) BY <1>1, <2>1, <2>2
  <2>3. CASE ~(k <= Len(s))
    <3>1. k - Len(s) \in 1 .. Len(t) - Len(s) /\ (k - Len(s)) + Len(s) = k BY <1>2, <2>3
    <3> QED BY <1>3, <2>1, <2>3, <3>1
  <2> QED BY <2>2, <2>3
<1> DEFINE c == s \o b
<1>6. c \in Seq(T) /\ Len(c) = Len(t) /\ \A k \in 1 .. Len(t) : c[k] = t[k] BY <1>4, <1>5
<1> HIDE DEF c
<1>7. c = t BY ONLY <1>6, t \in Seq(T)
<1> QED BY <1>7 DEF b, c

Inj(s) == \A k, l \in 1 .. Len(s) : s[k] = s[l] => k = l

(* What is left after a removal, a move or an addition.                    *)
LEMMA RangeRemoved ==
  ASSUME NEW T, NEW s \in Seq(T), Inj(s), NEW i \in 1 .. Len(s)
  PROVE  Inj(RemoveAt(s, i)) /\ Range(RemoveAt(s, i)) = Range(s) \ {s[i]}
<1> DEFINE r == RemoveAt(s, i)
           to(k) == IF k < i THEN k ELSE k + 1
<1>1. r \in Seq(T) /\ Len(r) = Len(s) - 1 /\ \A k \in 1 .. Len(s) - 1 : r[k] = IF k < i THEN s[k] ELSE s[k + 1]
  BY RemoveAtIs
<1>2. Len(s) \in Nat OBVIOUS
<1> HIDE DEF r
<1>3. \A k \in 1 .. Len(s) - 1 : to(k) \in 1 .. Len(s) /\ to(k) # i BY <1>2
<1>4. \A k \in 1 .. Len(s) - 1 : r[k] = s[to(k)] BY <1>1
<1>5. \A k, l \in 1 .. Len(s) - 1 : to(k) = to(l) => k = l BY <1>2
<1>6. \A j \in 1 .. Len(s) : j # i => \E k \in 1 .. Len(s) - 1 : to(k) = j
  <2> SUFFICES ASSUME NEW j \in 1 .. Len(s), j # i PROVE \E k \in 1 .. Len(s) - 1 : to(k) = j OBVIOUS
  <2>1. CASE j < i
    <3>1. j \in 1 .. Len(s) - 1 /\ to(j) = j BY <1>2, <2>1
    <3> QED BY <3>1
  <2>2. CASE ~(j < i)
    <3>1. j - 1 \in 1 .. Len(s) - 1 /\ to(j - 1) = j BY <1>2, <2>2
    <3> QED BY <3>1
  <2> QED BY <2>1, <2>2
<1> HIDE DEF to
<1>7. Inj(r)
  <2> SUFFICES ASSUME NEW k \in 1 .. Len(s) - 1, NEW l \in 1 .. Len(s) - 1, r[k] = r[l] PROVE k = l
    BY <1>1 DEF Inj
  <2>1. s[to(k)] = s[to(l)] BY <1>4
  <2>2. to(k) = to(l) BY <1>3, <2>1 DEF Inj
  <2> QED BY <1>5, <2>2
<1>8. DOMAIN r = 1 .. Len(s) - 1 /\ DOMAIN s = 1 .. Len(s) BY <1>1
<1>9. Range(r) = Range(s) \ {s[i]}
  <2>1. ASSUME NEW x \in Range(r) PROVE x \in Range(s) \ {s[i]}
    <3>1. PICK k \in 1 .. Len(s) - 1 : x = r[k] BY <1>8, <2>1 DEF Range
    <3>2. x = s[to(k)] /\ to(k) \in 1 .. Len(s) /\ to(k) # i BY <1>3, <1>4, <3>1
    <3>3. x # s[i] BY <3>2 DEF Inj
    <3> QED BY <1>8, <3>2, <3>3 DEF Range
  <2>2. ASSUME NEW x \in Range(s) \ {s[i]} PROVE x \in Range(r)
    <3>1. PICK j \in 1 .. Len(s) : x = s[j] BY <1>8, <2>2 DEF Range
    <3>2. j # i BY <2>2, <3>1
    <3>3. PICK k \in 1 .. Len(s) - 1 : to(k) = j BY <1>6, <3>2
    <3>4. x = r[k] BY <1>4, <3>1, <3>3
    <3> QED BY <1>8, <3>4 DEF Range
  <2> QED BY <2>1, <2>2
<1> QED BY <1>7, <1>9 DEF r

(* A move to the front leaves the same distinct members.                   *)
LEMMA RangeMoved ==
  ASSUME NEW T, NEW s \in Seq(T), Inj(s), NEW i \in 1 .. Len(s)
  PROVE  Inj(MovedToFront(s, i)) /\ Range(MovedToFront(s, i)) = Range(s)
<1> DEFINE r == MovedToFront(s, i)
           to(k) == IF k = 1 THEN i ELSE IF k <= i THEN k - 1 ELSE k
<1>1. r \in Seq(T) /\ Len(r) = Len(s)
      /\ \A k \in 1 .. Len(s) : r[k] = IF k = 1 THEN s[i] ELSE IF k <= i THEN s[k - 1] ELSE s[k]
  BY MovedIs
<1>2. Len(s) \in Nat OBVIOUS
<1> HIDE DEF r
<1>3. \A k \in 1 .. Len(s) : to(k) \in 1 .. Len(s) BY <1>2
<1>4. \A k \in 1 .. Len(s) : r[k] = s[to(k)] BY <1>1
<1>5. \A k, l \in 1 .. Len(s) : to(k) = to(l) => k = l BY <1>2
<1>6. \A j \in 1 .. Len(s) : \E k \in 1 .. Len(s) : to(k) = j
  <2> SUFFICES ASSUME NEW j \in 1 .. Len(s) PROVE \E k \in 1 .. Len(s) : to(k) = j OBVIOUS
  <2>1. CASE j < i
    <3>1. j + 1 \in 1 .. Len(s) /\ to(j + 1) = j BY <1>2, <2>1
    <3> QED BY <3>1
  <2>2. CASE j = i
    <3>1. 1 \in 1 .. Len(s) /\ to(1) = j BY <1>2, <2>2
    <3> QED BY <3>1
  <2>3. CASE j > i
    <3>1. to(j) = j BY <1>2, <2>3
    <3> QED BY <3>1
  <2> QED BY <2>1, <2>2, <2>3
<1> HIDE DEF to
<1>7. Inj(r)
  <2> SUFFICES ASSUME NEW k \in 1 .. Len(s), NEW l \in 1 .. Len(s), r[k] = r[l] PROVE k = l
    BY <1>1 DEF Inj
  <2>1. s[to(k)] = s[to(l)] BY <1>4
  <2>2. to(k) = to(l) BY <1>3, <2>1 DEF Inj
  <2> QED BY <1>5, <2>2
<1>8. DOMAIN r = 1 .. Len(s) /\ DOMAIN s = 1 .. Len(s) BY <1>1
<1>9. Range(r) = Range(s)
  <2>1. ASSUME NEW x \in Range(r) PROVE x \in Range(s)
    <3>1. PICK k \in 1 .. Len(s) : x = r[k] BY <1>8, <2>1 DEF Range
    <3> QED BY <1>3, <1>4, <1>8, <3>1 DEF Range
  <2>2. ASSUME NEW x \in Range(s) PROVE x \in Range(r)
    <3>1. PICK j \in 1 .. Len(s) : x = s[j] BY <1>8, <2>2 DEF Range
    <3>2. PICK k \in 1 .. Len(s) : to(k) = j BY <1>6
    <3>3. x = r[k] BY <1>4, <3>1, <3>2
    <3> QED BY <1>8, <3>3 DEF Range
  <2> QED BY <2>1, <2>2
<1> QED BY <1>7, <1>9 DEF r

(* A sequence with one more element at its end.                            *)
Added(T, s, e, r) ==
  /\ r \in Seq(T) /\ Inj(r) /\ Range(r) = Range(s) \cup {e} /\ Len(r) = Len(s) + 1 /\ r[Len(r)] = e
  /\ RemoveAt(r, Len(r)) = s /\ IsPrefix(s, r)

(* A new member at the end.                                                *)
LEMMA RangeAdded ==
  ASSUME NEW T, NEW s \in Seq(T), Inj(s), NEW e \in T, e \notin Range(s), NEW r, r = Append(s, e)
  PROVE  Added(T, s, e, r)
<1>1. /\ r \in Seq(T) /\ Len(r) = Len(s) + 1 /\ r[Len(s) + 1] = e /\ \A k \in 1 .. Len(s) : r[k] = s[k]
      /\ Len(s) \in Nat
  OBVIOUS
<1>2. DOMAIN s = 1 .. Len(s) /\ DOMAIN r = 1 .. Len(s) + 1 BY <1>1
<1>3. \A k \in 1 .. Len(s) : s[k] # e BY <1>2 DEF Range
<1>4. \A k \in 1 .. Len(s) + 1 : k \in 1 .. Len(s) \/ k = Len(s) + 1 BY <1>1
<1>5. Inj(r) BY <1>1, <1>3, <1>4 DEF Inj
<1>6. Range(r) = Range(s) \cup {e} BY <1>1, <1>2, <1>4 DEF Range
<1>7. Len(s) + 1 \in 1 .. Len(s) + 1 BY <1>1
<1>8. RemoveAt(r, Len(r)) = s
  <2>1. /\ RemoveAt(r, Len(r)) \in Seq(T) /\ Len(RemoveAt(r, Len(r))) = Len(r) - 1
        /\ \A k \in 1 .. Len(r) - 1 : RemoveAt(r, Len(r))[k] = IF k < Len(r) THEN r[k] ELSE r[k + 1]
    <3>1. Len(r) \in 1 .. Len(r) BY ONLY <1>1
    <3> QED BY ONLY <1>1, <3>1, RemoveAtIs
  <2>2. \A k \in 1 .. Len(s) : RemoveAt(r, Len(r))[k] = s[k] BY <1>1, <2>1
  <2>3. Len(RemoveAt(r, Len(r))) = Len(s) BY <1>1, <2>1
  <2> QED BY ONLY <2>1, <2>2, <2>3, s \in Seq(T)
<1>9. IsPrefix(s, r)
  <2>1. Len(s) <= Len(r) BY ONLY <1>1
  <2> QED BY ONLY <1>1, <2>1, s \in Seq(T), PrefixIs
<1> QED BY <1>1, <1>5, <1>6, <1>8, <1>9 DEF Added

-----------------------------------------------------------------------------
(* What is known of the arrays and rows of kernel_svm: the support vectors *)
(* are different examples, the arrays run parallel, and the row of each    *)
(* is right as far as it goes; the deltas count all support vectors.       *)
Deltas == [of : Nat, counts : SUBSET Nat]
KsModels == [support_vec : Seq(Nat), alpha : Seq(Nat), delta : Seq(Deltas), krow : Seq(Seq(Nat))]

KsWell(m, n) ==
  /\ m \in KsModels /\ n \in Nat /\ Len(m.krow) = n
  /\ Inj(m.support_vec) /\ Range(m.support_vec) \subseteq 1 .. n
  /\ m.alpha = m.support_vec /\ Len(m.delta) = Len(m.support_vec)
  /\ \A i \in 1 .. Len(m.support_vec) : m.delta[i].of = m.support_vec[i]
  /\ \A e \in Range(m.support_vec) : IsPrefix(m.krow[e], m.support_vec)

CountsBut(m, i) ==
  \A k \in 1 .. Len(m.support_vec) : k # i => m.delta[k].counts \cup {m.support_vec[i]} = Range(m.support_vec)
KsCounted(m) == \A k \in 1 .. Len(m.support_vec) : m.delta[k].counts = Range(m.support_vec)
SameButRows(c, m) == c.support_vec = m.support_vec /\ c.alpha = m.alpha /\ c.delta = m.delta
RowsKept(c, m, n) == \A e \in 1 .. n : e \notin Range(m.support_vec) => c.krow[e] = m.krow[e]

(* Types of the parts of a well-formed model.                              *)
LEMMA WellParts ==
  ASSUME NEW m, NEW n, KsWell(m, n)
  PROVE  /\ m.support_vec \in Seq(Nat) /\ m.delta \in Seq(Deltas) /\ m.krow \in Seq(Seq(Nat)) /\ n \in Nat
         /\ DOMAIN m.krow = 1 .. n /\ DOMAIN m.support_vec = 1 .. Len(m.support_vec)
         /\ Len(m.support_vec) \in Nat
         /\ \A e \in 1 .. n : m.krow[e] \in Seq(Nat)
         /\ \A i \in 1 .. Len(m.support_vec) : /\ m.delta[i] \in Deltas /\ m.support_vec[i] \in Range(m.support_vec)
                                               /\ m.support_vec[i] \in 1 .. n /\ m.support_vec[i] \in Nat
<1>1. m \in KsModels /\ Len(m.krow) = n /\ n \in Nat /\ Range(m.support_vec) \subseteq 1 .. n /\ Len(m.delta) = Len(m.support_vec)
  BY DEF KsWell
<1>2. m.support_vec \in Seq(Nat) /\ m.delta \in Seq(Deltas) /\ m.krow \in Seq(Seq(Nat)) BY <1>1 DEF KsModels
<1>3. DOMAIN m.krow = 1 .. n /\ DOMAIN m.support_vec = 1 .. Len(m.support_vec) /\ Len(m.support_vec) \in Nat BY <1>1, <1>2
<1>4. \A e \in 1 .. n : m.krow[e] \in Seq(Nat) BY <1>1, <1>2
<1>5. \A i \in 1 .. Len(m.support_vec) : m.delta[i] \in Deltas BY <1>1, <1>2
<1>6. \A i \in 1 .. Len(m.support_vec) : m.support_vec[i] \in Range(m.support_vec) BY <1>3 DEF Range
<1> QED BY <1>1, <1>2, <1>3, <1>4, <1>5, <1>6

(* compute_kernels on an example whose row fits.                           *)
LEMMA FilledWell ==
  ASSUME NEW m, NEW n, KsWell(m, n), NEW e \in 1 .. n, IsPrefix(m.krow[e], m.support_vec),
         NEW c, c = ComputeKernels(m, e)
  PROVE  /\ KsWell(c, n) /\ SameButRows(c, m) /\ c.krow[e] = m.support_vec
         /\ \A x \in 1 .. n : x # e => c.krow[x] = m.krow[x]
<1>1. /\ m.support_vec \in Seq(Nat) /\ m.krow \in Seq(Seq(Nat)) /\ n \in Nat /\ DOMAIN m.krow = 1 .. n
      /\ m.krow[e] \in Seq(Nat) /\ m \in KsModels /\ Len(m.krow) = n
  BY WellParts DEF KsWell
<1>2. m.krow[e] \o SubSeq(m.support_vec, Len(m.krow[e]) + 1, Len(m.support_vec)) = m.support_vec BY <1>1, RowFilled
<1>3. c = [m EXCEPT !.krow = [@ EXCEPT ![e] = m.support_vec]]
  <2>1. c = [m EXCEPT !.krow = [@ EXCEPT ![e] = m.krow[e] \o SubSeq(m.support_vec, Len(m.krow[e]) + 1, Len(m.support_vec))]]
    BY <1>1 DEF ComputeKernels, NumSupport, KsModels
  <2> QED BY <1>2, <2>1
<1>4. /\ SameButRows(c, m) /\ c.krow = [m.krow EXCEPT ![e] = m.support_vec] BY <1>1, <1>3 DEF SameButRows, KsModels
<1>5. c.krow \in Seq(Seq(Nat)) /\ Len(c.krow) = n /\ c.krow[e] = m.support_vec /\ \A x \in 1 .. n : x # e => c.krow[x] = m.krow[x]
  BY <1>1, <1>4
<1>6. c \in KsModels BY <1>1, <1>3, <1>5 DEF KsModels
<1>7. IsPrefix(m.support_vec, m.support_vec) BY <1>1, PrefixIs
<1>8. \A x \in Range(m.support_vec) : IsPrefix(c.krow[x], m.support_vec)
  <2>1. \A x \in Range(m.support_vec) : x \in 1 .. n /\ IsPrefix(m.krow[x], m.support_vec) BY DEF KsWell
  <2> QED BY <1>5, <1>7, <2>1
<1>9. KsWell(c, n) BY <1>4, <1>5, <1>6, <1>8 DEF KsWell, SameButRows
<1> QED BY <1>4, <1>5, <1>9

(* update, as far as the deltas: all of them count all support vectors.    *)
NewDelta(m, i) == [m EXCEPT !.delta = [k \in 1 .. NumSupport(m) |-> DeltaAfter(m, i, k)]]

(* The deltas that update computes count what update has changed.          *)
LEMMA DeltasWell ==
  ASSUME NEW m, NEW n, KsWell(m, n), NEW i \in 1 .. Len(m.support_vec), CountsBut(m, i),
         m.krow[m.support_vec[i]] = m.support_vec, NEW c, c = NewDelta(m, i)
  PROVE  /\ KsWell(c, n) /\ KsCounted(c) /\ c.support_vec = m.support_vec /\ c.krow = m.krow
<1> DEFINE v == m.support_vec
<1>1. /\ v \in Seq(Nat) /\ m.delta \in Seq(Deltas) /\ n \in Nat /\ m \in KsModels /\ m.alpha = v
      /\ DOMAIN v = 1 .. Len(v) /\ Len(v) \in Nat /\ v[i] \in Range(v) /\ Range(v) \subseteq Nat
      /\ \A k \in 1 .. Len(v) : m.delta[k] \in Deltas /\ m.delta[k].of = v[k] /\ v[k] \in Nat
  <2>1. m \in KsModels /\ m.alpha = v /\ Range(v) \subseteq 1 .. n /\ \A k \in 1 .. Len(v) : m.delta[k].of = v[k] BY DEF KsWell
  <2>2. n \in Nat /\ 1 .. n \subseteq Nat BY WellParts
  <2>3. Range(v) \subseteq Nat BY <2>1, <2>2
  <2> QED BY <2>1, <2>3, WellParts
<1>2. {m.alpha[j] : j \in {x \in 1 .. NumSupport(m) : m.krow[v[i]][x] = v[x]}} = Range(v)
  <2>1. {x \in 1 .. NumSupport(m) : m.krow[v[i]][x] = v[x]} = 1 .. Len(v) BY DEF NumSupport
  <2> QED BY <1>1, <2>1, ZenonT(60) DEF Range
<1>3. ASSUME NEW k \in 1 .. Len(v) PROVE DeltaAfter(m, i, k) = [of |-> v[k], counts |-> Range(v)]
  <2>1. DeltaAfter(m, i, k) = [(IF k = i THEN [m.delta[k] EXCEPT !.counts = Range(v)] ELSE m.delta[k])
                                 EXCEPT !.counts = @ \cup {v[i]}]
    BY <1>2 DEF DeltaAfter
  <2>2. m.delta[k] \in Deltas /\ m.delta[k].of = v[k] BY <1>1
  <2>3. CASE k = i
    <3>1. Range(v) \cup {v[i]} = Range(v) BY <1>1
    <3>2. DeltaAfter(m, i, k) = [m.delta[k] EXCEPT !.counts = Range(v) \cup {v[i]}] BY <2>1, <2>2, <2>3 DEF Deltas
    <3> QED BY <2>2, <3>1, <3>2 DEF Deltas
  <2>4. CASE k # i
    <3>1. m.delta[k].counts \cup {v[i]} = Range(v) BY <2>4 DEF CountsBut
    <3>2. DeltaAfter(m, i, k) = [m.delta[k] EXCEPT !.counts = m.delta[k].counts \cup {v[i]}] BY <2>1, <2>2, <2>4 DEF Deltas
    <3> QED BY <2>2, <3>1, <3>2 DEF Deltas
  <2> QED BY <2>3, <2>4
<1> DEFINE d == [k \in 1 .. Len(v) |-> [of |-> v[k], counts |-> Range(v)]]
<1>4. c = [m EXCEPT !.delta = d] BY <1>3 DEF NewDelta, NumSupport
<1>5. d \in Seq(Deltas) /\ Len(d) = Len(v) /\ \A k \in 1 .. Len(v) : d[k].of = v[k] /\ d[k].counts = Range(v)
  <2>1. \A k \in 1 .. Len(v) : [of |-> v[k], counts |-> Range(v)] \in Deltas BY <1>1 DEF Deltas
  <2> QED BY <1>1, <2>1
<1> HIDE DEF d
<1>6. c \in KsModels /\ c.support_vec = v /\ c.alpha = m.alpha /\ c.krow = m.krow /\ c.delta = d BY <1>1, <1>4, <1>5 DEF KsModels
<1>7. KsWell(c, n) BY <1>5, <1>6 DEF KsWell
<1>8. KsCounted(c) BY <1>5, <1>6 DEF KsCounted
<1> QED BY <1>6, <1>7, <1>8

(* update, where the alpha has become zero.                                *)
Gone(m, i, e) ==
  LET gone == RemoveSv(m, i) IN [gone EXCEPT !.delta = [k \in DOMAIN gone.delta |-> [gone.delta[k] EXCEPT !.counts = @ \ {e}]]]

(* Removing a vector of alpha zero keeps the arrays parallel.              *)
LEMMA GoneWell ==
  ASSUME NEW m, NEW n, KsWell(m, n), NEW i \in 1 .. Len(m.support_vec), KsCounted(m),
         NEW c, c = Gone(m, i, m.support_vec[i])
  PROVE  /\ KsWell(c, n) /\ KsCounted(c) /\ c.support_vec = RemoveAt(m.support_vec, i) /\ RowsKept(c, m, n)
<1> DEFINE v == m.support_vec
           w == RemoveAt(v, i)
           r == RemoveAt(m.delta, i)
           rows == [e \in DOMAIN m.krow |->
                     IF e = v[i] THEN << >> ELSE IF e \in Range(w) /\ i <= Len(m.krow[e]) THEN RemoveAt(m.krow[e], i) ELSE m.krow[e]]
           d == [k \in DOMAIN r |-> [r[k] EXCEPT !.counts = @ \ {v[i]}]]
<1>1. /\ v \in Seq(Nat) /\ m.delta \in Seq(Deltas) /\ n \in Nat /\ m \in KsModels /\ m.alpha = v /\ Len(m.delta) = Len(v)
      /\ DOMAIN v = 1 .. Len(v) /\ Len(v) \in Nat /\ v[i] \in Range(v) /\ Inj(v) /\ Range(v) \subseteq 1 .. n
      /\ DOMAIN m.krow = 1 .. n
      /\ \A k \in 1 .. Len(v) : m.delta[k] \in Deltas /\ m.delta[k].of = v[k] /\ m.delta[k].counts = Range(v)
      /\ \A e \in 1 .. n : m.krow[e] \in Seq(Nat)
      /\ \A e \in Range(v) : IsPrefix(m.krow[e], v)
  BY WellParts DEF KsWell, KsCounted
<1>2. c = [support_vec |-> w, alpha |-> w, delta |-> d, krow |-> rows]
  <2> DEFINE g == RemoveSv(m, i)
  <2>1. g = [support_vec |-> w, alpha |-> w, delta |-> r, krow |-> rows] BY <1>1 DEF RemoveSv
  <2>2. c = [g EXCEPT !.delta = [k \in DOMAIN g.delta |-> [g.delta[k] EXCEPT !.counts = @ \ {v[i]}]]] BY DEF Gone
  <2> HIDE DEF g, w, r, rows
  <2>3. g.delta = r BY ONLY <2>1
  <2>4. c = [g EXCEPT !.delta = d] BY ONLY <2>2, <2>3
  <2> HIDE DEF d
  <2> QED BY ONLY <2>1, <2>4
<1>3. /\ w \in Seq(Nat) /\ Len(w) = Len(v) - 1 /\ \A k \in 1 .. Len(v) - 1 : w[k] = IF k < i THEN v[k] ELSE v[k + 1]
  BY ONLY <1>1, RemoveAtIs, i \in 1 .. Len(v)
<1>4. /\ r \in Seq(Deltas) /\ Len(r) = Len(v) - 1
      /\ \A k \in 1 .. Len(v) - 1 : r[k] = IF k < i THEN m.delta[k] ELSE m.delta[k + 1]
  <2>1. i \in 1 .. Len(m.delta) BY <1>1
  <2> QED BY ONLY <1>1, <2>1, RemoveAtIs, ZenonT(60)
<1>5. Inj(w) /\ Range(w) = Range(v) \ {v[i]} BY ONLY <1>1, RangeRemoved, i \in 1 .. Len(v)
<1>6. ASSUME NEW e \in 1 .. n PROVE rows[e] \in Seq(Nat) /\ (e \in Range(w) => IsPrefix(rows[e], w)) /\ (e \notin Range(v) => rows[e] = m.krow[e])
  <2>1. CASE e \in Range(w)
    <3>1. e \in Range(v) /\ e # v[i] BY <1>5, <2>1
    <3>2. rows[e] = IF i <= Len(m.krow[e]) THEN RemoveAt(m.krow[e], i) ELSE m.krow[e] BY <1>1, <2>1, <3>1
    <3> HIDE DEF rows
    <3>3. m.krow[e] \in Seq(Nat) /\ IsPrefix(m.krow[e], v) BY <1>1, <3>1
    <3>4. rows[e] \in Seq(Nat) /\ IsPrefix(rows[e], w) BY ONLY <1>1, <3>2, <3>3, i \in 1 .. Len(v), RowRemoved
    <3> QED BY <3>1, <3>4
  <2>2. CASE e \notin Range(w)
    <3>1. rows[e] = IF e = v[i] THEN << >> ELSE m.krow[e] BY <1>1, <2>2
    <3> QED BY <1>1, <2>2, <3>1
  <2> QED BY <2>1, <2>2
<1>7. rows \in Seq(Seq(Nat)) /\ Len(rows) = n
  <2>1. rows = [e \in 1 .. n |-> rows[e]] BY <1>1
  <2> HIDE DEF rows
  <2>2. \A e \in 1 .. n : rows[e] \in Seq(Nat) BY ONLY <1>6
  <2>3. rows \in [1 .. n -> Seq(Nat)] BY ONLY <2>1, <2>2
  <2> QED BY ONLY <1>1, <2>3, SMTT(40)
<1> HIDE DEF rows, w, r
<1>8. ASSUME NEW k \in 1 .. Len(v) - 1 PROVE d[k] \in Deltas /\ d[k].of = w[k] /\ d[k].counts = Range(w)
  <2>1. DOMAIN r = 1 .. Len(v) - 1 BY <1>4
  <2>2. k \in 1 .. Len(v) /\ k + 1 \in 1 .. Len(v) BY <1>1
  <2>3. r[k] \in Deltas /\ r[k].of = w[k] /\ r[k].counts = Range(v) BY <1>1, <1>3, <1>4, <2>2
  <2>4. d[k] = [r[k] EXCEPT !.counts = Range(v) \ {v[i]}] BY <2>1, <2>3
  <2>5. Range(w) = Range(v) \ {v[i]} /\ Range(w) \subseteq Nat BY <1>1, <1>5
  <2> HIDE DEF d
  <2> QED BY ONLY <2>3, <2>4, <2>5 DEF Deltas
<1>9. d \in Seq(Deltas) /\ Len(d) = Len(v) - 1
  <2>1. DOMAIN r = 1 .. Len(v) - 1 /\ Len(v) - 1 \in Nat BY <1>1, <1>4
  <2>2. d = [k \in 1 .. Len(v) - 1 |-> d[k]] BY <2>1
  <2> HIDE DEF d
  <2> QED BY ONLY <1>8, <2>1, <2>2
<1> HIDE DEF d
<1>10. /\ c.support_vec = w /\ c.alpha = w /\ c.delta = d /\ c.krow = rows /\ c \in KsModels
  BY ONLY <1>2, <1>3, <1>7, <1>9 DEF KsModels
<1>11. \A e \in Range(w) : e \in 1 .. n BY <1>1, <1>5
<1>12. KsWell(c, n) BY ONLY <1>1, <1>3, <1>5, <1>6, <1>7, <1>8, <1>9, <1>10, <1>11 DEF KsWell
<1>13. KsCounted(c) BY ONLY <1>3, <1>8, <1>10 DEF KsCounted
<1>14. RowsKept(c, m, n) BY <1>6, <1>10 DEF RowsKept
<1>15. c.support_vec = RemoveAt(m.support_vec, i) BY <1>10 DEF w
<1> QED BY <1>12, <1>13, <1>14, <1>15

UpdatedWell(u, m, n, i, zero) ==
  /\ KsWell(u, n) /\ KsCounted(u) /\ RowsKept(u, m, n)
  /\ u.support_vec = IF zero THEN RemoveAt(m.support_vec, i) ELSE m.support_vec

(* update keeps the arrays parallel and the rows and deltas right.         *)
LEMMA UpdateWell ==
  ASSUME NEW m, NEW n, KsWell(m, n), NEW i \in 1 .. Len(m.support_vec), CountsBut(m, i), NEW zero \in BOOLEAN,
         NEW u, u = Update(m, i, zero)
  PROVE  UpdatedWell(u, m, n, i, zero)
<1> DEFINE e == m.support_vec[i]
           f == ComputeKernels(m, e)
           c == NewDelta(f, i)
<1>1. e \in Range(m.support_vec) /\ e \in 1 .. n BY WellParts
<1>2. IsPrefix(m.krow[e], m.support_vec) BY <1>1 DEF KsWell
<1>3. KsWell(f, n) /\ SameButRows(f, m) /\ f.krow[e] = m.support_vec /\ \A x \in 1 .. n : x # e => f.krow[x] = m.krow[x]
  BY ONLY <1>1, <1>2, KsWell(m, n), FilledWell
<1>4. u = IF ~zero THEN c ELSE Gone(c, i, e) BY DEF Update, NewDelta, Gone
<1> HIDE DEF f
<1>5. i \in 1 .. Len(f.support_vec) /\ CountsBut(f, i) /\ f.krow[f.support_vec[i]] = f.support_vec
  BY <1>3 DEF SameButRows, CountsBut
<1>6. KsWell(c, n) /\ KsCounted(c) /\ c.support_vec = f.support_vec /\ c.krow = f.krow
  BY ONLY <1>3, <1>5, DeltasWell
<1> HIDE DEF c
<1>7. c.support_vec = m.support_vec /\ RowsKept(c, m, n) BY <1>1, <1>3, <1>6 DEF SameButRows, RowsKept
<1>8. CASE ~zero BY <1>4, <1>6, <1>7, <1>8 DEF UpdatedWell
<1>9. CASE zero
  <2>1. u = Gone(c, i, c.support_vec[i]) /\ i \in 1 .. Len(c.support_vec) BY <1>4, <1>7, <1>9
  <2>2. KsWell(u, n) /\ KsCounted(u) /\ u.support_vec = RemoveAt(c.support_vec, i) /\ RowsKept(u, c, n)
    BY ONLY <1>6, <2>1, GoneWell
  <2>3. RowsKept(u, m, n) BY <1>7, <2>2 DEF RowsKept
  <2> QED BY <1>7, <1>9, <2>2, <2>3 DEF UpdatedWell
<1> QED BY <1>8, <1>9

(* make_hot_sv moves the arrays and the rows in the same way.              *)
LEMMA HotWell ==
  ASSUME NEW m, NEW n, KsWell(m, n), NEW i \in 1 .. Len(m.support_vec), KsCounted(m), NEW c, c = MakeHotSv(m, i)
  PROVE  /\ KsWell(c, n) /\ KsCounted(c) /\ c.support_vec = MovedToFront(m.support_vec, i) /\ RowsKept(c, m, n)
<1> DEFINE v == m.support_vec
           f == ComputeKernels(m, v[i])
           w == MovedToFront(v, i)
           d == MovedToFront(m.delta, i)
           rows == [e \in DOMAIN f.krow |->
                     IF e \in Range(v)
                     THEN IF i <= Len(f.krow[e]) THEN MovedToFront(f.krow[e], i) ELSE <<v[i]>> \o f.krow[e]
                     ELSE f.krow[e]]
<1>1. v[i] \in Range(v) /\ v[i] \in 1 .. n BY WellParts
<1>2. IsPrefix(m.krow[v[i]], v) BY <1>1 DEF KsWell
<1>3. KsWell(f, n) /\ SameButRows(f, m) /\ \A x \in 1 .. n : x # v[i] => f.krow[x] = m.krow[x]
  BY ONLY <1>1, <1>2, KsWell(m, n), FilledWell
<1>4. c = [support_vec |-> w, alpha |-> w, delta |-> d, krow |-> rows]
  <2>1. f.support_vec = v /\ f.alpha = v /\ f.delta = m.delta BY <1>3 DEF SameButRows, KsWell
  <2>2. \A e \in DOMAIN f.krow : HotRow(f, v[i], i, e)
           = IF i <= Len(f.krow[e]) THEN MovedToFront(f.krow[e], i) ELSE <<v[i]>> \o f.krow[e]
    BY DEF HotRow
  <2>3. c = [support_vec |-> MovedToFront(f.support_vec, i), alpha |-> MovedToFront(f.alpha, i),
             delta |-> MovedToFront(f.delta, i),
             krow |-> [e \in DOMAIN f.krow |->
                        IF e \in Range(f.support_vec) THEN HotRow(f, f.support_vec[i], i, e) ELSE f.krow[e]]]
    BY DEF MakeHotSv
  <2> HIDE DEF f, v
  <2>4. [e \in DOMAIN f.krow |-> IF e \in Range(f.support_vec) THEN HotRow(f, f.support_vec[i], i, e) ELSE f.krow[e]] = rows
    BY ONLY <2>1, <2>2
  <2> QED BY ONLY <2>1, <2>3, <2>4
<1> HIDE DEF f
<1>5. /\ v \in Seq(Nat) /\ m.delta \in Seq(Deltas) /\ n \in Nat /\ Len(m.delta) = Len(v)
      /\ DOMAIN v = 1 .. Len(v) /\ Len(v) \in Nat /\ Inj(v) /\ Range(v) \subseteq 1 .. n /\ DOMAIN f.krow = 1 .. n
      /\ \A k \in 1 .. Len(v) : m.delta[k] \in Deltas /\ m.delta[k].of = v[k] /\ m.delta[k].counts = Range(v)
      /\ \A e \in 1 .. n : f.krow[e] \in Seq(Nat)
      /\ \A e \in Range(v) : IsPrefix(f.krow[e], v)
  <2>1. DOMAIN f.krow = 1 .. n /\ \A e \in 1 .. n : f.krow[e] \in Seq(Nat) BY <1>3, WellParts
  <2>2. \A e \in Range(v) : IsPrefix(f.krow[e], v) BY <1>3 DEF KsWell, SameButRows
  <2>3. Len(m.delta) = Len(v) /\ Inj(v) /\ Range(v) \subseteq 1 .. n /\ \A k \in 1 .. Len(v) : m.delta[k].of = v[k] BY DEF KsWell
  <2>4. \A k \in 1 .. Len(v) : m.delta[k].counts = Range(v) BY DEF KsCounted
  <2> QED BY <2>1, <2>2, <2>3, <2>4, WellParts
<1>6. /\ w \in Seq(Nat) /\ Len(w) = Len(v)
      /\ \A k \in 1 .. Len(v) : w[k] = IF k = 1 THEN v[i] ELSE IF k <= i THEN v[k - 1] ELSE v[k]
  BY ONLY <1>5, MovedIs, i \in 1 .. Len(v)
<1>7. /\ d \in Seq(Deltas) /\ Len(d) = Len(v)
      /\ \A k \in 1 .. Len(v) : d[k] = IF k = 1 THEN m.delta[i] ELSE IF k <= i THEN m.delta[k - 1] ELSE m.delta[k]
  <2>1. i \in 1 .. Len(m.delta) BY <1>5
  <2>2. m.delta \in Seq(Deltas) /\ Len(m.delta) = Len(v) BY <1>5
  <2>3. /\ d \in Seq(Deltas) /\ Len(d) = Len(m.delta)
        /\ \A k \in 1 .. Len(m.delta) : d[k] = IF k = 1 THEN m.delta[i] ELSE IF k <= i THEN m.delta[k - 1] ELSE m.delta[k]
    BY ONLY <2>1, <2>2, MovedIs
  <2> HIDE DEF d
  <2> QED BY ONLY <2>2, <2>3
<1>8. Inj(w) /\ Range(w) = Range(v) BY ONLY <1>5, RangeMoved, i \in 1 .. Len(v)
<1>9. ASSUME NEW e \in 1 .. n
      PROVE  rows[e] \in Seq(Nat) /\ (e \in Range(v) => IsPrefix(rows[e], w)) /\ (e \notin Range(v) => rows[e] = m.krow[e])
  <2>1. CASE e \in Range(v)
    <3>1. rows[e] = IF i <= Len(f.krow[e]) THEN MovedToFront(f.krow[e], i) ELSE <<v[i]>> \o f.krow[e] BY <1>5, <2>1
    <3> HIDE DEF rows
    <3>2. f.krow[e] \in Seq(Nat) /\ IsPrefix(f.krow[e], v) BY <1>5, <2>1
    <3>3. rows[e] \in Seq(Nat) /\ IsPrefix(rows[e], w) BY ONLY <1>5, <3>1, <3>2, i \in 1 .. Len(v), RowMoved
    <3> QED BY <2>1, <3>3
  <2>2. CASE e \notin Range(v)
    <3>1. e # v[i] BY <1>1, <2>2
    <3>2. rows[e] = f.krow[e] BY <1>5, <2>2
    <3> QED BY <1>3, <1>5, <2>2, <3>1, <3>2
  <2> QED BY <2>1, <2>2
<1>10. rows \in Seq(Seq(Nat)) /\ Len(rows) = n
  <2>1. rows = [e \in 1 .. n |-> rows[e]] BY <1>5
  <2> HIDE DEF rows
  <2>2. \A e \in 1 .. n : rows[e] \in Seq(Nat) BY ONLY <1>9
  <2>3. rows \in [1 .. n -> Seq(Nat)] BY ONLY <2>1, <2>2
  <2> QED BY ONLY <1>5, <2>3
<1> HIDE DEF rows, w, d
<1>11. ASSUME NEW k \in 1 .. Len(v) PROVE d[k].of = w[k] /\ d[k].counts = Range(w)
  <2>1. k # 1 => k - 1 \in 1 .. Len(v) BY <1>5
  <2>2. \A j \in 1 .. Len(v) : m.delta[j].of = v[j] /\ m.delta[j].counts = Range(w) BY <1>5, <1>8
  <2>3. CASE k = 1
    <3>1. d[k] = m.delta[i] /\ w[k] = v[i] BY <1>6, <1>7, <2>3
    <3> QED BY <2>2, <3>1
  <2>4. CASE k # 1 /\ k <= i
    <3>1. d[k] = m.delta[k - 1] /\ w[k] = v[k - 1] BY <1>6, <1>7, <2>4
    <3> QED BY <2>1, <2>2, <2>4, <3>1
  <2>5. CASE k # 1 /\ ~(k <= i)
    <3>1. d[k] = m.delta[k] /\ w[k] = v[k] BY <1>6, <1>7, <2>5
    <3> QED BY <2>2, <3>1
  <2> QED BY <2>3, <2>4, <2>5
<1>12. /\ c.support_vec = w /\ c.alpha = w /\ c.delta = d /\ c.krow = rows /\ c \in KsModels
  BY ONLY <1>4, <1>6, <1>7, <1>10 DEF KsModels
<1>13. \A e \in Range(w) : e \in 1 .. n /\ IsPrefix(rows[e], w) BY <1>5, <1>8, <1>9
<1>14. KsWell(c, n) BY ONLY <1>5, <1>6, <1>7, <1>8, <1>10, <1>11, <1>12, <1>13 DEF KsWell
<1>15. KsCounted(c) BY ONLY <1>6, <1>11, <1>12 DEF KsCounted
<1>16. RowsKept(c, m, n) BY <1>9, <1>12 DEF RowsKept
<1>17. c.support_vec = MovedToFront(m.support_vec, i) BY <1>12 DEF w
<1> QED BY <1>14, <1>15, <1>16, <1>17

(* A prefix of a prefix.                                                   *)
LEMMA PrefixTrans ==
  ASSUME NEW T, NEW r \in Seq(T), NEW s \in Seq(T), NEW t \in Seq(T), IsPrefix(r, s), IsPrefix(s, t)
  PROVE  IsPrefix(r, t)
<1>1. Len(r) <= Len(s) /\ \A k \in 1 .. Len(r) : r[k] = s[k] BY PrefixIs
<1>2. Len(s) <= Len(t) /\ \A k \in 1 .. Len(s) : s[k] = t[k] BY PrefixIs
<1>3. Len(r) \in Nat /\ Len(s) \in Nat /\ Len(t) \in Nat OBVIOUS
<1>4. Len(r) <= Len(t) BY <1>1, <1>2, <1>3
<1>5. \A k \in 1 .. Len(r) : k \in 1 .. Len(s) BY <1>1, <1>3
<1>6. \A k \in 1 .. Len(r) : r[k] = t[k] BY <1>1, <1>2, <1>5
<1> QED BY <1>4, <1>6, PrefixIs

(* A pool member becomes the last support vector.                          *)
LEMMA AddWell ==
  ASSUME NEW m, NEW n, KsWell(m, n), KsCounted(m), NEW e \in 1 .. n, e \notin Range(m.support_vec),
         IsPrefix(m.krow[e], m.support_vec), NEW c, c = AddSv(m, e)
  PROVE  /\ KsWell(c, n) /\ CountsBut(c, Len(c.support_vec)) /\ c.support_vec = Append(m.support_vec, e) /\ c.krow = m.krow
         /\ Len(c.support_vec) \in 1 .. Len(c.support_vec)
<1> DEFINE v == m.support_vec
           w == Append(v, e)
           x == [of |-> e, counts |-> {}]
           d == Append(m.delta, x)
<1>1. /\ v \in Seq(Nat) /\ m.delta \in Seq(Deltas) /\ n \in Nat /\ m \in KsModels /\ m.alpha = v /\ Len(m.delta) = Len(v)
      /\ Len(v) \in Nat /\ Inj(v) /\ Range(v) \subseteq 1 .. n /\ e \in Nat /\ x \in Deltas
      /\ \A k \in 1 .. Len(v) : m.delta[k].of = v[k] /\ m.delta[k].counts = Range(v)
      /\ \A y \in 1 .. n : m.krow[y] \in Seq(Nat)
      /\ \A y \in Range(v) : IsPrefix(m.krow[y], v)
  <2>1. m \in KsModels /\ m.alpha = v /\ Len(m.delta) = Len(v) /\ Inj(v) /\ Range(v) \subseteq 1 .. n
    BY DEF KsWell
  <2>2. (\A y \in Range(v) : IsPrefix(m.krow[y], v)) /\ \A k \in 1 .. Len(v) : m.delta[k].of = v[k] BY DEF KsWell
  <2>3. \A k \in 1 .. Len(v) : m.delta[k].counts = Range(v) BY DEF KsCounted
  <2>4. n \in Nat BY WellParts
  <2>5. e \in Nat /\ x \in Deltas BY <2>4 DEF Deltas
  <2> QED BY <2>1, <2>2, <2>3, <2>5, WellParts
<1>2. c = [m EXCEPT !.support_vec = w, !.alpha = w, !.delta = d] BY <1>1 DEF AddSv, KsModels
<1>3. w \in Seq(Nat) /\ Inj(w) /\ Range(w) = Range(v) \cup {e} /\ Len(w) = Len(v) + 1 /\ w[Len(w)] = e /\ IsPrefix(v, w)
  <2>1. v \in Seq(Nat) /\ Inj(v) /\ e \in Nat /\ e \notin Range(v) BY <1>1
  <2>2. w = Append(v, e) OBVIOUS
  <2> HIDE DEF v, w
  <2>3. Added(Nat, v, e, w) BY ONLY <2>1, <2>2, RangeAdded
  <2> QED BY ONLY <2>3 DEF Added
<1>4. \A k \in 1 .. Len(v) : w[k] = v[k] BY <1>1
<1>5. d \in Seq(Deltas) /\ Len(d) = Len(v) + 1 /\ d[Len(v) + 1] = x /\ \A k \in 1 .. Len(v) : d[k] = m.delta[k] BY <1>1
<1> HIDE DEF w, d
<1>6. \A k \in 1 .. Len(v) + 1 : k \in 1 .. Len(v) \/ k = Len(v) + 1
  <2>1. Len(v) \in Nat BY <1>1
  <2> QED BY ONLY <2>1
<1>7. ASSUME NEW k \in 1 .. Len(v) + 1 PROVE d[k].of = w[k]
  <2>1. CASE k \in 1 .. Len(v) BY <1>1, <1>4, <1>5, <2>1
  <2>2. CASE k = Len(v) + 1
    <3>1. d[k] = x /\ w[k] = e BY <1>3, <1>5, <2>2
    <3> QED BY <3>1
  <2> QED BY <1>6, <2>1, <2>2
<1>8. c \in KsModels /\ c.support_vec = w /\ c.alpha = w /\ c.delta = d /\ c.krow = m.krow BY <1>1, <1>2, <1>3, <1>5 DEF KsModels
<1>9. ASSUME NEW y \in Range(w) PROVE IsPrefix(m.krow[y], w)
  <2>1. y \in 1 .. n /\ IsPrefix(m.krow[y], v) BY <1>1, <1>3, <1>9
  <2>2. m.krow[y] \in Seq(Nat) BY <1>1, <2>1
  <2> QED BY ONLY <1>1, <1>3, <2>1, <2>2, PrefixTrans
<1>10. Range(w) \subseteq 1 .. n BY <1>1, <1>3
<1>11. Len(m.krow) = n BY DEF KsWell
<1>12. KsWell(c, n) BY ONLY <1>1, <1>3, <1>5, <1>7, <1>8, <1>9, <1>10, <1>11 DEF KsWell
<1>13. CountsBut(c, Len(w))
  <2> SUFFICES ASSUME NEW k \in 1 .. Len(w), k # Len(w) PROVE d[k].counts \cup {w[Len(w)]} = Range(w)
    BY <1>8 DEF CountsBut
  <2>1. k \in 1 .. Len(v) BY <1>1, <1>3
  <2> QED BY <1>1, <1>3, <1>5, <2>1
<1>14. Len(w) \in 1 .. Len(w) BY <1>1, <1>3
<1>15. c.support_vec = Append(v, e) BY <1>8 DEF w
<1> QED BY <1>8, <1>12, <1>13, <1>14, <1>15

-----------------------------------------------------------------------------
(* The members of the pool that are still to be trained on: they are no    *)
(* support vectors, and their rows fit.                                    *)
Left == {k \in 1 .. Len(svmPool) : k > pool_next \/ (k = pool_next /\ reprocessed = -1)}
KsPool(m, n, members, places) ==
  /\ \A k \in places : members[k] \in 1 .. n /\ members[k] \notin Range(m.support_vec) /\ IsPrefix(m.krow[members[k]], m.support_vec)
  /\ \A k, l \in places : members[k] = members[l] => k = l

KsState ==
  /\ svmPool \in Seq(Nat) /\ pool_next \in 0 .. Len(svmPool) /\ reprocessed \in Int
  /\ pool_next = 0 => reprocessed = -1
  /\ KsWell(svm, Len(svm.krow)) /\ KsCounted(svm) /\ KsPool(svm, Len(svm.krow), svmPool, Left)
KsInv == ksStale = {} => KsState

(* The places left are places of the pool.                                 *)
LEMMA LeftPlaces ==
  ASSUME KsState
  PROVE  /\ Left \subseteq 1 .. Len(svmPool) /\ Len(svmPool) \in Nat /\ pool_next \in Nat
         /\ \A k \in Left : k \in Nat /\ k >= pool_next
         /\ \A k \in (pool_next + 1) .. Len(svmPool) : k \in Left
         /\ pool_next > 0 /\ reprocessed = -1 => pool_next \in Left
<1>1. Len(svmPool) \in Nat /\ pool_next \in 0 .. Len(svmPool) BY DEF KsState
<1> QED BY <1>1 DEF Left

(* Both properties follow.                                                 *)
LEMMA KsGood == KsInv => RowsAligned /\ DeltasCurrent
<1> SUFFICES ASSUME KsInv, ksStale = {} PROVE RowsAligned /\ DeltasCurrent BY DEF RowsAligned, DeltasCurrent
<1>0. KsState BY DEF KsInv
<1> DEFINE n == Len(svm.krow)
<1>1. KsWell(svm, n) /\ KsCounted(svm) /\ KsPool(svm, n, svmPool, Left) BY <1>0 DEF KsState
<1>2. RowsAligned
  <2>1. \A e \in Range(svm.support_vec) : IsPrefix(svm.krow[e], svm.support_vec) BY <1>1 DEF KsWell
  <2>2. \A e \in Waiting : IsPrefix(svm.krow[e], svm.support_vec) BY <1>0, <1>1, LeftPlaces DEF Waiting, KsPool
  <2>3. pool_next > 0 /\ reprocessed = -1 => IsPrefix(svm.krow[svmPool[pool_next]], svm.support_vec)
    BY <1>0, <1>1, LeftPlaces DEF KsPool
  <2> QED BY <2>1, <2>2, <2>3 DEF RowsAligned
<1>3. DeltasCurrent
  <2>1. svm.alpha = svm.support_vec BY <1>1 DEF KsWell
  <2>2. ASSUME NEW i \in 1 .. Len(svm.support_vec)
        PROVE  svm.delta[i] = [of |-> svm.support_vec[i], counts |-> Range(svm.support_vec)]
    <3>1. svm.delta[i] \in Deltas BY <1>1, WellParts
    <3>2. svm.delta[i].of = svm.support_vec[i] BY <1>1 DEF KsWell
    <3>3. svm.delta[i].counts = Range(svm.support_vec) BY <1>1 DEF KsCounted
    <3> QED BY ONLY <3>1, <3>2, <3>3 DEF Deltas
  <2> QED BY <2>1, <2>2 DEF DeltasCurrent, NumSupport
<1> QED BY <1>2, <1>3

(* The learner starts without support vectors.                             *)
LEMMA KsvmInitInv == KsvmInit => KsInv
<1> SUFFICES ASSUME KsvmInit PROVE KsState BY DEF KsInv
<1> DEFINE m == [support_vec |-> << >>, alpha |-> << >>, delta |-> << >>, krow |-> << >>]
<1>1. svm = m /\ svmPool = << >> /\ pool_next = 0 /\ reprocessed = -1 BY DEF KsvmInit
<1>2. << >> \in Seq(Nat) /\ << >> \in Seq(Deltas) /\ << >> \in Seq(Seq(Nat)) /\ Len(<< >>) = 0 /\ 1 .. 0 = {} OBVIOUS
<1>3. Range(<< >>) = {} BY DEF Range
<1>4. m \in KsModels BY <1>2 DEF KsModels
<1>5. KsWell(m, 0) BY <1>2, <1>3, <1>4 DEF KsWell, Inj
<1>6. KsCounted(m) BY <1>2 DEF KsCounted
<1>7. Left = {} BY <1>1, <1>2 DEF Left
<1>8. KsPool(m, 0, svmPool, Left) BY <1>7 DEF KsPool
<1>9. svmPool \in Seq(Nat) /\ pool_next \in 0 .. Len(svmPool) /\ reprocessed \in Int BY <1>1, <1>2
<1> QED BY <1>1, <1>2, <1>5, <1>6, <1>8, <1>9 DEF KsState

(* Cutting rows, all or some of them, leaves the model well-formed.        *)
WithoutRows(m, g) == [m EXCEPT !.krow = [e \in DOMAIN m.krow |-> IF e \in g THEN << >> ELSE m.krow[e]]]
CutTo(c, m, n) ==
  /\ KsWell(c, n) /\ KsCounted(c) /\ c.support_vec = m.support_vec
  /\ \A e \in 1 .. n : IsPrefix(m.krow[e], m.support_vec) => IsPrefix(c.krow[e], c.support_vec)

(* Rows that are dropped leave the others as they were.                    *)
LEMMA CutWell ==
  ASSUME NEW m, NEW n, KsWell(m, n), KsCounted(m), NEW c, NEW g,
         c = WithoutRows(m, g)
  PROVE  CutTo(c, m, n)
<1> DEFINE rows == [e \in DOMAIN m.krow |-> IF e \in g THEN << >> ELSE m.krow[e]]
<1>1. /\ m \in KsModels /\ n \in Nat /\ m.support_vec \in Seq(Nat) /\ DOMAIN m.krow = 1 .. n
      /\ \A e \in 1 .. n : m.krow[e] \in Seq(Nat)
  BY WellParts DEF KsWell
<1>2. << >> \in Seq(Nat) /\ IsPrefix(<< >>, m.support_vec)
  <2>1. << >> \in Seq(Nat) /\ Len(<< >>) = 0 /\ Len(m.support_vec) \in Nat BY <1>1
  <2>2. Len(<< >>) <= Len(m.support_vec) /\ 1 .. Len(<< >>) = {} BY ONLY <2>1
  <2> QED BY ONLY <1>1, <2>1, <2>2, PrefixIs
<1>3. \A e \in 1 .. n : rows[e] \in Seq(Nat) /\ rows[e] \in {<< >>, m.krow[e]} BY <1>1, <1>2
<1>4. rows \in Seq(Seq(Nat)) /\ Len(rows) = n
  <2>1. rows = [e \in 1 .. n |-> rows[e]] BY <1>1
  <2> HIDE DEF rows
  <2>2. rows \in [1 .. n -> Seq(Nat)] BY ONLY <1>3, <2>1
  <2> QED BY ONLY <1>1, <2>2
<1>5. c = [m EXCEPT !.krow = rows] BY DEF WithoutRows
<1> HIDE DEF rows
<1>6. c \in KsModels /\ SameButRows(c, m) /\ c.krow = rows BY ONLY <1>1, <1>4, <1>5 DEF KsModels, SameButRows
<1>7. \A e \in 1 .. n : IsPrefix(m.krow[e], m.support_vec) => IsPrefix(c.krow[e], m.support_vec) BY <1>2, <1>3, <1>6
<1>8. KsWell(c, n) BY <1>4, <1>6, <1>7 DEF KsWell, SameButRows
<1>9. KsCounted(c) BY <1>6 DEF KsCounted, SameButRows
<1> QED BY <1>6, <1>7, <1>8, <1>9 DEF SameButRows, CutTo

(* A new example comes with an empty row.                                  *)
Grown(m) == [m EXCEPT !.krow = Append(@, << >>)]
GrownTo(c, m, n) ==
  /\ KsWell(c, n + 1) /\ KsCounted(c) /\ c.support_vec = m.support_vec /\ IsPrefix(c.krow[n + 1], c.support_vec)
  /\ \A e \in 1 .. n : c.krow[e] = m.krow[e]

(* A new example has no row yet.                                           *)
LEMMA GrownWell ==
  ASSUME NEW m, NEW n, KsWell(m, n), KsCounted(m), NEW c, c = Grown(m)
  PROVE  GrownTo(c, m, n)
<1>1. m \in KsModels /\ n \in Nat /\ m.krow \in Seq(Seq(Nat)) /\ m.support_vec \in Seq(Nat) /\ Len(m.krow) = n
  BY WellParts DEF KsWell
<1>2. << >> \in Seq(Nat) OBVIOUS
<1> DEFINE rows == Append(m.krow, << >>)
<1>3. rows \in Seq(Seq(Nat)) /\ Len(rows) = n + 1 /\ rows[n + 1] = << >> /\ \A e \in 1 .. n : rows[e] = m.krow[e] BY <1>1, <1>2
<1>4. c = [m EXCEPT !.krow = rows] BY DEF Grown
<1> HIDE DEF rows
<1>5. c \in KsModels /\ SameButRows(c, m) /\ c.krow = rows BY ONLY <1>1, <1>3, <1>4 DEF KsModels, SameButRows
<1>6. IsPrefix(<< >>, m.support_vec)
  <2>1. Len(<< >>) <= Len(m.support_vec) /\ 1 .. Len(<< >>) = {} BY ONLY <1>1
  <2> QED BY ONLY <1>1, <1>2, <2>1, PrefixIs
<1>7. Range(m.support_vec) \subseteq 1 .. n /\ 1 .. n \subseteq 1 .. n + 1 /\ n + 1 \in Nat BY <1>1 DEF KsWell
<1>8. \A e \in Range(m.support_vec) : IsPrefix(rows[e], m.support_vec) BY <1>3, <1>7 DEF KsWell
<1>9. KsWell(c, n + 1) BY <1>3, <1>5, <1>7, <1>8 DEF KsWell, SameButRows
<1>10. KsCounted(c) BY <1>5 DEF KsCounted, SameButRows
<1> QED BY <1>3, <1>5, <1>6, <1>9, <1>10 DEF SameButRows, GrownTo

(* learn: the new example joins the pool with a row that fits.             *)
LEMMA LearnKsvmInv == KsInv /\ LearnKsvm => KsInv'
<1> SUFFICES ASSUME KsInv, LearnKsvm, ksStale' = {} PROVE KsState' BY DEF KsInv
<1> DEFINE n == Len(svm.krow)
           p == Grown(svm)
           m == ComputeKernels(p, n + 1)
<1>0. KsState BY DEF KsInv, LearnKsvm
<1>1. KsWell(svm, n) /\ KsCounted(svm) /\ KsPool(svm, n, svmPool, Left) BY <1>0 DEF KsState
<1>2. n \in Nat /\ DOMAIN svm.krow = 1 .. n BY <1>1, WellParts
<1>3. Cardinality(Seen) = n
  <2>1. Seen = 1 .. n BY ONLY <1>2 DEF Seen
  <2> HIDE DEF n
  <2>2. 1 \in Int /\ n \in Int BY <1>2
  <2>3. Cardinality(1 .. n) = IF 1 > n THEN 0 ELSE n - 1 + 1 BY ONLY <2>2, FS_Interval
  <2>4. Cardinality(1 .. n) = n BY <1>2, <2>3
  <2> QED BY ONLY <2>1, <2>4
<1>4. /\ pool_next = 0 /\ svm' \in {m, TrimCache(m)} /\ svmPool' = Append(svmPool, n + 1)
      /\ pool_next' \in {0, 1} /\ reprocessed' = reprocessed
  BY <1>3 DEF LearnKsvm, Grown
<1>5. /\ KsWell(p, n + 1) /\ KsCounted(p) /\ p.support_vec = svm.support_vec /\ IsPrefix(p.krow[n + 1], p.support_vec)
      /\ \A e \in 1 .. n : p.krow[e] = svm.krow[e]
  <2>1. GrownTo(p, svm, n) BY ONLY <1>1, GrownWell
  <2> QED BY ONLY <2>1 DEF GrownTo
<1>6. n + 1 \in 1 .. n + 1 /\ n + 1 \in Nat BY <1>2
<1> HIDE DEF p
<1>7. /\ KsWell(m, n + 1) /\ SameButRows(m, p) /\ m.krow[n + 1] = p.support_vec
      /\ \A x \in 1 .. n + 1 : x # n + 1 => m.krow[x] = p.krow[x]
  BY ONLY <1>5, <1>6, FilledWell
<1> HIDE DEF m
<1>8. KsCounted(m) /\ m.support_vec = svm.support_vec BY <1>5, <1>7 DEF SameButRows, KsCounted
<1>9. /\ IsPrefix(m.krow[n + 1], m.support_vec)
      /\ \A e \in 1 .. n : m.krow[e] = svm.krow[e] /\ e \in 1 .. n + 1
  <2>1. m.support_vec \in Seq(Nat) BY <1>7, WellParts
  <2>2. IsPrefix(m.support_vec, m.support_vec) BY <2>1, PrefixIs
  <2>3. \A e \in 1 .. n : e \in 1 .. n + 1 /\ e # n + 1 BY <1>2
  <2> QED BY <1>5, <1>7, <1>8, <2>2, <2>3
<1>10. /\ KsWell(svm', n + 1) /\ KsCounted(svm') /\ svm'.support_vec = svm.support_vec
       /\ \A e \in 1 .. n + 1 : IsPrefix(m.krow[e], m.support_vec) => IsPrefix(svm'.krow[e], svm'.support_vec)
  <2>1. CASE svm' = m BY <1>7, <1>8, <2>1
  <2>2. CASE svm' = TrimCache(m)
    <3>1. PICK g : svm' = WithoutRows(m, g) BY <2>2 DEF TrimCache, WithoutRows
    <3>2. CutTo(svm', m, n + 1) BY ONLY <1>7, <1>8, <3>1, CutWell
    <3> QED BY <1>8, <3>2 DEF CutTo
  <2> QED BY <1>4, <2>1, <2>2
<1>11. svmPool \in Seq(Nat) /\ Len(svmPool) \in Nat /\ reprocessed = -1 BY <1>0, <1>4 DEF KsState
<1>12. /\ svmPool' \in Seq(Nat) /\ Len(svmPool') = Len(svmPool) + 1 /\ svmPool'[Len(svmPool) + 1] = n + 1
       /\ \A k \in 1 .. Len(svmPool) : svmPool'[k] = svmPool[k]
  BY <1>4, <1>6, <1>11
<1>13. Left' \subseteq 1 .. Len(svmPool) + 1 /\ \A k \in 1 .. Len(svmPool) + 1 : k \in 1 .. Len(svmPool) \/ k = Len(svmPool) + 1
  <2>1. \A k \in 1 .. Len(svmPool) + 1 : k \in 1 .. Len(svmPool) \/ k = Len(svmPool) + 1 BY ONLY <1>11
  <2> QED BY <1>12, <2>1 DEF Left
<1>14. \A k \in 1 .. Len(svmPool) : k \in Left BY <1>4, <1>11 DEF Left
<1>15. \A k \in 1 .. Len(svmPool) : svmPool[k] \in 1 .. n /\ svmPool[k] \notin Range(svm.support_vec)
                                   /\ IsPrefix(svm.krow[svmPool[k]], svm.support_vec)
  BY <1>1, <1>14 DEF KsPool
<1>16. \A k, l \in 1 .. Len(svmPool) : svmPool[k] = svmPool[l] => k = l BY <1>1, <1>14 DEF KsPool
<1>17. n + 1 \notin Range(svm.support_vec) /\ n + 1 \notin 1 .. n
  <2>1. Range(svm.support_vec) \subseteq 1 .. n BY <1>1 DEF KsWell
  <2>2. n + 1 \notin 1 .. n BY <1>2
  <2> QED BY <2>1, <2>2
<1>18. KsPool(svm', n + 1, svmPool', Left')
  <2>1. ASSUME NEW k \in Left'
        PROVE  svmPool'[k] \in 1 .. n + 1 /\ svmPool'[k] \notin Range(svm'.support_vec)
               /\ IsPrefix(svm'.krow[svmPool'[k]], svm'.support_vec)
    <3>1. CASE k \in 1 .. Len(svmPool)
      <4>1. svmPool'[k] = svmPool[k] /\ svmPool[k] \in 1 .. n /\ svmPool[k] \notin Range(svm.support_vec)
            /\ IsPrefix(svm.krow[svmPool[k]], svm.support_vec)
        BY <1>12, <1>15, <3>1
      <4> QED BY <1>8, <1>9, <1>10, <4>1
    <3>2. CASE k = Len(svmPool) + 1
      <4>1. svmPool'[k] = n + 1 BY <1>12, <3>2
      <4> QED BY <1>6, <1>9, <1>10, <1>17, <4>1
    <3> QED BY <1>13, <3>1, <3>2
  <2>2. ASSUME NEW k \in Left', NEW l \in Left', svmPool'[k] = svmPool'[l] PROVE k = l
    <3>1. CASE k \in 1 .. Len(svmPool) /\ l \in 1 .. Len(svmPool) BY <1>12, <1>16, <2>2, <3>1
    <3>2. CASE k \in 1 .. Len(svmPool) /\ l = Len(svmPool) + 1
      <4>1. svmPool'[k] \in 1 .. n /\ svmPool'[l] = n + 1 BY <1>12, <1>15, <3>2
      <4> QED BY <1>17, <2>2, <4>1
    <3>3. CASE l \in 1 .. Len(svmPool) /\ k = Len(svmPool) + 1
      <4>1. svmPool'[l] \in 1 .. n /\ svmPool'[k] = n + 1 BY <1>12, <1>15, <3>3
      <4> QED BY <1>17, <2>2, <4>1
    <3> QED BY <1>13, <3>1, <3>2, <3>3
  <2> QED BY <2>1, <2>2 DEF KsPool
<1>19. pool_next' \in 0 .. Len(svmPool') BY <1>4, <1>11, <1>12
<1>20. Len(svm'.krow) = n + 1 BY <1>10 DEF KsWell
<1> QED BY <1>4, <1>10, <1>11, <1>12, <1>18, <1>19, <1>20 DEF KsState

(* The next member of the pool waited until now.                           *)
LEMMA NextMemberInv ==
  ASSUME KsState, NextMember, pool_next > 0, svm' = svm PROVE KsState'
<1> DEFINE n == Len(svm.krow)
<1>1. KsWell(svm, n) /\ KsCounted(svm) /\ KsPool(svm, n, svmPool, Left) BY DEF KsState
<1>2. svmPool \in Seq(Nat) /\ Len(svmPool) \in Nat /\ pool_next \in 0 .. Len(svmPool) BY DEF KsState
<1>3. CASE pool_next < Len(svmPool)
  <2>1. pool_next' = pool_next + 1 /\ svmPool' = svmPool /\ reprocessed' = -1 BY <1>3 DEF NextMember
  <2>2. Left' \subseteq Left BY <1>2, <2>1 DEF Left
  <2>3. KsPool(svm, n, svmPool, Left') BY <1>1, <2>2 DEF KsPool
  <2>4. pool_next' \in 0 .. Len(svmPool') /\ reprocessed' \in Int BY <1>2, <1>3, <2>1
  <2> QED BY <1>1, <1>2, <2>1, <2>3, <2>4 DEF KsState
<1>4. CASE ~(pool_next < Len(svmPool))
  <2>1. pool_next' = 0 /\ svmPool' = << >> /\ reprocessed' = -1 BY <1>4 DEF NextMember
  <2>2. << >> \in Seq(Nat) /\ Len(<< >>) = 0 OBVIOUS
  <2>3. Left' = {} BY <2>1, <2>2 DEF Left
  <2>4. KsPool(svm, n, svmPool', Left') BY <2>3 DEF KsPool
  <2>5. svmPool' \in Seq(Nat) /\ pool_next' \in 0 .. Len(svmPool') /\ reprocessed' \in Int BY <2>1, <2>2
  <2> QED BY <1>1, <2>1, <2>4, <2>5 DEF KsState
<1> QED BY <1>3, <1>4

(* A pool member is added and updated: the vectors before it stay.         *)
LEMMA TrainMemberInv == KsInv /\ TrainMember => KsInv'
<1> SUFFICES ASSUME KsInv, TrainMember, ksStale' = {} PROVE KsState' BY DEF KsInv
<1>0. ksStale = {} /\ KsState BY DEF KsInv, TrainMember, Kept
<1>1. pool_next > 0 /\ reprocessed = -1 BY DEF TrainMember
<1>2. CASE NextMember /\ svm' = svm BY <1>0, <1>1, <1>2, NextMemberInv
<1>3. CASE /\ \E zero \in BOOLEAN : LET m == AddSv(svm, svmPool[pool_next]) IN svm' = Update(m, NumSupport(m), zero)
           /\ reprocessed' = 0 /\ svmPool' = svmPool /\ pool_next' = pool_next
  <2> DEFINE n == Len(svm.krow)
             e == svmPool[pool_next]
             m == AddSv(svm, e)
             v == svm.support_vec
  <2>1. KsWell(svm, n) /\ KsCounted(svm) /\ KsPool(svm, n, svmPool, Left) BY <1>0 DEF KsState
  <2>2. svmPool \in Seq(Nat) /\ Len(svmPool) \in Nat /\ pool_next \in 0 .. Len(svmPool) BY <1>0 DEF KsState
  <2>3. pool_next \in Left BY <1>0, <1>1, LeftPlaces
  <2>4. e \in 1 .. n /\ e \notin Range(v) /\ IsPrefix(svm.krow[e], v) BY <2>1, <2>3 DEF KsPool
  <2>5. PICK zero \in BOOLEAN : svm' = Update(m, Len(m.support_vec), zero) BY <1>3 DEF NumSupport
  <2>6. /\ KsWell(m, n) /\ CountsBut(m, Len(m.support_vec)) /\ m.support_vec = Append(v, e) /\ m.krow = svm.krow
        /\ Len(m.support_vec) \in 1 .. Len(m.support_vec)
    BY ONLY <2>1, <2>4, AddWell
  <2> HIDE DEF m
  <2>7. UpdatedWell(svm', m, n, Len(m.support_vec), zero) BY ONLY <2>5, <2>6, UpdateWell
  <2>8. v \in Seq(Nat) /\ Inj(v) /\ e \in Nat /\ n \in Nat
    <3>1. v \in Seq(Nat) /\ n \in Nat BY <2>1, WellParts
    <3>2. Inj(v) BY <2>1 DEF KsWell
    <3> QED BY <2>4, <3>1, <3>2
  <2>9. Added(Nat, v, e, m.support_vec) BY ONLY <2>4, <2>6, <2>8, RangeAdded
  <2>10. svm'.support_vec \in {v, m.support_vec} BY <2>7, <2>9 DEF UpdatedWell, Added
  <2>11. svm'.support_vec \in Seq(Nat) /\ IsPrefix(v, svm'.support_vec) /\ Range(svm'.support_vec) \subseteq Range(v) \cup {e}
    <3>1. IsPrefix(v, v) BY <2>8, PrefixIs
    <3>2. m.support_vec \in Seq(Nat) /\ IsPrefix(v, m.support_vec) /\ Range(m.support_vec) = Range(v) \cup {e} BY <2>9 DEF Added
    <3> QED BY <2>8, <2>10, <3>1, <3>2
  <2>12. Left' = Left \ {pool_next} /\ Left' \subseteq Left BY <1>1, <1>3, <2>2 DEF Left
  <2>13. KsPool(svm', n, svmPool, Left')
    <3>1. ASSUME NEW k \in Left'
          PROVE  svmPool[k] \in 1 .. n /\ svmPool[k] \notin Range(svm'.support_vec)
                 /\ IsPrefix(svm'.krow[svmPool[k]], svm'.support_vec)
      <4>1. svmPool[k] \in 1 .. n /\ svmPool[k] \notin Range(v) /\ IsPrefix(svm.krow[svmPool[k]], v) /\ svmPool[k] # e
        BY <2>1, <2>3, <2>12 DEF KsPool
      <4>2. svmPool[k] \notin Range(m.support_vec) BY <2>9, <4>1 DEF Added
      <4>3. svm'.krow[svmPool[k]] = svm.krow[svmPool[k]] BY <2>6, <2>7, <4>1, <4>2 DEF UpdatedWell, RowsKept
      <4>4. svm.krow[svmPool[k]] \in Seq(Nat) BY <2>1, <4>1, WellParts
      <4>5. IsPrefix(svm.krow[svmPool[k]], svm'.support_vec) BY ONLY <2>8, <2>11, <4>1, <4>4, PrefixTrans
      <4> QED BY <2>11, <4>1, <4>3, <4>5
    <3>2. \A k, l \in Left' : svmPool[k] = svmPool[l] => k = l BY <2>1, <2>12 DEF KsPool
    <3> QED BY <3>1, <3>2 DEF KsPool
  <2>14. KsWell(svm', n) /\ KsCounted(svm') /\ Len(svm'.krow) = n BY <2>7 DEF UpdatedWell, KsWell
  <2> QED BY <1>1, <1>3, <2>2, <2>13, <2>14 DEF KsState
<1> QED BY <1>2, <1>3 DEF TrainMember, Kept

(* After the vectors were moved or removed nobody waits with a row.        *)
LEMMA WaitingFits ==
  ASSUME KsState, reprocessed # -1, svmPool' = svmPool, pool_next' = pool_next, reprocessed' \in Int, reprocessed' # -1,
         pool_next > 0,
         NEW n, n = Len(svm.krow), KsWell(svm', n), KsCounted(svm'), RowsKept(svm', svm, n),
         Range(svm'.support_vec) \subseteq Range(svm.support_vec),
         IsPrefix(svm.support_vec, svm'.support_vec) \/ \A e \in Waiting : ~(Len(svm.krow[e]) > 0)
  PROVE  KsState'
<1>1. KsWell(svm, n) /\ KsPool(svm, n, svmPool, Left) BY DEF KsState
<1>2. svmPool \in Seq(Nat) /\ Len(svmPool) \in Nat /\ pool_next \in 0 .. Len(svmPool) BY DEF KsState
<1>3. Left' = Left /\ Left = (pool_next + 1) .. Len(svmPool) BY <1>2 DEF Left
<1>4. svm.support_vec \in Seq(Nat) /\ svm'.support_vec \in Seq(Nat) BY <1>1, WellParts
<1>5. ASSUME NEW k \in Left
      PROVE  svmPool[k] \in 1 .. n /\ svmPool[k] \notin Range(svm'.support_vec)
             /\ IsPrefix(svm'.krow[svmPool[k]], svm'.support_vec)
  <2>1. svmPool[k] \in 1 .. n /\ svmPool[k] \notin Range(svm.support_vec) /\ IsPrefix(svm.krow[svmPool[k]], svm.support_vec)
    BY <1>1 DEF KsPool
  <2>2. svmPool[k] \in Waiting BY <1>3 DEF Waiting
  <2>3. svm.krow[svmPool[k]] \in Seq(Nat) BY <1>1, <2>1, WellParts
  <2>4. svm'.krow[svmPool[k]] = svm.krow[svmPool[k]] BY <2>1 DEF RowsKept
  <2>5. CASE IsPrefix(svm.support_vec, svm'.support_vec)
    <3>1. IsPrefix(svm.krow[svmPool[k]], svm'.support_vec) BY ONLY <1>4, <2>1, <2>3, <2>5, PrefixTrans
    <3> QED BY <2>1, <2>4, <3>1
  <2>6. CASE \A e \in Waiting : ~(Len(svm.krow[e]) > 0)
    <3>1. Len(svm.krow[svmPool[k]]) = 0 BY <2>2, <2>3, <2>6
    <3>2. Len(svm.krow[svmPool[k]]) <= Len(svm'.support_vec) /\ 1 .. Len(svm.krow[svmPool[k]]) = {} BY ONLY <1>4, <3>1
    <3>3. IsPrefix(svm.krow[svmPool[k]], svm'.support_vec) BY ONLY <1>4, <2>3, <3>2, PrefixIs
    <3> QED BY <2>1, <2>4, <3>3
  <2> QED BY <2>5, <2>6
<1>6. KsPool(svm', n, svmPool, Left) BY <1>1, <1>5 DEF KsPool
<1>7. Len(svm'.krow) = n BY DEF KsWell
<1> QED BY <1>2, <1>3, <1>6, <1>7 DEF KsState

(* An update after moves within the support vectors.                       *)
LEMMA UpdateAfter ==
  ASSUME NEW m, NEW n, KsWell(m, n), NEW h, KsWell(h, n), KsCounted(h), RowsKept(h, m, n),
         Range(h.support_vec) = Range(m.support_vec), NEW i \in 1 .. Len(h.support_vec), NEW zero \in BOOLEAN,
         NEW u, u = Update(h, i, zero)
  PROVE  KsWell(u, n) /\ KsCounted(u) /\ RowsKept(u, m, n) /\ Range(u.support_vec) \subseteq Range(m.support_vec)
<1>1. h.support_vec \in Seq(Nat) /\ h.support_vec[i] \in Range(h.support_vec) BY WellParts
<1>2. CountsBut(h, i) BY <1>1 DEF KsCounted, CountsBut
<1>3. UpdatedWell(u, h, n, i, zero) BY ONLY <1>2, KsWell(h, n), i \in 1 .. Len(h.support_vec), zero \in BOOLEAN, u = Update(h, i, zero), UpdateWell
<1>4. RowsKept(u, m, n) BY <1>3 DEF UpdatedWell, RowsKept
<1>5. Inj(h.support_vec) BY DEF KsWell
<1>6. Range(RemoveAt(h.support_vec, i)) = Range(h.support_vec) \ {h.support_vec[i]} BY <1>1, <1>5, RangeRemoved
<1>7. Range(u.support_vec) \subseteq Range(m.support_vec) BY <1>3, <1>6 DEF UpdatedWell
<1> QED BY <1>3, <1>4, <1>7 DEF UpdatedWell

(* A reprocess step.                                                       *)
LEMMA ReprocessInv == KsInv /\ Reprocess => KsInv'
<1> SUFFICES ASSUME KsInv, Reprocess, ksStale' = {} PROVE KsState' BY DEF KsInv
<1> DEFINE n == Len(svm.krow)
<1>0. ksStale = {} /\ KsState BY DEF KsInv, Reprocess, ReprocessWorst, ReprocessRandom, Kept
<1>1. /\ reprocessed # -1 /\ svmPool' = svmPool /\ pool_next' = pool_next /\ reprocessed' \in Int /\ reprocessed' # -1 /\ pool_next > 0
  <2>1. reprocessed \in Int /\ reprocessed >= 0 /\ reprocessed' = reprocessed + 1
    BY <1>0, KernelSvmAssumption DEF Reprocess, KsState
  <2> QED BY <2>1 DEF Reprocess
<1>2. KsWell(svm, n) /\ KsCounted(svm) BY <1>0 DEF KsState
<1>3. RowsKept(svm, svm, n) /\ IsPrefix(svm.support_vec, svm.support_vec)
  <2>1. svm.support_vec \in Seq(Nat) BY <1>2, WellParts
  <2> QED BY <2>1, PrefixIs DEF RowsKept
<1>4. CASE svm' = svm BY <1>0, <1>1, <1>2, <1>3, <1>4, WaitingFits
<1>5. ASSUME NEW h, KsWell(h, n), KsCounted(h), RowsKept(h, svm, n), Range(h.support_vec) = Range(svm.support_vec),
             NEW i \in 1 .. Len(h.support_vec), NEW zero \in BOOLEAN, svm' = Update(h, i, zero),
             IsPrefix(svm.support_vec, svm'.support_vec) \/ \A e \in Waiting : ~(Len(svm.krow[e]) > 0)
      PROVE  KsState'
  <2>1. KsWell(svm', n) /\ KsCounted(svm') /\ RowsKept(svm', svm, n) /\ Range(svm'.support_vec) \subseteq Range(svm.support_vec)
    BY ONLY <1>2, <1>5, i \in 1 .. Len(h.support_vec), zero \in BOOLEAN, UpdateAfter
  <2> QED BY ONLY <1>0, <1>1, <1>5, <2>1, WaitingFits
<1>6. ASSUME Kept(svm') PROVE IsPrefix(svm.support_vec, svm'.support_vec) \/ \A e \in Waiting : ~(Len(svm.krow[e]) > 0)
  BY <1>6 DEF Kept
<1>7. ASSUME NEW i \in 1 .. NumSupport(svm), ReprocessRandom(i) PROVE KsState'
  <2>1. PICK zero \in BOOLEAN : svm' = Update(svm, i, zero) /\ Kept(svm') BY <1>7 DEF ReprocessRandom
  <2>2. i \in 1 .. Len(svm.support_vec) BY DEF NumSupport
  <2> QED BY <1>2, <1>3, <1>5, <1>6, <2>1, <2>2
<1>8. ASSUME NEW i \in 1 .. NumSupport(svm), ReprocessWorst(i) PROVE KsState'
  <2>1. PICK zero \in BOOLEAN : svm' = Update(IF MakesHot(i) THEN MakeHotSv(svm, i) ELSE svm, i, zero) BY <1>8 DEF ReprocessWorst
  <2>2. i \in 1 .. Len(svm.support_vec) BY DEF NumSupport
  <2>3. IsPrefix(svm.support_vec, svm'.support_vec) \/ \A e \in Waiting : ~(Len(svm.krow[e]) > 0)
    <3>1. CASE MakesHot(i) /\ i > 1
      <4>1. ksStale' = ksStale \cup {e \in Waiting : Len(svm.krow[e]) > 0} BY <1>8, <3>1 DEF ReprocessWorst
      <4> QED BY <4>1
    <3>2. CASE ~(MakesHot(i) /\ i > 1)
      <4>1. Kept(svm') BY <1>8, <3>2 DEF ReprocessWorst
      <4> QED BY <1>6, <4>1
    <3> QED BY <3>1, <3>2
  <2>4. CASE MakesHot(i)
    <3> DEFINE h == MakeHotSv(svm, i)
    <3>1. KsWell(h, n) /\ KsCounted(h) /\ h.support_vec = MovedToFront(svm.support_vec, i) /\ RowsKept(h, svm, n)
      BY ONLY <1>2, <2>2, HotWell
    <3>2. svm' = Update(h, i, zero) BY <2>1, <2>4
    <3> HIDE DEF h
    <3>3. svm.support_vec \in Seq(Nat) BY <1>2, WellParts
    <3>4. Inj(svm.support_vec) BY <1>2 DEF KsWell
    <3>5. Range(MovedToFront(svm.support_vec, i)) = Range(svm.support_vec) BY <2>2, <3>3, <3>4, RangeMoved
    <3>6. Len(MovedToFront(svm.support_vec, i)) = Len(svm.support_vec) BY <2>2, <3>3, MovedIs
    <3>7. i \in 1 .. Len(h.support_vec) BY <2>2, <3>1, <3>6
    <3> QED BY <1>5, <2>3, <3>1, <3>2, <3>5, <3>7
  <2>5. CASE ~MakesHot(i)
    <3>1. svm' = Update(svm, i, zero) BY <2>1, <2>5
    <3> QED BY <1>2, <1>3, <1>5, <2>2, <2>3, <3>1
  <2> QED BY <2>4, <2>5
<1> QED BY <1>4, <1>7, <1>8 DEF Reprocess

(* The next member after all reprocess steps.                              *)
LEMMA ReprocessedInv == KsInv /\ Reprocessed => KsInv'
<1> SUFFICES ASSUME KsInv, Reprocessed, ksStale' = {} PROVE KsState' BY DEF KsInv
<1>1. KsState /\ NextMember /\ pool_next > 0 /\ svm' = svm BY DEF KsInv, Reprocessed
<1> QED BY <1>1, NextMemberInv

(* A new process: no rows and no pool.                                     *)
LEMMA SaveLoadKsvmInv == KsInv /\ SaveLoadKsvm => KsInv'
<1> SUFFICES ASSUME KsInv, SaveLoadKsvm, ksStale' = {} PROVE KsState' BY DEF KsInv
<1> DEFINE n == Len(svm.krow)
<1>0. KsState BY DEF KsInv, SaveLoadKsvm
<1>1. KsWell(svm, n) /\ KsCounted(svm) BY <1>0 DEF KsState
<1>2. DOMAIN svm.krow = 1 .. n BY <1>1, WellParts
<1>3. pool_next' = 0 /\ svmPool' = << >> /\ reprocessed' = -1 BY <1>0 DEF SaveLoadKsvm, KsState
<1>4. svm' = WithoutRows(svm, 1 .. n)
  <2>1. [e \in DOMAIN svm.krow |-> << >>] = [e \in DOMAIN svm.krow |-> IF e \in 1 .. n THEN << >> ELSE svm.krow[e]] BY <1>2
  <2> QED BY <2>1 DEF SaveLoadKsvm, WithoutRows
<1>5. CutTo(svm', svm, n) BY ONLY <1>1, <1>4, CutWell
<1>6. KsWell(svm', n) /\ KsCounted(svm') /\ Len(svm'.krow) = n BY <1>5 DEF CutTo, KsWell
<1>7. << >> \in Seq(Nat) /\ Len(<< >>) = 0 OBVIOUS
<1>8. Left' = {} BY <1>3, <1>7 DEF Left
<1>9. KsPool(svm', n, svmPool', Left') BY <1>8 DEF KsPool
<1>10. svmPool' \in Seq(Nat) /\ pool_next' \in 0 .. Len(svmPool') /\ reprocessed' \in Int BY <1>3, <1>7
<1> QED BY <1>3, <1>6, <1>9, <1>10 DEF KsState

(* Every step of kernel_svm.                                               *)
LEMMA KsvmStep == KsInv /\ [KsvmNext]_ksvmVars => KsInv'
<1> SUFFICES ASSUME KsInv, [KsvmNext]_ksvmVars PROVE KsInv' OBVIOUS
<1>1. CASE KsvmNext
  BY <1>1, LearnKsvmInv, TrainMemberInv, ReprocessInv, ReprocessedInv, SaveLoadKsvmInv DEF KsvmNext
<1>2. CASE UNCHANGED ksvmVars BY <1>2 DEF ksvmVars, KsInv, KsState, Left
<1> QED BY <1>1, <1>2

(* The cached rows, alphas and deltas of kernel_svm are those of the       *)
(* support vectors as they are, for any pool size, cache size, number of   *)
(* reprocess steps and outcome of the updates.                             *)
THEOREM KernelRowsRight == KsvmSpec => [](RowsAligned /\ DeltasCurrent)
<1> QED BY KsvmInitInv, KsvmStep, KsGood, PTL DEF KsvmSpec

-----------------------------------------------------------------------------
(* Each position has a row of weights of its own.                          *)
OwnRows(w) ==
  /\ w \in [Pos -> Pos] /\ \A m, n \in Pos : w[m] = w[n] => m = n
  /\ \A x \in Pos : \E m \in Pos : w[m] = x

(* Swapping two rows.                                                      *)
LEMMA SwapRowsIs ==
  ASSUME NEW w, OwnRows(w), NEW m \in Pos, NEW d \in Nat \ {0}, m + d \in Pos,
         NEW r, r = SwapRows(w, m, d)
  PROVE  /\ OwnRows(r) /\ r[m + d] = w[m] /\ r[m] = w[m + d]
         /\ \A n \in Pos : n # m /\ n # m + d => r[n] = w[n]
<1>1. w \in [Pos -> Pos] /\ (\A k, n \in Pos : w[k] = w[n] => k = n) /\ \A x \in Pos : \E k \in Pos : w[k] = x
  BY DEF OwnRows
<1>2. m # m + d BY EpsilonAssumption DEF Pos
<1>3. r \in [Pos -> Pos] BY <1>1 DEF SwapRows
<1>4. r[m + d] = w[m] /\ r[m] = w[m + d] /\ \A n \in Pos : n # m /\ n # m + d => r[n] = w[n]
  BY <1>1, <1>2 DEF SwapRows
<1>5. \A k, n \in Pos : r[k] = r[n] => k = n BY <1>1, <1>4
<1>6. \A x \in Pos : \E k \in Pos : r[k] = x BY <1>1, <1>4
<1> QED BY <1>3, <1>4, <1>5, <1>6 DEF OwnRows

(* The swaps of promote_model from position i down to position m.          *)
SwapsDown(g, w, i, d, m) ==
  g = [n \in m .. i |-> SwapRows(IF n = i THEN w ELSE g[n + 1], n, d)]

(* They exist, as far down as one likes.                                   *)
LEMMA SwapsExist ==
  ASSUME NEW w, NEW i \in Nat, NEW d PROVE \E g : SwapsDown(g, w, i, d, 0)
<1> DEFINE K == {k \in Nat : k <= i => \E g : SwapsDown(g, w, i, d, i - k)}
<1>1. 0 \in K
  <2> DEFINE g == [n \in i .. i |-> SwapRows(w, i, d)]
  <2>1. \A n \in i .. i : n = i OBVIOUS
  <2>2. g = [n \in i .. i |-> SwapRows(IF n = i THEN w ELSE g[n + 1], n, d)] BY <2>1
  <2>3. SwapsDown(g, w, i, d, i - 0) BY <2>2 DEF SwapsDown
  <2> QED BY <2>3
<1>2. ASSUME NEW k \in Nat, k \in K PROVE k + 1 \in K
  <2> SUFFICES ASSUME k + 1 <= i PROVE \E g : SwapsDown(g, w, i, d, i - (k + 1)) OBVIOUS
  <2> DEFINE p == i - k
             q == i - (k + 1)
  <2>1. PICK g : SwapsDown(g, w, i, d, p) BY <1>2
  <2>2. p \in 1 .. i /\ q \in 0 .. i - 1 /\ q + 1 = p OBVIOUS
  <2> DEFINE h == [n \in q .. i |-> IF n = q THEN SwapRows(g[p], n, d) ELSE g[n]]
  <2>3. ASSUME NEW n \in q .. i PROVE h[n] = SwapRows(IF n = i THEN w ELSE h[n + 1], n, d)
    <3>0. n \in Int BY <2>2
    <3>1. CASE n = q
      <4>1. n # i /\ n + 1 = p /\ n + 1 \in q .. i /\ n + 1 # q BY <2>2, <3>0, <3>1
      <4>2. h[n + 1] = g[p] BY <4>1
      <4> QED BY <3>1, <4>1, <4>2
    <3>2. CASE n # q
      <4>1. n \in p .. i BY <2>2, <2>3, <3>0, <3>2
      <4>2. g[n] = SwapRows(IF n = i THEN w ELSE g[n + 1], n, d)
        <5> HIDE DEF p
        <5> QED BY <2>1, <4>1 DEF SwapsDown
      <4>3. n # i => n + 1 \in q .. i /\ n + 1 # q BY <2>2, <2>3, <3>0, <4>1
      <4>4. n # i => h[n + 1] = g[n + 1] BY <4>3
      <4> QED BY <3>2, <4>2, <4>4
    <3> QED BY <3>1, <3>2
  <2>4. SwapsDown(h, w, i, d, q)
    <3>1. h = [n \in q .. i |-> h[n]] OBVIOUS
    <3> HIDE DEF h
    <3>2. [n \in q .. i |-> h[n]] = [n \in q .. i |-> SwapRows(IF n = i THEN w ELSE h[n + 1], n, d)] BY <2>3
    <3> QED BY <3>1, <3>2 DEF SwapsDown
  <2> QED BY <2>4
<1> HIDE DEF K
<1>3. i \in K BY <1>1, <1>2, InductiveSet
<1>4. \E g : SwapsDown(g, w, i, d, i - i) BY <1>3 DEF K
<1> QED BY <1>4

(* After the swaps down to position m.                                     *)
SwappedDown(r, w, i, d, m) ==
  /\ OwnRows(r) /\ \A n \in m .. i : r[n + d] = w[n]
  /\ \A n \in Pos : n < m \/ n > i + d => r[n] = w[n]

(* promote_model moves the rows of positions 0 .. i up by d.               *)
LEMMA RowsAfterIs ==
  ASSUME NEW w, OwnRows(w), NEW i \in Nat, NEW d \in Nat \ {0}, i + d \in Pos
  PROVE  SwappedDown(RowsAfter(w, i, d), w, i, d, 0)
<1> DEFINE f == CHOOSE g : SwapsDown(g, w, i, d, 0)
<1>1. RowsAfter(w, i, d) = f[0] BY DEF RowsAfter, SwapsDown
<1>2. SwapsDown(f, w, i, d, 0) BY SwapsExist
<1> HIDE DEF f
<1>3. \A m \in 0 .. i : f[m] = SwapRows(IF m = i THEN w ELSE f[m + 1], m, d) BY <1>2 DEF SwapsDown
<1>4. \A m \in 0 .. i : m \in Pos /\ m + d \in Pos BY EpsilonAssumption DEF Pos
<1> DEFINE J == {k \in Nat : k <= i => SwappedDown(f[i - k], w, i, d, i - k)}
<1>5. ASSUME NEW m \in 0 .. i, NEW v, OwnRows(v), SwappedDown(v, w, i, d, m + 1), NEW r, r = SwapRows(v, m, d)
      PROVE  SwappedDown(r, w, i, d, m)
  <2>1. m \in Pos /\ m + d \in Pos BY <1>4
  <2>2. /\ OwnRows(r) /\ r[m + d] = v[m] /\ \A n \in Pos : n # m /\ n # m + d => r[n] = v[n]
    BY <1>5, <2>1, SwapRowsIs
  <2>3. ASSUME NEW n \in m .. i PROVE r[n + d] = w[n]
    <3>1. CASE n = m BY <1>5, <2>1, <2>2, <3>1 DEF SwappedDown
    <3>2. CASE n # m
      <4>1. n \in m + 1 .. i /\ n \in 0 .. i BY <3>2
      <4>2. n + d \in Pos /\ n + d # m /\ n + d # m + d BY <1>4, <4>1
      <4> QED BY <1>5, <2>2, <4>1, <4>2 DEF SwappedDown
    <3> QED BY <3>1, <3>2
  <2>4. ASSUME NEW n \in Pos, n < m \/ n > i + d PROVE r[n] = w[n]
    <3>1. n \in Int BY EpsilonAssumption DEF Pos
    <3>2. n # m /\ n # m + d /\ (n < m + 1 \/ n > i + d) BY <2>4, <3>1
    <3> QED BY <1>5, <2>2, <3>2 DEF SwappedDown
  <2> QED BY <2>2, <2>3, <2>4 DEF SwappedDown
<1>6. SwappedDown(w, w, i, d, i + 1)
  <2>1. \A n \in i + 1 .. i : FALSE OBVIOUS
  <2> QED BY <2>1 DEF SwappedDown
<1>7. 0 \in J
  <2>1. SwappedDown(f[i], w, i, d, i) BY <1>3, <1>5, <1>6
  <2> QED BY <2>1
<1>8. ASSUME NEW k \in Nat, k \in J PROVE k + 1 \in J
  <2> SUFFICES ASSUME k + 1 <= i PROVE SwappedDown(f[i - (k + 1)], w, i, d, i - (k + 1)) OBVIOUS
  <2> DEFINE m == i - (k + 1)
  <2>1. m \in 0 .. i /\ m # i /\ m + 1 = i - k OBVIOUS
  <2>2. SwappedDown(f[m + 1], w, i, d, m + 1) BY <1>8, <2>1
  <2>3. f[m] = SwapRows(f[m + 1], m, d) BY <1>3, <2>1
  <2>4. OwnRows(f[m + 1]) BY <2>2 DEF SwappedDown
  <2> HIDE DEF m
  <2>5. SwappedDown(f[m], w, i, d, m) BY <1>5, <2>1, <2>2, <2>3, <2>4
  <2> QED BY <2>5 DEF m
<1> HIDE DEF J
<1>9. i \in J BY <1>7, <1>8, InductiveSet
<1>10. SwappedDown(f[i - i], w, i, d, i - i) BY <1>9 DEF J
<1> QED BY <1>1, <1>10

-----------------------------------------------------------------------------
(* A state of shift_model in which estimators, weights and positions fit.  *)
Ests == [by : SUBSET (Pos \X Nat), from : Nat]
EpsStates == [rows : [Pos -> Pos], born : [Pos -> Nat], est : [Triangle -> Ests]]
Describes(e, r, b, m, n) == e.from = b[r[n]] /\ e.by \subseteq {<<r[m], b[r[m]]>>}
EpsWell(s, t) ==
  /\ s \in EpsStates /\ OwnRows(s.rows) /\ \A w \in Pos : s.born[w] <= t
  /\ \A m, n \in Pos : m < n => s.born[s.rows[n]] <= s.born[s.rows[m]]
  /\ \A c \in Triangle : Describes(s.est[c], s.rows, s.born, c[1], c[2])

Consists(s, a, b, c) == s.rows = a /\ s.born = b /\ s.est = c /\ s = [rows |-> a, born |-> b, est |-> c]

(* The parts of a state of shift_model after some were replaced.           *)
LEMMA PartsAre ==
  ASSUME NEW s, NEW a, NEW b, NEW c, s = [rows |-> a, born |-> b, est |-> c], NEW x, NEW y
  PROVE  /\ Consists(s, a, b, c) /\ Consists([s EXCEPT !.est = y], a, b, y)
         /\ Consists([s EXCEPT !.rows = x, !.est = y], x, b, y) /\ Consists([s EXCEPT !.born = x, !.est = y], a, x, y)
<1>0. s \in [rows : {a}, born : {b}, est : {c}] OBVIOUS
<1>1. ASSUME NEW q, q = [s EXCEPT !.est = y] PROVE Consists(q, a, b, y) BY <1>0, <1>1 DEF Consists
<1>2. ASSUME NEW q, q = [s EXCEPT !.rows = x, !.est = y] PROVE Consists(q, x, b, y) BY <1>0, <1>2 DEF Consists
<1>3. ASSUME NEW q, q = [s EXCEPT !.born = x, !.est = y] PROVE Consists(q, a, x, y) BY <1>0, <1>3 DEF Consists
<1>4. Consists(s, a, b, c) BY DEF Consists
<1> QED BY <1>1, <1>2, <1>3, <1>4

(* clear_weights_and_estimators on a state that fits above position d.     *)
LEMMA ClearedWell ==
  ASSUME NEW t \in Nat, NEW d \in Nat \ {0}, NEW s, s \in EpsStates, OwnRows(s.rows), \A w \in Pos : s.born[w] <= t,
         \A m, n \in Pos : d <= m /\ m < n => s.born[s.rows[n]] <= s.born[s.rows[m]],
         \A c \in Triangle : d <= c[2] => Describes(s.est[c], s.rows, s.born, c[1], c[2])
  PROVE  EpsWell(Cleared(s, d, t), t)
<1> DEFINE s2 == Cleared(s, d, t)
           C == ClearedRows(s, d)
<1>0. /\ s.rows \in [Pos -> Pos] /\ s.born \in [Pos -> Nat] /\ s.est \in [Triangle -> Ests]
      /\ s = [rows |-> s.rows, born |-> s.born, est |-> s.est]
  BY DEF EpsStates
<1>1. /\ s2.rows = s.rows /\ s2.born = [w \in Pos |-> IF w \in C THEN t ELSE s.born[w]]
      /\ s2.est = [c \in Triangle |-> IF c[2] < d THEN Empty(t) ELSE s.est[c]]
      /\ s2 = [rows |-> s2.rows, born |-> s2.born, est |-> s2.est]
  <2> DEFINE x == [w \in Pos |-> IF w \in C THEN t ELSE s.born[w]]
             y == [c \in Triangle |-> IF c[2] < d THEN Empty(t) ELSE s.est[c]]
  <2>1. s2 = [s EXCEPT !.born = x, !.est = y] BY DEF Cleared
  <2> HIDE DEF x, y, s2, C
  <2>2. Consists(s2, s.rows, x, y) BY <1>0, <2>1, PartsAre
  <2> QED BY <2>2 DEF Consists, x, y
<1> HIDE DEF s2
<1>2. \A x \in Pos : x \in Int BY EpsilonAssumption DEF Pos
<1>3. \A m \in Pos : m < d => s.rows[m] \in C
  <2> SUFFICES ASSUME NEW m \in Pos, m < d PROVE m \in 0 .. d - 1 BY DEF ClearedRows
  <2> QED BY EpsilonAssumption DEF Pos
<1>4. ASSUME NEW m \in Pos, m >= d PROVE s.rows[m] \notin C
  <2> SUFFICES ASSUME s.rows[m] \in C PROVE FALSE OBVIOUS
  <2>1. PICK k \in 0 .. d - 1 : s.rows[m] = s.rows[k] BY DEF ClearedRows
  <2>2. k \in Pos BY <1>4, EpsilonAssumption DEF Pos
  <2> QED BY <1>2, <1>4, <2>1, <2>2 DEF OwnRows
<1> HIDE DEF C
<1>5. \A m \in Pos : s2.born[s2.rows[m]] = IF m < d THEN t ELSE s.born[s.rows[m]] BY <1>0, <1>1, <1>2, <1>3, <1>4
<1>6. s2.born \in [Pos -> Nat] /\ \A w \in Pos : s2.born[w] <= t BY <1>0, <1>1
<1>7. Empty(t) \in Ests BY DEF Empty, Ests
<1>8. s2 \in EpsStates BY <1>0, <1>1, <1>6, <1>7 DEF EpsStates
<1>9. ASSUME NEW m \in Pos, NEW n \in Pos, m < n PROVE s2.born[s2.rows[n]] <= s2.born[s2.rows[m]]
  BY <1>0, <1>2, <1>5, <1>9
<1>10. ASSUME NEW c \in Triangle PROVE Describes(s2.est[c], s2.rows, s2.born, c[1], c[2])
  <2>1. c[1] \in Pos /\ c[2] \in Pos /\ c[2] <= c[1] BY DEF Triangle
  <2>2. CASE c[2] < d BY <1>1, <1>5, <2>1, <2>2 DEF Describes, Empty
  <2>3. CASE ~(c[2] < d)
    <3>1. d <= c[2] /\ ~(c[1] < d) BY <1>2, <2>1, <2>3
    <3> QED BY <1>1, <1>5, <2>1, <2>3, <3>1 DEF Describes
  <2> QED BY <2>2, <2>3
<1> QED BY <1>1, <1>6, <1>8, <1>9, <1>10 DEF EpsWell, s2

(* shift_model: the promoted rows, their triangle and the columns above it *)
(* move together; what moves out at the top starts anew at the bottom.     *)
LEMMA ShiftWell ==
  ASSUME NEW t \in Nat, NEW s, EpsWell(s, t), NEW i \in Int, NEW d \in Nat \ {0}, i >= -1, i + d \in Pos,
         i >= 0 => d = 1 \/ i + d = Final
  PROVE  EpsWell(ShiftModel(s, i, d, t), t)
<1>0. /\ s.rows \in [Pos -> Pos] /\ s.born \in [Pos -> Nat] /\ s.est \in [Triangle -> Ests] /\ OwnRows(s.rows)
      /\ s = [rows |-> s.rows, born |-> s.born, est |-> s.est] /\ \A w \in Pos : s.born[w] <= t /\ s \in EpsStates
  BY DEF EpsWell, EpsStates
<1>1. CASE ~(i >= 0)
  <2>1. ShiftModel(s, i, d, t) = Cleared(s, d, t) BY <1>1 DEF ShiftModel
  <2> QED BY <2>1, ClearedWell DEF EpsWell
<1>2. CASE i >= 0
  <2> DEFINE r == RowsAfter(s.rows, i, d)
             p == Promoted(s, i, d)
             b == Rebalanced(p, i, d)
  <2>1. ShiftModel(s, i, d, t) = Cleared(b, d, t) BY <1>2 DEF ShiftModel
  <2>2. i \in Nat BY <1>2
  <2>3. SwappedDown(r, s.rows, i, d, 0) BY <1>0, <2>2, RowsAfterIs
  <2>4. /\ p.rows = r /\ p.born = s.born
        /\ p.est = [c \in Triangle |-> IF c[2] >= d /\ c[1] <= i + d THEN s.est[<<c[1] - d, c[2] - d>>] ELSE s.est[c]]
        /\ p = [rows |-> p.rows, born |-> p.born, est |-> p.est]
    <3> DEFINE y == [c \in Triangle |-> IF c[2] >= d /\ c[1] <= i + d THEN s.est[<<c[1] - d, c[2] - d>>] ELSE s.est[c]]
    <3>1. p = [s EXCEPT !.rows = r, !.est = y] BY DEF Promoted
    <3> HIDE DEF y, r, p
    <3>2. Consists(p, r, s.born, y) BY <1>0, <3>1, PartsAre
    <3> QED BY <3>2 DEF Consists, y
  <2> HIDE DEF p
  <2>5. /\ b.rows = r /\ b.born = s.born
        /\ b.est = [c \in Triangle |-> IF c[1] > i + d /\ c[2] \in d .. i + 1 THEN p.est[<<c[1], c[2] - d>>] ELSE p.est[c]]
        /\ b = [rows |-> b.rows, born |-> b.born, est |-> b.est]
    <3> DEFINE y == [c \in Triangle |-> IF c[1] > i + d /\ c[2] \in d .. i + 1 THEN p.est[<<c[1], c[2] - d>>] ELSE p.est[c]]
    <3>1. b = [p EXCEPT !.est = y] BY DEF Rebalanced
    <3> HIDE DEF y, r, b
    <3>2. Consists(b, p.rows, p.born, y) BY <2>4, <3>1, PartsAre
    <3> QED BY <2>4, <3>2 DEF Consists, y
  <2> HIDE DEF b, r
  <2>6. /\ OwnRows(r) /\ (\A n \in 0 .. i : r[n + d] = s.rows[n]) /\ (\A n \in Pos : n > i + d => r[n] = s.rows[n])
    BY <2>3 DEF SwappedDown
  <2>7. \A x \in Pos : x \in Int BY EpsilonAssumption DEF Pos
  <2>8. \A m \in Pos : d <= m /\ m <= i + d => m - d \in 0 .. i /\ m - d \in Pos /\ r[m] = s.rows[m - d]
    <3> SUFFICES ASSUME NEW m \in Pos, d <= m, m <= i + d PROVE m - d \in 0 .. i /\ m - d \in Pos /\ r[m] = s.rows[m - d] OBVIOUS
    <3>1. m - d \in 0 .. i /\ m - d \in Pos /\ (m - d) + d = m BY EpsilonAssumption DEF Pos
    <3> QED BY <2>6, <3>1
  <2>9. ASSUME NEW c \in Triangle, d <= c[2]
        PROVE  /\ b.est[c] \in Ests /\ Describes(b.est[c], r, s.born, c[1], c[2])
    <3>1. c[1] \in Pos /\ c[2] \in Pos /\ c[2] <= c[1] /\ c = <<c[1], c[2]>> BY DEF Triangle
    <3>2. CASE c[1] <= i + d
      <4> DEFINE a == <<c[1] - d, c[2] - d>>
      <4>1. c[2] <= i + d /\ d <= c[1] /\ ~(c[1] > i + d) BY <2>7, <2>9, <3>1, <3>2
      <4>2. a \in Triangle BY <2>7, <2>8, <2>9, <3>1, <3>2, <4>1 DEF Triangle
      <4>3. b.est[c] = s.est[a] BY <2>4, <2>5, <2>9, <3>2, <4>1
      <4>4. Describes(s.est[a], s.rows, s.born, c[1] - d, c[2] - d)
        <5>1. a[1] = c[1] - d /\ a[2] = c[2] - d OBVIOUS
        <5> HIDE DEF a
        <5> QED BY <4>2, <5>1 DEF EpsWell
      <4>5. r[c[1]] = s.rows[c[1] - d] /\ r[c[2]] = s.rows[c[2] - d] BY <2>8, <2>9, <3>1, <3>2, <4>1
      <4>6. s.est[a] \in Ests BY <1>0, <4>2
      <4> QED BY <4>3, <4>4, <4>5, <4>6 DEF Describes
    <3>3. CASE c[1] > i + d
      <4>0. d = 1
        <5>1. c[1] <= Final BY <3>1, EpsilonAssumption DEF Pos, Final
        <5>2. Final \in Int BY EpsilonAssumption DEF Final
        <5> QED BY <1>2, <2>7, <3>1, <3>3, <5>1, <5>2
      <4>1. r[c[1]] = s.rows[c[1]] BY <2>6, <3>1, <3>3
      <4>2. CASE c[2] <= i + d
        <5> DEFINE a == <<c[1], c[2] - d>>
        <5>1. c[2] \in d .. i + 1 BY <2>7, <2>9, <3>1, <4>0, <4>2
        <5>2. a \in Triangle BY <2>7, <2>8, <2>9, <3>1, <4>2 DEF Triangle
        <5>3. a[1] = c[1] /\ a[2] = c[2] - d OBVIOUS
        <5>4. ~(a[1] <= i + d) BY <2>7, <3>1, <3>3, <5>3
        <5>5. b.est[c] = p.est[a] BY <2>5, <3>3, <5>1
        <5> HIDE DEF a
        <5>6. p.est[a] = s.est[a] BY <2>4, <5>2, <5>4
        <5>7. Describes(s.est[a], s.rows, s.born, c[1], c[2] - d) BY <5>2, <5>3 DEF EpsWell
        <5>8. r[c[2]] = s.rows[c[2] - d] BY <2>8, <2>9, <3>1, <4>2
        <5>9. s.est[a] \in Ests BY <1>0, <5>2
        <5> QED BY <4>1, <5>5, <5>6, <5>7, <5>8, <5>9 DEF Describes
      <4>3. CASE ~(c[2] <= i + d)
        <5>1. ~(c[2] \in d .. i + 1) /\ ~(c[1] <= i + d) /\ c[2] > i + d BY <2>7, <3>1, <3>3, <4>0, <4>3
        <5>2. b.est[c] = s.est[c] BY <2>4, <2>5, <5>1
        <5>3. Describes(s.est[c], s.rows, s.born, c[1], c[2]) BY DEF EpsWell
        <5>4. r[c[2]] = s.rows[c[2]] BY <2>6, <3>1, <5>1
        <5>5. s.est[c] \in Ests BY <1>0
        <5> QED BY <4>1, <5>2, <5>3, <5>4, <5>5 DEF Describes
      <4> QED BY <4>2, <4>3
    <3> QED BY <2>7, <3>1, <3>2, <3>3
  <2>10. ASSUME NEW c \in Triangle, ~(d <= c[2]) PROVE b.est[c] \in Ests
    <3>1. c[1] \in Pos /\ c[2] \in Pos BY DEF Triangle
    <3>2. ~(c[2] >= d) /\ ~(c[2] \in d .. i + 1) BY <2>7, <2>10, <3>1
    <3> QED BY <1>0, <2>4, <2>5, <3>2
  <2>11. b.est \in [Triangle -> Ests] BY <2>5, <2>9, <2>10
  <2>12. b \in EpsStates BY <1>0, <2>5, <2>6, <2>11 DEF EpsStates, OwnRows
  <2>13. ASSUME NEW m \in Pos, NEW n \in Pos, d <= m, m < n PROVE b.born[b.rows[n]] <= b.born[b.rows[m]]
    <3>0. \A k, l \in Pos : k < l => s.born[s.rows[l]] <= s.born[s.rows[k]] BY DEF EpsWell
    <3>1. CASE n <= i + d
      <4>1. m <= i + d /\ d <= n /\ m - d < n - d BY <2>7, <2>13, <3>1
      <4> QED BY <2>5, <2>8, <2>13, <3>0, <3>1, <4>1
    <3>2. CASE ~(n <= i + d) /\ m <= i + d
      <4>1. n > i + d /\ m - d < n BY <2>7, <2>13, <3>2
      <4> QED BY <2>5, <2>6, <2>8, <2>13, <3>0, <3>2, <4>1
    <3>3. CASE ~(m <= i + d)
      <4>1. n > i + d /\ m > i + d BY <2>7, <2>13, <3>3
      <4> QED BY <2>5, <2>6, <2>13, <3>0, <4>1
    <3> QED BY <2>7, <2>13, <3>1, <3>2, <3>3
  <2>14. EpsWell(Cleared(b, d, t), t)
    <3>1. OwnRows(b.rows) /\ \A w \in Pos : b.born[w] <= t BY <1>0, <2>5, <2>6
    <3>2. \A c \in Triangle : d <= c[2] => Describes(b.est[c], b.rows, b.born, c[1], c[2]) BY <2>5, <2>9
    <3> QED BY <2>12, <2>13, <3>1, <3>2, ClearedWell
  <2> QED BY <2>1, <2>14
<1> QED BY <1>1, <1>2

-----------------------------------------------------------------------------
(* A bounded set of naturals has a highest element.                        *)
LEMMA HighestIs == ASSUME NEW n \in Nat, NEW S \in SUBSET (0 .. n), S # {} PROVE Highest(S) \in S
<1> DEFINE T == {k \in 0 .. n : n - k \in S}
<1>1. PICK x \in S : TRUE OBVIOUS
<1>2. n - x \in T BY <1>1
<1>3. T \in SUBSET Nat /\ T # {}
  <2>1. 0 .. n \subseteq Nat OBVIOUS
  <2>2. T \subseteq 0 .. n OBVIOUS
  <2> HIDE DEF T
  <2> QED BY <1>2, <2>1, <2>2
<1> HIDE DEF T
<1>4. PICK k \in T : \A l \in T : k <= l BY <1>3, LeastNat
<1>5. k \in 0 .. n /\ n - k \in S BY DEF T
<1>6. ASSUME NEW j \in S PROVE j <= n - k
  <2>1. j \in 0 .. n /\ n - j \in 0 .. n /\ n - (n - j) = j OBVIOUS
  <2>2. n - j \in T BY <2>1 DEF T
  <2>3. k <= n - j BY <1>4, <2>2
  <2> QED BY <1>5, <2>1, <2>3
<1> QED BY <1>5, <1>6 DEF Highest

(* update_weights: each model's row is about it still.                     *)
LEMMA EstimatesWell ==
  ASSUME NEW t \in Nat, NEW s, EpsWell(s, t) PROVE EpsWell(Updated(s), t + 1)
<1> DEFINE y == [c \in Triangle |-> [s.est[c] EXCEPT !.by = @ \cup {<<s.rows[c[1]], s.born[s.rows[c[1]]]>>}]]
           u == Updated(s)
<1>0. /\ s.rows \in [Pos -> Pos] /\ s.born \in [Pos -> Nat] /\ s.est \in [Triangle -> Ests] /\ OwnRows(s.rows)
      /\ s = [rows |-> s.rows, born |-> s.born, est |-> s.est] /\ \A w \in Pos : s.born[w] <= t
  BY DEF EpsWell, EpsStates
<1>1. u = [s EXCEPT !.est = y] BY DEF Updated
<1> HIDE DEF u
<1>2. u.rows = s.rows /\ u.born = s.born /\ u.est = y /\ u = [rows |-> s.rows, born |-> s.born, est |-> y]
  <2> HIDE DEF y
  <2> QED BY <1>0, <1>1, PartsAre DEF Consists
<1>3. ASSUME NEW c \in Triangle PROVE y[c] \in Ests /\ Describes(y[c], s.rows, s.born, c[1], c[2])
  <2>1. Describes(s.est[c], s.rows, s.born, c[1], c[2]) BY DEF EpsWell
  <2>2. c[1] \in Pos BY DEF Triangle
  <2>3. s.est[c] \in Ests /\ <<s.rows[c[1]], s.born[s.rows[c[1]]]>> \in Pos \X Nat BY <1>0, <2>2
  <2>4. y[c].from = s.est[c].from /\ y[c].by = s.est[c].by \cup {<<s.rows[c[1]], s.born[s.rows[c[1]]]>>}
    BY <2>3 DEF Ests
  <2>5. y[c] \in Ests BY <2>3 DEF Ests
  <2> QED BY <2>1, <2>4, <2>5 DEF Describes
<1>4. y \in [Triangle -> Ests] BY <1>3
<1> HIDE DEF y
<1>5. u \in EpsStates BY <1>0, <1>2, <1>4 DEF EpsStates
<1>6. \A w \in Pos : u.born[w] <= t + 1 BY <1>0, <1>2
<1>7. \A m, n \in Pos : m < n => u.born[u.rows[n]] <= u.born[u.rows[m]] BY <1>2 DEF EpsWell
<1>8. \A c \in Triangle : Describes(u.est[c], u.rows, u.born, c[1], c[2]) BY <1>2, <1>3
<1>9. OwnRows(u.rows) BY <1>0, <1>2
<1> QED BY <1>5, <1>6, <1>7, <1>8, <1>9 DEF EpsWell, u

EpsState == [rows |-> weight_indices, born |-> started, est |-> conf_seq_estimators]
EpsInv == epsNow \in Nat /\ EpsWell(EpsState, epsNow)

(* All models start at once, each with its own row of weights.             *)
LEMMA EpsInitInv == EpsInit => EpsInv
<1> SUFFICES ASSUME EpsInit PROVE EpsInv OBVIOUS
<1> DEFINE s == EpsState
<1>1. s.rows = weight_indices /\ s.born = started /\ s.est = conf_seq_estimators
      /\ s = [rows |-> weight_indices, born |-> started, est |-> conf_seq_estimators]
  BY DEF EpsState
<1> HIDE DEF s
<1>2. /\ epsNow = 0 /\ weight_indices = [m \in Pos |-> m] /\ started = [w \in Pos |-> 0]
      /\ conf_seq_estimators = [c \in Triangle |-> Empty(0)]
  BY DEF EpsInit
<1>3. Empty(0) \in Ests /\ Empty(0).from = 0 /\ Empty(0).by = {} BY DEF Empty, Ests
<1>4. s \in EpsStates BY <1>1, <1>2, <1>3 DEF EpsStates
<1>5. OwnRows(s.rows) BY <1>1, <1>2 DEF OwnRows
<1>6. \A w \in Pos : s.born[w] <= 0 BY <1>1, <1>2
<1>7. \A m, n \in Pos : m < n => s.born[s.rows[n]] <= s.born[s.rows[m]] BY <1>1, <1>2
<1>8. ASSUME NEW c \in Triangle PROVE Describes(s.est[c], s.rows, s.born, c[1], c[2])
  <2>1. c[1] \in Pos /\ c[2] \in Pos BY DEF Triangle
  <2> QED BY <1>1, <1>2, <1>3, <2>1 DEF Describes
<1> QED BY <1>2, <1>4, <1>5, <1>6, <1>7, <1>8 DEF EpsWell, EpsInv, s

(* Every labelled example.                                                 *)
LEMMA EpsStep == EpsInv /\ [EpsNext]_epsVars => EpsInv'
<1> SUFFICES ASSUME EpsInv, [EpsNext]_epsVars PROVE EpsInv' OBVIOUS
<1>1. CASE UNCHANGED epsVars BY <1>1 DEF epsVars, EpsInv, EpsState
<1>2. CASE LearnDecay
  <2> DEFINE s0 == Updated(EpsState)
             t == epsNow'
  <2>1. epsNow \in Nat /\ t = epsNow + 1 /\ EpsWell(EpsState, epsNow) BY <1>2 DEF LearnDecay, EpsInv
  <2>2. EpsWell(s0, t) BY <2>1, EstimatesWell
  <2>3. PICK winner \in Challengers(s0, t) \cup {Final}, even \in BOOLEAN :
          LET s1 == IF winner = Final THEN s0 ELSE ShiftModel(s0, winner, Final - winner, t)
              old == OldChallengers(s1, t, even)
              s2 == IF old = {} THEN s1 ELSE ShiftModel(s1, Highest(old) - 1, 1, t)
          IN /\ weight_indices' = s2.rows /\ started' = s2.born
             /\ conf_seq_estimators' = s2.est
    BY <1>2 DEF LearnDecay, EpsState
  <2> DEFINE s1 == IF winner = Final THEN s0 ELSE ShiftModel(s0, winner, Final - winner, t)
             old == OldChallengers(s1, t, even)
             s2 == IF old = {} THEN s1 ELSE ShiftModel(s1, Highest(old) - 1, 1, t)
  <2>4. weight_indices' = s2.rows /\ started' = s2.born /\ conf_seq_estimators' = s2.est BY <2>3
  <2> HIDE DEF s0, t
  <2>5. Final \in Nat /\ Pos = 0 .. Final BY EpsilonAssumption DEF Pos, Final
  <2>6. t \in Nat BY <2>1
  <2>7. EpsWell(s1, t)
    <3>1. CASE winner = Final BY <2>2, <3>1
    <3>2. CASE winner # Final
      <4>1. winner \in 0 .. Final - 1 BY <2>3, <3>2 DEF Challengers
      <4>2. /\ winner \in Int /\ Final - winner \in Nat \ {0} /\ winner >= -1
            /\ winner + (Final - winner) \in Pos /\ winner + (Final - winner) = Final
        BY <2>5, <4>1
      <4>3. EpsWell(ShiftModel(s0, winner, Final - winner, t), t) BY <2>2, <2>6, <4>2, ShiftWell
      <4> QED BY <3>2, <4>3
    <3> QED BY <3>1, <3>2
  <2> HIDE DEF s1
  <2>8. EpsWell(s2, t)
    <3>1. CASE old = {} BY <2>7, <3>1
    <3>2. CASE old # {}
      <4> DEFINE h == Highest(old)
      <4>1. old \in SUBSET (0 .. Final) /\ old \subseteq 0 .. Final - 1 BY <2>5 DEF OldChallengers
      <4> HIDE DEF old
      <4>2. h \in old BY <2>5, <3>2, <4>1, HighestIs
      <4>3. h \in 0 .. Final - 1 BY <4>1, <4>2
      <4> HIDE DEF h
      <4>4. h - 1 \in Int /\ h - 1 >= -1 /\ (h - 1) + 1 \in Pos /\ 1 \in Nat \ {0} BY <2>5, <4>3
      <4>5. EpsWell(ShiftModel(s1, h - 1, 1, t), t) BY <2>6, <2>7, <4>4, ShiftWell
      <4> QED BY <3>2, <4>5 DEF h
    <3> QED BY <3>1, <3>2
  <2> HIDE DEF s2
  <2>9. s2 = EpsState' BY <2>4, <2>8 DEF EpsWell, EpsStates, EpsState
  <2> QED BY <2>6, <2>8, <2>9 DEF EpsInv, t
<1> QED BY <1>1, <1>2 DEF EpsNext

(* What the estimators and the order of the models say.                    *)
LEMMA EpsGood == EpsInv => SameHorizon /\ OldestLast
<1> SUFFICES ASSUME EpsInv PROVE SameHorizon /\ OldestLast OBVIOUS
<1> DEFINE s == EpsState
<1>1. EpsWell(s, epsNow) /\ s.rows = weight_indices /\ s.born = started /\ s.est = conf_seq_estimators
  BY DEF EpsInv, EpsState
<1> HIDE DEF s
<1>2. SameHorizon BY <1>1 DEF SameHorizon, EpsWell, Describes
<1>3. {weight_indices[m] : m \in Pos} = Pos BY <1>1 DEF EpsWell, OwnRows
<1> QED BY <1>1, <1>2, <1>3 DEF OldestLast, EpsWell

(* Whatever is promoted, dropped and cleared, for any number of models:    *)
(* each estimator is about one model and counts from the start of the one  *)
(* it is compared with, and the models stay in the order of their age.     *)
THEOREM DecayFair == EpsSpec => [](SameHorizon /\ OldestLast)
<1> QED BY EpsInitInv, EpsStep, EpsGood, PTL DEF EpsSpec

-----------------------------------------------------------------------------
(* automl: the types of its records.                                       *)
Elements == SUBSET (Namespaces \X Namespaces)
ConfTypes == {"Exclusion", "Interaction"}
Confs == [elements : Elements, lease : Nat, state : {"New", "Live", "Inactive"}, type : ConfTypes]
Keys == Elements \X ConfTypes
Tallies == [n : Nat, of : SUBSET Keys]
Estimators == [config : Nat, eligible : BOOLEAN, interactions : Elements, self : Tallies, champ : Tallies]

(* A state of automl: its types; the champion in slot 0 with configuration *)
(* 0 and for good, a configuration of its own in each slot, and what is    *)
(* live is in a slot; the weights and interactions of the slots; the       *)
(* comparisons; the priorities.                                            *)
TypesOk(es, cs, v, q, ws, ns) ==
  /\ cs \in Seq(Confs) /\ v \in Nat /\ v \in 1 .. Len(cs) /\ q \in SUBSET Nat
  /\ es \in Seq(Estimators) /\ Len(es) \in 1 .. max_live_configs
  /\ ws \in [0 .. max_live_configs - 1 -> Keys] /\ ns \in SUBSET Namespaces
SlotsOk(es, cs, v, q, ns) ==
  /\ \A j, k \in 1 .. Len(es) : es[j].config = es[k].config => j = k
  /\ es[1].config = 0 /\ ~es[1].eligible
  /\ \A k \in 1 .. Len(es) : es[k].config \in 0 .. v - 1 /\ es[k].config \notin q
  /\ q \subseteq 0 .. v - 1
  /\ \A i \in 0 .. v - 1 :
       cs[i + 1].state = "Live" <=> (\E k \in 1 .. Len(es) : es[k].config = i) /\ ~(i = 0 /\ ns = {})
OwnsOk(es, cs, ws, ns) ==
  \A k \in 1 .. Len(es) : ws[k - 1] = Key(cs[es[k].config + 1]) /\ es[k].interactions = Interactions(ns, cs[es[k].config + 1])
FairOk(es, cs) ==
  \A k \in 2 .. Len(es) : /\ es[k].self.n = es[k].champ.n /\ es[k].self.of \subseteq {Key(cs[es[k].config + 1])}
                         /\ es[k].champ.of \subseteq {Key(cs[1])}
Favoured(es) == {k \in 2 .. Len(es) : ~es[k].eligible}
BudgetOk(es) == priority_challengers > 0 => Cardinality(Favoured(es)) <= priority_challengers
AmlWell(es, cs, v, q, ws, ns) ==
  /\ TypesOk(es, cs, v, q, ws, ns) /\ SlotsOk(es, cs, v, q, ns) /\ OwnsOk(es, cs, ws, ns)
  /\ FairOk(es, cs) /\ BudgetOk(es) /\ (ns = {} => cs[1].state = "New")

(* champdupe has one or three configurations, and a slot that schedule     *)
(* could not fill is followed by others that it cannot fill.               *)
DupeOk == oracle = "champdupe" => valid_config_size = Len(configs) /\ valid_config_size \in {1, 3}
AmlInv ==
  /\ AmlWell(estimators, configs, valid_config_size, index_queue, weights, ns_counter) /\ DupeOk
  /\ amlStep \in {"idle", "schedule", "learn", "check"} /\ live_slot \in 0 .. max_live_configs - 1
  /\ amlStep # "idle" => ns_counter # {}
  /\ amlStep = "schedule" /\ live_slot > Len(estimators) => Refilled = {}

-----------------------------------------------------------------------------
(* A set of pairs has a first one.                                         *)
LEMMA FirstPair ==
  ASSUME NEW S \in SUBSET (Nat \X Nat), S # {} PROVE \E x \in S : \A y \in S : y # x => Before(x, y)
<1> DEFINE A == {p[1] : p \in S}
<1>1. A \in SUBSET Nat /\ A # {} OBVIOUS
<1>2. PICK a \in A : \A y \in A : a <= y
  <2> HIDE DEF A
  <2> QED BY <1>1, LeastNat
<1> DEFINE B == {p[2] : p \in {q \in S : q[1] = a}}
<1>3. B \in SUBSET Nat /\ B # {} OBVIOUS
<1>4. PICK b \in B : \A y \in B : b <= y
  <2> HIDE DEF A, B
  <2> QED BY <1>3, LeastNat
<1>5. PICK x \in S : x[1] = a /\ x[2] = b OBVIOUS
<1>6. ASSUME NEW y \in S, y # x PROVE Before(x, y)
  <2>1. x \in Nat \X Nat /\ y \in Nat \X Nat OBVIOUS
  <2>2. x[1] <= y[1] BY <1>2, <1>5
  <2>3. y[1] = x[1] => x[2] <= y[2] BY <1>4, <1>5
  <2>4. x[1] # y[1] \/ x[2] # y[2] BY <1>6, <2>1
  <2> HIDE DEF A, B
  <2> QED BY <2>1, <2>2, <2>3, <2>4 DEF Before
<1> QED BY <1>6

(* s lists the pairs of S in their order.                                  *)
Lists(s, S) ==
  s \in [1 .. Cardinality(S) -> S] /\ \A i, j \in 1 .. Cardinality(S) : i < j => Before(s[i], s[j])

(* Every finite set of pairs can be listed.                                *)
LEMMA PairsListed ==
  ASSUME NEW S \in SUBSET (Nat \X Nat), IsFiniteSet(S) PROVE \E s : Lists(s, S)
<1> DEFINE P == {n \in Nat : \A T \in SUBSET (Nat \X Nat) : IsFiniteSet(T) /\ Cardinality(T) = n => \E s : Lists(s, T)}
<1>1. 0 \in P
  <2> SUFFICES ASSUME NEW T \in SUBSET (Nat \X Nat), IsFiniteSet(T), Cardinality(T) = 0 PROVE \E s : Lists(s, T) OBVIOUS
  <2>1. T = {} BY FS_EmptySet
  <2>2. [i \in 1 .. 0 |-> 0] \in [1 .. 0 -> T] OBVIOUS
  <2>3. Lists([i \in 1 .. 0 |-> 0], T) BY <2>2 DEF Lists
  <2> QED BY <2>3
<1>2. ASSUME NEW n \in Nat, n \in P PROVE n + 1 \in P
  <2> SUFFICES ASSUME NEW T \in SUBSET (Nat \X Nat), IsFiniteSet(T), Cardinality(T) = n + 1 PROVE \E s : Lists(s, T) OBVIOUS
  <2>1. T # {} BY FS_EmptySet
  <2>2. PICK x \in T : \A y \in T : y # x => Before(x, y) BY <2>1, FirstPair
  <2> DEFINE U == T \ {x}
  <2>3. IsFiniteSet(U) /\ Cardinality(U) = n
    <3>1. IsFiniteSet(U) /\ Cardinality(U) = Cardinality(T) - 1 BY <2>2, FS_RemoveElement
    <3> QED BY <3>1
  <2>4. PICK s : Lists(s, U) BY <1>2, <2>3
  <2> DEFINE t == [i \in 1 .. n + 1 |-> IF i = 1 THEN x ELSE s[i - 1]]
  <2>5. s \in [1 .. n -> U] /\ \A i, j \in 1 .. n : i < j => Before(s[i], s[j]) BY <2>3, <2>4 DEF Lists
  <2>6. \A i \in 1 .. n + 1 : i # 1 => i - 1 \in 1 .. n /\ s[i - 1] \in U BY <2>5
  <2>7. t \in [1 .. n + 1 -> T] BY <2>6
  <2>8. ASSUME NEW i \in 1 .. n + 1, NEW j \in 1 .. n + 1, i < j PROVE Before(t[i], t[j])
    <3>1. j # 1 /\ t[j] = s[j - 1] /\ s[j - 1] \in U BY <2>6, <2>8
    <3>2. CASE i = 1
      <4>1. t[i] = x BY <3>2
      <4> HIDE DEF t
      <4> QED BY <2>2, <3>1, <4>1
    <3>3. CASE i # 1
      <4>1. t[i] = s[i - 1] /\ i - 1 \in 1 .. n /\ j - 1 \in 1 .. n BY <2>6, <3>1, <3>3
      <4>2. i - 1 < j - 1 BY <2>8
      <4> QED BY <2>5, <3>1, <4>1, <4>2
    <3> QED BY <3>2, <3>3
  <2>9. Lists(t, T)
    <3> HIDE DEF t
    <3> QED BY <2>7, <2>8 DEF Lists
  <2> QED BY <2>9
<1> HIDE DEF P
<1>3. \A n \in Nat : n \in P BY <1>1, <1>2, InductiveSet
<1>4. Cardinality(S) \in Nat BY FS_CardinalityType
<1>5. Cardinality(S) \in P BY <1>3, <1>4
<1> QED BY <1>5 DEF P

(* The order the oracles generate in.                                      *)
LEMMA OrderedSeq ==
  ASSUME NEW S \in Elements PROVE Ordered(S) \in Seq(Namespaces \X Namespaces)
<1>1. IsFiniteSet(Namespaces \X Namespaces) BY AutoMLAssumption, FS_Product
<1>2. S \subseteq Namespaces \X Namespaces BY DEF Elements
<1>3. IsFiniteSet(S) BY <1>1, <1>2, FS_Subset
<1>4. S \in SUBSET (Nat \X Nat) BY <1>2, AutoMLAssumption
<1>5. \E s : Lists(s, S) BY <1>3, <1>4, PairsListed
<1>6. Ordered(S) \in [1 .. Cardinality(S) -> S] BY <1>5 DEF Lists, Ordered
<1>7. Cardinality(S) \in Nat BY <1>3, FS_CardinalityType
<1>8. Ordered(S) \in [1 .. Cardinality(S) -> Namespaces \X Namespaces] BY <1>2, <1>6
<1> QED BY <1>7, <1>8

-----------------------------------------------------------------------------
(* The oracle's state, and what insert_config may do to it: add new        *)
(* configurations behind the valid ones.                                   *)
OracleWell(st) ==
  /\ st = [configs |-> st.configs, valid |-> st.valid, queue |-> st.queue]
  /\ st.configs \in Seq(Confs) /\ st.valid \in Nat /\ st.queue \in SUBSET Nat /\ st.valid \in 1 .. Len(st.configs)
Extended(t, st) ==
  /\ OracleWell(t) /\ t.valid >= st.valid /\ \A i \in 1 .. st.valid : t.configs[i] = st.configs[i]
  /\ \A i \in st.valid + 1 .. t.valid : t.configs[i].state = "New"
  /\ t.queue = st.queue \cup (st.valid .. t.valid - 1)

(* A new configuration.                                                    *)
LEMMA NewConfigIs ==
  ASSUME NEW e \in Elements, NEW type \in ConfTypes
  PROVE  NewConfig(e, type) \in Confs /\ NewConfig(e, type).state = "New"
BY AutoMLAssumption DEF NewConfig, Confs

(* One that is put behind the valid ones.                                  *)
LEMMA PutWell ==
  ASSUME NEW st, OracleWell(st), NEW u, Extended(u, st), NEW m \in Seq(Confs), Len(m) = Len(u.configs),
         \A i \in 1 .. u.valid : m[i] = u.configs[i], NEW c \in Confs, c.state = "New", NEW t,
         t = [configs |-> IF u.valid < Len(m) THEN [m EXCEPT ![u.valid + 1] = c] ELSE Append(m, c),
              valid |-> u.valid + 1, queue |-> u.queue \cup {u.valid}]
  PROVE  Extended(t, st) /\ t.valid = u.valid + 1 /\ (u.valid = Len(u.configs) => Len(t.configs) = t.valid)
<1> DEFINE n == u.valid
           r == IF u.valid < Len(m) THEN [m EXCEPT ![u.valid + 1] = c] ELSE Append(m, c)
<1>1. n \in Nat /\ n \in 1 .. Len(m) /\ u.queue \in SUBSET Nat /\ st.valid \in Nat /\ n >= st.valid /\ Len(m) \in Nat
  BY DEF Extended, OracleWell
<1>2. t.configs = r /\ t.valid = n + 1 /\ t.queue = u.queue \cup {n} /\ t = [configs |-> r, valid |-> n + 1, queue |-> u.queue \cup {n}]
  <2> HIDE DEF r, n
  <2> QED BY DEF r, n
<1> HIDE DEF n
<1>3. /\ r \in Seq(Confs) /\ n + 1 \in 1 .. Len(r) /\ r[n + 1] = c /\ (\A i \in 1 .. n : r[i] = m[i])
      /\ (n = Len(m) => Len(r) = n + 1)
  <2>1. CASE n < Len(m)
    <3>1. r = [m EXCEPT ![n + 1] = c] /\ n + 1 \in 1 .. Len(m) BY <1>1, <2>1 DEF n
    <3>2. \A i \in 1 .. n : i \in 1 .. Len(m) /\ i # n + 1 BY <1>1
    <3>3. ~(n = Len(m)) BY <1>1, <2>1
    <3> HIDE DEF r
    <3> QED BY <1>1, <3>1, <3>2, <3>3
  <2>2. CASE ~(n < Len(m))
    <3>1. r = Append(m, c) /\ n = Len(m) BY <1>1, <2>2 DEF n
    <3> QED BY <1>1, <3>1
  <2> QED BY <2>1, <2>2
<1> HIDE DEF r
<1>4. OracleWell(t) BY <1>1, <1>2, <1>3 DEF OracleWell
<1>5. \A i \in 1 .. st.valid : t.configs[i] = st.configs[i]
  <2> SUFFICES ASSUME NEW i \in 1 .. st.valid PROVE t.configs[i] = st.configs[i] OBVIOUS
  <2>1. i \in 1 .. n BY <1>1
  <2> QED BY <1>2, <1>3, <2>1 DEF Extended, n
<1>6. \A i \in st.valid + 1 .. t.valid : t.configs[i].state = "New"
  <2> SUFFICES ASSUME NEW i \in st.valid + 1 .. n + 1 PROVE r[i].state = "New" BY <1>2
  <2>1. CASE i = n + 1 BY <1>3, <2>1
  <2>2. CASE i # n + 1
    <3>1. i \in 1 .. n /\ i \in st.valid + 1 .. n BY <1>1, <2>2
    <3> QED BY <1>3, <3>1 DEF Extended, n
  <2> QED BY <2>1, <2>2
<1>7. t.queue = st.queue \cup (st.valid .. t.valid - 1)
  <2>1. u.queue = st.queue \cup (st.valid .. n - 1) BY DEF Extended, n
  <2>2. st.valid .. (n + 1) - 1 = (st.valid .. n - 1) \cup {n} BY <1>1
  <2> QED BY <1>2, <2>1, <2>2
<1> QED BY <1>1, <1>2, <1>3, <1>4, <1>5, <1>6, <1>7 DEF Extended, n

(* insert_config.                                                          *)
LEMMA InsertWell ==
  ASSUME NEW st, OracleWell(st), NEW u, Extended(u, st), NEW e \in Elements, NEW type \in ConfTypes, NEW dups \in BOOLEAN,
         NEW t, t = InsertConfig(u, e, type, dups)
  PROVE  /\ Extended(t, st)
         /\ dups => t.valid = u.valid + 1 /\ (u.valid = Len(u.configs) => Len(t.configs) = t.valid)
<1> DEFINE same == {i \in 1 .. Len(u.configs) : u.configs[i].elements = e}
           stale == ~dups /\ same # {}
           moved == IF stale THEN [u.configs EXCEPT ![Min(same)].elements = {}] ELSE u.configs
           c == NewConfig(IF stale /\ Min(same) = u.valid + 1 THEN {} ELSE e, type)
           n == [configs |-> IF u.valid < Len(moved) THEN [moved EXCEPT ![u.valid + 1] = c] ELSE Append(moved, c),
                 valid |-> u.valid + 1, queue |-> u.queue \cup {u.valid}]
<1>1. t = IF stale /\ Min(same) <= u.valid THEN u ELSE n BY DEF InsertConfig
<1>2. u.configs \in Seq(Confs) /\ u.valid \in 1 .. Len(u.configs) /\ Len(u.configs) \in Nat BY DEF Extended, OracleWell
<1>3. CASE stale /\ Min(same) <= u.valid BY <1>1, <1>3
<1>4. CASE ~(stale /\ Min(same) <= u.valid)
  <2>1. stale => Min(same) \in same
    <3> SUFFICES ASSUME stale PROVE Min(same) \in same OBVIOUS
    <3>1. same \in SUBSET Nat /\ same # {} BY <1>2
    <3> HIDE DEF same
    <3>2. \E x \in same : \A y \in same : x <= y BY <3>1, LeastNat
    <3> QED BY <3>2 DEF Min
  <2>2. stale => Min(same) \in 1 .. Len(u.configs) /\ Min(same) > u.valid BY <1>2, <1>4, <2>1
  <2>3. {} \in Elements BY DEF Elements
  <2>4. c \in Confs /\ c.state = "New"
    <3> HIDE DEF stale, same
    <3> QED BY <2>3, NewConfigIs
  <2> HIDE DEF same, c
  <2>5. moved \in Seq(Confs) /\ Len(moved) = Len(u.configs) /\ \A i \in 1 .. u.valid : moved[i] = u.configs[i]
    <3>1. CASE stale
      <4> DEFINE k == Min(same)
                 x == [u.configs[k] EXCEPT !.elements = {}]
      <4>1. k \in 1 .. Len(u.configs) /\ k > u.valid BY <2>2, <3>1
      <4>2. u.configs[k] \in Confs BY <1>2, <4>1
      <4>3. x \in Confs BY <2>3, <4>2 DEF Confs
      <4>4. moved = [u.configs EXCEPT ![k] = x] BY <1>2, <3>1
      <4> HIDE DEF k, x, moved, stale
      <4> QED BY <1>2, <4>1, <4>3, <4>4
    <3>2. CASE ~stale BY <1>2, <3>2
    <3> QED BY <3>1, <3>2
  <2>6. t = n BY <1>1, <1>4
  <2> HIDE DEF moved, stale
  <2>7. Extended(t, st) /\ t.valid = u.valid + 1 /\ (u.valid = Len(u.configs) => Len(t.configs) = t.valid)
    BY <2>4, <2>5, <2>6, PutWell
  <2> QED BY <2>7
<1>5. dups => ~stale OBVIOUS
<1> QED
  <2> HIDE DEF stale, same, n, moved, c
  <2>1. CASE stale /\ Min(same) <= u.valid BY <1>1, <1>5, <2>1
  <2>2. CASE ~(stale /\ Min(same) <= u.valid) BY <1>4, <2>2
  <2> QED BY <2>1, <2>2

(* The states of InsertAll, one candidate after the other.                 *)
Insertions(g, st, cand, type, dups, n) ==
  g = [k \in 0 .. n |-> IF k = 0 THEN st ELSE InsertConfig(g[k - 1], cand[k], type, dups)]

(* They exist.                                                             *)
LEMMA InsertionsExist ==
  ASSUME NEW st, NEW cand, NEW type, NEW dups, NEW n \in Nat PROVE \E g : Insertions(g, st, cand, type, dups, n)
<1> DEFINE K == {k \in Nat : \E g : Insertions(g, st, cand, type, dups, k)}
<1>1. 0 \in K
  <2> DEFINE g == [k \in 0 .. 0 |-> st]
  <2>1. \A k \in 0 .. 0 : k = 0 OBVIOUS
  <2>2. Insertions(g, st, cand, type, dups, 0) BY <2>1 DEF Insertions
  <2> QED BY <2>2
<1>2. ASSUME NEW m \in Nat, m \in K PROVE m + 1 \in K
  <2>1. PICK g : Insertions(g, st, cand, type, dups, m) BY <1>2
  <2> DEFINE h == [k \in 0 .. m + 1 |-> IF k = m + 1 THEN InsertConfig(g[m], cand[k], type, dups) ELSE g[k]]
  <2>2. ASSUME NEW k \in 0 .. m + 1 PROVE h[k] = IF k = 0 THEN st ELSE InsertConfig(h[k - 1], cand[k], type, dups)
    <3>1. CASE k = m + 1
      <4>1. k # 0 /\ k - 1 = m /\ m \in 0 .. m + 1 /\ m # m + 1 BY <3>1
      <4>2. h[k - 1] = g[m] BY <4>1
      <4> QED BY <3>1, <4>1, <4>2
    <3>2. CASE k # m + 1
      <4>1. k \in 0 .. m BY <3>2
      <4>2. g[k] = IF k = 0 THEN st ELSE InsertConfig(g[k - 1], cand[k], type, dups) BY <2>1, <4>1 DEF Insertions
      <4>3. k # 0 => k - 1 \in 0 .. m + 1 /\ k - 1 # m + 1 BY <4>1
      <4>4. k # 0 => h[k - 1] = g[k - 1] BY <4>3
      <4> QED BY <3>2, <4>2, <4>4
    <3> QED BY <3>1, <3>2
  <2>3. Insertions(h, st, cand, type, dups, m + 1)
    <3>1. h = [k \in 0 .. m + 1 |-> h[k]] OBVIOUS
    <3> HIDE DEF h
    <3>2. [k \in 0 .. m + 1 |-> h[k]] = [k \in 0 .. m + 1 |-> IF k = 0 THEN st ELSE InsertConfig(h[k - 1], cand[k], type, dups)]
      BY <2>2
    <3> QED BY <3>1, <3>2 DEF Insertions
  <2> QED BY <2>3
<1> HIDE DEF K
<1>3. n \in K BY <1>1, <1>2, InductiveSet
<1> QED BY <1>3 DEF K

(* Inserting all candidates.                                               *)
LEMMA InsertAllWell ==
  ASSUME NEW st, OracleWell(st), NEW cand \in Seq(Elements), NEW type \in ConfTypes, NEW dups \in BOOLEAN
  PROVE  Extended(InsertAll(st, cand, type, dups), st)
<1> DEFINE n == Len(cand)
           f == CHOOSE g : Insertions(g, st, cand, type, dups, n)
<1>1. InsertAll(st, cand, type, dups) = f[n] BY DEF InsertAll, Insertions
<1>2. n \in Nat /\ \A k \in 1 .. n : cand[k] \in Elements OBVIOUS
<1>3. Insertions(f, st, cand, type, dups, n)
  <2> HIDE DEF n
  <2> QED BY <1>2, InsertionsExist
<1> HIDE DEF f, n
<1>4. \A k \in 0 .. n : f[k] = IF k = 0 THEN st ELSE InsertConfig(f[k - 1], cand[k], type, dups) BY <1>3 DEF Insertions
<1> DEFINE K == {k \in Nat : k <= n => Extended(f[k], st)}
<1>5. 0 \in K
  <2>1. f[0] = st BY <1>2, <1>4
  <2>2. st.valid \in Nat BY DEF OracleWell
  <2>3. st.valid .. st.valid - 1 = {} /\ st.valid + 1 .. st.valid = {} BY <2>2
  <2>4. Extended(st, st) BY <2>2, <2>3 DEF Extended
  <2> QED BY <2>1, <2>4
<1>6. ASSUME NEW k \in Nat, k \in K PROVE k + 1 \in K
  <2> SUFFICES ASSUME k + 1 <= n PROVE Extended(f[k + 1], st) OBVIOUS
  <2>1. Extended(f[k], st) BY <1>2, <1>6
  <2>2. k + 1 \in 0 .. n /\ k + 1 \in 1 .. n /\ k + 1 # 0 /\ (k + 1) - 1 = k BY <1>2
  <2>3. f[k + 1] = InsertConfig(f[k], cand[k + 1], type, dups) BY <1>4, <2>2
  <2>4. cand[k + 1] \in Elements BY <1>2, <2>2
  <2> QED BY <2>1, <2>3, <2>4, InsertWell
<1> HIDE DEF K
<1>7. n \in K BY <1>2, <1>5, <1>6, InductiveSet
<1> QED BY <1>1, <1>2, <1>7 DEF K

(* Interactions are elements.                                              *)
LEMMA InteractionsIs ==
  ASSUME NEW ns \in SUBSET Namespaces PROVE Quadratic(ns) \in Elements /\ \A c \in Confs : Interactions(ns, c) \in Elements
BY DEF Quadratic, Interactions, Elements, Confs

(* gen_configs: the valid configurations stay, new ones come behind them.  *)
LEMMA GenWell ==
  ASSUME NEW st, OracleWell(st), NEW inter \in Elements, NEW ns \in SUBSET Namespaces, NEW t, t = GenConfigs(st, inter, ns)
  PROVE  /\ Extended(t, st)
         /\ oracle = "champdupe" => IF Len(st.configs) = 1 THEN t.valid = st.valid + 2 /\ Len(t.configs) = t.valid ELSE t = st
<1> DEFINE champ == st.configs[1].elements
           hidden == [st EXCEPT !.configs[1].elements = {}]
           candidates == IF oracle = "one_diff" THEN Ordered(inter) \o Ordered(champ) ELSE Ordered(Quadratic(ns))
           toggled == [k \in DOMAIN candidates |-> Toggle(champ, candidates[k])]
           done == InsertAll(hidden, toggled, ConfType, FALSE)
<1>0. /\ st.configs \in Seq(Confs) /\ st.valid \in Nat /\ st.valid \in 1 .. Len(st.configs) /\ Len(st.configs) \in Nat
      /\ st = [configs |-> st.configs, valid |-> st.valid, queue |-> st.queue] /\ st.queue \in SUBSET Nat
  BY DEF OracleWell
<1>1. 1 \in 1 .. Len(st.configs) /\ 1 \in 1 .. st.valid BY <1>0
<1>2. st.configs[1] \in Confs /\ champ \in Elements
  <2>1. st.configs[1] \in Confs BY <1>0, <1>1
  <2> QED BY <2>1 DEF Confs
<1>3. {} \in Elements /\ ConfType \in ConfTypes /\ "Interaction" \in ConfTypes BY DEF Elements, ConfType, ConfTypes
<1>4. Extended(st, st)
  <2>1. st.valid .. st.valid - 1 = {} /\ st.valid + 1 .. st.valid = {} BY <1>0
  <2> QED BY <1>0, <2>1 DEF Extended
<1>5. CASE oracle # "champdupe"
  <2>1. t = [done EXCEPT !.configs[1].elements = champ] BY <1>5 DEF GenConfigs
  <2>2. candidates \in Seq(Namespaces \X Namespaces)
    <3>1. Quadratic(ns) \in Elements BY InteractionsIs
    <3>2. Ordered(inter) \in Seq(Namespaces \X Namespaces) /\ Ordered(champ) \in Seq(Namespaces \X Namespaces)
          /\ Ordered(Quadratic(ns)) \in Seq(Namespaces \X Namespaces)
      BY <1>2, <3>1, OrderedSeq
    <3> QED BY <3>2
  <2> HIDE DEF candidates
  <2>3. toggled \in Seq(Elements)
    <3>1. \A i \in Namespaces \X Namespaces : Toggle(champ, i) \in Elements BY <1>2 DEF Toggle, Elements
    <3>2. \A k \in DOMAIN candidates : candidates[k] \in Namespaces \X Namespaces BY <2>2
    <3>3. DOMAIN candidates = 1 .. Len(candidates) /\ Len(candidates) \in Nat BY <2>2
    <3> HIDE DEF champ
    <3>4. toggled \in [1 .. Len(candidates) -> Elements] BY <3>1, <3>2, <3>3
    <3> HIDE DEF toggled
    <3> QED BY <3>3, <3>4
  <2> HIDE DEF toggled
  <2> DEFINE hc == [st.configs EXCEPT ![1] = [st.configs[1] EXCEPT !.elements = {}]]
  <2>4. hidden = [configs |-> hc, valid |-> st.valid, queue |-> st.queue]
    <3>1. ASSUME NEW h, h = [st EXCEPT !.configs[1].elements = {}]
          PROVE  h = [configs |-> hc, valid |-> st.valid, queue |-> st.queue]
      BY <1>0, <1>1, <3>1
    <3> QED BY <3>1
  <2>5. [st.configs[1] EXCEPT !.elements = {}] \in Confs BY <1>2, <1>3 DEF Confs
  <2>6. /\ hc \in Seq(Confs) /\ Len(hc) = Len(st.configs) /\ hc[1] = [st.configs[1] EXCEPT !.elements = {}]
        /\ \A i \in 1 .. Len(st.configs) : i # 1 => hc[i] = st.configs[i]
    <3> DEFINE x == [st.configs[1] EXCEPT !.elements = {}]
    <3>1. x \in Confs /\ hc = [st.configs EXCEPT ![1] = x] BY <2>5
    <3> HIDE DEF x, hc
    <3>2. hc[1] = x BY <1>0, <1>1, <3>1
    <3> QED BY <1>0, <1>1, <3>1, <3>2 DEF x
  <2> HIDE DEF hc, hidden
  <2>7. hidden.configs = hc /\ hidden.valid = st.valid /\ hidden.queue = st.queue /\ OracleWell(hidden)
    BY <1>0, <2>4, <2>6 DEF OracleWell
  <2>8. Extended(done, hidden) BY <1>3, <2>3, <2>7, InsertAllWell
  <2> HIDE DEF done
  <2> DEFINE dc == [done.configs EXCEPT ![1] = [done.configs[1] EXCEPT !.elements = champ]]
  <2>9. /\ done = [configs |-> done.configs, valid |-> done.valid, queue |-> done.queue] /\ done.configs \in Seq(Confs)
        /\ done.valid \in Nat /\ done.valid >= st.valid /\ done.valid \in 1 .. Len(done.configs) /\ done.queue \in SUBSET Nat
        /\ done.configs[1] = hc[1] /\ Len(done.configs) \in Nat
    BY <1>1, <2>7, <2>8 DEF Extended, OracleWell
  <2>10. 1 \in 1 .. Len(done.configs) BY <2>9
  <2>11. t = [configs |-> dc, valid |-> done.valid, queue |-> done.queue] BY <2>1, <2>9
  <2>12. [done.configs[1] EXCEPT !.elements = champ] = st.configs[1]
    <3> DEFINE a == st.configs[1]
    <3>1. a \in Confs BY <1>2
    <3>2. [[a EXCEPT !.elements = {}] EXCEPT !.elements = a.elements] = a
      <4> HIDE DEF a
      <4> QED BY <3>1 DEF Confs
    <3> QED BY <2>6, <2>9, <3>2
  <2>13. /\ dc \in Seq(Confs) /\ Len(dc) = Len(done.configs) /\ dc[1] = st.configs[1]
         /\ \A i \in 1 .. Len(done.configs) : i # 1 => dc[i] = done.configs[i]
    BY <1>2, <2>9, <2>10, <2>12
  <2> HIDE DEF dc
  <2>14. t.configs = dc /\ t.valid = done.valid /\ t.queue = done.queue /\ OracleWell(t) BY <2>9, <2>11, <2>13 DEF OracleWell
  <2>15. ASSUME NEW i \in 1 .. st.valid PROVE t.configs[i] = st.configs[i]
    <3>1. i \in 1 .. Len(done.configs) /\ i \in 1 .. Len(st.configs) BY <1>0, <2>9
    <3>2. CASE i = 1 BY <2>13, <2>14, <3>2
    <3>3. CASE i # 1
      <4>1. done.configs[i] = hc[i] BY <2>7, <2>8 DEF Extended
      <4> QED BY <2>6, <2>13, <2>14, <3>1, <3>3, <4>1
    <3> QED BY <3>2, <3>3
  <2>16. ASSUME NEW i \in st.valid + 1 .. t.valid PROVE t.configs[i].state = "New"
    <3>1. i \in 1 .. Len(done.configs) /\ i # 1 BY <1>0, <2>9, <2>14
    <3>2. done.configs[i].state = "New" BY <2>7, <2>8, <2>14 DEF Extended
    <3> QED BY <2>13, <2>14, <3>1, <3>2
  <2>17. t.queue = st.queue \cup (st.valid .. t.valid - 1) BY <2>7, <2>8, <2>14 DEF Extended
  <2> QED BY <1>5, <2>9, <2>14, <2>15, <2>16, <2>17 DEF Extended
<1>6. CASE oracle = "champdupe" /\ Len(st.configs) = 1
  <2> DEFINE u == InsertConfig(st, {}, "Interaction", TRUE)
  <2>1. t = InsertConfig(u, champ, ConfType, TRUE) BY <1>6 DEF GenConfigs
  <2>2. Extended(u, st) /\ u.valid = st.valid + 1 /\ Len(u.configs) = u.valid
    <3>0. PICK d \in BOOLEAN : d = TRUE OBVIOUS
    <3>1. st.valid = Len(st.configs) BY <1>0, <1>6
    <3>2. u = InsertConfig(st, {}, "Interaction", d) BY <3>0
    <3> HIDE DEF u
    <3>3. Extended(u, st) /\ (d => u.valid = st.valid + 1 /\ (st.valid = Len(st.configs) => Len(u.configs) = u.valid))
      BY ONLY <1>3, <1>4, <3>2, InsertWell, OracleWell(st), d \in BOOLEAN
    <3> QED BY <3>0, <3>1, <3>3
  <2> HIDE DEF u, champ
  <2>3. Extended(t, st) /\ t.valid = u.valid + 1 /\ Len(t.configs) = t.valid
    <3>0. PICK d \in BOOLEAN : d = TRUE OBVIOUS
    <3>1. t = InsertConfig(u, champ, ConfType, d) BY <2>1, <3>0
    <3>2. Extended(t, st) /\ (d => t.valid = u.valid + 1 /\ (u.valid = Len(u.configs) => Len(t.configs) = t.valid))
      BY ONLY <1>2, <1>3, <2>2, <3>1, InsertWell, OracleWell(st), d \in BOOLEAN
    <3> QED BY <2>2, <3>0, <3>2
  <2> QED BY <1>0, <1>6, <2>2, <2>3
<1>7. CASE oracle = "champdupe" /\ Len(st.configs) # 1
  <2>1. t = st BY <1>7 DEF GenConfigs
  <2> QED BY <1>4, <1>7, <2>1
<1> QED BY <1>5, <1>6, <1>7

-----------------------------------------------------------------------------
(* Indices of slots and of their configurations.                           *)
LEMMA SlotPlaces ==
  ASSUME NEW es, NEW cs, NEW v, NEW q, NEW ws, NEW ns, AmlWell(es, cs, v, q, ws, ns)
  PROVE  /\ Len(cs) \in Nat /\ Len(es) \in Nat /\ 1 \in 1 .. Len(es) /\ 1 \in 1 .. Len(cs) /\ DOMAIN es = 1 .. Len(es)
         /\ \A k \in 1 .. Len(es) : /\ es[k] \in Estimators /\ es[k].config + 1 \in 1 .. v /\ es[k].config + 1 \in 1 .. Len(cs)
                                   /\ es[k].config \in Nat /\ cs[es[k].config + 1] \in Confs
                                   /\ k - 1 \in 0 .. max_live_configs - 1
<1>1. /\ cs \in Seq(Confs) /\ v \in Nat /\ v \in 1 .. Len(cs) /\ es \in Seq(Estimators) /\ Len(es) \in 1 .. max_live_configs
  BY DEF AmlWell, TypesOk
<1>2. Len(cs) \in Nat /\ Len(es) \in Nat /\ 1 \in 1 .. Len(es) /\ 1 \in 1 .. Len(cs) /\ DOMAIN es = 1 .. Len(es) BY <1>1
<1>3. ASSUME NEW k \in 1 .. Len(es)
      PROVE  /\ es[k] \in Estimators /\ es[k].config + 1 \in 1 .. v /\ es[k].config + 1 \in 1 .. Len(cs)
             /\ es[k].config \in Nat /\ cs[es[k].config + 1] \in Confs /\ k - 1 \in 0 .. max_live_configs - 1
  <2>1. es[k] \in Estimators BY <1>1
  <2>2. es[k].config \in 0 .. v - 1 BY DEF AmlWell, SlotsOk
  <2> DEFINE c == es[k].config
  <2> HIDE DEF c
  <2>3. c \in 0 .. v - 1 BY <2>2 DEF c
  <2>4. c + 1 \in 1 .. v /\ c + 1 \in 1 .. Len(cs) /\ c \in Nat BY <1>1, <1>2, <2>3
  <2>5. cs[c + 1] \in Confs BY <1>1, <2>4
  <2>6. k - 1 \in 0 .. max_live_configs - 1 BY <1>1, AutoMLAssumption
  <2> QED BY <2>1, <2>4, <2>5, <2>6 DEF c
<1> QED BY <1>2, <1>3

(* New configurations behind the valid ones disturb nobody.                *)
LEMMA ExtendWell ==
  ASSUME NEW es, NEW st, OracleWell(st), NEW ws, NEW ns, AmlWell(es, st.configs, st.valid, st.queue, ws, ns), NEW t, Extended(t, st)
  PROVE  AmlWell(es, t.configs, t.valid, t.queue, ws, ns)
<1> DEFINE cs == st.configs
           v == st.valid
           ct == t.configs
           vt == t.valid
<1>1. /\ ct \in Seq(Confs) /\ vt \in Nat /\ vt \in 1 .. Len(ct) /\ vt >= v /\ v \in Nat /\ v \in 1 .. Len(cs)
      /\ (\A i \in 1 .. v : ct[i] = cs[i]) /\ (\A i \in v + 1 .. vt : ct[i].state = "New")
      /\ t.queue = st.queue \cup (v .. vt - 1) /\ t.queue \in SUBSET Nat
  BY DEF Extended, OracleWell
<1>2. /\ \A k \in 1 .. Len(es) : es[k].config + 1 \in 1 .. v /\ es[k].config \in Nat
  BY SlotPlaces
<1> HIDE DEF cs, v, ct, vt
<1>3. TypesOk(es, ct, vt, t.queue, ws, ns) BY <1>1 DEF AmlWell, TypesOk
<1>4. \A k \in 1 .. Len(es) : ct[es[k].config + 1] = cs[es[k].config + 1] BY <1>1, <1>2
<1>5. ct[1] = cs[1] BY <1>1
<1>6. OwnsOk(es, ct, ws, ns) /\ FairOk(es, ct)
  <2>1. OwnsOk(es, cs, ws, ns) /\ FairOk(es, cs) BY DEF AmlWell, cs
  <2>2. \A k \in 2 .. Len(es) : k \in 1 .. Len(es) OBVIOUS
  <2> QED BY <1>4, <1>5, <2>1, <2>2 DEF OwnsOk, FairOk
<1>7. SlotsOk(es, ct, vt, t.queue, ns)
  <2>0. SlotsOk(es, cs, v, st.queue, ns) BY DEF AmlWell, cs, v
  <2>1. \A k \in 1 .. Len(es) : es[k].config \in 0 .. v - 1 /\ es[k].config \in 0 .. vt - 1 /\ es[k].config \notin t.queue
    <3> SUFFICES ASSUME NEW k \in 1 .. Len(es)
                 PROVE  es[k].config \in 0 .. v - 1 /\ es[k].config \in 0 .. vt - 1 /\ es[k].config \notin t.queue
      OBVIOUS
    <3>1. es[k].config \in 0 .. v - 1 /\ es[k].config \notin st.queue BY <2>0 DEF SlotsOk
    <3>2. es[k].config \notin v .. vt - 1 /\ es[k].config \in 0 .. vt - 1 BY <1>1, <3>1
    <3> QED BY <1>1, <3>1, <3>2
  <2>2. t.queue \subseteq 0 .. vt - 1 BY <1>1, <2>0 DEF SlotsOk
  <2>3. ASSUME NEW i \in 0 .. vt - 1
        PROVE  ct[i + 1].state = "Live" <=> (\E k \in 1 .. Len(es) : es[k].config = i) /\ ~(i = 0 /\ ns = {})
    <3>1. CASE i \in 0 .. v - 1
      <4>1. i + 1 \in 1 .. v BY <1>1, <3>1
      <4> QED BY <1>1, <2>0, <3>1, <4>1 DEF SlotsOk
    <3>2. CASE i \notin 0 .. v - 1
      <4>1. i + 1 \in v + 1 .. vt BY <1>1, <3>2
      <4>2. ct[i + 1].state = "New" BY <1>1, <4>1
      <4> QED BY <2>1, <3>2, <4>2
    <3> QED BY <3>1, <3>2
  <2> QED BY <2>0, <2>1, <2>2, <2>3 DEF SlotsOk
<1> QED BY <1>3, <1>5, <1>6, <1>7 DEF AmlWell, cs, v, ct, vt

(* Changes of leases and of nothing else.                                  *)
LEMMA LeasesWell ==
  ASSUME NEW es, NEW cs, NEW v, NEW q, NEW ws, NEW ns, AmlWell(es, cs, v, q, ws, ns), NEW ct \in Seq(Confs), Len(ct) = Len(cs),
         \A i \in 1 .. Len(cs) : ct[i].elements = cs[i].elements /\ ct[i].type = cs[i].type /\ ct[i].state = cs[i].state
  PROVE  AmlWell(es, ct, v, q, ws, ns)
<1>1. 1 \in 1 .. Len(cs) /\ \A k \in 1 .. Len(es) : es[k].config + 1 \in 1 .. Len(cs) BY SlotPlaces
<1>2. \A i \in 1 .. Len(cs) : Key(ct[i]) = Key(cs[i]) /\ Interactions(ns, ct[i]) = Interactions(ns, cs[i]) BY DEF Key, Interactions
<1>3. TypesOk(es, ct, v, q, ws, ns) BY DEF AmlWell, TypesOk
<1>4. OwnsOk(es, ct, ws, ns) BY <1>1, <1>2 DEF AmlWell, OwnsOk
<1>5. FairOk(es, ct)
  <2>1. \A k \in 2 .. Len(es) : k \in 1 .. Len(es) OBVIOUS
  <2> QED BY <1>1, <1>2, <2>1 DEF AmlWell, FairOk
<1>6. SlotsOk(es, ct, v, q, ns)
  <2>1. \A i \in 0 .. v - 1 : ct[i + 1].state = cs[i + 1].state
    <3> SUFFICES ASSUME NEW i \in 0 .. v - 1 PROVE i + 1 \in 1 .. Len(cs) OBVIOUS
    <3>1. v \in 1 .. Len(cs) /\ Len(cs) \in Nat BY SlotPlaces DEF AmlWell, TypesOk
    <3> QED BY <3>1
  <2> QED BY <2>1, SMTT(40) DEF AmlWell, SlotsOk
<1> QED BY <1>1, <1>3, <1>4, <1>5, <1>6 DEF AmlWell

(* The interactions of all slots for the namespaces seen by now; with the  *)
(* first ones the champion goes live.                                      *)
LEMMA RegeneratedWell ==
  ASSUME NEW es, NEW cs, NEW v, NEW q, NEW ws, NEW ns, AmlWell(es, cs, v, q, ws, ns), NEW seen \in SUBSET Namespaces,
         seen # {}, NEW er, er = Regenerated(es, cs, seen), NEW ct,
         ct = IF ns = {} THEN [cs EXCEPT ![1].state = "Live"] ELSE cs
  PROVE  AmlWell(er, ct, v, q, ws, seen)
<1>0. /\ DOMAIN es = 1 .. Len(es) /\ Len(es) \in Nat /\ 1 \in 1 .. Len(es) /\ 1 \in 1 .. Len(cs) /\ Len(cs) \in Nat
      /\ \A k \in 1 .. Len(es) : es[k] \in Estimators /\ cs[es[k].config + 1] \in Confs /\ es[k].config + 1 \in 1 .. Len(cs)
  BY SlotPlaces
<1>1. ASSUME NEW k \in 1 .. Len(es)
      PROVE  /\ er[k] \in Estimators /\ er[k].config = es[k].config /\ er[k].eligible = es[k].eligible /\ er[k].self = es[k].self
             /\ er[k].champ = es[k].champ /\ er[k].interactions = Interactions(seen, cs[es[k].config + 1])
  <2> DEFINE x == Interactions(seen, cs[es[k].config + 1])
  <2>1. er[k] = [es[k] EXCEPT !.interactions = x] BY <1>0 DEF Regenerated
  <2>2. x \in Elements BY <1>0, InteractionsIs
  <2> HIDE DEF x
  <2> QED BY <1>0, <2>1, <2>2 DEF Estimators, x
<1>2. er \in Seq(Estimators) /\ Len(er) = Len(es)
  <2>1. er \in [1 .. Len(es) -> Estimators] BY <1>0, <1>1 DEF Regenerated
  <2> QED BY <1>0, <2>1
<1>3. /\ ct \in Seq(Confs) /\ Len(ct) = Len(cs)
      /\ \A i \in 1 .. Len(cs) : ct[i].elements = cs[i].elements /\ ct[i].type = cs[i].type /\ (i # 1 \/ ns # {} => ct[i].state = cs[i].state)
      /\ ns = {} => ct[1].state = "Live"
  <2>0. cs \in Seq(Confs) /\ cs[1] \in Confs
    <3>1. cs \in Seq(Confs) BY DEF AmlWell, TypesOk
    <3> QED BY <1>0, <3>1
  <2>1. CASE ns # {} BY <2>0, <2>1
  <2>2. CASE ns = {}
    <3> DEFINE x == [cs[1] EXCEPT !.state = "Live"]
    <3>1. x \in Confs /\ x.elements = cs[1].elements /\ x.type = cs[1].type /\ x.state = "Live" BY <2>0 DEF Confs
    <3>2. ct = [cs EXCEPT ![1] = x] BY <2>0, <2>2
    <3> HIDE DEF x
    <3> QED BY <1>0, <2>0, <2>2, <3>1, <3>2
  <2> QED BY <2>1, <2>2
<1>4. \A i \in 1 .. Len(cs) : Key(ct[i]) = Key(cs[i]) /\ Interactions(seen, ct[i]) = Interactions(seen, cs[i]) BY <1>3 DEF Key, Interactions
<1>5. TypesOk(er, ct, v, q, ws, seen) BY <1>2, <1>3 DEF AmlWell, TypesOk
<1>6. SlotsOk(er, ct, v, q, seen)
  <2>0. SlotsOk(es, cs, v, q, ns) /\ v \in Nat /\ v \in 1 .. Len(cs) BY DEF AmlWell, TypesOk
  <2>1. \A i : (\E k \in 1 .. Len(er) : er[k].config = i) <=> (\E k \in 1 .. Len(es) : es[k].config = i) BY <1>1, <1>2
  <2>2. ASSUME NEW i \in 0 .. v - 1
        PROVE  ct[i + 1].state = "Live" <=> (\E k \in 1 .. Len(er) : er[k].config = i) /\ ~(i = 0 /\ seen = {})
    <3>1. i + 1 \in 1 .. Len(cs) /\ (i = 0 <=> i + 1 = 1) BY <1>0, <2>0
    <3>2. cs[i + 1].state = "Live" <=> (\E k \in 1 .. Len(es) : es[k].config = i) /\ ~(i = 0 /\ ns = {}) BY <2>0 DEF SlotsOk
    <3>3. CASE i = 0 /\ ns = {}
      <4>1. ct[i + 1].state = "Live" BY <1>3, <3>1, <3>3
      <4>2. es[1].config = i BY <2>0, <3>3 DEF SlotsOk
      <4> QED BY <1>0, <2>1, <4>1, <4>2
    <3>4. CASE ~(i = 0 /\ ns = {})
      <4>1. ct[i + 1].state = cs[i + 1].state BY <1>3, <3>1, <3>4
      <4> QED BY <2>1, <3>2, <3>4, <4>1
    <3> QED BY <3>3, <3>4
  <2>3. \A j, k \in 1 .. Len(er) : er[j].config = er[k].config => j = k BY <1>1, <1>2, <2>0, ZenonT(60) DEF SlotsOk
  <2>4. er[1].config = 0 /\ ~er[1].eligible BY <1>0, <1>1, <2>0 DEF SlotsOk
  <2>5. \A k \in 1 .. Len(er) : er[k].config \in 0 .. v - 1 /\ er[k].config \notin q BY <1>1, <1>2, <2>0 DEF SlotsOk
  <2> QED BY <2>0, <2>2, <2>3, <2>4, <2>5 DEF SlotsOk
<1>7. OwnsOk(er, ct, ws, seen)
  <2>1. OwnsOk(es, cs, ws, ns) BY DEF AmlWell
  <2> SUFFICES ASSUME NEW k \in 1 .. Len(es)
               PROVE  ws[k - 1] = Key(ct[er[k].config + 1]) /\ er[k].interactions = Interactions(seen, ct[er[k].config + 1])
    BY <1>2 DEF OwnsOk
  <2> DEFINE c == es[k].config + 1
  <2>2. c \in 1 .. Len(cs) /\ er[k].config + 1 = c /\ ws[k - 1] = Key(cs[c]) /\ er[k].interactions = Interactions(seen, cs[c])
    BY <1>0, <1>1, <2>1 DEF OwnsOk
  <2> HIDE DEF c
  <2> QED BY <1>4, <2>2
<1>8. \A k \in 2 .. Len(es) : k \in 1 .. Len(es) OBVIOUS
<1>9. FairOk(er, ct)
  <2>1. FairOk(es, cs) BY DEF AmlWell
  <2> QED BY <1>0, <1>1, <1>2, <1>4, <1>8, <2>1, ZenonT(60) DEF FairOk
<1>10. BudgetOk(er)
  <2>1. Favoured(er) = Favoured(es) BY <1>1, <1>2, <1>8 DEF Favoured
  <2> QED BY <2>1 DEF AmlWell, BudgetOk
<1> QED BY <1>5, <1>6, <1>7, <1>9, <1>10 DEF AmlWell

(* process_example.                                                        *)
LEMMA ProcessInv ==
  ASSUME AmlInv, NEW ns \in SUBSET Namespaces, ProcessExample(ns), UNCHANGED <<weights, oracle>>, amlStep = "idle",
         amlStep' \in {"idle", "schedule"}, amlStep' = "schedule" => live_slot' = 0 /\ ns_counter' # {},
         live_slot' \in 0 .. max_live_configs - 1
  PROVE  AmlInv'
<1> DEFINE seen == ns_counter \cup ns
           es == IF seen = ns_counter THEN estimators ELSE Regenerated(estimators, configs, seen)
<1>1. ns_counter' = seen /\ estimators' = es BY DEF ProcessExample
<1>2. AmlWell(estimators, configs, valid_config_size, index_queue, weights, ns_counter) /\ DupeOk BY DEF AmlInv
<1>3. ns_counter \in SUBSET Namespaces BY <1>2 DEF AmlWell, TypesOk
<1>4. ASSUME AmlWell(estimators, configs, valid_config_size, index_queue, weights, ns_counter)', DupeOk' PROVE AmlInv'
  <2>1. Len(estimators') \in Nat BY <1>4 DEF AmlWell, TypesOk
  <2>2. amlStep' = "schedule" => ~(live_slot' > Len(estimators')) BY <2>1
  <2> QED BY <1>4, <2>2 DEF AmlInv
<1>5. CASE seen = ns_counter
  <2>1. UNCHANGED <<configs, valid_config_size, index_queue, estimators, ns_counter>> BY <1>1, <1>5 DEF ProcessExample
  <2> QED BY <1>2, <1>4, <2>1 DEF DupeOk
<1>6. CASE seen # ns_counter
  <2>1. seen # {} /\ seen \in SUBSET Namespaces /\ es = Regenerated(estimators, configs, seen) BY <1>3, <1>6
  <2>2. CASE configs[1].state # "New"
    <3>1. UNCHANGED <<configs, valid_config_size, index_queue>> BY <1>6, <2>2 DEF ProcessExample
    <3>2. ns_counter # {} BY <1>2, <2>2 DEF AmlWell
    <3> HIDE DEF seen, es
    <3>3. AmlWell(es, configs, valid_config_size, index_queue, weights, seen) BY <1>2, <2>1, <3>2, RegeneratedWell
    <3>4. AmlWell(estimators', configs', valid_config_size', index_queue', weights', ns_counter') BY <1>1, <3>1, <3>3
    <3> QED BY <1>2, <1>4, <3>1, <3>4 DEF DupeOk
  <2>3. CASE configs[1].state = "New"
    <3> DEFINE st == [OracleState EXCEPT !.configs[1].state = "Live"]
               ct == [configs EXCEPT ![1].state = "Live"]
               t == GenConfigs(st, es[1].interactions, seen)
    <3>1. configs' = t.configs /\ valid_config_size' = t.valid /\ index_queue' = t.queue
      BY <1>6, <2>3 DEF ProcessExample, SetOracle
    <3>2. ns_counter = {}
      <4>1. 0 \in 0 .. valid_config_size - 1 /\ 1 \in 1 .. Len(estimators) /\ estimators[1].config = 0
        BY <1>2, SlotPlaces DEF AmlWell, TypesOk, SlotsOk
      <4>2. configs[0 + 1].state = "Live" <=> (\E k \in 1 .. Len(estimators) : estimators[k].config = 0) /\ ~(0 = 0 /\ ns_counter = {})
        BY <1>2, <4>1 DEF AmlWell, SlotsOk
      <4> QED BY <2>3, <4>1, <4>2
    <3>3. /\ configs \in Seq(Confs) /\ valid_config_size \in Nat /\ valid_config_size \in 1 .. Len(configs)
          /\ index_queue \in SUBSET Nat
      BY <1>2 DEF AmlWell, TypesOk
    <3>4. st = [configs |-> ct, valid |-> valid_config_size, queue |-> index_queue]
      <4>1. ASSUME NEW h, h = [OracleState EXCEPT !.configs[1].state = "Live"]
            PROVE  h = [configs |-> ct, valid |-> valid_config_size, queue |-> index_queue]
        BY <3>3, <4>1 DEF OracleState
      <4> QED BY <4>1
    <3> HIDE DEF seen, es, st, ct
    <3>5. AmlWell(es, ct, valid_config_size, index_queue, weights, seen) BY <1>2, <2>1, <3>2, RegeneratedWell DEF ct
    <3>6. st.configs = ct /\ st.valid = valid_config_size /\ st.queue = index_queue BY <3>4
    <3>7. ct \in Seq(Confs) /\ valid_config_size \in 1 .. Len(ct) BY <3>5 DEF AmlWell, TypesOk
    <3>8. OracleWell(st) BY <3>3, <3>4, <3>6, <3>7 DEF OracleWell
    <3>9. es[1].interactions \in Elements
      <4>1. es[1] \in Estimators BY <3>5, SlotPlaces
      <4> QED BY <4>1 DEF Estimators
    <3>10. /\ Extended(t, st)
           /\ oracle = "champdupe" => IF Len(st.configs) = 1 THEN t.valid = st.valid + 2 /\ Len(t.configs) = t.valid ELSE t = st
      BY <2>1, <3>8, <3>9, GenWell
    <3> HIDE DEF t
    <3>11. AmlWell(es, st.configs, st.valid, st.queue, weights, seen) BY <3>5, <3>6
    <3>12. AmlWell(es, t.configs, t.valid, t.queue, weights, seen) BY <3>8, <3>10, <3>11, ExtendWell
    <3>13. AmlWell(estimators', configs', valid_config_size', index_queue', weights', ns_counter') BY <1>1, <3>1, <3>12
    <3>14. DupeOk'
      <4> SUFFICES ASSUME oracle = "champdupe" PROVE valid_config_size' = Len(configs') /\ valid_config_size' \in {1, 3} BY DEF DupeOk
      <4>1. valid_config_size = Len(configs) /\ valid_config_size \in {1, 3} BY <1>2 DEF DupeOk
      <4>2. Len(ct) = Len(configs) BY <3>3 DEF ct
      <4>3. CASE valid_config_size = 1
        <5>2. Len(st.configs) = 1 /\ st.valid = 1 BY <3>6, <4>1, <4>2, <4>3
        <5>3. t.valid = st.valid + 2 /\ Len(t.configs) = t.valid BY <3>10, <5>2
        <5>1. t.valid = 3 /\ Len(t.configs) = 3 BY <5>2, <5>3
        <5> QED BY <3>1, <5>1
      <4>4. CASE valid_config_size = 3
        <5>1. t = st BY <3>6, <3>10, <4>1, <4>2, <4>4
        <5> QED BY <3>1, <3>6, <4>1, <4>2, <4>4, <5>1
      <4> QED BY <4>1, <4>3, <4>4
    <3> QED BY <1>4, <3>13, <3>14
  <2> QED BY <2>2, <2>3
<1> QED BY <1>5, <1>6

-----------------------------------------------------------------------------
(* Slots that have priority.                                               *)
LEMMA FavouredIs ==
  ASSUME NEW es \in Seq(Estimators)
  PROVE  IsFiniteSet(Favoured(es)) /\ Cardinality(Favoured(es)) \in Nat /\ Cardinality(2 .. Len(es)) = (IF Len(es) >= 2 THEN Len(es) - 1 ELSE 0)
         /\ Cardinality(Favoured(es)) <= Cardinality(2 .. Len(es))
<1>1. Len(es) \in Nat OBVIOUS
<1>2. 2 \in Int /\ Len(es) \in Int BY <1>1
<1>3. IsFiniteSet(2 .. Len(es)) /\ Cardinality(2 .. Len(es)) = IF 2 > Len(es) THEN 0 ELSE Len(es) - 2 + 1 BY <1>2, FS_Interval
<1>4. Favoured(es) \subseteq 2 .. Len(es) BY DEF Favoured
<1>5. IsFiniteSet(Favoured(es)) /\ Cardinality(Favoured(es)) <= Cardinality(2 .. Len(es)) BY <1>3, <1>4, FS_Subset
<1> QED BY <1>1, <1>3, <1>5, FS_CardinalityType

(* The lease of a slot is doubled.                                         *)
LEMMA DoubledWell ==
  ASSUME AmlInv, NEW s \in 0 .. max_live_configs - 1
  PROVE  /\ AmlWell(estimators, Doubled(s), valid_config_size, index_queue, weights, ns_counter) /\ Len(Doubled(s)) = Len(configs)
         /\ \A i \in 1 .. Len(configs) : /\ Doubled(s)[i].elements = configs[i].elements /\ Doubled(s)[i].type = configs[i].type
                                       /\ Doubled(s)[i].state = configs[i].state
         /\ Need(s) => Doubled(s) = configs
<1>0. AmlWell(estimators, configs, valid_config_size, index_queue, weights, ns_counter) BY DEF AmlInv
<1>1. CASE ~IsLive(s)
  <2>1. Doubled(s) = configs BY <1>1 DEF Doubled
  <2> QED BY <1>0, <2>1
<1>2. CASE IsLive(s)
  <2> DEFINE c == estimators[s + 1].config + 1
             x == [configs[c] EXCEPT !.lease = @ * 2]
             ct == [configs EXCEPT ![c] = x]
  <2>1. s + 1 \in 1 .. Len(estimators) /\ ~Need(s)
    <3>1. Len(estimators) \in Nat BY <1>0, SlotPlaces
    <3> QED BY <1>2, <3>1 DEF IsLive, Need
  <2>2. c \in 1 .. Len(configs) /\ configs[c] \in Confs /\ configs \in Seq(Confs) BY <1>0, <2>1, SlotPlaces DEF AmlWell, TypesOk
  <2>3. Doubled(s) = ct BY <1>2, <2>2 DEF Doubled
  <2> HIDE DEF c
  <2>4. x \in Confs /\ x.elements = configs[c].elements /\ x.type = configs[c].type /\ x.state = configs[c].state BY <2>2 DEF Confs
  <2> HIDE DEF x
  <2>5. /\ ct \in Seq(Confs) /\ Len(ct) = Len(configs)
        /\ \A i \in 1 .. Len(configs) : ct[i].elements = configs[i].elements /\ ct[i].type = configs[i].type /\ ct[i].state = configs[i].state
    BY <2>2, <2>4
  <2> HIDE DEF ct
  <2>6. AmlWell(estimators, ct, valid_config_size, index_queue, weights, ns_counter) BY ONLY <1>0, <2>5, LeasesWell
  <2> QED BY <2>1, <2>3, <2>5, <2>6
<1> QED BY <1>1, <1>2

(* A challenger takes over the priority of another one.                    *)
LEMMA PriorityMoves ==
  ASSUME NEW es, NEW cs, NEW v, NEW q, NEW ws, NEW ns, AmlWell(es, cs, v, q, ws, ns), NEW a \in 1 .. Len(es), NEW b \in 2 .. Len(es),
         es[a].eligible, ~es[b].eligible, NEW et, et = [es EXCEPT ![a].eligible = FALSE, ![b].eligible = TRUE]
  PROVE  AmlWell(et, cs, v, q, ws, ns)
<1>0. /\ Len(es) \in Nat /\ 1 \in 1 .. Len(es) /\ es \in Seq(Estimators) /\ ~es[1].eligible
      /\ \A k \in 1 .. Len(es) : es[k] \in Estimators
  BY SlotPlaces DEF AmlWell, TypesOk, SlotsOk
<1>1. a # b /\ b \in 1 .. Len(es) /\ a # 1 /\ b # 1 /\ es[a] \in Estimators /\ es[b] \in Estimators BY <1>0
<1> DEFINE x == [es[a] EXCEPT !.eligible = FALSE]
           y == [es[b] EXCEPT !.eligible = TRUE]
<1>2. /\ x \in Estimators /\ x.config = es[a].config /\ x.interactions = es[a].interactions /\ x.self = es[a].self /\ x.champ = es[a].champ
      /\ x.eligible = FALSE
  BY <1>1 DEF Estimators
<1>3. /\ y \in Estimators /\ y.config = es[b].config /\ y.interactions = es[b].interactions /\ y.self = es[b].self /\ y.champ = es[b].champ
      /\ y.eligible = TRUE
  BY <1>1 DEF Estimators
<1>4. et = [es EXCEPT ![a] = x, ![b] = y] BY <1>0, <1>1
<1> HIDE DEF x, y
<1>5. /\ et \in Seq(Estimators) /\ Len(et) = Len(es) /\ et[a] = x /\ et[b] = y
      /\ \A k \in 1 .. Len(es) : k # a /\ k # b => et[k] = es[k]
  <2> DEFINE e1 == [es EXCEPT ![a] = x]
             e2 == [e1 EXCEPT ![b] = y]
  <2>0. es \in [1 .. Len(es) -> Estimators] BY ONLY <1>0
  <2>1. e1 \in [1 .. Len(es) -> Estimators] BY ONLY <1>2, <2>0
  <2>2. e1[a] = x /\ \A k \in 1 .. Len(es) : k # a => e1[k] = es[k] BY ONLY <2>0, a \in 1 .. Len(es)
  <2>3. et = e2 BY ONLY <1>4
  <2> HIDE DEF e1
  <2>4. e2 \in [1 .. Len(es) -> Estimators] BY ONLY <1>3, <2>1
  <2>5. e2[b] = y /\ \A k \in 1 .. Len(es) : k # b => e2[k] = e1[k] BY ONLY <1>1, <2>1
  <2> HIDE DEF e2
  <2>6. e2 \in Seq(Estimators) /\ Len(e2) = Len(es) BY ONLY <1>0, <2>4
  <2> QED BY ONLY <1>1, <2>2, <2>3, <2>5, <2>6, a \in 1 .. Len(es)
<1>6. \A k \in 1 .. Len(es) : /\ et[k].config = es[k].config /\ et[k].interactions = es[k].interactions /\ et[k].self = es[k].self
                              /\ et[k].champ = es[k].champ /\ (k # a /\ k # b => et[k].eligible = es[k].eligible)
  BY <1>2, <1>3, <1>5
<1>7. TypesOk(et, cs, v, q, ws, ns) BY <1>5 DEF AmlWell, TypesOk
<1>8. SlotsOk(et, cs, v, q, ns)
  <2>0. SlotsOk(es, cs, v, q, ns) BY DEF AmlWell
  <2>1. \A i : (\E k \in 1 .. Len(et) : et[k].config = i) <=> (\E k \in 1 .. Len(es) : es[k].config = i) BY <1>5, <1>6
  <2>2. et[1].config = 0 /\ ~et[1].eligible BY <1>0, <1>1, <1>5, <2>0 DEF SlotsOk
  <2>3. \A j, k \in 1 .. Len(et) : et[j].config = et[k].config => j = k BY ONLY <1>5, <1>6, <2>0 DEF SlotsOk
  <2>4. \A k \in 1 .. Len(et) : et[k].config \in 0 .. v - 1 /\ et[k].config \notin q BY ONLY <1>5, <1>6, <2>0 DEF SlotsOk
  <2> QED BY ONLY <2>0, <2>1, <2>2, <2>3, <2>4 DEF SlotsOk
<1>9. OwnsOk(et, cs, ws, ns)
  <2>0. OwnsOk(es, cs, ws, ns) BY DEF AmlWell
  <2> QED BY <1>5, <1>6, <2>0 DEF OwnsOk
<1>10. \A k \in 2 .. Len(es) : k \in 1 .. Len(es) OBVIOUS
<1>11. FairOk(et, cs)
  <2>0. FairOk(es, cs) BY DEF AmlWell
  <2> QED BY <1>5, <1>6, <1>10, <2>0, ZenonT(60) DEF FairOk
<1>12. BudgetOk(et)
  <2> DEFINE F == Favoured(es)
             G == F \ {b}
  <2>1. Favoured(et) = G \cup {a}
    <3>1. a \in 2 .. Len(es) BY <1>0, <1>1
    <3> QED BY <1>2, <1>3, <1>5, <1>6, <1>10, <3>1, SMTT(40) DEF Favoured
  <2>2. b \in F /\ a \notin G BY DEF Favoured
  <2>3. IsFiniteSet(F) /\ Cardinality(F) \in Nat BY <1>0, FavouredIs
  <2> HIDE DEF F
  <2>4. IsFiniteSet(G) /\ Cardinality(G) = Cardinality(F) - 1 BY <2>2, <2>3, FS_RemoveElement
  <2> HIDE DEF G
  <2>5. Cardinality(G \cup {a}) = Cardinality(G) + 1 BY <2>2, <2>4, FS_AddElement
  <2>6. Cardinality(Favoured(et)) = Cardinality(F) BY ONLY <2>1, <2>3, <2>4, <2>5
  <2> QED BY <2>6 DEF AmlWell, BudgetOk, F
<1> QED BY <1>7, <1>8, <1>9, <1>11, <1>12 DEF AmlWell

(* The next slot, or the end of schedule.                                  *)
LEMMA SlotDoneIs ==
  ASSUME SlotDone, amlStep = "schedule", live_slot \in 0 .. max_live_configs - 1
  PROVE  /\ live_slot' \in 0 .. max_live_configs - 1 /\ amlStep' \in {"schedule", "learn"}
         /\ amlStep' = "schedule" => live_slot' = live_slot + 1
BY AutoMLAssumption DEF SlotDone

(* schedule keeps a slot.                                                  *)
LEMMA KeepSlotInv == AmlInv /\ KeepSlot /\ oracle' = oracle => AmlInv'
<1> SUFFICES ASSUME AmlInv, KeepSlot, oracle' = oracle PROVE AmlInv' OBVIOUS
<1>0. /\ AmlWell(estimators, configs, valid_config_size, index_queue, weights, ns_counter) /\ DupeOk
      /\ amlStep = "schedule" /\ live_slot \in 0 .. max_live_configs - 1 /\ ns_counter # {}
  BY DEF AmlInv, KeepSlot
<1>1. SlotDone /\ UNCHANGED <<valid_config_size, index_queue, weights, ns_counter>> BY DEF KeepSlot
<1>2. /\ live_slot' \in 0 .. max_live_configs - 1 /\ amlStep' \in {"schedule", "learn"}
      /\ amlStep' = "schedule" => live_slot' = live_slot + 1
  BY <1>0, <1>1, SlotDoneIs
<1>3. ~Need(live_slot) BY DEF KeepSlot, LeaseOver, IsLive
<1>4. Len(estimators) \in Nat BY <1>0, SlotPlaces
<1>5. live_slot + 1 \in 1 .. Len(estimators) /\ live_slot + 1 <= Len(estimators) BY <1>0, <1>3, <1>4 DEF Need
<1>6. AmlWell(estimators, configs', valid_config_size, index_queue, weights, ns_counter) /\ Len(configs') = Len(configs)
  <2>1. configs' = configs \/ configs' = Doubled(live_slot) BY DEF KeepSlot
  <2> QED BY <1>0, <2>1, DoubledWell
<1>7. AmlWell(estimators', configs', valid_config_size, index_queue, weights, ns_counter) /\ Len(estimators') = Len(estimators)
  <2>1. CASE estimators' = estimators BY <1>6, <2>1
  <2>2. CASE estimators' # estimators
    <3>1. PICK other \in 2 .. Len(estimators) :
             /\ estimators[live_slot + 1].eligible /\ ~estimators[other].eligible
             /\ estimators' = [estimators EXCEPT ![live_slot + 1].eligible = FALSE, ![other].eligible = TRUE]
      BY <2>2 DEF KeepSlot
    <3>2. AmlWell(estimators', configs', valid_config_size, index_queue, weights, ns_counter)
      BY ONLY <1>5, <1>6, <3>1, PriorityMoves
    <3>3. estimators \in Seq(Estimators) BY <1>0 DEF AmlWell, TypesOk
    <3>4. Len(estimators') = Len(estimators) BY ONLY <3>1, <3>3
    <3> QED BY <3>2, <3>4
  <2> QED BY <2>1, <2>2
<1>8. amlStep' = "schedule" => ~(live_slot' > Len(estimators')) BY <1>0, <1>2, <1>4, <1>5, <1>7
<1>9. DupeOk' BY <1>0, <1>1, <1>6 DEF DupeOk
<1> QED BY <1>0, <1>1, <1>2, <1>7, <1>8, <1>9 DEF AmlInv

(* Configuration i of those in r takes slot s, or a new one, with its      *)
(* estimator e.                                                            *)
Takes(es, cs, v, ws, ns, s, r, i, e, ct, et, wt) ==
  /\ s \in 1 .. max_live_configs - 1 /\ s <= Len(es) /\ r \in SUBSET (0 .. v - 1) /\ i \in r
  /\ \A k \in 1 .. Len(es) : es[k].config \notin r
  /\ e \in Estimators /\ e.config = i /\ e.interactions = Interactions(ns, cs[i + 1]) /\ e.self.n = e.champ.n
  /\ e.self.of = {} /\ e.champ.of = {}
  /\ s = Len(es) /\ ~e.eligible => s <= priority_challengers
  /\ s < Len(es) => e.eligible = es[s + 1].eligible
  /\ ct \in Seq(Confs) /\ Len(ct) = Len(cs)
  /\ \A j \in 1 .. Len(cs) :
       /\ ct[j].elements = cs[j].elements /\ ct[j].type = cs[j].type
       /\ ct[j].state = IF j = i + 1 THEN "Live"
                        ELSE IF s < Len(es) /\ j = es[s + 1].config + 1 THEN "Inactive" ELSE cs[j].state
  /\ et = IF s = Len(es) THEN Append(es, e) ELSE [es EXCEPT ![s + 1] = e]
  /\ wt = [ws EXCEPT ![s] = Key(cs[i + 1])]

(* Another configuration takes a slot, or a new one.                       *)
LEMMA ReplaceWell ==
  ASSUME NEW es, NEW cs, NEW v, NEW q, NEW ws, NEW ns, AmlWell(es, cs, v, q, ws, ns), ns # {}, NEW s, NEW r, NEW i, NEW e, NEW ct,
         NEW et, NEW wt, Takes(es, cs, v, ws, ns, s, r, i, e, ct, et, wt)
  PROVE  AmlWell(et, ct, v, r \ {i}, wt, ns)
<1> SUFFICES
      ASSUME s \in 1 .. max_live_configs - 1, s <= Len(es), r \in SUBSET (0 .. v - 1), i \in r,
             \A k \in 1 .. Len(es) : es[k].config \notin r,
             e \in Estimators, e.config = i, e.interactions = Interactions(ns, cs[i + 1]), e.self.n = e.champ.n, e.self.of = {}, e.champ.of = {},
             s = Len(es) /\ ~e.eligible => s <= priority_challengers, s < Len(es) => e.eligible = es[s + 1].eligible,
             ct \in Seq(Confs), Len(ct) = Len(cs),
             \A j \in 1 .. Len(cs) : /\ ct[j].elements = cs[j].elements /\ ct[j].type = cs[j].type
                                   /\ ct[j].state = IF j = i + 1 THEN "Live"
                                                    ELSE IF s < Len(es) /\ j = es[s + 1].config + 1 THEN "Inactive" ELSE cs[j].state,
             et = IF s = Len(es) THEN Append(es, e) ELSE [es EXCEPT ![s + 1] = e], wt = [ws EXCEPT ![s] = Key(cs[i + 1])]
      PROVE  AmlWell(et, ct, v, r \ {i}, wt, ns)
  BY DEF Takes
<1>0. /\ Len(es) \in Nat /\ Len(cs) \in Nat /\ es \in Seq(Estimators) /\ 1 \in 1 .. Len(es) /\ 1 \in 1 .. Len(cs)
      /\ \A k \in 1 .. Len(es) : /\ es[k] \in Estimators /\ es[k].config + 1 \in 1 .. Len(cs) /\ es[k].config \in Nat
                                /\ k - 1 \in 0 .. max_live_configs - 1
  BY SlotPlaces DEF AmlWell, TypesOk
<1>1. /\ SlotsOk(es, cs, v, q, ns) /\ OwnsOk(es, cs, ws, ns) /\ FairOk(es, cs) /\ BudgetOk(es) /\ v \in Nat /\ v \in 1 .. Len(cs)
      /\ ws \in [0 .. max_live_configs - 1 -> Keys] /\ Len(es) \in 1 .. max_live_configs
  BY DEF AmlWell, TypesOk
<1>2. i \in 0 .. v - 1 /\ i + 1 \in 1 .. Len(cs) /\ i \in Nat /\ s \in Nat /\ s + 1 # 1 /\ s + 1 \in Nat
  <2>1. i \in 0 .. v - 1 BY ONLY i \in r, r \in SUBSET (0 .. v - 1)
  <2>2. s \in Nat /\ s # 0 BY ONLY s \in 1 .. max_live_configs - 1, AutoMLAssumption
  <2> QED BY ONLY <1>0, <1>1, <2>1, <2>2
<1>3. \A j \in 1 .. Len(cs) : Key(ct[j]) = Key(cs[j]) /\ Interactions(ns, ct[j]) = Interactions(ns, cs[j]) BY DEF Key, Interactions
<1>4. /\ et \in Seq(Estimators) /\ s + 1 \in 1 .. Len(et) /\ et[s + 1] = e /\ Len(et) \in 1 .. max_live_configs /\ Len(et) \in Nat
      /\ (\A k \in 1 .. Len(et) : k # s + 1 => k \in 1 .. Len(es) /\ et[k] = es[k])
      /\ (\A k \in 1 .. Len(es) : k \in 1 .. Len(et)) /\ (s = Len(es) => Len(et) = s + 1) /\ (s < Len(es) => Len(et) = Len(es))
  <2>1. CASE s = Len(es)
    <3>1. et = Append(es, e) BY <2>1
    <3>2. et \in Seq(Estimators) /\ Len(et) = s + 1 /\ et[s + 1] = e /\ \A k \in 1 .. Len(es) : et[k] = es[k] BY ONLY <1>0, <2>1, <3>1, e \in Estimators
    <3>3. Len(et) \in 1 .. max_live_configs BY <1>2, <3>2, AutoMLAssumption
    <3> QED BY ONLY <1>0, <1>2, <2>1, <3>2, <3>3
  <2>2. CASE s # Len(es)
    <3>1. et = [es EXCEPT ![s + 1] = e] /\ s + 1 \in 1 .. Len(es) BY <1>0, <1>2, <2>2
    <3>2. et \in Seq(Estimators) /\ Len(et) = Len(es) /\ et[s + 1] = e /\ \A k \in 1 .. Len(es) : k # s + 1 => et[k] = es[k]
      BY ONLY <1>0, <3>1, e \in Estimators
    <3> QED BY ONLY <1>0, <1>1, <1>2, <2>2, <3>1, <3>2
  <2> QED BY <2>1, <2>2
<1>5. wt \in [0 .. max_live_configs - 1 -> Keys] /\ wt[s] = Key(cs[i + 1]) /\ \A k \in 0 .. max_live_configs - 1 : k # s => wt[k] = ws[k]
  <2>1. cs[i + 1] \in Confs BY <1>2 DEF AmlWell, TypesOk
  <2>2. Key(cs[i + 1]) \in Keys BY <2>1 DEF Key, Keys, Confs
  <2>3. s \in 0 .. max_live_configs - 1 BY AutoMLAssumption
  <2> QED BY <1>1, <2>2, <2>3
<1>6. TypesOk(et, ct, v, r \ {i}, wt, ns)
  <2>1. r \ {i} \in SUBSET Nat BY <1>1
  <2>2. ns \in SUBSET Namespaces BY DEF AmlWell, TypesOk
  <2> QED BY <1>1, <1>4, <1>5, <2>1, <2>2 DEF TypesOk
<1>7. \A k \in 1 .. Len(es) : es[k].config # i OBVIOUS
<1>8. SlotsOk(et, ct, v, r \ {i}, ns)
  <2>1. \A j, k \in 1 .. Len(et) : et[j].config = et[k].config => j = k
    <3> SUFFICES ASSUME NEW j \in 1 .. Len(et), NEW k \in 1 .. Len(et), et[j].config = et[k].config PROVE j = k OBVIOUS
    <3>1. j # s + 1 => et[j].config # i BY <1>4, <1>7
    <3>2. k # s + 1 => et[k].config # i BY <1>4, <1>7
    <3>3. CASE j # s + 1 /\ k # s + 1
      <4>1. es[j].config = es[k].config /\ j \in 1 .. Len(es) /\ k \in 1 .. Len(es) BY <1>4, <3>3
      <4> QED BY <1>1, <4>1 DEF SlotsOk
    <3> QED BY <1>4, <3>1, <3>2, <3>3
  <2>2. et[1].config = 0 /\ ~et[1].eligible
    <3>1. et[1] = es[1] BY <1>0, <1>2, <1>4
    <3> QED BY <1>1, <3>1 DEF SlotsOk
  <2>3. \A k \in 1 .. Len(et) : et[k].config \in 0 .. v - 1 /\ et[k].config \notin r \ {i}
    <3> SUFFICES ASSUME NEW k \in 1 .. Len(et) PROVE et[k].config \in 0 .. v - 1 /\ et[k].config \notin r \ {i} OBVIOUS
    <3>1. CASE k = s + 1 BY <1>2, <1>4, <3>1
    <3>2. CASE k # s + 1
      <4>1. et[k] = es[k] /\ k \in 1 .. Len(es) BY <1>4, <3>2
      <4> QED BY <1>1, <4>1 DEF SlotsOk
    <3> QED BY <3>1, <3>2
  <2>4. ASSUME NEW c \in 0 .. v - 1
        PROVE  ct[c + 1].state = "Live" <=> (\E k \in 1 .. Len(et) : et[k].config = c) /\ ~(c = 0 /\ ns = {})
    <3>1. c + 1 \in 1 .. Len(cs) /\ (c = i <=> c + 1 = i + 1) /\ c \in Nat BY ONLY <1>0, <1>1, <1>2, c \in 0 .. v - 1
    <3>2. cs[c + 1].state = "Live" <=> \E k \in 1 .. Len(es) : es[k].config = c BY <1>1 DEF SlotsOk
    <3>3. CASE c = i
      <4>1. ct[c + 1].state = "Live" BY <3>1, <3>3
      <4>2. et[s + 1].config = c BY <1>4, <3>3
      <4> QED BY <1>4, <4>1, <4>2
    <3>4. CASE c # i /\ s < Len(es) /\ c = es[s + 1].config
      <4>1. ct[c + 1].state = "Inactive" BY <3>1, <3>4
      <4>2. s + 1 \in 1 .. Len(es) BY <1>0, <1>2, <3>4
      <4>3. ASSUME NEW k \in 1 .. Len(et), et[k].config = c PROVE FALSE
        <5>1. k # s + 1 BY <1>4, <3>4, <4>3
        <5>2. es[k].config = es[s + 1].config /\ k \in 1 .. Len(es) BY <1>4, <3>4, <4>3, <5>1
        <5> QED BY <1>1, <4>2, <5>1, <5>2 DEF SlotsOk
      <4> QED BY <4>1, <4>3
    <3>5. CASE c # i /\ ~(s < Len(es) /\ c = es[s + 1].config)
      <4>1. ct[c + 1].state = cs[c + 1].state
        <5>1. ~(s < Len(es) /\ c + 1 = es[s + 1].config + 1)
          <6>1. s < Len(es) => s + 1 \in 1 .. Len(es) BY <1>0, <1>2
          <6>2. s < Len(es) => es[s + 1].config \in Nat BY <1>0, <6>1
          <6> QED BY <3>1, <3>5, <6>2
        <5> QED BY <3>1, <3>5, <5>1
      <4>2. ASSUME NEW k \in 1 .. Len(et), et[k].config = c PROVE \E j \in 1 .. Len(es) : es[j].config = c
        <5>1. k # s + 1 BY <1>4, <3>5, <4>2
        <5> QED BY <1>4, <4>2, <5>1
      <4>3. ASSUME NEW k \in 1 .. Len(es), es[k].config = c PROVE \E j \in 1 .. Len(et) : et[j].config = c
        <5>1. k # s + 1
          <6> SUFFICES ASSUME k = s + 1 PROVE FALSE OBVIOUS
          <6>1. s < Len(es) BY <1>0, <1>2
          <6> QED BY <3>5, <4>3, <6>1
        <5>2. k \in 1 .. Len(et) BY <1>4
        <5> QED BY <1>4, <4>3, <5>1, <5>2
      <4> QED BY <3>2, <4>1, <4>2, <4>3
    <3> QED BY <3>3, <3>4, <3>5
  <2>5. r \ {i} \subseteq 0 .. v - 1 OBVIOUS
  <2> QED BY ONLY <2>1, <2>2, <2>3, <2>4, <2>5 DEF SlotsOk
<1>9. OwnsOk(et, ct, wt, ns)
  <2> SUFFICES ASSUME NEW k \in 1 .. Len(et)
               PROVE  wt[k - 1] = Key(ct[et[k].config + 1]) /\ et[k].interactions = Interactions(ns, ct[et[k].config + 1])
    BY DEF OwnsOk
  <2>1. CASE k = s + 1
    <3>1. k - 1 = s /\ et[k] = e BY <1>2, <1>4, <2>1
    <3> QED BY <1>2, <1>3, <1>5, <3>1
  <2>2. CASE k # s + 1
    <3>1. et[k] = es[k] /\ k \in 1 .. Len(es) BY <1>4, <2>2
    <3>2. k - 1 \in 0 .. max_live_configs - 1 /\ k - 1 # s BY <1>0, <1>2, <2>2, <3>1
    <3>3. wt[k - 1] = ws[k - 1] BY <1>5, <3>2
    <3>4. ws[k - 1] = Key(cs[es[k].config + 1]) /\ es[k].interactions = Interactions(ns, cs[es[k].config + 1]) BY <1>1, <3>1 DEF OwnsOk
    <3>5. es[k].config + 1 \in 1 .. Len(cs) BY <1>0, <3>1
    <3> QED BY ONLY <1>3, <3>1, <3>3, <3>4, <3>5
  <2> QED BY <2>1, <2>2
<1>10. FairOk(et, ct)
  <2> SUFFICES ASSUME NEW k \in 2 .. Len(et)
               PROVE  /\ et[k].self.n = et[k].champ.n /\ et[k].self.of \subseteq {Key(ct[et[k].config + 1])}
                      /\ et[k].champ.of \subseteq {Key(ct[1])}
    BY DEF FairOk
  <2>1. CASE k = s + 1 BY <1>4, <2>1
  <2>2. CASE k # s + 1
    <3>0. k \in 1 .. Len(et) BY <1>4
    <3>1. et[k] = es[k] /\ k \in 1 .. Len(es) /\ k \in 2 .. Len(es) BY <1>0, <1>4, <2>2, <3>0
    <3>2. es[k].config + 1 \in 1 .. Len(cs) BY <1>0, <3>1
    <3>3. Key(ct[es[k].config + 1]) = Key(cs[es[k].config + 1]) /\ Key(ct[1]) = Key(cs[1]) BY <1>0, <1>3, <3>2
    <3> QED BY ONLY <1>1, <3>1, <3>3 DEF FairOk
  <2> QED BY <2>1, <2>2
<1>11. BudgetOk(et)
  <2> SUFFICES ASSUME priority_challengers > 0 PROVE Cardinality(Favoured(et)) <= priority_challengers BY DEF BudgetOk
  <2>0. priority_challengers \in Nat BY AutoMLAssumption
  <2>1. CASE s = Len(es) /\ ~e.eligible
    <3>1. Len(et) = s + 1 /\ s <= priority_challengers BY <1>4, <2>1
    <3>2. Cardinality(2 .. Len(et)) = s
      <4>1. Cardinality(2 .. Len(et)) = IF Len(et) >= 2 THEN Len(et) - 1 ELSE 0 BY <1>4, FavouredIs
      <4>2. Len(et) >= 2 /\ Len(et) - 1 = s BY <1>2, <3>1
      <4> QED BY <4>1, <4>2
    <3>3. Cardinality(Favoured(et)) <= s /\ Cardinality(Favoured(et)) \in Nat BY <1>4, <3>2, FavouredIs
    <3> HIDE DEF Favoured
    <3> QED BY ONLY <1>2, <2>0, <3>1, <3>3
  <2>2. CASE ~(s = Len(es) /\ ~e.eligible)
    <3>1. Favoured(et) = Favoured(es)
      <4>1. ASSUME NEW k \in 2 .. Len(et), ~et[k].eligible PROVE k \in 2 .. Len(es) /\ ~es[k].eligible
        <5>1. CASE k = s + 1
          <6>1. s < Len(es) BY <1>0, <1>2, <1>4, <2>2, <4>1, <5>1
          <6>2. ~es[s + 1].eligible BY <1>4, <4>1, <5>1, <6>1
          <6>3. k \in 2 .. Len(es) BY <1>0, <1>2, <5>1, <6>1
          <6> QED BY <5>1, <6>2, <6>3
        <5>2. CASE k # s + 1
          <6>1. k \in 1 .. Len(et) BY <1>4
          <6>2. et[k] = es[k] /\ k \in 1 .. Len(es) BY <1>4, <5>2, <6>1
          <6>3. k \in 2 .. Len(es) BY <1>0, <6>2
          <6> QED BY <4>1, <6>2, <6>3
        <5> QED BY <5>1, <5>2
      <4>2. ASSUME NEW k \in 2 .. Len(es), ~es[k].eligible PROVE k \in 2 .. Len(et) /\ ~et[k].eligible
        <5>1. k \in 1 .. Len(es) BY <1>0
        <5>2. k \in 1 .. Len(et) BY <1>4, <5>1
        <5>3. k \in 2 .. Len(et) BY <1>4, <5>2
        <5>4. CASE k = s + 1
          <6>1. s < Len(es) BY <1>0, <1>2, <5>1, <5>4
          <6> QED BY <1>4, <4>2, <5>3, <5>4, <6>1
        <5>5. CASE k # s + 1 BY <1>4, <4>2, <5>2, <5>3, <5>5
        <5> QED BY <5>4, <5>5
      <4> QED BY <4>1, <4>2 DEF Favoured
    <3> QED BY <1>1, <3>1 DEF BudgetOk
  <2> QED BY <2>1, <2>2
<1> QED BY <1>6, <1>8, <1>9, <1>10, <1>11 DEF AmlWell

(* The estimator of a configuration that takes a slot.                     *)
SlotEstimator(i, b, x) == [NewEstimator EXCEPT !.config = i, !.eligible = b, !.interactions = x]
IsFresh(e, i, b, x) ==
  /\ e \in Estimators /\ e.config = i /\ e.eligible = b /\ e.interactions = x /\ e.self.n = e.champ.n /\ e.self.of = {}
  /\ e.champ.of = {}

(* It is about nobody yet.                                                 *)
LEMMA NewSlotIs ==
  ASSUME NEW i \in Nat, NEW b, b \in BOOLEAN, NEW x \in Elements PROVE IsFresh(SlotEstimator(i, b, x), i, b, x)
<1> DEFINE e == SlotEstimator(i, b, x)
           z == [n |-> 0, of |-> {}]
<1>1. e = [config |-> i, eligible |-> b, interactions |-> x, self |-> [n |-> 0, of |-> {}], champ |-> [n |-> 0, of |-> {}]]
  <2>1. ASSUME NEW f, f = [NewEstimator EXCEPT !.config = i, !.eligible = b, !.interactions = x]
        PROVE  f = [config |-> i, eligible |-> b, interactions |-> x, self |-> [n |-> 0, of |-> {}], champ |-> [n |-> 0, of |-> {}]]
    BY <2>1 DEF NewEstimator
  <2> QED BY <2>1 DEF SlotEstimator
<1>2. z \in Tallies /\ z.of = {} BY DEF Tallies
<1>3. e = [config |-> i, eligible |-> b, interactions |-> x, self |-> z, champ |-> z] BY <1>1
<1> HIDE DEF z, e
<1>4. e.eligible = b BY ONLY <1>3
<1>5. e.config = i /\ e.interactions = x /\ e.self = z /\ e.champ = z BY ONLY <1>3
<1>6. e \in Estimators BY <1>2, <1>3 DEF Estimators
<1> QED BY ONLY <1>2, <1>4, <1>5, <1>6 DEF IsFresh, e

(* What schedule finds: slot 0 is live for good, a slot is live exactly if *)
(* it is taken, and what may be taken next is valid and in no slot.        *)
LEMMA ScheduleFinds ==
  ASSUME AmlInv, ns_counter # {}
  PROVE  /\ IsLive(0) /\ ~estimators[1].eligible
         /\ \A s \in Nat : IsLive(s) <=> s < Len(estimators)
         /\ Refilled \in SUBSET (0 .. valid_config_size - 1)
         /\ \A k \in 1 .. Len(estimators) : estimators[k].config \notin Refilled
<1>0. /\ AmlWell(estimators, configs, valid_config_size, index_queue, weights, ns_counter)
      /\ SlotsOk(estimators, configs, valid_config_size, index_queue, ns_counter)
  BY DEF AmlInv, AmlWell
<1>1. Len(estimators) \in Nat /\ 1 \in 1 .. Len(estimators) BY <1>0, SlotPlaces
<1>2. \A k \in 1 .. Len(estimators) : configs[estimators[k].config + 1].state = "Live"
  <2> SUFFICES ASSUME NEW k \in 1 .. Len(estimators) PROVE configs[estimators[k].config + 1].state = "Live" OBVIOUS
  <2>1. estimators[k].config \in 0 .. valid_config_size - 1 BY <1>0 DEF SlotsOk
  <2> QED BY <1>0, <2>1, ns_counter # {} DEF SlotsOk
<1>3. \A s \in Nat : IsLive(s) <=> s < Len(estimators)
  <2> SUFFICES ASSUME NEW s \in Nat PROVE IsLive(s) <=> s < Len(estimators) OBVIOUS
  <2>1. s < Len(estimators) => s + 1 \in 1 .. Len(estimators) BY <1>1
  <2>2. Need(s) <=> ~(s < Len(estimators)) BY <1>1 DEF Need
  <2> QED BY <1>2, <2>1, <2>2 DEF IsLive, ConfigOf
<1>4. IsLive(0) BY <1>1, <1>3
<1>5. Refilled \in SUBSET (0 .. valid_config_size - 1) BY <1>0 DEF Refilled, SlotsOk
<1>6. \A k \in 1 .. Len(estimators) : estimators[k].config \notin Refilled
  <2> SUFFICES ASSUME NEW k \in 1 .. Len(estimators), estimators[k].config \in Refilled PROVE FALSE OBVIOUS
  <2>1. CASE index_queue # {} BY <1>0, <2>1 DEF Refilled, SlotsOk
  <2>2. CASE index_queue = {}
    <3>1. configs[estimators[k].config + 1].state \in {"New", "Inactive"} BY <2>2 DEF Refilled
    <3> QED BY <1>2, <3>1
  <2> QED BY <2>1, <2>2
<1> QED BY <1>0, <1>3, <1>4, <1>5, <1>6 DEF SlotsOk

(* schedule gives a slot to another configuration, or has none.            *)
LEMMA ReplaceSlotInv == AmlInv /\ ReplaceSlot /\ oracle' = oracle => AmlInv'
<1> SUFFICES ASSUME AmlInv, ReplaceSlot, oracle' = oracle PROVE AmlInv' OBVIOUS
<1>0. /\ AmlWell(estimators, configs, valid_config_size, index_queue, weights, ns_counter) /\ DupeOk
      /\ amlStep = "schedule" /\ live_slot \in 0 .. max_live_configs - 1 /\ ns_counter # {}
      /\ live_slot > Len(estimators) => Refilled = {}
  BY DEF AmlInv, ReplaceSlot
<1>1. SlotDone /\ UNCHANGED <<valid_config_size, ns_counter>> BY DEF ReplaceSlot
<1>2. /\ live_slot' \in 0 .. max_live_configs - 1 /\ amlStep' \in {"schedule", "learn"}
      /\ amlStep' = "schedule" => live_slot' = live_slot + 1
  BY <1>0, <1>1, SlotDoneIs
<1>3. /\ IsLive(0) /\ ~estimators[1].eligible
      /\ \A s \in Nat : IsLive(s) <=> s < Len(estimators)
      /\ Refilled \in SUBSET (0 .. valid_config_size - 1)
      /\ \A k \in 1 .. Len(estimators) : estimators[k].config \notin Refilled
  BY <1>0, ScheduleFinds
<1>4. live_slot \in Nat /\ max_live_configs \in Nat BY <1>0, AutoMLAssumption
<1>5. live_slot # 0
  <2> SUFFICES ASSUME live_slot = 0 PROVE FALSE OBVIOUS
  <2>1. IsLive(live_slot) => estimators[live_slot + 1].eligible BY DEF ReplaceSlot
  <2>2. live_slot + 1 = 1 OBVIOUS
  <2> QED BY <1>3, <2>1, <2>2
<1>6. Len(estimators) \in Nat /\ estimators \in Seq(Estimators) /\ configs \in Seq(Confs) /\ Len(configs) \in Nat
      /\ valid_config_size \in 1 .. Len(configs) /\ valid_config_size \in Nat
  BY <1>0, SlotPlaces DEF AmlWell, TypesOk
<1>7. (IsLive(live_slot) <=> live_slot < Len(estimators)) /\ (Need(live_slot) <=> ~(live_slot < Len(estimators)))
  BY <1>3, <1>4, <1>6 DEF Need
<1> DEFINE d == Doubled(live_slot)
<1>8. /\ AmlWell(estimators, d, valid_config_size, index_queue, weights, ns_counter) /\ Len(d) = Len(configs)
      /\ \A i \in 1 .. Len(configs) : d[i].elements = configs[i].elements /\ d[i].type = configs[i].type /\ d[i].state = configs[i].state
      /\ Need(live_slot) => d = configs
  BY <1>0, DoubledWell
<1> HIDE DEF d
<1>9. CASE Refilled = {}
  <2>1. configs' = d /\ UNCHANGED <<index_queue, estimators, weights>> BY <1>9 DEF ReplaceSlot, d
  <2>2. AmlWell(estimators, configs, valid_config_size, index_queue, weights, ns_counter)' BY <1>1, <1>8, <2>1
  <2>3. DupeOk' BY <1>0, <1>1, <1>8, <2>1 DEF DupeOk
  <2>4. ASSUME amlStep' = "schedule", live_slot' > Len(estimators') PROVE Refilled' = {}
    <3>1. Need(live_slot) BY <1>2, <1>4, <1>6, <1>7, <2>1, <2>4
    <3>2. configs' = configs BY <1>8, <2>1, <3>1
    <3> QED BY <1>1, <1>9, <2>1, <3>2 DEF Refilled
  <2> QED BY <1>0, <1>1, <1>2, <2>2, <2>3, <2>4 DEF AmlInv
<1>10. CASE Refilled # {}
  <2> DEFINE old == IF Need(live_slot) THEN [NewEstimator EXCEPT !.eligible = NoPriority(live_slot)]
                    ELSE estimators[live_slot + 1]
  <2>1. PICK i \in Refilled :
          /\ index_queue' = Refilled \ {i}
          /\ configs' = [Inactivated(Doubled(live_slot), live_slot) EXCEPT ![i + 1].state = "Live"]
          /\ estimators' = IF Need(live_slot)
                           THEN Append(estimators, [NewEstimator EXCEPT !.config = i, !.eligible = old.eligible,
                                                                        !.interactions = Interactions(ns_counter, configs[i + 1])])
                           ELSE [estimators EXCEPT ![live_slot + 1] =
                                  [NewEstimator EXCEPT !.config = i, !.eligible = old.eligible,
                                                       !.interactions = Interactions(ns_counter, configs[i + 1])]]
          /\ weights' = [weights EXCEPT ![live_slot] = Key(configs[i + 1])]
    BY <1>10 DEF ReplaceSlot
  <2> DEFINE x == Interactions(ns_counter, configs[i + 1])
             e == [NewEstimator EXCEPT !.config = i, !.eligible = old.eligible, !.interactions = x]
             g == estimators[live_slot + 1].config + 1
             ct == [Inactivated(d, live_slot) EXCEPT ![i + 1].state = "Live"]
  <2>2. live_slot <= Len(estimators) BY <1>0, <1>4, <1>6, <1>10
  <2>3. i \in 0 .. valid_config_size - 1 BY <1>3
  <2>4. i \in Nat /\ i + 1 \in 1 .. Len(configs) BY ONLY <1>6, <2>3
  <2>5. configs[i + 1] \in Confs /\ x \in Elements
    <3>1. configs[i + 1] \in Confs BY <1>6, <2>4
    <3>2. ns_counter \in SUBSET Namespaces BY <1>0 DEF AmlWell, TypesOk
    <3> QED BY <3>1, <3>2, InteractionsIs
  <2>6. live_slot < Len(estimators) => live_slot + 1 \in 1 .. Len(estimators) BY <1>4, <1>6
  <2>7. old.eligible \in BOOLEAN /\ (Need(live_slot) => old.eligible = (live_slot > priority_challengers))
        /\ (~Need(live_slot) => old.eligible = estimators[live_slot + 1].eligible)
    <3>1. CASE Need(live_slot)
      <4>1. old = [NewEstimator EXCEPT !.eligible = NoPriority(live_slot)] BY <3>1
      <4>2. NoPriority(live_slot) \in BOOLEAN BY DEF NoPriority
      <4>3. old.eligible = NoPriority(live_slot) BY <4>1 DEF NewEstimator
      <4> QED BY <3>1, <4>2, <4>3 DEF NoPriority
    <3>2. CASE ~Need(live_slot)
      <4>1. old = estimators[live_slot + 1] BY <3>2
      <4>2. estimators[live_slot + 1] \in Estimators BY <1>6, <1>7, <2>6, <3>2
      <4> QED BY <3>2, <4>1, <4>2 DEF Estimators
    <3> QED BY <3>1, <3>2
  <2> HIDE DEF old, x
  <2>8. /\ e \in Estimators /\ e.config = i /\ e.eligible = old.eligible /\ e.interactions = x /\ e.self.n = e.champ.n
        /\ e.self.of = {} /\ e.champ.of = {}
    <3>1. e = SlotEstimator(i, old.eligible, x) BY DEF SlotEstimator
    <3> HIDE DEF e
    <3>2. IsFresh(e, i, old.eligible, x) BY ONLY <2>4, <2>5, <2>7, <3>1, NewSlotIs
    <3> QED BY <3>2 DEF IsFresh
  <2>9. estimators' = IF Need(live_slot) THEN Append(estimators, e) ELSE [estimators EXCEPT ![live_slot + 1] = e]
    BY <2>1 DEF x
  <2> HIDE DEF e
  <2>10. d \in Seq(Confs) BY <1>8 DEF AmlWell, TypesOk
  <2>11. configs' = ct BY <2>1 DEF d
  <2> DEFINE h == Inactivated(d, live_slot)
  <2>12. /\ h \in Seq(Confs) /\ Len(h) = Len(configs)
         /\ \A j \in 1 .. Len(configs) :
              /\ h[j].elements = configs[j].elements /\ h[j].type = configs[j].type
              /\ h[j].state = IF live_slot < Len(estimators) /\ j = g THEN "Inactive" ELSE configs[j].state
    <3>1. CASE ~(live_slot < Len(estimators))
      <4>1. h = d BY <1>7, <3>1 DEF Inactivated
      <4> QED BY <1>8, <2>10, <3>1, <4>1
    <3>2. CASE live_slot < Len(estimators)
      <4> DEFINE y == [d[g] EXCEPT !.state = "Inactive"]
      <4>1. g \in 1 .. Len(configs) BY <1>0, <2>6, <3>2, SlotPlaces
      <4> HIDE DEF g
      <4>2. d[g] \in Confs BY <1>8, <2>10, <4>1
      <4>3. y \in Confs /\ y.elements = d[g].elements /\ y.type = d[g].type /\ y.state = "Inactive" BY <4>2 DEF Confs
      <4>4. h = [d EXCEPT ![g] = y] BY <1>7, <1>8, <2>10, <3>2, <4>1 DEF Inactivated, g
      <4> HIDE DEF y, h
      <4> QED BY <1>8, <2>10, <3>2, <4>1, <4>3, <4>4
    <3> QED BY <3>1, <3>2
  <2> HIDE DEF h
  <2>13. /\ ct \in Seq(Confs) /\ Len(ct) = Len(configs)
         /\ \A j \in 1 .. Len(configs) :
              /\ ct[j].elements = configs[j].elements /\ ct[j].type = configs[j].type
              /\ ct[j].state = IF j = i + 1 THEN "Live"
                               ELSE IF live_slot < Len(estimators) /\ j = g THEN "Inactive" ELSE configs[j].state
    <3> DEFINE m == i + 1
               y == [h[m] EXCEPT !.state = "Live"]
    <3>1. m \in 1 .. Len(configs) BY <2>4
    <3>2. h[m] \in Confs BY <2>12, <3>1
    <3>3. ct = [h EXCEPT ![m] = y] BY <2>12, <3>1 DEF h
    <3> HIDE DEF m
    <3>4. y \in Confs /\ y.elements = h[m].elements /\ y.type = h[m].type /\ y.state = "Live" BY <3>2 DEF Confs
    <3> HIDE DEF y, ct, g
    <3> QED BY <2>12, <3>1, <3>3, <3>4 DEF m
  <2> HIDE DEF ct
  <2>14. AmlWell(estimators', ct, valid_config_size, Refilled \ {i}, weights', ns_counter)
    <3>1. live_slot \in 1 .. max_live_configs - 1 BY <1>0, <1>4, <1>5
    <3>2. live_slot = Len(estimators) /\ ~e.eligible => live_slot <= priority_challengers
      <4>1. priority_challengers \in Nat BY AutoMLAssumption
      <4>2. live_slot = Len(estimators) => Need(live_slot) BY <1>6, <1>7
      <4> QED BY <1>4, <2>7, <2>8, <4>1, <4>2
    <3>3. live_slot < Len(estimators) => e.eligible = estimators[live_slot + 1].eligible BY <1>7, <2>7, <2>8
    <3>4. estimators' = IF live_slot = Len(estimators) THEN Append(estimators, e) ELSE [estimators EXCEPT ![live_slot + 1] = e]
      <4>1. Need(live_slot) <=> live_slot = Len(estimators) BY <1>4, <1>6, <1>7, <2>2
      <4> QED BY <2>9, <4>1
    <3>5. e.interactions = Interactions(ns_counter, configs[i + 1]) BY <2>8 DEF x
    <3>6. i \in Refilled /\ Refilled \in SUBSET (0 .. valid_config_size - 1) BY <1>3
    <3>7. weights' = [weights EXCEPT ![live_slot] = Key(configs[i + 1])] BY <2>1
    <3>8. \A k \in 1 .. Len(estimators) : estimators[k].config \notin Refilled BY <1>3
    <3>9. AmlWell(estimators, configs, valid_config_size, index_queue, weights, ns_counter) /\ ns_counter # {} BY <1>0
    <3>10. /\ e \in Estimators /\ e.config = i /\ e.self.n = e.champ.n /\ e.self.of = {} /\ e.champ.of = {} BY <2>8
    <3> HIDE DEF g
    <3>11. \A j \in 1 .. Len(configs) :
              /\ ct[j].elements = configs[j].elements /\ ct[j].type = configs[j].type
              /\ ct[j].state = IF j = i + 1 THEN "Live"
                               ELSE IF live_slot < Len(estimators) /\ j = estimators[live_slot + 1].config + 1 THEN "Inactive"
                               ELSE configs[j].state
      BY <2>13 DEF g
    <3>12. ct \in Seq(Confs) /\ Len(ct) = Len(configs) BY <2>13
    <3>13. Takes(estimators, configs, valid_config_size, weights, ns_counter, live_slot, Refilled, i, e, ct, estimators', weights')
      BY ONLY <2>2, <3>1, <3>2, <3>3, <3>4, <3>5, <3>6, <3>7, <3>8, <3>10, <3>11, <3>12 DEF Takes
    <3> QED BY ONLY <3>9, <3>13, ReplaceWell
  <2>15. AmlWell(estimators, configs, valid_config_size, index_queue, weights, ns_counter)' BY <1>1, <2>1, <2>11, <2>14
  <2>16. DupeOk' BY <1>0, <1>1, <2>11, <2>13 DEF DupeOk
  <2>17. amlStep' = "schedule" => ~(live_slot' > Len(estimators'))
    <3>1. Len(estimators') = IF Need(live_slot) THEN Len(estimators) + 1 ELSE Len(estimators) BY <1>6, <2>8, <2>9
    <3> QED BY <1>2, <1>4, <1>6, <1>7, <2>2, <3>1
  <2> QED BY <1>0, <1>1, <1>2, <2>15, <2>16, <2>17 DEF AmlInv
<1> QED BY <1>9, <1>10

(* One more update of a statistic.                                         *)
LEMMA CountedIs ==
  ASSUME NEW x \in Tallies, NEW c \in Confs
  PROVE  Counted(x, c) \in Tallies /\ Counted(x, c).n = x.n + 1 /\ Counted(x, c).of = x.of \cup {Key(c)}
<1>1. Key(c) \in Keys BY DEF Key, Keys, Confs
<1> HIDE DEF Keys
<1>2. x.n \in Nat /\ x.of \in SUBSET Keys BY DEF Tallies
<1>3. x.n + 1 \in Nat /\ x.of \cup {Key(c)} \in SUBSET Keys BY ONLY <1>1, <1>2
<1> QED BY <1>3 DEF Counted, Tallies

(* offset_learn: a challenger and the champion, as it sees him, are        *)
(* counted together.                                                       *)
LEMMA OffsetLearnInv == AmlInv /\ OffsetLearn /\ oracle' = oracle => AmlInv'
<1> SUFFICES ASSUME AmlInv, OffsetLearn, oracle' = oracle PROVE AmlInv' OBVIOUS
<1> DEFINE es == estimators
           et == estimators'
<1>0. /\ AmlWell(es, configs, valid_config_size, index_queue, weights, ns_counter) /\ DupeOk /\ amlStep' = "check" /\ ns_counter # {}
      /\ live_slot \in 0 .. max_live_configs - 1
      /\ UNCHANGED <<configs, valid_config_size, index_queue, weights, ns_counter, live_slot, oracle>>
  BY DEF AmlInv, OffsetLearn
<1>1. /\ Len(es) \in Nat /\ 1 \in 1 .. Len(es) /\ DOMAIN es = 1 .. Len(es) /\ 1 \in 1 .. Len(configs)
      /\ \A k \in 1 .. Len(es) : es[k] \in Estimators /\ configs[es[k].config + 1] \in Confs
  BY <1>0, SlotPlaces
<1>2. /\ SlotsOk(es, configs, valid_config_size, index_queue, ns_counter) /\ OwnsOk(es, configs, weights, ns_counter)
      /\ FairOk(es, configs) /\ BudgetOk(es) /\ configs[es[1].config + 1] = configs[1]
  BY <1>0 DEF AmlWell, SlotsOk
<1>3. ASSUME NEW k \in 1 .. Len(es)
      PROVE  /\ et[k] \in Estimators /\ et[k].config = es[k].config /\ et[k].eligible = es[k].eligible
             /\ et[k].interactions = es[k].interactions
             /\ k = 1 => et[k] = es[k]
             /\ k # 1 => /\ et[k].self.n = es[k].self.n + 1 /\ et[k].self.of = es[k].self.of \cup {Key(configs[es[k].config + 1])}
                         /\ et[k].champ.n = es[k].champ.n + 1 /\ et[k].champ.of = es[k].champ.of \cup {Key(configs[1])}
  <2>1. CASE k = 1
    <3>1. et[k] = es[k] BY <1>1, <2>1 DEF OffsetLearn
    <3> QED BY <1>1, <2>1, <3>1
  <2>2. CASE k # 1
    <3> DEFINE a == Counted(es[k].self, configs[es[k].config + 1])
               b == Counted(es[k].champ, configs[1])
    <3>1. (k - 1) + 1 = k /\ 0 + 1 = 1 OBVIOUS
    <3>2. ConfigOf(k - 1) = configs[es[k].config + 1] /\ ConfigOf(0) = configs[1] BY <1>2, <3>1 DEF ConfigOf
    <3>3. et[k] = [es[k] EXCEPT !.self = a, !.champ = b]
      <4>1. et[k] = [es[k] EXCEPT !.self = Counted(@, ConfigOf(k - 1)), !.champ = Counted(@, ConfigOf(0))]
        BY <1>1, <2>2 DEF OffsetLearn
      <4> QED BY <3>2, <4>1
    <3>4. es[k] \in Estimators /\ configs[es[k].config + 1] \in Confs /\ configs[1] \in Confs BY <1>1, <1>2
    <3>5. es[k].self \in Tallies /\ es[k].champ \in Tallies BY <3>4 DEF Estimators
    <3>6. a \in Tallies /\ a.n = es[k].self.n + 1 /\ a.of = es[k].self.of \cup {Key(configs[es[k].config + 1])}
      BY <3>4, <3>5, CountedIs
    <3>7. b \in Tallies /\ b.n = es[k].champ.n + 1 /\ b.of = es[k].champ.of \cup {Key(configs[1])}
      BY <3>4, <3>5, CountedIs
    <3> HIDE DEF a, b
    <3>8. ASSUME NEW f, f \in Estimators, NEW g, g = [f EXCEPT !.self = a, !.champ = b]
          PROVE  /\ g \in Estimators /\ g.config = f.config /\ g.eligible = f.eligible /\ g.interactions = f.interactions /\ g.self = a
                 /\ g.champ = b
      BY ONLY <3>6, <3>7, <3>8 DEF Estimators
    <3>9. /\ et[k] \in Estimators /\ et[k].config = es[k].config /\ et[k].eligible = es[k].eligible
          /\ et[k].interactions = es[k].interactions /\ et[k].self = a /\ et[k].champ = b
      BY ONLY <3>3, <3>4, <3>8, ZenonT(60)
    <3> QED BY ONLY <2>2, <3>6, <3>7, <3>9
  <2> QED BY <2>1, <2>2
<1>4. et \in Seq(Estimators) /\ Len(et) = Len(es)
  <2>1. DOMAIN et = 1 .. Len(es) /\ et = [k \in 1 .. Len(es) |-> et[k]] BY <1>1 DEF OffsetLearn
  <2>2. et \in [1 .. Len(es) -> Estimators] BY <1>3, <2>1
  <2> QED BY <1>1, <2>2
<1> HIDE DEF es, et
<1>5. TypesOk(et, configs, valid_config_size, index_queue, weights, ns_counter) BY <1>0, <1>4 DEF AmlWell, TypesOk
<1>6. SlotsOk(et, configs, valid_config_size, index_queue, ns_counter)
  <2>1. \A i : (\E k \in 1 .. Len(et) : et[k].config = i) <=> (\E k \in 1 .. Len(es) : es[k].config = i) BY ONLY <1>3, <1>4
  <2>2. et[1].config = 0 /\ ~et[1].eligible BY ONLY <1>1, <1>2, <1>3 DEF SlotsOk
  <2>3. \A j, k \in 1 .. Len(et) : et[j].config = et[k].config => j = k BY ONLY <1>2, <1>3, <1>4 DEF SlotsOk
  <2>4. \A k \in 1 .. Len(et) : et[k].config \in 0 .. valid_config_size - 1 /\ et[k].config \notin index_queue
    BY ONLY <1>2, <1>3, <1>4 DEF SlotsOk
  <2> QED BY ONLY <1>2, <2>1, <2>2, <2>3, <2>4 DEF SlotsOk
<1>7. OwnsOk(et, configs, weights, ns_counter) BY ONLY <1>2, <1>3, <1>4 DEF OwnsOk
<1>8. \A k \in 2 .. Len(es) : k \in 1 .. Len(es) /\ k # 1 BY <1>1
<1>9. FairOk(et, configs)
  <2> SUFFICES ASSUME NEW k \in 2 .. Len(es)
               PROVE  /\ et[k].self.n = et[k].champ.n /\ et[k].self.of \subseteq {Key(configs[et[k].config + 1])}
                      /\ et[k].champ.of \subseteq {Key(configs[1])}
    BY <1>4 DEF FairOk
  <2>1. /\ es[k].self.n = es[k].champ.n /\ es[k].self.of \subseteq {Key(configs[es[k].config + 1])}
        /\ es[k].champ.of \subseteq {Key(configs[1])}
    BY <1>2 DEF FairOk
  <2>2. /\ et[k].self.n = es[k].self.n + 1 /\ et[k].self.of = es[k].self.of \cup {Key(configs[es[k].config + 1])}
        /\ et[k].champ.n = es[k].champ.n + 1 /\ et[k].champ.of = es[k].champ.of \cup {Key(configs[1])} /\ et[k].config = es[k].config
    BY <1>3, <1>8
  <2> QED BY ONLY <2>1, <2>2
<1>10. BudgetOk(et)
  <2>1. Favoured(et) = Favoured(es) BY ONLY <1>3, <1>4, <1>8 DEF Favoured
  <2> QED BY <1>2, <2>1 DEF BudgetOk
<1>11. AmlWell(et, configs, valid_config_size, index_queue, weights, ns_counter)
  BY <1>0, <1>5, <1>6, <1>7, <1>9, <1>10 DEF AmlWell
<1>12. AmlWell(estimators, configs, valid_config_size, index_queue, weights, ns_counter)' BY <1>0, <1>11 DEF et
<1>13. DupeOk' BY <1>0 DEF DupeOk
<1> QED BY <1>0, <1>12, <1>13 DEF AmlInv

(* g is f with two entries that have changed places.                       *)
Exchanged(g, f, i, j) ==
  /\ g \in Seq(Confs) /\ Len(g) = Len(f) /\ g[i] = f[j] /\ g[j] = f[i]
  /\ \A k \in 1 .. Len(f) : k # i /\ k # j => g[k] = f[k]

(* Swap swaps.                                                             *)
LEMMA SwapIs ==
  ASSUME NEW f \in Seq(Confs), NEW i \in 1 .. Len(f), NEW j \in 1 .. Len(f) PROVE Exchanged(Swap(f, i, j), f, i, j)
<1>1. f \in [1 .. Len(f) -> Confs] /\ Len(f) \in Nat OBVIOUS
<1> DEFINE g == [f EXCEPT ![i] = f[j]]
           h == [g EXCEPT ![j] = f[i]]
<1>2. g \in [1 .. Len(f) -> Confs] /\ g[i] = f[j] /\ \A k \in 1 .. Len(f) : k # i => g[k] = f[k] BY <1>1
<1>3. Swap(f, i, j) = h BY DEF Swap
<1> HIDE DEF g
<1>4. h \in [1 .. Len(f) -> Confs] /\ h[j] = f[i] /\ \A k \in 1 .. Len(f) : k # j => h[k] = g[k] BY <1>1, <1>2
<1> HIDE DEF h
<1>5. h[i] = f[j] BY <1>2, <1>4
<1>6. h \in Seq(Confs) /\ Len(h) = Len(f) BY ONLY <1>1, <1>4
<1> QED BY ONLY <1>2, <1>3, <1>4, <1>5, <1>6 DEF Exchanged

(* What keep_best_two leaves: the winner's configuration, then the         *)
(* champion's, and nothing else that is live.                              *)
BestTwo(kb, cs, c) ==
  /\ OracleWell(kb) /\ kb.configs[1] = cs[c + 1] /\ kb.configs[2] = cs[1] /\ kb.queue = {} /\ kb.valid >= 2
  /\ \A i \in 3 .. kb.valid : kb.configs[i].state = "Inactive"

(* keep_best_two.                                                          *)
LEMMA KeepBestTwoIs ==
  ASSUME AmlInv, NEW c \in 1 .. valid_config_size - 1, NEW kb, kb = KeepBestTwo(c)
  PROVE  BestTwo(kb, configs, c) /\ (oracle = "champdupe" => kb.valid = 3 /\ Len(kb.configs) = 3)
<1>0. configs \in Seq(Confs) /\ valid_config_size \in Nat /\ valid_config_size \in 1 .. Len(configs) /\ Len(configs) \in Nat
      /\ (oracle = "champdupe" => valid_config_size = Len(configs) /\ valid_config_size \in {1, 3})
  BY DEF AmlInv, AmlWell, TypesOk, DupeOk
<1>1. c \in Nat /\ c + 1 \in 1 .. Len(configs) /\ 1 \in 1 .. Len(configs) /\ 2 \in 1 .. Len(configs) /\ c + 1 # 1 /\ valid_config_size >= 2
      /\ c + 1 \in 2 .. Len(configs) /\ (c # 1 => c + 1 # 2)
  BY ONLY <1>0, c \in 1 .. valid_config_size - 1
<1> DEFINE cs == IF c = 1 THEN Swap(configs, 1, 2) ELSE Swap(Swap(configs, 1, c + 1), 2, c + 1)
<1>2. cs \in Seq(Confs) /\ Len(cs) = Len(configs) /\ cs[1] = configs[c + 1] /\ cs[2] = configs[1]
  <2>1. CASE c = 1
    <3>1. cs = Swap(configs, 1, 2) /\ c + 1 = 2 BY <2>1
    <3> HIDE DEF cs
    <3>2. Exchanged(cs, configs, 1, 2) BY ONLY <1>0, <1>1, <3>1, SwapIs
    <3> QED BY ONLY <3>1, <3>2 DEF Exchanged
  <2>2. CASE c # 1
    <3> DEFINE s1 == Swap(configs, 1, c + 1)
    <3>1. cs = Swap(s1, 2, c + 1) BY <2>2
    <3>2. /\ s1 \in Seq(Confs) /\ Len(s1) = Len(configs) /\ s1[1] = configs[c + 1] /\ s1[c + 1] = configs[1]
      <4>1. Exchanged(s1, configs, 1, c + 1) BY ONLY <1>0, <1>1, SwapIs
      <4> HIDE DEF s1
      <4> QED BY ONLY <4>1 DEF Exchanged
    <3> HIDE DEF s1, cs
    <3>3. 2 \in 1 .. Len(s1) /\ c + 1 \in 1 .. Len(s1) /\ 1 \in 1 .. Len(s1) BY <1>1, <3>2
    <3>4. /\ cs \in Seq(Confs) /\ Len(cs) = Len(s1) /\ cs[2] = s1[c + 1]
          /\ \A k \in 1 .. Len(s1) : k # 2 /\ k # c + 1 => cs[k] = s1[k]
      <4>1. Exchanged(cs, s1, 2, c + 1) BY ONLY <3>1, <3>2, <3>3, SwapIs
      <4> QED BY ONLY <4>1 DEF Exchanged
    <3>5. cs[1] = s1[1] BY <1>1, <3>3, <3>4
    <3> QED BY ONLY <3>2, <3>4, <3>5
  <2> QED BY <2>1, <2>2
<1>3. kb = IF oracle = "champdupe"
           THEN [configs |-> [cs EXCEPT ![3].state = "Inactive"], valid |-> valid_config_size, queue |-> {}]
           ELSE [configs |-> cs, valid |-> 2, queue |-> {}]
  BY DEF KeepBestTwo
<1> HIDE DEF cs
<1>4. CASE oracle = "champdupe"
  <2>1. valid_config_size = 3 /\ Len(configs) = 3 BY <1>0, <1>1, <1>4
  <2> DEFINE x == [cs[3] EXCEPT !.state = "Inactive"]
             ct == [cs EXCEPT ![3] = x]
  <2>2. cs[3] \in Confs /\ 3 \in 1 .. Len(cs) /\ 1 \in 1 .. Len(cs) /\ 2 \in 1 .. Len(cs) BY <1>2, <2>1
  <2>3. x \in Confs /\ x.state = "Inactive" BY <2>2 DEF Confs
  <2>4. kb = [configs |-> ct, valid |-> 3, queue |-> {}] BY <1>2, <1>3, <1>4, <2>1, <2>2
  <2> HIDE DEF x
  <2>5. ct \in Seq(Confs) /\ Len(ct) = 3 /\ ct[1] = cs[1] /\ ct[2] = cs[2] /\ ct[3] = x
    <3>1. cs \in [1 .. 3 -> Confs]
      <4>1. cs \in Seq(Confs) BY <1>2
      <4>2. Len(cs) = 3 BY <1>2, <2>1
      <4>3. cs \in [1 .. Len(cs) -> Confs] BY ONLY <4>1
      <4> QED BY ONLY <4>2, <4>3
    <3>2. ct \in [1 .. 3 -> Confs] BY ONLY <2>3, <3>1
    <3>3. ct[1] = cs[1] /\ ct[2] = cs[2] /\ ct[3] = x BY ONLY <3>1
    <3> HIDE DEF ct
    <3> QED BY ONLY <3>2, <3>3
  <2> HIDE DEF ct
  <2>6. kb.configs = ct /\ kb.valid = 3 /\ kb.queue = {} BY <2>4
  <2>7. OracleWell(kb) BY <2>4, <2>5, <2>6 DEF OracleWell
  <2>8. \A i \in 3 .. 3 : i = 3 OBVIOUS
  <2> QED BY ONLY <1>2, <2>3, <2>5, <2>6, <2>7, <2>8 DEF BestTwo
<1>5. CASE oracle # "champdupe"
  <2>1. kb = [configs |-> cs, valid |-> 2, queue |-> {}] BY <1>3, <1>5
  <2>2. kb.configs = cs /\ kb.valid = 2 /\ kb.queue = {} BY <2>1
  <2>3. 2 \in 1 .. Len(cs) BY <1>1, <1>2
  <2>4. OracleWell(kb) BY <1>2, <2>1, <2>2, <2>3 DEF OracleWell
  <2>5. 3 .. 2 = {} OBVIOUS
  <2> QED BY ONLY <1>2, <1>5, <2>2, <2>4, <2>5 DEF BestTwo
<1> QED BY <1>4, <1>5

(* The weights of the winner and of the champion.                          *)
LEMMA WeightsMovedIs ==
  ASSUME weights \in [0 .. max_live_configs - 1 -> Keys], NEW w \in 1 .. max_live_configs - 1
  PROVE  /\ WeightsMoved(w) \in [0 .. max_live_configs - 1 -> Keys]
         /\ WeightsMoved(w)[0] = weights[w] /\ WeightsMoved(w)[1] = weights[0]
<1> DEFINE D == 0 .. max_live_configs - 1
           g == [weights EXCEPT ![0] = weights[w]]
           h == [g EXCEPT ![w] = weights[0]]
           m == [h EXCEPT ![1] = h[w]]
<1>1. 0 \in D /\ 1 \in D /\ w \in D /\ w # 0 BY AutoMLAssumption
<1>2. WeightsMoved(w) = m BY DEF WeightsMoved, Swap
<1> HIDE DEF D
<1>3. weights \in [D -> Keys] BY DEF D
<1>4. g \in [D -> Keys] /\ g[0] = weights[w] BY <1>1, <1>3
<1> HIDE DEF g
<1>5. h \in [D -> Keys] /\ h[0] = weights[w] /\ h[w] = weights[0] BY <1>1, <1>3, <1>4
<1> HIDE DEF h
<1>6. m \in [D -> Keys] /\ m[0] = weights[w] /\ m[1] = weights[0] BY <1>1, <1>5
<1> QED BY <1>2, <1>6 DEF D

(* The two slots after a change of the champion.                           *)
Crowned(a, b, es, w) ==
  /\ a \in Estimators /\ a.config = 0 /\ ~a.eligible /\ a.interactions = es[w + 1].interactions
  /\ b \in Estimators /\ b.config = 1 /\ b.interactions = es[1].interactions
  /\ b.self = es[w + 1].champ /\ b.champ = es[w + 1].self

(* Their estimators.                                                       *)
LEMMA RolesAre ==
  ASSUME AmlInv, NEW w \in 1 .. Len(estimators) - 1, NEW a, a = [estimators[w + 1] EXCEPT !.config = 0, !.eligible = FALSE],
         NEW o, o = IF priority_challengers > 1 THEN [estimators[1] EXCEPT !.eligible = FALSE] ELSE estimators[1]
  PROVE  Crowned(a, ChangedRoles(a, o), estimators, w)
<1>0. /\ Len(estimators) \in Nat /\ 1 \in 1 .. Len(estimators) /\ \A k \in 1 .. Len(estimators) : estimators[k] \in Estimators
  BY SlotPlaces DEF AmlInv
<1>1. w + 1 \in 1 .. Len(estimators) BY ONLY <1>0, w \in 1 .. Len(estimators) - 1
<1>2. estimators[w + 1] \in Estimators /\ estimators[1] \in Estimators BY <1>0, <1>1
<1>3. ASSUME NEW f, f \in Estimators, NEW g, g = [f EXCEPT !.config = 0, !.eligible = FALSE]
      PROVE  /\ g \in Estimators /\ g.config = 0 /\ g.eligible = FALSE /\ g.interactions = f.interactions
             /\ g.self = f.self /\ g.champ = f.champ
  BY ONLY <1>3 DEF Estimators
<1>4. /\ a \in Estimators /\ a.config = 0 /\ a.eligible = FALSE /\ a.interactions = estimators[w + 1].interactions
      /\ a.self = estimators[w + 1].self /\ a.champ = estimators[w + 1].champ
  BY ONLY <1>2, <1>3, a = [estimators[w + 1] EXCEPT !.config = 0, !.eligible = FALSE]
<1>5. ASSUME NEW f, f \in Estimators, NEW g, g = [f EXCEPT !.eligible = FALSE]
      PROVE  g \in Estimators /\ g.interactions = f.interactions
  BY ONLY <1>5 DEF Estimators
<1>6. o \in Estimators /\ o.interactions = estimators[1].interactions BY <1>2, <1>5
<1>7. a.self \in Tallies /\ a.champ \in Tallies BY <1>4 DEF Estimators
<1> DEFINE b == ChangedRoles(a, o)
<1>8. b = [o EXCEPT !.config = 1, !.self = a.champ, !.champ = a.self] BY DEF ChangedRoles
<1> HIDE DEF b
<1>9. b \in Estimators /\ b.config = 1 /\ b.interactions = o.interactions /\ b.self = a.champ /\ b.champ = a.self
  <2> DEFINE x == a.champ
             y == a.self
  <2>1. b = [o EXCEPT !.config = 1, !.self = x, !.champ = y] /\ x \in Tallies /\ y \in Tallies BY <1>7, <1>8
  <2> HIDE DEF x, y
  <2>2. b \in Estimators /\ b.config = 1 /\ b.interactions = o.interactions /\ b.self = x /\ b.champ = y
    BY ONLY <1>6, <2>1 DEF Estimators
  <2> QED BY <2>2 DEF x, y
<1> QED BY ONLY <1>4, <1>6, <1>9 DEF Crowned, b

(* A change of the champion, up to the new configurations.                 *)
LEMMA CrownedWell ==
  ASSUME NEW es, NEW cs, NEW v, NEW q, NEW ws, NEW ns, AmlWell(es, cs, v, q, ws, ns), ns # {}, NEW w \in 1 .. Len(es) - 1, NEW kb,
         BestTwo(kb, cs, es[w + 1].config), NEW a, NEW b, Crowned(a, b, es, w), NEW et, et = <<a, b>>,
         NEW wt \in [0 .. max_live_configs - 1 -> Keys], wt[0] = ws[w], wt[1] = ws[0]
  PROVE  AmlWell(et, kb.configs, kb.valid, kb.queue, wt, ns)
<1> DEFINE c == es[w + 1].config
           ct == kb.configs
<1>0. /\ Len(es) \in Nat /\ 1 \in 1 .. Len(es) /\ Len(es) \in 1 .. max_live_configs
      /\ \A k \in 1 .. Len(es) : es[k].config \in Nat /\ es[k].config \in 0 .. v - 1
      /\ SlotsOk(es, cs, v, q, ns) /\ OwnsOk(es, cs, ws, ns) /\ FairOk(es, cs)
      /\ ns \in SUBSET Namespaces
  BY SlotPlaces DEF AmlWell, TypesOk, SlotsOk
<1>1. w \in Nat /\ w + 1 \in 1 .. Len(es) /\ w + 1 \in 2 .. Len(es) /\ (w + 1) - 1 = w /\ w + 1 # 1
  BY ONLY <1>0, w \in 1 .. Len(es) - 1
<1>2. /\ es[1].config = 0 /\ es[1].config + 1 = 1 /\ cs[1].state = "Live" /\ cs[c + 1].state = "Live"
  <2>1. es[1].config = 0 BY <1>0 DEF SlotsOk
  <2>2. \A i \in 0 .. v - 1 : (\E k \in 1 .. Len(es) : es[k].config = i) => cs[i + 1].state = "Live" BY <1>0, ns # {} DEF SlotsOk
  <2>3. cs[es[1].config + 1].state = "Live" BY <1>0, <2>2
  <2>4. cs[c + 1].state = "Live" BY <1>0, <1>1, <2>2
  <2>5. es[1].config + 1 = 1 BY <2>1
  <2> QED BY <2>1, <2>3, <2>4, <2>5
<1>3. /\ ws[0] = Key(cs[1]) /\ es[1].interactions = Interactions(ns, cs[1])
      /\ ws[w] = Key(cs[c + 1]) /\ es[w + 1].interactions = Interactions(ns, cs[c + 1])
  <2>1. 1 - 1 = 0 OBVIOUS
  <2> QED BY <1>0, <1>1, <1>2, <2>1 DEF OwnsOk
<1>4. /\ es[w + 1].self.n = es[w + 1].champ.n /\ es[w + 1].self.of \subseteq {Key(cs[c + 1])} /\ es[w + 1].champ.of \subseteq {Key(cs[1])}
  BY <1>0, <1>1 DEF FairOk
<1> HIDE DEF c, ct
<1>5. /\ ct \in Seq(Confs) /\ kb.valid \in Nat /\ kb.valid \in 1 .. Len(ct) /\ ct[1] = cs[c + 1] /\ ct[2] = cs[1] /\ kb.queue = {}
      /\ kb.valid >= 2 /\ \A i \in 3 .. kb.valid : ct[i].state = "Inactive"
  BY DEF BestTwo, OracleWell, c, ct
<1>6. /\ a \in Estimators /\ a.config = 0 /\ ~a.eligible /\ a.interactions = es[w + 1].interactions
      /\ b \in Estimators /\ b.config = 1 /\ b.interactions = es[1].interactions
      /\ b.self = es[w + 1].champ /\ b.champ = es[w + 1].self
  BY DEF Crowned
<1>7. et \in Seq(Estimators) /\ Len(et) = 2 /\ et[1] = a /\ et[2] = b BY ONLY <1>6, et = <<a, b>>
<1>8. \A k \in 1 .. Len(et) : k = 1 \/ k = 2 BY <1>7
<1>9. 1 \in 1 .. Len(et) /\ 2 \in 1 .. Len(et) BY <1>7
<1>10. TypesOk(et, ct, kb.valid, {}, wt, ns)
  <2>1. Len(et) \in 1 .. max_live_configs BY <1>7, AutoMLAssumption
  <2> QED BY ONLY <1>0, <1>5, <1>7, <2>1, wt \in [0 .. max_live_configs - 1 -> Keys] DEF TypesOk
<1>11. SlotsOk(et, ct, kb.valid, {}, ns)
  <2>1. \A j, k \in 1 .. Len(et) : et[j].config = et[k].config => j = k BY ONLY <1>6, <1>7, <1>8
  <2>2. \A k \in 1 .. Len(et) : et[k].config \in 0 .. kb.valid - 1 BY ONLY <1>5, <1>6, <1>7, <1>8
  <2>3. ASSUME NEW i \in 0 .. kb.valid - 1
        PROVE  ct[i + 1].state = "Live" <=> (\E k \in 1 .. Len(et) : et[k].config = i) /\ ~(i = 0 /\ ns = {})
    <3>1. CASE i = 0
      <4>1. ct[i + 1].state = "Live" BY <1>2, <1>5, <3>1
      <4>2. et[1].config = i BY <1>6, <1>7, <3>1
      <4> QED BY <1>9, <4>1, <4>2
    <3>2. CASE i = 1
      <4>1. ct[i + 1].state = "Live" BY <1>2, <1>5, <3>2
      <4>2. et[2].config = i /\ i # 0 BY <1>6, <1>7, <3>2
      <4> QED BY <1>9, <4>1, <4>2
    <3>3. CASE i # 0 /\ i # 1
      <4>1. i + 1 \in 3 .. kb.valid BY ONLY <1>5, <3>3, i \in 0 .. kb.valid - 1
      <4>2. ct[i + 1].state = "Inactive" BY <1>5, <4>1
      <4>3. ~\E k \in 1 .. Len(et) : et[k].config = i BY ONLY <1>6, <1>7, <1>8, <3>3
      <4> QED BY ONLY <4>2, <4>3
    <3> QED BY <3>1, <3>2, <3>3
  <2>4. et[1].config = 0 /\ ~et[1].eligible BY ONLY <1>6, <1>7
  <2> QED BY ONLY <2>1, <2>2, <2>3, <2>4 DEF SlotsOk
<1>12. OwnsOk(et, ct, wt, ns)
  <2> SUFFICES ASSUME NEW k \in 1 .. Len(et)
               PROVE  wt[k - 1] = Key(ct[et[k].config + 1]) /\ et[k].interactions = Interactions(ns, ct[et[k].config + 1])
    BY DEF OwnsOk
  <2>1. CASE k = 1
    <3>1. et[k].config + 1 = 1 /\ k - 1 = 0 /\ et[k] = a BY ONLY <1>6, <1>7, <2>1
    <3> QED BY ONLY <1>3, <1>5, <1>6, <3>1, wt[0] = ws[w]
  <2>2. CASE k = 2
    <3>1. et[k].config + 1 = 2 /\ k - 1 = 1 /\ et[k] = b BY ONLY <1>6, <1>7, <2>2
    <3> QED BY ONLY <1>3, <1>5, <1>6, <3>1, wt[1] = ws[0]
  <2> QED BY <1>8, <2>1, <2>2
<1>13. FairOk(et, ct)
  <2> SUFFICES ASSUME NEW k \in 2 .. Len(et)
               PROVE  /\ et[k].self.n = et[k].champ.n /\ et[k].self.of \subseteq {Key(ct[et[k].config + 1])}
                      /\ et[k].champ.of \subseteq {Key(ct[1])}
    BY DEF FairOk
  <2>1. k = 2 BY ONLY <1>7, k \in 2 .. Len(et)
  <2>2. et[k].config + 1 = 2 /\ et[k] = b BY ONLY <1>6, <1>7, <2>1
  <2> QED BY ONLY <1>4, <1>5, <1>6, <2>2
<1>14. BudgetOk(et)
  <2> SUFFICES ASSUME priority_challengers > 0 PROVE Cardinality(Favoured(et)) <= priority_challengers BY DEF BudgetOk
  <2>1. Cardinality(2 .. Len(et)) = IF Len(et) >= 2 THEN Len(et) - 1 ELSE 0 BY <1>7, FavouredIs
  <2>2. Cardinality(2 .. Len(et)) = 1 BY ONLY <1>7, <2>1
  <2>3. Cardinality(Favoured(et)) <= 1 /\ Cardinality(Favoured(et)) \in Nat BY <1>7, <2>2, FavouredIs
  <2>4. priority_challengers \in Nat BY AutoMLAssumption
  <2> HIDE DEF Favoured
  <2> QED BY <2>3, <2>4
<1> QED BY <1>5, <1>10, <1>11, <1>12, <1>13, <1>14, ns # {} DEF AmlWell, ct

(* check_for_new_champ.                                                    *)
LEMMA CheckInv == AmlInv /\ CheckForNewChamp /\ oracle' = oracle => AmlInv'
<1> SUFFICES ASSUME AmlInv, CheckForNewChamp, oracle' = oracle PROVE AmlInv' OBVIOUS
<1>0. /\ AmlWell(estimators, configs, valid_config_size, index_queue, weights, ns_counter) /\ DupeOk /\ amlStep' = "idle"
      /\ ns_counter # {} /\ live_slot \in 0 .. max_live_configs - 1 /\ UNCHANGED <<ns_counter, live_slot, oracle>>
  BY DEF AmlInv, CheckForNewChamp
<1>1. ASSUME AmlWell(estimators', configs', valid_config_size', index_queue', weights', ns_counter), DupeOk' PROVE AmlInv'
  BY <1>0, <1>1 DEF AmlInv
<1>2. CASE UNCHANGED <<configs, valid_config_size, index_queue, estimators, weights>>
  BY <1>0, <1>1, <1>2 DEF DupeOk
<1>3. ASSUME NEW w \in 1 .. Len(estimators) - 1, ApplyNewChamp(w) PROVE AmlInv'
  <2> DEFINE a == [estimators[w + 1] EXCEPT !.config = 0, !.eligible = FALSE]
             o == IF priority_challengers > 1 THEN [estimators[1] EXCEPT !.eligible = FALSE] ELSE estimators[1]
             b == ChangedRoles(a, o)
             c == estimators[w + 1].config
             kb == KeepBestTwo(c)
             t == GenConfigs(kb, a.interactions, ns_counter)
  <2>1. /\ estimators' = <<a, b>> /\ weights' = WeightsMoved(w)
        /\ configs' = t.configs /\ valid_config_size' = t.valid /\ index_queue' = t.queue
    BY <1>3 DEF ApplyNewChamp, SetOracle
  <2>2. Crowned(a, b, estimators, w) BY <1>3, RolesAre
  <2> HIDE DEF a, b, o
  <2>3. Len(estimators) \in Nat /\ Len(estimators) \in 1 .. max_live_configs /\ 1 \in 1 .. Len(estimators)
        /\ weights \in [0 .. max_live_configs - 1 -> Keys] /\ ns_counter \in SUBSET Namespaces /\ valid_config_size \in Nat
        /\ SlotsOk(estimators, configs, valid_config_size, index_queue, ns_counter)
    BY <1>0, SlotPlaces DEF AmlWell, TypesOk
  <2>4. w + 1 \in 1 .. Len(estimators) /\ w + 1 # 1 /\ w \in 1 .. max_live_configs - 1
    BY ONLY <2>3, AutoMLAssumption, w \in 1 .. Len(estimators) - 1
  <2>5. c \in 0 .. valid_config_size - 1 /\ c # 0 BY ONLY <2>3, <2>4 DEF SlotsOk
  <2>6. c \in 1 .. valid_config_size - 1 BY ONLY <2>3, <2>5
  <2>7. BestTwo(kb, configs, c) /\ (oracle = "champdupe" => kb.valid = 3 /\ Len(kb.configs) = 3) BY <2>6, KeepBestTwoIs
  <2> HIDE DEF kb
  <2>8. /\ weights' \in [0 .. max_live_configs - 1 -> Keys] /\ weights'[0] = weights[w] /\ weights'[1] = weights[0]
    BY <2>1, <2>3, <2>4, WeightsMovedIs
  <2> DEFINE et == estimators'
             wt == weights'
  <2>9. AmlWell(et, kb.configs, kb.valid, kb.queue, wt, ns_counter)
    <3>1. et = <<a, b>> /\ wt \in [0 .. max_live_configs - 1 -> Keys] /\ wt[0] = weights[w] /\ wt[1] = weights[0]
      BY <2>1, <2>8
    <3>2. BestTwo(kb, configs, estimators[w + 1].config) BY <2>7
    <3> HIDE DEF et, wt
    <3> QED BY ONLY <1>0, <2>2, <3>1, <3>2, CrownedWell, w \in 1 .. Len(estimators) - 1
  <2> HIDE DEF et, wt, c
  <2>10. OracleWell(kb) BY <2>7 DEF BestTwo
  <2>11. a.interactions \in Elements
    <3>1. a \in Estimators BY <2>2 DEF Crowned
    <3> QED BY <3>1 DEF Estimators
  <2>12. /\ Extended(t, kb)
         /\ oracle = "champdupe" => IF Len(kb.configs) = 1 THEN t.valid = kb.valid + 2 /\ Len(t.configs) = t.valid ELSE t = kb
    BY ONLY <2>3, <2>10, <2>11, GenWell
  <2> HIDE DEF t
  <2>13. AmlWell(et, t.configs, t.valid, t.queue, wt, ns_counter) BY ONLY <2>9, <2>10, <2>12, ExtendWell
  <2>14. DupeOk'
    <3> SUFFICES ASSUME oracle = "champdupe" PROVE valid_config_size' = Len(configs') /\ valid_config_size' \in {1, 3} BY <1>0 DEF DupeOk
    <3>1. kb.valid = 3 /\ Len(kb.configs) = 3 BY <2>7
    <3>2. ~(Len(kb.configs) = 1) BY ONLY <3>1
    <3>3. t = kb BY ONLY <2>12, <3>2, oracle = "champdupe"
    <3> QED BY <2>1, <3>1, <3>3
  <2>15. AmlWell(estimators', configs', valid_config_size', index_queue', weights', ns_counter) BY <2>1, <2>13 DEF et, wt
  <2> QED BY <1>1, <2>14, <2>15
<1> QED BY <1>2, <1>3 DEF CheckForNewChamp

(* automl starts with a new champion and nobody else.                      *)
LEMMA AmlInitInv == AmlInit => AmlInv
<1> SUFFICES ASSUME AmlInit PROVE AmlInv OBVIOUS
<1>0. ConfType \in ConfTypes /\ {} \in Elements BY DEF ConfType, ConfTypes, Elements
<1> DEFINE c == NewConfig({}, ConfType)
           e == NewEstimator
<1>1. c \in Confs /\ c.state = "New" /\ c.elements = {} /\ c.type = ConfType
  <2>1. c \in Confs /\ c.state = "New" BY <1>0, NewConfigIs
  <2>2. c.elements = {} /\ c.type = ConfType BY DEF NewConfig
  <2> QED BY <2>1, <2>2
<1>2. e \in Estimators /\ e.config = 0 /\ e.eligible = FALSE /\ e.interactions = {}
  <2> DEFINE z == [n |-> 0, of |-> {}]
  <2>1. z \in Tallies BY DEF Tallies
  <2>2. e = [config |-> 0, eligible |-> FALSE, interactions |-> {}, self |-> z, champ |-> z] BY DEF NewEstimator
  <2> HIDE DEF z, e
  <2> QED BY <1>0, <2>1, <2>2 DEF Estimators
<1>3. configs = <<c>> /\ estimators = <<e>> BY DEF AmlInit
<1> HIDE DEF c, e
<1>4. /\ configs \in Seq(Confs) /\ Len(configs) = 1 /\ configs[1] = c
      /\ estimators \in Seq(Estimators) /\ Len(estimators) = 1 /\ estimators[1] = e
  BY <1>1, <1>2, <1>3
<1>5. /\ valid_config_size = 1 /\ index_queue = {} /\ ns_counter = {} /\ amlStep = "idle" /\ live_slot = 0
      /\ weights = [s \in 0 .. max_live_configs - 1 |-> <<{}, ConfType>>]
  BY DEF AmlInit
<1>6. <<{}, ConfType>> \in Keys BY <1>0 DEF Keys
<1>7. max_live_configs \in Nat /\ 1 \in 1 .. max_live_configs /\ 0 \in 0 .. max_live_configs - 1 BY AutoMLAssumption
<1>8. TypesOk(estimators, configs, valid_config_size, index_queue, weights, ns_counter)
  <2>1. weights \in [0 .. max_live_configs - 1 -> Keys] BY <1>5, <1>6
  <2> QED BY ONLY <1>4, <1>5, <1>7, <2>1 DEF TypesOk
<1>9. \A k \in 1 .. 1 : k = 1 OBVIOUS
<1>10. \A i \in 0 .. 1 - 1 : i = 0 /\ i + 1 = 1 OBVIOUS
<1>11. SlotsOk(estimators, configs, valid_config_size, index_queue, ns_counter)
  BY ONLY <1>1, <1>2, <1>4, <1>5, <1>9, <1>10 DEF SlotsOk
<1>12. OwnsOk(estimators, configs, weights, ns_counter)
  <2>1. weights[0] = Key(c) BY <1>1, <1>5, <1>7 DEF Key
  <2>2. Interactions({}, c) = {} BY <1>1 DEF Interactions, Quadratic
  <2>3. \A k \in 1 .. 1 : k - 1 = 0 OBVIOUS
  <2> SUFFICES ASSUME NEW k \in 1 .. Len(estimators)
               PROVE  /\ weights[k - 1] = Key(configs[estimators[k].config + 1])
                      /\ estimators[k].interactions = Interactions(ns_counter, configs[estimators[k].config + 1])
    BY DEF OwnsOk
  <2>4. k = 1 /\ k - 1 = 0 BY <1>4, <1>9, <2>3
  <2>5. estimators[k] = e /\ e.config + 1 = 1 BY <1>2, <1>4, <2>4
  <2> QED BY ONLY <1>2, <1>4, <1>5, <2>1, <2>2, <2>4, <2>5
<1>13. FairOk(estimators, configs) BY <1>4 DEF FairOk
<1>14. BudgetOk(estimators)
  <2>1. Favoured(estimators) = {} BY <1>4 DEF Favoured
  <2>2. Cardinality({}) = 0 BY FS_EmptySet
  <2> QED BY <2>1, <2>2, AutoMLAssumption DEF BudgetOk
<1>15. AmlWell(estimators, configs, valid_config_size, index_queue, weights, ns_counter)
  BY <1>1, <1>4, <1>8, <1>11, <1>12, <1>13, <1>14 DEF AmlWell
<1>16. DupeOk BY <1>4, <1>5 DEF DupeOk
<1> QED BY ONLY <1>5, <1>7, <1>15, <1>16 DEF AmlInv

(* Every step of automl keeps its state well.                              *)
LEMMA AmlStep == AmlInv /\ [AmlNext]_amlVars => AmlInv'
<1> SUFFICES ASSUME AmlInv, [AmlNext]_amlVars PROVE AmlInv' OBVIOUS
<1>1. CASE UNCHANGED amlVars BY <1>1, ZenonT(60) DEF amlVars, AmlInv, AmlWell, TypesOk, SlotsOk, OwnsOk, FairOk, BudgetOk, DupeOk, Refilled
<1>2. ASSUME oracle' = oracle, NEW ns \in SUBSET Namespaces, Predict(ns) PROVE AmlInv'
  <2>1. /\ amlStep = "idle" /\ ProcessExample(ns) /\ UNCHANGED <<weights, oracle>> /\ amlStep' = "idle" /\ live_slot' = live_slot
    BY <1>2 DEF Predict
  <2>2. live_slot' \in 0 .. max_live_configs - 1 BY <2>1 DEF AmlInv
  <2> QED BY <2>1, <2>2, ProcessInv
<1>3. ASSUME oracle' = oracle, NEW ns \in SUBSET Namespaces, OneStep(ns) PROVE AmlInv'
  <2>1. /\ amlStep = "idle" /\ ProcessExample(ns) /\ UNCHANGED <<weights, oracle>> /\ amlStep' = "schedule" /\ live_slot' = 0
        /\ ns_counter' # {}
    BY <1>3 DEF OneStep, ProcessExample
  <2>2. live_slot' \in 0 .. max_live_configs - 1 BY <2>1, AutoMLAssumption
  <2> QED BY <2>1, <2>2, ProcessInv
<1> QED BY <1>1, <1>2, <1>3, KeepSlotInv, ReplaceSlotInv, OffsetLearnInv, CheckInv DEF AmlNext

(* What the state says: slots and configurations agree, weights and        *)
(* interactions are those of the slot's configuration, comparisons are     *)
(* fair and priorities within their number.                                *)
LEMMA AmlGood == AmlInv => SlotsAgree /\ SlotOwnsWeights /\ FairComparison /\ PriorityBudget
<1> SUFFICES ASSUME AmlInv PROVE SlotsAgree /\ SlotOwnsWeights /\ FairComparison /\ PriorityBudget OBVIOUS
<1>0. /\ AmlWell(estimators, configs, valid_config_size, index_queue, weights, ns_counter)
      /\ SlotsOk(estimators, configs, valid_config_size, index_queue, ns_counter) /\ OwnsOk(estimators, configs, weights, ns_counter)
      /\ FairOk(estimators, configs) /\ BudgetOk(estimators) /\ Len(estimators) \in 1 .. max_live_configs
  BY DEF AmlInv, AmlWell, TypesOk
<1>1. Len(estimators) \in Nat /\ 1 \in 1 .. Len(estimators) /\ DOMAIN estimators = 1 .. Len(estimators) BY <1>0, SlotPlaces
<1>2. \A k \in 1 .. Len(estimators) : ConfigOf(k - 1) = configs[estimators[k].config + 1]
  <2>1. \A k \in 1 .. Len(estimators) : (k - 1) + 1 = k BY <1>1
  <2> QED BY <2>1 DEF ConfigOf
<1>3. ConfigOf(0) = configs[1]
  <2>1. 0 + 1 = 1 /\ estimators[1].config = 0 BY <1>0 DEF SlotsOk
  <2> QED BY <2>1 DEF ConfigOf
<1>4. \A i : i \in Live <=> \E k \in 1 .. Len(estimators) : estimators[k].config = i BY <1>1 DEF Live
<1>5. Cardinality(Live) = Len(estimators)
  <2> DEFINE n == Len(estimators)
             f == [k \in 1 .. n |-> estimators[k].config]
  <2>1. f \in Bijection(1 .. n, Live)
    <3>1. f \in [1 .. n -> Live] BY <1>4
    <3>2. \A j, k \in 1 .. n : f[j] = f[k] => j = k BY <1>0 DEF SlotsOk
    <3>3. \A i \in Live : \E k \in 1 .. n : f[k] = i BY <1>4
    <3> HIDE DEF f, n
    <3>4. f \in Injection(1 .. n, Live) BY ONLY <3>1, <3>2 DEF Injection, IsInjective
    <3>5. f \in Surjection(1 .. n, Live) BY ONLY <3>1, <3>3 DEF Surjection
    <3> QED BY ONLY <3>4, <3>5 DEF Bijection
  <2> HIDE DEF f, n
  <2>2. n \in Nat BY <1>1 DEF n
  <2>3. IsFiniteSet(1 .. n) /\ Cardinality(1 .. n) = n BY <2>2, FS_Interval
  <2>4. Cardinality(Live) = Cardinality(1 .. n) BY <2>1, <2>3, FS_Bijection DEF ExistsBijection
  <2> QED BY <2>3, <2>4 DEF n
<1>6. SlotsAgree
  <2>1. Len(estimators) <= max_live_configs BY <1>0
  <2>2. Live \cup index_queue \subseteq 0 .. valid_config_size - 1 /\ Live \cap index_queue = {} 
    <3>1. \A i \in Live : i \in 0 .. valid_config_size - 1 /\ i \notin index_queue BY ONLY <1>0, <1>4 DEF SlotsOk
    <3>2. index_queue \subseteq 0 .. valid_config_size - 1 BY <1>0 DEF SlotsOk
    <3> QED BY ONLY <3>1, <3>2
  <2>3. \A i \in 0 .. valid_config_size - 1 :
          (configs[i + 1].state = "Live") <=> (i \in Live /\ ~(i = 0 /\ ns_counter = {}))
    BY <1>0, <1>4 DEF SlotsOk
  <2> QED BY <1>5, <2>1, <2>2, <2>3 DEF SlotsAgree
<1>7. SlotOwnsWeights BY <1>0, <1>1, <1>2 DEF SlotOwnsWeights, OwnsOk
<1>8. FairComparison
  <2>1. \A k \in 2 .. Len(estimators) : k \in 1 .. Len(estimators) OBVIOUS
  <2> QED BY <1>0, <1>2, <1>3, <2>1 DEF FairComparison, FairOk
<1>9. PriorityBudget BY <1>0 DEF PriorityBudget, BudgetOk, Favoured
<1> QED BY <1>6, <1>7, <1>8, <1>9

(* Whatever namespaces appear and whichever challengers win, for any       *)
(* number of slots, priorities and leases: slots, configurations, queue,   *)
(* weights and statistics of automl belong together.                       *)
THEOREM AutomlFair == AmlSpec => [](SlotsAgree /\ SlotOwnsWeights /\ FairComparison /\ PriorityBudget)
<1> QED BY AmlInitInv, AmlStep, AmlGood, PTL DEF AmlSpec
=============================================================================

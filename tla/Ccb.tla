-------------------------------- MODULE Ccb ---------------------------------
(***************************************************************************)
(* The conditional contextual bandit reduction (reductions/                *)
(* conditional_contextual_bandit.cc): a multi-line example of a shared     *)
(* line, actions and slots becomes one contextual bandit example per slot, *)
(* of the shared line with the slot's features, tag and id added, and the  *)
(* actions that no earlier slot has taken.  The lines are changed in place *)
(* and put back: the labels by guards, the rest after the base's return.   *)
(* Actions are numbered from 0, slots from 1; a line of the call number c  *)
(* is <<c, "shared">> or <<c, action>>.                                    *)
(***************************************************************************)
EXTENDS Integers, Sequences, FiniteSets, SequencesExt

CONSTANTS MaxActions, MaxSlots,  \* bounds: lines of an example
          MaxCcbCalls            \* bound: calls

ASSUME CcbAssumption == {MaxActions, MaxSlots, MaxCcbCalls} \subseteq Nat

NoOutcome == -1
(* What a slot's label says: the actions it may take (empty: all, and ids  *)
(* that no action has are ignored) and the labelled action.                *)
SlotLabels == [includes : SUBSET (0 .. MaxActions - 1), outcome : NoOutcome .. MaxActions - 1]

VARIABLES
  no_pred,       \* --no_predict
  ccbStep,       \* "idle", "slot", "base", or "lost": the base was called with freed lines
  ccbCall, learns, numActions, ccbSlots,      \* the call and its example
  labelsIn,      \* "examples" or "stored_labels"
  ccbCosts,         \* the cb labels on actions: [action, position, slot]
  exclude_list, cb_ex,
  shared,        \* what has been added to the shared line: slots' features, id, and whose tag it has
  decision_scores, slot_id,
  outcomeOf,     \* how the last call ended: "none", "returned", "threw", "malformed"
  ccbThrown         \* a base reduction has thrown in some call

ccbVars == <<no_pred, ccbStep, ccbCall, learns, numActions, ccbSlots, labelsIn, ccbCosts, exclude_list, cb_ex,
             shared, decision_scores, slot_id, outcomeOf, ccbThrown>>

Plain == [features |-> << >>, id |-> FALSE, tag |-> 0]

CcbInit ==
  /\ no_pred \in BOOLEAN
  /\ ccbStep = "idle" /\ ccbCall = 0 /\ learns = FALSE /\ numActions = 0 /\ ccbSlots = << >>
  /\ labelsIn = "examples" /\ ccbCosts = {} /\ exclude_list = {} /\ cb_ex = << >> /\ shared = Plain
  /\ decision_scores = << >> /\ slot_id = 0 /\ outcomeOf = "none" /\ ccbThrown = FALSE

-----------------------------------------------------------------------------
(* learn_or_predict up to the loop.  The labels are stashed first, so the  *)
(* test for a missing probability, which looks at the lines, never finds   *)
(* one.  A line of no type returns before the guard that restores them.    *)
Restored_Slip == "stored_labels"
Restored == "examples"

LearnOrPredict(isLearn, n, labels, wellTyped) ==
  /\ ccbStep = "idle" /\ outcomeOf = "none" /\ ccbCall < MaxCcbCalls /\ ccbCall' = ccbCall + 1
  /\ learns' = isLearn /\ numActions' = n /\ ccbSlots' = labels
  /\ ccbCosts' = {} /\ shared' = Plain /\ decision_scores' = << >> /\ slot_id' = 1
  /\ IF ~wellTyped
     THEN outcomeOf' = "malformed" /\ labelsIn' = "stored_labels" /\ ccbStep' = "idle"
          /\ UNCHANGED exclude_list
     ELSE IF Len(labels) > n
     THEN outcomeOf' = "threw" /\ labelsIn' = Restored /\ ccbStep' = "idle" /\ UNCHANGED exclude_list
     ELSE outcomeOf' = "none" /\ labelsIn' = "stored_labels" /\ ccbStep' = "slot" /\ exclude_list' = {}
  /\ UNCHANGED <<cb_ex, ccbThrown>>

-----------------------------------------------------------------------------
Label == ccbSlots[slot_id]
Included(a) == Label.includes = {} \/ a \in Label.includes
Taken_Slip(a) == FALSE
Taken(a) == a \in exclude_list
Free == {a \in 0 .. numActions - 1 : Included(a) /\ ~Taken(a)}
InOrder(S) ==
  LET places == 1 .. Cardinality(S)
  IN  CHOOSE s \in [places -> S] : \A i, j \in places : i < j => s[i] < s[j]
Available == InOrder(Free)
PlaceOf(a) == CHOOSE k \in DOMAIN Available : Available[k] = a

(* build_cb_example and inject_slot_id.                                    *)
Attached ==
  IF learns /\ Label.outcome \in Range(Available)
  THEN {[action |-> Label.outcome, position |-> PlaceOf(Label.outcome), slotNo |-> slot_id]} ELSE {}

BuildCbExample ==
  /\ ccbStep = "slot" /\ slot_id <= Len(ccbSlots)
  /\ cb_ex' = cb_ex \o << <<ccbCall, "shared">> >>
                    \o [k \in DOMAIN Available |-> <<ccbCall, Available[k]>>]
  /\ ccbCosts' = ccbCosts \cup Attached
  /\ shared' = [features |-> Append(shared.features, slot_id), id |-> TRUE, tag |-> slot_id]
  /\ ccbStep' = IF ccbThrown THEN "lost" ELSE "base"
  /\ UNCHANGED <<ccbCall, learns, numActions, ccbSlots, labelsIn, exclude_list, decision_scores, slot_id,
                 outcomeOf, ccbThrown>>

(* remove_slot_features, remove_slot_id, the tag is swapped back.          *)
Removed_Slip == [shared EXCEPT !.id = FALSE, !.tag = 0]
Removed == [features |-> Front(shared.features), id |-> FALSE, tag |-> 0]
NextSlot ==
  /\ shared' = Removed /\ slot_id' = slot_id + 1 /\ cb_ex' = << >> /\ ccbStep' = "slot"
  /\ UNCHANGED <<ccbCall, learns, numActions, ccbSlots, labelsIn, outcomeOf, ccbThrown>>

(* The base's scores name positions; the first is the sampled action, or   *)
(* the labelled one.  save_action_scores_and_exclude_top_action, then      *)
(* clear_pred_and_label.                                                   *)
NoCosts_Slip == ccbCosts
NoCosts == {}
BaseReturns ==
  /\ ccbStep = "base" /\ ~no_pred /\ Available # << >>
  /\ \E top \in Range(Available) :
       /\ ccbCosts # {} => \E c \in ccbCosts : top = Available[c.position]
       /\ exclude_list' = exclude_list \cup {top}
       /\ decision_scores' = Append(decision_scores, <<top>> \o InOrder(Free \ {top}))
  /\ ccbCosts' = NoCosts /\ NextSlot

(* exclude_chosen_action: the labelled action, if there is one.            *)
BaseLearnsOnly ==
  /\ ccbStep = "base" /\ no_pred /\ Available # << >>
  /\ exclude_list' = exclude_list \cup {c.action : c \in ccbCosts}
  /\ ccbCosts' = NoCosts /\ UNCHANGED decision_scores /\ NextSlot

NoAction ==
  /\ ccbStep = "base" /\ Available = << >>
  /\ decision_scores' = Append(decision_scores, << >>)
  /\ UNCHANGED <<ccbCosts, exclude_list>> /\ NextSlot

(* The guards remove the cb labels and restore the ccb ones; the rest      *)
(* stays as it is, cb_ex too, which the next call does not clear.          *)
BaseThrows ==
  /\ ccbStep = "base" /\ Available # << >>
  /\ ccbStep' = "idle" /\ outcomeOf' = "threw" /\ ccbThrown' = TRUE
  /\ labelsIn' = Restored /\ ccbCosts' = {}
  /\ UNCHANGED <<ccbCall, learns, numActions, ccbSlots, exclude_list, cb_ex, shared, decision_scores, slot_id>>

CcbReturns ==
  /\ ccbStep = "slot" /\ slot_id > Len(ccbSlots)
  /\ ccbStep' = "idle" /\ outcomeOf' = "returned" /\ labelsIn' = Restored /\ ccbCosts' = {}
  /\ UNCHANGED <<ccbCall, learns, numActions, ccbSlots, exclude_list, cb_ex, shared, decision_scores,
                 slot_id, ccbThrown>>

(* cleanup_example_ccb; the next call clears the rest but cb_ex.           *)
CcbCleanup ==
  /\ ccbStep = "idle" /\ outcomeOf # "none" /\ outcomeOf' = "none"
  /\ learns' = FALSE /\ numActions' = 0 /\ ccbSlots' = << >> /\ labelsIn' = "examples"
  /\ exclude_list' = {} /\ shared' = Plain /\ decision_scores' = << >> /\ slot_id' = 0
  /\ UNCHANGED <<ccbStep, ccbCall, ccbCosts, cb_ex, ccbThrown>>

CcbStep ==
  \/ \E isLearn, wellTyped \in BOOLEAN, n \in 0 .. MaxActions, k \in 0 .. MaxSlots :
       \E labels \in [1 .. k -> SlotLabels] : LearnOrPredict(isLearn, n, labels, wellTyped)
  \/ BuildCbExample \/ BaseReturns \/ BaseLearnsOnly \/ NoAction \/ BaseThrows \/ CcbReturns
  \/ CcbCleanup
CcbNext == CcbStep /\ UNCHANGED no_pred
CcbSpec == CcbInit /\ [][CcbNext]_ccbVars

-----------------------------------------------------------------------------
(* Every slot decides on an action its label allows and no earlier slot    *)
(* has taken, and ranks all actions that are left, in the numbering of the *)
(* whole example; a slot for which none is left has an empty decision.     *)
DistinctChoices ==
  LET Tops(k) == {decision_scores[j][1] : j \in {i \in 1 .. k - 1 : decision_scores[i] # << >>}}
  IN ~no_pred => \A k \in DOMAIN decision_scores :
       Range(decision_scores[k]) =
         {a \in 0 .. numActions - 1 : a \notin Tops(k)
            /\ (ccbSlots[k].includes = {} \/ a \in ccbSlots[k].includes)}

(* Whenever a call is over, also by an exception, the caller's lines have  *)
(* their ccb labels again.  When it returned, or threw before the first    *)
(* slot, the shared line has nothing of the slots and its own tag.  When a *)
(* base reduction threw it does not: the features of the slot at work, and *)
(* of that one only, its id and its tag stay in the shared line.           *)
LinesRestored ==
  ccbStep = "idle" =>
    /\ outcomeOf # "malformed" => labelsIn = "examples" /\ ccbCosts = {}
    /\ outcomeOf = "returned" => shared = Plain /\ (no_pred \/ Len(decision_scores) = Len(ccbSlots))
    /\ outcomeOf = "threw" =>
         shared = IF Len(ccbSlots) > numActions THEN Plain ELSE [features |-> <<slot_id>>, id |-> TRUE, tag |-> slot_id]

(* The base learns this slot's cost, at the position of the labelled       *)
(* action in the lines it is given, and never that of an earlier slot.     *)
CostOnLabelled ==
  ccbStep = "base" =>
    /\ \A c \in ccbCosts : /\ c.slotNo = slot_id /\ c.action = ccbSlots[slot_id].outcome
                        /\ cb_ex[c.position + 1] = <<ccbCall, c.action>>
    /\ ~learns => ccbCosts = {}

(* "for each slot, re-build the cb example": what the base is called with  *)
(* are the shared line and the available actions of this call.  False      *)
(* after a base reduction has thrown: cb_ex still holds the lines of that  *)
(* call, which its caller may have freed.                                  *)
CbExRebuilt == ccbStep \in {"base", "lost"} =>
  cb_ex = << <<ccbCall, "shared">> >> \o [k \in DOMAIN Available |-> <<ccbCall, Available[k]>>]

(* The slots of an example get different actions and learn from their own  *)
(* label only.  The lines have their labels again however the call ends;   *)
(* the shared line is as it was given when the call returns, and carries   *)
(* one slot's features, id and tag when the base learner throws.           *)
SlotsIndependent ==
  /\ DistinctChoices
  /\ LinesRestored
  /\ CostOnLabelled
=============================================================================

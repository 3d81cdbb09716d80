-------------------------- MODULE ReductionProofs ---------------------------
(***************************************************************************)
(* The reductions of MCReductions share no variable: a step of the whole   *)
(* is a step of the one that is driven and leaves the others alone, so     *)
(* what is proved of each of them alone holds of the whole.                *)
(***************************************************************************)
EXTENDS MCReductions, LearnerProofs

(* A learner that is not driven stays as it is.                            *)
LEMMA LearnersStep ==
  ASSUME [ReductionsNext]_reductionsVars
  PROVE  [BfgsNext]_bfgsVars /\ [KsvmNext]_ksvmVars /\ [EpsNext]_epsVars /\ [AmlNext]_amlVars
<1>1. CASE UNCHANGED reductionsVars
  <2>1. UNCHANGED bfgsVars /\ UNCHANGED ksvmVars /\ UNCHANGED epsVars /\ UNCHANGED amlVars BY ONLY <1>1 DEF reductionsVars
  <2> QED BY ONLY <2>1
<1>2. CASE ReductionsNext
  <2>1. Rests("bfgs", bfgsVars) /\ Rests("ksvm", ksvmVars) /\ Rests("eps", epsVars) /\ Rests("aml", amlVars)
    BY ONLY <1>2 DEF ReductionsNext
  <2>2. (part = "bfgs" => BfgsNext) /\ (part = "ksvm" => KsvmNext) /\ (part = "eps" => EpsNext) /\ (part = "aml" => AmlNext)
    BY ONLY <1>2 DEF ReductionsNext
  <2>3. part # "bfgs" => UNCHANGED bfgsVars BY ONLY <2>1 DEF Rests
  <2>4. part # "ksvm" => UNCHANGED ksvmVars BY ONLY <2>1 DEF Rests
  <2>5. part # "eps" => UNCHANGED epsVars BY ONLY <2>1 DEF Rests
  <2>6. part # "aml" => UNCHANGED amlVars BY ONLY <2>1 DEF Rests
  <2> QED BY ONLY <2>2, <2>3, <2>4, <2>5, <2>6
<1> QED BY ONLY <1>1, <1>2, [ReductionsNext]_reductionsVars

(* In whatever way the reductions are driven, every step of bfgs and of    *)
(* kernel_svm uses numbers that belong together.                           *)
THEOREM StepsRight == ReductionsSpec => []StepsConsistent
<1> DEFINE Inv == BfgsInv /\ KsInv
<1>1. ReductionsInit => Inv BY BfgsInitInv, KsvmInitInv DEF ReductionsInit
<1>2. Inv /\ [ReductionsNext]_reductionsVars => Inv' BY LearnersStep, BfgsStep, KsvmStep
<1>3. Inv => StepsConsistent BY BfgsGood, KsGood DEF StepsConsistent
<1> QED BY <1>1, <1>2, <1>3, PTL DEF ReductionsSpec

(* In whatever way the reductions are driven, epsilon_decay and automl     *)
(* compare champion and challengers over the same examples, with weights   *)
(* and estimators that are theirs.                                         *)
THEOREM ChampionsRight == ReductionsSpec => []ChampionsFair
<1> DEFINE Inv == EpsInv /\ AmlInv
<1>1. ReductionsInit => Inv BY EpsInitInv, AmlInitInv DEF ReductionsInit
<1>2. Inv /\ [ReductionsNext]_reductionsVars => Inv' BY LearnersStep, EpsStep, AmlStep
<1>3. Inv => ChampionsFair BY EpsGood, AmlGood DEF ChampionsFair
<1> QED BY <1>1, <1>2, <1>3, PTL DEF ReductionsSpec
=============================================================================

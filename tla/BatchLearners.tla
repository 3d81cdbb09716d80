---------------------------- MODULE BatchLearners ---------------------------
(* The base learners that look at an example more than once: bfgs, over    *)
(* whole passes, and kernel_svm, over its support vectors.  They share     *)
(* nothing.                                                                *)
EXTENDS Integers, Sequences, FiniteSets, SequencesExt

(***************************************************************************)
(* The batch optimizer of bfgs.cc: it learns nothing while examples are     *)
(* read, only accumulates, and moves at the end of each pass. Numbers are   *)
(* replaced by where they come from: a gradient, a prediction or a stored   *)
(* difference is named by the versions of the weights it was computed at,   *)
(* and what a comparison of numbers decides is chosen.                      *)
(***************************************************************************)

CONSTANTS
    Memories,       \* the values of --mem; 0 is the conjugate gradient
    numpasses,      \* --passes
    NumPerPass      \* the labelled examples of a pass

ASSUME BfgsAssumption == Memories \subseteq Nat /\ numpasses \in Nat /\ NumPerPass \in Nat

VARIABLES
    bopt,           \* [m, hessian_on, l2]: the options; l2 says whether l2_lambda is positive
    bpass,          \* [current, final, first, gradient, precond]: current_pass, final_pass and the pass flags
    wver,           \* the version of W_XT; each update_weight makes a new one
    grad,           \* what has been added to W_GT: the versions, one per pass
    cond,           \* W_COND: "zero", "sum" (of second derivatives), "inverse" or "lambda"
    preds,          \* predictions: <<version, example>>
    curvUses,       \* the predictions that the curvature was computed from
    exampleNumber,  \* example_number
    mem, rho, lastj, origin,
    pairsUsed,           \* history: the pairs that bfgs_iter_middle last combined, newest first
    bread,          \* the examples of this pass have been read
    bdone           \* set_done

bfgsVars == <<bopt, bpass, wver, grad, cond, preds, curvUses, exampleNumber, mem, rho, lastj, origin, pairsUsed, bread, bdone>>

Stride == IF bopt.m = 0 THEN 1 ELSE 2 * bopt.m      \* mem_stride
GT == 0
XT == 1
YT == 0
ST == 1
At(pos, o) == (pos + o) % Stride
NoPair == <<0, 0>>

BfgsInit ==
    /\ bopt \in [m : Memories, hessian_on : BOOLEAN, l2 : BOOLEAN]
    /\ bopt.m = 0 => bopt.hessian_on
    /\ bpass = [current |-> 0, final |-> numpasses, first |-> TRUE, gradient |-> TRUE, precond |-> TRUE]
    /\ wver = 1
    /\ grad = <<>> /\ cond = "zero"
    /\ preds = <<>> /\ curvUses = <<>> /\ exampleNumber = 0
    /\ mem = [i \in 0 .. Stride - 1 |-> [what |-> "none", at |-> NoPair]]
    /\ rho = [i \in 0 .. (IF bopt.m = 0 THEN 0 ELSE bopt.m - 1) |-> NoPair]
    /\ lastj = 0 /\ origin = 0
    /\ pairsUsed = <<>>
    /\ bread = FALSE /\ bdone = FALSE

-----------------------------------------------------------------------------
\* process_example, for all the examples of a pass. exampleNumber is reset at the end of a pass.
ReadPass ==
    /\ ~bread /\ ~bdone /\ bpass.current <= bpass.final
    /\ IF bpass.gradient
       THEN /\ grad' = Append(grad, wver)
            /\ preds' = preds \o [i \in 1 .. NumPerPass |-> <<wver, i>>]
            /\ UNCHANGED <<curvUses, exampleNumber>>
       ELSE /\ curvUses' = [i \in 1 .. NumPerPass |->
                               LET k == exampleNumber + i IN preds[IF k > Len(preds) THEN Len(preds) ELSE k]]
            /\ exampleNumber' = exampleNumber + NumPerPass
            /\ UNCHANGED <<grad, preds>>
    /\ cond' = IF bpass.precond THEN "sum" ELSE cond
    /\ bread' = TRUE
    /\ UNCHANGED <<bopt, bpass, wver, mem, rho, lastj, origin, pairsUsed, bdone>>

\* finalize_preconditioner: the regularization is added and what is positive is inverted.
Finalized == IF cond = "sum" THEN "inverse" ELSE IF bopt.l2 THEN "lambda" ELSE "zero"

\* bfgs_iter_start
IterStart ==
    /\ origin' = 0 /\ lastj' = 0
    /\ mem' = [i \in DOMAIN mem |->
                 IF i = At(GT, 0) THEN [what |-> "g", at |-> <<wver, wver>>]
                 ELSE IF bopt.m > 0 /\ i = At(XT, 0) THEN [what |-> "x", at |-> <<wver, wver>>] ELSE mem[i]]
    /\ grad' = <<>>
    /\ UNCHANGED <<rho, pairsUsed>>

\* The pair that is stored at the origin: y from the gradients, s from the weights.
PairY == [what |-> "y", at |-> <<mem[At(GT, origin)].at[1], IF grad = <<>> THEN 0 ELSE grad[Len(grad)]>>]
PairS == [what |-> "s", at |-> <<mem[At(XT, origin)].at[1], wver>>]
PairStored == [mem EXCEPT ![At(YT, origin)] = PairY, ![At(ST, origin)] = PairS]

\* Where the memory goes on after a step: one pair back, round the ring.
NextOrigin_Slip == (origin + Stride - 1) % Stride
NextOrigin == (origin + Stride - 2) % Stride
NextLast_Slip == lastj + 1
NextLast == IF lastj < bopt.m - 1 THEN lastj + 1 ELSE bopt.m - 1

\* bfgs_iter_middle where it succeeds.
IterMiddle ==
    IF bopt.m = 0
    THEN /\ mem' = [mem EXCEPT ![0] = [what |-> "g", at |-> <<wver, wver>>]]
         /\ grad' = <<>>
         /\ UNCHANGED <<rho, lastj, origin, pairsUsed>>
    ELSE LET now == [rho EXCEPT ![0] = PairS.at]
         IN  /\ pairsUsed' = [j \in 1 .. lastj + 1 |->
                           [y |-> PairStored[At(2 * (j - 1) + YT, origin)], s |-> PairStored[At(2 * (j - 1) + ST, origin)],
                            rho |-> IF j - 1 \in DOMAIN now THEN now[j - 1] ELSE NoPair]]
             /\ lastj' = NextLast
             /\ origin' = NextOrigin
             /\ mem' = [PairStored EXCEPT ![At(GT, NextOrigin)] = [what |-> "g", at |-> <<wver, wver>>],
                                      ![At(XT, NextOrigin)] = [what |-> "x", at |-> <<wver, wver>>]]
             /\ grad' = <<>>
             /\ rho' = [j \in DOMAIN rho |-> IF j \in 1 .. NextLast THEN now[j - 1] ELSE now[j]]

\* y_Hy is zero when the preconditioner is.
CanSucceed == bopt.m = 0 \/ Finalized # "zero"

-----------------------------------------------------------------------------
(* process_pass, with its outcome *)

Moved(step) == wver' = IF step = 0 THEN wver ELSE wver + 1     \* update_weight

\* A) first_hessian_on is always set: the curvature is computed next.
FirstPass(status) ==
    /\ bpass.first
    /\ status = "ok"
    /\ IterStart
    /\ bpass' = [bpass EXCEPT !.gradient = FALSE, !.first = FALSE, !.precond = FALSE, !.current = @ + 1]
    /\ exampleNumber' = 0 /\ curvUses' = <<>>
    /\ UNCHANGED <<wver, preds>>

\* B0) the derivative is zero
MinimumFound(status) ==
    /\ ~bpass.first /\ bpass.gradient
    /\ status = "conv"
    /\ bpass' = [bpass EXCEPT !.precond = FALSE, !.current = @ + 1]
    /\ UNCHANGED <<wver, grad, preds, curvUses, exampleNumber, mem, rho, lastj, origin, pairsUsed>>

StepBack_Slip(status) ==     \* a slip in B1: the gradient of the rejected point is kept
    /\ ~bpass.first /\ bpass.gradient
    /\ status = "ok"
    /\ preds' = <<>> /\ Moved(1)
    /\ bpass' = [bpass EXCEPT !.precond = FALSE, !.current = @ + 1]
    /\ UNCHANGED <<grad, curvUses, exampleNumber, mem, rho, lastj, origin, pairsUsed>>
\* B1) the line search failed: half the step, from the same point in the same direction
StepBack(status) ==
    /\ ~bpass.first /\ bpass.gradient
    /\ status = "ok"
    /\ preds' = <<>> /\ Moved(1)
    /\ grad' = <<>>
    /\ bpass' = [bpass EXCEPT !.precond = FALSE, !.current = @ + 1]
    /\ UNCHANGED <<curvUses, exampleNumber, mem, rho, lastj, origin, pairsUsed>>

\* B2) a new direction; it may fail for want of curvature, and the decrease may be small enough to stop
NewDirection(status) ==
    /\ ~bpass.first /\ bpass.gradient
    /\ \/ /\ CanSucceed
          /\ status \in {"ok", "conv"}
          /\ IterMiddle
       \/ /\ bopt.m > 0
          /\ status = "curv"
          /\ mem' = PairStored
          /\ UNCHANGED <<grad, rho, lastj, origin, pairsUsed>>
    /\ exampleNumber' = 0 /\ curvUses' = <<>>
    /\ bpass' = [bpass EXCEPT !.gradient = ~bopt.hessian_on, !.precond = FALSE, !.current = @ + 1]
    /\ IF bopt.hessian_on THEN UNCHANGED <<wver, preds>>
       ELSE preds' = <<>> /\ Moved(IF status = "curv" THEN 0 ELSE 1)

CurvatureKnown_Slip(status) ==    \* a slip in C: the predictions of the old point are kept
    /\ ~bpass.first /\ ~bpass.gradient
    /\ Moved(IF status = "ok" THEN 1 ELSE 0)
    /\ curvUses' = <<>>
    /\ bpass' = [bpass EXCEPT !.gradient = TRUE, !.precond = FALSE, !.current = @ + 1]
    /\ UNCHANGED <<preds, grad, exampleNumber, mem, rho, lastj, origin, pairsUsed>>
\* C) the curvature is known: the length of the step follows, or is zero
CurvatureKnown(status) ==
    /\ ~bpass.first /\ ~bpass.gradient
    /\ Moved(IF status = "ok" THEN 1 ELSE 0)
    /\ preds' = <<>>
    /\ curvUses' = <<>>
    /\ bpass' = [bpass EXCEPT !.gradient = TRUE, !.precond = FALSE, !.current = @ + 1]
    /\ UNCHANGED <<grad, exampleNumber, mem, rho, lastj, origin, pairsUsed>>

\* end_pass: process_pass, then the end if it converged or the passes are used up.
EndPassWith(Case(_)) ==
    \E status \in {"ok", "conv", "curv"} :
        /\ ~bdone /\ bpass.current < bpass.final
        /\ bread /\ bread' = FALSE
        /\ Case(status)
        /\ bdone' = (status # "ok" \/ bpass.current + 1 = bpass.final)
        /\ cond' = IF status # "ok" /\ bpass.final > bpass.current + 1 THEN Finalized ELSE "zero"
        /\ UNCHANGED bopt

BfgsNext ==
    \/ ReadPass
    \/ EndPassWith(FirstPass)
    \/ EndPassWith(MinimumFound)
    \/ EndPassWith(StepBack)
    \/ EndPassWith(NewDirection)
    \/ EndPassWith(CurvatureKnown)
BfgsSpec == BfgsInit /\ [][BfgsNext]_bfgsVars

-----------------------------------------------------------------------------
(* Properties *)

\* When a gradient pass ends, W_GT holds the gradient at the weights as they are, once: nothing is left of
\* a rejected step, of the pass before or of the curvature passes in between.
GradientFresh == bpass.gradient /\ bread => grad = <<wver>>

\* The pairs that bfgs_iter_middle combines are the latest accepted steps, in order and without a gap: y, s
\* and rho of each belong together, although the three are kept in a ring, a ring and a shifted array.
PairsConsecutive ==
    \A j \in DOMAIN pairsUsed :
        /\ pairsUsed[j].y.what = "y" /\ pairsUsed[j].s.what = "s"
        /\ pairsUsed[j].y.at = pairsUsed[j].s.at /\ pairsUsed[j].rho = pairsUsed[j].s.at
        /\ j > 1 => pairsUsed[j].s.at[2] = pairsUsed[j - 1].s.at[1]

\* The curvature of a direction uses each example's own prediction at the present weights.
CurvatureOfThisPoint ==
    curvUses # <<>> => curvUses = [i \in 1 .. NumPerPass |-> <<wver, i>>]

\* Until the optimizer stops the preconditioner of each pass is computed from the examples.
PreconditionerFromData == bpass.gradient /\ bread /\ ~bdone => cond = "sum"

-----------------------------------------------------------------------------
(* The kernel SVM (core/src/reductions/kernel_svm.cc).  Every support      *)
(* vector keeps a row with its kernel values against a prefix of the       *)
(* support vectors; adding, removing and moving a support vector must      *)
(* change the three parallel arrays and all the rows in the same way.      *)
(* A kernel value is the example it was computed with; of alpha only its   *)
(* owner is kept, of delta its owner and the examples whose alpha it       *)
(* counts with the right kernel.                                           *)

CONSTANTS
  pool_sizes,     \* the values of --pool_size
  reprocess,      \* --reprocess
  maxcache,
  MaxKsvm         \* bound: examples learned from

ASSUME KernelSvmAssumption ==
  pool_sizes \subseteq Nat \ {0} /\ reprocess \in Nat /\ maxcache \in Nat /\ MaxKsvm \in Nat

VARIABLES
  pool_size, ksActive,   \* options
  svm,          \* [support_vec, alpha, delta, krow], krow for every example
  svmPool,      \* the examples of the pool
  pool_next,    \* the pool position train is at, 0 outside of train
  reprocessed,  \* reprocess steps done for it; -1: not yet added
  ksStale       \* pool members whose row is older than a move of the support vectors

ksvmVars == <<pool_size, ksActive, svm, svmPool, pool_next, reprocessed, ksStale>>

Seen == DOMAIN svm.krow
NumSupport(m) == Len(m.support_vec)

KsvmInit ==
  /\ pool_size \in pool_sizes /\ ksActive \in BOOLEAN
  /\ svm = [support_vec |-> << >>, alpha |-> << >>, delta |-> << >>, krow |-> << >>]
  /\ svmPool = << >> /\ pool_next = 0 /\ reprocessed = -1 /\ ksStale = {}

-----------------------------------------------------------------------------
(* svm_example::compute_kernels: the row is extended, never checked.       *)
ComputeKernels(m, e) ==
  [m EXCEPT !.krow[e] = @ \o SubSeq(m.support_vec, Len(@) + 1, NumSupport(m))]

MovedToFront(s, i) == <<s[i]>> \o RemoveAt(s, i)

(* make_hot_sv: position i goes to the front of the arrays and of every    *)
(* row that reaches it; a shorter row gets the value from i's own row.     *)
HotRow_Slip(m, hot, i, e) ==
  LET row == m.krow[e] IN IF i <= Len(row) THEN MovedToFront(row, i) ELSE row
HotRow(m, hot, i, e) ==
  LET row == m.krow[e] IN IF i <= Len(row) THEN MovedToFront(row, i) ELSE <<hot>> \o row
MakeHotSv(m0, i) ==
  LET m == ComputeKernels(m0, m0.support_vec[i]) IN
  [support_vec |-> MovedToFront(m.support_vec, i), alpha |-> MovedToFront(m.alpha, i),
   delta |-> MovedToFront(m.delta, i),
   krow |-> [e \in DOMAIN m.krow |->
               IF e \in Range(m.support_vec) THEN HotRow(m, m.support_vec[i], i, e) ELSE m.krow[e]]]

(* remove: the vector is freed; only the rows of the other support vectors *)
(* are shifted.                                                            *)
RemoveSv(m, i) ==
  LET left == RemoveAt(m.support_vec, i) IN
  [support_vec |-> left, alpha |-> RemoveAt(m.alpha, i), delta |-> RemoveAt(m.delta, i),
   krow |-> [e \in DOMAIN m.krow |->
               IF e = m.support_vec[i] THEN << >>
               ELSE IF e \in Range(left) /\ i <= Len(m.krow[e]) THEN RemoveAt(m.krow[e], i)
               ELSE m.krow[e]]]

AddSv(m, e) ==
  [m EXCEPT !.support_vec = Append(@, e), !.alpha = Append(@, e),
            !.delta = Append(@, [of |-> e, counts |-> {}])]

(* update: delta of the vector is computed anew, its alpha changed and the *)
(* change added to the deltas of all; an alpha of zero removes it.         *)
DeltaAfter_Slip(m, i, k) ==
  LET e == m.support_vec[i]
  IN [m.delta[k] EXCEPT !.counts = IF m.krow[e][k] = m.support_vec[k] THEN @ \cup {e} ELSE @]
DeltaAfter(m, i, k) ==
  LET e == m.support_vec[i]
      right(j) == m.krow[e][j] = m.support_vec[j]
      fresh == {m.alpha[j] : j \in {x \in 1 .. NumSupport(m) : right(x)}}
      before == IF k = i THEN [m.delta[k] EXCEPT !.counts = fresh] ELSE m.delta[k]
  IN [before EXCEPT !.counts = IF right(k) THEN @ \cup {e} ELSE @ \ {e}]
Update(m0, i, zero) ==
  LET e == m0.support_vec[i]
      m == ComputeKernels(m0, e)
      done == [m EXCEPT !.delta = [k \in 1 .. NumSupport(m) |-> DeltaAfter(m, i, k)]]
      gone == RemoveSv(done, i)
  IN IF ~zero THEN done
     ELSE [gone EXCEPT !.delta = [k \in DOMAIN gone.delta |-> [gone.delta[k] EXCEPT !.counts = @ \ {e}]]]

(* trim_cache: the rows of the last vectors go when there are too many.    *)
TrimCache(m) ==
  LET total(i) == FoldLeft(LAMBDA n, e : n + Len(m.krow[e]), 0, SubSeq(m.support_vec, 1, i))
      late == {m.support_vec[i] : i \in {j \in 1 .. NumSupport(m) : total(j) > maxcache}}
  IN [m EXCEPT !.krow = [e \in DOMAIN @ |-> IF e \in late THEN << >> ELSE @[e]]]

-----------------------------------------------------------------------------
(* learn: predict fills the new example's row; every hundredth example     *)
(* trims; a full pool is trained on.                                       *)
LearnKsvm ==
  /\ pool_next = 0 /\ Cardinality(Seen) < MaxKsvm
  /\ LET e == Cardinality(Seen) + 1
         m == ComputeKernels([svm EXCEPT !.krow = Append(@, << >>)], e)
     IN /\ svm' \in {m, TrimCache(m)}
        /\ svmPool' = Append(svmPool, e)
  /\ pool_next' = IF Len(svmPool') = pool_size THEN 1 ELSE 0
  /\ UNCHANGED <<pool_size, ksActive, reprocessed, ksStale>>

(* train: the members of the pool one after the other, with active         *)
(* learning only those that are queried.                                   *)
NextMember ==
  /\ reprocessed' = -1
  /\ IF pool_next < Len(svmPool) THEN pool_next' = pool_next + 1 /\ UNCHANGED svmPool
     ELSE pool_next' = 0 /\ svmPool' = << >>

Waiting == {svmPool[k] : k \in (pool_next + 1) .. Len(svmPool)}
Kept(m) == ksStale' = IF IsPrefix(svm.support_vec, m.support_vec) THEN ksStale
                      ELSE ksStale \cup {e \in Waiting : Len(svm.krow[e]) > 0}

TrainMember ==
  /\ pool_next > 0 /\ reprocessed = -1
  /\ \/ /\ \E zero \in BOOLEAN :
             LET m == AddSv(svm, svmPool[pool_next])
             IN svm' = Update(m, NumSupport(m), zero) /\ Kept(svm')
        /\ reprocessed' = 0 /\ UNCHANGED <<svmPool, pool_next>>
     \/ ksActive /\ NextMember /\ UNCHANGED <<svm, ksStale>>
  /\ UNCHANGED <<pool_size, ksActive>>

(* A reprocess step: the worst vector is made hot where the cache has room *)
(* and the vector now at its position is updated, or a random vector is;   *)
(* with nothing to improve neither.                                        *)
MakesHot(i) == (i - 1) * NumSupport(svm) <= maxcache
ReprocessWorst(i) ==
  /\ \E zero \in BOOLEAN :
       svm' = Update(IF MakesHot(i) THEN MakeHotSv(svm, i) ELSE svm, i, zero)
  /\ IF MakesHot(i) /\ i > 1 THEN ksStale' = ksStale \cup {e \in Waiting : Len(svm.krow[e]) > 0}
     ELSE Kept(svm')
ReprocessRandom(i) == \E zero \in BOOLEAN : svm' = Update(svm, i, zero) /\ Kept(svm')

Reprocess ==
  /\ pool_next > 0 /\ reprocessed \in 0 .. reprocess - 1
  /\ \/ \E i \in 1 .. NumSupport(svm) : ReprocessWorst(i) \/ ReprocessRandom(i)
     \/ UNCHANGED <<svm, ksStale>>
  /\ reprocessed' = reprocessed + 1
  /\ UNCHANGED <<pool_size, ksActive, svmPool, pool_next>>

Reprocessed ==
  /\ pool_next > 0 /\ reprocessed = reprocess /\ NextMember
  /\ UNCHANGED <<pool_size, ksActive, svm, ksStale>>

(* save_load_svm_model in a new process: the rows are not saved, the pool  *)
(* is lost.                                                                *)
SaveLoadKsvm ==
  /\ pool_next = 0 /\ svmPool' = << >>
  /\ svm' = [svm EXCEPT !.krow = [e \in DOMAIN @ |-> << >>]]
  /\ UNCHANGED <<pool_size, ksActive, pool_next, reprocessed, ksStale>>

KsvmNext == LearnKsvm \/ TrainMember \/ Reprocess \/ Reprocessed \/ SaveLoadKsvm
KsvmSpec == KsvmInit /\ [][KsvmNext]_ksvmVars

-----------------------------------------------------------------------------
(* As long as no pool member waited with a row while the support vectors   *)
(* moved (never with pools of one), position i of every row is the kernel  *)
(* with support vector i: dense_dot multiplies matching positions.         *)
RowsAligned ==
  LET used == Range(svm.support_vec) \cup Waiting
                \cup (IF pool_next > 0 /\ reprocessed = -1 THEN {svmPool[pool_next]} ELSE {})
  IN ksStale = {} => \A e \in used : IsPrefix(svm.krow[e], svm.support_vec)

(* Under the same condition alpha and delta are at their vector's          *)
(* position, and every delta, which is only ever changed by differences,   *)
(* counts the present alpha of exactly the present support vectors.        *)
DeltasCurrent ==
  ksStale = {} => /\ svm.alpha = svm.support_vec
                  /\ \A i \in 1 .. NumSupport(svm) :
                       svm.delta[i] = [of |-> svm.support_vec[i], counts |-> Range(svm.support_vec)]
=============================================================================

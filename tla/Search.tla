-------------------------------- MODULE Search ------------------------------
(***************************************************************************)
(* Learning to search (reductions/search/search.cc) on one sequence of     *)
(* examples.  The task makes one call of predict per step; search answers  *)
(* it by the state it is in: INIT_TEST and INIT_TRAIN run the policies,    *)
(* and the second records a trajectory; LEARN then runs the task once for  *)
(* every action of every training timestep: the trajectory before it, the  *)
(* action at it, and the policies after it, and turns the losses of these  *)
(* runs into one cost-sensitive example for the timestep.                  *)
(*                                                                         *)
(* The task is the shape of SequenceTask and SequenceSpanTask: step t has  *)
(* its own example and the tag t + 1, is conditioned on the action of the  *)
(* step before, and declares a loss after every prediction.  The learner's *)
(* predictions are a free choice; a loss is represented by the run it was  *)
(* computed from.  One learned policy and the oracle; no metatask, no      *)
(* active learning, not label dependent features.                          *)
(***************************************************************************)
EXTENDS Integers, Sequences, FiniteSets, SequencesExt

CONSTANTS
  Horizon,        \* steps of a sequence
  NumActions,     \* A
  AllowedAt,      \* the allowed actions of each step, in the task's order
  OracleAt,       \* the oracle action of each step
  Rollins, Rollouts,        \* roll methods, a subset of RollMethods each
  RolloutSteps,   \* values of rollout_num_steps; 0: roll out to the end
  TagRange,       \* values of a byte, what a cache key has of a tag or an action: 256 in the code
  MaxSequences    \* bound

RollMethods == {"policy", "oracle", "mix_per_state", "mix_per_roll"}

ASSUME SearchAssumption ==
  /\ {Horizon, NumActions, TagRange} \subseteq Nat \ {0} /\ MaxSequences \in Nat
  /\ Rollins \subseteq RollMethods /\ Rollouts \subseteq RollMethods \cup {"none"}
  /\ RolloutSteps \subseteq Nat
  /\ AllowedAt \in [1 .. Horizon -> Seq(1 .. NumActions)]
  /\ \A t \in 1 .. Horizon : AllowedAt[t] # << >> /\ IsInjective(AllowedAt[t])
                            /\ OracleAt[t] \in Range(AllowedAt[t])
  /\ OracleAt \in [1 .. Horizon -> 1 .. NumActions]

VARIABLES
  rollin, rollout, rollout_num_steps,   \* the options
  gives_allowed,   \* the task passes allowed actions (a task does so at every step or at none)
  sstate,          \* "IDLE" or the search_state
  sequences,       \* sequences begun
  priv_t,              \* priv.t: predictions made in this run of the task
  ptag_to_action,  \* the action of each tag, in order
  draws, rdrawn,    \* the random numbers of this sequence, and how many of them this run has used
  roll_policy,     \* mix_per_roll_policy, "none" where the code has -2
  loss_declared_cnt, counted,           \* losses declared, and the steps whose loss was added to learn_loss
  policies,        \* the policy asked at each step of this run, "-" where none was
  train_trajectory,
  timesteps, tid, learn_a_idx, done_with_all_actions,
  learn_losses, learn_allowed_actions, learn_ec,
  cache,           \* cache_hash_map: key -> action, with the prediction it was stored for
  lookup,          \* the last hit: what was asked and what the entry was stored for
  trained          \* the training examples generated for this sequence

searchVars == <<rollin, rollout, rollout_num_steps, gives_allowed, sstate, sequences, priv_t, ptag_to_action, draws,
                rdrawn, roll_policy, loss_declared_cnt, counted, policies, train_trajectory, timesteps, tid,
                learn_a_idx, done_with_all_actions, learn_losses, learn_allowed_actions, learn_ec,
                cache, lookup, trained>>

searchOptions == <<rollin, rollout, rollout_num_steps, gives_allowed>>
NoLookup == [asked |-> << >>, stored |-> << >>]
NoEc == [example |-> -1, condition |-> -1]

SearchInit ==
  /\ rollin \in Rollins /\ rollout \in Rollouts /\ rollout_num_steps \in RolloutSteps
  /\ gives_allowed \in BOOLEAN
  /\ sstate = "IDLE" /\ sequences = 0 /\ priv_t = 0 /\ ptag_to_action = << >> /\ draws = << >> /\ rdrawn = 0
  /\ roll_policy = "none" /\ loss_declared_cnt = 0 /\ counted = {} /\ policies = << >>
  /\ train_trajectory = << >> /\ timesteps = << >> /\ tid = 1 /\ learn_a_idx = 0
  /\ done_with_all_actions = FALSE /\ learn_losses = << >> /\ learn_allowed_actions = << >>
  /\ learn_ec = NoEc /\ cache = << >> /\ lookup = NoLookup /\ trained = << >>

-----------------------------------------------------------------------------
(* reset_search_structure: the random state is set to the same value, so   *)
(* every run of the task draws the same numbers.                           *)
Redrawn_Slip == rdrawn
Redrawn == 0

ResetSearchStructure ==
  /\ priv_t' = 0 /\ ptag_to_action' = << >> /\ rdrawn' = Redrawn /\ roll_policy' = "none"
  /\ loss_declared_cnt' = 0 /\ counted' = {} /\ policies' = << >> /\ done_with_all_actions' = FALSE

(* The actions a step may take: the allowed ones, else all, in the order   *)
(* of learn_a_idx; and the action of the step's conditioning tag, 0 where  *)
(* there is none.                                                          *)
ValidActions(t) ==
  IF gives_allowed THEN AllowedAt[t + 1] ELSE [a \in 1 .. NumActions |-> a]

Condition(t) == IF t \in 1 .. Len(ptag_to_action) THEN ptag_to_action[t] ELSE 0

(* cached_action_store_or_find's key: one byte of the tag, of the policy   *)
(* and of the conditioning tag and action.                                 *)
KeyOf_Slip(t, policy) == <<(t + 1) % TagRange, policy, t % TagRange>>
KeyOf(t, policy) == <<(t + 1) % TagRange, policy, t % TagRange, Condition(t) % TagRange>>

(* search_declare_loss, called by predict.                                 *)
LossCounts(cnt) == sstate = "LEARN" /\ (rollout_num_steps = 0 \/ cnt <= rollout_num_steps)

(* search::predict after search_predict has answered a.                    *)
Answered(a, policy, declared) ==
  /\ priv_t' = priv_t + 1 /\ ptag_to_action' = Append(ptag_to_action, a)
  /\ loss_declared_cnt' = declared + 1
  /\ counted' = IF LossCounts(declared + 1) THEN counted \cup {priv_t} ELSE counted
  /\ policies' = Append(policies, policy)

-----------------------------------------------------------------------------
(* choose_policy.  Where two policies may be chosen, a random number picks *)
(* one; mixing per roll keeps the first one of the run.  The number that   *)
(* the oracle draws to pick among its actions is left out: every run draws *)
(* it at the same places.                                                  *)
Method ==
  CASE sstate = "INIT_TEST" -> "policy" [] sstate = "INIT_TRAIN" -> rollin [] OTHER -> rollout

ChoosePolicy(policy) ==
  CASE Method = "policy" -> policy = "learned" /\ UNCHANGED <<draws, rdrawn, roll_policy>>
    [] Method = "oracle" -> policy = "oracle" /\ UNCHANGED <<draws, rdrawn, roll_policy>>
    [] Method = "mix_per_roll" /\ roll_policy # "none" ->
         policy = roll_policy /\ UNCHANGED <<draws, rdrawn, roll_policy>>
    [] OTHER ->
         /\ rdrawn < Len(draws) => draws[rdrawn + 1] = policy
         /\ draws' = IF rdrawn < Len(draws) THEN draws ELSE Append(draws, policy)
         /\ rdrawn' = rdrawn + 1
         /\ roll_policy' = IF Method = "mix_per_roll" THEN policy ELSE roll_policy

(* search_predict where a policy is run.  Without rollouts the training    *)
(* example is generated here, unless the cache answers.                    *)
learn_t == timesteps[tid]
Skipping == rollout_num_steps > 0 /\ loss_declared_cnt >= rollout_num_steps

RunPolicy(policy, a) ==
  LET gte_here == sstate = "INIT_TRAIN" /\ rollout = "none"
      key == KeyOf(priv_t, policy)
      looks == policy = "learned" \/ gte_here
      hit == looks /\ key \in DOMAIN cache
      asked == <<priv_t, policy, Condition(priv_t)>>
  IN
  /\ sstate # "IDLE" /\ priv_t < Horizon
  /\ sstate = "LEARN" => priv_t > learn_t /\ ~Skipping
  /\ ChoosePolicy(policy)
  /\ a \in IF hit THEN {cache[key].action}
           ELSE IF policy = "oracle" THEN {OracleAt[priv_t + 1]} ELSE Range(ValidActions(priv_t))
  /\ cache' = IF looks /\ ~hit THEN cache @@ (key :> [action |-> a, stored |-> asked]) ELSE cache
  /\ lookup' = IF hit THEN [asked |-> asked, stored |-> cache[key].stored] ELSE NoLookup
  /\ IF gte_here /\ ~hit
     THEN /\ trained' = Append(trained,
                [step |-> priv_t, ec |-> [example |-> priv_t, condition |-> Condition(priv_t)],
                 costs |-> [i \in DOMAIN ValidActions(priv_t) |->
                              [class_index |-> ValidActions(priv_t)[i],
                               run |-> [actions |-> Append(ptag_to_action, ValidActions(priv_t)[i]),
                                        counted |-> {priv_t}, policies |-> << >>]]]])
          /\ learn_allowed_actions' = IF gives_allowed THEN AllowedAt[priv_t + 1] ELSE learn_allowed_actions
     ELSE UNCHANGED <<trained, learn_allowed_actions>>
  /\ train_trajectory' = IF sstate = "INIT_TRAIN" THEN Append(train_trajectory, a) ELSE train_trajectory
  /\ Answered(a, policy, loss_declared_cnt)
  /\ UNCHANGED <<searchOptions, sstate, sequences, timesteps, tid, learn_a_idx, done_with_all_actions,
                 learn_losses, learn_ec>>

(* search_predict in LEARN before learn_t: the trajectory is followed.     *)
FollowTrajectory ==
  /\ sstate = "LEARN" /\ priv_t < learn_t
  /\ Answered(train_trajectory[priv_t + 1], "-", loss_declared_cnt)
  /\ lookup' = NoLookup
  /\ UNCHANGED <<searchOptions, sstate, sequences, draws, rdrawn, roll_policy, train_trajectory, timesteps, tid,
                 learn_a_idx, done_with_all_actions, learn_losses, learn_allowed_actions, learn_ec,
                 cache, trained>>

(* search_predict in LEARN at learn_t: the next action; at the last one    *)
(* the example, its conditioning and the allowed actions are kept.         *)
LastAction_Slip(idx, t) == idx + 1 >= Len(ValidActions(t))
LastAction(idx, t) == idx >= Len(ValidActions(t))

TryAction ==
  LET last == LastAction(learn_a_idx + 1, priv_t) IN
  /\ sstate = "LEARN" /\ priv_t = learn_t
  /\ learn_a_idx' = learn_a_idx + 1
  /\ done_with_all_actions' = (done_with_all_actions \/ last)
  /\ learn_ec' = IF last THEN [example |-> priv_t, condition |-> Condition(priv_t)] ELSE learn_ec
  /\ learn_allowed_actions' = IF last /\ gives_allowed THEN AllowedAt[priv_t + 1] ELSE learn_allowed_actions
  /\ Answered(ValidActions(priv_t)[learn_a_idx + 1], "-", 0)
  /\ lookup' = NoLookup
  /\ UNCHANGED <<searchOptions, sstate, sequences, draws, rdrawn, roll_policy, train_trajectory, timesteps, tid,
                 learn_losses, cache, trained>>

(* search_predict in LEARN when rollout_num_steps losses have been seen.   *)
SkipStep ==
  /\ sstate = "LEARN" /\ priv_t > learn_t /\ priv_t < Horizon /\ Skipping
  /\ Answered(ValidActions(priv_t)[1], "-", loss_declared_cnt)
  /\ lookup' = NoLookup
  /\ UNCHANGED <<searchOptions, sstate, sequences, draws, rdrawn, roll_policy, train_trajectory, timesteps, tid,
                 learn_a_idx, done_with_all_actions, learn_losses, learn_allowed_actions, learn_ec,
                 cache, trained>>

-----------------------------------------------------------------------------
(* hoopla_permute: the smallest and the largest are put side by side, then *)
(* the next smallest or next largest goes to the end it is further from.   *)
AbsDiff(a, b) == IF a < b THEN b - a ELSE a - b

NextLargest_Slip(B, p) == B[p.j]
NextLargest(B, p) == B[p.j - 1]

HooplaStep(B, p) ==
  LET lo == Head(p.A)  hi == Last(p.A)
      small == B[p.i + 1]  large == NextLargest(B, p)
      mx == Max({AbsDiff(lo, small), AbsDiff(lo, large), AbsDiff(hi, small), AbsDiff(hi, large)})
  IN CASE AbsDiff(lo, small) = mx -> [p EXCEPT !.A = <<small>> \o p.A, !.i = @ + 1]
       [] AbsDiff(lo, small) # mx /\ AbsDiff(lo, large) = mx -> [p EXCEPT !.A = <<large>> \o p.A, !.j = @ - 1]
       [] AbsDiff(lo, small) # mx /\ AbsDiff(lo, large) # mx /\ AbsDiff(hi, small) = mx ->
            [p EXCEPT !.A = Append(p.A, small), !.i = @ + 1]
       [] OTHER -> [p EXCEPT !.A = Append(p.A, large), !.j = @ - 1]

HooplaPermute(B) ==  \* B sorted and not empty
  LET start == [A |-> <<B[1], B[Len(B)]>>, i |-> 1, j |-> Len(B)]
      end == FoldLeft(LAMBDA p, n : IF p.i + 1 < p.j THEN HooplaStep(B, p) ELSE p, start, B)
  IN SubSeq(end.A, 1, Len(B))

-----------------------------------------------------------------------------
(* train_single_example, between the runs of the task.                     *)
BeginSequence(initial) ==
  /\ sstate = "IDLE" /\ sequences < MaxSequences /\ sequences' = sequences + 1
  /\ initial \in {"INIT_TEST", "INIT_TRAIN"} /\ sstate' = initial
  /\ ResetSearchStructure
  /\ cache' = << >> /\ lookup' = NoLookup /\ draws' = << >> /\ trained' = << >>
  /\ train_trajectory' = IF initial = "INIT_TRAIN" THEN << >> ELSE train_trajectory
  /\ UNCHANGED <<searchOptions, timesteps, tid, learn_a_idx, learn_losses, learn_allowed_actions, learn_ec>>

TestDone(isTest) ==
  /\ sstate = "INIT_TEST" /\ priv_t = Horizon
  /\ IF isTest
     THEN sstate' = "IDLE" /\ UNCHANGED <<priv_t, ptag_to_action, rdrawn, roll_policy, loss_declared_cnt, counted,
                                          policies, done_with_all_actions, cache, train_trajectory>>
     ELSE sstate' = "INIT_TRAIN" /\ ResetSearchStructure /\ cache' = << >> /\ train_trajectory' = << >>
  /\ lookup' = NoLookup
  /\ UNCHANGED <<searchOptions, sequences, draws, timesteps, tid, learn_a_idx, learn_losses,
                 learn_allowed_actions, learn_ec, trained>>

(* get_training_timesteps, with some subset of the steps, is part of this. *)
TrajectoryDone(steps) ==
  /\ sstate = "INIT_TRAIN" /\ priv_t = Horizon
  /\ steps \in SUBSET (0 .. Horizon - 1) \ {{}}
  /\ lookup' = NoLookup
  /\ IF rollout = "none"
     THEN /\ sstate' = "IDLE" /\ steps = 0 .. Horizon - 1
          /\ UNCHANGED <<priv_t, ptag_to_action, rdrawn, roll_policy, loss_declared_cnt, counted, policies,
                         done_with_all_actions, timesteps, tid, learn_a_idx, learn_losses>>
     ELSE /\ sstate' = "LEARN" /\ ResetSearchStructure
          /\ timesteps' = HooplaPermute(SetToSortSeq(steps, <)) /\ tid' = 1
          /\ learn_a_idx' = 0 /\ learn_losses' = << >>
  /\ UNCHANGED <<searchOptions, sequences, draws, train_trajectory, learn_allowed_actions, learn_ec, cache, trained>>

(* The end of a rollout.  After the last action the classes are given the  *)
(* names of the allowed actions and the training example is generated, by  *)
(* which beta, and so what a random number means, may change.              *)
Renamed_Slip(costs) == costs
Renamed(costs) ==
  [i \in DOMAIN costs |-> IF i <= Len(learn_allowed_actions)
                          THEN [costs[i] EXCEPT !.class_index = learn_allowed_actions[i]] ELSE costs[i]]

RolloutDone ==
  LET run == [actions |-> ptag_to_action, counted |-> counted, policies |-> policies]
      losses == Append(learn_losses, [class_index |-> learn_a_idx, run |-> run])
  IN
  /\ sstate = "LEARN" /\ priv_t = Horizon
  /\ lookup' = NoLookup
  /\ IF ~done_with_all_actions
     THEN /\ learn_losses' = losses /\ ResetSearchStructure
          /\ UNCHANGED <<sstate, draws, tid, learn_a_idx, trained>>
     ELSE /\ trained' = Append(trained, [step |-> learn_t, ec |-> learn_ec, costs |-> Renamed(losses)])
          /\ learn_losses' = << >> /\ draws' = << >> /\ tid' = tid + 1 /\ ResetSearchStructure
          /\ IF tid < Len(timesteps) THEN sstate' = sstate /\ learn_a_idx' = 0
             ELSE sstate' = "IDLE" /\ UNCHANGED learn_a_idx
  /\ UNCHANGED <<searchOptions, sequences, train_trajectory, timesteps, learn_allowed_actions, learn_ec, cache>>

SearchNext ==
  \/ \E s \in {"INIT_TEST", "INIT_TRAIN"} : BeginSequence(s)
  \/ \E p \in {"oracle", "learned"}, a \in 1 .. NumActions : RunPolicy(p, a)
  \/ FollowTrajectory \/ TryAction \/ SkipStep
  \/ \E b \in BOOLEAN : TestDone(b)
  \/ \E s \in SUBSET (0 .. Horizon - 1) : TrajectoryDone(s)
  \/ RolloutDone

SearchSpec == SearchInit /\ [][SearchNext]_searchVars

-----------------------------------------------------------------------------
(* The costs of one training example are comparable: they come from runs   *)
(* that followed the trajectory up to the timestep, asked the same policy  *)
(* at every step after it, and counted the losses of the same steps.       *)
FairRollouts ==
  \A e \in DOMAIN trained : \A i, j \in DOMAIN trained[e].costs :
    LET r == trained[e].costs[i].run  q == trained[e].costs[j].run IN
    /\ IsPrefix(SubSeq(train_trajectory, 1, trained[e].step), r.actions)
    /\ r.policies = q.policies /\ r.counted = q.counted

(* A training example has one cost for each action that could be taken,    *)
(* named by the action its run really took, and is made of the timestep's  *)
(* own example conditioned as it is on the trajectory.                     *)
CostsNamed ==
  \A e \in DOMAIN trained :
    LET step == trained[e].step  costs == trained[e].costs IN
    /\ Len(costs) = Len(ValidActions(step))
    /\ {costs[i].class_index : i \in DOMAIN costs} = Range(ValidActions(step))
    /\ \A i \in DOMAIN costs : costs[i].run.actions[step + 1] = costs[i].class_index
    /\ trained[e].ec = [example |-> step,
                        condition |-> IF step = 0 THEN 0 ELSE train_trajectory[step]]

(* Two numbers of which a cache key has the same byte.                     *)
SameByte(x, y) == (IF x < y THEN y - x ELSE x - y) % TagRange = 0

(* Every training timestep gets exactly one example, whatever order        *)
(* hoopla_permute has put them in.  Without rollouts every step does but   *)
(* those that the cache answered for, for want of a byte, from an earlier  *)
(* step: none in a sequence shorter than TagRange.                         *)
EachTimestep ==
  LET done == [e \in DOMAIN trained |-> trained[e].step]
  IN
  /\ IsInjective(done)
  /\ sstate = "LEARN" => IsInjective(timesteps) /\ IsPrefix(done, timesteps)
  /\ (sstate = "IDLE" /\ trained # << >>) =>
       IF rollout # "none" THEN Range(done) = Range(timesteps)
       ELSE \A t \in 0 .. Horizon - 1 : \E d \in Range(done) : d <= t /\ SameByte(d, t)

(* A prediction found in the cache was made with the same policy, for the  *)
(* same step and the same conditioning action up to multiples of TagRange. *)
(* So "if this succeeded, 'a' has the right action" (search_predict) where *)
(* steps and actions are fewer than TagRange; in a longer sequence a step  *)
(* is answered with what was predicted TagRange steps before.              *)
CachedRight ==
  lookup # NoLookup =>
    /\ lookup.asked[2] = lookup.stored[2]
    /\ SameByte(lookup.asked[1], lookup.stored[1]) /\ SameByte(lookup.asked[3], lookup.stored[3])
=============================================================================

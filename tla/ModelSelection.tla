--------------------------- MODULE ModelSelection ---------------------------
(* Models that learn side by side until one replaces the champion:         *)
(* epsilon_decay and automl.  They share nothing.                          *)
EXTENDS Integers, Sequences, FiniteSets, SequencesExt

(***************************************************************************)
(* The epsilon_decay reduction (reductions/epsilon_decay.cc): model_count  *)
(* models learn side by side, the last one is the champion.  A triangle of *)
(* estimators conf_seq_estimators[m][e], e <= m, holds what model m earned *)
(* since model e was started, so that a challenger and the champion are    *)
(* compared over the same examples.  Promoting a challenger or dropping    *)
(* one that is too old shifts models, weights and the triangle in place.   *)
(* A model is its row of weights and the time these were last cleared; an  *)
(* estimator is the model it describes and the time it counts from.        *)
(***************************************************************************)

CONSTANTS model_count, min_scope, min_champ_examples, shift_model_bounds,
          MaxLearns      \* bound: labelled examples

ASSUME EpsilonAssumption ==
  /\ model_count \in Nat \ {0} /\ min_scope \in Nat /\ min_champ_examples \in Nat
  /\ shift_model_bounds \in Nat /\ MaxLearns \in Nat

Pos == 0 .. model_count - 1
Final == model_count - 1

VARIABLES
  epsNow,             \* labelled examples learned
  weight_indices,  \* weight_indices[m]: the row of weights of the model at position m
  started,         \* started[w]: when row w was last cleared
  conf_seq_estimators

epsVars == <<epsNow, weight_indices, started, conf_seq_estimators>>

Triangle == {p \in Pos \X Pos : p[2] <= p[1]}
Empty(t) == [by |-> {}, from |-> t]

EpsInit ==
  /\ epsNow = 0 /\ weight_indices = [m \in Pos |-> m] /\ started = [w \in Pos |-> 0]
  /\ conf_seq_estimators = [c \in Triangle |-> Empty(0)]

-----------------------------------------------------------------------------
(* The steps of shift_model work on a state [rows, born, est] at time t.   *)
(* promote_model: positions 0 .. i and their triangle move up by d; the    *)
(* rows of weights are swapped on the way, from the top down.              *)
SwapRows(w, m, d) == [w EXCEPT ![m + d] = w[m], ![m] = w[m + d]]
RowsAfter(w, i, d) ==
  LET f[m \in 0 .. i] == SwapRows(IF m = i THEN w ELSE f[m + 1], m, d)
  IN f[0]

Promoted(s, i, d) ==
  [s EXCEPT !.rows = RowsAfter(@, i, d),
            !.est = [c \in Triangle |-> IF c[2] >= d /\ c[1] <= i + d THEN s.est[<<c[1] - d, c[2] - d>>]
                                        ELSE s.est[c]]]

(* rebalance_greater_models: above the promoted ones only the columns of   *)
(* the models that have moved do.                                          *)
Rebalanced_Slip(s, i, d) == s
Rebalanced(s, i, d) ==
  [s EXCEPT !.est = [c \in Triangle |-> IF c[1] > i + d /\ c[2] \in d .. i + 1
                                        THEN s.est[<<c[1], c[2] - d>>] ELSE s.est[c]]]

(* clear_weights_and_estimators: the first d columns and the weights of    *)
(* the first d positions.                                                  *)
ClearedRows_Slip(s, d) == 0 .. d - 1
ClearedRows(s, d) == {s.rows[m] : m \in 0 .. d - 1}
Cleared(s, d, t) ==
  [s EXCEPT !.born = [w \in Pos |-> IF w \in ClearedRows(s, d) THEN t ELSE @[w]],
            !.est = [c \in Triangle |-> IF c[2] < d THEN Empty(t) ELSE @[c]]]

ShiftModel(s, i, d, t) ==
  Cleared(IF i >= 0 THEN Rebalanced(Promoted(s, i, d), i, d) ELSE s, d, t)

-----------------------------------------------------------------------------
(* update_weights: every model learns and its row of the triangle is       *)
(* updated.                                                                *)
Updated(s) ==
  [s EXCEPT !.est = [c \in Triangle |->
     [s.est[c] EXCEPT !.by = @ \cup {<<s.rows[c[1]], s.born[s.rows[c[1]]]>>}]]]

(* check_estimator_bounds: the highest challenger whose lower bound beats  *)
(* the champion's upper bound, if it has seen enough; the bounds are those *)
(* of real numbers and any challenger may win.                             *)
Count(s, m, e, t) == t - s.est[<<m, e>>].from
Challengers(s, t) == {i \in 0 .. Final - 1 : Count(s, i, i, t) >= min_champ_examples}

(* check_horizon_bounds: the highest challenger that is too old for its    *)
(* position; at equality the rounding of pow decides.                      *)
Age(s, i, t) == Count(s, i, i, t) ^ (model_count + shift_model_bounds)
Limit(s, i, t) == Count(s, Final, Final, t) ^ (i + 1 + shift_model_bounds)
TooOld(s, i, t, even) ==
  /\ Count(s, i, i, t) > min_scope
  /\ Age(s, i, t) > Limit(s, i, t) \/ (even /\ Age(s, i, t) = Limit(s, i, t))
OldChallengers(s, t, even) == {i \in 0 .. Final - 1 : TooOld(s, i, t, even)}

Highest(S) == CHOOSE i \in S : \A j \in S : j <= i

LearnDecay ==
  /\ epsNow < MaxLearns /\ epsNow' = epsNow + 1
  /\ LET s0 == Updated([rows |-> weight_indices, born |-> started, est |-> conf_seq_estimators])
     IN \E winner \in Challengers(s0, epsNow') \cup {Final}, even \in BOOLEAN :
          LET s1 == IF winner = Final THEN s0
                    ELSE ShiftModel(s0, winner, Final - winner, epsNow')
              old == OldChallengers(s1, epsNow', even)
              s2 == IF old = {} THEN s1 ELSE ShiftModel(s1, Highest(old) - 1, 1, epsNow')
          IN /\ weight_indices' = s2.rows /\ started' = s2.born
             /\ conf_seq_estimators' = s2.est

EpsNext == LearnDecay
EpsSpec == EpsInit /\ [][EpsNext]_epsVars

-----------------------------------------------------------------------------
(* Estimator [m][e] describes the model at position m and no other, and    *)
(* counts from the moment the model at position e was started: whatever    *)
(* has been promoted, dropped and cleared before, a challenger's bound and *)
(* the champion's it is compared with are about the same examples.         *)
SameHorizon ==
  \A c \in Triangle :
    /\ conf_seq_estimators[c].from = started[weight_indices[c[2]]]
    /\ conf_seq_estimators[c].by
         \subseteq {<<weight_indices[c[1]], started[weight_indices[c[1]]]>>}

(* The models stay in the order of their age, the champion is the oldest,  *)
(* and every row of weights belongs to one position.                       *)
OldestLast ==
  /\ \A m, n \in Pos : m < n => started[weight_indices[n]] <= started[weight_indices[m]]
  /\ {weight_indices[m] : m \in Pos} = Pos

-----------------------------------------------------------------------------
(***************************************************************************)
(* The automl reduction (details/automl): a config manager that learns     *)
(* several configurations of feature interactions side by side.  Slot 0 is *)
(* the champion, which predicts; the other live slots hold challengers     *)
(* taken from a queue of configurations an oracle derives from the         *)
(* champion.  A challenger that wins becomes champion: configurations,     *)
(* estimators and weights are moved and everything else starts anew.       *)
(* Configurations and slots are numbered from 0; sequences from 1, so      *)
(* configuration i is configs[i + 1].  An interaction is <<a, b>>, a <= b. *)
(***************************************************************************)

CONSTANTS
  Namespaces,            \* numbers; the order of ns_counter
  Fixed,                 \* those that is_allowed_to_remove refuses (CCB's slot namespace)
  Oracles,               \* among "one_diff", "one_diff_inclusion" and "champdupe"
  max_live_configs, priority_challengers, default_lease,
  MaxSteps               \* bound: examples learned

ASSUME AutoMLAssumption ==
  /\ Namespaces \subseteq Nat /\ IsFiniteSet(Namespaces) /\ Fixed \subseteq Namespaces
  /\ max_live_configs \in Nat \ {0, 1} /\ priority_challengers \in Nat
  /\ default_lease \in Nat \ {0} /\ MaxSteps \in Nat

VARIABLES
  oracle,       \* --oracle_type
  configs,      \* [elements, lease, state, type] each
  valid_config_size,
  index_queue,  \* the indices in the queue; its order is the priority function's
  estimators,   \* [config, eligible, interactions, self, champ] per slot; self and
                \* champ: how many updates, and for which configurations
  weights,      \* weights[s]: the configuration the weights of slot s were learned for
  ns_counter,   \* the namespaces seen
  amlStep,      \* "idle", "schedule", "learn", "check"
  live_slot,    \* the slot schedule looks at
  total_learn_count

amlVars == <<oracle, configs, valid_config_size, index_queue, estimators, weights, ns_counter, amlStep,
             live_slot, total_learn_count>>

ConfType == IF oracle = "one_diff_inclusion" THEN "Interaction" ELSE "Exclusion"
NewConfig(elements, type) ==
  [elements |-> elements, lease |-> default_lease, state |-> "New", type |-> type]
NewEstimator == [config |-> 0, eligible |-> FALSE, interactions |-> {},
                 self |-> [n |-> 0, of |-> {}], champ |-> [n |-> 0, of |-> {}]]
Key(c) == <<c.elements, c.type>>

AmlInit ==
  /\ oracle \in Oracles
  /\ configs = << NewConfig({}, ConfType) >> /\ valid_config_size = 1 /\ index_queue = {}
  /\ estimators = << NewEstimator >>
  /\ weights = [s \in 0 .. max_live_configs - 1 |-> <<{}, ConfType>>]
  /\ ns_counter = {} /\ amlStep = "idle" /\ live_slot = 0 /\ total_learn_count = 0

-----------------------------------------------------------------------------
(* ns_based_config: all pairs but the excluded ones, or those named.       *)
Quadratic(ns) == {p \in ns \X ns : p[1] <= p[2]}
Interactions(ns, c) == IF c.type = "Exclusion" THEN Quadratic(ns) \ c.elements ELSE c.elements
Removable(i) == i[1] \notin Fixed /\ i[2] \notin Fixed

(* insert_config: nothing if the elements are those of a valid             *)
(* configuration, else the next place is overwritten or added.  The        *)
(* elements of a stale configuration are moved from it, which leaves that  *)
(* one empty, also when it is the one that is overwritten.                 *)
InsertConfig(st, elements, type, dups) ==
  LET same == {i \in 1 .. Len(st.configs) : st.configs[i].elements = elements}
      stale == ~dups /\ same # {}
      moved == IF stale THEN [st.configs EXCEPT ![Min(same)].elements = {}] ELSE st.configs
      c == NewConfig(IF stale /\ Min(same) = st.valid + 1 THEN {} ELSE elements, type)
  IN IF stale /\ Min(same) <= st.valid THEN st
     ELSE [configs |-> IF st.valid < Len(moved) THEN [moved EXCEPT ![st.valid + 1] = c]
                       ELSE Append(moved, c),
           valid |-> st.valid + 1,
           queue |-> st.queue \cup {st.valid}]

InsertAll(st, candidates, type, dups) ==
  LET f[k \in 0 .. Len(candidates)] ==
        IF k = 0 THEN st ELSE InsertConfig(f[k - 1], candidates[k], type, dups)
  IN f[Len(candidates)]

(* gen_configs: one interaction more or less than the champion has.        *)
Toggle(champ, i) == IF i \in champ THEN champ \ {i}
                    ELSE IF Removable(i) THEN champ \cup {i} ELSE champ
Before(i, j) == i[1] < j[1] \/ (i[1] = j[1] /\ i[2] < j[2])
Ordered(S) ==
  CHOOSE s \in [1 .. Cardinality(S) -> S] : \A i, j \in 1 .. Cardinality(S) : i < j => Before(s[i], s[j])

(* champdupe generates an empty and an equal configuration, once.  While   *)
(* the others generate, the champion's elements are moved away.            *)
GenConfigs(st, interactions, ns) ==
  LET champ == st.configs[1].elements
      hidden == [st EXCEPT !.configs[1].elements = {}]
      candidates == IF oracle = "one_diff" THEN Ordered(interactions) \o Ordered(champ)
                    ELSE Ordered(Quadratic(ns))
      done == InsertAll(hidden, [k \in DOMAIN candidates |-> Toggle(champ, candidates[k])],
                        ConfType, FALSE)
  IN CASE oracle # "champdupe" -> [done EXCEPT !.configs[1].elements = champ]
       [] oracle = "champdupe" /\ Len(st.configs) = 1 ->
            InsertConfig(InsertConfig(st, {}, "Interaction", TRUE), champ, ConfType, TRUE)
       [] OTHER -> st

OracleState == [configs |-> configs, valid |-> valid_config_size, queue |-> index_queue]
SetOracle(st) ==
  configs' = st.configs /\ valid_config_size' = st.valid /\ index_queue' = st.queue

-----------------------------------------------------------------------------
(* process_example, for learning or for predicting.                        *)
Regenerated(es, cs, ns) ==
  [k \in DOMAIN es |-> [es[k] EXCEPT !.interactions = Interactions(ns, cs[es[k].config + 1])]]

ProcessExample(ns) ==
  LET seen == ns_counter \cup ns
      es == IF seen = ns_counter THEN estimators ELSE Regenerated(estimators, configs, seen)
  IN /\ ns_counter' = seen /\ estimators' = es
     /\ IF seen # ns_counter /\ configs[1].state = "New"
        THEN SetOracle(GenConfigs([OracleState EXCEPT !.configs[1].state = "Live"],
                                  es[1].interactions, seen))
        ELSE UNCHANGED <<configs, valid_config_size, index_queue>>

Predict(ns) ==
  /\ amlStep = "idle" /\ ProcessExample(ns)
  /\ UNCHANGED <<weights, amlStep, live_slot, total_learn_count>>

(* one_step.  The first example that is learned has some namespace: else   *)
(* the champion, still New, is taken for its own challenger.               *)
OneStep(ns) ==
  /\ amlStep = "idle" /\ total_learn_count < MaxSteps /\ ns_counter \cup ns # {}
  /\ total_learn_count' = total_learn_count + 1
  /\ ProcessExample(ns) /\ amlStep' = "schedule" /\ live_slot' = 0
  /\ UNCHANGED weights

-----------------------------------------------------------------------------
(* schedule, one slot at a time.                                           *)
Need(s) == Len(estimators) <= s
ConfigOf(s) == configs[estimators[s + 1].config + 1]
LeaseOver(s) == ~Need(s) => estimators[s + 1].self.n >= ConfigOf(s).lease
IsLive(s) == ~Need(s) /\ ConfigOf(s).state = "Live"

SlotDone ==
  IF live_slot + 1 < max_live_configs THEN live_slot' = live_slot + 1 /\ UNCHANGED amlStep
  ELSE live_slot' = 0 /\ amlStep' = "learn"

(* The lease of a live one is doubled.  It goes on if it has priority, or  *)
(* beats a challenger that has and takes over its priority.                *)
Doubled(s) ==
  IF IsLive(s) THEN [configs EXCEPT ![estimators[s + 1].config + 1].lease = @ * 2]
  ELSE configs

KeepSlot ==
  /\ amlStep = "schedule"
  /\ IF ~LeaseOver(live_slot) THEN UNCHANGED <<configs, estimators>>
     ELSE /\ IsLive(live_slot) /\ configs' = Doubled(live_slot)
          /\ \/ ~estimators[live_slot + 1].eligible /\ UNCHANGED estimators
             \/ \E other \in 2 .. Len(estimators) :
                  /\ estimators[live_slot + 1].eligible /\ ~estimators[other].eligible
                  /\ estimators' = [estimators EXCEPT ![live_slot + 1].eligible = FALSE,
                                                      ![other].eligible = TRUE]
  /\ SlotDone /\ UNCHANGED <<valid_config_size, index_queue, weights, ns_counter,
                             total_learn_count>>

(* Otherwise the next configuration of the queue takes the slot, if there  *)
(* is one, with the champion's weights; an empty queue is filled with the  *)
(* valid configurations that are not live.                                 *)
Refilled_Slip == IF index_queue # {} THEN index_queue ELSE 0 .. valid_config_size - 1
Refilled ==
  IF index_queue # {} THEN index_queue
  ELSE {i \in 0 .. valid_config_size - 1 : configs[i + 1].state \in {"New", "Inactive"}}

NoPriority_Slip(s) == s > priority_challengers + 1
NoPriority(s) == s > priority_challengers

Inactivated(cs, s) ==
  IF IsLive(s) THEN [cs EXCEPT ![estimators[s + 1].config + 1].state = "Inactive"] ELSE cs

ReplaceSlot ==
  /\ amlStep = "schedule" /\ LeaseOver(live_slot)
  /\ IsLive(live_slot) => estimators[live_slot + 1].eligible
  /\ IF Refilled = {}
     THEN configs' = Doubled(live_slot) /\ UNCHANGED <<index_queue, estimators, weights>>
     ELSE \E i \in Refilled :
       LET c == configs[i + 1]
           old == IF Need(live_slot) THEN [NewEstimator EXCEPT !.eligible = NoPriority(live_slot)]
                  ELSE estimators[live_slot + 1]
           e == [NewEstimator EXCEPT !.config = i, !.eligible = old.eligible,
                                     !.interactions = Interactions(ns_counter, c)]
       IN /\ index_queue' = Refilled \ {i}
          /\ configs' = [Inactivated(Doubled(live_slot), live_slot) EXCEPT ![i + 1].state = "Live"]
          /\ estimators' = IF Need(live_slot) THEN Append(estimators, e)
                           ELSE [estimators EXCEPT ![live_slot + 1] = e]
          /\ weights' = [weights EXCEPT ![live_slot] = Key(c)]
  /\ SlotDone /\ UNCHANGED <<valid_config_size, ns_counter, total_learn_count>>

-----------------------------------------------------------------------------
(* offset_learn: the challengers, then the champion; every challenger has  *)
(* its own estimate of the champion over its own time.                     *)
Counted(x, c) == [n |-> x.n + 1, of |-> x.of \cup {Key(c)}]

OffsetLearn ==
  /\ amlStep = "learn" /\ amlStep' = "check"
  /\ estimators' = [k \in DOMAIN estimators |->
       IF k = 1 THEN estimators[k]
       ELSE [estimators[k] EXCEPT !.self = Counted(@, ConfigOf(k - 1)),
                                  !.champ = Counted(@, ConfigOf(0))]]
  /\ UNCHANGED <<configs, valid_config_size, index_queue, weights, ns_counter, live_slot,
                 total_learn_count>>

(* keep_best_two.                                                          *)
Swap(f, i, j) == [f EXCEPT ![i] = f[j], ![j] = f[i]]
KeepBestTwo(w) ==
  LET cs == IF w = 1 THEN Swap(configs, 1, 2) ELSE Swap(Swap(configs, 1, w + 1), 2, w + 1)
  IN IF oracle = "champdupe"
     THEN [configs |-> [cs EXCEPT ![3].state = "Inactive"], valid |-> valid_config_size,
           queue |-> {}]
     ELSE [configs |-> cs, valid |-> 2, queue |-> {}]

(* The winner's weights go to slot 0, the old champion's to slot 1.        *)
WeightsMoved_Slip(w) == Swap(weights, 0, w)
WeightsMoved(w) ==
  LET swapped == Swap(weights, 0, w) IN [swapped EXCEPT ![1] = swapped[w]]

(* Their estimators too; champion and challenger have changed roles.       *)
ChangedRoles_Slip(new, old) == [old EXCEPT !.config = 1, !.champ = new.self]
ChangedRoles(new, old) == [old EXCEPT !.config = 1, !.self = new.champ, !.champ = new.self]

ApplyNewChamp(w) ==
  LET new == [estimators[w + 1] EXCEPT !.config = 0, !.eligible = FALSE]
      old == IF priority_challengers > 1 THEN [estimators[1] EXCEPT !.eligible = FALSE]
             ELSE estimators[1]
  IN /\ estimators' = << new, ChangedRoles(new, old) >>
     /\ weights' = WeightsMoved(w)
     /\ SetOracle(GenConfigs(KeepBestTwo(estimators[w + 1].config), new.interactions, ns_counter))

(* check_for_new_champ: any challenger may win.                            *)
CheckForNewChamp ==
  /\ amlStep = "check" /\ amlStep' = "idle"
  /\ \/ UNCHANGED <<configs, valid_config_size, index_queue, estimators, weights>>
     \/ \E w \in 1 .. Len(estimators) - 1 : ApplyNewChamp(w)
  /\ UNCHANGED <<ns_counter, live_slot, total_learn_count>>

AmlNext ==
  /\ \/ \E ns \in SUBSET Namespaces : Predict(ns) \/ OneStep(ns)
     \/ KeepSlot \/ ReplaceSlot \/ OffsetLearn \/ CheckForNewChamp
  /\ UNCHANGED oracle
AmlSpec == AmlInit /\ [][AmlNext]_amlVars

-----------------------------------------------------------------------------
Live == {estimators[k].config : k \in DOMAIN estimators}

(* Slots, configurations and queue agree: a slot's configuration is valid, *)
(* live and in no other slot, no other valid configuration is live, and    *)
(* what waits in the queue is valid and in no slot; also right after a     *)
(* change of the champion has renumbered them all.                         *)
SlotsAgree ==
  /\ Cardinality(Live) = Len(estimators) /\ Len(estimators) <= max_live_configs
  /\ \A i \in 0 .. valid_config_size - 1 :
       (configs[i + 1].state = "Live") <=> (i \in Live /\ ~(i = 0 /\ ns_counter = {}))
  /\ Live \cup index_queue \subseteq 0 .. valid_config_size - 1
  /\ Live \cap index_queue = {}

(* The weights of a slot are those learned for its configuration, with the *)
(* interactions that belong to it for the namespaces seen so far.          *)
SlotOwnsWeights ==
  \A k \in DOMAIN estimators :
    /\ weights[k - 1] = Key(ConfigOf(k - 1))
    /\ estimators[k].interactions = Interactions(ns_counter, ConfigOf(k - 1))

(* A challenger and the champion are compared over the same examples, with *)
(* statistics that are about them and nobody else.                         *)
FairComparison ==
  \A k \in 2 .. Len(estimators) :
    /\ estimators[k].self.n = estimators[k].champ.n
    /\ estimators[k].self.of \subseteq {Key(ConfigOf(k - 1))}
    /\ estimators[k].champ.of \subseteq {Key(ConfigOf(0))}

(* No more challengers have priority than priority_challengers says.       *)
PriorityBudget ==
  priority_challengers > 0 =>
    Cardinality({k \in 2 .. Len(estimators) : ~estimators[k].eligible}) <= priority_challengers

(* "add/remove one interaction for each new config": what the oracle       *)
(* derives from the champion differs from it by one interaction.           *)
OneDifference ==
  oracle # "champdupe" => \A i \in 2 .. valid_config_size - 1 :
    LET a == configs[i + 1].elements b == configs[1].elements
    IN Cardinality((a \ b) \cup (b \ a)) = 1
=============================================================================

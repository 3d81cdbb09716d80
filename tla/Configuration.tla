---------------------------- MODULE Configuration ---------------------------
(* How a command line becomes a configured vw: the values its options get, *)
(* and the stack of reductions they ask for.  The two parts share nothing. *)
EXTENDS Integers, Sequences, SequencesExt, FiniteSets, Naturals

(***************************************************************************)
(* options_cli: the command line is kept as a list of tokens and read again *)
(* from its start each time a group of options is added, with the options   *)
(* known so far. What is not known yet is positional. At the end            *)
(* check_unregistered reads it once more with all options known.            *)
(* A token is a record; its text as a value is the record itself.           *)
(***************************************************************************)

CONSTANTS
    OptionType,     \* [option -> {"SCALAR", "BOOLEAN", "VECTOR"}]
    GroupOf,        \* [option -> 1 .. number of groups]: the order in which the reductions add them
    Overridable,    \* the options declared with allow_override
    Tokens,         \* the tokens that a command line is made of
    MaxTokens

Option == DOMAIN OptionType
Groups == { GroupOf[o] : o \in Option }
Unsupplied == << [kind |-> "unsupplied"] >>

VARIABLES
    cliTokens,  \* _command_line
    cliUser,    \* how many of them the user gave (history)
    cliGroup,   \* how many groups have been added
    cliValue,   \* [option -> the value its typed_option was given]
    cliState    \* "adding", "checked" or the exception that ended it

cliVars == <<cliTokens, cliUser, cliGroup, cliValue, cliState>>

-----------------------------------------------------------------------------
(* Tokens: [kind |-> "long" | "short", name, eq] (eq is the text after =, or *)
(* after the letter, "" for none), [kind |-> "word", name], or the           *)
(* terminator [kind |-> "term"].                                             *)

is_option_like(t) == t.kind \in {"long", "short", "term"}
Word(v) == [kind |-> "word", name |-> v]

NoTokens == [o \in Option |-> Unsupplied]
With(map, o, vs) == [map EXCEPT ![o] = IF @ = Unsupplied THEN vs ELSE @ \o vs]

\* parse_token_map_with_current_info: known is the set of options added so far. `taking' is the option
\* whose values are being consumed: its first value is taken whatever it looks like.
Step(known, terminator, st, t) ==
    LET named == /\ t.kind \in {"long", "short"} /\ t.name \in known
        type == OptionType[t.name]
        values == IF t.eq = "" THEN <<>> ELSE <<Word(t.eq)>>
        positional == [st EXCEPT !.positional = Append(@, t), !.taking = "none"]
    IN  IF st.error # "none" THEN st
        ELSE IF st.rest THEN [st EXCEPT !.positional = Append(@, t)]
        ELSE IF st.taking = "first"
             THEN [st EXCEPT !.map = With(@, st.option, <<t>>),
                             !.taking = IF OptionType[st.option] = "VECTOR" THEN "more" ELSE "none"]
        ELSE IF st.taking = "more" /\ ~is_option_like(t) THEN [st EXCEPT !.map = With(@, st.option, <<t>>)]
        ELSE IF terminator /\ t.kind = "term" THEN [st EXCEPT !.rest = TRUE, !.taking = "none"]
        ELSE IF ~named THEN positional
        ELSE IF type = "BOOLEAN"
             THEN IF values # <<>> THEN [st EXCEPT !.error = "boolean with a value"]
                  ELSE [st EXCEPT !.map = With(@, t.name, <<>>), !.taking = "none"]
        ELSE [st EXCEPT !.map = IF values = <<>> THEN @ ELSE With(@, t.name, values),
                        !.option = t.name,
                        !.taking = IF values = <<>> THEN "first" ELSE IF type = "VECTOR" THEN "more" ELSE "none"]

ParseTokens(tokens, known, terminator) ==
    LET start == [map |-> NoTokens, positional |-> <<>>, option |-> "none", taking |-> "none",
                  rest |-> FALSE, error |-> "none"]
        end == FoldLeft(LAMBDA st, t : Step(known, terminator, st, t), start, tokens)
    IN  IF end.error = "none" /\ end.taking = "first" THEN [end EXCEPT !.error = "expected a value"] ELSE end

TokenMap(known, terminator) == ParseTokens(cliTokens, known, terminator)

KnownAt(g) == { o \in Option : GroupOf[o] <= g }

\* handle_typed_option: the first of the values counts, and the others may not disagree with it unless the
\* option may be overridden.
Disagrees(o, vs) == OptionType[o] = "SCALAR" /\ o \notin Overridable /\ \E i \in DOMAIN vs : vs[i] # vs[1]
ValueOf_Slip(o, vs) ==      \* a slip: the last value counts, so the model would override the command line
    IF vs = Unsupplied THEN Unsupplied
    ELSE IF OptionType[o] = "SCALAR" THEN <<vs[Len(vs)]>> ELSE vs
ValueOf(o, vs) ==
    IF vs = Unsupplied THEN Unsupplied
    ELSE IF OptionType[o] = "SCALAR" THEN <<vs[1]>> ELSE vs

\* What internal_add_and_parse knows when it reads the tokens: the options of this group are already in.
KnownWhenAdding_Slip(g) == KnownAt(g - 1)
KnownWhenAdding(g) == KnownAt(g)

CliInit ==
    /\ \E len \in 0 .. MaxTokens : cliTokens \in [1 .. len -> Tokens]
    /\ cliUser = Len(cliTokens)
    /\ cliGroup = 0
    /\ cliValue = NoTokens
    /\ cliState = "adding"

\* add_and_parse of the next group.
AddAndParse ==
    LET g == cliGroup + 1
        parsed == TokenMap(KnownWhenAdding(g), FALSE)
        mine == { o \in Option : GroupOf[o] = g }
    IN  /\ cliState = "adding" /\ g \in Groups
        /\ cliGroup' = g
        /\ IF parsed.error # "none" \/ \E o \in mine : parsed.map[o] # Unsupplied /\ Disagrees(o, parsed.map[o])
           THEN cliState' = "thrown" /\ UNCHANGED cliValue
           ELSE /\ cliValue' = [o \in Option |-> IF o \in mine THEN ValueOf(o, parsed.map[o]) ELSE cliValue[o]]
                /\ UNCHANGED cliState
        /\ UNCHANGED <<cliTokens, cliUser>>

\* check_unregistered
CheckUnregistered ==
    LET parsed == TokenMap(Option, TRUE)
    IN  /\ cliState = "adding" /\ cliGroup + 1 \notin Groups
        /\ cliState' = IF parsed.error # "none" \/ \E i \in DOMAIN parsed.positional : is_option_like(parsed.positional[i])
                       THEN "thrown" ELSE "checked"
        /\ UNCHANGED <<cliTokens, cliUser, cliGroup, cliValue>>

\* insert: what the header of a model file adds to the command line, after what the user gave.
InsertOption ==
    /\ cliState = "adding" /\ cliGroup = 1 /\ Len(cliTokens) = cliUser
    /\ \E t \in Tokens, w \in Tokens :
         /\ t.kind = "long" /\ t.eq = "" /\ t.name \in Option /\ GroupOf[t.name] > 1
         /\ IF OptionType[t.name] = "BOOLEAN" THEN cliTokens' = cliTokens \o <<t>>
            ELSE w.kind = "word" /\ cliTokens' = cliTokens \o <<t, w>>
    /\ UNCHANGED <<cliUser, cliGroup, cliValue, cliState>>

CliNext == AddAndParse \/ CheckUnregistered \/ InsertOption
CliSpec == CliInit /\ [][CliNext]_cliVars

-----------------------------------------------------------------------------
(* Properties *)

\* No option takes a token that looks like an option for its value.
PlainValues ==
    \A o \in Option : LET vs == TokenMap(Option, TRUE).map[o] IN
        vs # Unsupplied => \A i \in DOMAIN vs : ~is_option_like(vs[i])
NoTerminator == \A i \in DOMAIN cliTokens : cliTokens[i].kind # "term"

\* Reading the command line piecemeal gives what reading it once with every option known would give: an
\* option of an early group does not swallow or lose a value because a later group is not known yet.
EarlyParseRight ==
    cliState = "checked" /\ PlainValues /\ NoTerminator =>
        \A o \in Option : cliValue[o] = ValueOf(o, TokenMap(Option, TRUE).map[o])

\* What the user gives for a scalar option counts, whatever the model file adds after it.
CommandLineWins ==
    LET user == ParseTokens(SubSeq(cliTokens, 1, cliUser), Option, TRUE)
    IN  cliState = "checked" /\ PlainValues /\ NoTerminator /\ user.error = "none" =>
            \A o \in Option : user.map[o] # Unsupplied /\ OptionType[o] = "SCALAR" =>
                cliValue[o] = <<user.map[o][1]>>

\* What follows the terminator is never taken for an unknown option.
PositionalAfterTerminator ==
    LET parsed == TokenMap(Option, TRUE)
        before == { i \in DOMAIN cliTokens : \A j \in 1 .. i : cliTokens[j].kind # "term" }
    IN  cliState = "thrown" /\ cliGroup + 1 \notin Groups /\ parsed.error = "none" =>
            \E i \in before : is_option_like(cliTokens[i])

-----------------------------------------------------------------------------
(* How a command line becomes a stack of learners: setup_base_learner of    *)
(* default_reduction_stack_setup consults the setup functions from the top  *)
(* of the stack down, an enabled one may insert options for those below and *)
(* asks for its base learner, and on the way back the builders check that   *)
(* the types of neighbours fit.  Setup_X(o) says what the setup function of *)
(* X does when the options o are supplied; of their values only those that  *)
(* matter here appear, as cb_type_dr for --cb_type dr.                      *)

CONSTANTS
  OptionSets,     \* sets of options
  TestedSets,     \* those of them the repository's tests run
  K,              \* the number given to a reduction: classes, rounds, rank ...
  Stride          \* weights.stride() of the bottom learner

VARIABLES
  asked,      \* the options of the command line
  supplied,   \* those and the inserted ones
  remaining,  \* _reduction_stack: how many setup functions are left
  above,      \* _feature_width_above
  waiting,    \* setup functions that wait for their base learner
  chain,      \* learners built so far, the bottom one first
  phase       \* "down", "up", "built" or "refused"

stackVars == <<asked, supplied, remaining, above, waiting, chain, phase>>

ASSUME StackAssumption == K \in Nat \ {0} /\ Stride \in Nat \ {0} /\ TestedSets \subseteq OptionSets

-----------------------------------------------------------------------------
(* What a setup function does: the width it asks of the stack below and    *)
(* the one it declares, the lines its base and it take, the label and      *)
(* prediction types on both sides ("base": those of the base), whether it  *)
(* registers functions for finish_example, the learners it looks up.       *)
Inherit(line) ==
  [on |-> TRUE, refuses |-> FALSE, inserts |-> {}, width |-> 1, declared |-> 1, base |-> line, line |-> line,
   lin |-> "base", lout |-> "base", pin |-> "base", pout |-> "base", accepts |-> {}, finish |-> FALSE,
   finds |-> {}]
Off == [Inherit("single") EXCEPT !.on = FALSE]
When(enabled, r) == IF enabled THEN r ELSE Off

Typed(base, line, lin, lout, pin, pout) ==
  [Inherit(line) EXCEPT !.base = base, !.lin = lin, !.lout = lout, !.pin = pin, !.pout = pout]
Finishes(r) == [r EXCEPT !.finish = TRUE]
Wide(w, r) == [r EXCEPT !.width = w, !.declared = w]
Inserts(names, r) == [r EXCEPT !.inserts = names]
Refuses(cond, r) == [r EXCEPT !.refuses = cond]
Finds(names, r) == [r EXCEPT !.finds = names]

Bottom == Finishes(Typed("none", "single", "SIMPLE", "NOLABEL", "NOPRED", "SCALAR"))
Scores == Typed("single", "single", "SIMPLE", "SIMPLE", "SCALAR", "SCALAR")
OverScores(label, pred) == Finishes(Typed("single", "single", label, "SIMPLE", "SCALAR", pred))
Multiclass(w) == Wide(w, OverScores("MULTICLASS", "MULTICLASS"))
Explores(w) == Inserts({"cb_adf"}, Wide(w, Finishes(Typed("multi", "multi", "CB", "CB", "ACTION_SCORES", "ACTION_PROBS"))))
OverExploring == Typed("multi", "multi", "CB", "CB", "ACTION_PROBS", "ACTION_PROBS")

-----------------------------------------------------------------------------
(* Base algorithms.                                                        *)
Setup_gd(o) == Bottom
Setup_kernel_svm(o) == When("ksvm" \in o, Bottom)
Setup_ftrl(o) ==
  When(o \cap {"ftrl", "pistol", "coin"} # {},
       Refuses(Cardinality(o \cap {"ftrl", "pistol", "coin"}) # 1, Bottom))
Setup_freegrad(o) == When("FreeGrad" \in o, Bottom)
Setup_svrg(o) == When("svrg" \in o, Bottom)
Setup_sender(o) == When("sendto" \in o, Bottom)
Setup_gd_mf(o) ==
  When("rank" \in o,
       Refuses(o \cap {"adaptive", "normalized", "exact_adaptive_norm", "bfgs", "conjugate_gradient"} # {}, Bottom))
Setup_print(o) == When("print" \in o, Bottom)
Setup_noop(o) == When("noop" \in o, Bottom)
Setup_bfgs(o) ==
  When(o \cap {"bfgs", "conjugate_gradient"} # {},
       Refuses(Cardinality(o \cap {"bfgs", "conjugate_gradient"}) # 1 \/ "passes" \notin o, Bottom))
Setup_oja_newton(o) == When("OjaNewton" \in o, Bottom)
Setup_lda(o) ==
  When("lda" \in o, Finishes(Typed("none", "single", "NOLABEL", "NOLABEL", "NOPRED", "SCALARS")))
Setup_cbzo(o) ==
  When("cbzo" \in o, Refuses("noconstant" \in o, Finishes(Typed("none", "single", "CONTINUOUS", "NOLABEL", "NOPRED", "PDF"))))

(* Reductions of scores.                                                   *)
Setup_mf(o) ==
  When("new_mf" \in o, Wide(2 * K + 1, Typed("single", "single", "base", "base", "base", "SCALAR")))
Setup_generate_interactions(o) ==
  When(o \cap {"wild_interactions", "ccb_explore_adf"} # {} /\ "automl" \notin o, Inherit("single"))
Setup_baseline(o) == When("baseline" \in o, Scores)
Setup_expreplay(level, o) == When(level \in o, Inherit("single"))
Setup_active(o) == When("active" \in o, Refuses("lda" \in o, Finishes(Scores)))
Setup_active_cover(o) ==
  When("active_cover" \in o, Refuses(o \cap {"lda", "active"} # {}, Wide(K + 1, Scores)))
Setup_confidence(o) == When("confidence" \in o, Finishes(Scores))
(* Slip: set_feature_width is forgotten.                                   *)
Setup_nn_Slip(o) == When("nn" \in o, Finishes([Scores EXCEPT !.width = K + 1]))
Setup_nn(o) == When("nn" \in o, Finishes(Wide(K + 1, Scores)))
Setup_marginal(o) == When("marginal" \in o, Scores)
Setup_autolink(o) == When("autolink" \in o, Typed("single", "single", "base", "base", "SCALAR", "SCALAR"))
Setup_lrq(o) == When("lrq" \in o, Wide(K + 1, Inherit("single")))
Setup_lrqfa(o) == When("lrqfa" \in o, Wide(2 * K + 1, Inherit("single")))
Setup_stagewise_poly(o) == When("stage_poly" \in o, Finishes(Scores))
Setup_scorer(o) == Scores
Setup_bs(o) == When("bootstrap" \in o, Wide(K, Finishes(Typed("single", "single", "SIMPLE", "base", "base", "SCALAR"))))
Setup_boosting(o) == When("boosting" \in o, Wide(K, Finishes(Scores)))
Setup_binary(o) == When("binary" \in o, Scores)

(* Multiclass, multilabel and cost-sensitive reductions.                   *)
Setup_topk(o) == When("top" \in o, Finishes(Typed("single", "multi", "SIMPLE", "SIMPLE", "SCALAR", "SCALARS")))
Setup_oaa(o) ==
  When("oaa" \in o, [Multiclass(K) EXCEPT !.pout = IF o \cap {"probabilities", "scores"} # {} THEN "SCALARS" ELSE @])
Setup_ect(o) == When("ect" \in o, Multiclass(K))
Setup_log_multi(o) == When("log_multi" \in o, Multiclass(K))
Setup_recall_tree(o) == When("recall_tree" \in o, Multiclass(2 * K))
Setup_eigen_memory_tree(o) == When("emt" \in o, Multiclass(1))
Setup_memory_tree(o) ==
  When("memory_tree" \in o,
       IF "oas" \in o THEN Wide(2 * K + 1, OverScores("MULTILABEL", "MULTILABELS")) ELSE Multiclass(K + 1))
Setup_classweight(o) ==
  When("classweight" \in o, [Inherit("single") EXCEPT !.accepts = {"SCALAR", "MULTICLASS"}])
Setup_multilabel_oaa(o) ==
  When("multilabel_oaa" \in o,
       Wide(K, OverScores("MULTILABEL", IF "probabilities" \in o THEN "SCALARS" ELSE "MULTILABELS")))
Setup_plt(o) ==
  When("plt" \in o,
       Refuses("loss_logistic" \notin o,
               Wide(2 * K, OverScores("MULTILABEL", IF "probabilities" \in o THEN "ACTION_PROBS" ELSE "MULTILABELS"))))
Setup_cs_active(o) ==
  When("cs_active" \in o,
       Refuses(o \cap {"lda", "active", "active_cover", "csoaa"} # {}, Wide(K, OverScores("CS", "ACTIVE_MULTICLASS"))))
Setup_csoaa(o) ==
  When("csoaa" \in o, Refuses("probabilities" \in o, Wide(K, OverScores("CS", "MULTICLASS"))))
Setup_interact(o) == When("interact" \in o, Inherit("single"))
Setup_csldf(o) ==
  When(o \cap {"csoaa_ldf", "wap_ldf"} # {},
       Finishes(Typed("single", "multi", "CS", "SIMPLE", "SCALAR",
                      IF "csoaa_rank" \in o THEN "ACTION_SCORES"
                      ELSE IF "probabilities" \in o THEN "SCALARS" ELSE "MULTICLASS")))

(* Contextual bandits.                                                     *)
CbWidth(default, o) == IF "cb_type_dr" \in o \/ (default = "dr" /\ o \cap {"cb_type_dm", "cb_type_ips"} = {}) THEN 2 ELSE 1
(* Without --eval and --cb_force_legacy, cb_to_cb_adf has taken over.      *)
Setup_cb_algs(o) ==
  When("cb" \in o /\ o \cap {"eval", "cb_force_legacy"} # {},
       Refuses({"eval", "cb_type_dm"} \subseteq o,
         Inserts({"csoaa"}, Finds({"scorer"}, Wide(CbWidth("dr", o),
           Finishes(Typed("single", "single", IF "eval" \in o THEN "CB_EVAL" ELSE "CB", "CS", "MULTICLASS", "MULTICLASS")))))))
(* Slip: csoaa_rank is not inserted, so csoaa_ldf predicts one class.      *)
Setup_cb_adf_Slip(o) ==
  When("cb_adf" \in o,
       Inserts({"csoaa_ldf"}, Finds({"scorer"}, Wide(CbWidth("mtr", o),
         Finishes(Typed("multi", "multi", "CB", "CS", "ACTION_SCORES", "ACTION_SCORES"))))))
Setup_cb_adf(o) ==
  When("cb_adf" \in o,
       Refuses("indexing" \in o,
         Inserts({"csoaa_ldf", "csoaa_rank"} \cup (IF {"baseline", "cb_type_dr"} \subseteq o THEN {"check_enabled"} ELSE {}),
           Finds({"scorer"}, Wide(CbWidth("mtr", o),
             Finishes(Typed("multi", "multi", "CB", "CS", "ACTION_SCORES", "ACTION_SCORES")))))))
Setup_mwt(o) ==
  When("multiworld_test" \in o,
       Inserts((IF "learn" \in o THEN {"cb"} ELSE {}) \cup (IF o \cap {"learn", "cb"} # {} THEN {"cb_force_legacy"} ELSE {}),
         Finishes(Typed("single", "single", "CB", "base", "base", "SCALARS"))))
Setup_cats_tree(o) ==
  When("cats_tree" \in o,
       Inserts(IF "link" \in o THEN {} ELSE {"binary"}, Wide(K, Typed("single", "single", "CB", "SIMPLE", "SCALAR", "MULTICLASS"))))
Setup_baseline_challenger_cb(o) ==
  When("baseline_challenger_cb" \in o,
       Refuses("cb_adf" \notin o, Typed("multi", "multi", "CB", "CB", "ACTION_SCORES", "ACTION_SCORES")))
Setup_automl(o) ==
  When("automl" \in o, Wide(K, Typed("multi", "multi", "CB", "CB", "ACTION_SCORES", "ACTION_SCORES")))
Setup_cb_explore(o) ==
  When({"cb_explore", "cb_force_legacy"} \subseteq o,
       Refuses("indexing" \in o,
         Inserts(IF o \cap {"cats_tree", "cb"} = {} THEN {"cb"} ELSE {},
           Finds(IF "cover" \in o THEN {"scorer", "cs"} ELSE {"scorer"},
             Wide(IF "cover" \in o THEN K + 1 ELSE IF "bag" \in o THEN K ELSE 1,
               Finishes(Typed("single", "single", "CB", "CB", "MULTICLASS", "ACTION_PROBS")))))))
Setup_large_action_space(o) ==
  When({"cb_explore_adf", "large_action_space"} \subseteq o,
       Typed("multi", "multi", "CB", "CB", "ACTION_SCORES", "ACTION_SCORES"))
Setup_graph_feedback(o) == When({"cb_explore_adf", "graph_feedback"} \subseteq o, Explores(1))
Setup_greedy(o) ==
  When("cb_explore_adf" \in o /\ o \cap {"first", "bag", "cover", "regcb", "regcbopt", "squarecb", "rnd", "softmax",
                                         "synthcover", "graph_feedback"} = {},
       Inserts(IF "cb_adf" \in o THEN {} ELSE {"cb_adf", "no_predict"}, Explores(1)))
Setup_softmax(o) == When({"cb_explore_adf", "softmax"} \subseteq o, Explores(1))
Setup_rnd(o) == When({"cb_explore_adf", "rnd"} \subseteq o, Explores(K + 1))
Setup_regcb(o) == When("cb_explore_adf" \in o /\ o \cap {"regcb", "regcbopt"} # {}, Explores(1))
Setup_squarecb(o) == When({"cb_explore_adf", "squarecb"} \subseteq o, Explores(1))
Setup_synthcover(o) == When({"cb_explore_adf", "synthcover"} \subseteq o, Explores(1))
Setup_first(o) == When({"cb_explore_adf", "first"} \subseteq o, Explores(1))
Setup_cover(o) ==
  When({"cb_explore_adf", "cover"} \subseteq o,
       Refuses("large_action_space" \in o,
         Finds({"scorer", "cs"}, Explores(IF o \cap {"cb_type_dr", "cb_type_ips"} # {} THEN K + 1 ELSE 2 * (K + 1)))))
Setup_bag(o) ==
  When({"cb_explore_adf", "bag"} \subseteq o, Inserts({"cb_adf", "no_predict"}, Explores(K)))
Setup_cb_dro(o) ==
  When("cb_dro" \in o,
       Refuses("no_predict" \in o \/ o \cap {"cb_adf", "cb_explore_adf"} = {},
         IF "cb_explore_adf" \in o THEN OverExploring
         ELSE Typed("multi", "multi", "CB", "CB", "ACTION_SCORES", "ACTION_SCORES")))
Setup_interaction_ground(o) ==
  When("experimental_igl" \in o,
       Refuses("coin" \notin o,
         Inserts({"cb_explore_adf"}, Finds({"ftrl-Coin"},
           [Wide(2, Finishes(Typed("multi", "multi", "CB_WITH_OBSERVATIONS", "CB", "base", "base")))
              EXCEPT !.accepts = {"ACTION_SCORES", "ACTION_PROBS"}]))))
Setup_cb_sample(o) == When("cb_sample" \in o, OverExploring)
Setup_epsilon_decay(o) == When("epsilon_decay" \in o, Wide(K, OverExploring))
Setup_explore_eval(o) == When("explore_eval" \in o, Inserts({"cb_explore_adf"}, Finishes(OverExploring)))
Setup_cb_actions_mask(o) == When("large_action_space" \in o, OverExploring)
Setup_shared_feature_merger(o) == Inherit("multi")
Setup_ccb(o) ==
  When("ccb_explore_adf" \in o,
       Refuses("no_predict" \in o /\ o \cap {"predictions", "cb_type_dr", "cb_type_ips", "cb_type_dm", "cb_type_sm"} # {},
         Inserts({"cb_explore_adf"} \cup (IF "no_predict" \in o THEN {} ELSE {"cb_sample"}),
           Finishes(Typed("multi", "multi", "CCB", "CB", "ACTION_PROBS", "DECISION_PROBS")))))
Setup_slates(o) ==
  When("slates" \in o,
       Inserts({"ccb_explore_adf"}, Finishes(Typed("multi", "multi", "SLATES", "CCB", "DECISION_PROBS", "DECISION_PROBS"))))
Setup_warm_cb(o) ==
  When("warm_cb" \in o,
       Finds({"cs"}, Wide(K, Finishes(Typed("multi", "single", IF "warm_cb_cs" \in o THEN "CS" ELSE "MULTICLASS", "CB",
                                            "ACTION_PROBS", "MULTICLASS")))))

(* Continuous actions.                                                     *)
Setup_get_pmf(o) == When("get_pmf" \in o, Typed("single", "single", "base", "base", "MULTICLASS", "ACTION_SCORES"))
Setup_pmf_to_pdf(o) ==
  When("pmf_to_pdf" \in o,
       Refuses(~({"min_value", "max_value"} \subseteq o), Typed("single", "single", "CONTINUOUS", "CB", "ACTION_SCORES", "PDF")))
Setup_cb_explore_pdf(o) ==
  When("cb_explore_pdf" \in o,
       Refuses(~({"min_value", "max_value"} \subseteq o), Typed("single", "single", "CB", "CONTINUOUS", "PDF", "PDF")))
Setup_cats_pdf(o) ==
  When("cats_pdf" \in o,
       Inserts({"cb_explore_pdf", "pmf_to_pdf", "get_pmf", "cats_tree"},
         Finishes(Typed("single", "single", "CONTINUOUS", "CB", "PDF", "PDF"))))
Setup_sample_pdf(o) == When("sample_pdf" \in o, Typed("single", "single", "base", "base", "base", "ACTION_PDF_VALUE"))
Setup_cats(o) ==
  When("cats" \in o,
       Inserts({"sample_pdf", "cats_pdf"},
         Finishes(Typed("single", "single", "CONTINUOUS", "CONTINUOUS", "ACTION_PDF_VALUE", "ACTION_PDF_VALUE"))))

(* Reductions to contextual bandits.                                       *)
CbifyCosts(o) ==
  (IF {"cb_explore_adf"} \subseteq o /\ o \cap {"regcb", "squarecb"} # {} THEN {"cb_min_cost", "cb_max_cost"} ELSE {})
    \cup (IF "baseline" \in o THEN {"lr_multiplier"} ELSE {})
Setup_cbify(o) ==
  LET adf == "cb_explore_adf" \in o
      label == IF "cbify_cs" \in o THEN "CS" ELSE "MULTICLASS"
      reg == "cbify_reg" \in o
      discrete == "cb_discrete" \in o
      needs == CASE reg /\ discrete -> {"cb_explore"}
                 [] reg /\ ~discrete -> {"cats"}
                 [] ~reg -> IF adf THEN {} ELSE {"cb_explore"}
  IN  When("cbify" \in o,
        Refuses(reg /\ (adf \/ "cbify_cs" \in o \/ ~({"min_value", "max_value"} \subseteq o) \/ (discrete /\ "cats" \in o)),
          Inserts(needs \cup CbifyCosts(o), Finishes(
            CASE ~reg /\ adf -> Typed("multi", "single", label, "CB", "base", "MULTICLASS")
              [] reg /\ discrete -> Typed("single", "single", "SIMPLE", "CB", "ACTION_PROBS", "SCALAR")
              [] reg /\ ~discrete -> Typed("single", "single", "SIMPLE", "CONTINUOUS", "ACTION_PDF_VALUE", "SCALAR")
              [] OTHER -> Typed("single", "single", label, "CB", "ACTION_PROBS", "MULTICLASS")))))
Setup_cbifyldf(o) ==
  When("cbify_ldf" \in o,
       Inserts({"cb_explore_adf", "cb_min_cost", "cb_max_cost"} \cup CbifyCosts(o),
         Finishes(Typed("multi", "multi", "CS", "CB", "ACTION_PROBS", "MULTICLASS"))))
(* Legacy runs are left alone; cbify gets what it needs but no learner.    *)
CbToAdf(pred, out, name, inserted) ==
  Inserts(inserted, Finds({name}, Finishes(Typed("multi", "single", "CB", "CB", pred, out))))
(* Slip: the label is finished by the learners below.                      *)
Setup_cb_to_cb_adf_Slip(o) ==
  When("cb" \in o /\ "eval" \notin o,
       [CbToAdf("ACTION_SCORES", "MULTICLASS", "cb_adf", {"cb_adf"}) EXCEPT !.finish = FALSE])
Setup_cb_to_cb_adf(o) ==
  IF "eval" \in o \/ o \cap {"cb", "cb_explore", "cbify"} = {} THEN Off
  ELSE IF o \cap {"cbify_reg", "cb_force_legacy"} # {} THEN Inserts({"cb_force_legacy"}, Off)
  ELSE IF "cbify" \in o THEN Inserts({"cb_explore_adf"}, Off)
  ELSE IF "cb_explore" \in o THEN CbToAdf("ACTION_PROBS", "ACTION_PROBS", "cb_explore_adf_", {"cb_explore_adf"})
  ELSE CbToAdf("ACTION_SCORES", "MULTICLASS", "cb_adf", {"cb_adf"})
Setup_offset_tree(o) ==
  When("ot" \in o,
       Inserts({"cb_explore", "cb_force_legacy"}, Wide(K, Typed("single", "single", "CB", "CB", "ACTION_PROBS", "ACTION_PROBS"))))

(* Search and the wrappers on top.  search takes any base, and its task    *)
(* chooses the label type.                                                 *)
Setup_search(o) ==
  When("search" \in o,
       Inserts(IF o \cap {"csoaa", "cs_active", "csoaa_ldf", "wap_ldf", "cb"} = {} THEN {"csoaa"} ELSE {},
         Wide(K, Finishes([Inherit("multi") EXCEPT !.base = "any", !.lin = "MULTICLASS"]))))
Setup_audit_regressor(o) ==
  When("audit_regressor" \in o, Refuses("passes" \in o, Finishes(Inherit("single"))))
Setup_metrics(o) == When("extra_metrics" \in o, [Inherit("as base") EXCEPT !.base = "any"])
Setup_count_label(o) == [Inherit("as base") EXCEPT !.base = "any"]

-----------------------------------------------------------------------------
(* prepare_reductions, in the order of its push_back calls: the last one   *)
(* is consulted first.                                                     *)
BaseAlgorithms ==
  <<"gd", "kernel_svm", "ftrl", "freegrad", "svrg", "sender", "gd_mf", "print", "noop", "bfgs", "oja_newton", "mf",
    "generate_interactions">>
ScoreUsers ==
  <<"baseline", "replay_b", "active", "active_cover", "confidence", "nn", "marginal", "autolink", "lrq", "lrqfa",
    "stagewise_poly", "scorer", "lda", "cbzo">>
Reductions ==
  <<"bs", "boosting", "binary", "replay_m", "topk", "oaa", "ect", "log_multi", "recall_tree", "eigen_memory_tree",
    "memory_tree", "classweight", "multilabel_oaa", "plt", "cs_active", "csoaa", "interact", "csldf", "cb_algs", "cb_adf",
    "mwt", "cats_tree", "baseline_challenger_cb", "automl", "cb_explore", "large_action_space", "graph_feedback",
    "greedy", "softmax", "rnd", "regcb", "squarecb", "synthcover", "first", "cover", "bag", "cb_dro",
    "interaction_ground", "cb_sample", "epsilon_decay", "explore_eval", "cb_actions_mask", "shared_feature_merger",
    "ccb", "slates", "warm_cb", "get_pmf", "pmf_to_pdf", "cb_explore_pdf", "cats_pdf", "sample_pdf">>
Converters ==
  <<"cats", "cbify", "cbifyldf", "cb_to_cb_adf", "offset_tree", "replay_c", "search", "audit_regressor", "metrics", "count_label">>
(* Slip: cb_sample is pushed after ccb, which inserts its option.          *)
Stack_Slip == BaseAlgorithms \o ScoreUsers \o Remove(Reductions, "cb_sample") \o <<"cb_sample">> \o Converters
Stack == BaseAlgorithms \o ScoreUsers \o Reductions \o Converters

SetupFn(name, o) ==
  CASE name = "gd" -> Setup_gd(o)
    [] name = "kernel_svm" -> Setup_kernel_svm(o)
    [] name = "ftrl" -> Setup_ftrl(o)
    [] name = "freegrad" -> Setup_freegrad(o)
    [] name = "svrg" -> Setup_svrg(o)
    [] name = "sender" -> Setup_sender(o)
    [] name = "gd_mf" -> Setup_gd_mf(o)
    [] name = "print" -> Setup_print(o)
    [] name = "noop" -> Setup_noop(o)
    [] name = "bfgs" -> Setup_bfgs(o)
    [] name = "oja_newton" -> Setup_oja_newton(o)
    [] name = "lda" -> Setup_lda(o)
    [] name = "cbzo" -> Setup_cbzo(o)
    [] name = "mf" -> Setup_mf(o)
    [] name = "generate_interactions" -> Setup_generate_interactions(o)
    [] name = "baseline" -> Setup_baseline(o)
    [] name = "active" -> Setup_active(o)
    [] name = "active_cover" -> Setup_active_cover(o)
    [] name = "confidence" -> Setup_confidence(o)
    [] name = "nn" -> Setup_nn(o)
    [] name = "marginal" -> Setup_marginal(o)
    [] name = "autolink" -> Setup_autolink(o)
    [] name = "lrq" -> Setup_lrq(o)
    [] name = "lrqfa" -> Setup_lrqfa(o)
    [] name = "stagewise_poly" -> Setup_stagewise_poly(o)
    [] name = "scorer" -> Setup_scorer(o)
    [] name = "bs" -> Setup_bs(o)
    [] name = "boosting" -> Setup_boosting(o)
    [] name = "binary" -> Setup_binary(o)
    [] name = "topk" -> Setup_topk(o)
    [] name = "oaa" -> Setup_oaa(o)
    [] name = "ect" -> Setup_ect(o)
    [] name = "log_multi" -> Setup_log_multi(o)
    [] name = "recall_tree" -> Setup_recall_tree(o)
    [] name = "eigen_memory_tree" -> Setup_eigen_memory_tree(o)
    [] name = "memory_tree" -> Setup_memory_tree(o)
    [] name = "classweight" -> Setup_classweight(o)
    [] name = "multilabel_oaa" -> Setup_multilabel_oaa(o)
    [] name = "plt" -> Setup_plt(o)
    [] name = "cs_active" -> Setup_cs_active(o)
    [] name = "csoaa" -> Setup_csoaa(o)
    [] name = "interact" -> Setup_interact(o)
    [] name = "csldf" -> Setup_csldf(o)
    [] name = "cb_algs" -> Setup_cb_algs(o)
    [] name = "cb_adf" -> Setup_cb_adf(o)
    [] name = "mwt" -> Setup_mwt(o)
    [] name = "cats_tree" -> Setup_cats_tree(o)
    [] name = "baseline_challenger_cb" -> Setup_baseline_challenger_cb(o)
    [] name = "automl" -> Setup_automl(o)
    [] name = "cb_explore" -> Setup_cb_explore(o)
    [] name = "large_action_space" -> Setup_large_action_space(o)
    [] name = "graph_feedback" -> Setup_graph_feedback(o)
    [] name = "greedy" -> Setup_greedy(o)
    [] name = "softmax" -> Setup_softmax(o)
    [] name = "rnd" -> Setup_rnd(o)
    [] name = "regcb" -> Setup_regcb(o)
    [] name = "squarecb" -> Setup_squarecb(o)
    [] name = "synthcover" -> Setup_synthcover(o)
    [] name = "first" -> Setup_first(o)
    [] name = "cover" -> Setup_cover(o)
    [] name = "bag" -> Setup_bag(o)
    [] name = "cb_dro" -> Setup_cb_dro(o)
    [] name = "interaction_ground" -> Setup_interaction_ground(o)
    [] name = "cb_sample" -> Setup_cb_sample(o)
    [] name = "epsilon_decay" -> Setup_epsilon_decay(o)
    [] name = "explore_eval" -> Setup_explore_eval(o)
    [] name = "cb_actions_mask" -> Setup_cb_actions_mask(o)
    [] name = "shared_feature_merger" -> Setup_shared_feature_merger(o)
    [] name = "ccb" -> Setup_ccb(o)
    [] name = "slates" -> Setup_slates(o)
    [] name = "warm_cb" -> Setup_warm_cb(o)
    [] name = "get_pmf" -> Setup_get_pmf(o)
    [] name = "pmf_to_pdf" -> Setup_pmf_to_pdf(o)
    [] name = "cb_explore_pdf" -> Setup_cb_explore_pdf(o)
    [] name = "cats_pdf" -> Setup_cats_pdf(o)
    [] name = "sample_pdf" -> Setup_sample_pdf(o)
    [] name = "cats" -> Setup_cats(o)
    [] name = "cbify" -> Setup_cbify(o)
    [] name = "cbifyldf" -> Setup_cbifyldf(o)
    [] name = "cb_to_cb_adf" -> Setup_cb_to_cb_adf(o)
    [] name = "offset_tree" -> Setup_offset_tree(o)
    [] name = "search" -> Setup_search(o)
    [] name = "audit_regressor" -> Setup_audit_regressor(o)
    [] name = "metrics" -> Setup_metrics(o)
    [] name = "count_label" -> Setup_count_label(o)
    [] name \in {"replay_b", "replay_m", "replay_c"} -> Setup_expreplay(name, o)

(* The learners whose names contain what get_learner_by_name_prefix is     *)
(* asked for.                                                              *)
AdfExplorers ==
  {"graph_feedback", "greedy", "softmax", "rnd", "regcb", "squarecb", "synthcover", "first", "cover", "bag", "large_action_space"}
NamesWith(text) ==
  CASE text = "scorer" -> {"scorer"}
    [] text = "cs" -> {"csoaa", "csldf", "cs_active", "metrics"}
    [] text = "cb_adf" -> {"cb_adf"}
    [] text = "cb_explore_adf_" -> AdfExplorers
    [] text = "ftrl-Coin" -> IF "coin" \in supplied THEN {"ftrl"} ELSE {}

-----------------------------------------------------------------------------
StackInit ==
  /\ asked \in OptionSets
  /\ supplied = asked
  /\ remaining = Len(Stack)
  /\ above = 1
  /\ waiting = << >>
  /\ chain = << >>
  /\ phase = "down"

(* Setup functions that are not enabled and insert nothing are skipped.    *)
Enabled(p, o) == \E r \in {SetupFn(Stack[p], o)} : r.on \/ r.inserts # {}
NextEnabled ==
  CHOOSE p \in 1..remaining : Enabled(p, supplied) /\ \A q \in (p + 1)..remaining : ~Enabled(q, supplied)

Learner(name, r, base, width) ==
  [name |-> name, line |-> IF r.line = "as base" THEN base.line ELSE r.line,
   lin |-> IF r.lin = "base" THEN base.lin ELSE r.lin,
   pout |-> IF r.pout = "base" THEN base.pout ELSE r.pout,
   finish |-> r.finish, declared |-> r.declared, width |-> width, below |-> base.below * r.declared]
NoBase == [line |-> "none", lin |-> "NOLABEL", pout |-> "NOPRED", below |-> Stride]

(* setup_base_learner.  _feature_width_above is multiplied when the next   *)
(* setup function is called, with what the one above asked for.            *)
SetupBaseLearner ==
  /\ phase = "down"
  /\ \E p \in {NextEnabled} : \E r \in {SetupFn(Stack[p], supplied)} :
       /\ supplied' = supplied \cup r.inserts
       /\ remaining' = p - 1
       /\ \/ /\ r.refuses
             /\ phase' = "refused"
             /\ UNCHANGED <<above, waiting, chain>>
          \/ /\ ~r.refuses /\ ~r.on
             /\ UNCHANGED <<above, waiting, chain, phase>>
          \/ /\ ~r.refuses /\ r.on /\ r.base # "none"
             /\ above' = above * r.width
             /\ waiting' = Append(waiting, [name |-> Stack[p], r |-> r])
             /\ UNCHANGED <<chain, phase>>
          \/ /\ ~r.refuses /\ r.on /\ r.base = "none"
             /\ chain' = <<Learner(Stack[p], r, NoBase, 1)>>
             /\ phase' = "up"
             /\ UNCHANGED <<above, waiting>>
  /\ UNCHANGED asked

(* count_label and shared_feature_merger return their base as it is unless *)
(* they are of use to it.                                                  *)
ReturnsBase(name, base) ==
  \/ name = "count_label" /\ ("dont_output_best_constant" \in supplied \/ base.lin # "SIMPLE")
  \/ name = "shared_feature_merger" /\ (base.lin \notin {"CB", "CS", "CB_WITH_OBSERVATIONS"} \/ base.line # "multi")
(* get_learner_by_name_prefix: the first from the top, or it throws.       *)
Lookup(text) == {i \in 1..Len(chain) : chain[i].name \in NamesWith(text)}
Found(text) == chain[CHOOSE i \in Lookup(text) : \A j \in Lookup(text) : j <= i]
LineOf(text, name) == IF text \in {"scorer", "ftrl-Coin"} \/ (text = "cs" /\ name = "cb_explore") THEN "single" ELSE "multi"
(* require_singleline, require_multiline and learner_build_diagnostic.     *)
LearnerBuildDiagnostic(r, base) == r.pin \in {"base", base.pout} /\ r.lout \in {"base", base.lin}
Builds(name, r, base) ==
  /\ r.base \in {"any", base.line}
  /\ r.accepts = {} \/ base.pout \in r.accepts
  /\ LearnerBuildDiagnostic(r, base)
  /\ \A text \in r.finds : Lookup(text) # {} /\ Found(text).line = LineOf(text, name)

(* A setup function continues with the base learner it asked for.          *)
Build ==
  /\ phase = "up" /\ waiting # << >>
  /\ LET f == Last(waiting)
         base == Last(chain)
     IN  \/ /\ ReturnsBase(f.name, base)
            /\ UNCHANGED <<chain, phase>>
         \/ /\ ~ReturnsBase(f.name, base) /\ Builds(f.name, f.r, base)
            /\ chain' = Append(chain, Learner(f.name, f.r, base, f.r.width))
            /\ UNCHANGED phase
         \/ /\ ~ReturnsBase(f.name, base) /\ ~Builds(f.name, f.r, base)
            /\ phase' = "refused"
            /\ UNCHANGED chain
  /\ waiting' = Front(waiting)
  /\ UNCHANGED <<asked, supplied, remaining, above>>

(* instantiate_learner.                                                    *)
InstantiateLearner ==
  /\ phase = "up" /\ waiting = << >>
  /\ phase' = "built"
  /\ UNCHANGED <<asked, supplied, remaining, above, waiting, chain>>

StackNext == SetupBaseLearner \/ Build \/ InstantiateLearner

StackSpec == StackInit /\ [][StackNext]_stackVars

-----------------------------------------------------------------------------
(* finish_example goes down to the first learner that registered           *)
(* functions.                                                              *)
Finisher == CHOOSE i \in 1..Len(chain) : chain[i].finish /\ \A j \in (i + 1)..Len(chain) : ~chain[j].finish
FinishForwards == \A i \in (Finisher + 1)..Len(chain) : chain[i].line = chain[i - 1].line

(* Every command line that the tests run gets its stack: whatever the      *)
(* setup functions insert, neighbours agree on labels, predictions and on  *)
(* one example or many (learner_build_diagnostic, require_multiline).      *)
TestedSetsBuild == asked \in TestedSets => phase # "refused"

(* The weights a reduction asks for on the way down are those it addresses *)
(* on the way up: the product of the widths, which gd and cb_adf read as   *)
(* feature_width_above, is that of the declared ones, so no two of its     *)
(* models share weights (set_feature_width).                               *)
WidthsAgree ==
  /\ \A i \in 1..Len(chain) : chain[i].width = chain[i].declared
  /\ phase = "built" => Last(chain).below = above * Stride

(* Options are inserted in time: a reduction above the bottom learner that *)
(* the final options enable was consulted with them and is in the stack.   *)
EnabledIsUsed ==
  phase = "built" =>
    \A p \in (CHOOSE q \in 1..Len(Stack) : Stack[q] = chain[1].name)..Len(Stack) :
      SetupFn(Stack[p], supplied).on =>
        \/ \E i \in 1..Len(chain) : chain[i].name = Stack[p]
        \/ Stack[p] \in {"count_label", "shared_feature_merger"}

(* Examples can be finished: no forwarding from learners of many examples  *)
(* to one of single examples or back, which throws (finish_example), and,  *)
(* on the lines that are tested, by functions for the label and prediction *)
(* that the example has on top.                                            *)
FinishRight ==
  phase = "built" =>
    /\ \E i \in 1..Len(chain) : chain[i].finish
    /\ asked \in TestedSets =>
         /\ FinishForwards
         /\ chain[Finisher].lin = Last(chain).lin /\ chain[Finisher].pout = Last(chain).pout

(* This does not hold: fail_if_enabled asks all.l, which is null until the *)
(* stack is complete, so a reduction automl does not support is not        *)
(* refused (automl.cc: "ccb_explore_adf", "cbify", "baseline", ...).       *)
AutomlRefuses ==
  phase = "built" /\ "automl" \in asked =>
    ~\E i \in 1..Len(chain) : chain[i].name \in {"ccb", "baseline", "rnd", "cbify", "nn", "stagewise_poly", "mf"}

(* The value that a group of options gets is the one the whole command     *)
(* line gives it, however few options are known when it asks, and the      *)
(* user's value goes before that of the model; stated for values that do   *)
(* not look like options and lines without the terminator.                 *)
OptionsRight ==
  /\ EarlyParseRight
  /\ CommandLineWins

(* What the setup functions build from a command line works together: the  *)
(* lines that are tested get a stack whose neighbours agree on labels,     *)
(* predictions and lines, whose examples are finished for the label they   *)
(* have on top; every learner addresses the weights that were asked for,   *)
(* and every reduction that the options enable, inserted ones included, is *)
(* in the stack.                                                           *)
StackSound ==
  /\ TestedSetsBuild
  /\ WidthsAgree
  /\ EnabledIsUsed
  /\ FinishRight
=============================================================================

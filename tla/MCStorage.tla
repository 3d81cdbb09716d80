------------------------------ MODULE MCStorage ------------------------------
(* What is around the learner: the daemon's parent, cache files and model  *)
(* files, the byte buffer, the text, CSV, flatbuffer and JSON readers, the *)
(* groups of features they fill, the command line and the stack of         *)
(* learners built from it; and the run that keeps the model of its best    *)
(* pass.  They share no variables; a behaviour drives the one that `part`  *)
(* names, and the others stay in a fixed initial state.                    *)
EXTENDS DaemonParent, CacheFiles, ModelFile, IoBuf, StructuredReaders, TextReaders,
        Configuration, HoldoutStop

VARIABLE part

storageVars == <<part, daemonVars, cacheVars, modelVars, ioVars, fbVars, cliVars, jsonVars,
                 lineVars, fgVars, stackVars, vars>>

(* One value for the choices of a component that is not driven.            *)
Fixes(name, choice) == part # name => choice

StorageInit ==
  /\ part \in {"daemon", "cache", "model", "io", "flatbuffer", "cli", "json", "lines", "group", "stack", "holdout"}
  /\ CliInit /\ Fixes("cli", cliTokens = <<>>)
  /\ JsonInit /\ Fixes("json", label_type = "CB" /\ ~dsjson)
  /\ LinesInit /\ Fixes("lines", lkind = "simple" /\ csv.given = << >> /\ Len(csv.files[2]) = 1)
  /\ StackInit /\ Fixes("stack", asked = {})
  /\ DaemonInit /\ FgInit /\ CacheInit /\ ModelInit /\ IoInit /\ FbInit /\ Init

Rests(name, state) == IF part = name THEN TRUE ELSE UNCHANGED state

StorageNext ==
  /\ UNCHANGED part
  /\ Rests("daemon", daemonVars) /\ Rests("cache", cacheVars) /\ Rests("model", modelVars)
  /\ Rests("io", ioVars) /\ Rests("flatbuffer", fbVars) /\ Rests("cli", cliVars)
  /\ Rests("json", jsonVars) /\ Rests("lines", lineVars) /\ Rests("group", fgVars)
  /\ Rests("stack", stackVars) /\ Rests("holdout", vars)
  /\ \/ part = "daemon" /\ DaemonNext
     \/ part = "cache" /\ CacheNext
     \/ part = "model" /\ ModelNext
     \/ part = "io" /\ IoNext
     \/ part = "flatbuffer" /\ FbNext
     \/ part = "cli" /\ CliNext
     \/ part = "json" /\ JsonNext
     \/ part = "lines" /\ LinesNext
     \/ part = "group" /\ FgNext
     \/ part = "stack" /\ StackNext
     \/ part = "holdout" /\ Next

StorageSpec ==
  /\ StorageInit /\ [][StorageNext]_storageVars
  /\ WF_daemonVars(part = "daemon" /\ Parent)
  /\ \A p \in Pid : WF_daemonVars(part = "daemon" /\ Obey(p))

-----------------------------------------------------------------------------
(* The sets of options in test/core.vwtest.json that choose learners, and  *)
(* lines nobody tested: one of those with a further reduction.             *)
RunInTests ==
  {{}, {"OjaNewton"}, {"active"}, {"active_cover"},
   {"active_cover", "binary"}, {"audit_regressor"}, {"audit_regressor", "lda"},
   {"autolink"}, {"automl", "bag", "cb_explore_adf"}, {"automl", "cb_adf", "extra_metrics"},
   {"automl", "cb_explore_adf"}, {"automl", "cb_explore_adf", "extra_metrics"}, {"automl", "ccb_explore_adf"},
   {"automl", "ccb_explore_adf", "extra_metrics"}, {"bag", "cb_explore"}, {"bag", "cb_explore_adf"},
   {"bag", "cbify"}, {"baseline"}, {"baseline", "cb_explore_adf"},
   {"baseline", "cs_active"}, {"bfgs", "passes"}, {"binary"},
   {"binary", "bootstrap"}, {"boosting"}, {"bootstrap"},
   {"bootstrap", "oaa"}, {"cats", "coin", "min_value", "max_value"}, {"cats_pdf", "coin", "min_value", "max_value"},
   {"cats_tree", "cb_discrete", "cbify", "cbify_reg", "coin", "min_value", "max_value"}, {"cb"}, {"cb", "cb_type_dm"},
   {"cb", "cb_type_dr"}, {"cb", "cb_type_ips"}, {"cb", "extra_metrics"},
   {"cb", "eval", "cb_type_dr"}, {"cb_adf"}, {"cb_adf", "cb_type_dr"},
   {"cb_adf", "cb_type_ips"}, {"cb_adf", "cb_type_dm"}, {"cb_adf", "cb_dro", "cb_type_sm"},
   {"cb_discrete", "cbify", "cbify_reg", "coin", "min_value", "max_value"}, {"cb_dro", "cb_explore_adf"}, {"cb_explore"},
   {"cb_explore", "cover"}, {"cb_explore_adf"}, {"cb_explore_adf", "cb_sample"},
   {"cb_explore_adf", "cover", "cb_type_dr"}, {"cb_explore_adf", "cover", "cb_type_ips"}, {"cb_explore_adf", "cover"},
   {"cb_explore_adf", "large_action_space"}, {"cb_explore_adf", "large_action_space", "cb_type_ips"}, {"cb_explore_adf", "large_action_space", "squarecb"},
   {"cb_explore_adf", "large_action_space", "extra_metrics"}, {"cbify", "cb_explore_adf", "regcb"}, {"cbify", "cb_explore_adf", "regcbopt"},
   {"cbify", "cb_explore_adf", "squarecb"}, {"cbify", "cb_explore_adf", "cbify_cs"}, {"cb_explore_adf", "warm_cb", "cb_type_mtr"},
   {"cb_explore_adf", "coin"}, {"coin", "cb_explore_adf", "experimental_igl"}, {"coin", "cb_explore_adf", "explore_eval"},
   {"coin", "cb_explore_adf", "explore_eval", "large_action_space"}, {"coin", "cb_explore_adf", "explore_eval", "squarecb"}, {"cb_explore_adf", "epsilon_decay"},
   {"cb_explore_adf", "epsilon_decay", "explore_eval"}, {"cb_explore_adf", "extra_metrics"}, {"cb_explore_adf", "first"},
   {"cb_explore_adf", "regcb"}, {"cb_explore_adf", "rnd"}, {"cb_explore_adf", "softmax"},
   {"cb_explore_adf", "squarecb"}, {"cb_explore_adf", "synthcover"}, {"ccb_explore_adf"},
   {"ccb_explore_adf", "cb_type_ips"}, {"ccb_explore_adf", "extra_metrics"}, {"ccb_explore_adf", "no_predict"},
   {"cbify_ldf", "regcb"}, {"cbify_ldf", "squarecb"}, {"cbify"},
   {"cbify", "cbify_cs"}, {"cbify", "cbify_reg", "min_value", "max_value"}, {"cbify", "cbify_reg", "coin", "min_value", "max_value"},
   {"cbify", "cover"}, {"cbify", "first"}, {"cbzo"},
   {"classweight"}, {"classweight", "oaa"}, {"classweight", "recall_tree"},
   {"coin"}, {"confidence"}, {"conjugate_gradient", "passes"},
   {"cs_active"}, {"csoaa"}, {"csoaa", "csoaa_rank"},
   {"csoaa", "replay_c"}, {"csoaa_ldf"}, {"csoaa_ldf", "csoaa_rank"},
   {"csoaa_ldf", "probabilities"}, {"csoaa_ldf", "link"}, {"csoaa_ldf", "search"},
   {"ect"}, {"emt"}, {"epsilon_decay", "explore_eval"},
   {"explore_eval"}, {"lda"}, {"lda", "extra_metrics"},
   {"ftrl"}, {"ftrl", "nn", "search"}, {"interact"},
   {"ksvm"}, {"link"}, {"link", "lrqfa", "nn"},
   {"multilabel_oaa"}, {"multilabel_oaa", "probabilities"}, {"oaa"},
   {"oaa", "probabilities"}, {"oaa", "scores"}, {"log_multi"},
   {"lrq"}, {"lrqfa"}, {"marginal"},
   {"memory_tree"}, {"memory_tree", "oas"}, {"multiworld_test"},
   {"multiworld_test", "learn"}, {"nn"}, {"noop"},
   {"ot"}, {"pistol"}, {"plt", "loss_logistic"},
   {"print"}, {"rank"}, {"recall_tree"},
   {"replay_b"}, {"search"}, {"slates"},
   {"stage_poly"}, {"svrg"}, {"top"},
   {"wap_ldf"}}
SomeLines == RunInTests \cup {l \cup {x} : l \in RunInTests, x \in {"automl", "baseline", "extra_metrics", "cb", "cb_explore_adf"}}

(* Two files that are read in pieces of every size, objects that begin in  *)
(* one read and end in the next, and one stream that is written.           *)
StreamInputs ==
  {[mode |-> m, files |-> f] : m \in {"text", "cache"},
     f \in {<<<<1, 0, 1, 1, 1>>, <<1, 0, 0, 1>>>>, <<<<>>, <<1, 1, 1, 1, 1, 0>>>>}}
  \union {[mode |-> "flatbuffer", files |-> f] :
     f \in {<<<<1, 9, 3, 9, 9, 9, 2, 9, 9>>>>, <<<<2, 9, 9>>, <<4, 9, 9, 9, 9, 1, 9>>>>}}
  \union {[mode |-> "write", files |-> <<<<1, 2, 3, 4, 5, 6>>>>]}

FbObject(kind, items) == [kind |-> kind, items |-> items]
SomeObjects ==
  {FbObject("example", <<"good">>), FbObject("example", <<"bad">>),
   FbObject("multi", <<"good", "good">>), FbObject("multi", <<>>), FbObject("multi", <<"good", "bad">>),
   FbObject("collection", <<"good", "good">>), FbObject("collection", <<"good", "bad", "good">>),
   FbObject("multis", <<<<"good">>, <<"good", "good">>>>),
   FbObject("multis", <<<<"good">>, <<"good", "bad">>>>)}

(* A scalar, a boolean, a vector, and an option the user may override.     *)
Long(name, eq) == [kind |-> "long", name |-> name, eq |-> eq]
SomeTokens ==
  {Long("s", ""), Long("s", "x"), Long("b", ""), Long("v", ""), Long("o", ""), Long("z", ""),
   [kind |-> "short", name |-> "s", eq |-> "y"], Word("x"), Word("y"), [kind |-> "term", name |-> "--"]}
TypeOf == [s |-> "SCALAR", b |-> "BOOLEAN", v |-> "VECTOR", o |-> "SCALAR"]
AddedIn == [v |-> 1, s |-> 2, b |-> 3, o |-> 2]

(* Label texts of every kind, good and bad; lines with a namespace that    *)
(* comes twice, that is ignored or empty, and unnamed features; files of   *)
(* CSV with and without headers.                                           *)
SomeLabelTexts ==
  [simple |-> {<<<<1>>>>, <<<<1>>, <<2>>>>, <<<<2>>, <<0>>, <<3>>>>},
   multiclass |-> {<<<<1>>>>, <<<<2>>, <<-1>>>>, <<<<1>>, <<2>>, <<3>>>>},
   multilabel |-> {<<<<1, 2>>>>, <<<<2>>>>, <<<<1>>, <<2>>>>},
   cs |-> {<<<<SHARED_TYPE>>>>, <<<<LABEL_WORD, 1>>>>, <<<<1, 0>>, <<2>>>>, <<<<1, 1>>, <<2, NaN>>>>, <<<<SHARED_TYPE, 1>>>>},
   cb |-> {<<<<SHARED_TYPE>>>>, <<<<1, 2, 1>>>>, <<<<1, 2, 3>>, <<2>>>>, <<<<SHARED_TYPE>>, <<GRAPH_FEEDBACK_TYPE>>, <<0, 1, 1>>>>,
           <<<<1, 1, 1>>, <<GRAPH_FEEDBACK_TYPE>>>>},
   cb_eval |-> {<<<<1>>, <<1, 2, 1>>>>, <<<<2>>>>, <<<<2>>, <<1, 2, 1>>, <<2, NaN>>>>},
   ccb |-> {<<<<CCB_LABEL>>, <<SHARED_TYPE>>>>, <<<<CCB_LABEL>>, <<SLOT_TYPE>>, <<1, 2, 1>>, <<1>>>>,
            <<<<CCB_LABEL>>, <<SLOT_TYPE>>>>, <<<<CCB_LABEL>>, <<SLOT_TYPE>>, <<0, 2, 1, 1, 1>>>>, <<<<CCB_LABEL>>, <<ACTION_TYPE>>, <<1>>>>},
   slates |-> {<<<<SLATES_LABEL>>, <<SHARED_TYPE>>, <<2>>>>, <<<<SLATES_LABEL>>, <<SHARED_TYPE>>>>, <<<<SLATES_LABEL>>, <<ACTION_TYPE>>, <<1>>>>,
               <<<<SLATES_LABEL>>, <<SLOT_TYPE>>, <<0, 1>>>>, <<<<SLATES_LABEL>>, <<SLOT_TYPE>>, <<0, 1, 1, 1>>>>},
   continuous |-> {<<<<CA_LABEL>>, <<1, 2, 1>>, <<PDF>>, <<0, 1, 1>>, <<CHOSEN_ACTION>>, <<2>>>>, <<<<CA_LABEL>>, <<2>>>>,
                   <<<<CA_LABEL>>, <<PDF>>, <<0, 1, 1>>, <<1, 2, 1>>>>, <<<<1>>>>}]
Sp(n, k, feats) == [name |-> <<n, k>>, scale |-> 1, feats |-> feats]
F(n, v) == [name |-> n, str |-> FALSE, v |-> v]
SomeRests ==
  {[tag |-> << >>, spaces |-> << >>],
   [tag |-> <<"t">>, spaces |->
     <<Sp("a", 1, <<F("x", 0)>>), Sp(" ", 0, <<F("", 0), F("", 1)>>), Sp("b", 1, << >>),
       Sp("c", 1, <<[name |-> "x", str |-> TRUE, v |-> 1]>>), Sp("a", 2, <<F("y", 1)>>), Sp("a", 1, <<F("x", 1)>>)>>]}
Col(w, n, k, f) == [what |-> w, name |-> <<n, k>>, feat |-> f]
H1 == <<Col("label", " ", 0, ""), Col("feature", "a", 1, "x"), Col("feature", "a", 2, "")>>
H2 == <<Col("feature", "b", 1, "x"), Col("tag", " ", 0, ""), Col("feature", " ", 0, "y")>>
Num(v) == <<[str |-> FALSE, v |-> v]>>
Str == <<[str |-> TRUE, v |-> 1]>>
Head_(h) == [columns |-> h, cells |-> << >>]
Data(c) == [columns |-> << >>, cells |-> c]
File1 == <<Head_(H1), Data(<< <<<<1>>>>, Num(1), Num(0)>>), Data(<< << >>, << >>, Str>>)>>
File2 == <<Head_(H2), Data(<<Num(1), <<"t">>, << >>>>), Data(<< << >>, << >>, << >>>>), Data(<<Num(1), Num(1)>>)>>
Csv(given, none, files) == [given |-> given, no_file_header |-> none, files |-> files]
SomeCsvInputs ==
  {Csv(<< >>, FALSE, <<File1, File2>>), Csv(<< >>, FALSE, <<File2, <<Head_(H1)>>>>),
   Csv(H1, TRUE, <<Tail(File1), Tail(File1)>>), Csv(H1, FALSE, <<File1, File1>>)}
SomeRedefine == [i \in {"a", "b", "c"} |-> IF i = "c" THEN "b" ELSE i]

SavedValues == [k \in Kinds |-> IF k \in {"fixed", "override", "inter"} THEN {1, 2} ELSE {1}]

-----------------------------------------------------------------------------
(* See Respawns: the parent of the daemon keeps its children running.      *)
DaemonRespawns == part = "daemon" => Respawns

(* The parent of the daemon signals its own children, and nobody else but  *)
(* for the pid that wait has just returned or after a fork that failed,    *)
(* and it keeps every slot served as long as forks succeed and nobody ends *)
(* it.                                                                     *)
DaemonServes ==
  /\ SignalsOwn
  /\ DaemonRespawns

(* What a reader makes of a line is what the line says, whatever was read  *)
(* before into the same object: io_buf hands on the bytes of the files in  *)
(* order and in whole chunks, wherever reads end and however often the     *)
(* buffer is shifted, grown or flushed; the state machine of the JSON      *)
(* reader gives every feature and label part to the example it was written *)
(* for, the flatbuffer parser delivers the examples of its objects in      *)
(* order over any mixture of calls, the text and CSV parsers and the       *)
(* cached labels leave nothing of an earlier example, and the groups of    *)
(* features they fill know the namespace of every feature.                 *)
InputRead ==
  /\ StreamRead
  /\ WholeChunks
  /\ AlwaysAligned
  /\ StreamWritten
  /\ FeaturesPlaced
  /\ LabelsPlaced
  /\ LineRead
  /\ FileInOrder
  /\ SpanWhole
  /\ NothingStale
  /\ LineAlone
  /\ CachedAsParsed
  /\ IndicesExact
  /\ CsvLineAlone
  /\ ExtentsRight
  /\ ExtentsApart
  /\ FitsBuffer
=============================================================================

----------------------------- MODULE ModelFile -----------------------------
(***************************************************************************)
(* The life of a model file over several runs of the program: a run may     *)
(* load it with -i, which merges the options of its header with the command *)
(* line, trains, and saves through name.writing, remove and rename; the     *)
(* process may end at any point of the save. Options are modelled by one of *)
(* each kind that the header treats in its own way.                         *)
(***************************************************************************)
EXTENDS Integers, Sequences, SequencesExt, FiniteSets

CONSTANTS
    KindValues,     \* [option kind -> the values it can be given]
    Seeds,          \* the states of the random number generator; 0 is the state of a run without a seed
    MaxRuns, MaxCrashes

(* fixed: kept, one value; override: kept, allow_override; many: kept, a     *)
(* list; inter: quadratic, cubic or interactions; ignore: ignore,            *)
(* ignore_linear or keep; local: not kept; bits: bit_precision; seed:        *)
(* random_seed.                                                              *)
Scalars == {"fixed", "override", "local", "bits", "seed"}
Lists == {"many", "inter", "ignore"}
Kinds == Scalars \cup Lists
NotKept == {"local"}
DefaultBits == 18

ASSUME KindsAssumption == KindValues \in [Kinds -> SUBSET Nat] /\ Seeds \subseteq Nat

Absent == [what |-> "absent"]
Torn == [what |-> "torn"]

VARIABLES
    modelName,      \* the file called reg_name: Absent, Torn or a model
    modelWriting,   \* the file called reg_name.writing
    modelProc,           \* the running process: [at, opts, prg, user, from], or [at |-> "none"]
    runCount, crashCount,
    everSaved       \* a save has completed (history)

modelVars == <<modelName, modelWriting, modelProc, runCount, crashCount, everSaved>>
NoProc == [at |-> "none"]
Whole(f) == f.what = "model"

-----------------------------------------------------------------------------
(* save_load_header, writing *)

\* What the options of a run come to: the first value of a scalar, all values of a list.
InEffect(opts) == [k \in Kinds |-> IF k \in Scalars /\ opts[k] # <<>> THEN <<opts[k][1]>> ELSE opts[k]]

\* ignore, ignore_linear and keep are merged without repetition, as the std::set of namespaces is.
MergedValues(vs) ==
    LET values == ToSet(vs)
        places == 1 .. Cardinality(values)
    IN  CHOOSE s \in [places -> values] : \A i, j \in places : i < j => s[i] < s[j]

\* The options line: kept options that were supplied, by the command line or by the model that was
\* loaded; the state of the random number generator unless it is 0; the bits are always written.
HeaderOf_Slip(p) ==     \* a slip: only what this run's command line gave is written
    [k \in Kinds |-> CASE k \in NotKept -> <<>>
                       [] k = "bits" -> IF p.opts[k] = <<>> THEN <<DefaultBits>> ELSE <<p.opts[k][1]>>
                       [] k = "seed" -> IF p.prg = 0 THEN <<>> ELSE <<p.prg>>
                       [] k = "ignore" -> MergedValues(p.user[k])
                       [] OTHER -> p.user[k]]
HeaderOf(p) ==
    [k \in Kinds |-> CASE k \in NotKept -> <<>>
                       [] k = "bits" -> IF p.opts[k] = <<>> THEN <<DefaultBits>> ELSE <<p.opts[k][1]>>
                       [] k = "seed" -> IF p.prg = 0 THEN <<>> ELSE <<p.prg>>
                       [] k = "ignore" -> MergedValues(p.opts[k])
                       [] OTHER -> InEffect(p.opts)[k]]

ModelOf(p) == [what |-> "model", header |-> HeaderOf(p), trainedWith |-> InEffect(p.opts), prg |-> p.prg]

-----------------------------------------------------------------------------
(* save_load_header, reading; load_header_merge_options *)

\* check_interaction_settings_collision: the interactions of the command line replace those of the model.
Merged_Slip(user, header) == [k \in Kinds |-> user[k] \o header[k]]
Merged(user, header) ==
    [k \in Kinds |-> IF k = "inter" /\ user[k] # <<>> THEN user[k] ELSE user[k] \o header[k]]

\* Only an option that may be overridden tolerates two values (validate_default_bits and
\* check_disagreeing_option_values).
Disagree(opts) ==
    \E k \in Scalars \ {"override"} : \E i \in DOMAIN opts[k] : opts[k][i] # opts[k][1]

-----------------------------------------------------------------------------
\* A command line gives at most one of the options.
CommandLines ==
    LET none == [k \in Kinds |-> <<>>]
    IN  {none} \cup UNION { { [none EXCEPT ![k] = <<v>>] : v \in KindValues[k] } : k \in Kinds }

ModelInit ==
    /\ modelName = Absent /\ modelWriting = Absent
    /\ modelProc = NoProc
    /\ runCount = 0 /\ crashCount = 0
    /\ everSaved = FALSE

Started(user, opts, from) ==
    modelProc' = IF Disagree(opts) THEN NoProc
            ELSE [at |-> "loaded", opts |-> opts, user |-> user, from |-> from,
                  prg |-> IF opts["seed"] = <<>> THEN 0 ELSE opts["seed"][1]]

\* A run without -i, or with it: read_regressor_file fails where there is no whole model.
StartFresh ==
    /\ modelProc = NoProc /\ runCount < MaxRuns
    /\ \E user \in CommandLines : Started(user, user, Absent)
    /\ runCount' = runCount + 1
    /\ UNCHANGED <<modelName, modelWriting, crashCount, everSaved>>
StartLoading ==
    /\ modelProc = NoProc /\ runCount < MaxRuns /\ Whole(modelName)
    /\ \E user \in CommandLines : Started(user, Merged(user, modelName.header), modelName)
    /\ runCount' = runCount + 1
    /\ UNCHANGED <<modelName, modelWriting, crashCount, everSaved>>

\* Learning draws random numbers.
Train ==
    /\ modelProc.at = "loaded"
    /\ \E drawn \in Seeds : modelProc.prg <= drawn /\ modelProc' = [modelProc EXCEPT !.at = "trained", !.prg = drawn]
    /\ UNCHANGED <<modelName, modelWriting, runCount, crashCount, everSaved>>

\* dump_regressor: open name.writing (which truncates it), write, remove name, rename.
OpenWriting ==
    /\ modelProc.at = "trained"
    /\ modelWriting' = Torn
    /\ modelProc' = [modelProc EXCEPT !.at = "opened"]
    /\ UNCHANGED <<modelName, runCount, crashCount, everSaved>>
WriteModel ==
    /\ modelProc.at = "opened"
    /\ modelWriting' = ModelOf(modelProc)
    /\ modelProc' = [modelProc EXCEPT !.at = "written"]
    /\ UNCHANGED <<modelName, runCount, crashCount, everSaved>>
RemovesAt_Slip == "opened"      \* a slip: the old model goes before the new one is written
RemovesAt == "written"
RemoveOldModel ==
    /\ modelProc.at = RemovesAt
    /\ modelName' = Absent
    /\ modelProc' = [modelProc EXCEPT !.at = "removed"]
    /\ UNCHANGED <<modelWriting, runCount, crashCount, everSaved>>
RenameNewModel ==
    /\ modelProc.at = "removed"
    /\ modelName' = modelWriting /\ modelWriting' = Absent
    /\ modelProc' = NoProc
    /\ everSaved' = TRUE
    /\ UNCHANGED <<runCount, crashCount>>

\* The process ends, at any point.
CrashRun ==
    /\ modelProc # NoProc /\ crashCount < MaxCrashes
    /\ modelProc' = NoProc
    /\ crashCount' = crashCount + 1
    /\ UNCHANGED <<modelName, modelWriting, runCount, everSaved>>

ModelNext == StartFresh \/ StartLoading \/ Train \/ OpenWriting \/ WriteModel \/ RemoveOldModel \/ RenameNewModel \/ CrashRun
ModelSpec == ModelInit /\ [][ModelNext]_modelVars

-----------------------------------------------------------------------------
(* Properties *)

\* From the first completed save on, and while no process has ended in the middle of one, a whole model is
\* on the disk; and the file of that name is never a partial one, whatever ends when.
ModelOnDisk ==
    /\ modelName # Torn
    /\ everSaved /\ crashCount = 0 => Whole(modelName) \/ Whole(modelWriting)

\* A run that loads a model has in effect every kept option that the run that saved it had, also those that
\* came to that run from an earlier model, except where its own command line replaces or adds to them; and
\* it goes on from the state of the random number generator.
LoadedAsSaved ==
    modelProc.at = "loaded" /\ Whole(modelProc.from) =>
        /\ modelProc.user["seed"] = <<>> => modelProc.prg = modelProc.from.prg
        /\ \A k \in Kinds \ (NotKept \cup {"seed"}) :
              LET now == InEffect(modelProc.opts)[k]
                saved == modelProc.from.trainedWith[k]
                given == modelProc.user[k] # <<>>
            IN  CASE k = "bits" -> saved = <<>> \/ now = saved
                  [] k = "ignore" /\ ~given -> ToSet(now) = ToSet(saved)
                  [] k \notin {"bits", "ignore"} /\ ~given -> now = saved
                  [] k \in {"override", "inter"} /\ given -> now = modelProc.user[k]
                  [] OTHER -> ToSet(now) = ToSet(modelProc.user[k]) \cup ToSet(saved)

(* Over any chain of runs the file under the model's name is never a       *)
(* partial one, a whole model is on disk from the first save until one is  *)
(* interrupted, and a run that loads a model trains with the options it    *)
(* was saved with (save_load_header, dump_regressor), but for those its    *)
(* own command line replaces.                                              *)
ModelFaithful ==
  /\ ModelOnDisk
  /\ LoadedAsSaved
=============================================================================

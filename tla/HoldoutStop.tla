----------------------------- MODULE HoldoutStop -----------------------------
(***************************************************************************)
(* Multi-pass training with a holdout set, seen from the main thread: the  *)
(* end_pass of gd (ftrl, freegrad and gd_mf repeat it), the summary of the *)
(* holdout loss, the early stop, and the files the model is saved to.      *)
(*                                                                         *)
(* The weights are known by the pass that produced them.  A loss is a      *)
(* number; what FLT_MAX is not below (FLT_MAX itself, infinity, NaN) is    *)
(* any number >= FltMax, since all the code does is compare with `<'.      *)
(* dump_regressor writes name.writing, removes name and renames: each of   *)
(* its system calls is a step, and the process may be killed between any   *)
(* two of them.                                                            *)
(***************************************************************************)
EXTENDS Integers, Sequences, FiniteSets

CONSTANTS
  AllPasses,     \* --passes
  Losses,        \* the average holdout losses a pass may have
  FltMax,        \* FLT_MAX
  EarlyStop,     \* --early_terminate: early_stop_thres
  CheckEvery,    \* check_holdout_every_n_passes
  SavePerPass,   \* --save_per_pass
  Faults         \* "io": writing may throw; "kill": the process may be killed

ASSUME PassesAssumption == AllPasses \in Nat \ {0}
ASSUME LossesAssumption == FltMax \in Nat /\ Losses \subseteq Nat
ASSUME StopAssumption == EarlyStop \in Nat /\ CheckEvery \in Nat
ASSUME SaveAssumption == SavePerPass \in BOOLEAN /\ Faults \subseteq {"io", "kill"}

Model == 0                        \* the final regressor's name
ModelNames == Model .. AllPasses       \* name p: the file that pass p is saved to

NoModel == 0
Partial == -1
Contents == {NoModel, Partial} \union 1 .. AllPasses

VARIABLES
  pc,               \* where the main thread is
  current_pass,
  trained,          \* the pass whose weights are in memory
  losses,           \* the holdout losses of the passes so far
  holdout_best_loss, holdout_best_pass, no_win_counter,
  early_terminate,
  held,             \* held[n]: which pass's model file n holds
  writing,          \* writing[n]: the same for n.writing
  target,           \* the name dump_regressor was called with
  ret               \* where to go on after it

holdoutVars == <<losses, holdout_best_loss, holdout_best_pass, no_win_counter>>
fileVars == <<held, writing>>
vars == <<pc, current_pass, trained, holdoutVars, early_terminate, fileVars, target, ret>>

Init ==
  /\ pc = "learn" /\ current_pass = 0 /\ trained = 0
  /\ losses = <<>>
  /\ holdout_best_loss = FltMax /\ holdout_best_pass = 0 /\ no_win_counter = 0
  /\ early_terminate = FALSE
  /\ held = [n \in ModelNames |-> NoModel] /\ writing = [n \in ModelNames |-> NoModel]
  /\ target = Model /\ ret = "learn"

-----------------------------------------------------------------------------
(* dump_regressor *)

Dump(name, step) == pc' = "open" /\ target' = name /\ ret' = step

(* Opening n.writing empties it and leaves n alone.  A definition whose    *)
(* name ends in _Slip is a plausible error in the next one and not used.   *)
FileAtOpen_Slip == [held EXCEPT ![target] = NoModel]
FileAtOpen == held

Open ==
  /\ pc = "open"
  /\ writing' = [writing EXCEPT ![target] = Partial]
  /\ held' = FileAtOpen /\ pc' = "write"
  /\ UNCHANGED <<current_pass, trained, holdoutVars, early_terminate, target, ret>>

Write ==
  /\ pc = "write"
  /\ writing' = [writing EXCEPT ![target] = trained] /\ pc' = "remove"
  /\ UNCHANGED <<current_pass, trained, holdoutVars, early_terminate, held, target, ret>>

(* remove; the complete copy is still in n.writing.                        *)
Removed_Slip == [held EXCEPT ![target] = Partial]
Removed == [held EXCEPT ![target] = NoModel]

RemoveName ==
  /\ pc = "remove"
  /\ held' = Removed /\ pc' = "rename"
  /\ UNCHANGED <<current_pass, trained, holdoutVars, early_terminate, writing, target, ret>>

Rename ==
  /\ pc = "rename"
  /\ held' = [held EXCEPT ![target] = writing[target]]
  /\ writing' = [writing EXCEPT ![target] = NoModel]
  /\ pc' = ret
  /\ UNCHANGED <<current_pass, trained, holdoutVars, early_terminate, target, ret>>

(* Opening, writing or renaming throws: vw gives up.                       *)
DumpThrows ==
  /\ "io" \in Faults /\ pc \in {"open", "write", "rename"}
  /\ pc' = "aborted"
  /\ UNCHANGED <<current_pass, trained, holdoutVars, early_terminate, fileVars, target, ret>>

(* finalize_regressor saves the model unless training was stopped early.   *)
MaySave_Slip == TRUE
MaySave == ~early_terminate

Finalize(step) ==
  IF MaySave THEN Dump(Model, step) ELSE pc' = step /\ UNCHANGED <<target, ret>>

-----------------------------------------------------------------------------
(* A pass over the data, up to gd's end_pass and the save of each pass.    *)
MorePasses_Slip == current_pass <= AllPasses
MorePasses == current_pass < AllPasses

LearnPass ==
  /\ pc = "learn" /\ MorePasses /\ ~early_terminate
  /\ \E loss \in Losses : losses' = Append(losses, loss)
  /\ current_pass' = current_pass + 1 /\ trained' = current_pass + 1
  /\ IF SavePerPass THEN Dump(current_pass + 1, "summarize")
                    ELSE pc' = "summarize" /\ UNCHANGED <<target, ret>>
  /\ UNCHANGED <<holdout_best_loss, holdout_best_pass, no_win_counter, early_terminate,
                 fileVars>>

(* summarize_holdout_set, and saving the model after an improvement.       *)
Improved_Slip == losses[current_pass] <= holdout_best_loss
Improved == losses[current_pass] < holdout_best_loss

NoWinAfterWin_Slip == no_win_counter
NoWinAfterWin == 0

Win ==
  /\ pc = "summarize" /\ Improved
  /\ holdout_best_loss' = losses[current_pass]
  /\ holdout_best_pass' = current_pass
  /\ no_win_counter' = NoWinAfterWin
  /\ Finalize("check_stop")
  /\ UNCHANGED <<current_pass, trained, losses, early_terminate, fileVars>>

NoWin ==
  /\ pc = "summarize" /\ ~Improved
  /\ no_win_counter' = no_win_counter + 1 /\ pc' = "check_stop"
  /\ UNCHANGED <<current_pass, trained, losses, holdout_best_loss, holdout_best_pass,
                 early_terminate, fileVars, target, ret>>

(* The last part of end_pass: set_done.                                    *)
Stops ==
  /\ EarlyStop = no_win_counter
  /\ CheckEvery <= 1 \/ current_pass % CheckEvery = 0

CheckStop ==
  /\ pc = "check_stop"
  /\ early_terminate' = Stops /\ pc' = "learn"
  /\ UNCHANGED <<current_pass, trained, holdoutVars, fileVars, target, ret>>

(* generic_driver is over: workspace::finish.                              *)
FinishDriver ==
  /\ pc = "learn" /\ (~MorePasses \/ early_terminate)
  /\ Finalize("exit")
  /\ UNCHANGED <<current_pass, trained, holdoutVars, early_terminate, fileVars>>

Kill ==
  /\ "kill" \in Faults /\ pc \notin {"exit", "aborted", "killed"}
  /\ pc' = "killed"
  /\ UNCHANGED <<current_pass, trained, holdoutVars, early_terminate, fileVars, target, ret>>

Next ==
  \/ Open \/ Write \/ RemoveName \/ Rename \/ DumpThrows
  \/ LearnPass \/ Win \/ NoWin \/ CheckStop \/ FinishDriver \/ Kill

Spec == Init /\ [][Next]_vars

-----------------------------------------------------------------------------
(* Types of all variables.                                                 *)
TypeOK ==
  /\ pc \in {"learn", "summarize", "check_stop", "open", "write", "remove", "rename",
             "exit", "aborted", "killed"}
  /\ ret \in {"learn", "summarize", "check_stop", "exit"}
  /\ current_pass \in 0 .. AllPasses /\ trained \in 0 .. AllPasses
  /\ losses \in Seq(Losses) /\ Len(losses) = current_pass
  /\ holdout_best_loss \in Nat /\ holdout_best_pass \in 0 .. AllPasses
  /\ no_win_counter \in Nat /\ early_terminate \in BOOLEAN
  /\ held \in [ModelNames -> Contents] /\ writing \in [ModelNames -> Contents] /\ target \in ModelNames

(* No reader ever finds half a model under a final name: what a killed or  *)
(* failed vw leaves behind is a whole model or none.                       *)
NeverTorn == \A n \in ModelNames : held[n] # Partial

(* Once a model has been saved there is a whole model on disk at any       *)
(* moment, under its name or next to it.                                   *)
OnDisk == held[Model] > 0 \/ writing[Model] > 0
ModelSurvives == [](held[Model] > 0 => []OnDisk)

(* The best pass is the first one with the smallest loss; a loss that is   *)
(* not below FLT_MAX never is the best.                                    *)
BestIsBest ==
  pc \in {"learn", "check_stop", "exit"} =>
    /\ \A p \in 1 .. current_pass : holdout_best_loss <= losses[p]
    /\ IF holdout_best_pass = 0
       THEN holdout_best_loss = FltMax
       ELSE /\ losses[holdout_best_pass] = holdout_best_loss
            /\ \A p \in 1 .. holdout_best_pass - 1 : losses[p] > holdout_best_loss

(* What is saved when training stops early is the model of the best pass,  *)
(* not the weights the later passes have made of it; until then it is the  *)
(* best one so far.                                                        *)
BestModelKept ==
  /\ pc \in {"learn", "check_stop"} => held[Model] = holdout_best_pass
  /\ pc = "exit" /\ early_terminate => held[Model] = holdout_best_pass

(* --early_terminate, "the number of passes tolerated when holdout loss    *)
(* doesn't decrease before early termination": training goes on only while *)
(* fewer passes than that have gone by since the best one, and it is not   *)
(* stopped before.                                                         *)
StopsInTime ==
  pc \in {"learn", "exit"} =>
    IF early_terminate THEN current_pass - holdout_best_pass = EarlyStop
                       ELSE current_pass - holdout_best_pass < EarlyStop

(* The same when the counter is looked at every CheckEvery passes only:    *)
(* training that goes through all its passes has never gone on for a whole *)
(* period after the tolerated passes.                                      *)
StopsAtACheck ==
  pc = "exit" /\ ~early_terminate =>
    current_pass - holdout_best_pass < EarlyStop + CheckEvery
=============================================================================

------------------------------ MODULE MCBandits ------------------------------
(* Contextual bandits.  The components share no variables; a behaviour     *)
(* drives the one that `part` names, and the others stay in a fixed        *)
(* initial state.                                                          *)
EXTENDS CbExplore, CbAdf, CbSimulation, ContinuousActions

VARIABLE part

banditVars == <<part, xVars, aVars, mVars, cVars>>

Parts == {"explore", "logged", "simulation", "continuous"}

(* The reduction on top, the number of actions, the bandwidth in halves of *)
(* a unit, the least value, epsilon, --first_only, and what the learners   *)
(* below may answer.                                                       *)
Continuous(top, n, b, min, eps, first, answers) ==
  [top |-> top, actions |-> n, bandwidth |-> b, min |-> min, epsilon |-> eps, first_only |-> first, answers |-> answers]
Half == One \div 2
SomeSetups ==
  {Continuous("cats", 4, b, m, e, FALSE, {-1, 0, 1}) : b \in 1 .. 4, m \in {0, 3}, e \in {0, Half}}
  \cup {Continuous("cats", 8, b, 0, 0, FALSE, {-1, 1}) : b \in {1, 2, 4}}
  \cup {Continuous("cats", 3, b, 2, Half, FALSE, {-1, 1}) : b \in {0, 1, 2}}
  \cup {Continuous("cats", 4, 2, -5, 0, FALSE, {-1, 1})}
  \cup {Continuous(t, 4, 2, 1, Half, TRUE, {-1, 1}) : t \in {"cats", "cats_pdf"}}
  \cup {Continuous("cats_pdf", 4, 1, 0, Half, FALSE, {-1, 1})}
  \cup {Continuous("offset_tree", n, 0, 0, 0, FALSE, {0, Half, One}) : n \in {1, 2, 3, 5}}

(* One value for the choices of a component that is not driven.            *)
Fixes(name, choice) == part # name => choice

BanditsInit ==
  /\ part \in Parts
  /\ XInit /\ Fixes("explore", xred = "greedy" /\ xmem.counter = 0)
  /\ AInit /\ Fixes("logged", atype = "dm")
  /\ MInit /\ Fixes("simulation", mred = "igl")
  /\ CInit /\ Fixes("continuous", cset = Continuous("cats_pdf", 4, 1, 0, Half, FALSE, {-1, 1}))

Rests(name, vars) == IF part = name THEN TRUE ELSE UNCHANGED vars

BanditsNext ==
  /\ UNCHANGED part
  /\ Rests("explore", xVars) /\ Rests("logged", aVars) /\ Rests("simulation", mVars)
  /\ Rests("continuous", cVars)
  /\ \/ part = "explore" /\ XNext
     \/ part = "logged" /\ ANext
     \/ part = "simulation" /\ MNext
     \/ part = "continuous" /\ CNext

BanditsSpec == BanditsInit /\ [][BanditsNext]_banditVars

(* The reductions that turn one kind of feedback into another teach what   *)
(* was really observed: the learner below a simulated bandit sees the cost *)
(* of the action that was drawn and nothing else, estimators of several    *)
(* policies are compared on the same events, and a density over a range of *)
(* actions is whole, is drawn from where it has mass, and teaches every    *)
(* node of the tree below by the costs that fall on its sides.             *)
SimulationSound ==
  /\ FeedbackHonest /\ ExampleBack /\ SeedsOnce /\ CopiesApart /\ LossInUnit /\ CostMoved
  /\ MaskComplete /\ PoliciesCompared /\ EvaluationFair /\ PoliciesValued /\ SlotsLocal /\ LearnersApart
  /\ DensityWhole /\ DrawnInside /\ WindowHolds /\ TaughtByCost /\ TournamentsWon
=============================================================================

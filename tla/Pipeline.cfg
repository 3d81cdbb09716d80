\* All modes of vw with small inputs.
SPECIFICATION Spec
CONSTANT Scenarios <- AllScenarios
INVARIANTS SharedStateSafe LearnsInput
PROPERTIES StopsLearning PredictionsSent Termination
CHECK_DEADLOCK FALSE

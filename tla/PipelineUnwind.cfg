\* A learner that throws while the parser has more input than the queue holds.
SPECIFICATION Spec
CONSTANT Scenarios <- Unwind
PROPERTIES Termination
CHECK_DEADLOCK FALSE

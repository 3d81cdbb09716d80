\* A daemon client that closes its connection inside a group.
SPECIFICATION Spec
CONSTANT Scenarios <- OpenClient
PROPERTIES PredictionsSent
CHECK_DEADLOCK FALSE

\* Save commands of a multiline learner when the pool reuses objects.
SPECIFICATION Spec
CONSTANT Scenarios <- SaveReuse
INVARIANTS NoInFlightMultiEx
CHECK_DEADLOCK FALSE

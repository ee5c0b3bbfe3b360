SPECIFICATION Spec
INVARIANTS ExitStatusReflectsFailure
CHECK_DEADLOCK FALSE

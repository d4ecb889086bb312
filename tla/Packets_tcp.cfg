SPECIFICATION Spec
INVARIANTS
    PayloadAfterHeader
CHECK_DEADLOCK FALSE

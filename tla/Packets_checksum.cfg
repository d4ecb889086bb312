SPECIFICATION Spec
INVARIANTS
    ChecksumsVerify
CHECK_DEADLOCK FALSE

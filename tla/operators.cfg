SPECIFICATION Spec
CONSTANT
    Cases <- Usual
INVARIANTS
    RefsConsumedOnce
    DefinedIsSame
    ResultIsPredicted
CHECK_DEADLOCK FALSE

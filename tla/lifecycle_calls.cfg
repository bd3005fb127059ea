SPECIFICATION Spec
CONSTANTS
    f = f
    t1 = t1
    t2 = t2
    Code <- OneCode
    Thread <- OneThread
    Value <- ValueClass
    RecursionLimit = 2
    MaxThreshold = 1
    MaxExtraUsers = 1
INVARIANTS
    TypeOK
    SpecializedEntry
    ThresholdRespected
    StatusOwed
PROPERTIES
    FailedNeverEntered
    ImplementsTiers

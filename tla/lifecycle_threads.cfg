SPECIFICATION FairSpec
CONSTANTS
    f = f
    t1 = t1
    t2 = t2
    Code <- OneCode
    Thread <- TwoThreads
    Value <- TwoValues
    RecursionLimit = 1
    MaxThreshold = 1
    MaxExtraUsers = 1
PROPERTIES
    ImplementsTiers
    HotCodeIsCompiled
CHECK_DEADLOCK FALSE

SPECIFICATION LoopSpec
CONSTANTS
    Width = 8
    Operands <- SmallAndBig
    ShiftBound = 9
    Bound = 600
    Iterables <- Loops
    SIG_STOP_ITER = 7
INVARIANTS
    FitsIsExact
    WrappedIsCongruent
    LoopsArePythons
\* The last operator may have been applied.
CHECK_DEADLOCK FALSE

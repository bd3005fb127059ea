\* The functions of the library, one per opcode and some with loops and tries.
SPECIFICATION Spec
CONSTANTS
    Programs <- Functions
    MaxObjects = 16
    MaxBlocks = 5
INVARIANTS
    HeightsAgree
    OnlyLiveObjectsAreUsed
    ErrorsAreRaised
    ValuesKeepTheirPlace
    HandlersArePythons
    BlocksAreBalanced
    SuccessLeaksNothing
    FailureReleasesOperands
\* A call ends.
CHECK_DEADLOCK FALSE

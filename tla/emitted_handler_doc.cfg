SPECIFICATION Spec
CONSTANTS
    Programs <- Astray
    MaxObjects = 16
    MaxBlocks = 5
INVARIANT HandlersArePythons
CHECK_DEADLOCK FALSE

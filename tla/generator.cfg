SPECIFICATION Spec
CONSTANTS
    a = a
    b = b
    c = c
    d = d
    int = int
    pointer = pointer
    Label = {a, b}
    Owner = {c, d}
    Type = {int, pointer}
    Sizes = {62, 63}
    Operands <- Numbers
    IntHalf = 65536
    LongHalf = 262144
    MaxBranches = 3
    MaxSize = 140
    MaxLocals = 2
SYMMETRY Interchangeable
INVARIANTS
    CodeMeansWhatWasEmitted
    LocalsAreDistinct
\* The method may be as large as it gets.
CHECK_DEADLOCK FALSE

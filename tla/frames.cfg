SPECIFICATION Spec
CONSTANTS
    compiled = compiled
    other = other
    class = class
    Code = {compiled}
    Uncompiled = {other}
    Classes = {class}
    JitLimit = 3
    Limits = {2, 4}
    Headroom = 2
INVARIANTS
    TypeOK
    ThreadIsRestored
    TraceIsNotReentered
    PendingWhileFailing
    EventsAreBalanced
    RecursionRecovers
CHECK_DEADLOCK FALSE

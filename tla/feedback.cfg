SPECIFICATION Spec
CONSTANTS
    g1 = g1
    g2 = g2
    b = b
    T1 = T1
    T2 = T2
    Globals = {g1, g2}
    Builtins = {b}
    BuiltinsOf <- Builtin
    Value <- Values
    Owner = {T1, T2}
    AttrValue <- AttrValues
    Unbound = Unbound
    FirstTag <- Tag
    FreeTag = 3
    MaxTag = 4
    Bodies <- Functions
SYMMETRY Symmetric
INVARIANTS
    LoadsAreCurrent
    ResultsAgree
    GuardErrorsAreEarned
    ReadsAreGuarded

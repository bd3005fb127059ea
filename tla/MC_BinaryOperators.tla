------------------------ MODULE MC_BinaryOperators ------------------------
\* Operations on values of all modelled kinds for TLC.
EXTENDS BinaryOperators

Literal(kind) == [kind |-> kind, guard |-> FALSE, type |-> GetPyType(kind), const |-> "none"]
Literals == {Literal(kind) : kind \in Kind \ {"Any"}}

\* Guesses that are right, and guesses that are wrong.
Guess(kind, type) == [kind |-> kind, guard |-> TRUE, type |-> type, const |-> "none"]
Guesses == {Guess("Bool", "bool"), Guess("Bool", "int"), Guess("Integer", "int"),
            Guess("Integer", "object"), Guess("Float", "float"), Guess("Float", "int"),
            Guess("List", "list"), Guess("List", "object"),
            Guess("Set", "set"), Guess("Set", "frozenset")}

Unknowns == {[Guess("Any", type) EXCEPT !.guard = FALSE] : type \in {"int", "list", "object"}}

Constants == {[Literal("Integer") EXCEPT !.const = size] : size \in {"small", "large"}}

\* What the remainder of a bool really is.
Results == {[Literal("Bool") EXCEPT !.type = "int"]}

Lefts == Literals \cup Guesses \cup Unknowns \cup Results
Rights == Literals \cup Guesses \cup Unknowns \cup Constants

All == {[op |-> o, left |-> l, right |-> r, data |-> d] :
           o \in Operator, l \in Lefts, r \in Rights, d \in {"plain", "fails", "negative"}}

\* Values make a difference to some operators only.
Telling(c) ==
    CASE c.data = "fails"    -> c.op.name \in {"MODULO", "TRUE_DIVIDE"}
      [] c.data = "negative" -> c.op.name = "POWER"
      [] OTHER               -> TRUE

\* In place on an immutable set, with a set on the right.
FrozenInPlace(c) == c.op.inplace /\ c.left.type = "frozenset" /\ c.right.type = "set"

Usual == {c \in All : Telling(c) /\ ~FrozenInPlace(c)}
=============================================================================

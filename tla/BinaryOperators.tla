-------------------------- MODULE BinaryOperators --------------------------
(***************************************************************************)
(* Binary operators on boxed operands (binarycomp.cpp: emit_binary_object, *)
(* emit_known_binary_op and its variants; absvalue.cpp: the binary tables  *)
(* of the abstract values).                                                *)
(*                                                                         *)
(* Where the kinds of both operands are known the compiler picks the slot  *)
(* functions of their types and emits the calls itself, behind a guard     *)
(* when a kind is a guess; the tables say what kind the result has, and    *)
(* the next operator is compiled on that.  A run evaluates expressions:    *)
(* the result of an operator may be the left operand of the next one.      *)
(*                                                                         *)
(* Python's own rules and the slot functions of the built-in types are     *)
(* modelled as far as they decide which type comes out.                    *)
(***************************************************************************)
EXTENDS Naturals, FiniteSets

\* The operations that are evaluated: an operator, two operands and what the
\* values do (nothing special, fail, or leave the real integers).
CONSTANT Cases

Number == {"bool", "int", "float"}
AnySet == {"set", "frozenset"}
Sequence == {"str", "list", "tuple"}
Type == Number \cup AnySet \cup Sequence \cup {"complex", "dict", "object"}

Kind == {"Any", "Bool", "Integer", "BigInteger", "Float", "Complex", "String", "List", "Tuple",
         "Set", "FrozenSet", "Dict"}

Bits == {"AND", "OR", "XOR"}
Additive == {"ADD", "SUBTRACT"}
Name == Additive \cup Bits \cup {"MULTIPLY", "MODULO", "POWER", "TRUE_DIVIDE", "LSHIFT"}

Operator == [name: Name, inplace: BOOLEAN]

\* A guarded kind is a guess: profiled, or seen in an argument or a global.
Operand == [kind: Kind, guard: BOOLEAN, type: Type, const: {"none", "small", "large"}]

Case == [op: Operator, left: Operand, right: Operand, data: {"plain", "fails", "negative"}]

ASSUME CasesAssumption == Cases \subseteq Case

VARIABLES
    case,    \* the operation being evaluated
    pc,      \* the code that is next
    value,   \* the result on the stack: a type, "null", or what went wrong
    err,     \* the thread has an exception set
    refs     \* references to the left and the right operand still held

vars == <<case, pc, value, err, refs>>

op == case.op
left == case.left
right == case.right

-----------------------------------------------------------------------------
(* The tables of the abstract values *)

IntKind == {"Integer", "BigInteger"}
SeqKind == {"String", "List", "Tuple"}
SetKind == {"Set", "FrozenSet"}

Arithmetic == Name \ (Bits \cup {"LSHIFT"})
ComplexArithmetic == Arithmetic \ {"MODULO"}

\* A number on the left of something that is not an integer.
numberBinary(o, m) ==
    CASE m = "Float" /\ o.name \in Arithmetic -> "Float"
      [] m = "Complex" /\ o.name \in ComplexArithmetic -> "Complex"
      [] OTHER -> "Any"

\* An integer on the left of something that is not an integer.
indexBinary(o, m) ==
    IF o.name = "MULTIPLY" /\ m \in SeqKind THEN m ELSE numberBinary(o, m)

\* Mutant: a bit operation of a bool is a bool, whatever the other operand is.
boolBinary_Bits(o, m) ==
    IF m \notin IntKind \cup {"Bool"} THEN indexBinary(o, m)
    ELSE IF o.name = "TRUE_DIVIDE" THEN "Float"
    ELSE IF (o.name = "MODULO" /\ m # "Bool") \/ o.name \in Bits THEN "Bool"
    ELSE IF m = "BigInteger" THEN m
    ELSE "Integer"

boolBinary(o, m) ==
    IF m \notin IntKind \cup {"Bool"} THEN indexBinary(o, m)
    ELSE IF o.name = "TRUE_DIVIDE" THEN "Float"
    ELSE IF (o.name = "MODULO" /\ m # "Bool") \/ (o.name \in Bits /\ m = "Bool") THEN "Bool"
    ELSE IF m = "BigInteger" THEN m
    ELSE "Integer"

\* Products, powers and shifts of integers are big unless the right operand is a
\* small constant; without the IntegerUnboxingMultiply optimization.
integerBinary(o, m, const) ==
    LET grows == \/ o.name \in {"MULTIPLY", "POWER"}
                 \/ o.name = "LSHIFT" /\ ~o.inplace
    IN  IF m \notin IntKind \cup {"Bool"} THEN indexBinary(o, m)
        ELSE IF o.name = "TRUE_DIVIDE" THEN "Float"
        ELSE IF m = "BigInteger" \/ (m = "Integer" /\ grows /\ const # "small")
             THEN "BigInteger"
        ELSE "Integer"

bigIntegerBinary(o, m) ==
    IF m \notin IntKind \cup {"Bool"} THEN indexBinary(o, m)
    ELSE IF o.name = "TRUE_DIVIDE" THEN "Float"
    ELSE "BigInteger"

floatBinary(o, m) == numberBinary(o, IF m \in IntKind \cup {"Bool"} THEN "Float" ELSE m)

complexBinary(o, m) == numberBinary(o, IF m \in {"Integer", "Bool", "Float"} THEN "Complex" ELSE m)

sequenceBinary(o, k, m) ==
    IF \/ o.name = "MODULO" /\ k = "String"
       \/ o.name = "MULTIPLY" /\ m \in {"Bool", "Integer"}
       \/ o.name = "ADD" /\ m = k
       \/ o.name = "ADD" /\ o.inplace /\ k = "List" /\ m \in SeqKind \cup {"Set", "Dict"}
    THEN k ELSE "Any"

setBinary(o, k, m) ==
    IF o.name \in Bits \cup {"SUBTRACT"} /\ m \in {k, "Set"} THEN k ELSE "Any"

\* The kind of the result, "Any" when the tables have no entry.  A guess only has
\* a table if it is a number.
binary(o, l, r) ==
    LET k == l.kind
        m == r.kind
        guess == l.guard /\ k \notin IntKind \cup {"Float"}
    IN  IF guess \/ k = "Any" THEN "Any"
        ELSE CASE k = "Integer" -> integerBinary(o, m, r.const)
               [] k = "BigInteger" -> bigIntegerBinary(o, m)
               [] k = "Float" -> floatBinary(o, m)
               [] k = "Bool" -> boolBinary(o, m)
               [] k = "Complex" -> complexBinary(o, m)
               [] k \in SeqKind -> sequenceBinary(o, k, m)
               [] k \in SetKind -> setBinary(o, k, m)
               [] k = "Dict" -> IF o.name = "OR" /\ m = k THEN k ELSE "Any"

GetPyType(kind) ==
    CASE kind = "Bool" -> "bool" [] kind \in IntKind -> "int" [] kind = "Float" -> "float"
      [] kind = "Complex" -> "complex" [] kind = "String" -> "str" [] kind = "List" -> "list"
      [] kind = "Tuple" -> "tuple" [] kind = "Set" -> "set" [] kind = "FrozenSet" -> "frozenset"
      [] kind = "Dict" -> "dict" [] OTHER -> "object"

Known(operand) == operand.kind # "Any"

-----------------------------------------------------------------------------
(* The slots of the built-in types *)

\* The type whose function is in the number slot of type t: bool inherits the
\* arithmetic of int.
nb(name, t) ==
    CASE t = "bool" -> IF name \in Bits THEN "bool" ELSE "int"
      [] t = "int" -> "int"
      [] t = "float" /\ name \notin Bits \cup {"LSHIFT"} -> t
      [] t = "complex" /\ name \notin Bits \cup {"LSHIFT", "MODULO"} -> t
      [] t = "str" /\ name = "MODULO" -> t
      [] t \in AnySet /\ name \in Bits \cup {"SUBTRACT"} -> t
      [] t = "dict" /\ name = "OR" -> t
      [] OTHER -> "none"

nb_inplace(name, t) ==
    IF \/ t = "set" /\ name \in Bits \cup {"SUBTRACT"}
       \/ t = "dict" /\ name = "OR"
    THEN t ELSE "none"

\* sq_concat and sq_repeat.
sq(name, t) == IF name \in {"ADD", "MULTIPLY"} /\ t \in Sequence THEN t ELSE "none"

Numeric(name, a, b) ==
    IF case.data = "fails" /\ name \in {"MODULO", "TRUE_DIVIDE"} THEN "null"
    ELSE IF "complex" \in {a, b} THEN "complex"
    ELSE IF name = "POWER" /\ case.data = "negative"
         THEN IF "float" \in {a, b} THEN "complex" ELSE "float"
    ELSE IF "float" \in {a, b} \/ name = "TRUE_DIVIDE" THEN "float"
    ELSE IF {a, b} = {"bool"} /\ name \in Bits THEN "bool"
    ELSE "int"

\* The number slot of owner on operands of types a and b.
CallNumber(owner, name, a, b) ==
    CASE owner \in {"bool", "int"} /\ {a, b} \subseteq {"bool", "int"} -> Numeric(name, a, b)
      [] owner = "float" /\ {a, b} \subseteq Number -> Numeric(name, a, b)
      [] owner = "complex" /\ {a, b} \subseteq Number \cup {"complex"} -> Numeric(name, a, b)
      [] owner = "str" /\ a = "str" -> IF case.data = "fails" THEN "null" ELSE "str"
      [] owner \in AnySet /\ {a, b} \subseteq AnySet -> a
      [] owner = "dict" /\ {a, b} = {"dict"} -> "dict"
      [] OTHER -> "NotImplemented"

\* An in-place slot takes its first operand for one of its own type: "mutated" if
\* that changes an immutable object, "wild" if the memory of another type is read.
CallInplace(owner, a, b) ==
    IF owner = "dict" THEN IF {a, b} = {"dict"} THEN "dict" ELSE "null"
    ELSE IF b \notin AnySet THEN "NotImplemented"
    ELSE CASE a = "set" -> a
           [] a = "frozenset" -> "mutated"
           [] OTHER -> "wild"

CallConcat(owner, a, b) ==
    IF a # owner THEN IF owner = "str" THEN "null" ELSE "wild"
    ELSE IF b = owner THEN owner
    ELSE "null"

Index == {"bool", "int"}

-----------------------------------------------------------------------------
(* Python: PyNumber_Add and the others *)

\* binary_op1
NumberOp(name, a, b) ==
    LET first == IF nb(name, a) = "none" THEN "NotImplemented"
                 ELSE CallNumber(nb(name, a), name, a, b)
    IN  IF first # "NotImplemented" \/ nb(name, b) \in {"none", nb(name, a)} THEN first
        ELSE CallNumber(nb(name, b), name, a, b)

SequenceOp(name, inplace, a, b) ==
    CASE name = "ADD" /\ inplace /\ a = "list" ->
             IF b \in Sequence \cup AnySet \cup {"dict"} THEN "list" ELSE "null"
      [] name = "ADD" /\ a \in Sequence /\ ~(inplace /\ a = "list") -> CallConcat(a, a, b)
      [] name = "MULTIPLY" /\ a \in Sequence /\ b \in Index -> a
      [] name = "MULTIPLY" /\ a \in Index /\ b \in Sequence -> b
      [] OTHER -> "null"

Python(o, a, b) ==
    LET plain == NumberOp(o.name, a, b)
        result == IF plain = "NotImplemented" THEN SequenceOp(o.name, o.inplace, a, b) ELSE plain
        inplace == IF o.inplace /\ nb_inplace(o.name, a) # "none"
                   THEN CallInplace(a, a, b) ELSE "NotImplemented"
    IN  IF "object" \in {a, b} /\ plain \notin {"str", "null"} THEN "object"
        ELSE IF inplace # "NotImplemented" THEN inplace
        ELSE result

-----------------------------------------------------------------------------
(* emit_binary_object *)

None == [slot |-> "none", owner |-> "none"]

\* The function that is compiled in for an operand of a known kind.
Function(operand) ==
    LET t == GetPyType(operand.kind)
        number == IF op.inplace THEN nb_inplace(op.name, t) ELSE nb(op.name, t)
    IN  IF ~Known(left) \/ ~Known(right) THEN None
        ELSE IF number # "none"
             THEN [slot |-> IF op.inplace THEN "inplace" ELSE "nb", owner |-> number]
        ELSE IF ~op.inplace /\ sq(op.name, t) # "none" THEN [slot |-> "sq", owner |-> t]
        ELSE None

LeftFunction == Function(left)

\* The three special operators keep a right function of another type even when
\* it is the same one.
RightFunction ==
    LET sameType == GetPyType(left.kind) = GetPyType(right.kind)
        same == Function(right) = LeftFunction
        dropped == IF op.name \in {"POWER", "MULTIPLY", "ADD"} THEN sameType /\ same
                   ELSE sameType \/ same
    IN  IF dropped THEN None ELSE Function(right)

\* Mutant: only the type of the left operand is compared.
Guarded_Left == Known(left) /\ Known(right) /\ left.guard /\ left.type # GetPyType(left.kind)

\* A guess is wrong: with one guessed kind, both types are compared.
Guarded ==
    /\ Known(left) /\ Known(right)
    /\ left.guard \/ right.guard
    /\ \/ left.type # GetPyType(left.kind)
       \/ right.type # GetPyType(right.kind)

\* An operand that is not the result of an operator: a guess, or a value of
\* the kind it is known to have.
Fresh(operand) ==
    operand.guard \/ ~Known(operand) \/ operand.type = GetPyType(operand.kind)

\* The right operands are fresh.  So are the left ones that are no result, and a
\* result is of the kind the tables give it, or the remainder of a bool.  Left out
\* is what the code is known to get wrong: going on with what was computed from a
\* wrong guess or by a power the tables mispredict, and changing a frozenset.
OperandsAssumption ==
    \A c \in Cases :
        /\ Fresh(c.right)
        /\ Fresh(c.left) \/ (c.left.kind = "Bool" /\ c.left.type = "int")
        /\ ~(c.op.inplace /\ c.left.type = "frozenset" /\ c.right.type = "set")

ASSUME OperandsAssumption

Init ==
    /\ case \in {c \in Cases : Fresh(c.left)}
    /\ pc = "guard" /\ value = "none" /\ err = FALSE
    /\ refs = [left |-> 1, right |-> 1]

Guard ==
    /\ pc = "guard"
    /\ pc' = IF Guarded THEN "fallback"
             ELSE IF LeftFunction # None THEN "left"
             ELSE IF RightFunction # None THEN "right"
             ELSE "fallback"
    /\ UNCHANGED <<case, value, err, refs>>

\* sq_repeat takes a count: a constant, or what PyNumber_AsSsize_t makes of the
\* other operand, which is -1 with an exception set if it is no integer.
Repeat(sequence, count) ==
    /\ value' = sequence
    /\ err' = (count \notin Index)

Call(f, a, b) ==
    CASE f.slot = "nb"      -> CallNumber(f.owner, op.name, a, b)
      [] f.slot = "inplace" -> CallInplace(f.owner, a, b)
      [] f.slot = "sq"      -> CallConcat(f.owner, a, b)

Calls(f, a, b) ==
    LET v == Call(f, a, b)
    IN  value' = v /\ err' = (v = "null")

CallLeft ==
    /\ pc = "left"
    /\ IF op.name = "MULTIPLY" /\ LeftFunction.slot = "sq"
       THEN Repeat(left.type, right.type)
       ELSE Calls(LeftFunction, left.type, right.type)
    /\ pc' = IF value' # "NotImplemented" THEN "release"
             ELSE IF RightFunction # None THEN "right"
             ELSE "fallback"
    /\ UNCHANGED <<case, refs>>

\* n * sequence calls the repetition of the right operand, with the operands
\* exchanged; but only after the left function has been tried.  A function that
\* does not know the operands ends in a TypeError.
CallRight ==
    /\ pc = "right"
    /\ IF op.name = "MULTIPLY" /\ RightFunction.slot = "sq"
       THEN IF LeftFunction # None THEN Repeat(right.type, left.type)
            ELSE value' = "wild" /\ UNCHANGED err
       ELSE LET v == Call(RightFunction, left.type, right.type)
                w == IF v = "NotImplemented" THEN "null" ELSE v
            IN  value' = w /\ err' = (w = "null")
    /\ pc' = "release"
    /\ UNCHANGED <<case, refs>>

\* Mutant: the branch around the release of the operands is missing.
Fallback_Falls ==
    /\ pc = "fallback"
    /\ value' = Python(op, left.type, right.type)
    /\ err' = (value' = "null")
    /\ refs' = [left |-> refs.left - 1, right |-> refs.right - 1]
    /\ pc' = IF Guarded THEN "done" ELSE "release"
    /\ UNCHANGED case

\* PyJit_Add and the others: Python's function, which also releases the operands.
Fallback ==
    /\ pc = "fallback"
    /\ value' = Python(op, left.type, right.type)
    /\ err' = (value' = "null")
    /\ refs' = [left |-> refs.left - 1, right |-> refs.right - 1]
    /\ pc' = "done"
    /\ UNCHANGED case

Release ==
    /\ pc = "release"
    /\ refs' = [left |-> refs.left - 1, right |-> refs.right - 1]
    /\ pc' = "done"
    /\ UNCHANGED <<case, value, err>>

\* The result as the abstract interpreter sees it.
Result == [kind |-> binary(op, left, right), guard |-> FALSE, type |-> value, const |-> "none"]

\* The operations on a left operand.
Continuations == [l \in {c.left : c \in Cases} |-> {c \in Cases : c.left = l}]

\* The expression goes on with the result: errorCheck only looks for a null
\* result.
Continue ==
    /\ pc = "done" /\ ~err
    /\ Result \in DOMAIN Continuations
    /\ case' \in Continuations[Result]
    /\ pc' = "guard" /\ value' = "none"
    /\ refs' = [left |-> 1, right |-> 1]
    /\ UNCHANGED err

Next == Guard \/ CallLeft \/ CallRight \/ Fallback \/ Release \/ Continue

Spec == Init /\ [][Next]_vars

-----------------------------------------------------------------------------
(* Properties *)

\* Every path through the emitted code, whatever was compiled in and whatever
\* answers NotImplemented, releases each operand once.
RefsConsumedOnce ==
    /\ \A side \in DOMAIN refs : refs[side] \in {0, 1}
    /\ pc = "done" => refs = [left |-> 0, right |-> 0]

\* Where Python defines the operation the compiled code does the same: the
\* functions that are compiled in, the order they are tried in, the exchange of
\* the operands of a repetition and the guard come to Python's result, also for
\* an operand whose kind is Bool and that is an int (the remainder of a bool).
DefinedIsSame ==
    pc = "done" =>
        LET python == Python(op, left.type, right.type)
        IN  python # "null" => value = python /\ ~err

\* The two things the tables are wrong about: powers of negative numbers and
\* with negative exponents, and the remainder of a bool.
Mispredicted ==
    \/ op.name = "POWER" /\ case.data = "negative"
    \/ op.name = "MODULO" /\ left.kind = "Bool" /\ right.kind \in IntKind

\* Everywhere else an operator on values of the kinds it was compiled for makes
\* a value of the kind the tables give it, which is what the next operator is
\* compiled on, without a guard.
ResultIsPredicted ==
    /\ pc = "done" /\ value \in Type /\ Known(Result) /\ ~Mispredicted
    /\ \A operand \in {left, right} : operand.type = GetPyType(operand.kind)
    => value = GetPyType(Result.kind)
=============================================================================

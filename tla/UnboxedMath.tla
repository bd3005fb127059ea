---------------------------- MODULE UnboxedMath ----------------------------
(***************************************************************************)
(* Arithmetic on unboxed integers (pycomp.cpp: emit_binary_int and the     *)
(* unary operators; intrins.cpp: PyJit_Long*; absint.cpp:                  *)
(* invalidIntErrorCheck; binarycomp.cpp for the boxed case).               *)
(*                                                                         *)
(* An expression of the kind Integer is computed in machine words, and its *)
(* value is boxed and unboxed where it meets code that wants an object.    *)
(* Some operators give results of the kind BigInteger, which are objects   *)
(* from then on.  A run applies operators one after the other, next to     *)
(* Python, which has no largest integer.                                   *)
(*                                                                         *)
(* The bit operators are the same function on words and on integers and    *)
(* are left out; so are results of the kind Float.                         *)
(***************************************************************************)
EXTENDS Integers

CONSTANTS
    Width,             \* bits of a machine word, a power of two
    Operands,          \* right operands
    ShiftBound,        \* the largest count of a shift
    Bound              \* Python's results are followed up to here

ASSUME WordAssumption ==
    /\ Width \in Nat /\ Width >= 6
    /\ Operands \subseteq Int
    /\ {ShiftBound, Bound} \subseteq Nat

\* 2^n, as a function that can be reasoned about.
Pow2[n \in Nat] == IF n = 0 THEN 1 ELSE 2 * Pow2[n - 1]

MAXLONG == Pow2[Width - 1] - 1
MINLONG == -(Pow2[Width - 1])
Word == MINLONG..MAXLONG

\* IntegerValue::isBig: more than two digits of 30 bits, of the 63 bits of a word.
isBig(n) == n >= Pow2[Width - 4] \/ n <= -(Pow2[Width - 4])

Outcome == {"none", "ZeroDivisionError", "ValueError", "OverflowError", "TypeError", "trap"}

VARIABLES
    unboxMultiply,  \* the code was compiled with IntegerUnboxingMultiply
    kind,     \* the kind the abstract interpreter has for the value
    boxed,    \* the value is a Python object
    value,    \* the value of the compiled code
    raised,   \* how the compiled code ended, if it did
    exact,    \* Python's value
    error,    \* how Python ended, if it did
    past      \* "fits": Python's value fits into a word, "wrapped": it does not,
              \* "lost": there was a step that may give another value

vars == <<unboxMultiply, kind, boxed, value, raised, exact, error, past>>

-----------------------------------------------------------------------------
(* Machine arithmetic *)

Wrap(n) == ((n - MINLONG) % Pow2[Width]) + MINLONG

Abs(n) == IF n < 0 THEN -n ELSE n
SameSign(x, y) == x < 0 <=> y < 0

\* Division in C++ goes towards zero.
Quotient(x, y) == IF SameSign(x, y) THEN Abs(x) \div Abs(y) ELSE -(Abs(x) \div Abs(y))
Remainder(x, y) == x - y * Quotient(x, y)

\* Mutant: the quotient is only corrected if it is negative itself.
PyJit_LongFloorDivide_Negative(x, y) ==
    IF Quotient(x, y) < 0 /\ Remainder(x, y) # 0 THEN Quotient(x, y) - 1 ELSE Quotient(x, y)

\* 0 < (x ^ y) holds of different numbers of the same sign.
PyJit_LongFloorDivide(x, y) ==
    IF (x # y /\ SameSign(x, y)) \/ Remainder(x, y) = 0
    THEN Quotient(x, y) ELSE Quotient(x, y) - 1

PyJit_LongMod(x, y) ==
    IF x # y /\ SameSign(x, y) THEN Remainder(x, y) ELSE Remainder(y + Remainder(x, y), y)

\* The mask is the sign, and makes this the absolute value.
emit_unboxed_unary_positive(x) == Wrap(Abs(x))

emit_unboxed_unary_invert(x) == Wrap(-Wrap(x + 1))

\* The hardware takes the count of a shift modulo the width of the word.
emit_binary_int(o, x, y) ==
    CASE o = "ADD"          -> Wrap(x + y)
      [] o = "SUBTRACT"     -> Wrap(x - y)
      [] o = "MULTIPLY"     -> Wrap(x * y)
      [] o = "LSHIFT"       -> Wrap(x * Pow2[y % Width])
      [] o = "RSHIFT"       -> x \div Pow2[y % Width]
      [] o = "FLOOR_DIVIDE" -> IF y = 0 THEN MAXLONG ELSE PyJit_LongFloorDivide(x, y)
      [] o = "MODULO"       -> IF y = 0 THEN MAXLONG ELSE PyJit_LongMod(x, y)

emit_unary_int(o, x) ==
    CASE o = "POSITIVE" -> emit_unboxed_unary_positive(x)
      [] o = "NEGATIVE" -> Wrap(-x)
      [] o = "INVERT"   -> emit_unboxed_unary_invert(x)

Additive == {"ADD", "SUBTRACT"}
Division == {"FLOOR_DIVIDE", "MODULO"}
Shift == {"LSHIFT", "RSHIFT"}
Binary == Additive \cup Division \cup Shift \cup {"MULTIPLY"}
Unary == {"POSITIVE", "NEGATIVE", "INVERT"}

canReturnInfinity(o) == o \in Division

\* Left shifts by up to half a word and products with a constant below 1024 are
\* taken to fit; with IntegerUnboxingMultiply all are.
SmallShift == Width \div 2
SmallFactor == Pow2[Width \div 6]

binary(o, y) ==
    IF /\ ~unboxMultiply
       /\ \/ o = "MULTIPLY" /\ y >= SmallFactor
          \/ o = "LSHIFT" /\ y > SmallShift
    THEN "BigInteger" ELSE "Integer"

supportsUnboxing(o) == o # "MULTIPLY" \/ unboxMultiply

-----------------------------------------------------------------------------
(* Python *)

PythonError(o, y) ==
    CASE o \in Division /\ y = 0 -> "ZeroDivisionError"
      [] o \in Shift /\ y < 0 -> "ValueError"
      [] OTHER -> "none"

Python(o, x, y) ==
    CASE o = "ADD"          -> x + y
      [] o = "SUBTRACT"     -> x - y
      [] o = "MULTIPLY"     -> x * y
      [] o = "LSHIFT"       -> x * Pow2[y]
      [] o = "RSHIFT"       -> x \div Pow2[y]
      [] o = "FLOOR_DIVIDE" -> IF y > 0 THEN x \div y ELSE (-x) \div (-y)
      [] o = "MODULO"       -> IF y > 0 THEN x % y ELSE -((-x) % (-y))

PythonUnary(o, x) ==
    CASE o = "POSITIVE" -> x
      [] o = "NEGATIVE" -> -x
      [] o = "INVERT"   -> -x - 1

-----------------------------------------------------------------------------

\* The value comes in as an argument of the kind Integer.
Init ==
    /\ unboxMultiply \in BOOLEAN
    /\ kind = "Integer" /\ boxed = TRUE
    /\ value \in {n \in Operands : ~isBig(n)} /\ exact = value
    /\ raised = "none" /\ error = "none" /\ past = "fits"

Running == raised = "none" /\ error = "none"

\* What compiled code does differently from Python: an operand that does not fit,
\* a shift by a count that is no position in a word, the smallest integer divided
\* by -1, the sentinel as the result of a division, and +x of a negative number.
Unusual(o, x, y) ==
    \/ y \notin Word
    \/ o \in Shift /\ y \notin 0..(Width - 1)
    \/ o \in Division /\ x = MINLONG /\ y = -1
    \/ o \in Division /\ y # 0 /\ emit_binary_int(o, x, y) = MAXLONG
    \/ o = "POSITIVE" /\ x < 0

\* The operators that respect equality of the lowest Width bits.
Ring == Additive \cup {"MULTIPLY", "LSHIFT", "NEGATIVE", "INVERT"}

\* Python's side of a step, as far as it is followed, and what that says of the
\* value that the compiled code should have.  Only a word comes back from an
\* overflow, an object keeps the wrong value.
Follow(o, result, err, unusual) ==
    /\ error' = err
    /\ exact' = IF err = "none" THEN result ELSE exact
    /\ exact' \in -Bound..Bound
    /\ past' = IF unusual \/ past = "lost" \/ (past = "wrapped" /\ o \notin Ring) THEN "lost"
               ELSE IF exact' \in Word /\ (past = "fits" \/ ~boxed) THEN "fits" ELSE "wrapped"

Box ==
    /\ Running /\ kind = "Integer" /\ ~boxed
    /\ boxed' = TRUE
    /\ UNCHANGED <<unboxMultiply, kind, value, raised, exact, error, past>>

\* Mutant: a value that does not fit becomes the sentinel and is used.
PyJit_LongAsLongLong_Unchecked(n) ==
    [value |-> IF n \in Word THEN n ELSE MAXLONG, raised |-> "none"]

PyJit_LongAsLongLong(n) ==
    [value |-> IF n \in Word THEN n ELSE MAXLONG,
     raised |-> IF n \in Word THEN "none" ELSE "OverflowError"]

Unbox ==
    /\ Running /\ kind = "Integer" /\ boxed = TRUE
    /\ value' = PyJit_LongAsLongLong(value).value
    /\ raised' = PyJit_LongAsLongLong(value).raised
    /\ boxed' = FALSE
    /\ UNCHANGED <<unboxMultiply, kind, exact, error, past>>

\* An unboxed binary operator.  The right operand is unboxed first; it may be one
\* that was small when its kind was profiled.  A division of the smallest integer
\* by -1 is undefined in C++: it traps, or wraps around.
UnboxedBinary(o, y) ==
    /\ Running /\ kind = "Integer" /\ ~boxed
    /\ supportsUnboxing(o) /\ binary(o, y) = "Integer"
    /\ LET right == PyJit_LongAsLongLong(y)
           result == emit_binary_int(o, value, right.value)
           infinite == canReturnInfinity(o) /\ result = MAXLONG
       IN  \/ /\ right.raised # "none"
              /\ raised' = right.raised
              /\ UNCHANGED value
           \/ /\ right.raised = "none"
              /\ value' = Wrap(result)
              /\ raised' = IF infinite THEN "ZeroDivisionError" ELSE "none"
           \/ /\ o \in Division /\ value = MINLONG /\ y = -1
              /\ raised' = "trap"
              /\ UNCHANGED value
    /\ Follow(o, Python(o, exact, y), PythonError(o, y), Unusual(o, value, y))
    /\ UNCHANGED <<unboxMultiply, kind, boxed>>

UnboxedUnary(o) ==
    /\ Running /\ kind = "Integer" /\ ~boxed
    /\ value' = emit_unary_int(o, value)
    /\ Follow(o, PythonUnary(o, exact), "none", Unusual(o, value, 0))
    /\ UNCHANGED <<unboxMultiply, kind, boxed, raised>>

\* An operator on objects, by the slot functions of the types: all of them on big
\* integers, on others those that are not unboxed.
BoxedBinary(o, y) ==
    /\ Running /\ boxed
    /\ kind = "Integer" => ~supportsUnboxing(o) \/ binary(o, y) = "BigInteger"
    /\ raised' = PythonError(o, y)
    /\ value' = IF raised' = "none" THEN Python(o, value, y) ELSE value
    /\ value' \in -Bound..Bound
    /\ kind' = IF kind = "BigInteger" THEN kind ELSE binary(o, y)
    /\ Follow(o, Python(o, exact, y), PythonError(o, y), FALSE)
    /\ UNCHANGED <<unboxMultiply, boxed>>

\* A value that is lost is not followed any further.
Next ==
    \/ Box
    \/ Unbox
    \/ \E o \in Binary, y \in Operands :
          /\ past # "lost"
          /\ o \in Shift => y <= ShiftBound
          /\ \/ UnboxedBinary(o, y)
             \/ BoxedBinary(o, y)
    \/ \E o \in Unary : past # "lost" /\ UnboxedUnary(o)

Spec == Init /\ [][Next]_vars

-----------------------------------------------------------------------------
(* Properties *)

\* As long as Python's value fits into a word the compiled code has the same
\* value, and it raises what Python raises: floor division and remainder of
\* negative numbers, the sentinel that stands for an error, boxing and unboxing
\* between any two operators, and sums that overflow in between and come back.
FitsIsExact ==
    past = "fits" => raised = error /\ (Running => value = exact)

\* While Python's value does not fit, the lowest bits are right, or the code has
\* raised an OverflowError because a big object had to be unboxed: that is why
\* FitsIsExact holds when the value fits again.
WrappedIsCongruent ==
    past = "wrapped" =>
        \/ raised = "OverflowError"
        \/ raised = error /\ (value - exact) % Pow2[Width] = 0
=============================================================================

----------------------- MODULE BinaryOperatorsProofs -----------------------
(***************************************************************************)
(* Proofs about BinaryOperators, for any operations with the operands that *)
(* OperandsAssumption allows.                                              *)
(*                                                                         *)
(* First the references, by counting.  Then the result: the slot functions *)
(* and Python's binary_op1 are brought into one form, Understands and      *)
(* Made, in which it does not matter who answers; what the compiled        *)
(* functions do is compared with Python function by function (Outcome),    *)
(* and what Python does with the tables, kind by kind; and the invariant   *)
(* PathInv carries it along the paths through the emitted code.            *)
(***************************************************************************)
EXTENDS BinaryOperators, TLAPS

-----------------------------------------------------------------------------
(* The references *)

Held == [left |-> 1, right |-> 1]
Released == [left |-> 0, right |-> 0]

\* Whatever code is next, the operands are held until it has all been run: the functions
\* that are compiled in borrow them, and either Python's function or the release at the end
\* takes them, never both.
RefsInv ==
    /\ pc \in {"guard", "left", "right", "fallback", "release", "done"}
    /\ refs = IF pc = "done" THEN Released ELSE Held

\* The left function leads on to the release, to the right function or to the fallback.
LEMMA LeftLeadsOn ==
    ASSUME CallLeft
    PROVE  pc' \in {"release", "right", "fallback"} /\ refs' = refs
  <1>1. pc' = (IF value' # "NotImplemented" THEN "release"
               ELSE IF RightFunction # None THEN "right"
               ELSE "fallback")
    BY Zenon DEF CallLeft
  <1>2. pc' \in {"release", "right", "fallback"}
    <2>1. CASE value' # "NotImplemented" /\ RightFunction = None
      BY <1>1, <2>1, Zenon
    <2>2. CASE value' = "NotImplemented" /\ RightFunction # None
      BY <1>1, <2>2, Zenon
    <2>3. CASE value' = "NotImplemented" /\ RightFunction = None
      BY <1>1, <2>3, Zenon
    <2>4. CASE value' # "NotImplemented" /\ RightFunction # None
      BY <1>1, <2>4, Zenon
    <2>5. QED
      BY <2>1, <2>2, <2>3, <2>4
  <1>3. QED
    BY <1>2, Zenon DEF CallLeft

LEMMA RefsStep == RefsInv /\ [Next]_vars => RefsInv'
  <1> SUFFICES ASSUME RefsInv, [Next]_vars PROVE RefsInv'
    OBVIOUS
  <1>1. CASE Guard
    <2>1. pc' \in {"left", "right", "fallback"} /\ refs' = refs /\ pc = "guard"
      BY <1>1 DEF Guard
    <2>2. QED
      BY <2>1 DEF RefsInv
  <1>2. CASE CallLeft
    <2>1. pc = "left"
      BY <1>2, Zenon DEF CallLeft
    <2>2. QED
      BY <1>2, <2>1, LeftLeadsOn DEF RefsInv
  <1>3. CASE CallRight
    <2>1. pc = "right" /\ pc' = "release" /\ refs' = refs
      BY <1>3, Zenon DEF CallRight
    <2>2. QED
      BY <2>1 DEF RefsInv
  <1>4. CASE Fallback
    <2>1. pc = "fallback" /\ pc' = "done"
          /\ refs' = [left |-> refs.left - 1, right |-> refs.right - 1]
      BY <1>4, Zenon DEF Fallback
    <2>2. QED
      BY <2>1 DEF RefsInv, Held, Released
  <1>5. CASE Release
    BY <1>5 DEF Release, RefsInv, Held, Released
  <1>6. CASE Continue
    <2>1. pc' = "guard" /\ refs' = Held
      BY <1>6, Zenon DEF Continue, Held
    <2>2. QED
      BY <2>1 DEF RefsInv
  <1>7. CASE UNCHANGED vars
    BY <1>7 DEF vars, RefsInv
  <1>8. QED
    BY <1>1, <1>2, <1>3, <1>4, <1>5, <1>6, <1>7 DEF Next

\* Every path through the emitted code releases each operand once, whichever functions are
\* compiled in and whatever they answer, for any expression.
THEOREM OperandsAreReleasedOnce == Spec => []RefsConsumedOnce
  <1>1. Init => RefsInv
    BY DEF Init, RefsInv, Held
  <1>2. RefsInv => RefsConsumedOnce
    BY DEF RefsInv, RefsConsumedOnce, Held, Released
  <1>3. QED
    BY <1>1, <1>2, RefsStep, PTL DEF Spec

-----------------------------------------------------------------------------
(* The slots, in one form *)

\* What a number slot of owner can be given, and what it then makes: the answer
\* is the same whoever gives it.
Understands(owner, a, b) ==
    \/ owner \in Index /\ a \in Index /\ b \in Index
    \/ owner = "float" /\ a \in Number /\ b \in Number
    \/ owner = "complex" /\ a \in Number \cup {"complex"} /\ b \in Number \cup {"complex"}
    \/ owner = "str" /\ a = "str"
    \/ owner \in AnySet /\ a \in AnySet /\ b \in AnySet
    \/ owner = "dict" /\ a = "dict" /\ b = "dict"

Made(name, a, b) ==
    IF a \in Number \cup {"complex"} THEN Numeric(name, a, b)
    ELSE IF a = "str" /\ case.data = "fails" THEN "null" ELSE a

LEMMA NumericType ==
  ASSUME NEW name, NEW a, NEW b
  PROVE  Numeric(name, a, b) \in Number \cup {"complex", "null"}
  BY DEF Numeric, Number

LEMMA MadeType ==
  ASSUME NEW name, NEW a \in Type, NEW b
  PROVE  Made(name, a, b) \in Type \cup {"null"}
  BY NumericType DEF Made, Type, Number

LEMMA TypeIsAnswer ==
  /\ "NotImplemented" \notin Type \cup {"null"}
  /\ "wild" \notin Type \cup {"null"}
  /\ "mutated" \notin Type \cup {"null"}
  /\ "null" \notin Type
  /\ "none" \notin Type
  BY DEF Type, Number, AnySet, Sequence

LEMMA CallNumberIs ==
  ASSUME NEW owner, NEW name, NEW a, NEW b
  PROVE  CallNumber(owner, name, a, b) =
             IF Understands(owner, a, b) THEN Made(name, a, b) ELSE "NotImplemented"
  <1>1. \A S : ({a, b} \subseteq S) = (a \in S /\ b \in S)
    OBVIOUS
  <1>2. ({a, b} = {"dict"}) = (a = "dict" /\ b = "dict")
    OBVIOUS
  <1>3. {"bool", "int"} = Index  BY DEF Index
  <1>4. CASE owner \in Index
    <2>1. CallNumber(owner, name, a, b) =
              IF a \in Index /\ b \in Index THEN Numeric(name, a, b) ELSE "NotImplemented"
      BY <1>1, <1>3, <1>4, SMT DEF CallNumber, Index, AnySet
    <2> QED  BY <2>1, <1>4, SMT DEF Understands, Made, Index, Number, AnySet
  <1>5. CASE owner = "float"
    <2>1. CallNumber(owner, name, a, b) =
              IF a \in Number /\ b \in Number THEN Numeric(name, a, b) ELSE "NotImplemented"
      BY <1>1, <1>3, <1>5, SMT DEF CallNumber, Index, AnySet
    <2> QED  BY <2>1, <1>5, SMT DEF Understands, Made, Index, AnySet
  <1>6. CASE owner = "complex"
    <2>1. CallNumber(owner, name, a, b) =
              IF a \in Number \cup {"complex"} /\ b \in Number \cup {"complex"}
              THEN Numeric(name, a, b) ELSE "NotImplemented"
      BY <1>1, <1>3, <1>6, SMT DEF CallNumber, Index, AnySet
    <2> QED  BY <2>1, <1>6, SMT DEF Understands, Made, Index, AnySet
  <1>7. CASE owner = "str"
    BY <1>7, SMT DEF CallNumber, Understands, Made, Index, Number, AnySet
  <1>8. CASE owner \in AnySet
    <2>1. CallNumber(owner, name, a, b) =
              IF a \in AnySet /\ b \in AnySet THEN a ELSE "NotImplemented"
      BY <1>1, <1>3, <1>8, SMT DEF CallNumber, Index, AnySet
    <2> QED  BY <2>1, <1>8, SMT DEF Understands, Made, Index, Number, AnySet
  <1>9. CASE owner = "dict"
    <2>1. CallNumber(owner, name, a, b) =
              IF a = "dict" /\ b = "dict" THEN "dict" ELSE "NotImplemented"
      BY <1>2, <1>9, SMT DEF CallNumber, Index, AnySet
    <2> QED  BY <2>1, <1>9, SMT DEF Understands, Made, Index, Number, AnySet
  <1>10. CASE owner \notin Index \cup AnySet \cup {"float", "complex", "str", "dict"}
    BY <1>10, SMT DEF CallNumber, Understands, Index, AnySet
  <1> QED  BY <1>4, <1>5, <1>6, <1>7, <1>8, <1>9, <1>10

\* The number slot of a type is its own, or the one bool has from int.
LEMMA NumberSlot ==
  ASSUME NEW name \in Name, NEW t \in Type
  PROVE  /\ nb(name, t) \in {"none", t} \/ (t \in Index /\ nb(name, t) \in Index)
         /\ t \in Index => nb(name, t) \in Index
         /\ t \in Sequence /\ nb(name, t) # "none" => t = "str" /\ name = "MODULO"
         /\ t \in AnySet \cup {"dict"} /\ nb(name, t) # "none" => name \in Bits \cup {"SUBTRACT"}
         /\ nb(name, t) # "NotImplemented"
  BY SMT DEF nb, Index, Type, Number, Sequence, AnySet, Bits, Name, Additive

\* binary_op1: the one of the two slots that understands the operands answers.
LEMMA NumberOpIs ==
  ASSUME NEW name \in Name, NEW a \in Type, NEW b \in Type
  PROVE  NumberOp(name, a, b) =
             IF Understands(nb(name, a), a, b) \/ Understands(nb(name, b), a, b)
             THEN Made(name, a, b) ELSE "NotImplemented"
  <1>1. ~Understands("none", a, b)
    BY DEF Understands, Index, AnySet
  <1>2. Made(name, a, b) # "NotImplemented"
    BY MadeType, TypeIsAnswer
  <1>3. CallNumber(nb(name, a), name, a, b) =
            IF Understands(nb(name, a), a, b) THEN Made(name, a, b) ELSE "NotImplemented"
    BY CallNumberIs
  <1>4. CallNumber(nb(name, b), name, a, b) =
            IF Understands(nb(name, b), a, b) THEN Made(name, a, b) ELSE "NotImplemented"
    BY CallNumberIs
  <1> QED  BY <1>1, <1>2, <1>3, <1>4 DEF NumberOp

\* Python's operators on values of the built-in types.
LEMMA PythonIs ==
  ASSUME NEW o \in Operator, NEW a \in Type \ {"object"}, NEW b \in Type \ {"object"}
  PROVE  Python(o, a, b) =
             IF /\ o.inplace /\ nb_inplace(o.name, a) # "none"
                /\ CallInplace(a, a, b) # "NotImplemented"
             THEN CallInplace(a, a, b)
             ELSE IF Understands(nb(o.name, a), a, b) \/ Understands(nb(o.name, b), a, b)
                  THEN Made(o.name, a, b)
                  ELSE SequenceOp(o.name, o.inplace, a, b)
  <1>1. o.name \in Name  BY DEF Operator
  <1>2. "object" \notin {a, b}
    OBVIOUS
  <1>3. Made(o.name, a, b) # "NotImplemented"
    BY MadeType, TypeIsAnswer
  <1>4. NumberOp(o.name, a, b) =
            IF Understands(nb(o.name, a), a, b) \/ Understands(nb(o.name, b), a, b)
            THEN Made(o.name, a, b) ELSE "NotImplemented"
    BY <1>1, NumberOpIs
  <1>5. Python(o, a, b) =
            LET plain == NumberOp(o.name, a, b)
                result == IF plain = "NotImplemented" THEN SequenceOp(o.name, o.inplace, a, b)
                          ELSE plain
            IN  IF /\ o.inplace /\ nb_inplace(o.name, a) # "none"
                   /\ CallInplace(a, a, b) # "NotImplemented"
                THEN CallInplace(a, a, b) ELSE result
    BY <1>2, SMT DEF Python
  <1> QED  BY <1>3, <1>4, <1>5, SMT

-----------------------------------------------------------------------------
(* What is compiled in *)

\* The operands are what the code was compiled for, the remainder of a bool apart.
Straight ==
    /\ op \in Operator /\ Known(left) /\ Known(right)
    /\ left.kind \in Kind /\ right.kind \in Kind
    /\ right.type = GetPyType(right.kind)
    /\ left.type = GetPyType(left.kind) \/ (left.kind = "Bool" /\ left.type = "int")
    /\ ~(op.inplace /\ left.type = "frozenset" /\ right.type = "set")

LEMMA KindTypes ==
  ASSUME NEW kind \in Kind, kind # "Any"
  PROVE  GetPyType(kind) \in Type \ {"object"} /\ (GetPyType(kind) = "bool") = (kind = "Bool")
  BY SMT DEF Kind, GetPyType, IntKind, Type, Number, AnySet, Sequence

LEMMA StraightTypes ==
  ASSUME Straight
  PROVE  /\ left.type \in Type \ {"object"} /\ right.type \in Type \ {"object"}
         /\ GetPyType(left.kind) \in Type \ {"object"}
         /\ \/ left.type = GetPyType(left.kind)
            \/ GetPyType(left.kind) = "bool" /\ left.type = "int"
         /\ op \in Operator /\ op.name \in Name /\ op.inplace \in BOOLEAN
  <1>1. "int" \in Type \ {"object"}  BY DEF Type, Number
  <1> QED  BY <1>1, KindTypes DEF Straight, Known, Operator

\* The function of an operand and the slot it is in.
Compiled(f, t) ==
    \/ /\ f = None
       /\ op.inplace => nb_inplace(op.name, t) = "none"
       /\ ~op.inplace => nb(op.name, t) = "none"
                         /\ ~(t \in Sequence /\ op.name \in {"ADD", "MULTIPLY"})
    \/ /\ f = [slot |-> "nb", owner |-> nb(op.name, t)]
       /\ ~op.inplace /\ nb(op.name, t) # "none"
    \/ /\ f = [slot |-> "inplace", owner |-> nb_inplace(op.name, t)]
       /\ op.inplace /\ nb_inplace(op.name, t) # "none"
    \/ /\ f = [slot |-> "sq", owner |-> t]
       /\ ~op.inplace /\ nb(op.name, t) = "none"
       /\ t \in Sequence /\ op.name \in {"ADD", "MULTIPLY"}

LEMMA FunctionIs ==
  ASSUME Straight, NEW operand
  PROVE  Compiled(Function(operand), GetPyType(operand.kind))
  <1> DEFINE f == Function(operand)
             t == GetPyType(operand.kind)
  <1>1. Known(left) /\ Known(right)  BY DEF Straight
  <1>2. (sq(op.name, t) # "none") = (t \in Sequence /\ op.name \in {"ADD", "MULTIPLY"})
    BY SMT DEF sq, Sequence
  <1>3. CASE op.inplace /\ nb_inplace(op.name, t) # "none"
    <2>1. f = [slot |-> "inplace", owner |-> nb_inplace(op.name, t)]
      BY <1>1, <1>3, Zenon DEF Function
    <2> QED  BY <1>3, <2>1, Zenon DEF Compiled
  <1>4. CASE op.inplace /\ nb_inplace(op.name, t) = "none"
    <2>1. f = None  BY <1>1, <1>4, Zenon DEF Function
    <2> QED  BY <1>4, <2>1, Zenon DEF Compiled
  <1>5. CASE ~op.inplace /\ nb(op.name, t) # "none"
    <2>1. f = [slot |-> "nb", owner |-> nb(op.name, t)]
      BY <1>1, <1>5, SMT DEF Function
    <2> QED  BY <1>5, <2>1, SMT DEF Compiled
  <1>6. CASE ~op.inplace /\ nb(op.name, t) = "none" /\ sq(op.name, t) # "none"
    <2>1. f = [slot |-> "sq", owner |-> t]  BY <1>1, <1>6, Zenon DEF Function
    <2> QED  BY <1>2, <1>6, <2>1, Zenon DEF Compiled
  <1>7. CASE ~op.inplace /\ nb(op.name, t) = "none" /\ sq(op.name, t) = "none"
    <2>1. f = None  BY <1>1, <1>7, Zenon DEF Function
    <2> QED  BY <1>2, <1>7, <2>1, Zenon DEF Compiled
  <1> QED  BY <1>3, <1>4, <1>5, <1>6, <1>7

\* A bool and an int have the same slots but for who owns them.
LEMMA SlotsOfLeft ==
  ASSUME Straight
  PROVE  LET a == left.type
             b == right.type
             t == GetPyType(left.kind)
             n == op.name
         IN  /\ Understands(nb(n, t), a, b) <=> Understands(nb(n, a), a, b)
             /\ (nb(n, t) = "none") = (nb(n, a) = "none")
             /\ nb_inplace(n, t) = nb_inplace(n, a)
             /\ a \notin Index => t = a
             /\ t \in Sequence => t = a
  <1>1. CASE left.type = GetPyType(left.kind)
    BY <1>1
  <1>2. CASE GetPyType(left.kind) = "bool" /\ left.type = "int"
    <2>1. "bool" \in Index /\ "int" \in Index /\ "bool" \in Type /\ "int" \in Type
      BY DEF Index, Type, Number
    <2>2. nb(op.name, "bool") \in Index /\ nb(op.name, "int") \in Index
      BY <2>1, StraightTypes, NumberSlot
    <2>3. ASSUME NEW owner \in Index
          PROVE  Understands(owner, "int", right.type) <=> right.type \in Index
      BY <2>1, SMT DEF Understands, Index, AnySet
    <2>4. "none" \notin Index /\ "bool" \notin Sequence  BY DEF Index, Sequence
    <2>5. nb_inplace(op.name, "bool") = "none" /\ nb_inplace(op.name, "int") = "none"
      BY SMT DEF nb_inplace
    <2> QED  BY <1>2, <2>1, <2>2, <2>3, <2>4, <2>5
  <1> QED  BY <1>1, <1>2, StraightTypes

\* What a code does compared to Python.  Where Python has no result the code may have one:
\* the sequence itself, when the count of a repetition is no integer.
Outcome(v, e) ==
    LET python == Python(op, left.type, right.type)
    IN  /\ python # "null" => v = python /\ ~e
        /\ v \in Type /\ v # python =>
               /\ op.name = "MULTIPLY"
               /\ \/ left.type \in Sequence /\ right.type \notin Index
                  \/ right.type \in Sequence /\ left.type \notin Index

LEMMA PythonOfStraight ==
  ASSUME Straight
  PROVE  LET a == left.type
             b == right.type
             n == op.name
         IN  Python(op, a, b) =
                 IF /\ op.inplace /\ nb_inplace(n, a) # "none"
                    /\ CallInplace(a, a, b) # "NotImplemented"
                 THEN CallInplace(a, a, b)
                 ELSE IF Understands(nb(n, a), a, b) \/ Understands(nb(n, b), a, b)
                      THEN Made(n, a, b)
                      ELSE SequenceOp(n, op.inplace, a, b)
  BY StraightTypes, PythonIs

\* The function of the left operand answers as Python would.
LEMMA LeftAnswers ==
  ASSUME Straight, LeftFunction # None, ~(op.name = "MULTIPLY" /\ LeftFunction.slot = "sq"),
         NEW v, v = Call(LeftFunction, left.type, right.type), v # "NotImplemented"
  PROVE  Outcome(v, v = "null")
  <1> DEFINE a == left.type
             b == right.type
             t == GetPyType(left.kind)
             n == op.name
             f == LeftFunction
  <1>1. Compiled(f, t)  BY FunctionIs DEF LeftFunction
  <1>2. a \in Type /\ b \in Type /\ t \in Type /\ n \in Name  BY StraightTypes
  <1>3. v = Python(op, a, b)
    <2>1. CASE f = [slot |-> "nb", owner |-> nb(n, t)] /\ ~op.inplace
      <3>1. v = CallNumber(nb(n, t), n, a, b)  BY <2>1, SMT DEF Call
      <3>2. Understands(nb(n, t), a, b) /\ v = Made(n, a, b)  BY <3>1, CallNumberIs
      <3> QED  BY <2>1, <3>2, SlotsOfLeft, PythonOfStraight
    <2>2. CASE f = [slot |-> "inplace", owner |-> nb_inplace(n, t)] /\ op.inplace
               /\ nb_inplace(n, t) # "none"
      <3>1. v = CallInplace(nb_inplace(n, t), a, b)  BY <2>2, SMT DEF Call
      <3>2. nb_inplace(n, a) = a  BY <2>2, SlotsOfLeft, SMT DEF nb_inplace
      <3> QED  BY <2>2, <3>1, <3>2, SlotsOfLeft, PythonOfStraight
    <2>3. CASE f = [slot |-> "sq", owner |-> t] /\ ~op.inplace /\ nb(n, t) = "none"
               /\ t \in Sequence /\ n \in {"ADD", "MULTIPLY"}
      <3>1. n = "ADD" /\ t = a  BY <2>3, SlotsOfLeft
      <3>2. v = CallConcat(a, a, b)  BY <2>3, <3>1, SMT DEF Call
      <3>3. ~Understands(nb(n, a), a, b) /\ ~Understands(nb(n, b), a, b)
        BY <1>2, <2>3, <3>1, NumberSlot, SMT DEF Understands, Index, Number, AnySet, Sequence
      <3>4. SequenceOp(n, op.inplace, a, b) = v
        BY <2>3, <3>1, <3>2, SMT DEF SequenceOp
      <3> QED  BY <2>3, <3>3, <3>4, PythonOfStraight
    <2> QED  BY <1>1, <2>1, <2>2, <2>3 DEF Compiled
  <1> QED  BY <1>3 DEF Outcome

\* The left function has been tried, or there is none.
LeftDeclines ==
    \/ LeftFunction = None
    \/ /\ Call(LeftFunction, left.type, right.type) = "NotImplemented"
       /\ ~(op.name = "MULTIPLY" /\ LeftFunction.slot = "sq")

\* Then Python has no use for it either, and a sequence on the left has no function.
LEMMA LeftIsOut ==
  ASSUME Straight, LeftDeclines
  PROVE  LET a == left.type
             b == right.type
             n == op.name
         IN  /\ ~op.inplace => /\ ~Understands(nb(n, a), a, b)
                               /\ ~(a \in Sequence /\ n \in {"ADD", "MULTIPLY"})
             /\ op.inplace /\ nb_inplace(n, a) # "none" =>
                    a = "set" /\ b \notin AnySet /\ LeftFunction # None
  <1> DEFINE a == left.type
             b == right.type
             t == GetPyType(left.kind)
             n == op.name
             f == LeftFunction
  <1>1. Compiled(f, t)  BY FunctionIs DEF LeftFunction
  <1>2. a \in Type /\ b \in Type /\ t \in Type /\ n \in Name /\ op.inplace \in BOOLEAN
    BY StraightTypes
  <1>3. n \in {"ADD", "MULTIPLY"} /\ a \in Sequence => nb(n, a) = "none"
    BY <1>2, NumberSlot
  <1>4. ~Understands("none", a, b)  BY DEF Understands, Index, AnySet
  <1>5. a \in Sequence => t = a  BY SlotsOfLeft DEF Index, Sequence
  <1>6. CASE f = None
    <2>1. op.inplace => nb_inplace(n, t) = "none"  BY <1>1, <1>6 DEF Compiled, None
    <2>2. ~op.inplace => nb(n, t) = "none" /\ ~(t \in Sequence /\ n \in {"ADD", "MULTIPLY"})
      BY <1>1, <1>6 DEF Compiled, None
    <2> QED  BY <1>3, <1>4, <1>5, <2>1, <2>2, SlotsOfLeft
  <1>7. CASE /\ f = [slot |-> "nb", owner |-> nb(n, t)] /\ ~op.inplace
             /\ nb(n, t) # "none" /\ f # None
    <2>1. CallNumber(nb(n, t), n, a, b) = "NotImplemented"
      BY <1>6, <1>7, SMT DEF LeftDeclines, Call
    <2>2. ~Understands(nb(n, t), a, b)
      BY <1>2, <2>1, CallNumberIs, MadeType, TypeIsAnswer
    <2> QED  BY <1>3, <1>7, <2>2, SlotsOfLeft
  <1>8. CASE /\ f = [slot |-> "inplace", owner |-> nb_inplace(n, t)] /\ op.inplace
             /\ nb_inplace(n, t) # "none" /\ f # None
    <2>1. CallInplace(nb_inplace(n, t), a, b) = "NotImplemented"
      BY <1>8, SMT DEF LeftDeclines, Call
    <2>2. nb_inplace(n, a) = a /\ nb_inplace(n, t) = a /\ a \in {"set", "dict"}
      BY <1>8, SlotsOfLeft, SMT DEF nb_inplace
    <2>3. a = "set" /\ b \notin AnySet
      BY <2>1, <2>2, SMT DEF CallInplace
    <2> QED  BY <1>8, <2>3
  <1>9. CASE f = [slot |-> "sq", owner |-> t] /\ n \in {"ADD", "MULTIPLY"} /\ f # None
             /\ t \in Sequence
    <2>1. CallConcat(t, a, b) = "NotImplemented"
      BY <1>9, SMT DEF LeftDeclines, Call
    <2>2. CallConcat(t, a, b) \in {"null", "wild", t}  BY SMT DEF CallConcat
    <2> QED  BY <1>2, <2>1, <2>2, TypeIsAnswer
  <1> QED  BY <1>1, <1>6, <1>7, <1>8, <1>9 DEF Compiled

\* The function of the right operand, which is tried last.
LEMMA RightAnswers ==
  ASSUME Straight, RightFunction # None, LeftDeclines,
         ~(op.name = "MULTIPLY" /\ RightFunction.slot = "sq"),
         NEW v, v = Call(RightFunction, left.type, right.type),
         NEW w, w = IF v = "NotImplemented" THEN "null" ELSE v
  PROVE  Outcome(w, w = "null")
  <1> DEFINE a == left.type
             b == right.type
             t == GetPyType(left.kind)
             n == op.name
             f == RightFunction
  <1>1. f = Function(right)  BY DEF RightFunction
  <1>2. Compiled(f, b)  BY <1>1, FunctionIs DEF Straight
  <1>3. a \in Type /\ b \in Type /\ t \in Type /\ n \in Name  BY StraightTypes
  <1>4. ~Understands("none", a, b)  BY DEF Understands, Index, AnySet
  <1>5. CASE f = [slot |-> "nb", owner |-> nb(n, b)] /\ ~op.inplace /\ nb(n, b) # "none"
    <2>1. v = CallNumber(nb(n, b), n, a, b)  BY <1>5, SMT DEF Call
    <2>2. v = IF Understands(nb(n, b), a, b) THEN Made(n, a, b) ELSE "NotImplemented"
      BY <2>1, CallNumberIs
    <2>3. Made(n, a, b) # "NotImplemented"  BY <1>3, MadeType, TypeIsAnswer
    <2>4. ~Understands(nb(n, a), a, b) /\ ~(a \in Sequence /\ n \in {"ADD", "MULTIPLY"})
      BY <1>5, LeftIsOut
    <2>5. CASE Understands(nb(n, b), a, b)
      <3>1. w = Python(op, a, b)  BY <1>5, <2>2, <2>3, <2>5, PythonOfStraight
      <3> QED  BY <3>1 DEF Outcome
    <2>6. CASE ~Understands(nb(n, b), a, b)
      <3>1. w = "null"  BY <2>2, <2>6
      <3>2. Python(op, a, b) = SequenceOp(n, op.inplace, a, b)
        BY <1>5, <2>4, <2>6, PythonOfStraight
      <3>3. ~(n = "MULTIPLY" /\ b \in Sequence)  BY <1>3, <1>5, NumberSlot
      <3>4. SequenceOp(n, op.inplace, a, b) = "null"
        BY <1>5, <2>4, <3>3, SMT DEF SequenceOp
      <3> QED  BY <3>1, <3>2, <3>4, TypeIsAnswer DEF Outcome
    <2> QED  BY <2>5, <2>6
  <1>6. CASE f = [slot |-> "inplace", owner |-> nb_inplace(n, b)] /\ op.inplace
             /\ nb_inplace(n, b) # "none"
    <2>1. v = CallInplace(nb_inplace(n, b), a, b)  BY <1>6, SMT DEF Call
    <2>2. /\ nb_inplace(n, b) = b /\ b \in {"set", "dict"}
          /\ n \in Bits \cup {"SUBTRACT"} /\ (b = "dict" => n = "OR")
      BY <1>6, SMT DEF nb_inplace, Bits
    <2>3. nb_inplace(n, a) # "none" => a = "set" /\ b = "dict"
      BY <1>6, <2>2, LeftIsOut DEF AnySet
    <2>4. ~(a = "frozenset" /\ b = "set")  BY <1>6 DEF Straight
    <2>5. ~(a \in AnySet /\ b = "set") /\ ~(a = "dict" /\ b = "dict")
      BY <2>2, <2>3, <2>4, SMT DEF nb_inplace, AnySet
    <2>6. w \in {"null", "wild"}
      BY <2>1, <2>2, <2>5, SMT DEF CallInplace, AnySet
    <2>7. ~Understands(nb(n, a), a, b) /\ ~Understands(nb(n, b), a, b)
      <3>1. nb(n, a) = "str" => n = "MODULO"
        BY <1>3, NumberSlot, SMT DEF Index, Sequence
      <3>2. n # "MODULO"  BY <2>2 DEF Bits
      <3>3. \A owner : Understands(owner, a, b) => owner = "str"
        BY <2>2, <2>5, SMT DEF Understands, Index, Number, AnySet
      <3>4. nb(n, b) # "str"  BY <1>3, <2>2, NumberSlot, SMT DEF Index
      <3> QED  BY <3>1, <3>2, <3>3, <3>4
    <2>8. SequenceOp(n, op.inplace, a, b) = "null"
      BY <2>2, SMT DEF SequenceOp, Bits
    <2>9. nb_inplace(n, a) # "none" => CallInplace(a, a, b) = "NotImplemented"
      BY <2>3, SMT DEF CallInplace, AnySet
    <2>10. Python(op, a, b) = "null"
      BY <2>7, <2>8, <2>9, PythonOfStraight
    <2> QED  BY <2>6, <2>10, TypeIsAnswer DEF Outcome
  <1>7. CASE f = [slot |-> "sq", owner |-> b] /\ ~op.inplace /\ nb(n, b) = "none"
             /\ b \in Sequence /\ n \in {"ADD", "MULTIPLY"}
    <2>1. n = "ADD" /\ v = CallConcat(b, a, b)  BY <1>7, SMT DEF Call
    <2>2. ~Understands(nb(n, a), a, b) /\ a \notin Sequence
      BY <1>7, LeftIsOut
    <2>3. a # b  BY <1>7, <2>2
    <2>4. w \in {"null", "wild"}  BY <2>1, <2>3, SMT DEF CallConcat
    <2>5. SequenceOp(n, op.inplace, a, b) = "null"
      BY <1>7, <2>1, <2>2, SMT DEF SequenceOp, Sequence
    <2>6. Python(op, a, b) = "null"
      BY <1>4, <1>7, <2>2, <2>5, PythonOfStraight
    <2> QED  BY <2>4, <2>6, TypeIsAnswer DEF Outcome
  <1> QED  BY <1>2, <1>5, <1>6, <1>7 DEF Compiled

\* The repetitions: of the left operand, and of the right one with the operands exchanged.
LEMMA LeftRepeats ==
  ASSUME Straight, op.name = "MULTIPLY", LeftFunction # None, LeftFunction.slot = "sq"
  PROVE  Outcome(left.type, right.type \notin Index)
  <1> DEFINE a == left.type
             b == right.type
             t == GetPyType(left.kind)
             f == LeftFunction
  <1>1. Compiled(f, t)  BY FunctionIs DEF LeftFunction
  <1>2. a \in Type /\ b \in Type /\ t \in Type /\ op.name \in Name  BY StraightTypes
  <1>3. ~op.inplace /\ nb(op.name, t) = "none" /\ t \in Sequence
    BY <1>1 DEF Compiled
  <1>4. a \in Sequence /\ nb(op.name, a) = "none"  BY <1>3, SlotsOfLeft
  <1>5. ~Understands(nb(op.name, a), a, b)
    BY <1>4, SMT DEF Understands, Index, AnySet
  <1>6. ~Understands(nb(op.name, b), a, b)
    <2>1. nb(op.name, b) # "str"  BY <1>2, NumberSlot, SMT DEF Index, Sequence
    <2> QED  BY <1>4, <2>1, SMT DEF Understands, Index, Number, AnySet, Sequence
  <1>7. SequenceOp(op.name, op.inplace, a, b) = IF b \in Index THEN a ELSE "null"
    BY <1>4, SMT DEF SequenceOp, Index, Sequence
  <1>8. Python(op, a, b) = IF b \in Index THEN a ELSE "null"
    BY <1>3, <1>5, <1>6, <1>7, PythonOfStraight
  <1> QED  BY <1>2, <1>4, <1>8, TypeIsAnswer DEF Outcome

LEMMA RightRepeats ==
  ASSUME Straight, op.name = "MULTIPLY", RightFunction # None, RightFunction.slot = "sq",
         LeftDeclines
  PROVE  /\ LeftFunction # None => Outcome(right.type, left.type \notin Index)
         /\ LeftFunction = None => Outcome("wild", FALSE)
  <1> DEFINE a == left.type
             b == right.type
             t == GetPyType(left.kind)
             f == RightFunction
  <1>1. Compiled(f, b)
    <2>1. f = Function(right)  BY DEF RightFunction
    <2> QED  BY <2>1, FunctionIs DEF Straight
  <1>2. a \in Type /\ b \in Type /\ t \in Type /\ op.name \in Name  BY StraightTypes
  <1>3. ~op.inplace /\ nb(op.name, b) = "none" /\ b \in Sequence
    BY <1>1 DEF Compiled
  <1>4. ~Understands(nb(op.name, a), a, b) /\ a \notin Sequence
    BY <1>3, LeftIsOut
  <1>5. ~Understands(nb(op.name, b), a, b)
    BY <1>3, SMT DEF Understands, Index, AnySet
  <1>6. SequenceOp(op.name, op.inplace, a, b) = IF a \in Index THEN b ELSE "null"
    BY <1>3, <1>4, SMT DEF SequenceOp, Index, Sequence
  <1>7. Python(op, a, b) = IF a \in Index THEN b ELSE "null"
    BY <1>3, <1>4, <1>5, <1>6, PythonOfStraight
  <1>8. ASSUME LeftFunction = None
        PROVE  a \notin Index
    <2>1. Compiled(LeftFunction, t)  BY FunctionIs DEF LeftFunction
    <2>2. nb(op.name, a) = "none"
      BY <1>3, <1>8, <2>1, SlotsOfLeft DEF Compiled, None
    <2> QED  BY <1>2, <2>2, NumberSlot DEF Index
  <1> QED  BY <1>2, <1>3, <1>4, <1>7, <1>8, TypeIsAnswer DEF Outcome

-----------------------------------------------------------------------------
(* The predicted kinds *)

\* The operands have the types of the kinds they were compiled for.
Exact ==
    /\ op \in Operator /\ left.kind \in Kind /\ right.kind \in Kind
    /\ left.type = GetPyType(left.kind) /\ right.type = GetPyType(right.kind)
    /\ ~(op.inplace /\ left.type = "frozenset" /\ right.type = "set")

Predicted == binary(op, left, right)

LEMMA NumericIs ==
  ASSUME NEW name, NEW a, NEW b
  PROVE  Numeric(name, a, b) =
             IF case.data = "fails" /\ name \in {"MODULO", "TRUE_DIVIDE"} THEN "null"
             ELSE IF a = "complex" \/ b = "complex" THEN "complex"
             ELSE IF name = "POWER" /\ case.data = "negative"
                  THEN IF a = "float" \/ b = "float" THEN "complex" ELSE "float"
             ELSE IF a = "float" \/ b = "float" \/ name = "TRUE_DIVIDE" THEN "float"
             ELSE IF a = "bool" /\ b = "bool" /\ name \in Bits THEN "bool"
             ELSE "int"
  <1>1. ({a, b} = {"bool"}) <=> a = "bool" /\ b = "bool"
    OBVIOUS
  <1>2. ("complex" \in {a, b} <=> a = "complex" \/ b = "complex")
        /\ ("float" \in {a, b} <=> a = "float" \/ b = "float")
    OBVIOUS
  <1> QED  BY <1>1, <1>2, SMT DEF Numeric

NumberKind == IntKind \cup {"Bool", "Float", "Complex"}

\* Operators of two numbers.
LEMMA NumbersArePredicted ==
  ASSUME Exact, left.kind \in NumberKind, right.kind \in NumberKind,
         Predicted # "Any", ~Mispredicted, Python(op, left.type, right.type) \in Type
  PROVE  Python(op, left.type, right.type) = GetPyType(Predicted)
  <1> DEFINE a == left.type
             b == right.type
             n == op.name
  <1>1. Straight
    BY SMT DEF Exact, Straight, Known, NumberKind, IntKind
  <1>2. /\ (left.kind \in IntKind <=> a = "int") /\ (left.kind = "Bool" <=> a = "bool")
        /\ (left.kind = "Float" <=> a = "float") /\ (left.kind = "Complex" <=> a = "complex")
    BY SMT DEF Exact, GetPyType, NumberKind, IntKind
  <1>3. /\ (right.kind \in IntKind <=> b = "int") /\ (right.kind = "Bool" <=> b = "bool")
        /\ (right.kind = "Float" <=> b = "float") /\ (right.kind = "Complex" <=> b = "complex")
    BY SMT DEF Exact, GetPyType, NumberKind, IntKind
  <1>4. a \in Number \cup {"complex"} /\ b \in Number \cup {"complex"}
    BY <1>2, <1>3 DEF NumberKind, Number
  <1>5. Python(op, a, b) = Numeric(n, a, b)
    <2>1. nb_inplace(n, a) = "none"  BY <1>4, SMT DEF nb_inplace, Number
    <2>2. SequenceOp(n, op.inplace, a, b) = "null"
      BY <1>4, SMT DEF SequenceOp, Number, Sequence
    <2>3. Python(op, a, b) # "null"  BY TypeIsAnswer
    <2>4. Made(n, a, b) = Numeric(n, a, b)  BY <1>4 DEF Made
    <2> QED  BY <1>1, <2>1, <2>2, <2>3, <2>4, PythonOfStraight
  <1>6. n \in Name  BY <1>1, StraightTypes
  <1>7. CASE left.kind = "Integer" /\ right.kind \in IntKind \cup {"Bool"}
    <2>1. Predicted = integerBinary(op, right.kind, right.const)
      BY <1>7, SMT DEF Predicted, binary, IntKind, SeqKind, SetKind
    <2>2. GetPyType(Predicted) = IF n = "TRUE_DIVIDE" THEN "float" ELSE "int"
      BY <1>7, <2>1, SMT DEF integerBinary, GetPyType, IntKind
    <2> QED  BY <1>2, <1>3, <1>5, <1>7, <2>2, NumericIs, TypeIsAnswer, SMT
           DEF Mispredicted, IntKind
  <1>8. CASE left.kind = "BigInteger" /\ right.kind \in IntKind \cup {"Bool"}
    <2>1. Predicted = bigIntegerBinary(op, right.kind)
      BY <1>8, SMT DEF Predicted, binary, IntKind, SeqKind, SetKind
    <2>2. GetPyType(Predicted) = IF n = "TRUE_DIVIDE" THEN "float" ELSE "int"
      BY <1>8, <2>1, SMT DEF bigIntegerBinary, GetPyType, IntKind
    <2> QED  BY <1>2, <1>3, <1>5, <1>8, <2>2, NumericIs, TypeIsAnswer, SMT
           DEF Mispredicted, IntKind
  <1>9. CASE left.kind = "Bool" /\ right.kind \in IntKind \cup {"Bool"}
    <2>1. Predicted = boolBinary(op, right.kind)
      BY <1>9, SMT DEF Predicted, binary, IntKind, SeqKind, SetKind
    <2>2. n = "MODULO" => right.kind = "Bool"  BY <1>9 DEF Mispredicted
    <2>3. GetPyType(Predicted) = IF n = "TRUE_DIVIDE" THEN "float"
                                 ELSE IF n \in Bits /\ right.kind = "Bool" THEN "bool" ELSE "int"
      BY <1>9, <2>1, <2>2, SMT DEF boolBinary, GetPyType, IntKind
    <2>4. "TRUE_DIVIDE" \notin Bits  BY DEF Bits
    <2> QED  BY <1>2, <1>3, <1>5, <1>9, <2>3, <2>4, NumericIs, TypeIsAnswer, SMT
           DEF Mispredicted, IntKind
  <1>10. CASE left.kind \in IntKind \cup {"Bool"} /\ right.kind \in {"Float", "Complex"}
    <2>1. Predicted = numberBinary(op, right.kind)
      BY <1>10, SMT DEF Predicted, binary, integerBinary, bigIntegerBinary, boolBinary,
           indexBinary, IntKind, SeqKind, SetKind
    <2>2. GetPyType(Predicted) = b
      BY <1>3, <1>10, <2>1, SMT DEF numberBinary, GetPyType, IntKind
    <2> QED  BY <1>2, <1>3, <1>5, <1>10, <2>2, NumericIs, TypeIsAnswer, SMT
           DEF Mispredicted, IntKind
  <1>11. CASE left.kind = "Float"
    <2>1. Predicted = numberBinary(op, IF right.kind \in IntKind \cup {"Bool"} THEN "Float"
                                       ELSE right.kind)
      BY <1>11, SMT DEF Predicted, binary, floatBinary, IntKind, SeqKind, SetKind
    <2>2. GetPyType(Predicted) = IF right.kind = "Complex" THEN "complex" ELSE "float"
      BY <1>11, <2>1, SMT DEF numberBinary, GetPyType, IntKind, NumberKind
    <2> QED  BY <1>2, <1>3, <1>5, <1>11, <2>2, NumericIs, TypeIsAnswer, SMT
           DEF Mispredicted, IntKind
  <1>12. CASE left.kind = "Complex"
    <2>1. Predicted = complexBinary(op, right.kind)
      BY <1>12, SMT DEF Predicted, binary, IntKind, SeqKind, SetKind
    <2>2. GetPyType(Predicted) = "complex"
      BY <1>12, <2>1, SMT DEF complexBinary, numberBinary, GetPyType, IntKind, NumberKind
    <2> QED  BY <1>2, <1>5, <1>12, <2>2, NumericIs, TypeIsAnswer, SMT
  <1> QED  BY <1>7, <1>8, <1>9, <1>10, <1>11, <1>12 DEF NumberKind, IntKind

\* A number and something else: only a repetition has a kind.
LEMMA RepetitionIsPredicted ==
  ASSUME Exact, left.kind \in NumberKind, right.kind \notin NumberKind, Predicted # "Any"
  PROVE  /\ op.name = "MULTIPLY" /\ left.type \in Index /\ right.type \in Sequence
         /\ Python(op, left.type, right.type) = GetPyType(Predicted)
  <1> DEFINE a == left.type
             b == right.type
  <1>1. CASE left.kind \in IntKind \cup {"Bool"}
    <2>1. Predicted = indexBinary(op, right.kind)
      BY <1>1, SMT DEF Predicted, binary, integerBinary, bigIntegerBinary, boolBinary,
           IntKind, SeqKind, SetKind, NumberKind
    <2>2. op.name = "MULTIPLY" /\ right.kind \in SeqKind /\ Predicted = right.kind
      BY <2>1, SMT DEF indexBinary, numberBinary, NumberKind
    <2>3. a \in Index  BY <1>1, SMT DEF Exact, GetPyType, IntKind, Index
    <2>4. b \in Sequence  BY <2>2, SMT DEF Exact, GetPyType, SeqKind, IntKind, Sequence
    <2>5. Straight
      BY <1>1, <2>2, SMT DEF Exact, Straight, Known, SeqKind, IntKind
    <2>6. a \in Type /\ b \in Type /\ op.name \in Name  BY <2>5, StraightTypes
    <2>7. nb_inplace(op.name, a) = "none"  BY <2>3, SMT DEF nb_inplace, Index
    <2>8. nb(op.name, b) = "none" /\ nb(op.name, a) \in Index
      BY <2>2, <2>3, <2>4, <2>6, NumberSlot
    <2>9. ~Understands(nb(op.name, a), a, b) /\ ~Understands(nb(op.name, b), a, b)
      BY <2>4, <2>8, SMT DEF Understands, Index, AnySet, Sequence
    <2>10. SequenceOp(op.name, op.inplace, a, b) = b
      BY <2>2, <2>3, <2>4, SMT DEF SequenceOp, Index, Sequence
    <2>11. Python(op, a, b) = b
      BY <2>5, <2>7, <2>9, <2>10, PythonOfStraight
    <2> QED  BY <2>2, <2>3, <2>4, <2>11 DEF Exact
  <1>2. CASE left.kind \in {"Float", "Complex"}
    BY <1>2, SMT DEF Predicted, binary, floatBinary, complexBinary, numberBinary,
         IntKind, SeqKind, SetKind, NumberKind
  <1> QED  BY <1>1, <1>2 DEF NumberKind

\* The text that a format with any value comes to.
LEMMA FormatIsPredicted ==
  ASSUME Exact, left.kind = "String", op.name = "MODULO",
         Python(op, left.type, right.type) \in Type
  PROVE  Python(op, left.type, right.type) = "str"
  <1> DEFINE b == right.type
  <1>1. left.type = "str"  BY SMT DEF Exact, GetPyType, IntKind
  <1>2. "str" \in Type /\ op.name \in Name /\ b \in Type /\ nb("MODULO", "str") = "str"
    <2>1. "Any" \in Kind /\ "object" \in Type  BY DEF Kind, Type
    <2>2. GetPyType("Any") = "object"  BY SMT DEF GetPyType, IntKind
    <2>3. b \in Type  BY <2>1, <2>2, KindTypes DEF Exact
    <2>4. nb("MODULO", "str") = "str"  BY SMT DEF nb, AnySet
    <2> QED  BY <2>3, <2>4 DEF Exact, Operator, Type, Sequence
  <1>3. NumberOp(op.name, "str", b) = Made("MODULO", "str", b)
    BY <1>2, NumberOpIs DEF Understands
  <1>4. Made("MODULO", "str", b) \in {"str", "null"}
    BY DEF Made, Number
  <1>5. nb_inplace(op.name, "str") = "none"  BY SMT DEF nb_inplace
  <1>6. Python(op, "str", b) \in {"str", "null"}
    BY <1>3, <1>4, <1>5, SMT DEF Python
  <1> QED  BY <1>1, <1>6, TypeIsAnswer

\* Sequences, sets and dictionaries on the left.
LEMMA ContainersArePredicted ==
  ASSUME Exact, left.kind \notin NumberKind, Predicted # "Any",
         Python(op, left.type, right.type) \in Type
  PROVE  Python(op, left.type, right.type) = GetPyType(Predicted)
  <1> DEFINE a == left.type
             b == right.type
             k == left.kind
             m == right.kind
             n == op.name
  <1>1. k \in SeqKind \cup SetKind \cup {"Dict"}
    BY SMT DEF Exact, Predicted, binary, NumberKind, IntKind, SeqKind, SetKind, Kind
  <1>2. CASE k = "String" /\ n = "MODULO"
    <2>1. Predicted = "String"
      BY <1>2, SMT DEF Predicted, binary, sequenceBinary, IntKind, SeqKind, SetKind
    <2> QED  BY <1>2, <2>1, FormatIsPredicted, SMT DEF GetPyType, IntKind
  <1>3. CASE k \in SeqKind /\ ~(k = "String" /\ n = "MODULO")
    <2>1. Predicted = sequenceBinary(op, k, m)
      BY <1>3, SMT DEF Predicted, binary, IntKind, SeqKind, SetKind
    <2>2. /\ Predicted = k
          /\ \/ n = "MULTIPLY" /\ m \in {"Bool", "Integer"}
             \/ n = "ADD" /\ m = k
             \/ n = "ADD" /\ op.inplace /\ k = "List" /\ m \in SeqKind \cup {"Set", "Dict"}
      BY <1>3, <2>1, SMT DEF sequenceBinary
    <2>3. Straight
      BY <1>3, <2>2, SMT DEF Exact, Straight, Known, SeqKind
    <2>4. a \in Type /\ b \in Type /\ n \in Name  BY <2>3, StraightTypes
    <2>5. a \in Sequence /\ (k = "List" => a = "list")
      BY <1>3, SMT DEF Exact, GetPyType, SeqKind, IntKind, Sequence
    <2>6. nb(n, a) = "none"  BY <2>2, <2>4, <2>5, NumberSlot
    <2>7. ~Understands(nb(n, b), a, b)
      <3>1. nb(n, b) # "str"  BY <2>2, <2>4, NumberSlot, SMT DEF Index, Sequence
      <3> QED  BY <2>5, <3>1, SMT DEF Understands, Index, Number, AnySet, Sequence
    <2>8. ~Understands(nb(n, a), a, b)  BY <2>6, SMT DEF Understands, Index, AnySet
    <2>9. nb_inplace(n, a) = "none"  BY <2>5, SMT DEF nb_inplace, Sequence
    <2>10. Python(op, a, b) = SequenceOp(n, op.inplace, a, b)
      BY <2>3, <2>7, <2>8, <2>9, PythonOfStraight
    <2>11. CASE n = "MULTIPLY" /\ m \in {"Bool", "Integer"}
      <3>1. b \in Index  BY <2>11, SMT DEF Exact, GetPyType, IntKind, Index
      <3>2. SequenceOp(n, op.inplace, a, b) = a
        BY <2>5, <2>11, <3>1, SMT DEF SequenceOp, Index, Sequence
      <3> QED  BY <2>2, <2>10, <3>2 DEF Exact
    <2>12. CASE n = "ADD"
      <3>1. SequenceOp(n, op.inplace, a, b) \in {a, "null"}
        <4>1. CASE op.inplace /\ a = "list"
          BY <2>12, <4>1, SMT DEF SequenceOp
        <4>2. CASE ~(op.inplace /\ a = "list")
          BY <2>5, <2>12, <4>2, SMT DEF SequenceOp, CallConcat
        <4> QED  BY <4>1, <4>2
      <3> QED  BY <2>2, <2>10, <2>12, <3>1, TypeIsAnswer DEF Exact
    <2> QED  BY <2>2, <2>11, <2>12
  <1>4. CASE k \in SetKind
    <2>1. Predicted = setBinary(op, k, m)
      BY <1>4, SMT DEF Predicted, binary, IntKind, SeqKind, SetKind
    <2>2. Predicted = k /\ n \in Bits \cup {"SUBTRACT"} /\ m \in SetKind
      BY <1>4, <2>1, SMT DEF setBinary, SetKind
    <2>3. Straight  BY <1>4, <2>2, SMT DEF Exact, Straight, Known, SetKind
    <2>4. a \in AnySet /\ b \in AnySet
      BY <1>4, <2>2, SMT DEF Exact, GetPyType, IntKind, SetKind, AnySet
    <2>5. nb(n, a) = a  BY <2>2, <2>4, SMT DEF nb, AnySet, Bits
    <2>6. Understands(nb(n, a), a, b)  BY <2>4, <2>5, SMT DEF Understands
    <2>7. Made(n, a, b) = a  BY <2>4, SMT DEF Made, Number, AnySet
    <2>8. nb_inplace(n, a) # "none" => CallInplace(a, a, b) = a
      BY <2>4, SMT DEF nb_inplace, CallInplace, AnySet
    <2>9. Python(op, a, b) = a
      BY <2>3, <2>6, <2>7, <2>8, PythonOfStraight
    <2> QED  BY <2>2, <2>9 DEF Exact
  <1>5. CASE k = "Dict"
    <2>1. n = "OR" /\ m = k /\ Predicted = k
      BY <1>5, SMT DEF Predicted, binary, IntKind, SeqKind, SetKind
    <2>2. Straight  BY <1>5, <2>1, SMT DEF Exact, Straight, Known
    <2>3. a = "dict" /\ b = "dict"  BY <1>5, <2>1, SMT DEF Exact, GetPyType, IntKind
    <2>4. nb(n, a) = a  BY <2>1, <2>3, SMT DEF nb, AnySet, Bits
    <2>5. Understands(nb(n, a), a, b)  BY <2>3, <2>4, SMT DEF Understands
    <2>6. Made(n, a, b) = a  BY <2>3, SMT DEF Made, Number
    <2>7. CallInplace(a, a, b) = a
      <3>1. {"dict"} = {a, b}  BY <2>3
      <3> QED  BY <2>3, <3>1, SMT DEF CallInplace
    <2>8. Python(op, a, b) = a
      BY <2>2, <2>5, <2>6, <2>7, PythonOfStraight
    <2> QED  BY <2>1, <2>8 DEF Exact
  <1> QED  BY <1>1, <1>2, <1>3, <1>4, <1>5

\* A repetition that has a kind counts with an integer.
LEMMA CountIsInteger ==
  ASSUME Exact, op.name = "MULTIPLY", Predicted # "Any"
  PROVE  /\ left.type \in Sequence => right.type \in Index
         /\ right.type \in Sequence => left.type \in Index
  <1> DEFINE k == left.kind
             m == right.kind
  <1>1. CASE k \in NumberKind /\ m \in NumberKind
    <2>1. \A kind \in NumberKind : GetPyType(kind) \notin Sequence
      BY SMT DEF GetPyType, NumberKind, IntKind, Sequence
    <2> QED  BY <1>1, <2>1 DEF Exact
  <1>2. CASE k \in NumberKind /\ m \notin NumberKind
    <2>1. left.type \in Index  BY <1>2, RepetitionIsPredicted
    <2> QED  BY <2>1 DEF Index, Sequence
  <1>3. CASE k \notin NumberKind
    <2>1. k \in SeqKind /\ m \in {"Bool", "Integer"}
      <3>1. k \in SeqKind
        BY <1>3, SMT DEF Exact, Predicted, binary, setBinary, NumberKind, IntKind, SeqKind,
             SetKind, Kind, Bits
      <3>2. Predicted = sequenceBinary(op, k, m)
        BY <3>1, SMT DEF Predicted, binary, IntKind, SeqKind, SetKind
      <3> QED  BY <3>1, <3>2, SMT DEF sequenceBinary
    <2>2. right.type \in Index  BY <2>1, SMT DEF Exact, GetPyType, IntKind, Index
    <2> QED  BY <2>2 DEF Index, Sequence
  <1> QED  BY <1>1, <1>2, <1>3

LEMMA OutcomeIsPredicted ==
  ASSUME Exact, NEW v \in Type, NEW e, Outcome(v, e), Predicted # "Any", ~Mispredicted
  PROVE  v = GetPyType(Predicted)
  <1>1. v = Python(op, left.type, right.type)
    BY CountIsInteger DEF Outcome
  <1> QED
    BY <1>1, NumbersArePredicted, RepetitionIsPredicted, ContainersArePredicted

-----------------------------------------------------------------------------
(* The paths through the emitted code *)

\* What stands before each part of the code.
PathInv ==
    /\ case \in Cases /\ err \in BOOLEAN
    /\ pc \in {"guard", "left", "right", "fallback", "release", "done"}
    /\ pc \in {"guard", "left", "right"} => ~err
    /\ pc \in {"left", "right"} => ~Guarded
    /\ pc = "left" => LeftFunction # None
    /\ pc = "right" => RightFunction # None /\ LeftDeclines
    /\ pc \in {"release", "done"} => Outcome(value, err)

LEMMA CompiledIsStraight ==
  ASSUME case \in Cases, ~Guarded, LeftFunction # None \/ RightFunction # None
  PROVE  Straight
  <1>1. Known(left) /\ Known(right)
    BY Zenon DEF LeftFunction, RightFunction, Function
  <1>2. case \in Case  BY CasesAssumption
  <1>3. op \in Operator /\ left.kind \in Kind /\ right.kind \in Kind
    BY <1>2 DEF Case, Operand, op, left, right
  <1>4. /\ Fresh(right) /\ (Fresh(left) \/ (left.kind = "Bool" /\ left.type = "int"))
        /\ ~(op.inplace /\ left.type = "frozenset" /\ right.type = "set")
    BY OperandsAssumption DEF OperandsAssumption, op, left, right
  <1>5. CASE left.guard \/ right.guard
    BY <1>1, <1>3, <1>4, <1>5 DEF Guarded, Straight
  <1>6. CASE ~(left.guard \/ right.guard)
    BY <1>1, <1>3, <1>4, <1>6 DEF Fresh, Straight
  <1> QED  BY <1>5, <1>6

\* Nothing of this changes while the code of one operator is run.
LEMMA SameCase ==
  ASSUME case' = case
  PROVE  /\ (LeftFunction # None)' <=> LeftFunction # None
         /\ (RightFunction # None)' <=> RightFunction # None
         /\ Guarded' <=> Guarded
         /\ LeftDeclines' <=> LeftDeclines
         /\ Outcome(value, err)' <=> Outcome(value', err')
  <1>1. op' = op /\ left' = left /\ right' = right
    BY DEF op, left, right
  <1>2. LeftFunction' = LeftFunction /\ RightFunction' = RightFunction
    BY <1>1, SMT DEF LeftFunction, RightFunction, Function, Known, None
  <1>3. Guarded' <=> Guarded
    BY <1>1, SMT DEF Guarded, Known
  <1>4. Python(op, left.type, right.type)' = Python(op, left.type, right.type)
    BY <1>1, SMT DEF Python, NumberOp, CallNumber, Numeric
  <1>5. Call(LeftFunction, left.type, right.type)' = Call(LeftFunction, left.type, right.type)
    BY <1>1, <1>2, SMT DEF Call, CallNumber, Numeric
  <1> QED  BY <1>1, <1>2, <1>3, <1>4, <1>5 DEF LeftDeclines, Outcome

LEMMA PathStep == PathInv /\ [Next]_vars => PathInv'
  <1> SUFFICES ASSUME PathInv, [Next]_vars PROVE PathInv'
    OBVIOUS
  <1>1. CASE Guard
    <2>1. /\ pc = "guard" /\ case' = case /\ err' = err
          /\ pc' = IF Guarded THEN "fallback"
                   ELSE IF LeftFunction # None THEN "left"
                   ELSE IF RightFunction # None THEN "right"
                   ELSE "fallback"
      BY <1>1, Zenon DEF Guard
    <2>2. /\ pc' \in {"left", "right", "fallback"}
          /\ pc' = "left" => ~Guarded /\ LeftFunction # None
          /\ pc' = "right" => ~Guarded /\ RightFunction # None /\ LeftFunction = None
      BY <2>1
    <2> QED  BY <2>1, <2>2, SameCase DEF PathInv, LeftDeclines
  <1>2. CASE CallLeft
    <2>1. /\ pc = "left" /\ case' = case
          /\ IF op.name = "MULTIPLY" /\ LeftFunction.slot = "sq"
             THEN Repeat(left.type, right.type)
             ELSE Calls(LeftFunction, left.type, right.type)
          /\ pc' = IF value' # "NotImplemented" THEN "release"
                   ELSE IF RightFunction # None THEN "right"
                   ELSE "fallback"
      BY <1>2, Zenon DEF CallLeft
    <2>2. LeftFunction # None /\ ~Guarded /\ case \in Cases  BY <2>1 DEF PathInv
    <2>3. Straight  BY <2>2, CompiledIsStraight
    <2>4. CASE op.name = "MULTIPLY" /\ LeftFunction.slot = "sq"
      <3>1. value' = left.type /\ err' = (right.type \notin Index)
        BY <2>1, <2>4 DEF Repeat
      <3>2. pc' = "release"  BY <2>1, <2>3, <3>1, StraightTypes, TypeIsAnswer
      <3>3. Outcome(value', err')  BY <2>2, <2>3, <2>4, <3>1, LeftRepeats
      <3> QED  BY <2>1, <2>2, <3>1, <3>2, <3>3, SameCase DEF PathInv
    <2>5. CASE ~(op.name = "MULTIPLY" /\ LeftFunction.slot = "sq")
      <3>1. /\ value' = Call(LeftFunction, left.type, right.type)
            /\ err' = (value' = "null")
        BY <2>1, <2>5 DEF Calls
      <3>2. CASE value' # "NotImplemented"
        <4>1. Outcome(value', err')  BY <2>2, <2>3, <2>5, <3>1, <3>2, LeftAnswers
        <4> QED  BY <2>1, <2>2, <3>1, <3>2, <4>1, SameCase DEF PathInv
      <3>3. CASE value' = "NotImplemented"
        <4>1. LeftDeclines /\ ~err'  BY <2>5, <3>1, <3>3 DEF LeftDeclines
        <4>2. pc' \in {"right", "fallback"} /\ (pc' = "right" => RightFunction # None)
          BY <2>1, <3>3
        <4> QED  BY <2>1, <2>2, <3>1, <4>1, <4>2, SameCase DEF PathInv
      <3> QED  BY <3>2, <3>3
    <2> QED  BY <2>4, <2>5
  <1>3. CASE CallRight
    <2>1. pc = "right" /\ pc' = "release" /\ case' = case
      BY <1>3, Zenon DEF CallRight
    <2>2. /\ RightFunction # None /\ LeftDeclines /\ ~Guarded /\ case \in Cases
          /\ err = FALSE
      BY <2>1 DEF PathInv
    <2>3. Straight  BY <2>2, CompiledIsStraight
    <2>4. Outcome(value', err') /\ err' \in BOOLEAN
      <3>1. CASE op.name = "MULTIPLY" /\ RightFunction.slot = "sq"
        <4>1. IF LeftFunction # None THEN Repeat(right.type, left.type)
              ELSE value' = "wild" /\ UNCHANGED err
          BY <1>3, <3>1, Zenon DEF CallRight
        <4>2. CASE LeftFunction # None
          <5>1. value' = right.type /\ err' = (left.type \notin Index)
            BY <4>1, <4>2 DEF Repeat
          <5> QED  BY <2>2, <2>3, <3>1, <4>2, <5>1, RightRepeats
        <4>3. CASE LeftFunction = None
          <5>1. value' = "wild" /\ err' = FALSE  BY <2>2, <4>1, <4>3
          <5> QED  BY <2>2, <2>3, <3>1, <4>3, <5>1, RightRepeats
        <4> QED  BY <4>2, <4>3
      <3>2. CASE ~(op.name = "MULTIPLY" /\ RightFunction.slot = "sq")
        <4>1. PICK v : v = Call(RightFunction, left.type, right.type)
          OBVIOUS
        <4>2. /\ value' = IF v = "NotImplemented" THEN "null" ELSE v
              /\ err' = (value' = "null")
          BY <1>3, <3>2, <4>1, Zenon DEF CallRight
        <4> QED  BY <2>2, <2>3, <3>2, <4>1, <4>2, RightAnswers
      <3> QED  BY <3>1, <3>2
    <2> QED  BY <2>1, <2>2, <2>4, SameCase DEF PathInv
  <1>4. CASE Fallback
    <2>1. /\ pc' = "done" /\ case' = case
          /\ value' = Python(op, left.type, right.type) /\ err' = (value' = "null")
      BY <1>4, Zenon DEF Fallback
    <2>2. Outcome(value', err')  BY <2>1 DEF Outcome
    <2>3. case' \in Cases /\ err' \in BOOLEAN  BY <2>1 DEF PathInv
    <2> QED  BY <2>1, <2>2, <2>3, SameCase DEF PathInv
  <1>5. CASE Release
    <2>1. pc = "release" /\ pc' = "done" /\ case' = case /\ value' = value /\ err' = err
      BY <1>5, Zenon DEF Release
    <2>2. Outcome(value', err')  BY <2>1 DEF PathInv
    <2> QED  BY <2>1, <2>2, SameCase DEF PathInv
  <1>6. CASE Continue
    <2>1. pc' = "guard" /\ ~err /\ err' = err /\ Result \in DOMAIN Continuations
          /\ case' \in Continuations[Result]
      BY <1>6, Zenon DEF Continue
    <2>2. case' \in Cases  BY <2>1, Zenon DEF Continuations
    <2> QED  BY <2>1, <2>2 DEF PathInv
  <1>7. CASE UNCHANGED vars
    <2>1. pc' = pc /\ case' = case /\ value' = value /\ err' = err  BY <1>7 DEF vars
    <2>2. Outcome(value', err') <=> Outcome(value, err)  BY <2>1
    <2> QED  BY <2>1, <2>2, SameCase DEF PathInv
  <1>8. QED
    BY <1>1, <1>2, <1>3, <1>4, <1>5, <1>6, <1>7 DEF Next

LEMMA PathSafe == Spec => []PathInv
  <1>1. Init => PathInv
    BY DEF Init, PathInv
  <1>2. QED
    BY <1>1, PathStep, PTL DEF Spec

\* Where Python defines the operation, the functions that are compiled in, tried one after the
\* other with the operands as they are or exchanged, come to Python's result.
THEOREM CompiledIsPythons == Spec => []DefinedIsSame
  <1>1. PathInv => DefinedIsSame
    BY DEF PathInv, DefinedIsSame, Outcome
  <1>2. QED
    BY <1>1, PathSafe, PTL

\* The kind the tables give a result, and the next operator is compiled on without a guard, is
\* the kind of the value; except for the powers and the remainders that Mispredicted names.
THEOREM KindsArePredicted == Spec => []ResultIsPredicted
  <1>1. ASSUME PathInv, pc = "done", value \in Type, Known(Result), ~Mispredicted,
               \A operand \in {left, right} : operand.type = GetPyType(operand.kind)
        PROVE  value = GetPyType(Result.kind)
    <2>1. Outcome(value, err) /\ case \in Cases  BY <1>1 DEF PathInv
    <2>2. Result.kind = Predicted  BY DEF Result, Predicted
    <2>3. Predicted # "Any"  BY <1>1, <2>2 DEF Known
    <2>4. case \in Case  BY <2>1, CasesAssumption
    <2>5. op \in Operator /\ left.kind \in Kind /\ right.kind \in Kind
      BY <2>4 DEF Case, Operand, op, left, right
    <2>6. ~(op.inplace /\ left.type = "frozenset" /\ right.type = "set")
      BY <2>1, OperandsAssumption DEF OperandsAssumption, op, left, right
    <2>7. Exact  BY <1>1, <2>5, <2>6 DEF Exact
    <2> QED  BY <1>1, <2>1, <2>2, <2>3, <2>7, OutcomeIsPredicted
  <1>2. PathInv => ResultIsPredicted
    BY <1>1 DEF ResultIsPredicted
  <1>3. QED
    BY <1>2, PathSafe, PTL
=============================================================================

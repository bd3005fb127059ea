--------------------------- MODULE FeedbackProofs ---------------------------
(***************************************************************************)
(* Compiled sums agree with the interpreter's, guesses are guarded, and a  *)
(* guard fails only when something has changed: theorems about Feedback,   *)
(* for every function, every set of kinds, namespaces and types, and every *)
(* history of what was learned.                                            *)
(*                                                                         *)
(* analyse and escapes are recursive functions: the lemmas find the        *)
(* functions that satisfy the recursions, and reason from one addition to  *)
(* the one before it.                                                      *)
(***************************************************************************)
EXTENDS Feedback, CachedGlobalsProofs, WellFoundedInduction

\* The code that runs or is final was made by a compilation, and the frame has its
\* fields.
FrameOK ==
    /\ frame.running \/ status = "Optimized" => code.global \in compiled
    /\ frame.running =>
           /\ frame = [running |-> TRUE, g |-> frame.g, k |-> frame.k, owner |-> frame.owner,
                       left |-> frame.left, py |-> frame.py, misread |-> frame.misread]
           /\ frame.g \in Globals

\* The sums agree at every step, as long as nothing was misread.
SumsAgree ==
    frame.running /\ frame.left # "guard" /\ frame.misread = "no" => frame.left = frame.py

FeedbackInv == CacheInv /\ FrameOK /\ SumsAgree

-----------------------------------------------------------------------------
(* The caches *)

LEMMA InitImplementsGlobals == Init => GlobalsInit
  <1> SUFFICES ASSUME Init PROVE GlobalsInit
    OBVIOUS
  <1>1. PICK v \in [Dict -> Value \cup {Unbound}] :
            dict = [d \in Dict |-> [value |-> v[d], tag |-> FirstTag[d]]]
    BY DEF Init
  <1>2. dict \in [Dict -> [value : Value \cup {Unbound}, tag : Nat]]
    BY <1>1, FirstTagAssumption
  <1>3. \A d \in Dict : dict[d].tag = FirstTag[d]
    BY <1>1
  <1>4. QED
    BY <1>2, <1>3, FirstTagAssumption DEF Init, GlobalsInit

\* What an addition leaves alone.
LEMMA AddFrame ==
    ASSUME NEW jit, NEW py, Add(jit, py)
    PROVE  UNCHANGED <<globalVars, code, body, status>>
  BY DEF Add

\* Every step of the program around the caches is one of theirs, or none.
LEMMA NextImplementsGlobals ==
    ASSUME [Next]_vars
    PROVE  [GlobalsNext]_globalVars
  <1>1. CASE \E g \in Globals, o \in Owner : Call(g, o)
    BY <1>1 DEF Call, GlobalsNext, globalVars
  <1>2. CASE AddConst \/ AddGlobal \/ AddAttr \/ \E v \in Value : AddCall(v)
    BY <1>2, AddFrame DEF AddConst, AddGlobal, AddAttr, AddCall
  <1>3. CASE Return
    BY <1>3 DEF Return
  <1>4. CASE \E d \in Dict, v \in Value \cup {Unbound} : BindName(d, v)
    BY <1>4 DEF BindName, GlobalsNext
  <1>5. CASE \E o \in Owner, v \in AttrValue : StoreAttr(o, v) \/ CompileStore(o, v)
    BY <1>5 DEF StoreAttr, CompileStore
  <1>6. CASE UNCHANGED vars
    BY <1>6 DEF vars
  <1>7. QED
    BY <1>1, <1>2, <1>3, <1>4, <1>5, <1>6 DEF Next

\* The names and caches of a running program behave as CachedGlobals says, so what
\* is proved of it holds here (absint.cpp:509-543, pycomp.cpp:1082-1115).
THEOREM FeedbackImplementsGlobals == Spec => GlobalsSpec
  BY InitImplementsGlobals, NextImplementsGlobals, PTL DEF Spec, GlobalsSpec

-----------------------------------------------------------------------------
(* The sums *)

\* An operand that is not misread is converted to itself or fails its guard.
LEMMA NotMisread ==
    ASSUME NEW k, NEW side, NEW v, ~Misreads(k, side, v)
    PROVE  unboxed(k, side, v) \in {v, "guard"}
  BY DEF Misreads, unboxed

LEMMA GuardFails ==
    ASSUME NEW one, NEW two, "guard" \in {one, two}, {one, two} \cap Error = {"guard"}
    PROVE  Sum(one, two) = "guard"
  <1>1. Sum(one, two) = CHOOSE e \in Error : e \in {one, two}
    BY DEF Sum
  <1>2. \E e \in Error : e \in {one, two}
    OBVIOUS
  <1>3. (CHOOSE e \in Error : e \in {one, two}) \in Error \cap {one, two}
    BY <1>2
  <1>4. QED
    BY <1>1, <1>3

\* An addition whose operands are not misread is the interpreter's, or gives up.
LEMMA CompiledSumAgrees ==
    ASSUME NEW k, NEW one, NEW two, one \notin Error,
           two \notin Error => Misreading(k, one, two) = "no"
    PROVE  compiledSum(k, one, two) \in {Sum(one, two), "guard"}
  <1>1. CASE two \in Error \/ ~code.escape[k]
    BY <1>1 DEF compiledSum
  <1>2. CASE two \notin Error /\ code.escape[k]
    <2>1. \A s \in {"left", "right"} : ~Misreads(k, s, IF s = "left" THEN one ELSE two)
      BY <1>2 DEF Misreading
    <2>2. unboxed(k, "left", one) \in {one, "guard"}
      <3>1. ~Misreads(k, "left", one)
        BY <2>1
      <3>2. QED
        BY <3>1, NotMisread
    <2>3. unboxed(k, "right", two) \in {two, "guard"}
      <3>1. ~Misreads(k, "right", two)
        BY <2>1
      <3>2. QED
        BY <3>1, NotMisread
    <2>4. compiledSum(k, one, two) = Sum(unboxed(k, "left", one), unboxed(k, "right", two))
      BY <1>2 DEF compiledSum
    <2>5. CASE unboxed(k, "left", one) = one /\ unboxed(k, "right", two) = two
      BY <2>4, <2>5
    <2>6. CASE "guard" \in {unboxed(k, "left", one), unboxed(k, "right", two)}
      <3>1. {unboxed(k, "left", one), unboxed(k, "right", two)} \cap Error = {"guard"}
        BY <1>2, <2>2, <2>3, <2>6 DEF Error
      <3>2. QED
        BY <2>4, <2>6, <3>1, GuardFails
    <2>7. QED
      BY <2>2, <2>3, <2>5, <2>6
  <1>3. QED
    BY <1>1, <1>2

\* Adding an operand that both have keeps the sums equal.
LEMMA AddAgrees ==
    ASSUME FrameOK, SumsAgree, NEW v, Add(v, v), frame.running, ~Ended
    PROVE  FrameOK' /\ SumsAgree'
  <1>1. frame' = [frame EXCEPT
            !.k = frame.k + 1,
            !.left = IF frame.k + 1 = 1 THEN v ELSE compiledSum(frame.k + 1, frame.left, v),
            !.py = IF frame.k + 1 = 1 THEN v ELSE Sum(frame.py, v),
            !.misread = IF (frame.k + 1 # 1 /\ v \notin Error) /\ frame.misread = "no"
                        THEN Misreading(frame.k + 1, frame.left, v) ELSE frame.misread]
    BY DEF Add
  <1> DEFINE f == frame
             k == f.k + 1
             adds == k # 1 /\ v \notin Error
             left == IF k = 1 THEN v ELSE compiledSum(k, f.left, v)
             py == IF k = 1 THEN v ELSE Sum(f.py, v)
             misread == IF adds /\ f.misread = "no" THEN Misreading(k, f.left, v) ELSE f.misread
  <1>2. f = [running |-> TRUE, g |-> f.g, k |-> f.k, owner |-> f.owner,
             left |-> f.left, py |-> f.py, misread |-> f.misread]
    BY DEF FrameOK
  <1> HIDE DEF left, py, misread, k
  <1>3. frame' = [running |-> TRUE, g |-> f.g, k |-> k, owner |-> f.owner,
                  left |-> left, py |-> py, misread |-> misread]
    <2>1. frame' = [f EXCEPT !.k = k, !.left = left, !.py = py, !.misread = misread]
      BY <1>1 DEF left, py, misread, k
    <2>2. QED
      BY <1>2, <2>1
  <1>4. FrameOK'
    BY <1>3, AddFrame DEF FrameOK, globalVars
  <1>5. SumsAgree'
    <2> SUFFICES ASSUME left # "guard", misread = "no"
                 PROVE  left = py
      BY <1>3 DEF SumsAgree
    <2>1. CASE k = 1
      BY <2>1 DEF left, py
    <2>2. CASE k # 1
      <3>1. f.misread = "no"
        BY DEF misread
      <3>2. f.left \notin Error /\ f.left = f.py
        BY <3>1 DEF Ended, SumsAgree, Error
      <3>3. v \notin Error => Misreading(k, f.left, v) = "no"
        BY <2>2, <3>1 DEF misread
      <3>4. compiledSum(k, f.left, v) \in {Sum(f.left, v), "guard"}
        BY <3>2, <3>3, CompiledSumAgrees
      <3>5. QED
        BY <2>2, <3>2, <3>4 DEF left, py
    <2>3. QED
      BY <2>1, <2>2
  <1>6. QED
    BY <1>4, <1>5

-----------------------------------------------------------------------------
(* The invariant *)

\* A global that is not bound raises in both.
LEMMA GlobalAgrees ==
    ASSUME CacheInv, FrameOK, frame.running
    PROVE  emit_load_global(code.global, frame.g) = LoadGlobal(frame.g)
  BY DEF CacheInv, TagsIdentify, FrameOK, emit_load_global

LEMMA StepAgrees ==
    ASSUME FeedbackInv, [Next]_vars
    PROVE  FrameOK' /\ SumsAgree'
  <1> USE DEF FeedbackInv
  <1>1. ASSUME NEW g \in Globals, NEW o \in Owner, Call(g, o)
        PROVE  FrameOK' /\ SumsAgree'
    <2>1. frame' = [running |-> TRUE, g |-> g, k |-> 0, owner |-> o, left |-> Unbound,
                    py |-> Unbound, misread |-> "no"]
      BY <1>1 DEF Call
    <2>2. code'.global \in compiled'
      <3>1. CASE status = "Optimized"
        BY <1>1, <3>1 DEF Call, FrameOK, globalVars
      <3>2. CASE status # "Optimized"
        BY <1>1, <3>2 DEF Call, compile, Resolve
      <3>3. QED
        BY <3>1, <3>2
    <2>3. QED
      BY <2>1, <2>2 DEF FrameOK, SumsAgree
  <1>2. CASE AddConst
    BY <1>2, AddAgrees DEF AddConst, Steps
  <1>3. ASSUME NEW v \in Value, AddCall(v)
        PROVE  FrameOK' /\ SumsAgree'
    BY <1>3, AddAgrees DEF AddCall, Steps
  <1>4. CASE AddGlobal
    BY <1>4, AddAgrees, GlobalAgrees DEF AddGlobal, Steps
  <1>5. CASE AddAttr
    BY <1>5, AddAgrees DEF AddAttr, Steps
  <1>6. CASE Return
    <2>1. frame.running /\ ~frame'.running /\ UNCHANGED <<compiled, code>>
      BY <1>6 DEF Return, Idle, globalVars
    <2>2. QED
      BY <2>1 DEF FrameOK, SumsAgree
  <1>7. ASSUME NEW d \in Dict, NEW v \in Value \cup {Unbound}, BindName(d, v)
        PROVE  FrameOK' /\ SumsAgree'
    BY <1>7 DEF BindName, Bind, learnedVars, FrameOK, SumsAgree
  <1>8. ASSUME NEW o \in Owner, NEW v \in AttrValue, StoreAttr(o, v) \/ CompileStore(o, v)
        PROVE  FrameOK' /\ SumsAgree'
    BY <1>8 DEF StoreAttr, CompileStore, learnedVars, globalVars, FrameOK, SumsAgree
  <1>9. CASE UNCHANGED vars
    BY <1>9 DEF vars, learnedVars, globalVars, FrameOK, SumsAgree
  <1>10. QED
    BY <1>1, <1>2, <1>3, <1>4, <1>5, <1>6, <1>7, <1>8, <1>9 DEF Next

LEMMA FeedbackInvariant == Spec => []FeedbackInv
  <1>1. Init => FrameOK /\ SumsAgree
    BY DEF Init, Idle, FrameOK, SumsAgree
  <1>2. CacheInv /\ (FrameOK /\ SumsAgree) /\ [Next]_vars => (FrameOK /\ SumsAgree)'
    BY StepAgrees DEF FeedbackInv
  <1>3. Spec => []CacheInv
    BY FeedbackImplementsGlobals, CacheIsInvariant, PTL
  <1>4. QED
    BY <1>1, <1>2, <1>3, PTL DEF Spec, FeedbackInv

\* Compiled code loads the global the interpreter would load, in a running program
\* that compiles, calls and binds names as it likes (pycomp.cpp:1082).
THEOREM LoadsStayCurrent == Spec => []LoadsAreCurrent
  BY FeedbackImplementsGlobals, CompiledLoadsAreCurrent, PTL

-----------------------------------------------------------------------------
(* The reads *)

\* What the analysis of a body hands to the compiler: a kind that is taken for
\* certain comes from a constant, a builtin or a sum, and a sum of operands that
\* can be machine words, in front of one that is, is a machine word.
Guarded(ops, escape) ==
    \A k \in Additions :
        /\ \A s \in {"left", "right"} :
               ops[k][s].kind = "Float" /\ ~ops[k][s].guard =>
                   \/ ops[k][s].fixed
                   \/ /\ s = "left" /\ k > 2
                      /\ \A t \in {"left", "right"} :
                             ops[k - 1][t].kind \in {"Float", "Integer", "BigInteger"}
        /\ escape[k] => \A s \in {"left", "right"} : supportsEscaping(ops[k][s].kind)
        /\ /\ k > 2 /\ escape[k]
           /\ \A t \in {"left", "right"} : ops[k - 1][t].kind \in {"Float", "Integer"}
           => escape[k - 1]

ReadsInv ==
    /\ body \in Bodies
    /\ frame.running \/ status = "Optimized" => Guarded(code.operands, code.escape)
    /\ frame.running => frame.k \in 0..Len(body) /\ frame.misread \in {"no", "trusted"}

LEMMA SmallestOf ==
    ASSUME NEW T, T \subseteq Nat, T # {}
    PROVE  \E x \in T : \A y \in T : x <= y
  <1> DEFINE R == OpToRel(<, Nat)
  <1>1. IsWellFoundedOn(R, Nat)
    BY NatLessThanWellFounded, Zenon
  <1>2. \A x, y \in Nat : y < x => <<y, x>> \in R
    BY DEF OpToRel
  <1> HIDE DEF R
  <1>3. PICK x \in T : \A y \in T : ~ (<<y, x>> \in R)
    BY <1>1, WFMin
  <1>4. \A y \in T : ~(y < x)
    BY <1>2, <1>3
  <1>5. QED
    BY <1>4

\* What the profile adds has to be guarded.
LEMMA ProfileGuards ==
    ASSUME NEW x, NEW e
    PROVE  fromPgc(x, e) = x \/ fromPgc(x, e).guard
  BY DEF fromPgc, Volatile, AbstractValue

LEMMA LoadsGuard ==
    ASSUME NEW k, NEW g, NEW o, body[k] \in Origin, loadedValue(k, g, o).kind = "Float"
    PROVE  loadedValue(k, g, o).guard \/ loadedValue(k, g, o).fixed
  <1>1. CASE body[k] = "Const"
    <2>1. loadedValue(k, g, o) = AbstractValue("Float", FALSE, TRUE)
      BY <1>1, Zenon DEF loadedValue
    <2>2. QED
      BY <2>1 DEF AbstractValue
  <1>2. CASE body[k] = "Call"
    <2>1. loadedValue(k, g, o) = AnyValue
      BY <1>2, Zenon DEF loadedValue
    <2>2. QED
      BY <2>1 DEF AbstractValue, AnyValue
  <1>3. CASE body[k] = "Global"
    <2>1. loadedValue(k, g, o) = globalValue(g)
      BY <1>3, Zenon DEF loadedValue
    <2>2. QED
      BY <2>1 DEF globalValue, AbstractValue, AnyValue, Volatile
  <1>4. CASE body[k] = "Attr"
    <2>1. loadedValue(k, g, o) = attrValue(k, o)
      BY <1>4, Zenon DEF loadedValue
    <2>2. QED
      BY <2>1 DEF attrValue, getAttr, AbstractValue, AnyValue, Volatile
  <1>5. QED
    BY <1>1, <1>2, <1>3, <1>4 DEF Origin

\* The kinds of sums that the tables have.
LEMMA SumKindCases ==
    ASSUME NEW one, NEW two
    PROVE  \/ /\ sumKind(one, two) = "Any"
              /\ ~({one.kind, two.kind} \subseteq {"Float", "Integer", "BigInteger"})
           \/ /\ {one.kind, two.kind} \subseteq {"Float", "Integer", "BigInteger"}
              /\ sumKind(one, two) =
                     IF "Float" \in {one.kind, two.kind} THEN "Float"
                     ELSE IF {one.kind, two.kind} = {"Integer"} THEN "Integer" ELSE "BigInteger"
           \/ /\ \/ one.kind \in {"Float", "Integer", "BigInteger"} /\ two.kind = "Complex"
                 \/ one.kind = "Complex" /\ two.kind \in {"Float", "Integer", "Complex"}
              /\ sumKind(one, two) = "Complex"
           \/ {one.kind, two.kind} = {"String"} /\ sumKind(one, two) = "String"
  <1> DEFINE kinds == {one.kind, two.kind}
             small == kinds \subseteq {"Float", "Integer", "BigInteger"}
             right == one.kind \in {"Float", "Integer", "BigInteger"} /\ two.kind = "Complex"
             left == ~one.guard /\ one.kind = "Complex" /\ two.kind \in {"Float", "Integer", "Complex"}
             strings == ~one.guard /\ kinds = {"String"}
  <1>1. CASE small
    <2>1. ~right /\ ~left /\ ~strings
      BY <1>1
    <2>2. QED
      BY <1>1, <2>1, Zenon DEF sumKind
  <1>2. CASE right
    <2>1. ~small /\ ~left /\ ~strings
      BY <1>2
    <2>2. QED
      BY <1>2, <2>1, Zenon DEF sumKind
  <1>3. CASE left
    <2>1. ~small /\ ~right /\ ~strings
      BY <1>3
    <2>2. QED
      BY <1>3, <2>1, Zenon DEF sumKind
  <1>4. CASE strings
    <2>1. ~small /\ ~right /\ ~left
      BY <1>4
    <2>2. QED
      BY <1>4, <2>1, Zenon DEF sumKind
  <1>5. CASE ~small /\ ~right /\ ~left /\ ~strings
    BY <1>5, Zenon DEF sumKind
  <1>6. QED
    BY <1>1, <1>2, <1>3, <1>4, <1>5

LEMMA SumKinds ==
    ASSUME NEW one, NEW two
    PROVE  /\ sumKind(one, two) = "Float" =>
                  {one.kind, two.kind} \subseteq {"Float", "Integer", "BigInteger"}
           /\ {one.kind, two.kind} \subseteq {"Float", "Integer"} =>
                  sumKind(one, two) \in {"Float", "Integer"}
  <1> DEFINE small == {one.kind, two.kind} \subseteq {"Float", "Integer", "BigInteger"}
  <1>1. CASE small
    BY <1>1, SumKindCases
  <1>2. CASE ~small
    BY <1>2, SumKindCases
  <1>3. QED
    BY <1>1, <1>2

\* The operands of the analysis, addition by addition.
Operands(g, o, f) ==
    f = [k \in Additions |->
            profiled(k, IF k = 2 THEN loadedValue(1, g, o)
                        ELSE binary(f[k - 1].left, f[k - 1].right),
                     loadedValue(k, g, o))]

LEMMA OperandsExist ==
    ASSUME NEW g, NEW o, Len(body) \in Nat, Len(body) > 1
    PROVE  \E f : Operands(g, o, f)
  <1> DEFINE Step(f, k) == profiled(k, IF k = 2 THEN loadedValue(1, g, o)
                                       ELSE binary(f[k - 1].left, f[k - 1].right),
                                    loadedValue(k, g, o))
             Upto(f, n) == f = [k \in 2..n |-> Step(f, k)]
             Has(n) == \E f : Upto(f, n)
             T == {n \in Nat : n > 1 /\ ~Has(n)}
  <1>1. ASSUME T # {} PROVE FALSE
    <2> HIDE DEF Has
    <2>1. PICK n \in T : \A m \in T : n <= m
      <3>1. T \subseteq Nat
        OBVIOUS
      <3> HIDE DEF T
      <3>2. QED
        BY <1>1, <3>1, SmallestOf
    <2>2. n \in Nat /\ n > 1 /\ ~Has(n) /\ n - 1 \in Nat /\ (n > 2 => Has(n - 1))
      <3>1. n > 2 => n - 1 \in Nat /\ n - 1 > 1 /\ ~(n <= n - 1)
        BY <2>1
      <3>2. QED
        BY <2>1, <3>1
    <2>3. PICK f : n > 2 => Upto(f, n - 1)
      BY <2>2 DEF Has
    <2>4. n > 2 => \A k \in 2..(n - 1) : f[k] = Step(f, k)
      <3> HIDE DEF Step
      <3>1. QED
        BY <2>3
    <2> DEFINE h == [k \in 2..n |-> IF k = n THEN Step(f, n) ELSE f[k]]
    <2>5. ASSUME NEW k \in 2..n
          PROVE  h[k] = Step(h, k)
      <3> HIDE DEF Step
      <3>1. k = 2 \/ (k - 1 \in 2..(n - 1) /\ h[k - 1] = f[k - 1])
        BY <2>2
      <3>2. h[k] = Step(f, k)
        <4>1. CASE k = n
          BY <4>1
        <4>2. CASE k # n
          <5>1. n > 2 /\ k \in 2..(n - 1)
            BY <2>2, <4>2
          <5>2. QED
            BY <2>4, <4>2, <5>1
        <4>3. QED
          BY <4>1, <4>2
      <3> HIDE DEF h
      <3>3. Step(f, k) = Step(h, k)
        BY <3>1, Zenon DEF Step
      <3>4. QED
        BY <3>2, <3>3
    <2>6. h = [k \in 2..n |-> h[k]]
      OBVIOUS
    <2> HIDE DEF h, Step
    <2>7. Upto(h, n)
      BY <2>5, <2>6
    <2>8. QED
      BY <2>2, <2>7 DEF Has
  <1>2. \E f : Upto(f, Len(body))
    <2> HIDE DEF Upto
    <2>1. QED
      BY <1>1
  <1>3. QED
    BY <1>2, Zenon DEF Operands, Additions

LEMMA AnalysedOperands ==
    ASSUME NEW g, NEW o, Len(body) \in Nat, Len(body) > 1
    PROVE  Operands(g, o, analyse(g, o))
  <1>1. analyse(g, o) = CHOOSE f : Operands(g, o, f)
    BY Zenon DEF analyse, Operands
  <1>2. QED
    BY <1>1, OperandsExist, Zenon

\* Whether an addition could work on machine words, and where that spreads.
Can(ops, k) ==
    /\ supportsEscaping(ops[k].left.kind)
    /\ supportsEscaping(ops[k].right.kind)
    /\ supportsEscaping(binary(ops[k].left, ops[k].right).kind)

Escape(ops, before, k) ==
    IF k = 1 THEN body[1] = "Const" /\ Can(ops, 2)
    ELSE /\ Can(ops, k)
         /\ \/ before \/ body[k] = "Const"
            \/ k < Len(body) /\ Can(ops, k + 1)

Escapes(ops, f) == f = [k \in DOMAIN body |-> Escape(ops, f[k - 1], k)]

LEMMA EscapesExist ==
    ASSUME NEW ops, body \in Seq(Origin), Len(body) > 1
    PROVE  \E f : Escapes(ops, f)
  <1> DEFINE Upto(f, n) == f = [k \in 1..n |-> Escape(ops, f[k - 1], k)]
             Has(n) == \E f : Upto(f, n)
             T == {n \in Nat : n > 0 /\ ~Has(n)}
  <1>1. ASSUME T # {} PROVE FALSE
    <2> HIDE DEF Has
    <2>1. PICK n \in T : \A m \in T : n <= m
      <3>1. T \subseteq Nat
        OBVIOUS
      <3> HIDE DEF T
      <3>2. QED
        BY <1>1, <3>1, SmallestOf
    <2>2. n \in Nat /\ n > 0 /\ ~Has(n) /\ n - 1 \in Nat /\ (n > 1 => Has(n - 1))
      <3>1. n > 1 => n - 1 \in Nat /\ n - 1 > 0 /\ ~(n <= n - 1)
        BY <2>1
      <3>2. QED
        BY <2>1, <3>1
    <2>3. PICK f : n > 1 => Upto(f, n - 1)
      BY <2>2 DEF Has
    <2>4. n > 1 => \A k \in 1..(n - 1) : f[k] = Escape(ops, f[k - 1], k)
      BY <2>3
    <2> DEFINE h == [k \in 1..n |-> IF k = n THEN Escape(ops, f[n - 1], n) ELSE f[k]]
    <2>5. ASSUME NEW k \in 1..n
          PROVE  h[k] = Escape(ops, h[k - 1], k)
      <3>1. k = 1 \/ (k - 1 \in 1..(n - 1) /\ h[k - 1] = f[k - 1])
        BY <2>2
      <3>2. h[k] = Escape(ops, f[k - 1], k)
        <4>1. CASE k = n
          BY <4>1
        <4>2. CASE k # n
          <5>1. n > 1 /\ k \in 1..(n - 1)
            BY <2>2, <4>2
          <5>2. QED
            BY <2>4, <4>2, <5>1
        <4>3. QED
          BY <4>1, <4>2
      <3> HIDE DEF h
      <3>3. Escape(ops, f[k - 1], k) = Escape(ops, h[k - 1], k)
        <4>1. CASE k = 1
          BY <4>1, Zenon DEF Escape
        <4>2. CASE h[k - 1] = f[k - 1]
          BY <4>2, Zenon
        <4>3. QED
          BY <3>1, <4>1, <4>2
      <3>4. QED
        BY <3>2, <3>3, Zenon
    <2>6. h = [k \in 1..n |-> h[k]]
      OBVIOUS
    <2> HIDE DEF h
    <2>7. Upto(h, n)
      BY <2>5, <2>6
    <2>8. QED
      BY <2>2, <2>7 DEF Has
  <1>2. \E f : Upto(f, Len(body))
    <2> HIDE DEF Upto
    <2>1. Len(body) \in Nat
      OBVIOUS
    <2>2. QED
      BY <1>1, <2>1
  <1>3. DOMAIN body = 1..Len(body)
    OBVIOUS
  <1>4. QED
    BY <1>2, <1>3, Zenon DEF Escapes

LEMMA EscapesOf ==
    ASSUME NEW ops, body \in Seq(Origin), Len(body) > 1
    PROVE  Escapes(ops, escapes(ops))
  <1>1. escapes(ops) = CHOOSE f : Escapes(ops, f)
    BY Zenon DEF escapes, Escapes, Escape, Can
  <1>2. QED
    BY <1>1, EscapesExist, Zenon

LEMMA ProfiledGuards ==
    ASSUME NEW k, NEW one, NEW two
    PROVE  /\ profiled(k, one, two).left = one \/ profiled(k, one, two).left.guard
           /\ profiled(k, one, two).right = two \/ profiled(k, one, two).right.guard
  <1>1. CASE learns
    <2>1. /\ profiled(k, one, two).left = fromPgc(one, profile[k].left)
          /\ profiled(k, one, two).right = fromPgc(two, profile[k].right)
      <3>1. profiled(k, one, two) = [left  |-> fromPgc(one, profile[k].left),
                                     right |-> fromPgc(two, profile[k].right)]
        BY <1>1 DEF profiled
      <3> HIDE DEF profiled
      <3>2. QED
        BY <3>1
    <2>2. QED
      BY <2>1, ProfileGuards
  <1>2. CASE ~learns
    BY <1>2 DEF profiled
  <1>3. QED
    BY <1>1, <1>2

LEMMA AnalysisGuards ==
    ASSUME NEW g, NEW o, body \in Seq(Origin), Len(body) > 1
    PROVE  Guarded(analyse(g, o), escapes(analyse(g, o)))
  <1> DEFINE ops == analyse(g, o)
             esc == escapes(ops)
             one(k) == IF k = 2 THEN loadedValue(1, g, o)
                       ELSE binary(ops[k - 1].left, ops[k - 1].right)
  <1>1. \A k \in Additions : ops[k] = profiled(k, one(k), loadedValue(k, g, o))
    <2>1. Operands(g, o, ops)
      BY AnalysedOperands
    <2> HIDE DEF ops
    <2>2. ops = [k \in Additions |-> profiled(k, one(k), loadedValue(k, g, o))]
      BY <2>1, Zenon DEF Operands
    <2> HIDE DEF one
    <2>3. QED
      BY <2>2, Zenon
  <1> HIDE DEF ops
  <1>2. \A k \in DOMAIN body : esc[k] = Escape(ops, esc[k - 1], k)
    <2>1. esc = [k \in DOMAIN body |-> Escape(ops, esc[k - 1], k)]
      BY EscapesOf, Zenon DEF Escapes
    <2> HIDE DEF esc
    <2>2. QED
      BY <2>1, Zenon
  <1> HIDE DEF esc
  <1> SUFFICES ASSUME NEW k \in Additions
               PROVE  /\ \A s \in {"left", "right"} :
                             ops[k][s].kind = "Float" /\ ~ops[k][s].guard =>
                                 \/ ops[k][s].fixed
                                 \/ /\ s = "left" /\ k > 2
                                    /\ \A t \in {"left", "right"} :
                                           ops[k - 1][t].kind \in {"Float", "Integer", "BigInteger"}
                      /\ esc[k] => \A s \in {"left", "right"} : supportsEscaping(ops[k][s].kind)
                      /\ /\ k > 2 /\ esc[k]
                         /\ \A t \in {"left", "right"} : ops[k - 1][t].kind \in {"Float", "Integer"}
                         => esc[k - 1]
    BY Zenon DEF Guarded, ops, esc
  <1>3. k \in 2..Len(body) /\ k \in DOMAIN body /\ 1 \in DOMAIN body /\ k - 1 \in DOMAIN body
    BY DEF Additions
  <1>4. body[k] \in Origin /\ body[1] \in Origin
    BY <1>3
  <1>5. ops[k].left = one(k) \/ ops[k].left.guard
    <2> HIDE DEF one
    <2>1. QED
      BY <1>1, ProfiledGuards
  <1>6. ops[k].right = loadedValue(k, g, o) \/ ops[k].right.guard
    <2> HIDE DEF one
    <2>1. QED
      BY <1>1, ProfiledGuards
  <1>7. ASSUME ops[k].left.kind = "Float", ~ops[k].left.guard
        PROVE  \/ ops[k].left.fixed
               \/ /\ k > 2
                  /\ \A t \in {"left", "right"} :
                         ops[k - 1][t].kind \in {"Float", "Integer", "BigInteger"}
    <2>1. ops[k].left = one(k)
      BY <1>5, <1>7
    <2>2. CASE k = 2
      BY <1>4, <1>7, <2>1, <2>2, LoadsGuard
    <2>3. CASE k # 2
      <3>1. sumKind(ops[k - 1].left, ops[k - 1].right) = "Float"
        BY <1>7, <2>1, <2>3 DEF binary, AbstractValue
      <3>2. QED
        BY <1>3, <2>3, <3>1, SumKinds
    <2>4. QED
      BY <2>2, <2>3
  <1>8. ASSUME ops[k].right.kind = "Float", ~ops[k].right.guard
        PROVE  ops[k].right.fixed
    BY <1>4, <1>6, <1>8, LoadsGuard
  <1>9. esc[k] => Can(ops, k)
    <2>1. k # 1
      BY <1>3
    <2>2. QED
      BY <1>2, <1>3, <2>1, Zenon DEF Escape
  <1>10. ASSUME k > 2, esc[k], \A t \in {"left", "right"} : ops[k - 1][t].kind \in {"Float", "Integer"}
         PROVE  esc[k - 1]
    <2>1. sumKind(ops[k - 1].left, ops[k - 1].right) \in {"Float", "Integer"}
      BY <1>10, SumKinds
    <2>2. Can(ops, k - 1)
      BY <1>10, <2>1 DEF Can, supportsEscaping, binary, AbstractValue
    <2>3. k - 1 # 1 /\ k - 1 < Len(body) /\ (k - 1) + 1 = k
      BY <1>3, <1>10
    <2>4. Escape(ops, esc[(k - 1) - 1], k - 1)
      BY <1>9, <1>10, <2>2, <2>3, Zenon DEF Escape
    <2>5. QED
      BY <1>2, <1>3, <2>4, Zenon
  <1>11. QED
    BY <1>7, <1>8, <1>9, <1>10 DEF Can

\* What is misread was taken for certain.
LEMMA ReadsTrusted ==
    ASSUME NEW k \in Additions, NEW s \in {"left", "right"}, NEW v,
           Guarded(code.operands, code.escape), code.escape[k], Misreads(k, s, v)
    PROVE  Trusted(k, s)
  <1> DEFINE ops == code.operands
             guess == ops[k][s]
  <1>1. IsObject(k, s) /\ emit_unbox(guess.kind, guess.guard, v) \notin {v, "guard"}
    BY DEF Misreads, unboxed
  <1>2. supportsEscaping(guess.kind)
    BY DEF Guarded
  <1>3. guess.kind = "Float" /\ ~guess.guard
    BY <1>1, <1>2 DEF emit_unbox, supportsEscaping
  <1>4. \/ guess.fixed
        \/ /\ s = "left" /\ k > 2
           /\ \A t \in {"left", "right"} : ops[k - 1][t].kind \in {"Float", "Integer", "BigInteger"}
    BY <1>3 DEF Guarded
  <1>5. CASE guess.fixed
    BY <1>5, Zenon DEF Trusted
  <1>6. CASE /\ s = "left" /\ k > 2
             /\ \A t \in {"left", "right"} : ops[k - 1][t].kind \in {"Float", "Integer", "BigInteger"}
    <2>1. ~code.escape[k - 1]
      BY <1>1, <1>6 DEF IsObject
    <2>2. ~ \A t \in {"left", "right"} : ops[k - 1][t].kind \in {"Float", "Integer"}
      BY <1>6, <2>1, Zenon DEF Guarded
    <2>3. PICK t \in {"left", "right"} : ops[k - 1][t].kind = "BigInteger"
      BY <1>6, <2>2
    <2>4. QED
      BY <1>6, <2>3, Zenon DEF Trusted
  <1>7. QED
    BY <1>4, <1>5, <1>6

LEMMA ReadingsTrusted ==
    ASSUME NEW k \in Additions, NEW one, NEW two, Guarded(code.operands, code.escape)
    PROVE  Misreading(k, one, two) \in {"no", "trusted"}
  <1> DEFINE sides == {s \in {"left", "right"} :
                          code.escape[k] /\ Misreads(k, s, IF s = "left" THEN one ELSE two)}
  <1>1. \A s \in sides : Trusted(k, s)
    BY ReadsTrusted, Zenon
  <1>2. QED
    BY <1>1, Zenon DEF Misreading

LEMMA InitGuarded == Init => ReadsInv
  <1>1. Init => ~frame.running /\ status # "Optimized" /\ body \in Bodies
    BY DEF Init, Idle
  <1>2. QED
    BY <1>1 DEF ReadsInv

LEMMA AddGuarded ==
    ASSUME ReadsInv, FrameOK, frame.running, ~Ended, NEW jit, NEW py, Add(jit, py)
    PROVE  ReadsInv'
  <1>1. /\ frame.k + 1 \in 1..Len(body) /\ frame.k \in Nat
    BY FeedbackAssumption DEF ReadsInv, Ended
  <1> DEFINE k == frame.k + 1
             adds == k # 1 /\ jit \notin Error
             read == IF adds /\ frame.misread = "no" THEN Misreading(k, frame.left, jit)
                     ELSE frame.misread
  <1>2. frame'.running /\ frame'.k = k /\ frame'.misread = read
    <2>1. frame' = [frame EXCEPT !.k = k,
                        !.left = IF k = 1 THEN jit ELSE compiledSum(k, @, jit),
                        !.py = IF k = 1 THEN py ELSE Sum(@, py),
                        !.misread = read]
      BY Zenon DEF Add
    <2>2. frame = [running |-> TRUE, g |-> frame.g, k |-> frame.k, owner |-> frame.owner,
                   left |-> frame.left, py |-> frame.py, misread |-> frame.misread]
      BY DEF FrameOK
    <2> HIDE DEF read, k
    <2>3. frame' = [running |-> TRUE, g |-> frame.g, k |-> k, owner |-> frame.owner,
                    left |-> IF k = 1 THEN jit ELSE compiledSum(k, frame.left, jit),
                    py |-> IF k = 1 THEN py ELSE Sum(frame.py, py), misread |-> read]
      BY <2>1, <2>2
    <2>4. QED
      BY <2>3
  <1>3. read \in {"no", "trusted"}
    <2>1. CASE adds
      <3>1. k \in Additions
        BY <1>1, <2>1 DEF Additions
      <3>2. QED
        BY <3>1, ReadingsTrusted DEF ReadsInv
    <2>2. CASE ~adds
      BY <2>2 DEF ReadsInv
    <2>3. QED
      BY <2>1, <2>2
  <1>4. UNCHANGED <<code, body, status>>
    BY AddFrame
  <1>5. Guarded(code.operands, code.escape)'
    BY <1>4 DEF ReadsInv, Guarded, Additions
  <1>6. QED
    BY <1>1, <1>2, <1>3, <1>4, <1>5 DEF ReadsInv

LEMMA StepGuarded ==
    ASSUME FrameOK, ReadsInv, [Next]_vars
    PROVE  ReadsInv'
  <1>1. ASSUME NEW g \in Globals, NEW o \in Owner, Call(g, o)
        PROVE  ReadsInv'
    <2>1. frame' = [running |-> TRUE, g |-> g, k |-> 0, owner |-> o, left |-> Unbound,
                    py |-> Unbound, misread |-> "no"]
      BY <1>1 DEF Call
    <2>2. UNCHANGED <<body, status>>
      BY <1>1 DEF Call, learnedVars
    <2>3. body \in Seq(Origin) /\ Len(body) > 1 /\ Len(body) \in Nat
      BY FeedbackAssumption DEF ReadsInv
    <2>4. Guarded(code'.operands, code'.escape)
      <3>1. CASE status = "Optimized"
        BY <1>1, <3>1 DEF Call, ReadsInv
      <3>2. CASE status # "Optimized"
        <4>1. code' = compile(g, o)
          BY <1>1, <3>2, Zenon DEF Call
        <4>2. code'.operands = analyse(g, o) /\ code'.escape = escapes(analyse(g, o))
          BY <4>1, Zenon DEF compile
        <4>3. QED
          BY <2>3, <4>2, AnalysisGuards, Zenon
      <3>3. QED
        BY <3>1, <3>2
    <2>5. Guarded(code.operands, code.escape)'
      BY <2>2, <2>4, Zenon DEF Guarded, Additions
    <2>6. QED
      BY <2>1, <2>2, <2>3, <2>5 DEF ReadsInv
  <1>2. CASE AddConst
    BY <1>2, AddGuarded, Zenon DEF AddConst, Steps
  <1>3. ASSUME NEW v \in Value, AddCall(v)
        PROVE  ReadsInv'
    BY <1>3, AddGuarded, Zenon DEF AddCall, Steps
  <1>4. CASE AddGlobal
    BY <1>4, AddGuarded, Zenon DEF AddGlobal, Steps
  <1>5. CASE AddAttr
    BY <1>5, AddGuarded, Zenon DEF AddAttr, Steps
  <1>6. CASE Return
    <2>1. frame.running /\ ~frame'.running /\ UNCHANGED <<body, code>>
      BY <1>6 DEF Return, Idle
    <2>2. QED
      BY <2>1 DEF ReadsInv, Guarded, Additions
  <1>7. ASSUME UNCHANGED <<learnedVars, code, frame>> \/ UNCHANGED <<body, status, code, frame>>
        PROVE  ReadsInv'
    BY <1>7 DEF learnedVars, ReadsInv, Guarded, Additions
  <1>8. ASSUME NEW d \in Dict, NEW v \in Value \cup {Unbound}, BindName(d, v)
        PROVE  ReadsInv'
    BY <1>7, <1>8 DEF BindName
  <1>9. ASSUME NEW o \in Owner, NEW v \in AttrValue, StoreAttr(o, v) \/ CompileStore(o, v)
        PROVE  ReadsInv'
    BY <1>7, <1>9 DEF StoreAttr, CompileStore
  <1>10. CASE UNCHANGED vars
    BY <1>7, <1>10 DEF vars
  <1>11. QED
    BY <1>1, <1>2, <1>3, <1>4, <1>5, <1>6, <1>8, <1>9, <1>10 DEF Next

LEMMA ReadsInvariant == Spec => []ReadsInv
  <1>1. FeedbackInv /\ ReadsInv /\ [Next]_vars => ReadsInv'
    BY StepGuarded DEF FeedbackInv
  <1>2. QED
    BY <1>1, FeedbackInvariant, InitGuarded, PTL DEF Spec

\* For every function, kind, profile and table of attributes: compiled code reads a
\* float out of an object of another kind only where a builtin, or a sum with a
\* guessed big integer, was taken for certain; every other guess is checked before
\* it is relied on (absint.h:182, pycomp.cpp:2484).
THEOREM ReadsStayGuarded == Spec => []ReadsAreGuarded
  <1>1. ReadsInv => ReadsAreGuarded
    BY DEF ReadsInv, ReadsAreGuarded
  <1>2. QED
    BY <1>1, ReadsInvariant, PTL

\* For every function, kind, profile, table of attributes and history: the sum that is
\* returned, or the exception that is raised, is the interpreter's, unless a guard
\* failed or a kind that was taken for certain was wrong.  It rests on both of the
\* above: loads of globals are current, and what is not taken for certain is guarded
\* (absint.cpp:2048, pycomp.cpp:2656).
THEOREM SumsAreTheInterpreters == Spec => []ResultsAgree
  <1>1. FeedbackInv /\ ReadsInv => ResultsAgree
    BY DEF FeedbackInv, SumsAgree, ReadsInv, ResultsAgree
  <1>2. QED
    BY <1>1, FeedbackInvariant, ReadsInvariant, PTL

-----------------------------------------------------------------------------
(* The guards *)

\* What is known of the operands from what has been seen, see: every source in reach
\* of the running function has been of one kind.
Calm(see) ==
    /\ see["Call"] # "many" /\ see["Global"] # "many" /\ see["Argument"] # "many"
    /\ see["Argument"] \in Owner => see[see["Argument"]] # "many"

SeenOK(see) ==
    /\ see = [w \in Watched |-> see[w]]
    /\ {see["Call"], see["Global"]} \subseteq Kind \cup {Unbound, "many"}
    /\ see["Argument"] \in Owner \cup {Unbound, "many"}
    /\ \A o \in Owner : see[o] \in Kind \cup {"many"}

\* The kind of operand k of function b.
KindOf(b, see, k) ==
    IF b[k] = "Const" THEN "Float"
    ELSE IF b[k] = "Call" THEN see["Call"]
    ELSE IF b[k] = "Global" THEN see["Global"]
    ELSE IF see["Argument"] \in Owner THEN see[see["Argument"]] ELSE Unbound

Known(b, see, k) == \A j \in 1..k : KindOf(b, see, j) \in Kind

\* The kind of a sum is that of its widest operand; nothing else can be added up
\* but strings.
Totals(n, kinds) ==
    /\ n \in kinds
    /\ \/ kinds = {n}
       \/ kinds \subseteq Number /\ \A m \in kinds : Width[m] <= Width[n]

\* The sum of the first k operands is of kind n.
SumIs(b, see, k, n) == Known(b, see, k) /\ Totals(n, {KindOf(b, see, j) : j \in 1..k})

\* A kind that the analysis expects of an object of kind v.
Good(kind, v) == kind = v \/ (kind = "BigInteger" /\ v = "Integer")

PredictsRight(b, see, guess, k) ==
    guess # "Any" => KindOf(b, see, k) \in Kind /\ Good(guess, KindOf(b, see, k))

PredictsLeft(b, see, guess, k) ==
    guess # "Any" => \E n \in Kind : SumIs(b, see, k - 1, n) /\ Good(guess, n)

Predicts(b, see, ops) ==
    \A k \in 2..Len(b) :
        PredictsLeft(b, see, ops[k].left.kind, k) /\ PredictsRight(b, see, ops[k].right.kind, k)

\* Everything the compiler has learned or can ask has been seen.
Observed(see) ==
    /\ SeenOK(see)
    /\ \A d \in Dict : dict[d].value # Unbound => see["Global"] \in {dict[d].value, "many"}
    /\ \A o \in Owner : table[o] \notin {Unbound, "Any"} => see[o] \in {table[o], "many"}
    /\ \A k \in DOMAIN body :
           profile[k].owner # Unbound => see["Argument"] \in {profile[k].owner, "many"}

ProfileFits(see) ==
    \A k \in Additions :
        /\ profile[k].left.type # Unbound => SumIs(body, see, k - 1, profile[k].left.kind)
        /\ profile[k].right.type # Unbound =>
               KindOf(body, see, k) \in Kind /\ profile[k].right.kind = KindOf(body, see, k)

\* The attributes, and the frame with its sum.
AttrSeen == \A o \in Owner : attr[o] \in AttrValue /\ seen[o] \in {attr[o], "many"}

FrameSeen ==
    frame.running => frame.owner \in Owner /\ seen["Argument"] \in {frame.owner, "many"}

SumFits ==
    frame.running =>
        /\ frame.left # "guard"
        /\ frame.k # 0 /\ frame.left \notin Error => SumIs(body, seen, frame.k, frame.left)

LearnedOK ==
    /\ profile = [k \in DOMAIN body |-> [left |-> profile[k].left, right |-> profile[k].right,
                                         owner |-> profile[k].owner]]
    /\ table = [o \in Owner |-> table[o]] /\ attr = [o \in Owner |-> attr[o]]

SeenInv ==
    /\ LearnedOK /\ Observed(seen) /\ AttrSeen /\ FrameSeen
    /\ Calm(seen) => /\ ProfileFits(seen) /\ SumFits
                     /\ frame.running \/ status = "Optimized" => Predicts(body, seen, code.operands)

-----------------------------------------------------------------------------

\* The kind of a sum is unique, and adding to it gives the next one.
LEMMA TotalIsUnique ==
    ASSUME NEW n, NEW m, NEW kinds, Totals(n, kinds), Totals(m, kinds)
    PROVE  n = m
  <1>1. CASE kinds = {n} \/ kinds = {m}
    BY <1>1 DEF Totals
  <1>2. CASE kinds \subseteq Number /\ Width[n] <= Width[m] /\ Width[m] <= Width[n]
    <2>1. n \in Number /\ m \in Number
      BY <1>2 DEF Totals
    <2>2. QED
      BY <1>2, <2>1 DEF Number, Width
  <1>3. QED
    BY <1>1, <1>2 DEF Totals

LEMMA SumOfNumbers ==
    ASSUME NEW a \in Number, NEW v \in Number
    PROVE  /\ Sum(a, v) \in {a, v}
           /\ Width[a] <= Width[Sum(a, v)] /\ Width[v] <= Width[Sum(a, v)]
  <1>1. {a, v} \cap Error = {} /\ {a, v} \subseteq Number
    BY DEF Number, Error
  <1>2. Sum(a, v) = CHOOSE n \in {a, v} : \A m \in {a, v} : Width[m] <= Width[n]
    BY <1>1 DEF Sum
  <1>3. \E n \in {a, v} : \A m \in {a, v} : Width[m] <= Width[n]
    BY DEF Number, Width
  <1> DEFINE s == CHOOSE n \in {a, v} : \A m \in {a, v} : Width[m] <= Width[n]
  <1>4. s \in {a, v} /\ \A m \in {a, v} : Width[m] <= Width[s]
    BY <1>3
  <1> HIDE DEF s
  <1>5. Sum(a, v) = s
    BY <1>2 DEF s
  <1>6. QED
    BY <1>4, <1>5

\* Anything else is an error.
LEMMA SumOfOthers ==
    ASSUME NEW a \in Kind, NEW v \in Kind, ~({a, v} \subseteq Number)
    PROVE  Sum(a, v) = IF {a, v} = {"String"} THEN "String" ELSE "TypeError"
  <1>1. {a, v} \cap Error = {}
    BY DEF Kind, Error
  <1>2. QED
    BY <1>1 DEF Sum

LEMMA SumExtends ==
    ASSUME NEW kinds, NEW a \in Kind, NEW v \in Kind, Totals(a, kinds), Sum(a, v) \notin Error
    PROVE  Totals(Sum(a, v), kinds \cup {v}) /\ Sum(a, v) \in Kind
  <1>1. CASE {a, v} \subseteq Number
    <2>1. kinds \subseteq Number
      BY <1>1 DEF Totals
    <2>2. \A m \in kinds : Width[m] \in Nat /\ Width[m] <= Width[a]
      BY <1>1, <2>1 DEF Totals, Number, Width
    <2>3. Width[a] \in Nat /\ Width[v] \in Nat /\ Width[Sum(a, v)] \in Nat
      BY <1>1, SumOfNumbers DEF Number, Width
    <2>4. \A m \in kinds : Width[m] <= Width[Sum(a, v)]
      BY <1>1, <2>2, <2>3, SumOfNumbers
    <2>5. QED
      BY <1>1, <2>1, <2>4, SumOfNumbers DEF Totals
  <1>2. CASE ~({a, v} \subseteq Number)
    <2>1. a = "String" /\ v = "String" /\ Sum(a, v) = "String"
      BY <1>2, SumOfOthers DEF Error
    <2>2. kinds = {"String"}
      BY <2>1 DEF Totals, Number
    <2>3. QED
      BY <2>1, <2>2 DEF Totals, Kind
  <1>3. QED
    BY <1>1, <1>2

LEMMA SumKindIsGood ==
    ASSUME NEW one, NEW two, NEW a \in Kind, NEW v \in Kind,
           Good(one.kind, a), Good(two.kind, v), sumKind(one, two) # "Any"
    PROVE  Sum(a, v) \notin Error /\ Good(sumKind(one, two), Sum(a, v))
  <1>1. CASE /\ {one.kind, two.kind} \subseteq {"Float", "Integer", "BigInteger"}
             /\ sumKind(one, two) =
                    IF "Float" \in {one.kind, two.kind} THEN "Float"
                    ELSE IF {one.kind, two.kind} = {"Integer"} THEN "Integer" ELSE "BigInteger"
    <2>1. {a, v} \subseteq {"Float", "Integer", "BigInteger"}
      BY <1>1 DEF Good
    <2>2. /\ Sum(a, v) \in {a, v}
          /\ Width[a] <= Width[Sum(a, v)] /\ Width[v] <= Width[Sum(a, v)]
      BY <2>1, SumOfNumbers DEF Number
    <2>3. CASE "Float" \in {one.kind, two.kind}
      <3>1. Sum(a, v) = "Float"
        BY <2>1, <2>2, <2>3 DEF Good, Width
      <3>2. QED
        BY <1>1, <2>3, <3>1 DEF Good, Error
    <2>4. CASE {one.kind, two.kind} = {"Integer"}
      <3>1. a = "Integer" /\ v = "Integer"
        BY <2>4 DEF Good
      <3>2. QED
        BY <1>1, <2>2, <2>4, <3>1 DEF Good, Error
    <2>5. CASE "Float" \notin {one.kind, two.kind} /\ {one.kind, two.kind} # {"Integer"}
      <3>1. sumKind(one, two) = "BigInteger" /\ Sum(a, v) \in {"Integer", "BigInteger"}
        BY <1>1, <2>2, <2>5 DEF Good
      <3>2. QED
        BY <3>1 DEF Good, Error
    <2>6. QED
      BY <2>3, <2>4, <2>5
  <1>2. CASE /\ \/ one.kind \in {"Float", "Integer", "BigInteger"} /\ two.kind = "Complex"
                \/ one.kind = "Complex" /\ two.kind \in {"Float", "Integer", "Complex"}
             /\ sumKind(one, two) = "Complex"
    <2>1. {a, v} \subseteq Number /\ "Complex" \in {a, v}
      BY <1>2 DEF Good, Number
    <2>2. /\ Sum(a, v) \in {a, v}
          /\ Width[a] <= Width[Sum(a, v)] /\ Width[v] <= Width[Sum(a, v)]
      BY <2>1, SumOfNumbers DEF Number
    <2>3. Sum(a, v) = "Complex"
      BY <2>1, <2>2 DEF Number, Width
    <2>4. QED
      BY <1>2, <2>3 DEF Good, Error
  <1>3. CASE {one.kind, two.kind} = {"String"} /\ sumKind(one, two) = "String"
    <2>1. a = "String" /\ v = "String"
      BY <1>3 DEF Good
    <2>2. Sum(a, v) = "String"
      BY <2>1, SumOfOthers DEF Number, Kind
    <2>3. QED
      BY <1>3, <2>2 DEF Good, Error
  <1>4. QED
    BY <1>1, <1>2, <1>3, SumKindCases

\* What the load of an operand is expected to give.
LEMMA LoadPredicts ==
    ASSUME NEW see, Observed(see), Calm(see), body \in Seq(Origin),
           NEW g \in Globals, see["Argument"] \in Owner, NEW k \in DOMAIN body,
           GlobalsTypeOK
    PROVE  PredictsRight(body, see, loadedValue(k, g, see["Argument"]).kind, k)
  <1> DEFINE o == see["Argument"]
             guess == loadedValue(k, g, o)
  <1>1. CASE body[k] = "Const"
    <2>1. guess = AbstractValue("Float", FALSE, TRUE)
      BY <1>1, Zenon DEF loadedValue
    <2>2. QED
      BY <1>1, <2>1 DEF AbstractValue, PredictsRight, KindOf, Good, Kind
  <1>2. CASE body[k] = "Call"
    <2>1. guess = AnyValue
      BY <1>2, Zenon DEF loadedValue
    <2>2. QED
      BY <2>1 DEF AnyValue, AbstractValue, PredictsRight
  <1>3. CASE body[k] = "Global"
    <2>1. guess = globalValue(g)
      BY <1>3, Zenon DEF loadedValue
    <2>2. KindOf(body, see, k) = see["Global"] /\ see["Global"] # "many"
      BY <1>3 DEF KindOf, Calm
    <2>3. \A d \in Dict : dict[d].value # Unbound => see["Global"] = dict[d].value
      BY <2>2 DEF Observed
    <2>4. \A d \in Dict : dict[d].value # Unbound => dict[d].value \in Kind
      BY FeedbackAssumption DEF GlobalsTypeOK
    <2>5. g \in Dict /\ BuiltinsOf[g] \in Dict
      BY GlobalsAssumption DEF Dict
    <2>6. CASE dict[g].value # Unbound
      <3>1. guess.kind = dict[g].value
        BY <2>1, <2>6 DEF globalValue, Volatile, AbstractValue
      <3>2. QED
        BY <2>2, <2>3, <2>4, <2>5, <2>6, <3>1 DEF PredictsRight, Good
    <2>7. CASE dict[g].value = Unbound /\ LoadGlobal(g) = Unbound
      BY <2>1, <2>7 DEF globalValue, AnyValue, AbstractValue, PredictsRight
    <2>8. CASE dict[g].value = Unbound /\ LoadGlobal(g) # Unbound
      <3> DEFINE v == LoadGlobal(g)
      <3>1. v = dict[BuiltinsOf[g]].value /\ v = see["Global"] /\ v \in Kind
        BY <2>3, <2>4, <2>5, <2>8 DEF LoadGlobal
      <3>2. guess.kind = IF Type(v) = "Integer" THEN "BigInteger" ELSE Type(v)
        BY <2>1, <2>8 DEF globalValue, AbstractValue
      <3> HIDE DEF v
      <3>3. Good(guess.kind, v)
        BY <3>1, <3>2 DEF Good, Type, Kind
      <3>4. QED
        BY <2>2, <3>1, <3>3 DEF PredictsRight
    <2>9. QED
      BY <2>6, <2>7, <2>8
  <1>4. CASE body[k] = "Attr"
    <2>1. guess = attrValue(k, o)
      BY <1>4, Zenon DEF loadedValue
    <2>2. KindOf(body, see, k) = see[o] /\ see[o] \in Kind
      BY <1>4 DEF KindOf, Calm, Observed, SeenOK
    <2>3. profile[k].owner # Unbound => profile[k].owner = o
      BY DEF Observed, Calm
    <2>4. attrValue(k, o) = getAttr(table[o])
      BY <2>3 DEF attrValue
    <2>5. CASE table[o] \in {Unbound, "Any"}
      BY <2>1, <2>4, <2>5 DEF getAttr, AnyValue, AbstractValue, PredictsRight
    <2>6. CASE table[o] \notin {Unbound, "Any"}
      <3>1. guess.kind = table[o]
        BY <2>1, <2>4, <2>6 DEF getAttr, Volatile, AbstractValue
      <3>2. table[o] = see[o]
        BY <2>6 DEF Observed, Calm
      <3>3. QED
        BY <2>2, <3>1, <3>2 DEF PredictsRight, Good
    <2>7. QED
      BY <2>5, <2>6
  <1>5. QED
    BY <1>1, <1>2, <1>3, <1>4 DEF Origin

LEMMA SumOfFirst ==
    ASSUME NEW see, KindOf(body, see, 1) \in Kind
    PROVE  SumIs(body, see, 1, KindOf(body, see, 1))
  <1>1. 1..1 = {1}
    OBVIOUS
  <1>2. {KindOf(body, see, j) : j \in 1..1} = {KindOf(body, see, 1)}
    BY <1>1
  <1>3. QED
    BY <1>1, <1>2, Zenon DEF SumIs, Known, Totals

LEMMA SumOfNext ==
    ASSUME NEW see, NEW k \in Nat, k > 1, NEW a \in Kind, SumIs(body, see, k - 1, a),
           KindOf(body, see, k) \in Kind, Sum(a, KindOf(body, see, k)) \notin Error
    PROVE  /\ SumIs(body, see, k, Sum(a, KindOf(body, see, k)))
           /\ Sum(a, KindOf(body, see, k)) \in Kind
  <1> DEFINE before == {KindOf(body, see, j) : j \in 1..(k - 1)}
             after == {KindOf(body, see, j) : j \in 1..k}
  <1>1. 1..k = (1..(k - 1)) \cup {k}
    OBVIOUS
  <1>2. after = before \cup {KindOf(body, see, k)}
    BY <1>1, Zenon
  <1>3. Known(body, see, k)
    BY <1>1 DEF SumIs, Known
  <1>4. Totals(a, before)
    BY DEF SumIs
  <1> HIDE DEF before, after
  <1>5. Totals(Sum(a, KindOf(body, see, k)), after) /\ Sum(a, KindOf(body, see, k)) \in Kind
    BY <1>2, <1>4, SumExtends
  <1>6. QED
    BY <1>3, <1>5, Zenon DEF SumIs, after

\* A kind from the profile, or the one it had.
LEMMA FromPgcKind ==
    ASSUME NEW x, NEW e
    PROVE  fromPgc(x, e).kind = x.kind \/ (e.type # Unbound /\ fromPgc(x, e).kind = e.kind)
  BY DEF fromPgc, Volatile, AbstractValue

LEMMA ProfiledKinds ==
    ASSUME NEW k, NEW one, NEW two
    PROVE  LET p == profiled(k, one, two)
           IN  /\ \/ p.left.kind = one.kind
                  \/ profile[k].left.type # Unbound /\ p.left.kind = profile[k].left.kind
               /\ \/ p.right.kind = two.kind
                  \/ profile[k].right.type # Unbound /\ p.right.kind = profile[k].right.kind
  <1>1. CASE learns
    <2>1. profiled(k, one, two) = [left  |-> fromPgc(one, profile[k].left),
                                   right |-> fromPgc(two, profile[k].right)]
      BY <1>1 DEF profiled
    <2> HIDE DEF profiled
    <2>2. /\ profiled(k, one, two).left = fromPgc(one, profile[k].left)
          /\ profiled(k, one, two).right = fromPgc(two, profile[k].right)
      BY <2>1
    <2>3. QED
      BY <2>2, FromPgcKind
  <1>2. CASE ~learns
    BY <1>2 DEF profiled
  <1>3. QED
    BY <1>1, <1>2

\* As long as every source has been of one kind, the analysis expects what comes.
LEMMA AnalysisPredicts ==
    ASSUME NEW see, Observed(see), ProfileFits(see), Calm(see), GlobalsTypeOK,
           body \in Seq(Origin), Len(body) > 1, NEW g \in Globals, see["Argument"] \in Owner
    PROVE  Predicts(body, see, analyse(g, see["Argument"]))
  <1> DEFINE o == see["Argument"]
             ops == analyse(g, o)
             one(k) == IF k = 2 THEN loadedValue(1, g, o)
                       ELSE binary(ops[k - 1].left, ops[k - 1].right)
  <1>1. \A k \in Additions : ops[k] = profiled(k, one(k), loadedValue(k, g, o))
    <2>1. Operands(g, o, ops)
      BY AnalysedOperands
    <2> HIDE DEF ops
    <2>2. ops = [k \in Additions |-> profiled(k, one(k), loadedValue(k, g, o))]
      BY <2>1, Zenon DEF Operands
    <2> HIDE DEF one
    <2>3. QED
      BY <2>2, Zenon
  <1> HIDE DEF ops
  <1>2. \A k \in Additions : k \in Nat /\ k > 1 /\ k \in DOMAIN body /\ 1 \in DOMAIN body
                             /\ (k # 2 => k > 2 /\ k - 1 \in Additions)
    BY DEF Additions
  <1>3. \A k \in DOMAIN body : PredictsRight(body, see, loadedValue(k, g, o).kind, k)
    BY LoadPredicts
  <1>4. \A k \in Additions : PredictsRight(body, see, ops[k].right.kind, k)
    <2> SUFFICES ASSUME NEW k \in Additions
                 PROVE  PredictsRight(body, see, ops[k].right.kind, k)
      OBVIOUS
    <2>1. \/ ops[k].right.kind = loadedValue(k, g, o).kind
          \/ profile[k].right.type # Unbound /\ ops[k].right.kind = profile[k].right.kind
      <3> HIDE DEF one
      <3>1. QED
        BY <1>1, ProfiledKinds
    <2>2. CASE ops[k].right.kind = loadedValue(k, g, o).kind
      BY <1>2, <1>3, <2>2
    <2>3. CASE profile[k].right.type # Unbound /\ ops[k].right.kind = profile[k].right.kind
      BY <2>3 DEF ProfileFits, PredictsRight, Good
    <2>4. QED
      BY <2>1, <2>2, <2>3
  <1>5. ASSUME NEW k \in Additions,
               k # 2 => PredictsLeft(body, see, ops[k - 1].left.kind, k - 1)
        PROVE  PredictsLeft(body, see, ops[k].left.kind, k)
    <2>1. \/ ops[k].left.kind = one(k).kind
          \/ profile[k].left.type # Unbound /\ ops[k].left.kind = profile[k].left.kind
      <3> HIDE DEF one
      <3>1. QED
        BY <1>1, ProfiledKinds
    <2>2. CASE profile[k].left.type # Unbound /\ ops[k].left.kind = profile[k].left.kind
      <3>1. SumIs(body, see, k - 1, ops[k].left.kind)
        BY <2>2 DEF ProfileFits
      <3>2. ops[k].left.kind \in Kind
        BY <3>1 DEF SumIs, Known, Totals
      <3>3. QED
        BY <3>1, <3>2, Zenon DEF PredictsLeft, Good
    <2>3. CASE k = 2 /\ ops[k].left.kind = one(k).kind
      <3>1. PredictsRight(body, see, ops[k].left.kind, 1)
        BY <1>2, <1>3, <2>3
      <3> SUFFICES ASSUME ops[k].left.kind # "Any"
                   PROVE  \E n \in Kind : SumIs(body, see, 1, n) /\ Good(ops[k].left.kind, n)
        BY <2>3 DEF PredictsLeft
      <3>2. KindOf(body, see, 1) \in Kind /\ Good(ops[k].left.kind, KindOf(body, see, 1))
        BY <3>1 DEF PredictsRight
      <3>3. QED
        BY <3>2, SumOfFirst, Zenon
    <2>4. CASE k # 2 /\ ops[k].left.kind = one(k).kind
      <3> DEFINE l == ops[k - 1].left
                 r == ops[k - 1].right
      <3>1. ops[k].left.kind = sumKind(l, r)
        BY <2>4 DEF binary, AbstractValue
      <3> SUFFICES ASSUME ops[k].left.kind # "Any"
                   PROVE  \E n \in Kind : SumIs(body, see, k - 1, n) /\ Good(ops[k].left.kind, n)
        BY DEF PredictsLeft
      <3>2. l.kind # "Any" /\ r.kind # "Any"
        <4> HIDE DEF l, r
        <4>1. sumKind(l, r) # "Any"
          BY <3>1
        <4>2. \/ {l.kind, r.kind} \subseteq {"Float", "Integer", "BigInteger"}
              \/ l.kind \in {"Float", "Integer", "BigInteger", "Complex"} /\ r.kind \in {"Float", "Integer", "Complex"}
              \/ {l.kind, r.kind} = {"String"}
          BY <4>1, SumKindCases, Zenon
        <4>3. QED
          BY <4>2
      <3>3. k \in Nat /\ k - 1 \in Additions /\ k - 1 \in Nat /\ k - 1 > 1
        BY <1>2, <2>4
      <3>4. PICK a \in Kind : SumIs(body, see, (k - 1) - 1, a) /\ Good(l.kind, a)
        BY <1>5, <2>4, <3>2 DEF PredictsLeft
      <3>5. KindOf(body, see, k - 1) \in Kind /\ Good(r.kind, KindOf(body, see, k - 1))
        BY <1>4, <3>2, <3>3 DEF PredictsRight
      <3> HIDE DEF l, r
      <3>6. /\ Sum(a, KindOf(body, see, k - 1)) \notin Error
            /\ Good(sumKind(l, r), Sum(a, KindOf(body, see, k - 1)))
        BY <3>1, <3>4, <3>5, SumKindIsGood
      <3>7. /\ SumIs(body, see, k - 1, Sum(a, KindOf(body, see, k - 1)))
            /\ Sum(a, KindOf(body, see, k - 1)) \in Kind
        BY <3>3, <3>4, <3>5, <3>6, SumOfNext
      <3>8. QED
        BY <3>1, <3>6, <3>7, Zenon
    <2>5. QED
      BY <2>1, <2>2, <2>3, <2>4
  <1> DEFINE T == {k \in Additions : ~PredictsLeft(body, see, ops[k].left.kind, k)}
  <1>6. ASSUME T # {} PROVE FALSE
    <2>1. T \subseteq Nat
      BY <1>2
    <2>2. PICK k \in T : \A j \in T : k <= j
      <3> HIDE DEF T
      <3>1. QED
        BY <1>6, <2>1, SmallestOf
    <2>3. k # 2 => k - 1 \notin T
      BY <1>2, <2>2
    <2>4. k # 2 => PredictsLeft(body, see, ops[k - 1].left.kind, k - 1)
      BY <1>2, <2>2, <2>3
    <2>5. QED
      BY <1>5, <2>2, <2>4
  <1>7. QED
    BY <1>4, <1>6, Zenon DEF Predicts, ops, Additions

\* What has been seen is not forgotten.
Later(see, then) ==
    \A w \in Watched : see[w] = Unbound \/ then[w] = see[w] \/ then[w] = "many"

LEMMA LaterCalm ==
    ASSUME NEW see, NEW then, SeenOK(see), SeenOK(then), Later(see, then), Calm(then)
    PROVE  /\ Calm(see)
           /\ \A k : KindOf(body, see, k) \in Kind => KindOf(body, then, k) = KindOf(body, see, k)
  <1>1. \A w \in Watched : see[w] = Unbound \/ then[w] = see[w] \/ then[w] = "many"
    BY DEF Later
  <1>2. {"Call", "Global", "Argument"} \subseteq Watched /\ Owner \subseteq Watched
    BY DEF Watched
  <1>3. "many" # Unbound /\ Unbound \notin Kind /\ Unbound \notin Owner /\ "many" \notin Owner
    BY NamesAssumption
  <1>4. \A w \in {"Call", "Global", "Argument"} : see[w] # Unbound => then[w] = see[w]
    BY <1>1, <1>2 DEF Calm
  <1>5. see["Argument"] \in Owner =>
            /\ then["Argument"] = see["Argument"]
            /\ then[see["Argument"]] = see[see["Argument"]]
    <2> SUFFICES ASSUME NEW o \in Owner, see["Argument"] = o
                 PROVE  then["Argument"] = o /\ then[o] = see[o]
      OBVIOUS
    <2>1. then["Argument"] = o
      BY <1>3, <1>4
    <2>2. then[o] # "many"
      BY <2>1 DEF Calm
    <2>3. see[o] # Unbound
      BY <1>3 DEF SeenOK
    <2>4. QED
      BY <1>1, <1>2, <2>1, <2>2, <2>3
  <1>6. Calm(see)
    <2>1. see["Call"] # "many" /\ see["Global"] # "many" /\ see["Argument"] # "many"
      BY <1>3, <1>4 DEF Calm
    <2>2. see["Argument"] \in Owner => see[see["Argument"]] # "many"
      BY <1>5 DEF Calm
    <2>3. QED
      BY <2>1, <2>2 DEF Calm
  <1>7. ASSUME NEW k, KindOf(body, see, k) \in Kind
        PROVE  KindOf(body, then, k) = KindOf(body, see, k)
    <2>1. CASE body[k] = "Const"
      BY <2>1 DEF KindOf
    <2>2. CASE body[k] \in {"Call", "Global"}
      BY <1>3, <1>4, <1>7, <2>2 DEF KindOf
    <2>3. CASE body[k] \notin {"Const", "Call", "Global"}
      <3>1. see["Argument"] \in Owner /\ KindOf(body, see, k) = see[see["Argument"]]
        BY <1>3, <1>7, <2>3 DEF KindOf
      <3>2. QED
        BY <1>5, <2>3, <3>1 DEF KindOf
    <2>4. QED
      BY <2>1, <2>2, <2>3
  <1>8. QED
    BY <1>6, <1>7

LEMMA LaterSum ==
    ASSUME NEW see, NEW then, SeenOK(see), SeenOK(then), Later(see, then), Calm(then),
           NEW k, NEW n, SumIs(body, see, k, n)
    PROVE  SumIs(body, then, k, n)
  <1>1. \A j \in 1..k : KindOf(body, see, j) \in Kind /\ KindOf(body, then, j) = KindOf(body, see, j)
    BY LaterCalm DEF SumIs, Known
  <1>2. {KindOf(body, then, j) : j \in 1..k} = {KindOf(body, see, j) : j \in 1..k}
    BY <1>1
  <1>3. Known(body, then, k)
    BY <1>1 DEF Known
  <1>4. QED
    BY <1>2, <1>3 DEF SumIs

LEMMA LaterPredicts ==
    ASSUME NEW see, NEW then, SeenOK(see), SeenOK(then), Later(see, then), Calm(then),
           NEW ops, Predicts(body, see, ops)
    PROVE  Predicts(body, then, ops)
  <1> SUFFICES ASSUME NEW k \in Additions
               PROVE  PredictsLeft(body, then, ops[k].left.kind, k)
                      /\ PredictsRight(body, then, ops[k].right.kind, k)
    BY DEF Predicts, Additions
  <1>1. PredictsLeft(body, see, ops[k].left.kind, k) /\ PredictsRight(body, see, ops[k].right.kind, k)
    BY DEF Predicts, Additions
  <1>2. PredictsRight(body, then, ops[k].right.kind, k)
    BY <1>1, LaterCalm DEF PredictsRight
  <1>3. PredictsLeft(body, then, ops[k].left.kind, k)
    <2> SUFFICES ASSUME ops[k].left.kind # "Any"
                 PROVE  \E n \in Kind : SumIs(body, then, k - 1, n) /\ Good(ops[k].left.kind, n)
      BY DEF PredictsLeft
    <2>1. PICK n \in Kind : SumIs(body, see, k - 1, n) /\ Good(ops[k].left.kind, n)
      BY <1>1 DEF PredictsLeft
    <2>2. QED
      BY <2>1, LaterSum
  <1>4. QED
    BY <1>2, <1>3

LEMMA LaterProfile ==
    ASSUME NEW see, NEW then, SeenOK(see), SeenOK(then), Later(see, then), Calm(then),
           ProfileFits(see)
    PROVE  ProfileFits(then)
  <1> SUFFICES ASSUME NEW k \in Additions
               PROVE  /\ profile[k].left.type # Unbound => SumIs(body, then, k - 1, profile[k].left.kind)
                      /\ profile[k].right.type # Unbound =>
                             KindOf(body, then, k) \in Kind /\ profile[k].right.kind = KindOf(body, then, k)
    BY DEF ProfileFits
  <1>1. profile[k].left.type # Unbound => SumIs(body, then, k - 1, profile[k].left.kind)
    BY LaterSum DEF ProfileFits
  <1>2. profile[k].right.type # Unbound =>
            KindOf(body, then, k) \in Kind /\ profile[k].right.kind = KindOf(body, then, k)
    BY LaterCalm DEF ProfileFits
  <1>3. QED
    BY <1>1, <1>2

\* An observation.
Noticed(w, v) ==
    IF w \in {"Call", "Global"} THEN v \in Kind \cup {Unbound}
    ELSE IF w = "Argument" THEN v \in Owner ELSE v \in Kind

LEMMA NotedLater ==
    ASSUME SeenOK(seen), NEW w \in Watched, NEW v, Noticed(w, v)
    PROVE  /\ SeenOK(Noted(w, v)) /\ Later(seen, Noted(w, v))
           /\ v # Unbound => Noted(w, v)[w] \in {v, "many"}
           /\ \A x \in Watched : x # w => Noted(w, v)[x] = seen[x]
  <1>1. Owner \cap {"Call", "Global", "Argument"} = {}
    BY NamesAssumption
  <1>2. CASE v = Unbound
    BY <1>2 DEF Noted, Later
  <1>3. CASE v # Unbound
    <2> DEFINE now == IF seen[w] \in {Unbound, v} THEN v ELSE "many"
    <2>1. Noted(w, v) = [seen EXCEPT ![w] = now]
      BY <1>3 DEF Noted
    <2>2. seen = [x \in Watched |-> seen[x]]
      BY DEF SeenOK
    <2> HIDE DEF now
    <2>3. Noted(w, v) = [x \in Watched |-> IF x = w THEN now ELSE seen[x]]
      BY <2>1, <2>2
    <2> DEFINE then == Noted(w, v)
    <2>4. then[w] = now /\ \A x \in Watched : x # w => then[x] = seen[x]
      BY <2>3
    <2>5. then = [x \in Watched |-> then[x]]
      BY <2>3
    <2> HIDE DEF then
    <2>6. now \in {v, "many"} /\ (seen[w] = Unbound \/ now = seen[w] \/ now = "many")
      BY DEF now
    <2>7. Later(seen, then)
      BY <2>4, <2>6 DEF Later
    <2>8. {"Call", "Global", "Argument"} \subseteq Watched /\ Owner \subseteq Watched
      BY DEF Watched
    <2>9. {then["Call"], then["Global"]} \subseteq Kind \cup {Unbound, "many"}
      BY <1>1, <2>4, <2>6, <2>8 DEF SeenOK, Noticed
    <2>10. then["Argument"] \in Owner \cup {Unbound, "many"}
      BY <1>1, <2>4, <2>6, <2>8 DEF SeenOK, Noticed
    <2>11. \A o \in Owner : then[o] \in Kind \cup {"many"}
      BY <1>1, <2>4, <2>6, <2>8 DEF SeenOK, Noticed
    <2>12. SeenOK(then)
      BY <2>5, <2>9, <2>10, <2>11 DEF SeenOK
    <2>13. QED
      BY <2>4, <2>6, <2>7, <2>12 DEF then
  <1>4. QED
    BY <1>2, <1>3

LEMMA LaterObserved ==
    ASSUME NEW see, NEW then, Observed(see), SeenOK(then), Later(see, then)
    PROVE  Observed(then)
  <1>1. {"Call", "Global", "Argument"} \subseteq Watched /\ Owner \subseteq Watched
    BY DEF Watched
  <1>2. "many" # Unbound
    BY NamesAssumption
  <1>3. \A w \in Watched : \A v : v # Unbound /\ see[w] \in {v, "many"} => then[w] \in {v, "many"}
    BY <1>2 DEF Later
  <1>4. QED
    BY <1>1, <1>3 DEF Observed

LEMMA LaterAttr ==
    ASSUME SeenInv, NEW then, SeenOK(then), Later(seen, then)
    PROVE  \A o \in Owner : then[o] \in {attr[o], "many"}
  <1>1. Owner \subseteq Watched
    BY DEF Watched
  <1>2. \A o \in Owner : seen[o] # Unbound
    BY NamesAssumption DEF SeenInv, Observed, SeenOK
  <1>3. QED
    BY <1>1, <1>2 DEF Later, SeenInv, AttrSeen

\* What a step keeps that has the frame go on and nothing compiled.
LEMMA CalmKeeps ==
    ASSUME SeenInv, SeenOK(seen'), Later(seen, seen'),
           UNCHANGED <<body, status, profile, code, frame>>
    PROVE  /\ FrameSeen'
           /\ Calm(seen') => /\ ProfileFits(seen)' /\ SumFits'
                             /\ frame'.running \/ status' = "Optimized"
                                    => Predicts(body', seen', code'.operands)
  <1>1. SeenOK(seen)
    BY DEF SeenInv, Observed
  <1>2. FrameSeen'
    <2>1. "Argument" \in Watched /\ Unbound \notin Owner \cup {"many"}
      BY NamesAssumption DEF Watched
    <2>2. QED
      BY <2>1 DEF SeenInv, FrameSeen, Later
  <1>3. ASSUME Calm(seen')
        PROVE  /\ ProfileFits(seen)' /\ SumFits'
               /\ frame'.running \/ status' = "Optimized"
                      => Predicts(body', seen', code'.operands)
    <2>1. Calm(seen)
      BY <1>1, <1>3, LaterCalm
    <2>2. ProfileFits(seen')
      BY <1>1, <1>3, <2>1, LaterProfile DEF SeenInv
    <2>3. ProfileFits(seen)'
      BY <2>2 DEF ProfileFits, Additions
    <2>4. SumFits'
      <3>1. SumIs(body, seen, frame.k, frame.left) => SumIs(body, seen', frame.k, frame.left)
        BY <1>1, <1>3, LaterSum
      <3>2. QED
        BY <2>1, <3>1 DEF SeenInv, SumFits
    <2>5. Predicts(body, seen, code.operands) => Predicts(body, seen', code.operands)
      BY <1>1, <1>3, LaterPredicts
    <2>6. QED
      BY <2>1, <2>3, <2>4, <2>5 DEF SeenInv
  <1>4. QED
    BY <1>2, <1>3

\* A call that compiles looks at everything that has been seen.
LEMMA CallFits ==
    ASSUME SeenInv, ReadsInv, GlobalsTypeOK, NEW g \in Globals, NEW o \in Owner, Call(g, o)
    PROVE  SeenInv'
  <1>1. /\ frame' = [running |-> TRUE, g |-> g, k |-> 0, owner |-> o, left |-> Unbound,
                     py |-> Unbound, misread |-> "no"]
        /\ seen' = Noted("Argument", o)
        /\ UNCHANGED <<body, status, profile, table, attr, dict>>
    BY DEF Call, Resolve, learnedVars, globalVars
  <1>2. SeenOK(seen) /\ "Argument" \in Watched /\ o # Unbound /\ Noticed("Argument", o)
    BY NamesAssumption DEF SeenInv, Observed, Watched, Noticed
  <1>3. SeenOK(seen') /\ Later(seen, seen') /\ seen'["Argument"] \in {o, "many"}
    BY <1>1, <1>2, NotedLater
  <1>4. Observed(seen') /\ Observed(seen)'
    <2>1. Observed(seen')
      BY <1>3, LaterObserved DEF SeenInv
    <2>2. QED
      BY <1>1, <2>1 DEF Observed
  <1>5. LearnedOK' /\ AttrSeen' /\ FrameSeen'
    <2>1. LearnedOK'
      BY <1>1 DEF SeenInv, LearnedOK
    <2>2. AttrSeen'
      BY <1>1, <1>3, LaterAttr DEF SeenInv, AttrSeen
    <2>3. FrameSeen'
      BY <1>1, <1>3 DEF FrameSeen
    <2>4. QED
      BY <2>1, <2>2, <2>3
  <1>6. ASSUME Calm(seen')
        PROVE  ProfileFits(seen)' /\ SumFits' /\ Predicts(body', seen', code'.operands)
    <2>1. Calm(seen)
      BY <1>2, <1>3, <1>6, LaterCalm
    <2>2. ProfileFits(seen')
      BY <1>2, <1>3, <1>6, <2>1, LaterProfile DEF SeenInv
    <2>3. ProfileFits(seen)'
      BY <1>1, <2>2 DEF ProfileFits, Additions
    <2>4. SumFits'
      BY <1>1, NamesAssumption DEF SumFits, Error
    <2>5. Predicts(body, seen', code'.operands)
      <3>1. CASE status = "Optimized"
        <4>1. code' = code /\ Predicts(body, seen, code.operands)
          BY <2>1, <3>1 DEF Call, SeenInv
        <4>2. QED
          BY <1>2, <1>3, <1>6, <4>1, LaterPredicts
      <3>2. CASE status # "Optimized"
        <4>1. code' = compile(g, o)
          BY <3>2, Zenon DEF Call
        <4>2. code'.operands = analyse(g, o)
          BY <4>1, Zenon DEF compile
        <4>3. seen'["Argument"] = o
          BY <1>3, <1>6 DEF Calm
        <4>4. body \in Seq(Origin) /\ Len(body) > 1
          BY FeedbackAssumption DEF ReadsInv
        <4> DEFINE now == seen'
        <4>5. Observed(now) /\ ProfileFits(now) /\ Calm(now) /\ now["Argument"] = o
          BY <1>4, <1>6, <2>2, <4>3
        <4> HIDE DEF now
        <4>6. Predicts(body, now, analyse(g, now["Argument"]))
          BY <4>4, <4>5, AnalysisPredicts
        <4>7. Predicts(body, now, code'.operands)
          BY <4>2, <4>5, <4>6, Zenon
        <4>8. QED
          BY <4>7, Zenon DEF now
      <3>3. QED
        BY <3>1, <3>2
    <2>6. QED
      BY <1>1, <2>3, <2>4, <2>5
  <1>7. QED
    BY <1>4, <1>5, <1>6 DEF SeenInv, Calm

\* Entries of the profile, and two updates of one.
Entries(D, f) ==
    f = [j \in D |-> [left |-> f[j].left, right |-> f[j].right, owner |-> f[j].owner]]

Update(f, k, x, y) == [f EXCEPT ![k].left = x, ![k].right = y]

Updated(D, f, k, x, y) ==
    [j \in D |-> [left |-> IF j = k THEN x ELSE f[j].left,
                  right |-> IF j = k THEN y ELSE f[j].right,
                  owner |-> f[j].owner]]

LEMMA EntryExcept ==
    ASSUME NEW D, NEW f, NEW k \in D, NEW x, NEW y, Entries(D, f)
    PROVE  Update(f, k, x, y) = Updated(D, f, k, x, y)
  <1> USE DEF Entries, Update, Updated
  <1>1. f[k] = [left |-> f[k].left, right |-> f[k].right, owner |-> f[k].owner]
    OBVIOUS
  <1> DEFINE e == [left |-> x, right |-> f[k].right, owner |-> f[k].owner]
             h == [f EXCEPT ![k] = e]
  <1>2. [f[k] EXCEPT !.left = x] = e
    BY <1>1
  <1>3. [f EXCEPT ![k].left = x] = h
    BY <1>2
  <1>4. h = [j \in D |-> IF j = k THEN e ELSE f[j]]
    OBVIOUS
  <1>5. h[k] = e
    BY <1>4
  <1>6. [h[k] EXCEPT !.right = y] = [left |-> x, right |-> y, owner |-> f[k].owner]
    BY <1>5
  <1>7. [h EXCEPT ![k].right = y] = [h EXCEPT ![k] = [left |-> x, right |-> y, owner |-> f[k].owner]]
    BY <1>6
  <1>8. [f EXCEPT ![k].left = x, ![k].right = y] = [h EXCEPT ![k].right = y]
    BY <1>3
  <1>9. QED
    BY <1>4, <1>7, <1>8

\* What an addition adds to the profile.
LEMMA AddLearns ==
    ASSUME LearnedOK, NEW v, Add(v, v), frame.k + 1 \in DOMAIN body
    PROVE  /\ LearnedOK'
           /\ \A j \in DOMAIN body :
                  LET learned == j = frame.k + 1 /\ j # 1 /\ v \notin Error
                  IN  /\ \/ profile'[j].left = profile[j].left
                         \/ learned /\ profile'[j].left = record(profile[j].left, frame.left)
                      /\ \/ profile'[j].right = profile[j].right
                         \/ learned /\ profile'[j].right = record(profile[j].right, v)
                      /\ \/ profile'[j].owner = profile[j].owner
                         \/ profile'[j].owner = recordType(profile[j].owner, frame.owner)
  <1> DEFINE k == frame.k + 1
             adds == k # 1 /\ v \notin Error
             p == IF adds THEN emitPgcProbes(k, frame.left, v) ELSE profile
             left == IF IsObject(k, "left") THEN record(profile[k].left, frame.left)
                     ELSE profile[k].left
             right == record(profile[k].right, v)
             owner == IF body[k] = "Attr" /\ code.probes
                      THEN recordType(profile[k].owner, frame.owner) ELSE profile[k].owner
  <1>1. profile' = [p EXCEPT ![k].owner = IF body[k] = "Attr" /\ code.probes
                                           THEN recordType(@, frame.owner) ELSE @]
    BY Zenon DEF Add
  <1>2. UNCHANGED <<body, table, attr>>
    BY DEF Add
  <1>3. profile = [j \in DOMAIN body |-> [left |-> profile[j].left, right |-> profile[j].right,
                                          owner |-> profile[j].owner]]
    BY DEF LearnedOK
  <1>4. k \in DOMAIN body
    OBVIOUS
  <1>5. \/ p = profile
        \/ adds /\ p = [profile EXCEPT ![k].left = left, ![k].right = right]
    BY DEF emitPgcProbes
  <1> HIDE DEF p, k, left, right
  <1>6. PICK l, r : /\ l = profile[k].left \/ (adds /\ l = record(profile[k].left, frame.left))
                    /\ r = profile[k].right \/ (adds /\ r = record(profile[k].right, v))
                    /\ p = [j \in DOMAIN body |->
                               [left |-> IF j = k THEN l ELSE profile[j].left,
                                right |-> IF j = k THEN r ELSE profile[j].right,
                                owner |-> profile[j].owner]]
    <2>1. CASE p = profile
      <3>1. p = [j \in DOMAIN body |->
                    [left |-> IF j = k THEN profile[k].left ELSE profile[j].left,
                     right |-> IF j = k THEN profile[k].right ELSE profile[j].right,
                     owner |-> profile[j].owner]]
        BY <1>3, <2>1
      <3>2. QED
        BY <3>1
    <2>2. CASE adds /\ p = [profile EXCEPT ![k].left = left, ![k].right = right]
      <3>1. p = [j \in DOMAIN body |->
                    [left |-> IF j = k THEN left ELSE profile[j].left,
                     right |-> IF j = k THEN right ELSE profile[j].right,
                     owner |-> profile[j].owner]]
        <4>1. Update(profile, k, left, right) = Updated(DOMAIN body, profile, k, left, right)
          <5>1. Entries(DOMAIN body, profile)
            BY <1>3, Zenon DEF Entries
          <5>2. QED
            BY <1>4, <5>1, EntryExcept, Zenon
        <4>2. QED
          BY <2>2, <4>1, Zenon DEF Update, Updated
      <3>2. left = profile[k].left \/ left = record(profile[k].left, frame.left)
        BY DEF left
      <3>3. right = record(profile[k].right, v)
        BY DEF right
      <3>4. adds
        BY <2>2
      <3> HIDE DEF adds
      <3>5. /\ left = profile[k].left \/ (adds /\ left = record(profile[k].left, frame.left))
            /\ right = profile[k].right \/ (adds /\ right = record(profile[k].right, v))
        BY <3>2, <3>3, <3>4, Zenon
      <3>6. QED
        BY <3>1, <3>5, Zenon
    <2>3. QED
      BY <1>5, <2>1, <2>2
  <1> HIDE DEF owner, adds
  <1>7. profile' = [j \in DOMAIN body |->
                       [left |-> IF j = k THEN l ELSE profile[j].left,
                        right |-> IF j = k THEN r ELSE profile[j].right,
                        owner |-> IF j = k THEN owner ELSE profile[j].owner]]
    <2>1. p[k].owner = profile[k].owner
      BY <1>4, <1>6
    <2>2. profile' = [p EXCEPT ![k].owner = owner]
      BY <1>1, <2>1, Zenon DEF owner
    <2>3. QED
      BY <1>4, <1>6, <2>2
  <1>8. LearnedOK'
    <2>1. profile' = [j \in DOMAIN body' |-> [left |-> profile'[j].left, right |-> profile'[j].right,
                                              owner |-> profile'[j].owner]]
      BY <1>2, <1>7
    <2>2. QED
      BY <1>2, <2>1 DEF LearnedOK
  <1>9. \A j \in DOMAIN body : /\ profile'[j].left = IF j = k THEN l ELSE profile[j].left
                               /\ profile'[j].right = IF j = k THEN r ELSE profile[j].right
                               /\ profile'[j].owner = IF j = k THEN owner ELSE profile[j].owner
    BY <1>7
  <1>10. QED
    BY <1>6, <1>8, <1>9 DEF adds, k, owner

\* An operand of the kind that is expected passes its guard.
LEMMA UnboxedSame ==
    ASSUME NEW k \in Additions, NEW s \in {"left", "right"}, NEW v \in Kind,
           supportsEscaping(code.operands[k][s].kind), Good(code.operands[k][s].kind, v)
    PROVE  unboxed(k, s, v) = v
  BY DEF unboxed, emit_unbox, supportsEscaping, Good

LEMMA CalmSum ==
    ASSUME NEW see, NEW k \in Additions, NEW a \in Kind, NEW v \in Kind \cup {"NameError"},
           Predicts(body, see, code.operands), Guarded(code.operands, code.escape),
           SumIs(body, see, k - 1, a), v \in Kind => KindOf(body, see, k) = v
    PROVE  compiledSum(k, a, v) = Sum(a, v)
  <1>1. CASE v \in Error \/ ~code.escape[k]
    BY <1>1 DEF compiledSum
  <1>2. CASE v \notin Error /\ code.escape[k]
    <2> DEFINE l == code.operands[k].left.kind
               r == code.operands[k].right.kind
    <2>1. v \in Kind
      BY <1>2 DEF Error
    <2>2. supportsEscaping(l) /\ supportsEscaping(r)
      BY <1>2 DEF Guarded
    <2>3. PredictsLeft(body, see, l, k) /\ PredictsRight(body, see, r, k)
      BY DEF Predicts, Additions
    <2>4. l # "Any" /\ r # "Any"
      BY <2>2 DEF supportsEscaping
    <2>5. Good(r, v)
      BY <2>1, <2>3, <2>4 DEF PredictsRight
    <2>6. Good(l, a)
      <3>1. PICK n \in Kind : SumIs(body, see, k - 1, n) /\ Good(l, n)
        BY <2>3, <2>4 DEF PredictsLeft
      <3>2. n = a
        BY <3>1, TotalIsUnique DEF SumIs
      <3>3. QED
        BY <3>1, <3>2
    <2>7. unboxed(k, "left", a) = a /\ unboxed(k, "right", v) = v
      BY <2>1, <2>2, <2>5, <2>6, UnboxedSame
    <2>8. compiledSum(k, a, v) = Sum(unboxed(k, "left", a), unboxed(k, "right", v))
      BY <1>2 DEF compiledSum
    <2>9. QED
      BY <2>7, <2>8
  <1>3. QED
    BY <1>1, <1>2

LEMMA SumEarns ==
    ASSUME NEW a \in Kind, NEW v \in Kind \cup {"NameError"}
    PROVE  Sum(a, v) # "guard" /\ (Sum(a, v) \notin Error => v \in Kind)
  <1>1. CASE v \in Kind /\ {a, v} \subseteq Number
    BY <1>1, SumOfNumbers DEF Number
  <1>2. CASE v \in Kind /\ ~({a, v} \subseteq Number)
    BY <1>2, SumOfOthers
  <1>3. CASE v = "NameError"
    <2>1. {a, v} \cap Error = {"NameError"}
      BY <1>3 DEF Error, Kind
    <2>2. Sum(a, v) = CHOOSE e \in Error : e \in {a, v}
      BY <2>1 DEF Sum
    <2>3. \E e \in Error : e \in {a, v}
      BY <2>1
    <2>4. (CHOOSE e \in Error : e \in {a, v}) \in Error \cap {a, v}
      BY <2>3
    <2>5. QED
      BY <2>1, <2>2, <2>4
  <1>4. QED
    BY <1>1, <1>2, <1>3

LEMMA RecordKind ==
    ASSUME NEW e, NEW v
    PROVE  record(e, v).kind = v
  BY DEF record

LEMMA AddFits ==
    ASSUME SeenInv, ReadsInv, FrameOK, frame.running, ~Ended,
           NEW v \in Kind \cup {"NameError"}, Add(v, v), SeenOK(seen'), Later(seen, seen'),
           v \in Kind /\ Calm(seen') => KindOf(body, seen', frame.k + 1) = v
    PROVE  SeenInv'
  <1> DEFINE k == frame.k + 1
             a == frame.left
             left == IF k = 1 THEN v ELSE compiledSum(k, a, v)
  <1>1. frame.k \in Nat /\ k \in 1..Len(body) /\ k \in DOMAIN body
    BY FeedbackAssumption DEF ReadsInv, Ended
  <1>2. /\ frame'.running /\ frame'.k = k /\ frame'.owner = frame.owner /\ frame'.left = left
        /\ UNCHANGED <<body, status, code, table, attr, dict>>
    <2> DEFINE py == IF k = 1 THEN v ELSE Sum(frame.py, v)
               misread == IF (k # 1 /\ v \notin Error) /\ frame.misread = "no"
                          THEN Misreading(k, a, v) ELSE frame.misread
    <2>1. frame' = [frame EXCEPT !.k = k, !.left = IF k = 1 THEN v ELSE compiledSum(k, @, v),
                        !.py = IF k = 1 THEN v ELSE Sum(@, v),
                        !.misread = IF (k # 1 /\ v \notin Error) /\ @ = "no"
                                    THEN Misreading(k, a, v) ELSE @]
      BY Zenon DEF Add
    <2>2. frame = [running |-> TRUE, g |-> frame.g, k |-> frame.k, owner |-> frame.owner,
                   left |-> frame.left, py |-> frame.py, misread |-> frame.misread]
      BY DEF FrameOK
    <2> HIDE DEF k
    <2>3. frame' = [running |-> TRUE, g |-> frame.g, k |-> k, owner |-> frame.owner,
                    left |-> left, py |-> py, misread |-> misread]
      BY <2>1, <2>2
    <2>4. UNCHANGED <<body, status, code, table, attr, dict>>
      BY DEF Add, globalVars
    <2> HIDE DEF left, py, misread
    <2>5. QED
      BY <2>3, <2>4
  <1>3. /\ LearnedOK'
        /\ \A j \in DOMAIN body :
               LET learned == j = k /\ j # 1 /\ v \notin Error
               IN  /\ \/ profile'[j].left = profile[j].left
                      \/ learned /\ profile'[j].left = record(profile[j].left, a)
                   /\ \/ profile'[j].right = profile[j].right
                      \/ learned /\ profile'[j].right = record(profile[j].right, v)
                   /\ \/ profile'[j].owner = profile[j].owner
                      \/ profile'[j].owner = recordType(profile[j].owner, frame.owner)
    BY <1>1, AddLearns, Zenon DEF SeenInv
  <1>4. "Argument" \in Watched /\ Unbound \notin Owner \cup {"many"}
    BY NamesAssumption DEF Watched
  <1>5. FrameSeen' /\ seen'["Argument"] \in {frame.owner, "many"}
    BY <1>2, <1>4 DEF SeenInv, FrameSeen, Later
  <1>6. Observed(seen)'
    <2>1. Observed(seen')
      BY LaterObserved DEF SeenInv
    <2>2. \A j \in DOMAIN body :
              profile'[j].owner # Unbound => seen'["Argument"] \in {profile'[j].owner, "many"}
      BY <1>3, <1>5, <2>1 DEF recordType, Observed
    <2>3. QED
      BY <1>2, <2>1, <2>2 DEF Observed
  <1>7. AttrSeen'
    BY <1>2, LaterAttr DEF SeenInv, AttrSeen
  <1>8. ASSUME Calm(seen')
        PROVE  ProfileFits(seen)' /\ SumFits' /\ Predicts(body', seen', code'.operands)
    <2>1. SeenOK(seen) /\ Calm(seen)
      BY <1>8, LaterCalm DEF SeenInv, Observed
    <2>2. ProfileFits(seen')
      BY <1>8, <2>1, LaterProfile DEF SeenInv
    <2>3. Predicts(body, seen', code.operands)
      BY <1>8, <2>1, LaterPredicts DEF SeenInv
    <2>4. k # 1 => a \in Kind /\ SumIs(body, seen', k - 1, a)
      <3> SUFFICES ASSUME k # 1
                   PROVE  a \in Kind /\ SumIs(body, seen', k - 1, a)
        OBVIOUS
      <3>1. frame.k # 0 /\ k - 1 = frame.k
        BY <1>1
      <3>2. a \notin Error
        BY DEF Ended
      <3>3. SumIs(body, seen, k - 1, a)
        BY <2>1, <3>1, <3>2 DEF SeenInv, SumFits
      <3>4. a \in Kind
        BY <3>3 DEF SumIs, Known, Totals
      <3>5. QED
        BY <1>8, <2>1, <3>3, <3>4, LaterSum
    <2>5. v \notin Error => v \in Kind /\ KindOf(body, seen', k) = v
      BY <1>8 DEF Error
    <2> HIDE DEF k, a
    <2>6. ProfileFits(seen)'
      <3> SUFFICES ASSUME NEW j \in Additions
                   PROVE  /\ profile'[j].left.type # Unbound =>
                                 SumIs(body, seen', j - 1, profile'[j].left.kind)
                          /\ profile'[j].right.type # Unbound =>
                                 /\ KindOf(body, seen', j) \in Kind
                                 /\ profile'[j].right.kind = KindOf(body, seen', j)
        BY <1>2 DEF ProfileFits, Additions
      <3>1. j \in DOMAIN body
        BY FeedbackAssumption DEF Additions, ReadsInv
      <3>2. /\ profile[j].left.type # Unbound => SumIs(body, seen', j - 1, profile[j].left.kind)
            /\ profile[j].right.type # Unbound =>
                   /\ KindOf(body, seen', j) \in Kind
                   /\ profile[j].right.kind = KindOf(body, seen', j)
        BY <2>2 DEF ProfileFits
      <3>3. QED
        BY <1>3, <2>4, <2>5, <3>1, <3>2, RecordKind
    <2>7. left # "guard" /\ (left \notin Error => SumIs(body, seen', k, left))
      <3>1. CASE k = 1
        <4>1. left = v
          BY <3>1
        <4>2. v # "guard"
          BY DEF Kind
        <4>3. v \notin Error => SumIs(body, seen', 1, v)
          BY <2>5, <3>1, SumOfFirst
        <4>4. QED
          BY <3>1, <4>1, <4>2, <4>3
      <3>2. CASE k # 1
        <4>1. k \in Additions /\ k \in Nat /\ k > 1
          BY <1>1, <3>2 DEF Additions, k
        <4>2. left = Sum(a, v)
          BY <2>3, <2>4, <2>5, <3>2, <4>1, CalmSum DEF ReadsInv, Error, Kind
        <4>3. left # "guard" /\ (left \notin Error => v \in Kind)
          BY <2>4, <3>2, <4>2, SumEarns
        <4>4. left \notin Error => SumIs(body, seen', k, left)
          BY <2>4, <2>5, <3>2, <4>1, <4>2, <4>3, SumOfNext DEF Error, Kind
        <4>5. QED
          BY <4>3, <4>4
      <3>3. QED
        BY <3>1, <3>2
    <2>8. SumFits'
      BY <1>2, <2>7 DEF SumFits
    <2>9. QED
      BY <1>2, <2>3, <2>6, <2>8
  <1>9. QED
    BY <1>3, <1>5, <1>6, <1>7, <1>8 DEF SeenInv, Calm

\* What is seen when nothing is.
LEMMA NothingNoted ==
    ASSUME SeenOK(seen), seen' = seen
    PROVE  SeenOK(seen') /\ Later(seen, seen')
  BY DEF Later

LEMMA InitFits == Init => SeenInv
  <1> SUFFICES ASSUME Init PROVE SeenInv
    OBVIOUS
  <1>1. PICK u \in [Dict -> Value \cup {Unbound}] :
            dict = [d \in Dict |-> [value |-> u[d], tag |-> FirstTag[d]]]
    BY DEF Init
  <1> DEFINE first(w) == CASE w \in Owner  -> attr[w]
                           [] w = "Global" -> CommonKind({dict[d].value : d \in Dict} \ {Unbound})
                           [] OTHER        -> Unbound
             values == {dict[d].value : d \in Dict} \ {Unbound}
  <1>2. seen = [w \in Watched |-> first(w)]
    BY Zenon DEF Init
  <1>3. Owner \cap {"Call", "Global", "Argument"} = {}
    BY NamesAssumption
  <1>4. /\ first("Call") = Unbound /\ first("Argument") = Unbound
        /\ first("Global") = CommonKind(values)
        /\ \A o \in Owner : first(o) = attr[o]
    <2>1. "Call" \notin Owner /\ "Argument" \notin Owner /\ "Global" \notin Owner
      BY <1>3
    <2>2. "Call" # "Global" /\ "Argument" # "Global" /\ \A o \in Owner : o # "Global"
      BY <2>1
    <2>3. QED
      BY <2>1, <2>2, Zenon
  <1> HIDE DEF first
  <1>5. {"Call", "Global", "Argument"} \subseteq Watched /\ Owner \subseteq Watched
    BY DEF Watched
  <1>6. /\ seen["Call"] = Unbound /\ seen["Argument"] = Unbound
        /\ seen["Global"] = CommonKind(values) /\ \A o \in Owner : seen[o] = attr[o]
        /\ seen = [w \in Watched |-> seen[w]]
    BY <1>2, <1>4, <1>5
  <1>7. values \subseteq Kind
    BY <1>1, FeedbackAssumption
  <1>8. /\ CommonKind(values) \in Kind \cup {Unbound, "many"}
        /\ \A x \in values : CommonKind(values) \in {x, "many"}
    <2> HIDE DEF values
    <2>1. CASE values = {}
      BY <2>1, Zenon DEF CommonKind
    <2>2. CASE values # {} /\ \E x \in values : values = {x}
      <3>1. CommonKind(values) = CHOOSE x \in values : TRUE
        BY <2>2, Zenon DEF CommonKind
      <3>2. CommonKind(values) \in values
        BY <2>2, <3>1
      <3>3. QED
        BY <1>7, <2>2, <3>2
    <2>3. CASE values # {} /\ ~ \E x \in values : values = {x}
      <3>1. CommonKind(values) = "many"
        BY <2>3, Zenon DEF CommonKind
      <3>2. QED
        BY <3>1
    <2>4. QED
      BY <2>1, <2>2, <2>3
  <1>9. attr \in [Owner -> AttrValue] /\ AttrValue \subseteq Kind
    BY FeedbackAssumption DEF Init
  <1>10. SeenOK(seen)
    BY <1>6, <1>8, <1>9 DEF SeenOK
  <1>11. \A d \in Dict : dict[d].value # Unbound => seen["Global"] \in {dict[d].value, "many"}
    BY <1>6, <1>8
  <1>12. /\ profile = [k \in DOMAIN body |-> NotProfiled]
         /\ table = [o \in Owner |-> Unbound]
         /\ ~frame.running /\ status # "Optimized"
    BY Zenon DEF Init, Idle
  <1>13. /\ \A k \in DOMAIN body : profile[k] = NotProfiled
         /\ \A o \in Owner : table[o] = Unbound
    BY <1>12
  <1>14. LearnedOK
    BY <1>9, <1>12, <1>13 DEF LearnedOK, NotProfiled, NotSeen
  <1>15. Observed(seen)
    BY <1>10, <1>11, <1>13 DEF Observed, NotProfiled
  <1>16. AttrSeen
    BY <1>6, <1>9 DEF AttrSeen
  <1>17. ProfileFits(seen)
    <2>1. Additions \subseteq DOMAIN body
      BY FeedbackAssumption DEF Init, Additions
    <2>2. QED
      BY <1>13, <2>1 DEF ProfileFits, NotProfiled, NotSeen
  <1>18. ~frame.running
    BY DEF Init, Idle
  <1>19. QED
    BY <1>12, <1>14, <1>15, <1>16, <1>17, <1>18 DEF SeenInv, FrameSeen, SumFits

LEMMA StepFits ==
    ASSUME SeenInv, ReadsInv, FeedbackInv, [Next]_vars
    PROVE  SeenInv'
  <1>1. SeenOK(seen) /\ GlobalsTypeOK /\ FrameOK /\ Value \subseteq Kind /\ AttrValue \subseteq Kind
    BY FeedbackAssumption DEF SeenInv, Observed, FeedbackInv, CacheInv
  <1>2. ASSUME NEW g \in Globals, NEW o \in Owner, Call(g, o)
        PROVE  SeenInv'
    BY <1>1, <1>2, CallFits
  <1>3. CASE AddConst
    <2>1. frame.running /\ ~Ended /\ body[frame.k + 1] = "Const" /\ Add("Float", "Float")
      BY <1>3 DEF AddConst, Steps
    <2>2. SeenOK(seen') /\ Later(seen, seen')
      BY <1>1, <1>3, NothingNoted DEF AddConst
    <2>3. KindOf(body, seen', frame.k + 1) = "Float"
      BY <2>1 DEF KindOf
    <2>4. QED
      BY <1>1, <2>1, <2>2, <2>3, AddFits DEF Kind
  <1>4. ASSUME NEW v \in Value, AddCall(v)
        PROVE  SeenInv'
    <2>1. frame.running /\ ~Ended /\ body[frame.k + 1] = "Call" /\ Add(v, v)
      BY <1>4 DEF AddCall, Steps
    <2>2. seen' = Noted("Call", v) /\ "Call" \in Watched /\ Noticed("Call", v) /\ v # Unbound
      BY <1>1, <1>4, GlobalsAssumption DEF AddCall, Watched, Noticed
    <2>3. SeenOK(seen') /\ Later(seen, seen') /\ seen'["Call"] \in {v, "many"}
      BY <1>1, <2>2, NotedLater
    <2>4. Calm(seen') => KindOf(body, seen', frame.k + 1) = v
      BY <2>1, <2>3 DEF KindOf, Calm
    <2>5. QED
      BY <1>1, <2>1, <2>3, <2>4, AddFits
  <1>5. CASE AddGlobal
    <2> DEFINE v == Bound(LoadGlobal(frame.g))
    <2>1. /\ frame.running /\ ~Ended /\ body[frame.k + 1] = "Global"
          /\ Add(Bound(emit_load_global(code.global, frame.g)), v)
      BY <1>5 DEF AddGlobal, Steps
    <2>2. emit_load_global(code.global, frame.g) = LoadGlobal(frame.g)
      BY <2>1, GlobalAgrees DEF FeedbackInv
    <2>3. SeenOK(seen') /\ Later(seen, seen') /\ seen' = seen
      BY <1>1, <1>5, NothingNoted DEF AddGlobal
    <2>4. PICK d \in Dict : LoadGlobal(frame.g) = dict[d].value
      BY <1>1, <2>1, GlobalsAssumption DEF LoadGlobal, FrameOK, Dict
    <2>5. v \in Kind \cup {"NameError"}
      BY <1>1, <2>4 DEF Bound, GlobalsTypeOK
    <2>6. v \in Kind /\ Calm(seen') => KindOf(body, seen', frame.k + 1) = v
      <3> SUFFICES ASSUME v \in Kind, Calm(seen')
                   PROVE  KindOf(body, seen', frame.k + 1) = v
        OBVIOUS
      <3>1. v = dict[d].value /\ dict[d].value # Unbound
        BY <2>4 DEF Bound, Kind
      <3>2. seen["Global"] \in {v, "many"}
        BY <3>1 DEF SeenInv, Observed
      <3>3. QED
        BY <2>1, <2>3, <3>2 DEF KindOf, Calm
    <2>7. Add(v, v)
      BY <2>1, <2>2
    <2> HIDE DEF v
    <2>8. QED
      BY <1>1, <2>1, <2>3, <2>5, <2>6, <2>7, AddFits
  <1>6. CASE AddAttr
    <2> DEFINE v == attr[frame.owner]
    <2>1. frame.running /\ ~Ended /\ body[frame.k + 1] = "Attr" /\ Add(v, v)
      BY <1>6 DEF AddAttr, Steps
    <2>2. SeenOK(seen') /\ Later(seen, seen') /\ seen' = seen
      BY <1>1, <1>6, NothingNoted DEF AddAttr
    <2>3. frame.owner \in Owner /\ seen["Argument"] \in {frame.owner, "many"}
      BY <2>1 DEF SeenInv, FrameSeen
    <2>4. v \in Kind /\ seen[frame.owner] \in {v, "many"}
      BY <1>1, <2>3 DEF SeenInv, AttrSeen
    <2>5. Calm(seen') => KindOf(body, seen', frame.k + 1) = v
      <3> SUFFICES ASSUME Calm(seen')
                   PROVE  KindOf(body, seen', frame.k + 1) = v
        OBVIOUS
      <3>1. seen'["Argument"] = frame.owner
        BY <2>2, <2>3 DEF Calm
      <3>2. seen'[frame.owner] = v
        BY <2>2, <2>3, <2>4, <3>1 DEF Calm
      <3>3. QED
        BY <2>1, <2>3, <3>1, <3>2 DEF KindOf
    <2> HIDE DEF v
    <2>6. QED
      BY <1>1, <2>1, <2>2, <2>4, <2>5, AddFits
  <1>7. CASE Return
    <2>1. /\ frame.running /\ ~frame'.running
          /\ UNCHANGED <<body, profile, table, code, attr, seen, dict>>
      BY <1>7 DEF Return, Idle, globalVars
    <2>2. QED
      BY <2>1 DEF SeenInv, LearnedOK, Observed, AttrSeen, FrameSeen, SumFits, ProfileFits,
                  Additions, Calm
  <1>8. ASSUME NEW d \in Dict, NEW v \in Value \cup {Unbound}, BindName(d, v)
        PROVE  SeenInv'
    <2>1. /\ UNCHANGED <<body, status, profile, table, code, attr, frame>>
          /\ dict' = [dict EXCEPT ![d] = [value |-> v, tag |-> nextTag]]
          /\ seen' = Noted("Global", v)
      BY <1>8 DEF BindName, Bind, learnedVars
    <2>2. "Global" \in Watched /\ Noticed("Global", v)
      BY <1>1 DEF Watched, Noticed
    <2>3. /\ SeenOK(seen') /\ Later(seen, seen')
          /\ v # Unbound => seen'["Global"] \in {v, "many"}
      BY <1>1, <2>1, <2>2, NotedLater
    <2>4. Observed(seen')
      BY <2>3, LaterObserved DEF SeenInv
    <2>5. Observed(seen)'
      <3>1. \A e \in Dict : dict'[e].value # Unbound => seen'["Global"] \in {dict'[e].value, "many"}
        BY <1>1, <2>1, <2>3, <2>4 DEF Observed, GlobalsTypeOK
      <3>2. QED
        BY <2>1, <2>4, <3>1 DEF Observed
    <2>6. LearnedOK' /\ AttrSeen'
      BY <2>1, <2>3, LaterAttr DEF SeenInv, LearnedOK, AttrSeen
    <2>7. QED
      BY <2>1, <2>3, <2>5, <2>6, CalmKeeps DEF SeenInv, Calm
  <1>9. ASSUME NEW o \in Owner, NEW v \in AttrValue, StoreAttr(o, v) \/ CompileStore(o, v)
        PROVE  SeenInv'
    <2>1. /\ UNCHANGED <<body, status, profile, code, frame, dict>>
          /\ attr' = attr \/ attr' = [attr EXCEPT ![o] = v]
          /\ table' = table \/ table' = [table EXCEPT ![o] = captureStoreAttr(@, v)]
          /\ seen' = Noted(o, v)
      BY <1>9 DEF StoreAttr, CompileStore, learnedVars, globalVars
    <2>2. o \in Watched /\ Noticed(o, v) /\ v # Unbound
      BY <1>1, NamesAssumption DEF Watched, Noticed
    <2>3. SeenOK(seen') /\ Later(seen, seen') /\ seen'[o] \in {v, "many"}
      BY <1>1, <2>1, <2>2, NotedLater
    <2>4. Observed(seen')
      BY <2>3, LaterObserved DEF SeenInv
    <2>5. captureStoreAttr(table[o], v) \in {v, "Any"}
      BY Zenon DEF captureStoreAttr
    <2>6. Observed(seen)'
      <3>1. \A x \in Owner : table'[x] \notin {Unbound, "Any"} => seen'[x] \in {table'[x], "many"}
        <4>1. table = [x \in Owner |-> table[x]]
          BY DEF SeenInv, LearnedOK
        <4>2. \A x \in Owner : table'[x] = table[x] \/ (x = o /\ table'[x] \in {v, "Any"})
          BY <2>1, <2>5, <4>1
        <4>3. QED
          BY <2>3, <2>4, <4>2 DEF Observed
      <3>2. QED
        BY <2>1, <2>4, <3>1 DEF Observed
    <2>7. LearnedOK'
      BY <2>1 DEF SeenInv, LearnedOK
    <2>8. AttrSeen'
      <3>1. attr = [x \in Owner |-> attr[x]]
        BY DEF SeenInv, LearnedOK
      <3>2. \A x \in Owner : attr'[x] = attr[x] \/ (x = o /\ attr'[x] = v)
        BY <2>1, <3>1
      <3>3. QED
        BY <2>3, <3>2, LaterAttr DEF SeenInv, AttrSeen
    <2>9. QED
      BY <2>1, <2>3, <2>6, <2>7, <2>8, CalmKeeps DEF SeenInv, Calm
  <1>10. CASE UNCHANGED vars
    BY <1>10 DEF vars, learnedVars, globalVars, SeenInv, LearnedOK, Observed, AttrSeen, FrameSeen,
                 SumFits, ProfileFits, Additions, Calm
  <1>11. QED
    BY <1>2, <1>3, <1>4, <1>5, <1>6, <1>7, <1>8, <1>9, <1>10 DEF Next

LEMMA SeenEarnsGuards ==
    ASSUME SeenInv
    PROVE  GuardErrorsAreEarned
  <1> SUFFICES ASSUME frame.running, frame.left = "guard"
               PROVE  \E w \in {"Call", "Global", "Argument", frame.owner} : seen[w] = "many"
    BY DEF GuardErrorsAreEarned
  <1>1. CASE ~Calm(seen)
    BY <1>1 DEF Calm, SeenInv, FrameSeen
  <1>2. CASE Calm(seen)
    BY <1>2 DEF SeenInv, SumFits
  <1>3. QED
    BY <1>1, <1>2

\* Whatever is called, bound, stored and compiled in whatever order: a guard of the
\* compiled code fails only when a source of operands has changed its kind, never
\* because the profile, the table of attributes or the kinds of sums mistake what
\* they have been shown (pgc.cpp:53, attrtable.cpp:28).
THEOREM GuardsFailOnChange == Spec => []GuardErrorsAreEarned
  <1>1. (FeedbackInv /\ ReadsInv) /\ SeenInv /\ [Next]_vars => SeenInv'
    BY StepFits
  <1>2. FeedbackInv /\ ReadsInv /\ [Next]_vars => ReadsInv'
    BY StepGuarded DEF FeedbackInv
  <1>3. SeenInv => GuardErrorsAreEarned
    BY SeenEarnsGuards
  <1>4. QED
    BY <1>1, <1>2, <1>3, FeedbackInvariant, InitGuarded, InitFits, PTL DEF Spec
=============================================================================

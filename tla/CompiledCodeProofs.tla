------------------------- MODULE CompiledCodeProofs -------------------------
(***************************************************************************)
(* What the compiler takes for granted of the code it compiles, proved of  *)
(* every function, all kinds of arguments and every call:                  *)
(*                                                                         *)
(*   - when the analysis ends, its start states agree with each other:     *)
(*     every instruction is settled, waits in the queue or is the one      *)
(*     being interpreted (AnalysisInv);                                    *)
(*   - the graph has exactly one edge for every operand, in the order of   *)
(*     the stack, and the locals of U are unboxed everywhere or nowhere    *)
(*     (BodiesInv);                                                        *)
(*   - a call of the specialised body finds what the start states say, and *)
(*     unboxes nothing that cannot be unboxed (FrameInv);                  *)
(*   - in a tidy function all slots that may hold one value are of one     *)
(*     source and kind (FlowInv), so that both ends of an edge agree on    *)
(*     who is boxed (TidyInv), and a call of either body finds every       *)
(*     value represented as the next instruction reads it (TidyFrameInv).  *)
(***************************************************************************)
EXTENDS CompiledCode, TLAPS, FiniteSetTheorems, WellFoundedInduction

-----------------------------------------------------------------------------
(* Opcodes and kinds *)

LEMMA PopsOf ==
  ASSUME NEW op \in Op
  PROVE  /\ op \in {"BINARY_ADD", "COMPARE_OP"} => Pops(op) = 2
         /\ op \in CondJump \cup {"STORE_FAST", "POP_TOP", "DUP_TOP", "RETURN_VALUE"} => Pops(op) = 1
         /\ op \in {"LOAD_CONST", "LOAD_GLOBAL", "LOAD_FAST", "DELETE_FAST", "JUMP_ABSOLUTE"} =>
                Pops(op) = 0
         /\ Pops(op) \in 0..2
  <1>1. CASE op \in {"BINARY_ADD", "COMPARE_OP"}
    <2>1. op \notin CondJump \cup {"STORE_FAST", "POP_TOP", "DUP_TOP", "RETURN_VALUE"}
      BY <1>1, SMT DEF CondJump
    <2>2. Pops(op) = 2  BY <1>1, <2>1, Zenon DEF Pops
    <2> QED  BY <1>1, <2>1, <2>2, SMT DEF CondJump
  <1>2. CASE op \in CondJump \cup {"STORE_FAST", "POP_TOP", "DUP_TOP", "RETURN_VALUE"}
    <2>1. op \notin {"BINARY_ADD", "COMPARE_OP"}  BY <1>2, SMT DEF CondJump
    <2>2. Pops(op) = 1  BY <1>2, <2>1, Zenon DEF Pops
    <2> QED  BY <1>2, <2>1, <2>2, SMT DEF CondJump
  <1>3. CASE op \in {"LOAD_CONST", "LOAD_GLOBAL", "LOAD_FAST", "DELETE_FAST", "JUMP_ABSOLUTE"}
    <2>1. /\ op \notin {"BINARY_ADD", "COMPARE_OP"}
          /\ op \notin CondJump \cup {"STORE_FAST", "POP_TOP", "DUP_TOP", "RETURN_VALUE"}
      BY <1>3, SMT DEF CondJump
    <2>2. Pops(op) = 0  BY <2>1, Zenon DEF Pops
    <2> QED  BY <1>3, <2>1, <2>2, SMT DEF CondJump
  <1> QED  BY <1>1, <1>2, <1>3, SMT DEF Op, CondJump, LocalOp

LEMMA PushesOf ==
  ASSUME NEW op \in Op
  PROVE  /\ op \in {"LOAD_CONST", "LOAD_GLOBAL", "LOAD_FAST", "BINARY_ADD", "COMPARE_OP"} =>
                Pushes(op) = 1
         /\ op = "DUP_TOP" => Pushes(op) = 2
         /\ op \in CondJump \cup {"STORE_FAST", "DELETE_FAST", "POP_TOP", "JUMP_ABSOLUTE",
                                  "RETURN_VALUE"} => Pushes(op) = 0
         /\ Pushes(op) \in 0..2
  <1>1. CASE op \in {"LOAD_CONST", "LOAD_GLOBAL", "LOAD_FAST", "BINARY_ADD", "COMPARE_OP"}
    <2>1. Pushes(op) = 1  BY <1>1, Zenon DEF Pushes
    <2> QED  BY <1>1, <2>1, SMT DEF CondJump
  <1>2. CASE op = "DUP_TOP"
    <2>1. op \notin {"LOAD_CONST", "LOAD_GLOBAL", "LOAD_FAST", "BINARY_ADD", "COMPARE_OP"}
      BY <1>2, SMT
    <2>2. Pushes(op) = 2  BY <1>2, <2>1, Zenon DEF Pushes
    <2> QED  BY <1>2, <2>2, SMT DEF CondJump
  <1>3. CASE op \in CondJump \cup {"STORE_FAST", "DELETE_FAST", "POP_TOP", "JUMP_ABSOLUTE",
                                   "RETURN_VALUE"}
    <2>1. /\ op \notin {"LOAD_CONST", "LOAD_GLOBAL", "LOAD_FAST", "BINARY_ADD", "COMPARE_OP"}
          /\ op # "DUP_TOP"
      BY <1>3, SMT DEF CondJump
    <2>2. Pushes(op) = 0  BY <2>1, Zenon DEF Pushes
    <2> QED  BY <1>3, <2>1, <2>2, SMT DEF CondJump
  <1> QED  BY <1>1, <1>2, <1>3, SMT DEF Op, CondJump, LocalOp

LEMMA MergedKind ==
  ASSUME NEW old \in Kind, NEW new \in Kind
  PROVE  LET kind == mergeKind(old, new)
         IN  kind \in Kind /\ Covers(kind, old) /\ Covers(kind, new)
  <1>1. CASE old = "Undefined"
    <2>1. mergeKind(old, new) = new  BY <1>1, Zenon DEF mergeKind
    <2> QED  BY <1>1, <2>1 DEF Covers
  <1>2. CASE old # "Undefined" /\ old = new
    <2>1. mergeKind(old, new) = old  BY <1>2, Zenon DEF mergeKind
    <2> QED  BY <1>2, <2>1 DEF Covers
  <1>3. CASE old # "Undefined" /\ old # new
    <2>1. mergeKind(old, new) = "Any"  BY <1>3, Zenon DEF mergeKind
    <2> QED  BY <2>1, SMT DEF Covers, Kind
  <1> QED  BY <1>1, <1>2, <1>3

LEMMA CoversIsTransitive ==
  ASSUME NEW a \in Kind, NEW b \in Kind, NEW c \in Kind, Covers(a, b), Covers(b, c)
  PROVE  Covers(a, c)
  BY SMT DEF Covers, Kind

LEMMA BinaryAdd ==
  ASSUME NEW one \in Kind, NEW two \in Kind
  PROVE  /\ binaryAdd(one, two) \in {"Integer", "String", "Any"}
         /\ one \in Number /\ two \in Number => binaryAdd(one, two) = "Integer"
         /\ one = "String" /\ two = "String" => binaryAdd(one, two) = "String"
         /\ ~(one \in Number /\ two \in Number) /\ ~(one = "String" /\ two = "String") =>
                binaryAdd(one, two) = "Any"
  <1>1. CASE one \in Number /\ two \in Number
    <2>1. ~(one = "String" /\ two = "String")  BY <1>1, SMT DEF Number
    <2>2. binaryAdd(one, two) = "Integer"  BY <1>1, <2>1, Zenon DEF binaryAdd
    <2> QED  BY <1>1, <2>1, <2>2, SMT
  <1>2. CASE one = "String" /\ two = "String"
    <2>1. ~(one \in Number /\ two \in Number)  BY <1>2, SMT DEF Number
    <2>2. binaryAdd(one, two) = "String"  BY <1>2, <2>1, Zenon DEF binaryAdd
    <2> QED  BY <1>2, <2>1, <2>2, SMT
  <1>3. CASE ~(one \in Number /\ two \in Number) /\ ~(one = "String" /\ two = "String")
    <2>1. binaryAdd(one, two) = "Any"  BY <1>3, Zenon DEF binaryAdd
    <2> QED  BY <1>3, <2>1, SMT
  <1> QED  BY <1>1, <1>2, <1>3

LEMMA Compare == \A one, two \in Kind : compare(one, two) \in {"Bool", "Any"}
  BY DEF compare

-----------------------------------------------------------------------------
(* States of a program p *)

SlotType == [kind : Kind, src : Nat \X {0, 1}]
LocalType == [kind : Kind, maybeUndefined : BOOLEAN]
StateType(p) == [stack : Seq(SlotType), locals : [0..(p.nlocals - 1) -> LocalType]]

\* Where on the stack a source puts its value: every instruction is always reached
\* with the stack at one depth.
IndexOf(p, src) == p.depth[src[1]] - Pops(p.code[src[1]].op) + 1 + src[2]

Placed(p, stack) ==
    \A n \in 1..Len(stack) : stack[n].src[1] \in DOMAIN p.code /\ IndexOf(p, stack[n].src) = n

\* s is a state that instruction i of p can start in.
IsState(p, i, s) == s \in StateType(p) /\ Len(s.stack) = p.depth[i] /\ Placed(p, s.stack)

\* Whatever is true of the values in state s is said by state t too.
Above(p, t, s) ==
    /\ Len(t.stack) = Len(s.stack)
    /\ \A n \in 1..Len(s.stack) : Covers(t.stack[n].kind, s.stack[n].kind)
    /\ \A v \in 0..(p.nlocals - 1) :
           /\ Covers(t.locals[v].kind, s.locals[v].kind)
           /\ s.locals[v].maybeUndefined => t.locals[v].maybeUndefined

LEMMA ProgramFacts ==
  ASSUME NEW p, ProgramAssumption(p)
  PROVE  /\ Len(p.code) \in Nat \ {0} /\ DOMAIN p.code = 1..Len(p.code)
         /\ 1 \in DOMAIN p.code /\ p.depth[1] = 0
         /\ p.nlocals \in Nat /\ p.argcount \in Nat /\ p.argcount <= p.nlocals
         /\ \A i \in DOMAIN p.code : /\ p.depth[i] \in Nat
                                     /\ p.code[i].op \in Op
                                     /\ Pops(p.code[i].op) <= p.depth[i]
                                     /\ InstructionAssumption(p, i, p.code[i])
  <1>1. /\ p.nlocals \in Nat /\ p.argcount \in 0..p.nlocals
        /\ p.code \in Seq({p.code[i] : i \in DOMAIN p.code}) /\ p.code # <<>>
        /\ p.depth \in [DOMAIN p.code -> Nat] /\ p.depth[1] = 0
        /\ \A i \in DOMAIN p.code : InstructionAssumption(p, i, p.code[i])
    BY DEF ProgramAssumption
  <1>2. Len(p.code) \in Nat /\ DOMAIN p.code = 1..Len(p.code)  BY <1>1, SMT
  <1>3. Len(p.code) # 0  BY <1>1, SMT
  <1>4. \A i \in DOMAIN p.code : p.code[i].op \in Op /\ Pops(p.code[i].op) <= p.depth[i]
    BY <1>1 DEF InstructionAssumption
  <1> QED  BY <1>1, <1>2, <1>3, <1>4, SMT

LEMMA RecordUpdate ==
  ASSUME NEW a, NEW b, NEW c, NEW s, s = [stack |-> a, locals |-> b]
  PROVE  /\ [s EXCEPT !.stack = c] = [stack |-> c, locals |-> b]
         /\ [s EXCEPT !.locals = c] = [stack |-> a, locals |-> c]
  BY SMT

LEMMA FunctionUpdate ==
  ASSUME NEW S, NEW T, NEW f \in [S -> T], NEW v \in S, NEW x \in T
  PROVE  /\ [f EXCEPT ![v] = x] \in [S -> T]
         /\ [f EXCEPT ![v] = x][v] = x
         /\ \A w \in S : w # v => [f EXCEPT ![v] = x][w] = f[w]
  OBVIOUS

LEMMA PushedState ==
  ASSUME NEW p, NEW s \in StateType(p), NEW slot \in SlotType
  PROVE  LET t == Push(s, slot)
         IN  /\ t \in StateType(p) /\ t.locals = s.locals
             /\ Len(t.stack) = Len(s.stack) + 1
             /\ t.stack[Len(s.stack) + 1] = slot
             /\ \A n \in 1..Len(s.stack) : t.stack[n] = s.stack[n]
  <1>1. s = [stack |-> s.stack, locals |-> s.locals] /\ s.stack \in Seq(SlotType)
    BY SMT DEF StateType
  <1>2. Push(s, slot) = [stack |-> Append(s.stack, slot), locals |-> s.locals]
    BY <1>1, SMT DEF Push
  <1>3. /\ Append(s.stack, slot) \in Seq(SlotType)
        /\ Len(Append(s.stack, slot)) = Len(s.stack) + 1
        /\ Append(s.stack, slot)[Len(s.stack) + 1] = slot
        /\ \A n \in 1..Len(s.stack) : Append(s.stack, slot)[n] = s.stack[n]
    BY <1>1, SMT
  <1> QED  BY <1>1, <1>2, <1>3 DEF StateType

LEMMA PoppedState ==
  ASSUME NEW p, NEW s \in StateType(p), NEW k \in 0..Len(s.stack)
  PROVE  LET t == Pop(s, k)
         IN  /\ t \in StateType(p) /\ t.locals = s.locals
             /\ Len(t.stack) = Len(s.stack) - k
             /\ \A n \in 1..(Len(s.stack) - k) : t.stack[n] = s.stack[n]
  <1>1. s = [stack |-> s.stack, locals |-> s.locals] /\ s.stack \in Seq(SlotType)
    BY SMT DEF StateType
  <1> DEFINE left == SubSeq(s.stack, 1, Len(s.stack) - k)
  <1>2. Pop(s, k) = [stack |-> left, locals |-> s.locals]
    <2> HIDE DEF left
    <2>1. Pop(s, k) = [s EXCEPT !.stack = left]  BY Zenon DEF Pop, left
    <2> QED  BY <1>1, <2>1, RecordUpdate, Zenon
  <1>3. /\ left \in Seq(SlotType) /\ Len(left) = Len(s.stack) - k
        /\ \A n \in 1..(Len(s.stack) - k) : left[n] = s.stack[n]
    BY <1>1, SMT
  <1> QED  BY <1>1, <1>2, <1>3 DEF StateType

LEMMA AssignedState ==
  ASSUME NEW p, NEW s \in StateType(p), NEW v \in 0..(p.nlocals - 1), NEW kind \in Kind
  PROVE  LET t == Assign(s, v, kind)
         IN  /\ t \in StateType(p) /\ t.stack = s.stack
             /\ t.locals[v] = [kind |-> kind, maybeUndefined |-> kind = "Undefined"]
             /\ \A w \in 0..(p.nlocals - 1) : w # v => t.locals[w] = s.locals[w]
  <1> DEFINE local == [kind |-> kind, maybeUndefined |-> kind = "Undefined"]
  <1>1. local \in LocalType  BY DEF LocalType
  <1> HIDE DEF local
  <1>2. Assign(s, v, kind) = [s EXCEPT !.locals[v] = local]  BY DEF Assign, local
  <1>3. LET t == [s EXCEPT !.locals[v] = local]
        IN  /\ t \in StateType(p) /\ t.stack = s.stack /\ t.locals[v] = local
            /\ \A w \in 0..(p.nlocals - 1) : w # v => t.locals[w] = s.locals[w]
    <2>1. s = [stack |-> s.stack, locals |-> s.locals]  BY SMT DEF StateType
    <2>2. [s EXCEPT !.locals[v] = local] =
              [stack |-> s.stack, locals |-> [s.locals EXCEPT ![v] = local]]
      BY <2>1, SMT
    <2>3. s.stack \in Seq(SlotType) /\ s.locals \in [0..(p.nlocals - 1) -> LocalType]
      BY DEF StateType
    <2>4. /\ [s.locals EXCEPT ![v] = local] \in [0..(p.nlocals - 1) -> LocalType]
          /\ [s.locals EXCEPT ![v] = local][v] = local
          /\ \A w \in 0..(p.nlocals - 1) :
                 w # v => [s.locals EXCEPT ![v] = local][w] = s.locals[w]
      BY <2>3, <1>1, FunctionUpdate, Zenon
    <2> QED  BY <2>2, <2>3, <2>4 DEF StateType
  <1> QED  BY <1>2, <1>3, Zenon DEF local

LEMMA AssignedStack ==
  ASSUME NEW p, NEW s \in StateType(p), NEW v \in 0..(p.nlocals - 1), NEW kind \in Kind
  PROVE  Assign(s, v, kind) \in StateType(p) /\ Assign(s, v, kind).stack = s.stack
  <1> DEFINE t == Assign(s, v, kind)
  <1>1. /\ t \in StateType(p) /\ t.stack = s.stack
        /\ t.locals[v] = [kind |-> kind, maybeUndefined |-> kind = "Undefined"]
        /\ \A w \in 0..(p.nlocals - 1) : w # v => t.locals[w] = s.locals[w]
    BY AssignedState, SMTT(60)
  <1> QED  BY <1>1, Zenon

LEMMA AfterOf ==
  ASSUME NEW ins, NEW i, NEW s
  PROVE  LET one == Top(s, 1).kind
             two == Top(s, 0).kind
             rest == Pop(s, Pops(ins.op))
         IN  /\ ins.op = "LOAD_CONST" => After(ins, i, s) = Push(s, Slot(ins.arg, i, 0))
             /\ ins.op = "LOAD_GLOBAL" => After(ins, i, s) = Push(s, Slot("Any", i, 0))
             /\ ins.op = "LOAD_FAST" =>
                    After(ins, i, s) = Push(s, Slot(s.locals[ins.arg].kind, i, 0))
             /\ ins.op = "STORE_FAST" => After(ins, i, s) = Assign(rest, ins.arg, two)
             /\ ins.op = "DELETE_FAST" => After(ins, i, s) = Assign(s, ins.arg, "Undefined")
             /\ ins.op = "BINARY_ADD" =>
                    After(ins, i, s) = Push(rest, Slot(binaryAdd(one, two), i, 0))
             /\ ins.op = "COMPARE_OP" =>
                    After(ins, i, s) = Push(rest, Slot(compare(one, two), i, 0))
             /\ ins.op = "DUP_TOP" =>
                    After(ins, i, s) = Push(Push(rest, Slot(two, i, 0)), Slot(two, i, 1))
             /\ ins.op \in CondJump \cup {"POP_TOP", "JUMP_ABSOLUTE", "RETURN_VALUE"} =>
                    After(ins, i, s) = rest
  <1> DEFINE one == Top(s, 1).kind
             two == Top(s, 0).kind
             rest == Pop(s, Pops(ins.op))
  <1>1. ins.op = "LOAD_CONST" => After(ins, i, s) = Push(s, Slot(ins.arg, i, 0))
    BY Zenon DEF After
  <1>2. ins.op = "LOAD_GLOBAL" => After(ins, i, s) = Push(s, Slot("Any", i, 0))
    BY Zenon DEF After
  <1>3. ins.op = "LOAD_FAST" => After(ins, i, s) = Push(s, Slot(s.locals[ins.arg].kind, i, 0))
    BY Zenon DEF After
  <1>4. ins.op = "STORE_FAST" => After(ins, i, s) = Assign(rest, ins.arg, two)
    BY Zenon DEF After
  <1>5. ins.op = "DELETE_FAST" => After(ins, i, s) = Assign(s, ins.arg, "Undefined")
    BY Zenon DEF After
  <1>6. ins.op = "BINARY_ADD" => After(ins, i, s) = Push(rest, Slot(binaryAdd(one, two), i, 0))
    BY Zenon DEF After
  <1>7. ins.op = "COMPARE_OP" => After(ins, i, s) = Push(rest, Slot(compare(one, two), i, 0))
    BY Zenon DEF After
  <1>8. ins.op = "DUP_TOP" => After(ins, i, s) = Push(Push(rest, Slot(two, i, 0)), Slot(two, i, 1))
    BY Zenon DEF After
  <1>9. ins.op \in CondJump \cup {"POP_TOP", "JUMP_ABSOLUTE", "RETURN_VALUE"} =>
            After(ins, i, s) = rest
    <2> SUFFICES ASSUME ins.op \in CondJump \cup {"POP_TOP", "JUMP_ABSOLUTE", "RETURN_VALUE"}
                 PROVE  After(ins, i, s) = rest
      OBVIOUS
    <2>1. /\ ins.op # "LOAD_CONST" /\ ins.op # "LOAD_GLOBAL" /\ ins.op # "LOAD_FAST"
          /\ ins.op # "STORE_FAST" /\ ins.op # "DELETE_FAST" /\ ins.op # "BINARY_ADD"
          /\ ins.op # "COMPARE_OP" /\ ins.op # "DUP_TOP"
      BY SMT DEF CondJump
    <2> QED  BY <2>1, Zenon DEF After
  <1> QED  BY <1>1, <1>2, <1>3, <1>4, <1>5, <1>6, <1>7, <1>8, <1>9, Zenon

LEMMA OperandSlots ==
  ASSUME NEW p, ProgramAssumption(p), NEW i \in DOMAIN p.code, NEW s, IsState(p, i, s),
         NEW n \in 0..(p.depth[i] - 1)
  PROVE  /\ Top(s, n) = s.stack[p.depth[i] - n] /\ Top(s, n) \in SlotType
         /\ Top(s, n).kind \in Kind
         /\ Top(s, n).src[1] \in DOMAIN p.code
         /\ IndexOf(p, Top(s, n).src) = p.depth[i] - n
  <1>1. p.depth[i] \in Nat  BY ProgramFacts
  <1>2. s.stack \in Seq(SlotType) /\ Len(s.stack) = p.depth[i] /\ Placed(p, s.stack)
    BY DEF IsState, StateType
  <1>3. p.depth[i] - n \in 1..Len(s.stack)  BY <1>1, <1>2, SMT
  <1>4. Top(s, n) = s.stack[p.depth[i] - n]  BY <1>2 DEF Top
  <1>5. Top(s, n) \in SlotType  BY <1>2, <1>3, <1>4, SMT
  <1>6. Top(s, n).kind \in Kind  BY <1>5, SMT DEF SlotType
  <1>7. s.stack[p.depth[i] - n].src[1] \in DOMAIN p.code
        /\ IndexOf(p, s.stack[p.depth[i] - n].src) = p.depth[i] - n
    BY <1>2, <1>3 DEF Placed
  <1> QED  BY <1>4, <1>5, <1>6, <1>7

LEMMA NewSlot ==
  ASSUME NEW kind \in Kind, NEW i \in Nat, NEW k \in {0, 1}
  PROVE  /\ Slot(kind, i, k) \in SlotType /\ Slot(kind, i, k).kind = kind
         /\ Slot(kind, i, k).src = <<i, k>>
  BY DEF Slot, SlotType

\* What instruction i leaves of the stack is where it was.
LEMMA RestOfState ==
  ASSUME NEW p, ProgramAssumption(p), NEW i \in DOMAIN p.code, NEW s, IsState(p, i, s),
         NEW k \in 0..p.depth[i]
  PROVE  LET rest == Pop(s, k)
         IN  /\ rest \in StateType(p) /\ rest.locals = s.locals
             /\ Len(rest.stack) = p.depth[i] - k /\ Placed(p, rest.stack)
             /\ \A n \in 1..(p.depth[i] - k) : rest.stack[n] = s.stack[n]
  <1>1. s \in StateType(p) /\ Len(s.stack) = p.depth[i] /\ Placed(p, s.stack)
    BY DEF IsState
  <1>2. p.depth[i] \in Nat  BY ProgramFacts
  <1> DEFINE rest == Pop(s, k)
  <1>3. /\ rest \in StateType(p) /\ rest.locals = s.locals
        /\ Len(rest.stack) = p.depth[i] - k
        /\ \A n \in 1..(p.depth[i] - k) : rest.stack[n] = s.stack[n]
    BY <1>1, PoppedState
  <1> HIDE DEF rest
  <1>4. \A n \in 1..Len(rest.stack) : n \in 1..Len(s.stack) /\ rest.stack[n] = s.stack[n]
    BY <1>1, <1>2, <1>3, SMT
  <1>5. Placed(p, rest.stack)  BY <1>1, <1>4 DEF Placed
  <1> QED  BY <1>3, <1>5 DEF rest

\* A value of instruction i goes where its source says.
LEMMA PushedSlot ==
  ASSUME NEW p, NEW s \in StateType(p), Placed(p, s.stack),
         NEW i \in DOMAIN p.code, i \in Nat, NEW kind \in Kind, NEW k \in {0, 1},
         IndexOf(p, <<i, k>>) = Len(s.stack) + 1
  PROVE  LET t == Push(s, Slot(kind, i, k))
         IN  /\ t \in StateType(p) /\ t.locals = s.locals
             /\ Len(t.stack) = Len(s.stack) + 1 /\ Placed(p, t.stack)
             /\ t.stack[Len(s.stack) + 1].kind = kind
             /\ \A n \in 1..Len(s.stack) : t.stack[n] = s.stack[n]
  <1> DEFINE slot == Slot(kind, i, k)
             t == Push(s, slot)
  <1>1. slot \in SlotType /\ slot.kind = kind /\ slot.src = <<i, k>>  BY NewSlot
  <1> HIDE DEF slot
  <1>2. /\ t \in StateType(p) /\ t.locals = s.locals /\ Len(t.stack) = Len(s.stack) + 1
        /\ t.stack[Len(s.stack) + 1] = slot
        /\ \A n \in 1..Len(s.stack) : t.stack[n] = s.stack[n]
    BY <1>1, PushedState
  <1> HIDE DEF t
  <1>3. Len(s.stack) \in Nat  BY SMT DEF StateType
  <1>4. ASSUME NEW n \in 1..Len(t.stack)
        PROVE  t.stack[n].src[1] \in DOMAIN p.code /\ IndexOf(p, t.stack[n].src) = n
    <2>1. CASE n \in 1..Len(s.stack)  BY <2>1, <1>2 DEF Placed
    <2>2. CASE n = Len(s.stack) + 1  BY <2>2, <1>1, <1>2
    <2> QED  BY <1>2, <1>3, <2>1, <2>2, SMT
  <1>5. Placed(p, t.stack)  BY <1>4 DEF Placed
  <1> QED  BY <1>1, <1>2, <1>5 DEF t, slot

\* An instruction of program p at i, in a state that it can start in.
StartsIn(p, i, s) == ProgramAssumption(p) /\ i \in DOMAIN p.code /\ IsState(p, i, s)

LEMMA AfterIsState ==
  ASSUME NEW p, NEW i, NEW s, StartsIn(p, i, s)
  PROVE  LET ins == p.code[i]
             t == After(ins, i, s)
         IN  /\ t \in StateType(p) /\ Placed(p, t.stack)
             /\ Len(t.stack) = p.depth[i] - Pops(ins.op) + Pushes(ins.op)
  <1>a. PICK ins : ins = p.code[i]  OBVIOUS
  <1> DEFINE op == ins.op
             d == p.depth[i]
             t == After(ins, i, s)
             rest == Pop(s, Pops(op))
             one == Top(s, 1).kind
             two == Top(s, 0).kind
  <1> SUFFICES /\ t \in StateType(p) /\ Placed(p, t.stack)
               /\ Len(t.stack) = d - Pops(op) + Pushes(op)
    BY <1>a
  <1>0. ProgramAssumption(p) /\ i \in DOMAIN p.code /\ IsState(p, i, s)
    BY DEF StartsIn
  <1>1. /\ d \in Nat /\ i \in Nat /\ op \in Op /\ Pops(op) <= d
        /\ InstructionAssumption(p, i, ins)
    BY <1>0, <1>a, ProgramFacts, SMT
  <1>d. \A v \in {op} : v \in LocalOp => ins.arg \in 0..(p.nlocals - 1)
    BY <1>1 DEF InstructionAssumption
  <1>e. /\ op \in {"BINARY_ADD", "COMPARE_OP"} => Pops(op) = 2 /\ Pushes(op) = 1
        /\ op \in {"LOAD_CONST", "LOAD_GLOBAL", "LOAD_FAST"} => Pops(op) = 0 /\ Pushes(op) = 1
        /\ op \in CondJump \cup {"STORE_FAST", "POP_TOP", "RETURN_VALUE"} =>
               Pops(op) = 1 /\ Pushes(op) = 0
        /\ op \in {"DELETE_FAST", "JUMP_ABSOLUTE"} => Pops(op) = 0 /\ Pushes(op) = 0
        /\ op = "DUP_TOP" => Pops(op) = 1 /\ Pushes(op) = 2
    BY <1>1, PopsOf, PushesOf, SMT DEF CondJump
  <1>2. /\ Pops(op) \in 0..d /\ Pushes(op) \in 0..2 /\ Pops(op) \in 0..2
    BY <1>1, PopsOf, PushesOf, SMT
  <1>3. /\ rest \in StateType(p) /\ rest.locals = s.locals
        /\ Len(rest.stack) = d - Pops(op) /\ Placed(p, rest.stack)
    BY <1>0, <1>2, RestOfState
  <1>4. s \in StateType(p) /\ Len(s.stack) = d /\ Placed(p, s.stack)  BY <1>0 DEF IsState
  <1>5. \A n \in 0..(d - 1) : Top(s, n).kind \in Kind  BY <1>0, OperandSlots
  <1>6. (Pops(op) >= 1 => two \in Kind) /\ (Pops(op) >= 2 => one \in Kind)
    BY <1>1, <1>2, <1>5, SMT
  <1>7. IndexOf(p, <<i, 0>>) = d - Pops(op) + 1 /\ IndexOf(p, <<i, 1>>) = d - Pops(op) + 2
    BY <1>a, <1>1, <1>2, SMT DEF IndexOf
  <1>8. ASSUME NEW kind \in Kind
        PROVE  LET u == Push(rest, Slot(kind, i, 0))
               IN  /\ u \in StateType(p) /\ Placed(p, u.stack)
                   /\ Len(u.stack) = d - Pops(op) + 1
    BY <1>0, <1>1, <1>2, <1>3, <1>7, PushedSlot, SMT
  <1> HIDE DEF rest, d, one, two, t
  <1>9. CASE op = "LOAD_CONST"
    <2>1. ins.arg \in Kind  BY <1>1, <1>9 DEF InstructionAssumption
    <2>2. t = Push(s, Slot(ins.arg, i, 0))  BY <1>9, <1>1, AfterOf DEF t
    <2>3. Pops(op) = 0 /\ Pushes(op) = 1  BY <1>9, <1>e, SMT
    <2> QED  BY <1>0, <1>1, <1>2, <1>4, <1>7, <2>1, <2>2, <2>3, PushedSlot, SMT DEF t, d
  <1>10. CASE op = "LOAD_GLOBAL"
    <2>1. "Any" \in Kind  BY DEF Kind
    <2>2. t = Push(s, Slot("Any", i, 0))  BY <1>10, <1>1, AfterOf DEF t
    <2>3. Pops(op) = 0 /\ Pushes(op) = 1  BY <1>10, <1>e, SMT
    <2> QED  BY <1>0, <1>1, <1>2, <1>4, <1>7, <2>1, <2>2, <2>3, PushedSlot, SMT DEF t, d
  <1>11. CASE op = "LOAD_FAST"
    <2>1. ins.arg \in 0..(p.nlocals - 1)
      BY <1>11, <1>d DEF LocalOp
    <2>2. s.locals[ins.arg].kind \in Kind  
      <3>1. s.locals \in [0..(p.nlocals - 1) -> LocalType]  BY <1>4 DEF StateType
      <3>2. s.locals[ins.arg] \in LocalType  BY <2>1, <3>1
      <3> QED  BY <3>2 DEF LocalType
    <2>3. t = Push(s, Slot(s.locals[ins.arg].kind, i, 0))  BY <1>11, <1>1, AfterOf DEF t
    <2>4. Pops(op) = 0 /\ Pushes(op) = 1  BY <1>11, <1>e, SMT
    <2> QED  BY <1>0, <1>1, <1>2, <1>4, <1>7, <2>2, <2>3, <2>4, PushedSlot, SMT DEF t, d
  <1>12. CASE op = "STORE_FAST"
    <2>1. ins.arg \in 0..(p.nlocals - 1)
      BY <1>12, <1>d DEF LocalOp
    <2>2. Pops(op) = 1 /\ Pushes(op) = 0  BY <1>12, <1>e, SMT DEF CondJump
    <2>3. t = Assign(rest, ins.arg, two)  BY <1>12, <1>1, AfterOf DEF t, rest, two
    <2>4. t \in StateType(p) /\ t.stack = rest.stack
      <3>1. two \in Kind  BY <1>6, <2>2, SMT
      <3>2. rest \in StateType(p)  BY <1>3
      <3>3. /\ Assign(rest, ins.arg, two) \in StateType(p)
            /\ Assign(rest, ins.arg, two).stack = rest.stack
        BY <2>1, <3>1, <3>2, AssignedStack
      <3> QED  BY <2>3, <3>3, Zenon
    <2> QED  BY <1>1, <1>3, <2>2, <2>4, SMT DEF t, d
  <1>13. CASE op = "DELETE_FAST"
    <2>1. ins.arg \in 0..(p.nlocals - 1)
      BY <1>13, <1>d DEF LocalOp
    <2>2. Pops(op) = 0 /\ Pushes(op) = 0  BY <1>13, <1>e, SMT
    <2>3. t = Assign(s, ins.arg, "Undefined")  BY <1>13, <1>1, AfterOf DEF t
    <2>4. "Undefined" \in Kind  BY DEF Kind
    <2>5. t \in StateType(p) /\ t.stack = s.stack
      BY <1>4, <2>1, <2>3, <2>4, AssignedState
    <2> QED  BY <1>1, <1>4, <2>2, <2>5, SMT DEF t, d
  <1>14. CASE op = "BINARY_ADD"
    <2>1. Pops(op) = 2 /\ Pushes(op) = 1  BY <1>14, <1>e, SMT
    <2>2. binaryAdd(one, two) \in Kind  BY <1>6, <2>1, BinaryAdd, SMT DEF Kind
    <2>3. t = Push(rest, Slot(binaryAdd(one, two), i, 0))
      BY <1>14, <1>1, AfterOf DEF t, rest, one, two
    <2> QED  BY <1>1, <1>8, <2>1, <2>2, <2>3, SMT DEF t, d
  <1>15. CASE op = "COMPARE_OP"
    <2>1. Pops(op) = 2 /\ Pushes(op) = 1  BY <1>15, <1>e, SMT
    <2>2. compare(one, two) \in Kind  BY <1>6, <2>1, Compare, SMT DEF Kind
    <2>3. t = Push(rest, Slot(compare(one, two), i, 0))
      BY <1>15, <1>1, AfterOf DEF t, rest, one, two
    <2> QED  BY <1>1, <1>8, <2>1, <2>2, <2>3, SMT DEF t, d
  <1>16. CASE op = "DUP_TOP"
    <2>1. Pops(op) = 1 /\ Pushes(op) = 2  BY <1>16, <1>e, SMT
    <2> DEFINE u == Push(rest, Slot(two, i, 0))
    <2>2. two \in Kind  BY <1>6, <2>1, SMT
    <2>3. u \in StateType(p) /\ Placed(p, u.stack) /\ Len(u.stack) = d - Pops(op) + 1
      BY <1>8, <2>2
    <2>4. t = Push(u, Slot(two, i, 1))  BY <1>16, <1>1, AfterOf DEF t, rest, two
    <2> HIDE DEF u
    <2>5. /\ t \in StateType(p) /\ Placed(p, t.stack)
          /\ Len(t.stack) = Len(u.stack) + 1
      BY <1>0, <1>1, <1>2, <1>7, <2>2, <2>3, <2>4, PushedSlot, SMT
    <2> QED  BY <1>1, <2>1, <2>3, <2>5, SMT DEF t, d
  <1>17. CASE op \in CondJump \cup {"POP_TOP", "JUMP_ABSOLUTE", "RETURN_VALUE"}
    <2>1. Pushes(op) = 0  BY <1>1, <1>17, <1>e, SMT DEF CondJump
    <2>2. t = rest  BY <1>17, <1>1, AfterOf DEF t, rest
    <2> QED  BY <1>1, <1>2, <1>3, <2>1, <2>2, SMT DEF t, d
  <1> QED
    BY <1>1, <1>9, <1>10, <1>11, <1>12, <1>13, <1>14, <1>15, <1>16, <1>17, SMT DEF Op, LocalOp

LEMMA NextStartsIn ==
  ASSUME NEW p, NEW i, NEW s, StartsIn(p, i, s), FallsThrough(p.code[i].op)
  PROVE  StartsIn(p, i + 1, After(p.code[i], i, s))
  <1>1. ProgramAssumption(p) /\ i \in DOMAIN p.code  BY DEF StartsIn
  <1>2. InstructionAssumption(p, i, p.code[i])  BY <1>1, ProgramFacts
  <1>3. /\ i + 1 \in DOMAIN p.code
        /\ p.depth[i + 1] = p.depth[i] - Pops(p.code[i].op) + Pushes(p.code[i].op)
    BY <1>2 DEF InstructionAssumption
  <1> QED  BY <1>1, <1>3, AfterIsState DEF StartsIn, IsState

LEMMA TargetStartsIn ==
  ASSUME NEW p, NEW i, NEW s, StartsIn(p, i, s), Jumps(p.code[i].op)
  PROVE  StartsIn(p, p.code[i].arg, AtTarget(p.code[i], i, s))
  <1>a. PICK ins : ins = p.code[i]  OBVIOUS
  <1> DEFINE d == p.depth[i]
             rest == Pop(s, 1)
  <1> SUFFICES StartsIn(p, ins.arg, AtTarget(ins, i, s))  BY <1>a
  <1>0. ProgramAssumption(p) /\ i \in DOMAIN p.code /\ IsState(p, i, s)
    BY DEF StartsIn
  <1>1. /\ d \in Nat /\ i \in Nat /\ ins.op \in Op /\ Pops(ins.op) <= d
        /\ InstructionAssumption(p, i, ins)
    BY <1>0, <1>a, ProgramFacts, SMT
  <1>2. /\ ins.arg \in DOMAIN p.code
        /\ p.depth[ins.arg] = d - Pops(ins.op) + (IF ins.op = "JUMP_IF_FALSE_OR_POP" THEN 1 ELSE 0)
    BY <1>1, <1>a DEF InstructionAssumption
  <1>3. CASE ins.op # "JUMP_IF_FALSE_OR_POP"
    <2>1. AtTarget(ins, i, s) = After(ins, i, s)  BY <1>3 DEF AtTarget
    <2>2. Pushes(ins.op) = 0  BY <1>1, <1>a, PushesOf, SMT DEF Jumps
    <2>3. LET t == After(ins, i, s)
          IN  /\ t \in StateType(p) /\ Placed(p, t.stack)
              /\ Len(t.stack) = d - Pops(ins.op) + Pushes(ins.op)
      BY <1>a, AfterIsState
    <2>4. Pops(ins.op) \in Nat  BY <1>1, PopsOf, SMT
    <2>5. d - Pops(ins.op) + Pushes(ins.op) = p.depth[ins.arg]
      BY <1>1, <1>2, <1>3, <2>2, <2>4, SMT
    <2> QED  BY <1>0, <1>2, <2>1, <2>3, <2>5 DEF StartsIn, IsState
  <1>4. CASE ins.op = "JUMP_IF_FALSE_OR_POP"
    <2>1. Pops(ins.op) = 1  BY <1>4, <1>1, PopsOf, SMT DEF CondJump
    <2>2. /\ rest \in StateType(p) /\ rest.locals = s.locals
          /\ Len(rest.stack) = d - 1 /\ Placed(p, rest.stack)
      BY <1>0, <1>1, <2>1, RestOfState, SMT
    <2>3. Top(s, 0).kind \in Kind  BY <1>0, <1>1, <2>1, OperandSlots, SMT
    <2>4. IndexOf(p, <<i, 0>>) = d  BY <1>a, <1>1, <2>1, SMT DEF IndexOf
    <2>5. AtTarget(ins, i, s) = Push(rest, Slot(Top(s, 0).kind, i, 0))  BY <1>4 DEF AtTarget
    <2> HIDE DEF rest
    <2>6. LET t == Push(rest, Slot(Top(s, 0).kind, i, 0))
          IN  /\ t \in StateType(p) /\ Placed(p, t.stack) /\ Len(t.stack) = d
      <3>1. IndexOf(p, <<i, 0>>) = Len(rest.stack) + 1  BY <1>1, <2>2, <2>4, SMT
      <3>2. PICK k \in {0, 1} : k = 0  OBVIOUS
      <3>3. IndexOf(p, <<i, k>>) = Len(rest.stack) + 1  BY <3>1, <3>2
      <3>4. rest \in StateType(p) /\ Placed(p, rest.stack)  BY <2>2
      <3>5. i \in DOMAIN p.code /\ i \in Nat  BY <1>0, <1>1
      <3>6. PICK kind \in Kind : kind = Top(s, 0).kind  BY <2>3
      <3> DEFINE t == Push(rest, Slot(kind, i, k))
      <3>7. t \in StateType(p)  BY <3>2, <3>3, <3>4, <3>5, <3>6, PushedSlot, Zenon
      <3>8. Placed(p, t.stack)  BY <3>2, <3>3, <3>4, <3>5, <3>6, PushedSlot, Zenon
      <3>a. Slot(kind, i, k) \in SlotType  BY <3>2, <3>5, <3>6, NewSlot, Zenon
      <3>9. Len(t.stack) = Len(rest.stack) + 1  BY <3>a, <3>4, PushedState
      <3>10. t = Push(rest, Slot(Top(s, 0).kind, i, 0))  BY <3>2, <3>6
      <3> HIDE DEF t
      <3> QED  BY <1>1, <2>2, <3>7, <3>8, <3>9, <3>10, SMT
    <2>7. p.depth[ins.arg] = d  BY <1>1, <1>2, <1>4, <2>1, SMT
    <2> QED  BY <1>0, <1>2, <2>5, <2>6, <2>7 DEF StartsIn, IsState
  <1> QED  BY <1>3, <1>4

-----------------------------------------------------------------------------
(* Merging *)

LEMMA MergedSlot ==
  ASSUME NEW old \in SlotType, NEW new \in SlotType, NEW keepOld \in BOOLEAN
  PROVE  LET m == MergeSlot(old, new, keepOld)
         IN  /\ m \in SlotType /\ Covers(m.kind, old.kind) /\ Covers(m.kind, new.kind)
             /\ m.src \in {old.src, new.src}
  <1> DEFINE kind == mergeKind(old.kind, new.kind)
  <1>1. old.kind \in Kind /\ new.kind \in Kind /\ old.src \in Nat \X {0, 1}
        /\ new.src \in Nat \X {0, 1}
    BY DEF SlotType
  <1>2. kind \in Kind /\ Covers(kind, old.kind) /\ Covers(kind, new.kind)
    BY <1>1, MergedKind
  <1> HIDE DEF kind
  <1>3. CASE kind = old.kind
    <2>1. MergeSlot(old, new, keepOld) = old  BY <1>3 DEF MergeSlot, kind
    <2> QED  BY <1>2, <1>3, <2>1
  <1>4. CASE kind # old.kind
    <2>1. MergeSlot(old, new, keepOld) =
              [kind |-> kind, src |-> IF keepOld THEN old.src ELSE new.src]
      BY <1>4 DEF MergeSlot, kind
    <2>2. PICK src : src = (IF keepOld THEN old.src ELSE new.src)  OBVIOUS
    <2>3. src \in {old.src, new.src}  BY <2>2
    <2> QED  BY <1>1, <1>2, <2>1, <2>2, <2>3 DEF SlotType
  <1> QED  BY <1>3, <1>4

LEMMA MergedLocal ==
  ASSUME NEW old \in LocalType, NEW new \in LocalType
  PROVE  LET m == mergeLocal(old, new)
         IN  /\ m \in LocalType /\ Covers(m.kind, old.kind) /\ Covers(m.kind, new.kind)
             /\ old.maybeUndefined => m.maybeUndefined
             /\ new.maybeUndefined => m.maybeUndefined
  <1>1. old.kind \in Kind /\ new.kind \in Kind /\ old.maybeUndefined \in BOOLEAN
        /\ new.maybeUndefined \in BOOLEAN
    BY DEF LocalType
  <1> DEFINE kind == mergeKind(old.kind, new.kind)
             maybe == old.maybeUndefined \/ new.maybeUndefined
  <1>2. kind \in Kind /\ Covers(kind, old.kind) /\ Covers(kind, new.kind)
    BY <1>1, MergedKind
  <1>3. maybe \in BOOLEAN /\ (old.maybeUndefined => maybe) /\ (new.maybeUndefined => maybe)
    BY Zenon
  <1>4. mergeLocal(old, new) = [kind |-> kind, maybeUndefined |-> maybe]  BY DEF mergeLocal
  <1> HIDE DEF kind, maybe
  <1> QED  BY <1>2, <1>3, <1>4 DEF LocalType

LEMMA CoversItself == \A kind : Covers(kind, kind)  BY DEF Covers

\* The merged state says what both states say, and is a state of the same
\* instruction.
LEMMA MergedState ==
  ASSUME NEW p, NEW i, NEW old, NEW new, StartsIn(p, i, old), StartsIn(p, i, new),
         NEW keepOld \in BOOLEAN
  PROVE  LET m == mergeStates(old, new, keepOld)
         IN  StartsIn(p, i, m) /\ Above(p, m, old) /\ Above(p, m, new)
  <1> DEFINE d == p.depth[i]
             m == mergeStates(old, new, keepOld)
  <1>1. /\ ProgramAssumption(p) /\ i \in DOMAIN p.code
        /\ IsState(p, i, old) /\ IsState(p, i, new)
    BY DEF StartsIn
  <1>2. d \in Nat  BY <1>1, ProgramFacts
  <1>3. /\ old.stack \in Seq(SlotType) /\ Len(old.stack) = d /\ Placed(p, old.stack)
        /\ new.stack \in Seq(SlotType) /\ Len(new.stack) = d /\ Placed(p, new.stack)
        /\ old.locals \in [0..(p.nlocals - 1) -> LocalType]
        /\ new.locals \in [0..(p.nlocals - 1) -> LocalType]
    BY <1>1, SMT DEF IsState, StateType
  <1> DEFINE stack == IF old.stack = <<>> THEN new.stack
                      ELSE [n \in DOMAIN old.stack |->
                                IF n \in DOMAIN new.stack
                                THEN MergeSlot(old.stack[n], new.stack[n], keepOld)
                                ELSE old.stack[n]]
             locals == [v \in DOMAIN old.locals |-> mergeLocal(old.locals[v], new.locals[v])]
  <1>4. m = [stack |-> stack, locals |-> locals]  BY DEF mergeStates
  <1>5. /\ stack \in Seq(SlotType) /\ Len(stack) = d
        /\ \A n \in 1..d : stack[n] = MergeSlot(old.stack[n], new.stack[n], keepOld)
    <2>1. CASE old.stack = <<>>
      <3>1. d = 0  BY <1>3, <2>1, SMT
      <3> QED  BY <1>3, <2>1, <3>1, SMT
    <2>2. CASE old.stack # <<>>
      <3>1. DOMAIN old.stack = 1..d /\ DOMAIN new.stack = 1..d  BY <1>3, SMT
      <3>2. stack = [n \in 1..d |-> MergeSlot(old.stack[n], new.stack[n], keepOld)]
        BY <2>2, <3>1
      <3>3. \A n \in 1..d : MergeSlot(old.stack[n], new.stack[n], keepOld) \in SlotType
        <4> TAKE n \in 1..d
        <4>1. old.stack[n] \in SlotType /\ new.stack[n] \in SlotType  BY <1>3, SMT
        <4> QED  BY <4>1, MergedSlot
      <3> HIDE DEF stack
      <3> QED  BY <1>2, <3>2, <3>3, SMT
    <2> QED  BY <2>1, <2>2
  <1>6. /\ locals \in [0..(p.nlocals - 1) -> LocalType]
        /\ \A v \in 0..(p.nlocals - 1) : locals[v] = mergeLocal(old.locals[v], new.locals[v])
    <2>1. DOMAIN old.locals = 0..(p.nlocals - 1)  BY <1>3
    <2>2. \A v \in 0..(p.nlocals - 1) : mergeLocal(old.locals[v], new.locals[v]) \in LocalType
      BY <1>3, MergedLocal
    <2> QED  BY <2>1, <2>2
  <1> HIDE DEF m, stack, locals
  <1>7. m.stack = stack /\ m.locals = locals /\ m \in StateType(p)
    BY <1>4, <1>5, <1>6 DEF StateType
  <1>8. ASSUME NEW n \in 1..d
        PROVE  /\ stack[n].src[1] \in DOMAIN p.code /\ IndexOf(p, stack[n].src) = n
               /\ Covers(stack[n].kind, old.stack[n].kind)
               /\ Covers(stack[n].kind, new.stack[n].kind)
    <2>1. old.stack[n] \in SlotType /\ new.stack[n] \in SlotType  BY <1>3, SMT
    <2>2. /\ stack[n].src \in {old.stack[n].src, new.stack[n].src}
          /\ Covers(stack[n].kind, old.stack[n].kind)
          /\ Covers(stack[n].kind, new.stack[n].kind)
      BY <1>5, <2>1, MergedSlot
    <2>3. /\ old.stack[n].src[1] \in DOMAIN p.code /\ IndexOf(p, old.stack[n].src) = n
          /\ new.stack[n].src[1] \in DOMAIN p.code /\ IndexOf(p, new.stack[n].src) = n
      BY <1>3 DEF Placed
    <2> QED  BY <2>2, <2>3
  <1>9. ASSUME NEW v \in 0..(p.nlocals - 1)
        PROVE  /\ Covers(locals[v].kind, old.locals[v].kind)
               /\ Covers(locals[v].kind, new.locals[v].kind)
               /\ old.locals[v].maybeUndefined => locals[v].maybeUndefined
               /\ new.locals[v].maybeUndefined => locals[v].maybeUndefined
    BY <1>3, <1>6, MergedLocal
  <1>10. StartsIn(p, i, m)
    BY <1>1, <1>5, <1>7, <1>8 DEF StartsIn, IsState, Placed
  <1>11. Above(p, m, old)  BY <1>3, <1>5, <1>7, <1>8, <1>9 DEF Above
  <1>12. Above(p, m, new)  BY <1>3, <1>5, <1>7, <1>8, <1>9 DEF Above
  <1> QED  BY <1>10, <1>11, <1>12 DEF m

LEMMA AboveIsTransitive ==
  ASSUME NEW p, NEW i, NEW a, NEW b, NEW c,
         StartsIn(p, i, a), StartsIn(p, i, b), StartsIn(p, i, c),
         Above(p, a, b), Above(p, b, c)
  PROVE  Above(p, a, c)
  <1>1. ASSUME NEW s, StartsIn(p, i, s)
        PROVE  /\ \A n \in 1..Len(s.stack) : s.stack[n].kind \in Kind
               /\ \A v \in 0..(p.nlocals - 1) : s.locals[v].kind \in Kind
    <2>1. s.stack \in Seq(SlotType) /\ s.locals \in [0..(p.nlocals - 1) -> LocalType]
      BY <1>1 DEF StartsIn, IsState, StateType
    <2>2. \A n \in 1..Len(s.stack) : s.stack[n] \in SlotType  BY <2>1, SMT
    <2>3. \A v \in 0..(p.nlocals - 1) : s.locals[v] \in LocalType  BY <2>1
    <2> QED  BY <2>2, <2>3 DEF SlotType, LocalType
  <1>2. Len(a.stack) = Len(b.stack) /\ Len(b.stack) = Len(c.stack)  BY DEF Above
  <1>3. ASSUME NEW n \in 1..Len(c.stack)
        PROVE  Covers(a.stack[n].kind, c.stack[n].kind)
    <2>1. a.stack[n].kind \in Kind /\ b.stack[n].kind \in Kind /\ c.stack[n].kind \in Kind
      BY <1>1, <1>2
    <2>2. Covers(a.stack[n].kind, b.stack[n].kind) /\ Covers(b.stack[n].kind, c.stack[n].kind)
      BY <1>2 DEF Above
    <2> QED  BY <2>1, <2>2, CoversIsTransitive
  <1>4. ASSUME NEW v \in 0..(p.nlocals - 1)
        PROVE  /\ Covers(a.locals[v].kind, c.locals[v].kind)
               /\ c.locals[v].maybeUndefined => a.locals[v].maybeUndefined
    <2>1. a.locals[v].kind \in Kind /\ b.locals[v].kind \in Kind /\ c.locals[v].kind \in Kind
      BY <1>1
    <2>2. /\ Covers(a.locals[v].kind, b.locals[v].kind)
          /\ Covers(b.locals[v].kind, c.locals[v].kind)
          /\ b.locals[v].maybeUndefined => a.locals[v].maybeUndefined
          /\ c.locals[v].maybeUndefined => b.locals[v].maybeUndefined
      BY DEF Above
    <2> QED  BY <2>1, <2>2, CoversIsTransitive, Zenon
  <1> QED  BY <1>2, <1>3, <1>4 DEF Above

LEMMA AboveItself == \A p, s : Above(p, s, s)  BY CoversItself DEF Above

\* The start states of p.
StatesOf(p, states) ==
    /\ DOMAIN states \subseteq DOMAIN p.code
    /\ \A i \in DOMAIN states : StartsIn(p, i, states[i])

\* The start states only grow.
Grown(p, states, after) ==
    /\ DOMAIN states \subseteq DOMAIN after
    /\ \A i \in DOMAIN states : Above(p, after[i], states[i])

Updated(p, states, after, i, s) ==
    /\ StatesOf(p, after) /\ Grown(p, states, after)
    /\ DOMAIN after = DOMAIN states \cup {i}
    /\ Above(p, after[i], s)
    /\ \A j \in DOMAIN states : j # i => after[j] = states[j]

LEMMA UpdatedStates ==
  ASSUME NEW p, NEW states, StatesOf(p, states), NEW i, NEW s, StartsIn(p, i, s),
         NEW keepOld \in BOOLEAN
  PROVE  Updated(p, states, updateStartState(states, i, s, keepOld), i, s)
  <1> DEFINE after == updateStartState(states, i, s, keepOld)
             new == IF i \in DOMAIN states THEN mergeStates(states[i], s, keepOld) ELSE s
  <1>1. /\ DOMAIN after = DOMAIN states \cup {i} /\ after[i] = new
        /\ \A j \in DOMAIN states : j # i => after[j] = states[j]
    BY DEF updateStartState
  <1>2. /\ StartsIn(p, i, new) /\ Above(p, new, s)
        /\ i \in DOMAIN states => Above(p, new, states[i])
    <2>1. CASE i \in DOMAIN states
      <3>1. StartsIn(p, i, states[i])  BY <2>1 DEF StatesOf
      <3>2. LET m == mergeStates(states[i], s, keepOld)
            IN  StartsIn(p, i, m) /\ Above(p, m, states[i]) /\ Above(p, m, s)
        BY <3>1, MergedState
      <3> QED  BY <2>1, <3>2
    <2>2. CASE i \notin DOMAIN states  BY <2>2, AboveItself
    <2> QED  BY <2>1, <2>2
  <1> HIDE DEF after, new
  <1>3. i \in DOMAIN p.code  BY DEF StartsIn
  <1>4. ASSUME NEW j \in DOMAIN after  PROVE  StartsIn(p, j, after[j])
    <2>1. CASE j = i  BY <2>1, <1>1, <1>2
    <2>2. CASE j # i  BY <2>2, <1>1 DEF StatesOf
    <2> QED  BY <2>1, <2>2
  <1>5. ASSUME NEW j \in DOMAIN states  PROVE  Above(p, after[j], states[j])
    <2>1. CASE j = i  BY <2>1, <1>1, <1>2
    <2>2. CASE j # i  BY <2>2, <1>1, AboveItself
    <2> QED  BY <2>1, <2>2
  <1>6. StatesOf(p, after)  BY <1>1, <1>3, <1>4 DEF StatesOf
  <1>7. Grown(p, states, after)  BY <1>1, <1>5 DEF Grown
  <1> QED  BY <1>1, <1>2, <1>6, <1>7 DEF after, Updated

-----------------------------------------------------------------------------
(* The worklist *)

\* Instruction i has been interpreted from its start state: the sources it popped
\* know of it, and the states it leads to say what it does.
Settled(p, i, states, popped) ==
    LET ins == p.code[i]
    IN  /\ PoppedBy(ins, i, states[i]) \subseteq popped
        /\ FallsThrough(ins.op) =>
               i + 1 \in DOMAIN states /\ Above(p, states[i + 1], After(ins, i, states[i]))
        /\ Jumps(ins.op) =>
               ins.arg \in DOMAIN states /\ Above(p, states[ins.arg], AtTarget(ins, i, states[i]))

\* What was settled stays settled while the other states grow.
LEMMA StaysSettled ==
  ASSUME NEW p, NEW states, NEW after, NEW i \in DOMAIN states, NEW popped, NEW popped2,
         StatesOf(p, states), StatesOf(p, after), Grown(p, states, after),
         after[i] = states[i], popped \subseteq popped2, Settled(p, i, states, popped)
  PROVE  Settled(p, i, after, popped2)
  <1>a. PICK ins : ins = p.code[i]  OBVIOUS
  <1>b. PICK s : s = states[i]  OBVIOUS
  <1>1. StartsIn(p, i, s)  BY <1>b DEF StatesOf
  <1>2. ASSUME FallsThrough(ins.op)
        PROVE  i + 1 \in DOMAIN after /\ Above(p, after[i + 1], After(ins, i, s))
    <2>1. i + 1 \in DOMAIN states /\ Above(p, states[i + 1], After(ins, i, s))
      BY <1>2, <1>a, <1>b DEF Settled
    <2>2. i + 1 \in DOMAIN after /\ Above(p, after[i + 1], states[i + 1])
      BY <2>1 DEF Grown
    <2>3. StartsIn(p, i + 1, After(ins, i, s))  BY <1>1, <1>2, <1>a, NextStartsIn
    <2>4. StartsIn(p, i + 1, states[i + 1]) /\ StartsIn(p, i + 1, after[i + 1])
      BY <2>1, <2>2 DEF StatesOf
    <2> QED  BY <2>1, <2>2, <2>3, <2>4, AboveIsTransitive
  <1>3. ASSUME Jumps(ins.op)
        PROVE  ins.arg \in DOMAIN after /\ Above(p, after[ins.arg], AtTarget(ins, i, s))
    <2>1. ins.arg \in DOMAIN states /\ Above(p, states[ins.arg], AtTarget(ins, i, s))
      BY <1>3, <1>a, <1>b DEF Settled
    <2>2. ins.arg \in DOMAIN after /\ Above(p, after[ins.arg], states[ins.arg])
      BY <2>1 DEF Grown
    <2>3. StartsIn(p, ins.arg, AtTarget(ins, i, s))  BY <1>1, <1>3, <1>a, TargetStartsIn
    <2>4. StartsIn(p, ins.arg, states[ins.arg]) /\ StartsIn(p, ins.arg, after[ins.arg])
      BY <2>1, <2>2 DEF StatesOf
    <2> QED  BY <2>1, <2>2, <2>3, <2>4, AboveIsTransitive
  <1>4. PoppedBy(ins, i, s) \subseteq popped2  BY <1>a, <1>b DEF Settled
  <1> QED  BY <1>a, <1>b, <1>2, <1>3, <1>4 DEF Settled

\* What a source remembers of a consumer: the instruction pops the slot that the
\* source puts its value in.
ConsumerOf(p, c) ==
    /\ c = [src |-> c.src, by |-> c.by, position |-> c.position]
    /\ c.src \in Nat \X {0, 1} /\ c.src[1] \in DOMAIN p.code /\ c.by \in DOMAIN p.code
    /\ c.position \in 0..(Pops(p.code[c.by].op) - 1)
    /\ c.position = p.depth[c.by] - IndexOf(p, c.src)

LEMMA PoppedConsumers ==
  ASSUME NEW p, NEW i, NEW s, StartsIn(p, i, s), NEW c \in PoppedBy(p.code[i], i, s)
  PROVE  ConsumerOf(p, c)
  <1>a. PICK k : k = Pops(p.code[i].op)  OBVIOUS
  <1>1. ProgramAssumption(p) /\ i \in DOMAIN p.code /\ IsState(p, i, s)
    BY DEF StartsIn
  <1>2. k \in 0..2 /\ k <= p.depth[i] /\ p.depth[i] \in Nat  BY <1>a, <1>1, ProgramFacts, PopsOf
  <1>3. PICK n \in 0..(k - 1) : c = [src |-> Top(s, n).src, by |-> i, position |-> n]
    BY <1>a DEF PoppedBy
  <1>4. n \in 0..(p.depth[i] - 1)  BY <1>2, SMT
  <1>5. /\ Top(s, n) \in SlotType /\ Top(s, n).src[1] \in DOMAIN p.code
        /\ IndexOf(p, Top(s, n).src) = p.depth[i] - n
    BY <1>1, <1>4, OperandSlots
  <1>6. Top(s, n).src \in Nat \X {0, 1}  BY <1>5 DEF SlotType
  <1>7. n = p.depth[i] - IndexOf(p, Top(s, n).src)  BY <1>2, <1>4, <1>5, SMT
  <1> QED  BY <1>a, <1>1, <1>3, <1>5, <1>6, <1>7 DEF ConsumerOf

Queued(q, i) == \E n \in 1..Len(q) : q[n] = i

\* Every instruction that has a start state is settled or will be interpreted.
NoneForgotten(p, states, popped, q, c) ==
    \A i \in DOMAIN states : i = c \/ Queued(q, i) \/ Settled(p, i, states, popped)

AnalysisInv ==
    /\ prog \in Programs
    /\ argKinds \in [0..(prog.argcount - 1) -> Kind \ {"Undefined"}]
    /\ StatesOf(prog, start) /\ 1 \in DOMAIN start
    /\ StartsIn(prog, 1, InitialState) /\ Above(prog, start[1], InitialState)
    /\ queue \in Seq(DOMAIN start) /\ cur \in DOMAIN start \cup {0}
    /\ NoneForgotten(prog, start, consumers, queue, cur)
    /\ \A c \in consumers : ConsumerOf(prog, c)

LEMMA QueueFacts ==
  ASSUME NEW S, NEW q \in Seq(S), NEW T, S \subseteq T, NEW t \in T
  PROVE  /\ q \in Seq(T) /\ Append(q, t) \in Seq(T)
         /\ Queued(Append(q, t), t)
         /\ \A i : Queued(q, i) => Queued(Append(q, t), i)
  <1>1. q \in Seq(T)  BY SMT
  <1>2. /\ Append(q, t) \in Seq(T) /\ Len(Append(q, t)) = Len(q) + 1 /\ Len(q) \in Nat
        /\ Append(q, t)[Len(q) + 1] = t
        /\ \A n \in 1..Len(q) : Append(q, t)[n] = q[n]
    BY <1>1, SMT
  <1>3. Len(q) + 1 \in 1..Len(Append(q, t)) /\ \A n \in 1..Len(q) : n \in 1..Len(Append(q, t))
    BY <1>2, SMT
  <1>4. Queued(Append(q, t), t)  BY <1>2, <1>3 DEF Queued
  <1>5. \A i : Queued(q, i) => Queued(Append(q, t), i)  BY <1>2, <1>3 DEF Queued
  <1> QED  BY <1>1, <1>2, <1>4, <1>5

\* Nothing is forgotten when a step interprets instruction c: what it changes is
\* queued or comes next.
LEMMA NothingForgotten ==
  ASSUME NEW p, NEW states, NEW after, NEW popped, NEW popped2, NEW q, NEW q2, NEW c, NEW c2,
         StatesOf(p, states), StatesOf(p, after), Grown(p, states, after),
         popped \subseteq popped2, NoneForgotten(p, states, popped, q, c),
         \A i : Queued(q, i) => Queued(q2, i) \/ i = c2,
         \A i \in DOMAIN after :
             (i \in DOMAIN states /\ after[i] = states[i]) \/ i = c2 \/ Queued(q2, i),
         c \in DOMAIN after => c = c2 \/ Queued(q2, c) \/ Settled(p, c, after, popped2)
  PROVE  NoneForgotten(p, after, popped2, q2, c2)
  <1> SUFFICES ASSUME NEW i \in DOMAIN after, i # c2, ~Queued(q2, i)
               PROVE  Settled(p, i, after, popped2)
    BY DEF NoneForgotten
  <1>1. CASE i = c  BY <1>1
  <1>2. CASE i # c
    <2>1. i \in DOMAIN states /\ after[i] = states[i]  OBVIOUS
    <2>2. Settled(p, i, states, popped)  BY <1>2, <2>1 DEF NoneForgotten
    <2> QED  BY <2>1, <2>2, StaysSettled
  <1> QED  BY <1>1, <1>2

LEMMA InitAnalysis == Init => AnalysisInv
  <1> SUFFICES ASSUME Init PROVE AnalysisInv  OBVIOUS
  <1>1. /\ prog \in Programs
        /\ argKinds \in [0..(prog.argcount - 1) -> Kind \ {"Undefined"}]
        /\ start = [i \in {1} |-> InitialState] /\ consumers = {} /\ queue = <<1>> /\ cur = 0
    BY DEF Init, AbsInit
  <1>2. ProgramAssumption(prog)  BY <1>1, AbsInterpAssumption
  <1>3. 1 \in DOMAIN prog.code /\ prog.depth[1] = 0 /\ prog.argcount \in Nat
    BY <1>2, ProgramFacts
  <1> DEFINE locals == [v \in 0..(prog.nlocals - 1) |->
                           IF v < prog.argcount
                           THEN [kind |-> argKinds[v], maybeUndefined |-> FALSE]
                           ELSE [kind |-> "Undefined", maybeUndefined |-> TRUE]]
  <1>4. locals \in [0..(prog.nlocals - 1) -> LocalType]
    <2> SUFFICES ASSUME NEW v \in 0..(prog.nlocals - 1)
                 PROVE  (IF v < prog.argcount
                         THEN [kind |-> argKinds[v], maybeUndefined |-> FALSE]
                         ELSE [kind |-> "Undefined", maybeUndefined |-> TRUE]) \in LocalType
      OBVIOUS
    <2>1. CASE v < prog.argcount
      <3>1. v \in 0..(prog.argcount - 1)  BY <2>1, <1>3, SMT
      <3>2. argKinds[v] \in Kind  BY <1>1, <3>1
      <3> QED  BY <2>1, <3>2 DEF LocalType
    <2>2. CASE ~(v < prog.argcount)
      <3>1. "Undefined" \in Kind  BY DEF Kind
      <3> QED  BY <2>2, <3>1 DEF LocalType
    <2> QED  BY <2>1, <2>2
  <1>5. InitialState = [stack |-> <<>>, locals |-> locals]  BY DEF InitialState
  <1> HIDE DEF locals
  <1>6. InitialState \in StateType(prog)  BY <1>4, <1>5 DEF StateType
  <1>7. Len(InitialState.stack) = 0  BY <1>5
  <1>8. StartsIn(prog, 1, InitialState)
    BY <1>2, <1>3, <1>6, <1>7, SMT DEF StartsIn, IsState, Placed
  <1>9. StatesOf(prog, start) /\ 1 \in DOMAIN start /\ start[1] = InitialState
    BY <1>1, <1>3, <1>8 DEF StatesOf
  <1>10. Above(prog, start[1], InitialState)  BY <1>9, AboveItself
  <1>11. queue \in Seq(DOMAIN start) /\ Queued(queue, 1)  BY <1>1, SMT DEF Queued
  <1>12. NoneForgotten(prog, start, consumers, queue, cur)
    BY <1>1, <1>11 DEF NoneForgotten
  <1> QED  BY <1>1, <1>8, <1>9, <1>10, <1>11, <1>12 DEF AnalysisInv

LEMMA NextBlockStep ==
  ASSUME AnalysisInv, NextBlock
  PROVE  AnalysisInv'
  <1>a. PICK p, states, popped, q, args, c2 :
            /\ p = prog /\ states = start /\ popped = consumers /\ q = queue
            /\ args = argKinds /\ c2 = Head(queue)
    OBVIOUS
  <1>1. /\ prog' = p /\ start' = states /\ consumers' = popped /\ argKinds' = args
        /\ queue' = Tail(q) /\ cur' = c2 /\ cur = 0 /\ q # <<>>
    BY <1>a DEF NextBlock
  <1>2. /\ p \in Programs /\ args \in [0..(p.argcount - 1) -> Kind \ {"Undefined"}]
        /\ StatesOf(p, states) /\ 1 \in DOMAIN states
        /\ q \in Seq(DOMAIN states) /\ NoneForgotten(p, states, popped, q, 0)
        /\ \A c \in popped : ConsumerOf(p, c)
    BY <1>a, <1>1 DEF AnalysisInv
  <1>3. /\ Tail(q) \in Seq(DOMAIN states) /\ c2 \in DOMAIN states /\ c2 = q[1]
        /\ Len(q) \in Nat \ {0} /\ Len(Tail(q)) = Len(q) - 1
        /\ \A n \in 1..(Len(q) - 1) : Tail(q)[n] = q[n + 1]
    BY <1>a, <1>1, <1>2, SMT
  <1>4. ASSUME NEW i, Queued(q, i)
        PROVE  i = c2 \/ Queued(Tail(q), i)
    <2>1. PICK n \in 1..Len(q) : q[n] = i  BY <1>4 DEF Queued
    <2>2. CASE n = 1  BY <2>1, <2>2, <1>3
    <2>3. CASE n # 1
      <3>1. n - 1 \in 1..Len(Tail(q)) /\ Tail(q)[n - 1] = q[n]  BY <1>3, <2>3, SMT
      <3> QED  BY <2>1, <3>1 DEF Queued
    <2> QED  BY <2>2, <2>3
  <1>5. 0 \notin DOMAIN states
    <2>1. ProgramAssumption(p)  BY <1>2, AbsInterpAssumption
    <2> QED  BY <1>2, <2>1, ProgramFacts, SMT DEF StatesOf
  <1>6. NoneForgotten(p, states, popped, Tail(q), c2)
    <2> SUFFICES ASSUME NEW i \in DOMAIN states
                 PROVE  i = c2 \/ Queued(Tail(q), i) \/ Settled(p, i, states, popped)
      BY DEF NoneForgotten
    <2>1. i = 0 \/ Queued(q, i) \/ Settled(p, i, states, popped)  BY <1>2 DEF NoneForgotten
    <2> QED  BY <1>4, <1>5, <2>1
  <1>7. StartsIn(p, 1, InitialState') /\ Above(p, states[1], InitialState')
    <2>1. InitialState' = InitialState  BY <1>a, <1>1 DEF InitialState
    <2> QED  BY <1>a, <2>1 DEF AnalysisInv
  <1> QED  BY <1>1, <1>2, <1>3, <1>6, <1>7 DEF AnalysisInv

\* Interpreting instruction cur: what is left to show for each kind of
\* instruction.
LEMMA InterpretStep ==
  ASSUME AnalysisInv, cur # 0, prog' = prog, argKinds' = argKinds,
         consumers' = consumers \cup PoppedBy(Instruction, cur, start[cur]),
         NEW after, start' = after, StatesOf(prog, after), Grown(prog, start, after),
         queue' \in Seq(DOMAIN after), cur' \in DOMAIN after \cup {0},
         \A i : Queued(queue, i) => Queued(queue', i),
         \A i \in DOMAIN after :
             (i \in DOMAIN start /\ after[i] = start[i]) \/ i = cur' \/ Queued(queue', i),
         FallsThrough(Opcode) => /\ cur + 1 \in DOMAIN after
                                 /\ Above(prog, after[cur + 1], After(Instruction, cur, start[cur])),
         Jumps(Opcode) => /\ Target \in DOMAIN after
                          /\ Above(prog, after[Target], AtTarget(Instruction, cur, start[cur]))
  PROVE  AnalysisInv'
  <1>a. PICK p, states, popped, popped2, q, q2, c, c2, ins :
            /\ p = prog /\ states = start /\ popped = consumers /\ popped2 = consumers'
            /\ q = queue /\ q2 = queue' /\ c = cur /\ c2 = cur' /\ ins = prog.code[cur]
    OBVIOUS
  <1>1. /\ p \in Programs /\ argKinds \in [0..(p.argcount - 1) -> Kind \ {"Undefined"}]
        /\ StatesOf(p, states) /\ 1 \in DOMAIN states /\ c \in DOMAIN states
        /\ StartsIn(p, 1, InitialState) /\ Above(p, states[1], InitialState)
        /\ NoneForgotten(p, states, popped, q, c)
        /\ \A x \in popped : ConsumerOf(p, x)
    BY <1>a DEF AnalysisInv
  <1>2. ins = p.code[c] /\ popped2 = popped \cup PoppedBy(ins, c, states[c])
    BY <1>a DEF Instruction
  <1>3. StartsIn(p, c, states[c])  BY <1>1 DEF StatesOf
  <1>4. /\ StatesOf(p, after) /\ Grown(p, states, after)
        /\ FallsThrough(ins.op) =>
               c + 1 \in DOMAIN after /\ Above(p, after[c + 1], After(ins, c, states[c]))
        /\ Jumps(ins.op) =>
               ins.arg \in DOMAIN after /\ Above(p, after[ins.arg], AtTarget(ins, c, states[c]))
    BY <1>a DEF Instruction, Opcode, Target
  <1>5. /\ \A i : Queued(q, i) => Queued(q2, i)
        /\ \A i \in DOMAIN after :
               (i \in DOMAIN states /\ after[i] = states[i]) \/ i = c2 \/ Queued(q2, i)
    BY <1>a
  <1>6. ASSUME c # c2, ~Queued(q2, c)  PROVE  Settled(p, c, after, popped2)
    <2>1. c \in DOMAIN after  BY <1>1, <1>4 DEF Grown
    <2>2. after[c] = states[c]  BY <1>5, <1>6, <2>1
    <2> QED  BY <1>2, <1>4, <2>2 DEF Settled
  <1>7. NoneForgotten(p, after, popped2, q2, c2)
    BY <1>1, <1>2, <1>4, <1>5, <1>6, NothingForgotten
  <1>8. \A x \in popped2 : ConsumerOf(p, x)
    BY <1>1, <1>2, <1>3, PoppedConsumers
  <1>9. 1 \in DOMAIN after /\ Above(p, after[1], InitialState)
    <2>1. 1 \in DOMAIN after /\ Above(p, after[1], states[1])  BY <1>1, <1>4 DEF Grown
    <2>2. StartsIn(p, 1, after[1]) /\ StartsIn(p, 1, states[1])  BY <1>1, <1>4, <2>1 DEF StatesOf
    <2> QED  BY <1>1, <2>1, <2>2, AboveIsTransitive
  <1>10. InitialState' = InitialState  BY DEF InitialState
  <1>11. StartsIn(p, 1, InitialState') /\ Above(p, after[1], InitialState')
    BY <1>1, <1>9, <1>10
  <1>12. prog' = p /\ start' = after /\ queue' = q2 /\ cur' = c2 /\ consumers' = popped2
         /\ q2 \in Seq(DOMAIN after) /\ c2 \in DOMAIN after \cup {0}
    BY <1>a
  <1> QED  BY <1>1, <1>4, <1>7, <1>8, <1>9, <1>11, <1>12 DEF AnalysisInv

\* The instruction that is interpreted, and where it leads.
LEMMA CurrentInstruction ==
  ASSUME AnalysisInv, cur # 0
  PROVE  /\ cur \in DOMAIN start /\ cur \in Nat /\ ProgramAssumption(prog)
         /\ StatesOf(prog, start) /\ StartsIn(prog, cur, start[cur]) /\ Opcode \in Op
         /\ FallsThrough(Opcode) =>
                StartsIn(prog, cur + 1, After(Instruction, cur, start[cur]))
         /\ Jumps(Opcode) => StartsIn(prog, Target, AtTarget(Instruction, cur, start[cur]))
  <1>1. cur \in DOMAIN start /\ StatesOf(prog, start) /\ ProgramAssumption(prog)
    BY AbsInterpAssumption DEF AnalysisInv
  <1>2. StartsIn(prog, cur, start[cur])  BY <1>1 DEF StatesOf
  <1>3. cur \in DOMAIN prog.code /\ cur \in Nat /\ Opcode \in Op
    BY <1>1, <1>2, ProgramFacts, SMT DEF StartsIn, Opcode, Instruction
  <1> QED
    BY <1>1, <1>2, <1>3, NextStartsIn, TargetStartsIn DEF Opcode, Target, Instruction

LEMMA StraightStep ==
  ASSUME AnalysisInv, Straight, prog' = prog, argKinds' = argKinds,
         consumers' = consumers \cup PoppedBy(Instruction, cur, start[cur])
  PROVE  AnalysisInv'
  <1>1. /\ cur # 0 /\ Opcode \notin CondJump \cup {"JUMP_ABSOLUTE", "RETURN_VALUE"}
        /\ cur' = cur + 1 /\ queue' = queue
    BY DEF Straight
  <1>2. FallsThrough(Opcode) /\ ~Jumps(Opcode)  BY <1>1, SMT DEF FallsThrough, Jumps
  <1> DEFINE s == After(Instruction, cur, start[cur])
  <1>3. PICK keepOld \in BOOLEAN : start' = updateStartState(start, cur + 1, s, keepOld)
    BY DEF Straight
  <1>4. /\ cur \in Nat /\ StatesOf(prog, start) /\ StartsIn(prog, cur + 1, s)
    BY <1>1, <1>2, CurrentInstruction
  <1> DEFINE after == updateStartState(start, cur + 1, s, keepOld)
  <1>5. /\ StatesOf(prog, after) /\ Grown(prog, start, after)
        /\ DOMAIN after = DOMAIN start \cup {cur + 1} /\ Above(prog, after[cur + 1], s)
        /\ \A j \in DOMAIN start : j # cur + 1 => after[j] = start[j]
    <2>1. Updated(prog, start, after, cur + 1, s)
      BY <1>3, <1>4, UpdatedStates, Zenon
    <2> QED  BY <2>1 DEF Updated
  <1>6. start' = after  BY <1>3
  <1> HIDE DEF after
  <1>7. queue' \in Seq(DOMAIN after) /\ \A i : Queued(queue, i) => Queued(queue', i)
    <2>1. queue \in Seq(DOMAIN start)  BY DEF AnalysisInv
    <2> QED  BY <1>1, <1>5, <2>1, SMT
  <1>8. \A i \in DOMAIN after : (i \in DOMAIN start /\ after[i] = start[i]) \/ i = cur'
    BY <1>1, <1>5
  <1> QED  BY <1>1, <1>2, <1>5, <1>6, <1>7, <1>8, InterpretStep

LEMMA LeaveStep ==
  ASSUME AnalysisInv, Leave, prog' = prog, argKinds' = argKinds,
         consumers' = consumers \cup PoppedBy(Instruction, cur, start[cur])
  PROVE  AnalysisInv'
  <1>1. /\ cur # 0 /\ Opcode = "RETURN_VALUE" /\ cur' = 0 /\ start' = start /\ queue' = queue
    BY DEF Leave
  <1>2. ~FallsThrough(Opcode) /\ ~Jumps(Opcode)
    BY <1>1, SMT DEF FallsThrough, Jumps, CondJump
  <1>3. StatesOf(prog, start) /\ queue \in Seq(DOMAIN start)  BY DEF AnalysisInv
  <1>4. Grown(prog, start, start)  BY AboveItself DEF Grown
  <1> QED  BY <1>1, <1>2, <1>3, <1>4, InterpretStep

\* The queue holds the target of the jump when its state changed.
LEMMA EnqueuedTarget ==
  ASSUME NEW after, Enqueue(after), NEW T, queue \in Seq(T), Target \in T
  PROVE  /\ queue' \in Seq(T)
         /\ \A i : Queued(queue, i) => Queued(queue', i)
         /\ (Target \in DOMAIN start /\ after[Target] = start[Target]) \/ Queued(queue', Target)
  <1>1. CASE Changed(start, after, Target)
    <2>1. queue' = Append(queue, Target)  BY <1>1 DEF Enqueue
    <2> QED  BY <2>1, QueueFacts
  <1>2. CASE ~Changed(start, after, Target)
    <2>1. queue' = queue  BY <1>2 DEF Enqueue
    <2> QED  BY <1>2, <2>1 DEF Changed
  <1> QED  BY <1>1, <1>2

LEMMA JumpStep ==
  ASSUME AnalysisInv, Jump, prog' = prog, argKinds' = argKinds,
         consumers' = consumers \cup PoppedBy(Instruction, cur, start[cur])
  PROVE  AnalysisInv'
  <1>1. cur # 0 /\ Opcode = "JUMP_ABSOLUTE" /\ cur' = 0 /\ Enqueue(start')
    BY DEF Jump
  <1>2. ~FallsThrough(Opcode) /\ Jumps(Opcode)  BY <1>1, SMT DEF FallsThrough, Jumps
  <1> DEFINE s == AtTarget(Instruction, cur, start[cur])
  <1>3. /\ StatesOf(prog, start) /\ StartsIn(prog, Target, s) /\ Opcode \in Op
        /\ StartsIn(prog, cur, start[cur]) /\ cur \in DOMAIN start
    BY <1>1, <1>2, CurrentInstruction
  <1>4. s = start[cur]
    <2>1. s = After(Instruction, cur, start[cur])  BY <1>1 DEF AtTarget, Opcode
    <2>2. After(Instruction, cur, start[cur]) = Pop(start[cur], Pops(Opcode))
      BY <1>1, AfterOf DEF Opcode
    <2>3. Pops(Opcode) = 0  BY <1>1, <1>3, PopsOf
    <2>4. start[cur].stack \in Seq(SlotType)
          /\ start[cur] = [stack |-> start[cur].stack, locals |-> start[cur].locals]
      BY <1>3, SMT DEF StartsIn, IsState, StateType
    <2>5. SubSeq(start[cur].stack, 1, Len(start[cur].stack) - 0) = start[cur].stack
      BY <2>4, SMT
    <2>6. Pop(start[cur], 0) = [start[cur] EXCEPT !.stack = start[cur].stack]
      BY <2>5 DEF Pop
    <2>7. Pop(start[cur], 0) = start[cur]  BY <2>4, <2>6, RecordUpdate
    <2> QED  BY <2>1, <2>2, <2>3, <2>7
  <1>5. PICK keepOld \in BOOLEAN : start' = updateStartState(start, Target, s, keepOld)
    BY <1>4 DEF Jump
  <1> HIDE DEF s
  <1> DEFINE after == updateStartState(start, Target, s, keepOld)
  <1>6. /\ StatesOf(prog, after) /\ Grown(prog, start, after)
        /\ DOMAIN after = DOMAIN start \cup {Target} /\ Above(prog, after[Target], s)
        /\ \A j \in DOMAIN start : j # Target => after[j] = start[j]
    <2>1. Updated(prog, start, after, Target, s)
      BY <1>3, <1>5, UpdatedStates, Zenon
    <2> QED  BY <2>1 DEF Updated
  <1>7. start' = after /\ Enqueue(after)  BY <1>1, <1>5
  <1> HIDE DEF after
  <1>8. queue \in Seq(DOMAIN after)
    <2>1. queue \in Seq(DOMAIN start)  BY DEF AnalysisInv
    <2> QED  BY <1>6, <2>1, SMT
  <1>9. /\ queue' \in Seq(DOMAIN after) /\ \A i : Queued(queue, i) => Queued(queue', i)
        /\ (Target \in DOMAIN start /\ after[Target] = start[Target]) \/ Queued(queue', Target)
    BY <1>6, <1>7, <1>8, EnqueuedTarget
  <1>10. \A i \in DOMAIN after : (i \in DOMAIN start /\ after[i] = start[i]) \/ Queued(queue', i)
    BY <1>6, <1>9
  <1> QED  BY <1>1, <1>2, <1>6, <1>7, <1>9, <1>10, InterpretStep DEF s

LEMMA BranchStep ==
  ASSUME AnalysisInv, Branch, prog' = prog, argKinds' = argKinds,
         consumers' = consumers \cup PoppedBy(Instruction, cur, start[cur])
  PROVE  AnalysisInv'
  <1>1. cur # 0 /\ Opcode \in CondJump /\ cur' = cur + 1  BY DEF Branch
  <1>2. FallsThrough(Opcode) /\ Jumps(Opcode)
    BY <1>1, SMT DEF FallsThrough, Jumps, CondJump
  <1> DEFINE s == After(Instruction, cur, start[cur])
             t == AtTarget(Instruction, cur, start[cur])
  <1>3. /\ StatesOf(prog, start) /\ StartsIn(prog, Target, t) /\ StartsIn(prog, cur + 1, s)
    BY <1>1, <1>2, CurrentInstruction
  <1>4. PICK keepOld \in BOOLEAN :
            LET jumped == updateStartState(start, Target, t, keepOld)
            IN  Enqueue(jumped) /\ start' = updateStartState(jumped, cur + 1, s, keepOld)
    BY DEF Branch
  <1> HIDE DEF s, t
  <1> DEFINE jumped == updateStartState(start, Target, t, keepOld)
  <1>5. /\ StatesOf(prog, jumped) /\ Grown(prog, start, jumped)
        /\ DOMAIN jumped = DOMAIN start \cup {Target} /\ Above(prog, jumped[Target], t)
        /\ \A j \in DOMAIN start : j # Target => jumped[j] = start[j]
    <2>1. Updated(prog, start, jumped, Target, t)
      BY <1>3, <1>4, UpdatedStates, Zenon
    <2> QED  BY <2>1 DEF Updated
  <1>6. Enqueue(jumped) /\ start' = updateStartState(jumped, cur + 1, s, keepOld)  BY <1>4
  <1> HIDE DEF jumped
  <1> DEFINE after == updateStartState(jumped, cur + 1, s, keepOld)
  <1>7. /\ StatesOf(prog, after) /\ Grown(prog, jumped, after)
        /\ DOMAIN after = DOMAIN jumped \cup {cur + 1} /\ Above(prog, after[cur + 1], s)
        /\ \A j \in DOMAIN jumped : j # cur + 1 => after[j] = jumped[j]
    <2>1. Updated(prog, jumped, after, cur + 1, s)
      BY <1>3, <1>4, <1>5, UpdatedStates, Zenon
    <2> QED  BY <2>1 DEF Updated
  <1>8. start' = after  BY <1>6
  <1> HIDE DEF after
  <1>9. Grown(prog, start, after)
    <2> SUFFICES ASSUME NEW j \in DOMAIN start  PROVE  Above(prog, after[j], start[j])
      BY <1>5, <1>7 DEF Grown
    <2>1. Above(prog, jumped[j], start[j]) /\ Above(prog, after[j], jumped[j])
          /\ j \in DOMAIN jumped /\ j \in DOMAIN after
      BY <1>5, <1>7 DEF Grown
    <2>2. StartsIn(prog, j, start[j]) /\ StartsIn(prog, j, jumped[j]) /\ StartsIn(prog, j, after[j])
      BY <1>3, <1>5, <1>7, <2>1 DEF StatesOf
    <2> QED  BY <2>1, <2>2, AboveIsTransitive
  <1>10. Target \in DOMAIN after /\ Above(prog, after[Target], t)
    <2>1. Above(prog, after[Target], jumped[Target]) /\ Target \in DOMAIN after
          /\ Target \in DOMAIN jumped
      BY <1>5, <1>7 DEF Grown
    <2>2. StartsIn(prog, Target, jumped[Target]) /\ StartsIn(prog, Target, after[Target])
      BY <1>5, <1>7, <2>1 DEF StatesOf
    <2> QED  BY <1>3, <1>5, <2>1, <2>2, AboveIsTransitive
  <1>11. queue \in Seq(DOMAIN after)
    <2>1. queue \in Seq(DOMAIN start)  BY DEF AnalysisInv
    <2> QED  BY <1>5, <1>7, <2>1, SMT
  <1>12. /\ queue' \in Seq(DOMAIN after) /\ \A i : Queued(queue, i) => Queued(queue', i)
         /\ (Target \in DOMAIN start /\ jumped[Target] = start[Target]) \/ Queued(queue', Target)
    BY <1>6, <1>10, <1>11, EnqueuedTarget
  <1>13. \A i \in DOMAIN after :
             (i \in DOMAIN start /\ after[i] = start[i]) \/ i = cur' \/ Queued(queue', i)
    BY <1>1, <1>5, <1>7, <1>12
  <1>14. cur + 1 \in DOMAIN after /\ cur' \in DOMAIN after \cup {0}  BY <1>1, <1>7
  <1> QED  BY <1>1, <1>7, <1>8, <1>9, <1>10, <1>12, <1>13, <1>14, InterpretStep DEF s, t

\* The steps that are not the interpreter's leave the analysis alone.
LEMMA AnalysisStep ==
  ASSUME AnalysisInv, [Next]_vars
  PROVE  AnalysisInv'
  <1>1. CASE Interpret
    <2>1. CASE NextBlock  BY <2>1, NextBlockStep
    <2>2. CASE /\ Straight \/ Branch \/ Jump \/ Leave
               /\ consumers' = consumers \cup PoppedBy(Instruction, cur, start[cur])
               /\ UNCHANGED <<prog, argKinds>>
      <3>1. prog' = prog /\ argKinds' = argKinds
            /\ consumers' = consumers \cup PoppedBy(Instruction, cur, start[cur])
        BY <2>2
      <3> QED  BY <2>2, <3>1, StraightStep, BranchStep, JumpStep, LeaveStep
    <2> QED  BY <1>1, <2>1, <2>2 DEF Interpret
  <1>2. CASE UNCHANGED absVars
    <2>1. /\ prog' = prog /\ argKinds' = argKinds /\ start' = start /\ consumers' = consumers
          /\ queue' = queue /\ cur' = cur
      BY <1>2 DEF absVars
    <2>2. InitialState' = InitialState  BY <2>1 DEF InitialState
    <2> QED  BY <2>1, <2>2 DEF AnalysisInv
  <1> QED
    BY <1>1, <1>2 DEF Next, Analyse, Compile, Call, Execute, vars

LEMMA AnalysisAlways == Spec => []AnalysisInv
  BY InitAnalysis, AnalysisStep, PTL DEF Spec

LEMMA AnalysedIsStable == AnalysisInv => StartStatesAreStable
  <1> SUFFICES ASSUME AnalysisInv, Analysed, NEW i \in DOMAIN start,
                      NEW o \in Outcomes(i, start[i])
               PROVE  /\ o.to \in DOMAIN start
                      /\ Len(start[o.to].stack) = Len(o.state.stack)
                      /\ \A n \in DOMAIN o.state.stack :
                             Covers(start[o.to].stack[n].kind, o.state.stack[n].kind)
                      /\ \A v \in DOMAIN o.state.locals :
                             LET local == start[o.to].locals[v]
                             IN  /\ Covers(local.kind, o.state.locals[v].kind)
                                 /\ o.state.locals[v].maybeUndefined => local.maybeUndefined
    BY DEF StartStatesAreStable
  <1>1. StatesOf(prog, start) /\ NoneForgotten(prog, start, consumers, queue, cur)
        /\ cur = 0 /\ queue = <<>> /\ ProgramAssumption(prog)
    BY AbsInterpAssumption DEF AnalysisInv, Analysed
  <1>2. StartsIn(prog, i, start[i])  BY <1>1 DEF StatesOf
  <1>3. Settled(prog, i, start, consumers)
    <2>1. i # 0  BY <1>1, <1>2, ProgramFacts, SMT DEF StartsIn
    <2>2. ~Queued(queue, i)  BY <1>1, SMT DEF Queued
    <2> QED  BY <1>1, <2>1, <2>2 DEF NoneForgotten
  <1>4. o.to \in DOMAIN start /\ Above(prog, start[o.to], o.state)
        /\ StartsIn(prog, o.to, o.state)
    <2>1. CASE FallsThrough(prog.code[i].op) /\
               o = [to |-> i + 1, state |-> After(prog.code[i], i, start[i])]
      BY <1>2, <1>3, <2>1, NextStartsIn DEF Settled
    <2>2. CASE Jumps(prog.code[i].op) /\
               o = [to |-> prog.code[i].arg, state |-> AtTarget(prog.code[i], i, start[i])]
      BY <1>2, <1>3, <2>2, TargetStartsIn DEF Settled
    <2> QED  BY <2>1, <2>2 DEF Outcomes
  <1>5. /\ DOMAIN o.state.stack = 1..Len(o.state.stack)
        /\ DOMAIN o.state.locals = 0..(prog.nlocals - 1)
    <2>1. o.state.stack \in Seq(SlotType) /\ o.state.locals \in [0..(prog.nlocals - 1) -> LocalType]
      BY <1>4 DEF StartsIn, IsState, StateType
    <2> QED  BY <2>1, SMT
  <1> QED  BY <1>4, <1>5 DEF Above

\* When the analysis of a function ends, its start states agree with each other
\* (interpret, updateStartState): nothing that changed was left uninterpreted.
THEOREM AnalysisIsStable == Spec => []StartStatesAreStable
  BY AnalysisAlways, AnalysedIsStable, PTL

-----------------------------------------------------------------------------
(* The edges of the graph *)

\* The operand that instruction i pops at a position, as an edge.
EdgeAt(states, i, n) ==
    [from |-> Top(states[i], n).src[1], to |-> i, kind |-> Top(states[i], n).kind, position |-> n]

Positions(p, i) == 0..(Pops(p.code[i].op) - 1)

\* Every operand is one edge, and there are no others.
LEMMA EdgesAreOperands ==
  ASSUME AnalysisInv, Analysed
  PROVE  \A e : e \in EdgeSet <=> \E i \in DOMAIN start : \E n \in Positions(prog, i) :
                                      e = EdgeAt(start, i, n)
  <1>1. StatesOf(prog, start) /\ NoneForgotten(prog, start, consumers, queue, cur)
        /\ cur = 0 /\ queue = <<>> /\ ProgramAssumption(prog)
        /\ \A c \in consumers : ConsumerOf(prog, c)
    BY AbsInterpAssumption DEF AnalysisInv, Analysed
  <1>2. ASSUME NEW i \in DOMAIN start
        PROVE  /\ StartsIn(prog, i, start[i]) /\ i \in DOMAIN prog.code
               /\ IsState(prog, i, start[i])
               /\ PoppedBy(prog.code[i], i, start[i]) \subseteq consumers
               /\ Pops(prog.code[i].op) \in 0..2 /\ Pops(prog.code[i].op) <= prog.depth[i]
               /\ prog.depth[i] \in Nat
               /\ start[i].stack \in Seq(SlotType) /\ Len(start[i].stack) = prog.depth[i]
               /\ Placed(prog, start[i].stack)
    <2>1. StartsIn(prog, i, start[i])  BY <1>1 DEF StatesOf
    <2>2. i \in DOMAIN prog.code /\ IsState(prog, i, start[i])  BY <2>1 DEF StartsIn
    <2>3. i # 0 /\ prog.code[i].op \in Op /\ Pops(prog.code[i].op) <= prog.depth[i]
          /\ prog.depth[i] \in Nat
      BY <1>1, <2>2, ProgramFacts, SMT
    <2>4. ~Queued(queue, i)  BY <1>1, SMT DEF Queued
    <2>5. Settled(prog, i, start, consumers)  BY <1>1, <2>3, <2>4 DEF NoneForgotten
    <2>6. PoppedBy(prog.code[i], i, start[i]) \subseteq consumers  BY <2>5 DEF Settled
    <2>7. start[i].stack \in Seq(SlotType) /\ Len(start[i].stack) = prog.depth[i]
          /\ Placed(prog, start[i].stack)
      BY <2>2 DEF IsState, StateType
    <2> QED  BY <2>1, <2>2, <2>3, <2>6, <2>7, PopsOf
  <1>3. \A e : e \in EdgeSet <=>
            \E i \in DOMAIN start : \E slot \in ToSet(start[i].stack) :
            \E c \in consumers :
                /\ c.src = slot.src /\ c.by = i
                /\ e = [from |-> slot.src[1], to |-> i, kind |-> slot.kind, position |-> c.position]
    BY DEF EdgeSet
  <1>4. ASSUME NEW i \in DOMAIN start, NEW slot \in ToSet(start[i].stack), NEW c \in consumers,
               c.src = slot.src, c.by = i
        PROVE  /\ c.position \in Positions(prog, i)
               /\ EdgeAt(start, i, c.position) =
                      [from |-> slot.src[1], to |-> i, kind |-> slot.kind, position |-> c.position]
    <2>1. PICK m \in 1..Len(start[i].stack) : slot = start[i].stack[m]
      BY <1>2, SMT DEF ToSet
    <2>2. IndexOf(prog, slot.src) = m  BY <1>2, <2>1 DEF Placed
    <2>3. /\ c.position \in 0..(Pops(prog.code[i].op) - 1)
          /\ c.position = prog.depth[i] - m
      BY <1>1, <1>4, <2>2 DEF ConsumerOf
    <2>4. c.position \in 0..(prog.depth[i] - 1) /\ prog.depth[i] - c.position = m
      BY <1>2, <2>1, <2>3, SMT
    <2>5. Top(start[i], c.position) = slot
      BY <1>1, <1>2, <2>1, <2>4, OperandSlots
    <2> QED  BY <2>3, <2>5 DEF EdgeAt, Positions
  <1>5. ASSUME NEW i \in DOMAIN start, NEW n \in Positions(prog, i)
        PROVE  EdgeAt(start, i, n) \in EdgeSet
    <2>1. n \in 0..(prog.depth[i] - 1) /\ n \in 0..(Pops(prog.code[i].op) - 1)
      BY <1>2, SMT DEF Positions
    <2>2. Top(start[i], n) = start[i].stack[prog.depth[i] - n]
      BY <1>1, <1>2, <2>1, OperandSlots
    <2>3. Top(start[i], n) \in ToSet(start[i].stack)
      BY <1>2, <2>1, <2>2, SMT DEF ToSet
    <2> DEFINE c == [src |-> Top(start[i], n).src, by |-> i, position |-> n]
    <2>4. c \in consumers  BY <1>2, <2>1 DEF PoppedBy
    <2>5. c.src = Top(start[i], n).src /\ c.by = i /\ c.position = n  OBVIOUS
    <2> HIDE DEF c
    <2> QED  BY <1>3, <2>3, <2>4, <2>5 DEF EdgeAt
  <1>6. ASSUME NEW e \in EdgeSet
        PROVE  \E i \in DOMAIN start : \E n \in Positions(prog, i) : e = EdgeAt(start, i, n)
    BY <1>3, <1>4
  <1> QED  BY <1>5, <1>6

\* The edges to instruction i are edge[0], edge[1], ..., each at its position.
EdgesAre(edges, i, k, edge) ==
    /\ \A e : (e \in edges /\ e.to = i) <=> \E n \in 0..(k - 1) : e = edge[n]
    /\ \A n \in 0..(k - 1) : edge[n].position = n

\* getEdges lists them in this order.
LEMMA EdgeList ==
  ASSUME NEW edges, NEW i, NEW k \in Nat, NEW edge, EdgesAre(edges, i, k, edge)
  PROVE  getEdges(edges, i) = [n \in 1..k |-> edge[n - 1]]
  <1> DEFINE in == {e \in edges : e.to = i}
             positions == {e.position : e \in in}
             nth(n) == CHOOSE p \in positions : Cardinality({q \in positions : q < p}) = n - 1
  <1>0. /\ \A e : (e \in edges /\ e.to = i) <=> \E n \in 0..(k - 1) : e = edge[n]
        /\ \A n \in 0..(k - 1) : edge[n].position = n
    BY DEF EdgesAre
  <1>1. positions = 0..(k - 1)  BY <1>0, SMT
  <1>2. ASSUME NEW p \in 0..(k - 1)
        PROVE  Cardinality({q \in positions : q < p}) = p
    <2>1. {q \in positions : q < p} = 0..(p - 1)  BY <1>1, SMT
    <2>2. Cardinality(0..(p - 1)) = p  BY FS_Interval, SMT
    <2> QED  BY <2>1, <2>2
  <1>3. Cardinality(positions) = k
    <2>1. Cardinality(0..(k - 1)) = k  BY FS_Interval, SMT
    <2> QED  BY <1>1, <2>1
  <1>4. ASSUME NEW n \in 1..k
        PROVE  (CHOOSE e \in in : e.position = nth(n)) = edge[n - 1]
    <2> HIDE DEF positions, in
    <2>1. \E p \in positions : Cardinality({q \in positions : q < p}) = n - 1
      BY <1>1, <1>2, SMT
    <2>2. nth(n) \in positions /\ Cardinality({q \in positions : q < nth(n)}) = n - 1
      BY <2>1
    <2>3. nth(n) = n - 1  BY <1>1, <1>2, <2>2
    <2> HIDE DEF nth
    <2>4. n - 1 \in 0..(k - 1)  BY SMT
    <2>5. edge[n - 1] \in in /\ edge[n - 1].position = n - 1  BY <1>0, <2>4 DEF in
    <2>6. \A e \in in : e.position = n - 1 => e = edge[n - 1]  BY <1>0, <2>4 DEF in
    <2> QED  BY <2>3, <2>5, <2>6
  <1>5. getEdges(edges, i) =
            [n \in 1..Cardinality(positions) |-> CHOOSE e \in in : e.position = nth(n)]
    BY DEF getEdges
  <1> HIDE DEF in, positions, nth
  <1> QED  BY <1>3, <1>4, <1>5

LEMMA Least ==
  ASSUME NEW T, T \subseteq Nat, T # {}
  PROVE  \E x \in T : \A y \in T : x <= y
  <1> DEFINE R == OpToRel(<, Nat)
  <1>1. IsWellFoundedOn(R, Nat)  BY NatLessThanWellFounded, Zenon
  <1>2. \A x, y \in Nat : y < x => <<y, x>> \in R  BY DEF OpToRel
  <1> HIDE DEF R
  <1>3. PICK x \in T : \A y \in T : ~ (<<y, x>> \in R)  BY <1>1, WFMin
  <1>4. \A y \in T : ~(y < x)  BY <1>2, <1>3
  <1> QED  BY <1>4

\* What deoptimizeInstructions hands on from one instruction to the next.
Result(r) == \E E, invalid : r = [escape |-> E, invalid |-> invalid]

\* E is what is left of F: instructions on locals stay.
Reduced(E, F) ==
    /\ E \subseteq F
    /\ \A j \in DOMAIN prog.code : prog.code[j].op \in LocalOp => (j \in E <=> j \in F)

\* One instruction of deoptimizeInstructions at most takes instructions out of the
\* set, and never one on a local.
LEMMA DeoptimizeOne ==
  ASSUME NEW edges, NEW g, Result(g), NEW i \in DOMAIN prog.code,
         \A e \in edges : prog.code[e.to].op \notin {"LOAD_FAST", "DELETE_FAST"}
  PROVE  LET r == deoptimize(edges, g, i)
         IN  Result(r) /\ Reduced(r.escape, g.escape)
  <1> DEFINE out == getEdgesFrom(edges, i)
             ends == {e.to : e \in {x \in out : getEdgesFrom(edges, x.to) = {}}}
             others == {j \in ends : prog.code[j].op # "STORE_FAST"}
             r == deoptimize(edges, g, i)
  <1>1. \A j \in ends : prog.code[j].op \notin {"LOAD_FAST", "DELETE_FAST"}
    BY DEF getEdgesFrom
  <1>2. \A j \in others : prog.code[j].op \notin LocalOp
    BY <1>1, SMT DEF LocalOp
  <1>3. \/ r = g
        \/ /\ prog.code[i].op \notin LocalOp
           /\ \/ r = [escape |-> g.escape \ {i}, invalid |-> TRUE]
              \/ r = [escape |-> g.escape \ {i}, invalid |-> g.invalid]
              \/ r = [escape |-> g.escape \ ({i} \cup others), invalid |-> g.invalid]
              \/ r = [escape |-> g.escape \ {}, invalid |-> g.invalid]
    BY Zenon DEF deoptimize
  <1> HIDE DEF ends, others, r
  <1>4. ASSUME NEW F, NEW x, r = [escape |-> F, invalid |-> x], Reduced(F, g.escape)
        PROVE  Result(r) /\ Reduced(r.escape, g.escape)
    <2>1. Result(r)  BY <1>4 DEF Result
    <2>2. r.escape = F  BY <1>4
    <2> QED  BY <1>4, <2>1, <2>2
  <1>5. ASSUME r = g
        PROVE  Result(r) /\ Reduced(r.escape, g.escape)
    <2>1. Reduced(g.escape, g.escape)  BY DEF Reduced
    <2> QED  BY <1>5, <2>1
  <1>6. Reduced(g.escape \ {}, g.escape)  BY DEF Reduced
  <1>7. ASSUME prog.code[i].op \notin LocalOp
        PROVE  /\ Reduced(g.escape \ {i}, g.escape)
               /\ Reduced(g.escape \ ({i} \cup others), g.escape)
    BY <1>2, <1>7 DEF Reduced
  <1>8. Result(r) /\ Reduced(r.escape, g.escape)
    BY <1>3, <1>4, <1>5, <1>6, <1>7
  <1> QED  BY <1>8 DEF r

\* The function that deoptimizeInstructions is defined with exists, ...
HandsOn(edges, E, g) == g = [i \in 0..Len(prog.code) |->
                                IF i = 0 THEN [escape |-> E, invalid |-> FALSE]
                                ELSE deoptimize(edges, g[i - 1], i)]

LEMMA DeoptimizationExists ==
  ASSUME NEW edges, NEW E, ProgramAssumption(prog)
  PROVE  \E g : HandsOn(edges, E, g)
  <1> DEFINE first == [escape |-> E, invalid |-> FALSE]
             Upto(g, n) == g = [i \in 0..n |-> IF i = 0 THEN first
                                               ELSE deoptimize(edges, g[i - 1], i)]
             Has(n) == \E g : Upto(g, n)
             T == {n \in Nat : ~Has(n)}
  <1>1. Len(prog.code) \in Nat  BY ProgramFacts
  <1>2. T = {}
    <2> HIDE DEF first
    <2> SUFFICES ASSUME T # {} PROVE FALSE  OBVIOUS
    <2>1. PICK n \in Nat : ~Has(n) /\ \A m \in Nat : ~Has(m) => n <= m
      <3> HIDE DEF Has
      <3>1. T \subseteq Nat  OBVIOUS
      <3>2. \E n \in T : \A m \in T : n <= m  BY <3>1, Least
      <3> QED  BY <3>2
    <2>2. CASE n = 0
      <3> DEFINE h == [i \in 0..0 |-> first]
      <3>1. h = [i \in 0..0 |-> IF i = 0 THEN first ELSE deoptimize(edges, h[i - 1], i)]
        OBVIOUS
      <3> QED  BY <2>1, <2>2, <3>1
    <2>3. CASE n # 0
      <3>1. n \in Nat /\ n - 1 \in Nat /\ Has(n - 1)
        <4> HIDE DEF Has
        <4>1. n - 1 \in Nat /\ ~(n <= n - 1)  BY <2>1, <2>3
        <4> QED  BY <2>1, <4>1
      <3>2. PICK g : Upto(g, n - 1)  BY <3>1
      <3>3. /\ DOMAIN g = 0..(n - 1)
            /\ \A i \in 0..(n - 1) : g[i] = IF i = 0 THEN first ELSE deoptimize(edges, g[i - 1], i)
        BY <3>2
      <3> DEFINE h == [i \in 0..n |-> IF i = n THEN deoptimize(edges, g[n - 1], n) ELSE g[i]]
      <3>4. \A i \in 0..n : h[i] = IF i = 0 THEN first ELSE deoptimize(edges, h[i - 1], i)
        <4> TAKE i \in 0..n
        <4>1. CASE i = n
          BY <2>3, <3>1, <4>1
        <4>2. CASE i # n
          BY <2>3, <3>1, <3>3, <4>2
        <4> QED  BY <4>1, <4>2
      <3>5. h = [i \in 0..n |-> h[i]]  OBVIOUS
      <3> HIDE DEF h
      <3>6. Upto(h, n)  BY <3>4, <3>5
      <3> QED  BY <2>1, <3>6
    <2> QED  BY <2>2, <2>3
  <1>3. \E g : Upto(g, Len(prog.code))
    <2> HIDE DEF Upto
    <2> QED  BY <1>1, <1>2
  <1> QED  BY <1>3, Zenon DEF HandsOn

\* ... and only takes instructions out of the set, none of them on a local.
LEMMA Deoptimized ==
  ASSUME NEW edges, NEW E, ProgramAssumption(prog),
         \A e \in edges : prog.code[e.to].op \notin {"LOAD_FAST", "DELETE_FAST"}
  PROVE  Reduced(deoptimizeInstructions(edges, E).escape, E)
  <1>1. Len(prog.code) \in Nat /\ DOMAIN prog.code = 1..Len(prog.code)
    BY ProgramFacts
  <1> DEFINE first == [escape |-> E, invalid |-> FALSE]
             g == CHOOSE x : HandsOn(edges, E, x)
  <1>2. deoptimizeInstructions(edges, E) = g[Len(prog.code)]
    BY Zenon DEF deoptimizeInstructions, HandsOn
  <1>3. HandsOn(edges, E, g)
    BY DeoptimizationExists
  <1> HIDE DEF first, g
  <1>4. \A i \in 0..Len(prog.code) :
            g[i] = IF i = 0 THEN first ELSE deoptimize(edges, g[i - 1], i)
    <2>1. g = [i \in 0..Len(prog.code) |-> IF i = 0 THEN first ELSE deoptimize(edges, g[i - 1], i)]
      BY <1>3, Zenon DEF HandsOn, first
    <2> QED  BY <2>1
  <1> DEFINE Good(i) == Result(g[i]) /\ Reduced(g[i].escape, E)
             T == {i \in 0..Len(prog.code) : ~Good(i)}
  <1>5. Good(0)
    <2>1. g[0] = first  BY <1>1, <1>4
    <2>2. Result(g[0])  BY <2>1, Zenon DEF Result, first
    <2>3. g[0].escape = E  BY <2>1, SMT DEF first
    <2>4. Reduced(E, E)  BY DEF Reduced
    <2> QED  BY <2>2, <2>3, <2>4
  <1>6. ASSUME NEW i \in 1..Len(prog.code), Good(i - 1)
        PROVE  Good(i)
    <2> HIDE DEF Good
    <2>1. Result(g[i - 1]) /\ Reduced(g[i - 1].escape, E)  BY <1>6 DEF Good
    <2>2. g[i] = deoptimize(edges, g[i - 1], i) /\ i \in DOMAIN prog.code
      BY <1>1, <1>4
    <2>3. Result(g[i]) /\ Reduced(g[i].escape, g[i - 1].escape)
      BY <2>1, <2>2, DeoptimizeOne, Zenon
    <2> QED  BY <2>1, <2>3 DEF Reduced, Good
  <1> HIDE DEF Good
  <1>7. T = {}
    <2> SUFFICES ASSUME T # {} PROVE FALSE  OBVIOUS
    <2>1. PICK i \in T : \A j \in T : i <= j
      <3>1. T \subseteq Nat  BY <1>1
      <3> QED  BY <3>1, Least
    <2>2. i \in 1..Len(prog.code) /\ ~Good(i)  BY <1>1, <1>5, <2>1
    <2>3. i - 1 \in 0..Len(prog.code) /\ i - 1 \notin T  BY <1>1, <2>1, <2>2
    <2> QED  BY <1>6, <2>2, <2>3
  <1>8. Good(Len(prog.code))  BY <1>1, <1>7
  <1> QED  BY <1>2, <1>8 DEF Good

-----------------------------------------------------------------------------
(* The compiled bodies *)

\* The operands an instruction has edges for are those it pops, or none when it
\* cannot be reached.
EdgeCount(p, states, i) == IF i \in DOMAIN states THEN Pops(p.code[i].op) ELSE 0

OperandsFit(p, states, i, ops) ==
    /\ Len(ops) = EdgeCount(p, states, i) /\ DOMAIN ops = 1..EdgeCount(p, states, i)
    /\ i \notin DOMAIN states => ops = <<>>
    /\ \A n \in 1..EdgeCount(p, states, i) :
           /\ ops[n].position = n - 1
           /\ ops[n].kind = Top(states[i], n - 1).kind
           /\ ops[n].escaped = "Unbox" => supportsEscaping(ops[n].kind)

\* The instructions on the locals in U, and no other instructions on locals, are
\* escaped.
NativeAre(p, escape, U) ==
    \A i \in DOMAIN p.code : p.code[i].op \in LocalOp => (i \in escape <=> p.code[i].arg \in U)

\* What a body owes to the start states it was compiled from.
GoodBody(p, states, body) ==
    /\ \E U \in SUBSET (p.argcount..(p.nlocals - 1)) : NativeAre(p, body.graph.escape, U)
    /\ DOMAIN body.graph.operands = DOMAIN p.code
    /\ \A i \in DOMAIN p.code : OperandsFit(p, states, i, body.graph.operands[i])

BodiesInv ==
    bodies # <<>> =>
        /\ Analysed
        /\ DOMAIN bodies = {"specialized", "generic"}
        /\ \A name \in DOMAIN bodies : GoodBody(prog, start, bodies[name])

\* transition: only what is escaped is unboxed.
LEMMA OnlyEscapedUnbox ==
  \A escape, e : transition(escape, e) = "Unbox" => supportsEscaping(e.kind)
  BY DEF transition

LEMMA FittingEdges ==
  ASSUME AnalysisInv, Analysed, NEW i \in DOMAIN prog.code
  PROVE  LET k == EdgeCount(prog, start, i)
         IN  /\ k \in Nat
             /\ getEdges(EdgeSet, i) = [n \in 1..k |-> EdgeAt(start, i, n - 1)]
  <1> DEFINE k == EdgeCount(prog, start, i)
             edge == [n \in 0..(k - 1) |-> EdgeAt(start, i, n)]
  <1>1. ProgramAssumption(prog)  BY AbsInterpAssumption DEF AnalysisInv
  <1>2. k \in Nat
    <2>1. Pops(prog.code[i].op) \in 0..2  BY <1>1, ProgramFacts, PopsOf
    <2> QED  BY <2>1, SMT DEF EdgeCount
  <1>3. \A j, n : EdgeAt(start, j, n).to = j /\ EdgeAt(start, j, n).position = n
    BY DEF EdgeAt
  <1>4. \A e : (e \in EdgeSet /\ e.to = i) <=> \E n \in 0..(k - 1) : e = edge[n]
    <2>1. ASSUME NEW e, e \in EdgeSet, e.to = i
          PROVE  \E n \in 0..(k - 1) : e = edge[n]
      <3>1. PICK j \in DOMAIN start : \E n \in Positions(prog, j) : e = EdgeAt(start, j, n)
        BY <2>1, EdgesAreOperands
      <3>2. PICK n \in Positions(prog, j) : e = EdgeAt(start, j, n)  BY <3>1
      <3>3. j = i  BY <1>3, <2>1, <3>2
      <3>4. n \in 0..(k - 1)  BY <3>1, <3>2, <3>3 DEF Positions, EdgeCount
      <3> QED  BY <3>2, <3>3, <3>4
    <2>2. ASSUME NEW n \in 0..(k - 1)
          PROVE  edge[n] \in EdgeSet /\ edge[n].to = i
      <3>1. i \in DOMAIN start /\ n \in Positions(prog, i)
        BY <1>2, SMT DEF Positions, EdgeCount
      <3>2. EdgeAt(start, i, n) \in EdgeSet  BY <3>1, EdgesAreOperands
      <3> QED  BY <1>3, <3>2
    <2> HIDE DEF k, edge
    <2> QED  BY <2>1, <2>2
  <1>5. \A n \in 0..(k - 1) : edge[n].position = n  BY <1>3
  <1>6. \A n \in 1..k : edge[n - 1] = EdgeAt(start, i, n - 1)  BY <1>2
  <1> HIDE DEF k, edge
  <1>7. getEdges(EdgeSet, i) = [n \in 1..k |-> edge[n - 1]]
    <2>1. EdgesAre(EdgeSet, i, k, edge)  BY <1>4, <1>5 DEF EdgesAre
    <2> QED  BY <1>2, <2>1, EdgeList
  <1>8. getEdges(EdgeSet, i) = [n \in 1..k |-> EdgeAt(start, i, n - 1)]
    BY <1>6, <1>7
  <1> QED  BY <1>2, <1>8 DEF k

\* The instructions that pop nothing are the end of no edge.
LEMMA EdgesEndElsewhere ==
  ASSUME AnalysisInv, Analysed
  PROVE  \A e \in EdgeSet : prog.code[e.to].op \notin {"LOAD_FAST", "DELETE_FAST"}
  <1>1. ProgramAssumption(prog) /\ StatesOf(prog, start)
    BY AbsInterpAssumption DEF AnalysisInv
  <1> SUFFICES ASSUME NEW e \in EdgeSet
               PROVE  prog.code[e.to].op \notin {"LOAD_FAST", "DELETE_FAST"}
    OBVIOUS
  <1>2. PICK i \in DOMAIN start : \E n \in Positions(prog, i) : e = EdgeAt(start, i, n)
    BY EdgesAreOperands
  <1>3. PICK n \in Positions(prog, i) : e = EdgeAt(start, i, n)  BY <1>2
  <1>4. e.to = i  BY <1>3 DEF EdgeAt
  <1>5. i \in DOMAIN prog.code  BY <1>1 DEF StatesOf, StartsIn
  <1>6. prog.code[i].op \in Op  BY <1>1, <1>5, ProgramFacts
  <1>7. Pops(prog.code[i].op) # 0  BY <1>3, SMT DEF Positions
  <1> QED  BY <1>4, <1>6, <1>7, PopsOf

\* A local is unboxed in all its instructions or in none; arguments never are.
LEMMA LocalsTogether ==
  ASSUME AnalysisInv, Analysed, NEW edges, edges = EdgeSet, NEW escapeLocals \in BOOLEAN
  PROVE  LET g == deoptimizeInstructions(edges, fixInstructions(edges) \cup
                      (IF escapeLocals THEN fixLocals(edges) ELSE {}))
         IN  \E U \in SUBSET (prog.argcount..(prog.nlocals - 1)) : NativeAre(prog, g.escape, U)
  <1> DEFINE X == IF escapeLocals THEN fixLocals(edges) ELSE {}
             E == fixInstructions(edges) \cup X
             U == IF escapeLocals THEN unboxedFastLocals(edges) ELSE {}
             g == deoptimizeInstructions(edges, E)
  <1>1. ProgramAssumption(prog) /\ StatesOf(prog, start)
    BY AbsInterpAssumption DEF AnalysisInv
  <1>2. \A e \in edges : prog.code[e.to].op \notin {"LOAD_FAST", "DELETE_FAST"}
    BY EdgesEndElsewhere
  <1>3. Reduced(g.escape, E)  BY <1>1, <1>2, Deoptimized
  <1>4. U \subseteq prog.argcount..(prog.nlocals - 1)  BY DEF unboxedFastLocals
  <1>5. ASSUME NEW i \in DOMAIN prog.code, prog.code[i].op \in LocalOp
        PROVE  i \in E <=> prog.code[i].arg \in U
    <2>1. i \notin fixInstructions(edges)  BY <1>5 DEF fixInstructions, escapable
    <2>2. i \in fixLocals(edges) <=> prog.code[i].arg \in unboxedFastLocals(edges)
      BY <1>5 DEF fixLocals, Uses
    <2> QED  BY <2>1, <2>2
  <1> HIDE DEF E, U, g
  <1>6. NativeAre(prog, g.escape, U)  BY <1>3, <1>5 DEF NativeAre, Reduced
  <1>7. \E V \in SUBSET (prog.argcount..(prog.nlocals - 1)) : NativeAre(prog, g.escape, V)
    BY <1>4, <1>6
  <1> QED  BY <1>7 DEF g, E

LEMMA BodyIsGood ==
  ASSUME AnalysisInv, Analysed, NEW generic \in BOOLEAN
  PROVE  GoodBody(prog, start, Body(generic))
  <1> DEFINE g == deoptimizeInstructions(EdgeSet, fixInstructions(EdgeSet) \cup
                      (IF ~generic THEN fixLocals(EdgeSet) ELSE {}))
             operand(e) == [kind |-> e.kind, position |-> e.position,
                            escaped |-> transition(g.escape, e)]
             graph == Graph(~generic)
  <1>1. \E U \in SUBSET (prog.argcount..(prog.nlocals - 1)) : NativeAre(prog, g.escape, U)
    BY LocalsTogether
  <1>2. graph = [escape   |-> IF g.invalid THEN {} ELSE g.escape,
                 valid    |-> ~g.invalid,
                 operands |-> [i \in DOMAIN prog.code |->
                                  [n \in DOMAIN getEdges(EdgeSet, i) |->
                                      operand(getEdges(EdgeSet, i)[n])]]]
    BY Zenon DEF Graph
  <1> HIDE DEF g, graph
  <1>3. graph.escape \in {{}, g.escape}  BY <1>2
  <1>4. \E U \in SUBSET (prog.argcount..(prog.nlocals - 1)) : NativeAre(prog, graph.escape, U)
    <2>1. NativeAre(prog, {}, {})  BY DEF NativeAre
    <2> QED  BY <1>1, <1>3, <2>1
  <1>5. graph.operands = [i \in DOMAIN prog.code |-> [n \in DOMAIN getEdges(EdgeSet, i) |->
                                                         operand(getEdges(EdgeSet, i)[n])]]
    BY <1>2
  <1>6. DOMAIN graph.operands = DOMAIN prog.code  BY <1>5
  <1>7. ASSUME NEW i \in DOMAIN prog.code
        PROVE  OperandsFit(prog, start, i, graph.operands[i])
    <2> DEFINE ops == graph.operands[i]
               list == getEdges(EdgeSet, i)
               k == EdgeCount(prog, start, i)
    <2>1. k \in Nat /\ list = [n \in 1..k |-> EdgeAt(start, i, n - 1)]
      BY FittingEdges
    <2>2. ops = [n \in DOMAIN list |-> operand(list[n])]  BY <1>5
    <2> HIDE DEF list, ops, k
    <2>3. DOMAIN list = 1..k  BY <2>1
    <2>4. DOMAIN ops = 1..k /\ \A n \in 1..k : ops[n] = operand(list[n])  BY <2>2, <2>3
    <2>5. Len(ops) = k  BY <2>1, <2>4
    <2>6. \A n \in 1..k : /\ list[n].position = n - 1
                          /\ list[n].kind = Top(start[i], n - 1).kind
      BY <2>1 DEF EdgeAt
    <2>7. ASSUME NEW n \in 1..k
          PROVE  /\ ops[n].position = n - 1
                 /\ ops[n].kind = Top(start[i], n - 1).kind
                 /\ ops[n].escaped = "Unbox" => supportsEscaping(ops[n].kind)
      <3>1. ops[n].position = list[n].position /\ ops[n].kind = list[n].kind
            /\ ops[n].escaped = transition(g.escape, list[n])
        BY <2>4
      <3> QED  BY <2>6, <3>1, OnlyEscapedUnbox
    <2>8. i \notin DOMAIN start => ops = <<>>
      <3>1. i \notin DOMAIN start => k = 0  BY DEF EdgeCount, k
      <3>2. k = 0 => DOMAIN list = {}  BY <2>3
      <3> QED  BY <2>2, <3>1, <3>2
    <2> QED  BY <2>4, <2>5, <2>7, <2>8 DEF OperandsFit, k, ops
  <1>8. Body(generic).graph = graph  BY DEF Body, graph
  <1> QED  BY <1>4, <1>6, <1>7, <1>8 DEF GoodBody

LEMMA BodiesStep ==
  ASSUME AnalysisInv, BodiesInv, [Next]_vars
  PROVE  BodiesInv'
  <1>1. CASE Analyse
    <2>1. ~Analysed
      BY <1>1, SMT DEF Analyse, Interpret, NextBlock, Straight, Branch, Jump, Leave, Analysed
    <2>2. bodies' = bodies  BY <1>1 DEF Analyse
    <2> QED  BY <2>1, <2>2 DEF BodiesInv
  <1>2. CASE Compile
    <2>1. bodies' = [specialized |-> Body(FALSE), generic |-> Body(TRUE)] /\ Analysed
          /\ prog' = prog /\ start' = start /\ cur' = cur /\ queue' = queue
      BY <1>2 DEF Compile, absVars
    <2> DEFINE one == Body(FALSE)
               two == Body(TRUE)
    <2>2. GoodBody(prog, start, one) /\ GoodBody(prog, start, two)
      BY <2>1, BodyIsGood
    <2>3. bodies' = [specialized |-> one, generic |-> two]  BY <2>1
    <2> HIDE DEF one, two
    <2>5. DOMAIN bodies' = {"specialized", "generic"}
          /\ bodies'["specialized"] = one /\ bodies'["generic"] = two
      BY <2>3
    <2>6. Analysed'  BY <2>1 DEF Analysed
    <2>7. \A name \in DOMAIN bodies' : GoodBody(prog', start', bodies'[name])
      BY <2>1, <2>2, <2>5
    <2> QED  BY <2>5, <2>6, <2>7 DEF BodiesInv
  <1>3. CASE UNCHANGED <<absVars, bodies>>
    <2>1. prog' = prog /\ start' = start /\ cur' = cur /\ queue' = queue /\ bodies' = bodies
      BY <1>3 DEF absVars
    <2>2. Analysed' = Analysed  BY <2>1 DEF Analysed
    <2> QED  BY <2>1, <2>2 DEF BodiesInv
  <1> QED  BY <1>1, <1>2, <1>3 DEF Next, Call, Execute, vars

LEMMA BodiesAlways == Spec => []BodiesInv
  <1>1. Init => BodiesInv  BY DEF Init, BodiesInv
  <1> QED  BY <1>1, AnalysisAlways, BodiesStep, PTL DEF Spec

\* emit_escape_edges pairs edges with operands by counting, and the count is right:
\* the constructor of the graph finds one edge for every operand of every
\* instruction that can be reached, in the order of the stack.
THEOREM EdgesAreCounted == Spec => []EdgesMatchOperands
  <1>1. BodiesInv => EdgesMatchOperands
    <2> SUFFICES ASSUME BodiesInv, bodies # <<>>,
                        NEW name \in DOMAIN bodies,
                        NEW i \in DOMAIN bodies[name].graph.operands,
                        bodies[name].graph.operands[i] # <<>>
                 PROVE  LET ops == bodies[name].graph.operands[i]
                        IN  /\ Len(ops) = Pops(prog.code[i].op)
                            /\ \A n \in DOMAIN ops : ops[n].position = n - 1
      BY DEF EdgesMatchOperands
    <2>1. GoodBody(prog, start, bodies[name])  BY DEF BodiesInv
    <2>2. OperandsFit(prog, start, i, bodies[name].graph.operands[i])  BY <2>1 DEF GoodBody
    <2> QED  BY <2>2 DEF OperandsFit, EdgeCount
  <1> QED  BY <1>1, BodiesAlways, PTL

-----------------------------------------------------------------------------
(* Values and the states that describe them *)

ValueKind == {"Integer", "Bool", "String"}
ValueType == [kind : ValueKind, boxed : BOOLEAN]

StackFits(s, stack) ==
    /\ Len(stack) = Len(s.stack)
    /\ \A n \in 1..Len(s.stack) : stack[n].kind \in Represented(s.stack[n].kind)

LocalFits(local, kind) ==
    kind \in Represented(local.kind) \cup (IF local.maybeUndefined THEN {"null"} ELSE {})

LocalsFit(p, s, python) == \A v \in 0..(p.nlocals - 1) : LocalFits(s.locals[v], python[v])

LEMMA RepresentedKinds ==
  /\ \A a, b \in Kind : Covers(a, b) => Represented(b) \subseteq Represented(a)
  /\ \A a \in Kind : Represented(a) \subseteq ValueKind
  /\ \A a \in ValueKind : a \in Represented(a) /\ a \in Represented("Any")
  BY SMT DEF Represented, Covers, Kind, ValueKind

\* The kinds that the analysis expects of the operators are those of the results.
LEMMA Operations ==
  ASSUME NEW s \in Kind, NEW t \in Kind, NEW a \in Represented(s), NEW b \in Represented(t)
  PROVE  /\ binaryAdd(a, b) # "Any" => /\ binaryAdd(a, b) \in Represented(binaryAdd(s, t))
                                       /\ binaryAdd(a, b) \in ValueKind
         /\ "Bool" \in Represented(compare(s, t))
  <1>1. a \in Kind /\ b \in Kind  BY SMT DEF Represented, Kind
  <1>2. (s = "Any" \/ s = a) /\ (t = "Any" \/ t = b)  BY SMT DEF Represented
  <1>3. binaryAdd(a, b) \in {"Integer", "String", "Any"}  BY <1>1, BinaryAdd
  <1>a. \A r \in {"Integer", "String"} : /\ r \in Represented(r) /\ r \in Represented("Any")
                                         /\ r \in ValueKind
    BY SMT DEF Represented, ValueKind
  <1>b. PICK sum : sum = binaryAdd(a, b)  OBVIOUS
  <1>4. ASSUME s = a, t = b, sum # "Any"
        PROVE  sum \in Represented(binaryAdd(s, t))
    BY <1>3, <1>4, <1>a, <1>b
  <1>5. ASSUME s = "Any" \/ t = "Any", sum # "Any"
        PROVE  sum \in Represented(binaryAdd(s, t))
    <2>1. ~(s \in Number /\ t \in Number) /\ ~(s = "String" /\ t = "String")
      BY <1>5, SMT DEF Number
    <2>2. binaryAdd(s, t) = "Any"  BY <2>1, BinaryAdd
    <2> QED  BY <1>3, <1>5, <1>a, <1>b, <2>2
  <1>6. "Bool" \in Represented(compare(s, t))
    <2>1. compare(s, t) \in {"Bool", "Any"}  BY Compare
    <2> QED  BY <2>1, SMT DEF Represented
  <1> QED  BY <1>2, <1>3, <1>4, <1>5, <1>6, <1>a, <1>b

LEMMA FitsAbove ==
  ASSUME NEW p, NEW s \in StateType(p), NEW t \in StateType(p), Above(p, t, s)
  PROVE  /\ \A stack : StackFits(s, stack) => StackFits(t, stack)
         /\ \A python : LocalsFit(p, s, python) => LocalsFit(p, t, python)
  <1>1. /\ s.stack \in Seq(SlotType) /\ t.stack \in Seq(SlotType)
        /\ s.locals \in [0..(p.nlocals - 1) -> LocalType]
        /\ t.locals \in [0..(p.nlocals - 1) -> LocalType]
    BY DEF StateType
  <1>2. Len(t.stack) = Len(s.stack)  BY DEF Above
  <1>3. ASSUME NEW n \in 1..Len(s.stack)
        PROVE  Represented(s.stack[n].kind) \subseteq Represented(t.stack[n].kind)
    <2>1. s.stack[n].kind \in Kind /\ t.stack[n].kind \in Kind
      <3>1. s.stack[n] \in SlotType /\ t.stack[n] \in SlotType  BY <1>1, <1>2, SMT
      <3> QED  BY <3>1, SMT DEF SlotType
    <2>2. Covers(t.stack[n].kind, s.stack[n].kind)  BY DEF Above
    <2> QED  BY <2>1, <2>2, RepresentedKinds
  <1>4. ASSUME NEW v \in 0..(p.nlocals - 1)
        PROVE  /\ Represented(s.locals[v].kind) \subseteq Represented(t.locals[v].kind)
               /\ s.locals[v].maybeUndefined => t.locals[v].maybeUndefined
    <2>1. s.locals[v].kind \in Kind /\ t.locals[v].kind \in Kind
      <3>1. s.locals[v] \in LocalType /\ t.locals[v] \in LocalType  BY <1>1, Zenon
      <3> QED  BY <3>1, SMT DEF LocalType
    <2>2. Covers(t.locals[v].kind, s.locals[v].kind)  BY DEF Above
    <2>3. s.locals[v].maybeUndefined => t.locals[v].maybeUndefined  BY DEF Above
    <2> QED  BY <2>1, <2>2, <2>3, RepresentedKinds
  <1> QED  BY <1>2, <1>3, <1>4 DEF StackFits, LocalsFit, LocalFits

LEMMA FitsRest ==
  ASSUME NEW p, NEW s \in StateType(p), NEW stack \in Seq(ValueType), StackFits(s, stack),
         NEW k \in 0..Len(s.stack)
  PROVE  LET left == SubSeq(stack, 1, Len(stack) - k)
         IN  left \in Seq(ValueType) /\ StackFits(Pop(s, k), left)
  <1>1. Len(s.stack) \in Nat  BY SMT DEF StateType
  <1>2. Len(stack) = Len(s.stack) /\ \A n \in 1..Len(s.stack) :
                                         stack[n].kind \in Represented(s.stack[n].kind)
    BY DEF StackFits
  <1>3. Len(Pop(s, k).stack) = Len(s.stack) - k
        /\ \A n \in 1..(Len(s.stack) - k) : Pop(s, k).stack[n] = s.stack[n]
    BY PoppedState
  <1>4. PICK left : left = SubSeq(stack, 1, Len(stack) - k)  OBVIOUS
  <1>5. left \in Seq(ValueType) /\ Len(left) = Len(s.stack) - k
        /\ \A n \in 1..(Len(s.stack) - k) : left[n] = stack[n]
    BY <1>1, <1>2, <1>4, SMT
  <1>6. StackFits(Pop(s, k), left)  BY <1>1, <1>2, <1>3, <1>5 DEF StackFits
  <1> QED  BY <1>4, <1>5, <1>6

LEMMA FitsPush ==
  ASSUME NEW p, NEW s \in StateType(p), NEW stack \in Seq(ValueType), StackFits(s, stack),
         NEW slot \in SlotType, NEW value \in ValueType, value.kind \in Represented(slot.kind)
  PROVE  Append(stack, value) \in Seq(ValueType) /\ StackFits(Push(s, slot), Append(stack, value))
  <1>1. Len(s.stack) \in Nat  BY SMT DEF StateType
  <1>2. Len(stack) = Len(s.stack) /\ \A n \in 1..Len(s.stack) :
                                         stack[n].kind \in Represented(s.stack[n].kind)
    BY DEF StackFits
  <1>3. PICK t : t = Push(s, slot)  OBVIOUS
  <1>4. Len(t.stack) = Len(s.stack) + 1 /\ t.stack[Len(s.stack) + 1] = slot
        /\ \A n \in 1..Len(s.stack) : t.stack[n] = s.stack[n]
    BY <1>3, PushedState
  <1>5. PICK more : more = Append(stack, value)  OBVIOUS
  <1>6. more \in Seq(ValueType) /\ Len(more) = Len(s.stack) + 1
        /\ more[Len(s.stack) + 1] = value
        /\ \A n \in 1..Len(s.stack) : more[n] = stack[n]
    BY <1>1, <1>2, <1>5, SMT
  <1>7. ASSUME NEW n \in 1..(Len(s.stack) + 1)
        PROVE  more[n].kind \in Represented(t.stack[n].kind)
    <2>1. n \in 1..Len(s.stack) \/ n = Len(s.stack) + 1  BY <1>1, SMT
    <2> QED  BY <1>2, <1>4, <1>6, <2>1
  <1>8. StackFits(t, more)  BY <1>4, <1>6, <1>7 DEF StackFits
  <1> QED  BY <1>3, <1>5, <1>6, <1>8

-----------------------------------------------------------------------------
(* Running *)

\* Where control goes from i, the start states of p expect what i leaves there.
Expected(p, states, j, s) ==
    /\ j \in DOMAIN states /\ s \in StateType(p) /\ states[j] \in StateType(p)
    /\ Above(p, states[j], s)

LEMMA Successors ==
  ASSUME AnalysisInv, Analysed, NEW i \in DOMAIN start
  PROVE  LET ins == prog.code[i]
         IN  /\ StartsIn(prog, i, start[i]) /\ IsState(prog, i, start[i])
             /\ ProgramAssumption(prog) /\ i \in DOMAIN prog.code
             /\ FallsThrough(ins.op) => Expected(prog, start, i + 1, After(ins, i, start[i]))
             /\ Jumps(ins.op) => Expected(prog, start, ins.arg, AtTarget(ins, i, start[i]))
  <1>1. StatesOf(prog, start) /\ NoneForgotten(prog, start, consumers, queue, cur)
        /\ cur = 0 /\ queue = <<>> /\ ProgramAssumption(prog)
    BY AbsInterpAssumption DEF AnalysisInv, Analysed
  <1>2. StartsIn(prog, i, start[i])  BY <1>1 DEF StatesOf
  <1>3. i \in DOMAIN prog.code /\ IsState(prog, i, start[i])  BY <1>2 DEF StartsIn
  <1>4. Settled(prog, i, start, consumers)
    <2>1. i # 0  BY <1>1, <1>3, ProgramFacts, SMT
    <2>2. ~Queued(queue, i)  BY <1>1, SMT DEF Queued
    <2> QED  BY <1>1, <2>1, <2>2 DEF NoneForgotten
  <1>5. \A j \in DOMAIN start : start[j] \in StateType(prog)
    BY <1>1 DEF StatesOf, StartsIn, IsState
  <1>6. ASSUME FallsThrough(prog.code[i].op)
        PROVE  Expected(prog, start, i + 1, After(prog.code[i], i, start[i]))
    <2>1. StartsIn(prog, i + 1, After(prog.code[i], i, start[i]))
      BY <1>2, <1>6, NextStartsIn
    <2> QED  BY <1>4, <1>5, <1>6, <2>1 DEF Expected, Settled, StartsIn, IsState
  <1>7. ASSUME Jumps(prog.code[i].op)
        PROVE  Expected(prog, start, prog.code[i].arg, AtTarget(prog.code[i], i, start[i]))
    <2>1. StartsIn(prog, prog.code[i].arg, AtTarget(prog.code[i], i, start[i]))
      BY <1>2, <1>7, TargetStartsIn
    <2> QED  BY <1>4, <1>5, <1>7, <2>1 DEF Expected, Settled, StartsIn, IsState
  <1> QED  BY <1>1, <1>2, <1>3, <1>6, <1>7

\* A frame is a record of a call.
Fields == {"end", "body", "pc", "stack", "fast", "native", "python"}
HasFields(f) == f = [a \in Fields |-> f[a]]

\* The call goes on in frame r.
GoesOn(f, r, pc, stack, fast, native, python) ==
    /\ HasFields(r) /\ r.end = f.end /\ r.body = f.body /\ r.pc = pc /\ r.stack = stack
    /\ r.fast = fast /\ r.native = native /\ r.python = python

Ends(f, r, how) == HasFields(r) /\ r.end = how /\ r.body = f.body

LEMMA Ended ==
  ASSUME NEW f, HasFields(f), NEW h, NEW r, r = [f EXCEPT !.end = h]
  PROVE  Ends(f, r, h)
  <1>1. HasFields(r)  BY Zenon DEF HasFields, Fields
  <1>2. r.end = h /\ r.body = f.body  BY DEF HasFields, Fields
  <1> QED  BY <1>1, <1>2 DEF Ends

LEMMA Moved ==
  ASSUME NEW f, HasFields(f), NEW i, NEW t, NEW r, r = [f EXCEPT !.pc = i, !.stack = t]
  PROVE  GoesOn(f, r, i, t, f.fast, f.native, f.python)
  BY DEF HasFields, Fields, GoesOn

LEMMA StoredNative ==
  ASSUME NEW f, HasFields(f), NEW i, NEW t, NEW v, NEW y, NEW r,
         r = [f EXCEPT !.pc = i, !.stack = t, !.native[v] = y, !.python[v] = y]
  PROVE  GoesOn(f, r, i, t, f.fast, [f.native EXCEPT ![v] = y], [f.python EXCEPT ![v] = y])
  BY DEF HasFields, Fields, GoesOn

LEMMA StoredFast ==
  ASSUME NEW f, HasFields(f), NEW i, NEW t, NEW v, NEW y, NEW r,
         r = [f EXCEPT !.pc = i, !.stack = t, !.fast[v] = y, !.python[v] = y]
  PROVE  GoesOn(f, r, i, t, [f.fast EXCEPT ![v] = y], f.native, [f.python EXCEPT ![v] = y])
  BY DEF HasFields, Fields, GoesOn

LEMMA DeletedNative ==
  ASSUME NEW f, HasFields(f), NEW i, NEW v, NEW y, NEW r,
         r = [f EXCEPT !.pc = i, !.python[v] = y]
  PROVE  GoesOn(f, r, i, f.stack, f.fast, f.native, [f.python EXCEPT ![v] = y])
  BY DEF HasFields, Fields, GoesOn

LEMMA DeletedFast ==
  ASSUME NEW f, HasFields(f), NEW i, NEW v, NEW y, NEW r,
         r = [f EXCEPT !.pc = i, !.fast[v] = y, !.python[v] = y]
  PROVE  GoesOn(f, r, i, f.stack, [f.fast EXCEPT ![v] = y], f.native,
                [f.python EXCEPT ![v] = y])
  BY DEF HasFields, Fields, GoesOn

\* What a step of the running call does to the frame.
LEMMA FrameSteps ==
  ASSUME HasFields(frame)
  PROVE  /\ \A how : Stop(how) => Ends(frame, frame', how)
         /\ \A i, pushed : Goto(i, pushed) =>
                GoesOn(frame, frame', i, Left(pushed), frame.fast, frame.native, frame.python)
         /\ StoreFast =>
                LET v == Ins.arg
                    kind == Converted(0).kind
                IN  \/ /\ Escaped
                       /\ GoesOn(frame, frame', frame.pc + 1, Left(<<>>), frame.fast,
                                 [frame.native EXCEPT ![v] = kind],
                                 [frame.python EXCEPT ![v] = kind])
                    \/ /\ ~Escaped
                       /\ GoesOn(frame, frame', frame.pc + 1, Left(<<>>),
                                 [frame.fast EXCEPT ![v] = kind], frame.native,
                                 [frame.python EXCEPT ![v] = kind])
         /\ DeleteFast =>
                LET v == Ins.arg
                IN  \/ \E how \in {"unbound", "UnboundLocalError"} : Ends(frame, frame', how)
                    \/ /\ Escaped
                       /\ GoesOn(frame, frame', frame.pc + 1, frame.stack, frame.fast,
                                 frame.native, [frame.python EXCEPT ![v] = "null"])
                    \/ /\ ~Escaped
                       /\ GoesOn(frame, frame', frame.pc + 1, frame.stack,
                                 [frame.fast EXCEPT ![v] = "null"], frame.native,
                                 [frame.python EXCEPT ![v] = "null"])
  <1>1. \A how : Stop(how) => Ends(frame, frame', how)
    BY Ended, Zenon DEF Stop
  <1>2. ASSUME NEW i, NEW pushed, Goto(i, pushed)
        PROVE  GoesOn(frame, frame', i, Left(pushed), frame.fast, frame.native, frame.python)
    BY <1>2, Moved, Zenon DEF Goto
  <1>3. ASSUME StoreFast
        PROVE  LET v == Ins.arg
                   kind == Converted(0).kind
               IN  \/ /\ Escaped
                      /\ GoesOn(frame, frame', frame.pc + 1, Left(<<>>), frame.fast,
                                [frame.native EXCEPT ![v] = kind],
                                [frame.python EXCEPT ![v] = kind])
                   \/ /\ ~Escaped
                      /\ GoesOn(frame, frame', frame.pc + 1, Left(<<>>),
                                [frame.fast EXCEPT ![v] = kind], frame.native,
                                [frame.python EXCEPT ![v] = kind])
    BY <1>3, StoredNative, StoredFast, Zenon DEF StoreFast
  <1>4. ASSUME DeleteFast
        PROVE  LET v == Ins.arg
               IN  \/ \E how \in {"unbound", "UnboundLocalError"} : Ends(frame, frame', how)
                   \/ /\ Escaped
                      /\ GoesOn(frame, frame', frame.pc + 1, frame.stack, frame.fast,
                                frame.native, [frame.python EXCEPT ![v] = "null"])
                   \/ /\ ~Escaped
                      /\ GoesOn(frame, frame', frame.pc + 1, frame.stack,
                                [frame.fast EXCEPT ![v] = "null"], frame.native,
                                [frame.python EXCEPT ![v] = "null"])
    BY <1>1, <1>4, DeletedNative, DeletedFast, Zenon DEF DeleteFast
  <1> QED  BY <1>1, <1>2, <1>3, <1>4

\* The body that is running never changes.
KeepsBody == HasFields(frame') /\ frame'.body = frame.body

LEMMA StaysInBody ==
  ASSUME HasFields(frame), Execute
  PROVE  KeepsBody
  <1>1. ASSUME NEW how, Ends(frame, frame', how)
        PROVE  KeepsBody
    BY <1>1 DEF Ends, KeepsBody
  <1>2. ASSUME NEW c, NEW s, NEW x, NEW n, NEW y, GoesOn(frame, frame', c, s, x, n, y)
        PROVE  KeepsBody
    BY <1>2 DEF GoesOn, KeepsBody
  <1>3. ASSUME NEW how, Stop(how)
        PROVE  KeepsBody
    BY <1>1, <1>3, FrameSteps
  <1>4. ASSUME NEW i, NEW pushed, Goto(i, pushed)
        PROVE  KeepsBody
    BY <1>2, <1>4, FrameSteps
  <1>5. ASSUME NEW pushed, Continue(pushed)
        PROVE  KeepsBody
    BY <1>4, <1>5 DEF Continue
  <1>6. StoreFast => KeepsBody  BY <1>2, FrameSteps
  <1>7. DeleteFast => KeepsBody  BY <1>1, <1>2, FrameSteps
  <1>8. Operate => KeepsBody  BY <1>3, <1>5 DEF Operate
  <1>9. Load \/ LoadFast \/ Shuffle \/ Follow => KeepsBody
    BY <1>3, <1>4, <1>5 DEF Load, LoadFast, Shuffle, Follow
  <1> QED  BY <1>3, <1>6, <1>7, <1>8, <1>9 DEF Execute

\* Frame f of the specialised body, whose locals in U are unboxed: its values are
\* what the start state of its next instruction says.
Follows(p, states, U, f) ==
    /\ f.pc \in DOMAIN states
    /\ f.stack \in Seq(ValueType) /\ StackFits(states[f.pc], f.stack)
    /\ LocalsFit(p, states[f.pc], f.python)
    /\ f.fast \in [0..(p.nlocals - 1) -> ValueKind \cup {"null"}]
    /\ f.native \in [0..(p.nlocals - 1) -> ValueKind \cup {"null"}]
    /\ f.python \in [0..(p.nlocals - 1) -> ValueKind \cup {"null"}]
    /\ \A v \in 0..(p.nlocals - 1) :
           /\ v \in U => f.python[v] \in {"null", f.native[v]}
           /\ v \notin U => f.fast[v] = f.python[v]

FrameInv ==
    \/ frame = NoFrame
    \/ /\ HasFields(frame) /\ bodies # <<>>
       /\ frame.body \in {"specialized", "generic"}
       /\ frame.body = "specialized" =>
              /\ frame.end # "UnboxingError"
              /\ frame.end = "running" =>
                     \E U \in SUBSET (prog.argcount..(prog.nlocals - 1)) :
                         /\ NativeAre(prog, bodies["specialized"].graph.escape, U)
                         /\ Follows(prog, start, U, frame)

\* The specialised body is running.
OnTrack(U) ==
    /\ AnalysisInv /\ BodiesInv /\ bodies # <<>> /\ HasFields(frame)
    /\ frame.body = "specialized" /\ frame.end = "running"
    /\ NativeAre(prog, bodies["specialized"].graph.escape, U)
    /\ Follows(prog, start, U, frame)

LEMMA OnTrackFacts ==
  ASSUME NEW U, OnTrack(U)
  PROVE  LET i == frame.pc
             s == start[i]
             d == prog.depth[i]
         IN  /\ i \in DOMAIN start /\ i \in DOMAIN prog.code /\ Ins = prog.code[i]
             /\ ProgramAssumption(prog) /\ InstructionAssumption(prog, i, Ins)
             /\ s \in StateType(prog) /\ IsState(prog, i, s) /\ d \in Nat /\ i \in Nat
             /\ Len(s.stack) = d /\ Len(frame.stack) = d /\ Ins.op \in Op
             /\ Pops(Ins.op) \in 0..2 /\ Pops(Ins.op) <= d
             /\ FallsThrough(Ins.op) => Expected(prog, start, i + 1, After(Ins, i, s))
             /\ Jumps(Ins.op) => Expected(prog, start, Ins.arg, AtTarget(Ins, i, s))
             /\ GoodBody(prog, start, bodies["specialized"])
  <1> DEFINE i == frame.pc
             s == start[i]
  <1>1. AnalysisInv /\ BodiesInv /\ bodies # <<>> /\ Follows(prog, start, U, frame)
    BY DEF OnTrack
  <1>2. Analysed /\ GoodBody(prog, start, bodies["specialized"])  BY <1>1 DEF BodiesInv
  <1>3. i \in DOMAIN start /\ StackFits(s, frame.stack)  BY <1>1 DEF Follows
  <1>4. /\ StartsIn(prog, i, s) /\ IsState(prog, i, s)
        /\ ProgramAssumption(prog) /\ i \in DOMAIN prog.code
        /\ FallsThrough(prog.code[i].op) =>
               Expected(prog, start, i + 1, After(prog.code[i], i, s))
        /\ Jumps(prog.code[i].op) =>
               Expected(prog, start, prog.code[i].arg, AtTarget(prog.code[i], i, s))
    BY <1>1, <1>2, <1>3, Successors
  <1>5. s \in StateType(prog) /\ Len(s.stack) = prog.depth[i]  BY <1>4 DEF IsState
  <1>6. Len(frame.stack) = prog.depth[i]  BY <1>3, <1>5 DEF StackFits
  <1>7. /\ prog.depth[i] \in Nat /\ prog.code[i].op \in Op /\ i \in Nat
        /\ Pops(prog.code[i].op) <= prog.depth[i]
        /\ InstructionAssumption(prog, i, prog.code[i])
    BY <1>4, ProgramFacts
  <1>8. Pops(prog.code[i].op) \in 0..2  BY <1>7, PopsOf
  <1>9. Ins = prog.code[i]  BY DEF Ins
  <1> QED  BY <1>2, <1>3, <1>4, <1>5, <1>6, <1>7, <1>8, <1>9

LEMMA OperandFits ==
  ASSUME NEW U, OnTrack(U), NEW n \in 0..(Pops(Ins.op) - 1)
  PROVE  LET kind == Top(start[frame.pc], n).kind
         IN  /\ Operand(n) \in ValueType /\ Operand(n).kind \in Represented(kind)
             /\ Operand(n).kind \in ValueKind /\ kind \in Kind
  <1> DEFINE i == frame.pc
             s == start[i]
             d == prog.depth[i]
  <1>1. /\ i \in DOMAIN prog.code /\ ProgramAssumption(prog) /\ IsState(prog, i, s)
        /\ d \in Nat /\ Len(s.stack) = d /\ Len(frame.stack) = d
        /\ Pops(Ins.op) \in 0..2 /\ Pops(Ins.op) <= d
    BY OnTrackFacts
  <1>2. frame.stack \in Seq(ValueType)
        /\ \A m \in 1..Len(s.stack) : frame.stack[m].kind \in Represented(s.stack[m].kind)
    BY DEF OnTrack, Follows, StackFits
  <1> HIDE DEF d, s, i
  <1>3. n \in 0..(d - 1) /\ d - n \in 1..d  BY <1>1, SMT
  <1>4. Top(s, n) = s.stack[d - n] /\ Top(s, n).kind \in Kind
    BY <1>1, <1>3, OperandSlots DEF d
  <1>5. Operand(n) = frame.stack[d - n]  BY <1>1 DEF Operand
  <1>6. Operand(n) \in ValueType  BY <1>1, <1>2, <1>3, <1>5, SMT
  <1>7. Operand(n).kind \in ValueKind  BY <1>6, SMT DEF ValueType
  <1>8. Operand(n).kind \in Represented(Top(s, n).kind)
    BY <1>1, <1>2, <1>3, <1>4, <1>5
  <1> QED  BY <1>4, <1>6, <1>7, <1>8 DEF s, i

LEMMA TypedValue ==
  ASSUME NEW kind \in ValueKind, NEW boxed \in BOOLEAN
  PROVE  Value(kind, boxed) \in ValueType /\ Value(kind, boxed).kind = kind
  BY DEF Value, ValueType

\* In the specialised body a transition changes no kind, and never fails to unbox.
LEMMA Conversions ==
  ASSUME NEW U, OnTrack(U)
  PROVE  /\ ~GuardFails
         /\ \A n \in 0..(Pops(Ins.op) - 1) :
                Converted(n) \in ValueType /\ Converted(n).kind = Operand(n).kind
  <1> DEFINE i == frame.pc
             s == start[i]
             k == Pops(Ins.op)
             ops == bodies["specialized"].graph.operands[i]
  <1>1. i \in DOMAIN start /\ i \in DOMAIN prog.code /\ Ins = prog.code[i] /\ k \in 0..2
        /\ GoodBody(prog, start, bodies["specialized"])
    BY OnTrackFacts
  <1>2. EdgeCount(prog, start, i) = k  BY <1>1 DEF EdgeCount
  <1>3. OperandsFit(prog, start, i, ops)  BY <1>1 DEF GoodBody
  <1>4. /\ DOMAIN ops = 1..k
        /\ \A m \in 1..k : /\ ops[m].kind = Top(s, m - 1).kind
                           /\ ops[m].escaped = "Unbox" => supportsEscaping(ops[m].kind)
    BY <1>2, <1>3 DEF OperandsFit
  <1>5. Transitions \in {ops, <<>>}  BY DEF Transitions, OnTrack
  <1> HIDE DEF k, s, i, ops
  <1>6. DOMAIN <<>> = {}  OBVIOUS
  <1>7. ASSUME NEW m \in Transitioned("Unbox")
        PROVE  /\ m \in 1..k /\ m - 1 \in 0..(k - 1)
               /\ Operand(m - 1).kind = Transitions[m].kind
               /\ Transitions[m].kind \in ValueKind
    <2>1. m \in DOMAIN Transitions /\ Transitions[m].escaped = "Unbox"  BY DEF Transitioned
    <2>2. Transitions = ops  BY <1>5, <1>6, <2>1
    <2>3. m \in 1..k /\ m - 1 \in 0..(k - 1)  BY <1>1, <1>4, <2>1, <2>2, SMT
    <2>4. ops[m].kind = Top(s, m - 1).kind /\ ops[m].kind \in {"Integer", "Bool"}
      BY <1>4, <2>1, <2>2, <2>3 DEF supportsEscaping
    <2>5. Operand(m - 1).kind \in Represented(Top(s, m - 1).kind)
      BY <2>3, OperandFits DEF k, s, i
    <2>6. \A kind \in {"Integer", "Bool"} : Represented(kind) = {kind} /\ kind \in ValueKind
      BY SMT DEF Represented, ValueKind
    <2> QED  BY <2>2, <2>3, <2>4, <2>5, <2>6
  <1>8. ~GuardFails  BY <1>7 DEF GuardFails
  <1>9. ASSUME NEW n \in 0..(k - 1)
        PROVE  Converted(n) \in ValueType /\ Converted(n).kind = Operand(n).kind
    <2>1. n + 1 - 1 = n  BY <1>1
    <2>2. Operand(n) \in ValueType /\ Operand(n).kind \in ValueKind
      BY OperandFits DEF k
    <2>3. CASE n + 1 \in Transitioned("Unbox")
      <3>1. Operand(n).kind = Transitions[n + 1].kind /\ Transitions[n + 1].kind \in ValueKind
        BY <1>7, <2>1, <2>3
      <3>2. Converted(n) = Value(Transitions[n + 1].kind, FALSE)  BY <2>3 DEF Converted
      <3> QED  BY <3>1, <3>2, TypedValue
    <2>4. CASE n + 1 \notin Transitioned("Unbox") /\ n + 1 \in Transitioned("Box")
      <3>1. Converted(n) = Value(Operand(n).kind, TRUE)  BY <2>4 DEF Converted
      <3> QED  BY <2>2, <3>1, TypedValue
    <2>5. CASE n + 1 \notin Transitioned("Unbox") /\ n + 1 \notin Transitioned("Box")
      <3>1. Converted(n) = Operand(n)  BY <2>5 DEF Converted
      <3> QED  BY <2>2, <3>1
    <2> QED  BY <2>3, <2>4, <2>5
  <1> QED  BY <1>8, <1>9 DEF k

\* What is left of the stack is described by what is left of the state.
LEMMA Leftovers ==
  ASSUME NEW U, OnTrack(U)
  PROVE  LET s == start[frame.pc]
             rest == Pop(s, Pops(Ins.op))
         IN  /\ rest \in StateType(prog) /\ rest.locals = s.locals
             /\ Pops(Ins.op) = 0 => rest = s /\ Left(<<>>) = frame.stack
             /\ Left(<<>>) \in Seq(ValueType) /\ StackFits(rest, Left(<<>>))
             /\ \A value \in ValueType : Left(<<value>>) = Append(Left(<<>>), value)
             /\ \A value \in ValueType :
                    Left(<<value, value>>) = Append(Append(Left(<<>>), value), value)
  <1> DEFINE s == start[frame.pc]
             k == Pops(Ins.op)
             rest == Pop(s, k)
             left == SubSeq(frame.stack, 1, Len(frame.stack) - k)
  <1>1. s \in StateType(prog) /\ k \in 0..Len(s.stack) /\ Len(s.stack) \in Nat
    BY OnTrackFacts
  <1>2. frame.stack \in Seq(ValueType) /\ StackFits(s, frame.stack)  BY DEF OnTrack, Follows
  <1>3. rest \in StateType(prog) /\ rest.locals = s.locals  BY <1>1, PoppedState
  <1>4. left \in Seq(ValueType) /\ StackFits(rest, left)  BY <1>1, <1>2, FitsRest
  <1>5. /\ Left(<<>>) = left \o <<>>
        /\ \A value : Left(<<value>>) = left \o <<value>>
        /\ \A value : Left(<<value, value>>) = left \o <<value, value>>
    BY DEF Left
  <1>6. ASSUME k = 0
        PROVE  rest = s /\ left = frame.stack
    <2>1. s = [stack |-> s.stack, locals |-> s.locals] /\ s.stack \in Seq(SlotType)
      BY <1>1, SMT DEF StateType
    <2>2. SubSeq(s.stack, 1, Len(s.stack) - k) = s.stack  BY <1>6, <2>1, SMT
    <2>3. rest = [s EXCEPT !.stack = s.stack]  BY <2>2 DEF Pop
    <2>4. rest = s  BY <2>1, <2>3, RecordUpdate
    <2>5. left = frame.stack  BY <1>2, <1>6, SMT
    <2> QED  BY <2>4, <2>5
  <1> HIDE DEF left, rest
  <1>7. left \o <<>> = left  BY <1>4, SMT
  <1>8. ASSUME NEW value \in ValueType
        PROVE  /\ left \o <<value>> = Append(left, value)
               /\ left \o <<value, value>> = Append(Append(left, value), value)
    BY <1>4, SMT
  <1> QED  BY <1>3, <1>4, <1>5, <1>6, <1>7, <1>8 DEF rest

\* Wherever the call goes on, its values are what is expected there.
LEMMA Arrives ==
  ASSUME NEW U, NEW j, NEW t, Expected(prog, start, j, t),
         NEW stack \in Seq(ValueType), StackFits(t, stack),
         NEW fast \in [0..(prog.nlocals - 1) -> ValueKind \cup {"null"}],
         NEW native \in [0..(prog.nlocals - 1) -> ValueKind \cup {"null"}],
         NEW python \in [0..(prog.nlocals - 1) -> ValueKind \cup {"null"}],
         LocalsFit(prog, t, python),
         \A v \in 0..(prog.nlocals - 1) : /\ v \in U => python[v] \in {"null", native[v]}
                                          /\ v \notin U => fast[v] = python[v],
         GoesOn(frame, frame', j, stack, fast, native, python)
  PROVE  Follows(prog, start, U, frame')
  <1>1. j \in DOMAIN start /\ t \in StateType(prog) /\ start[j] \in StateType(prog)
        /\ Above(prog, start[j], t)
    BY DEF Expected
  <1>2. StackFits(start[j], stack) /\ LocalsFit(prog, start[j], python)  BY <1>1, FitsAbove
  <1>3. PICK f : f = frame'  OBVIOUS
  <1>4. f.pc = j /\ f.stack = stack /\ f.fast = fast /\ f.native = native /\ f.python = python
    BY <1>3 DEF GoesOn
  <1>5. Follows(prog, start, U, f)  BY <1>1, <1>2, <1>4 DEF Follows
  <1> QED  BY <1>3, <1>5

LEMMA GoesWithStack ==
  ASSUME NEW U, OnTrack(U), NEW j, NEW t, Expected(prog, start, j, t),
         t.locals = start[frame.pc].locals,
         NEW pushed, Left(pushed) \in Seq(ValueType), StackFits(t, Left(pushed)), Goto(j, pushed)
  PROVE  Follows(prog, start, U, frame')
  <1>1. /\ Follows(prog, start, U, frame) /\ HasFields(frame)  BY DEF OnTrack
  <1>2. /\ LocalsFit(prog, start[frame.pc], frame.python)
        /\ frame.fast \in [0..(prog.nlocals - 1) -> ValueKind \cup {"null"}]
        /\ frame.native \in [0..(prog.nlocals - 1) -> ValueKind \cup {"null"}]
        /\ frame.python \in [0..(prog.nlocals - 1) -> ValueKind \cup {"null"}]
        /\ \A v \in 0..(prog.nlocals - 1) :
               /\ v \in U => frame.python[v] \in {"null", frame.native[v]}
               /\ v \notin U => frame.fast[v] = frame.python[v]
    BY <1>1 DEF Follows
  <1>3. LocalsFit(prog, t, frame.python)  BY <1>2 DEF LocalsFit
  <1>4. GoesOn(frame, frame', j, Left(pushed), frame.fast, frame.native, frame.python)
    BY <1>1, FrameSteps
  <1> QED  BY <1>2, <1>3, <1>4, Arrives

LEMMA GoesWithout ==
  ASSUME NEW U, OnTrack(U), NEW j,
         Expected(prog, start, j, Pop(start[frame.pc], Pops(Ins.op))), Goto(j, <<>>)
  PROVE  Follows(prog, start, U, frame')
  BY Leftovers, GoesWithStack

LEMMA GoesWithResult ==
  ASSUME NEW U, OnTrack(U), NEW j, NEW kind \in Kind, NEW value \in ValueType,
         value.kind \in Represented(kind),
         Expected(prog, start, j, Push(Pop(start[frame.pc], Pops(Ins.op)), Slot(kind, frame.pc, 0))),
         Goto(j, <<value>>)
  PROVE  Follows(prog, start, U, frame')
  <1> DEFINE s == start[frame.pc]
             rest == Pop(s, Pops(Ins.op))
             slot == Slot(kind, frame.pc, 0)
             t == Push(rest, slot)
  <1>1. /\ rest \in StateType(prog) /\ rest.locals = s.locals
        /\ Left(<<>>) \in Seq(ValueType) /\ StackFits(rest, Left(<<>>))
        /\ Left(<<value>>) = Append(Left(<<>>), value)
    BY Leftovers
  <1>2. slot \in SlotType /\ slot.kind = kind
    <2>1. frame.pc \in Nat  BY OnTrackFacts
    <2> QED  BY <2>1, NewSlot
  <1> HIDE DEF rest, slot, s
  <1>3. t.locals = s.locals  BY <1>1, <1>2, PushedState
  <1>4. Left(<<value>>) \in Seq(ValueType) /\ StackFits(t, Left(<<value>>))
    BY <1>1, <1>2, FitsPush
  <1>5. Expected(prog, start, j, t)  BY DEF rest, slot, s
  <1> HIDE DEF t
  <1> QED  BY <1>3, <1>4, <1>5, GoesWithStack DEF s

\* The specialised body goes on as the analysis expects, or ends, but not with a
\* value that cannot be unboxed.
StaysRight(U) == /\ frame'.end # "UnboxingError"
                 /\ frame'.end = "running" => Follows(prog, start, U, frame')

LEMMA Stops ==
  ASSUME NEW U, OnTrack(U), NEW how, Stop(how), how \notin {"running", "UnboxingError"}
  PROVE  StaysRight(U)
  <1>1. Ends(frame, frame', how)  BY FrameSteps DEF OnTrack
  <1> QED  BY <1>1 DEF Ends, StaysRight

LEMMA GoesRight ==
  ASSUME NEW U, OnTrack(U), Follows(prog, start, U, frame'),
         (\E i, pushed : Goto(i, pushed)) \/ (\E i, s, x, n, y : GoesOn(frame, frame', i, s, x, n, y))
  PROVE  StaysRight(U)
  <1>1. HasFields(frame) /\ frame.end = "running"  BY DEF OnTrack
  <1>2. \E i, s, x, n, y : GoesOn(frame, frame', i, s, x, n, y)  BY <1>1, FrameSteps
  <1>3. frame'.end = "running"  BY <1>1, <1>2 DEF GoesOn
  <1> QED  BY <1>3 DEF StaysRight

LEMMA LoadStep ==
  ASSUME NEW U, OnTrack(U), Load
  PROVE  StaysRight(U)
  <1> DEFINE i == frame.pc
             s == start[i]
  <1>1. /\ InstructionAssumption(prog, i, Ins) /\ Ins.op \in Op
        /\ FallsThrough(Ins.op) => Expected(prog, start, i + 1, After(Ins, i, s))
    BY OnTrackFacts
  <1>2. Ins.op \in {"LOAD_CONST", "LOAD_GLOBAL"}  BY DEF Load
  <1>3. Pop(s, Pops(Ins.op)) = s
    <2>1. Pops(Ins.op) = 0  BY <1>1, <1>2, PopsOf
    <2> QED  BY <2>1, Leftovers
  <1>4. Expected(prog, start, i + 1, After(Ins, i, s))
    BY <1>1, <1>2, SMT DEF FallsThrough
  <1> HIDE DEF i, s
  <1>5. ASSUME NEW kind \in Kind, NEW value \in ValueType, value.kind \in Represented(kind),
               After(Ins, i, s) = Push(s, Slot(kind, i, 0)), Continue(<<value>>)
        PROVE  StaysRight(U)
    <2>1. Goto(i + 1, <<value>>)  BY <1>5 DEF Continue, i
    <2>2. Expected(prog, start, i + 1, Push(Pop(s, Pops(Ins.op)), Slot(kind, i, 0)))
      BY <1>3, <1>4, <1>5
    <2>3. Follows(prog, start, U, frame')  BY <1>5, <2>1, <2>2, GoesWithResult DEF i, s
    <2> QED  BY <2>1, <2>3, GoesRight
  <1>6. CASE Ins.op = "LOAD_CONST" /\ Continue(<<Value(Ins.arg, ~Escaped)>>)
    <2>1. Ins.arg \in Kind \ {"Undefined", "Any"}  BY <1>1, <1>6 DEF InstructionAssumption
    <2>2. Ins.arg \in ValueKind /\ Ins.arg \in Kind  BY <2>1, SMT DEF Kind, ValueKind
    <2>3. PICK boxed \in BOOLEAN : boxed = ~Escaped  OBVIOUS
    <2>4. PICK value : value = Value(Ins.arg, ~Escaped)  OBVIOUS
    <2>5. value \in ValueType /\ value.kind = Ins.arg  BY <2>2, <2>3, <2>4, TypedValue
    <2>6. value.kind \in Represented(Ins.arg)  BY <2>2, <2>5, RepresentedKinds
    <2>7. After(Ins, i, s) = Push(s, Slot(Ins.arg, i, 0))  BY <1>6, AfterOf
    <2> QED  BY <1>5, <1>6, <2>2, <2>4, <2>5, <2>6, <2>7
  <1>7. CASE Ins.op = "LOAD_GLOBAL" /\ \E kind \in CallKinds : Continue(<<Value(kind, TRUE)>>)
    <2>1. PICK kind \in CallKinds : Continue(<<Value(kind, TRUE)>>)  BY <1>7
    <2>2. kind \in ValueKind  BY <2>1, CompiledCodeAssumption DEF ValueKind
    <2>3. PICK value : value = Value(kind, TRUE)  OBVIOUS
    <2>4. value \in ValueType /\ value.kind = kind  BY <2>2, <2>3, TypedValue
    <2>5. value.kind \in Represented("Any") /\ "Any" \in Kind
      BY <2>2, <2>4, RepresentedKinds DEF Kind
    <2>6. After(Ins, i, s) = Push(s, Slot("Any", i, 0))  BY <1>7, AfterOf
    <2> QED  BY <1>5, <2>1, <2>3, <2>4, <2>5, <2>6
  <1> QED  BY <1>6, <1>7 DEF Load

\* A load finds a value of the kind the analysis has for the local.
LEMMA LoadFastStep ==
  ASSUME NEW U, OnTrack(U), LoadFast
  PROVE  StaysRight(U)
  <1> DEFINE i == frame.pc
             s == start[i]
             v == Ins.arg
  <1>1. /\ InstructionAssumption(prog, i, Ins) /\ Ins.op \in Op /\ i \in DOMAIN prog.code
        /\ Ins = prog.code[i] /\ s \in StateType(prog)
        /\ FallsThrough(Ins.op) => Expected(prog, start, i + 1, After(Ins, i, s))
    BY OnTrackFacts
  <1>2. Ins.op = "LOAD_FAST"  BY DEF LoadFast
  <1>3. v \in 0..(prog.nlocals - 1)  BY <1>1, <1>2 DEF InstructionAssumption, LocalOp
  <1>4. Pop(s, Pops(Ins.op)) = s
    <2>1. Pops(Ins.op) = 0  BY <1>1, <1>2, PopsOf
    <2> QED  BY <2>1, Leftovers
  <1>5. Expected(prog, start, i + 1, Push(s, Slot(s.locals[v].kind, i, 0)))
    <2>1. Expected(prog, start, i + 1, After(Ins, i, s))  BY <1>1, <1>2, SMT DEF FallsThrough
    <2> QED  BY <1>2, <2>1, AfterOf
  <1>6. s.locals[v].kind \in Kind
    <2>1. s.locals \in [0..(prog.nlocals - 1) -> LocalType]  BY <1>1 DEF StateType
    <2>2. s.locals[v] \in LocalType  BY <1>3, <2>1, Zenon
    <2> QED  BY <2>2, SMT DEF LocalType
  <1>7. /\ frame.python[v] \in ValueKind \cup {"null"}
        /\ frame.fast[v] \in ValueKind \cup {"null"}
        /\ LocalFits(s.locals[v], frame.python[v])
        /\ v \in U => frame.python[v] \in {"null", frame.native[v]}
        /\ v \notin U => frame.fast[v] = frame.python[v]
    BY <1>3 DEF OnTrack, Follows, LocalsFit
  <1>8. Escaped <=> v \in U
    BY <1>1, <1>2 DEF Escaped, OnTrack, NativeAre, LocalOp
  <1> HIDE DEF i, s, v
  <1>9. ASSUME NEW value \in ValueType, value.kind = frame.python[v], frame.python[v] # "null",
               Continue(<<value>>)
        PROVE  StaysRight(U)
    <2>1. Goto(i + 1, <<value>>)  BY <1>9 DEF Continue, i
    <2>2. value.kind \in Represented(s.locals[v].kind)
      BY <1>7, <1>9, SMT DEF LocalFits
    <2>3. Expected(prog, start, i + 1, Push(Pop(s, Pops(Ins.op)), Slot(s.locals[v].kind, i, 0)))
      BY <1>4, <1>5
    <2>4. Follows(prog, start, U, frame')
      BY <1>6, <1>9, <2>1, <2>2, <2>3, GoesWithResult DEF i, s
    <2> QED  BY <2>1, <2>4, GoesRight
  <1>10. CASE Escaped /\ frame.python[v] # "null" /\ Continue(<<Value(frame.native[v], FALSE)>>)
    <2>1. frame.native[v] = frame.python[v] /\ frame.native[v] \in ValueKind
      BY <1>7, <1>8, <1>10
    <2>2. PICK value : value = Value(frame.native[v], FALSE)  OBVIOUS
    <2>3. value \in ValueType /\ value.kind = frame.native[v]  BY <2>1, <2>2, TypedValue
    <2> QED  BY <1>9, <1>10, <2>1, <2>2, <2>3
  <1>11. CASE ~Escaped /\ frame.fast[v] # "null" /\ Continue(<<Value(frame.fast[v], TRUE)>>)
    <2>1. frame.fast[v] = frame.python[v] /\ frame.fast[v] \in ValueKind
      BY <1>7, <1>8, <1>11
    <2>2. PICK value : value = Value(frame.fast[v], TRUE)  OBVIOUS
    <2>3. value \in ValueType /\ value.kind = frame.fast[v]  BY <2>1, <2>2, TypedValue
    <2> QED  BY <1>9, <1>11, <2>1, <2>2, <2>3
  <1>12. CASE \E how \in {"unbound", "UnboundLocalError", "null"} : Stop(how)
    BY <1>12, Stops
  <1> QED  BY <1>10, <1>11, <1>12 DEF LoadFast, v

Assigned(p, s, t, v, kind) ==
    /\ t.stack = s.stack /\ t.locals[v].kind = kind
    /\ kind = "Undefined" => t.locals[v].maybeUndefined
    /\ \A w \in 0..(p.nlocals - 1) : w # v => t.locals[w] = s.locals[w]

LEMMA AssignedLocal ==
  ASSUME NEW p, NEW s \in StateType(p), NEW v \in 0..(p.nlocals - 1), NEW kind \in Kind
  PROVE  Assigned(p, s, Assign(s, v, kind), v, kind)
  <1>1. PICK t : t = Assign(s, v, kind)  OBVIOUS
  <1>2. /\ t.stack = s.stack
        /\ t.locals[v] = [kind |-> kind, maybeUndefined |-> kind = "Undefined"]
        /\ \A w \in 0..(p.nlocals - 1) : w # v => t.locals[w] = s.locals[w]
    BY <1>1, AssignedState
  <1>3. t.locals[v].kind = kind /\ t.locals[v].maybeUndefined = (kind = "Undefined")
    BY <1>2
  <1> QED  BY <1>1, <1>2, <1>3 DEF Assigned

\* A store or a deletion is what the analysis takes it for, in both kinds of locals.
LEMMA StoreFastStep ==
  ASSUME NEW U, OnTrack(U), StoreFast
  PROVE  StaysRight(U)
  <1> DEFINE i == frame.pc
             s == start[i]
             v == Ins.arg
             rest == Pop(s, Pops(Ins.op))
             two == Top(s, 0).kind
             kind == Converted(0).kind
             t == Assign(rest, v, two)
             cells == [0..(prog.nlocals - 1) -> ValueKind \cup {"null"}]
  <1>1. /\ InstructionAssumption(prog, i, Ins) /\ Ins.op \in Op /\ i \in DOMAIN prog.code
        /\ Ins = prog.code[i] /\ s \in StateType(prog)
        /\ FallsThrough(Ins.op) => Expected(prog, start, i + 1, After(Ins, i, s))
    BY OnTrackFacts
  <1>2. Ins.op = "STORE_FAST"  BY DEF StoreFast
  <1>3. v \in 0..(prog.nlocals - 1)  BY <1>1, <1>2 DEF InstructionAssumption, LocalOp
  <1>4. 0 \in 0..(Pops(Ins.op) - 1)
    <2>1. Pops(Ins.op) = 1  BY <1>1, <1>2, PopsOf
    <2> QED  BY <2>1
  <1>5. kind \in ValueKind /\ kind \in Represented(two) /\ two \in Kind
    BY <1>4, OperandFits, Conversions
  <1>6. Expected(prog, start, i + 1, t)
    <2>1. Expected(prog, start, i + 1, After(Ins, i, s))  BY <1>1, <1>2, SMT DEF FallsThrough
    <2> QED  BY <1>2, <2>1, AfterOf
  <1>7. /\ rest \in StateType(prog) /\ rest.locals = s.locals
        /\ Left(<<>>) \in Seq(ValueType) /\ StackFits(rest, Left(<<>>))
    BY Leftovers
  <1>8. Follows(prog, start, U, frame)  BY DEF OnTrack
  <1>9. Escaped <=> v \in U
    BY <1>1, <1>2 DEF Escaped, OnTrack, NativeAre, LocalOp
  <1> HIDE DEF i, v, rest, two, kind
  <1>10. /\ t.stack = rest.stack /\ t.locals[v].kind = two
         /\ \A w \in 0..(prog.nlocals - 1) : w # v => t.locals[w] = s.locals[w]
    <2>1. Assigned(prog, rest, t, v, two)  BY <1>3, <1>5, <1>7, AssignedLocal, Zenon
    <2> HIDE DEF t
    <2> QED  BY <1>7, <2>1 DEF Assigned
  <1> HIDE DEF t
  <1>11. StackFits(t, Left(<<>>))  BY <1>7, <1>10 DEF StackFits
  <1>12. /\ frame.fast \in cells /\ frame.native \in cells /\ frame.python \in cells
         /\ LocalsFit(prog, s, frame.python)
         /\ \A w \in 0..(prog.nlocals - 1) :
                /\ w \in U => frame.python[w] \in {"null", frame.native[w]}
                /\ w \notin U => frame.fast[w] = frame.python[w]
    BY <1>8 DEF Follows, i
  <1> DEFINE python == [frame.python EXCEPT ![v] = kind]
             native == [frame.native EXCEPT ![v] = kind]
             fast == [frame.fast EXCEPT ![v] = kind]
  <1>13. /\ python \in cells /\ python[v] = kind
         /\ \A w \in 0..(prog.nlocals - 1) : w # v => python[w] = frame.python[w]
    BY <1>3, <1>5, <1>12, FunctionUpdate
  <1>14. /\ native \in cells /\ native[v] = kind
         /\ \A w \in 0..(prog.nlocals - 1) : w # v => native[w] = frame.native[w]
    BY <1>3, <1>5, <1>12, FunctionUpdate
  <1>15. /\ fast \in cells /\ fast[v] = kind
         /\ \A w \in 0..(prog.nlocals - 1) : w # v => fast[w] = frame.fast[w]
    BY <1>3, <1>5, <1>12, FunctionUpdate
  <1>16. HasFields(frame)  BY DEF OnTrack
  <1>17. \/ Escaped /\ GoesOn(frame, frame', i + 1, Left(<<>>), frame.fast, native, python)
         \/ ~Escaped /\ GoesOn(frame, frame', i + 1, Left(<<>>), fast, frame.native, python)
    BY <1>16, FrameSteps DEF i, v, kind
  <1> HIDE DEF python, native, fast, cells
  <1>18. LocalsFit(prog, t, python)
    <2>1. ASSUME NEW w \in 0..(prog.nlocals - 1)
          PROVE  LocalFits(t.locals[w], python[w])
      <3>1. CASE w = v  BY <1>5, <1>10, <1>13, <3>1 DEF LocalFits
      <3>2. CASE w # v  BY <1>10, <1>12, <1>13, <3>2 DEF LocalsFit
      <3> QED  BY <3>1, <3>2
    <2> QED  BY <2>1 DEF LocalsFit
  <1>19. CASE Escaped /\ GoesOn(frame, frame', i + 1, Left(<<>>), frame.fast, native, python)
    <2>1. \A w \in 0..(prog.nlocals - 1) : /\ w \in U => python[w] \in {"null", native[w]}
                                           /\ w \notin U => frame.fast[w] = python[w]
      BY <1>9, <1>12, <1>13, <1>14, <1>19
    <2>2. Follows(prog, start, U, frame')
      BY <1>6, <1>7, <1>11, <1>12, <1>13, <1>14, <1>18, <1>19, <2>1, Arrives DEF cells
    <2> QED  BY <1>19, <2>2, GoesRight
  <1>20. CASE ~Escaped /\ GoesOn(frame, frame', i + 1, Left(<<>>), fast, frame.native, python)
    <2>1. \A w \in 0..(prog.nlocals - 1) : /\ w \in U => python[w] \in {"null", frame.native[w]}
                                           /\ w \notin U => fast[w] = python[w]
      BY <1>9, <1>12, <1>13, <1>15, <1>20
    <2>2. Follows(prog, start, U, frame')
      BY <1>6, <1>7, <1>11, <1>12, <1>13, <1>15, <1>18, <1>20, <2>1, Arrives DEF cells
    <2> QED  BY <1>20, <2>2, GoesRight
  <1> QED  BY <1>17, <1>19, <1>20

LEMMA DeleteFastStep ==
  ASSUME NEW U, OnTrack(U), DeleteFast
  PROVE  StaysRight(U)
  <1> DEFINE i == frame.pc
             s == start[i]
             v == Ins.arg
             t == Assign(s, v, "Undefined")
             cells == [0..(prog.nlocals - 1) -> ValueKind \cup {"null"}]
  <1>1. /\ InstructionAssumption(prog, i, Ins) /\ Ins.op \in Op /\ i \in DOMAIN prog.code
        /\ Ins = prog.code[i] /\ s \in StateType(prog)
        /\ FallsThrough(Ins.op) => Expected(prog, start, i + 1, After(Ins, i, s))
    BY OnTrackFacts
  <1>2. Ins.op = "DELETE_FAST"  BY DEF DeleteFast
  <1>3. v \in 0..(prog.nlocals - 1)  BY <1>1, <1>2 DEF InstructionAssumption, LocalOp
  <1>4. Expected(prog, start, i + 1, t)
    <2>1. Expected(prog, start, i + 1, After(Ins, i, s))  BY <1>1, <1>2, SMT DEF FallsThrough
    <2> QED  BY <1>2, <2>1, AfterOf
  <1>5. Follows(prog, start, U, frame) /\ HasFields(frame)  BY DEF OnTrack
  <1>6. frame.stack \in Seq(ValueType) /\ StackFits(s, frame.stack)  BY <1>5 DEF Follows
  <1>7. Escaped <=> v \in U
    BY <1>1, <1>2 DEF Escaped, OnTrack, NativeAre, LocalOp
  <1>8. Assigned(prog, s, t, v, "Undefined")
    <2>1. "Undefined" \in Kind  BY DEF Kind
    <2> QED  BY <1>1, <1>3, <2>1, AssignedLocal, Zenon
  <1> HIDE DEF i, v, t
  <1>9. /\ t.stack = s.stack /\ t.locals[v].maybeUndefined
        /\ \A w \in 0..(prog.nlocals - 1) : w # v => t.locals[w] = s.locals[w]
    BY <1>8 DEF Assigned
  <1>10. StackFits(t, frame.stack)  BY <1>6, <1>9 DEF StackFits
  <1>11. /\ frame.fast \in cells /\ frame.native \in cells /\ frame.python \in cells
         /\ LocalsFit(prog, s, frame.python)
         /\ \A w \in 0..(prog.nlocals - 1) :
                /\ w \in U => frame.python[w] \in {"null", frame.native[w]}
                /\ w \notin U => frame.fast[w] = frame.python[w]
    BY <1>5 DEF Follows, i
  <1> DEFINE python == [frame.python EXCEPT ![v] = "null"]
             fast == [frame.fast EXCEPT ![v] = "null"]
  <1>12. /\ python \in cells /\ python[v] = "null"
         /\ \A w \in 0..(prog.nlocals - 1) : w # v => python[w] = frame.python[w]
    BY <1>3, <1>11, FunctionUpdate
  <1>13. /\ fast \in cells /\ fast[v] = "null"
         /\ \A w \in 0..(prog.nlocals - 1) : w # v => fast[w] = frame.fast[w]
    BY <1>3, <1>11, FunctionUpdate
  <1>14. \/ \E how \in {"unbound", "UnboundLocalError"} : Ends(frame, frame', how)
         \/ /\ Escaped
            /\ GoesOn(frame, frame', i + 1, frame.stack, frame.fast, frame.native, python)
         \/ /\ ~Escaped
            /\ GoesOn(frame, frame', i + 1, frame.stack, fast, frame.native, python)
    BY <1>5, FrameSteps DEF i, v
  <1> HIDE DEF python, fast, cells
  <1>15. LocalsFit(prog, t, python)
    <2>1. ASSUME NEW w \in 0..(prog.nlocals - 1)
          PROVE  LocalFits(t.locals[w], python[w])
      <3>1. CASE w = v  BY <1>9, <1>12, <3>1 DEF LocalFits
      <3>2. CASE w # v  BY <1>9, <1>11, <1>12, <3>2 DEF LocalsFit
      <3> QED  BY <3>1, <3>2
    <2> QED  BY <2>1 DEF LocalsFit
  <1>16. CASE \E how \in {"unbound", "UnboundLocalError"} : Ends(frame, frame', how)
    BY <1>16 DEF Ends, StaysRight
  <1>17. CASE Escaped /\ GoesOn(frame, frame', i + 1, frame.stack, frame.fast, frame.native, python)
    <2>1. \A w \in 0..(prog.nlocals - 1) : /\ w \in U => python[w] \in {"null", frame.native[w]}
                                           /\ w \notin U => frame.fast[w] = python[w]
      BY <1>7, <1>11, <1>12, <1>17
    <2>2. Follows(prog, start, U, frame')
      BY <1>4, <1>6, <1>10, <1>11, <1>12, <1>15, <1>17, <2>1, Arrives DEF cells
    <2> QED  BY <1>17, <2>2, GoesRight
  <1>18. CASE ~Escaped /\ GoesOn(frame, frame', i + 1, frame.stack, fast, frame.native, python)
    <2>1. \A w \in 0..(prog.nlocals - 1) : /\ w \in U => python[w] \in {"null", frame.native[w]}
                                           /\ w \notin U => fast[w] = python[w]
      BY <1>7, <1>11, <1>12, <1>13, <1>18
    <2>2. Follows(prog, start, U, frame')
      BY <1>4, <1>6, <1>10, <1>11, <1>12, <1>13, <1>15, <1>18, <2>1, Arrives DEF cells
    <2> QED  BY <1>18, <2>2, GoesRight
  <1> QED  BY <1>14, <1>16, <1>17, <1>18

LEMMA OperateStep ==
  ASSUME NEW U, OnTrack(U), Operate
  PROVE  StaysRight(U)
  <1> DEFINE i == frame.pc
             s == start[i]
             one == Top(s, 1).kind
             two == Top(s, 0).kind
             a == Converted(1).kind
             b == Converted(0).kind
             rest == Pop(s, Pops(Ins.op))
  <1>1. /\ Ins.op \in Op
        /\ FallsThrough(Ins.op) => Expected(prog, start, i + 1, After(Ins, i, s))
    BY OnTrackFacts
  <1>2. Ins.op \in {"BINARY_ADD", "COMPARE_OP"}  BY DEF Operate
  <1>3. 0 \in 0..(Pops(Ins.op) - 1) /\ 1 \in 0..(Pops(Ins.op) - 1)
    <2>1. Pops(Ins.op) = 2  BY <1>1, <1>2, PopsOf
    <2> QED  BY <2>1
  <1>4. one \in Kind /\ two \in Kind /\ a \in Represented(one) /\ b \in Represented(two)
    BY <1>3, OperandFits, Conversions
  <1>5. Expected(prog, start, i + 1, After(Ins, i, s))
    BY <1>1, <1>2, SMT DEF FallsThrough
  <1> HIDE DEF i, s, one, two, a, b, rest
  <1>6. PICK sum : sum = binaryAdd(a, b)  OBVIOUS
  <1>7. /\ sum # "Any" => sum \in Represented(binaryAdd(one, two)) /\ sum \in ValueKind
        /\ "Bool" \in Represented(compare(one, two)) /\ "Bool" \in ValueKind
    BY <1>4, <1>6, Operations DEF ValueKind
  <1>8. binaryAdd(one, two) \in Kind /\ compare(one, two) \in Kind
    <2>1. binaryAdd(one, two) \in {"Integer", "String", "Any"}  BY <1>4, BinaryAdd
    <2>2. compare(one, two) \in {"Bool", "Any"}  BY <1>4, Compare
    <2> QED  BY <2>1, <2>2, SMT DEF Kind
  <1>9. /\ Ins.op = "BINARY_ADD" => After(Ins, i, s) = Push(rest, Slot(binaryAdd(one, two), i, 0))
        /\ Ins.op = "COMPARE_OP" => After(Ins, i, s) = Push(rest, Slot(compare(one, two), i, 0))
    BY AfterOf DEF one, two, rest
  <1>10. CASE sum = "Any" /\ Stop("TypeError")
    BY <1>10, Stops
  <1>11. ASSUME NEW kind \in Kind, NEW value \in ValueType, value.kind \in Represented(kind),
                After(Ins, i, s) = Push(rest, Slot(kind, i, 0)), Continue(<<value>>)
         PROVE  StaysRight(U)
    <2>1. Goto(i + 1, <<value>>)  BY <1>11 DEF Continue, i
    <2>2. Expected(prog, start, i + 1, Push(rest, Slot(kind, i, 0)))  BY <1>5, <1>11
    <2>3. Follows(prog, start, U, frame')
      BY <1>11, <2>1, <2>2, GoesWithResult DEF i, s, rest
    <2> QED  BY <2>1, <2>3, GoesRight
  <1>12. PICK boxed \in BOOLEAN : boxed = ~Escaped  OBVIOUS
  <1>13. CASE Ins.op = "BINARY_ADD" /\ sum # "Any" /\ Continue(<<Value(sum, ~Escaped)>>)
    <2>1. PICK value : value = Value(sum, ~Escaped)  OBVIOUS
    <2>2. value \in ValueType /\ value.kind = sum  BY <1>7, <1>12, <1>13, <2>1, TypedValue
    <2> QED  BY <1>7, <1>8, <1>9, <1>11, <1>13, <2>1, <2>2
  <1>14. CASE Ins.op = "COMPARE_OP" /\ Continue(<<Value("Bool", ~Escaped)>>)
    <2>1. PICK value : value = Value("Bool", ~Escaped)  OBVIOUS
    <2>2. value \in ValueType /\ value.kind = "Bool"  BY <1>7, <1>12, <2>1, TypedValue
    <2> QED  BY <1>7, <1>8, <1>9, <1>11, <1>14, <2>1, <2>2
  <1>15. \/ sum = "Any" /\ Stop("TypeError")
         \/ sum # "Any" /\ Continue(<<Value(IF Ins.op = "BINARY_ADD" THEN sum ELSE "Bool", ~Escaped)>>)
    BY <1>6, Zenon DEF Operate, a, b
  <1> QED  BY <1>2, <1>10, <1>13, <1>14, <1>15

LEMMA ShuffleStep ==
  ASSUME NEW U, OnTrack(U), Shuffle
  PROVE  StaysRight(U)
  <1> DEFINE i == frame.pc
             s == start[i]
             two == Top(s, 0).kind
             value == Converted(0)
             rest == Pop(s, Pops(Ins.op))
  <1>1. /\ Ins.op \in Op /\ i \in Nat
        /\ FallsThrough(Ins.op) => Expected(prog, start, i + 1, After(Ins, i, s))
    BY OnTrackFacts
  <1>2. Ins.op \in {"POP_TOP", "DUP_TOP"}  BY DEF Shuffle
  <1>3. 0 \in 0..(Pops(Ins.op) - 1)
    <2>1. Pops(Ins.op) = 1  BY <1>1, <1>2, PopsOf
    <2> QED  BY <2>1
  <1>4. two \in Kind /\ value \in ValueType /\ value.kind \in Represented(two)
    BY <1>3, OperandFits, Conversions
  <1>5. Expected(prog, start, i + 1, After(Ins, i, s))
    BY <1>1, <1>2, SMT DEF FallsThrough
  <1>6. /\ rest \in StateType(prog) /\ rest.locals = s.locals
        /\ Left(<<>>) \in Seq(ValueType) /\ StackFits(rest, Left(<<>>))
        /\ Left(<<value, value>>) = Append(Append(Left(<<>>), value), value)
    BY <1>4, Leftovers
  <1> HIDE DEF i, s, two, value, rest
  <1>7. CASE Ins.op = "POP_TOP" /\ Continue(<<>>)
    <2>1. Goto(i + 1, <<>>)  BY <1>7 DEF Continue, i
    <2>2. Expected(prog, start, i + 1, rest)
      <3>1. After(Ins, i, s) = rest  BY <1>7, AfterOf DEF rest
      <3> QED  BY <1>5, <3>1
    <2>3. Follows(prog, start, U, frame')  BY <2>1, <2>2, GoesWithout DEF i, s, rest
    <2> QED  BY <2>1, <2>3, GoesRight
  <1>8. CASE Ins.op = "DUP_TOP" /\ Continue(<<value, value>>)
    <2> DEFINE below == Push(rest, Slot(two, i, 0))
               t == Push(below, Slot(two, i, 1))
    <2>1. Goto(i + 1, <<value, value>>)  BY <1>8 DEF Continue, i
    <2>2. Expected(prog, start, i + 1, t)
      <3>1. After(Ins, i, s) = t  BY <1>8, AfterOf DEF rest, two
      <3> QED  BY <1>5, <3>1
    <2>3. /\ Slot(two, i, 0) \in SlotType /\ Slot(two, i, 0).kind = two
          /\ Slot(two, i, 1) \in SlotType /\ Slot(two, i, 1).kind = two
      BY <1>1, <1>4, NewSlot
    <2>4. below \in StateType(prog) /\ below.locals = s.locals
      BY <1>6, <2>3, PushedState
    <2>5. Append(Left(<<>>), value) \in Seq(ValueType)
          /\ StackFits(below, Append(Left(<<>>), value))
      BY <1>4, <1>6, <2>3, FitsPush
    <2> HIDE DEF below
    <2>6. t.locals = s.locals  BY <2>3, <2>4, PushedState
    <2>7. Left(<<value, value>>) \in Seq(ValueType) /\ StackFits(t, Left(<<value, value>>))
      <3>1. /\ Append(Append(Left(<<>>), value), value) \in Seq(ValueType)
            /\ StackFits(t, Append(Append(Left(<<>>), value), value))
        BY <1>4, <2>3, <2>4, <2>5, FitsPush
      <3> QED  BY <1>6, <3>1
    <2> HIDE DEF t
    <2>8. Follows(prog, start, U, frame')
      BY <2>1, <2>2, <2>6, <2>7, GoesWithStack DEF i, s
    <2> QED  BY <2>1, <2>8, GoesRight
  <1> QED  BY <1>7, <1>8 DEF Shuffle, value

\* A jump takes along what the analysis jumps with.
LEMMA FollowStep ==
  ASSUME NEW U, OnTrack(U), Follow
  PROVE  StaysRight(U)
  <1> DEFINE i == frame.pc
             s == start[i]
             rest == Pop(s, Pops(Ins.op))
  <1>1. /\ Ins.op \in Op
        /\ FallsThrough(Ins.op) => Expected(prog, start, i + 1, After(Ins, i, s))
        /\ Jumps(Ins.op) => Expected(prog, start, Ins.arg, AtTarget(Ins, i, s))
    BY OnTrackFacts
  <1>2. Ins.op \in CondJump \cup {"JUMP_ABSOLUTE"} => After(Ins, i, s) = rest
    BY AfterOf
  <1> HIDE DEF i, s, rest
  <1>3. ASSUME NEW j, Expected(prog, start, j, rest), Goto(j, <<>>)
        PROVE  StaysRight(U)
    <2>1. Follows(prog, start, U, frame')  BY <1>3, GoesWithout DEF i, s, rest
    <2> QED  BY <1>3, <2>1, GoesRight
  <1>4. CASE Ins.op \in {"JUMP_ABSOLUTE", "POP_JUMP_IF_FALSE"} /\ Goto(Ins.arg, <<>>)
    <2>1. Ins.op \in CondJump \cup {"JUMP_ABSOLUTE"} /\ Ins.op # "JUMP_IF_FALSE_OR_POP"
          /\ Jumps(Ins.op)
      BY <1>4, SMT DEF CondJump, Jumps
    <2>2. AtTarget(Ins, i, s) = rest  BY <1>2, <2>1 DEF AtTarget
    <2>3. Expected(prog, start, Ins.arg, rest)  BY <1>1, <2>1, <2>2
    <2> QED  BY <1>3, <1>4, <2>3
  <1>5. CASE Ins.op \in CondJump /\ Continue(<<>>)
    <2>1. FallsThrough(Ins.op)  BY <1>5, SMT DEF CondJump, FallsThrough
    <2>2. Expected(prog, start, i + 1, rest)  BY <1>1, <1>2, <1>5, <2>1
    <2> QED  BY <1>3, <1>5, <2>2 DEF Continue, i
  <1>6. CASE Ins.op = "JUMP_IF_FALSE_OR_POP" /\ Goto(Ins.arg, <<Converted(0)>>)
    <2>1. Jumps(Ins.op) /\ Ins.op \in CondJump  BY <1>6, SMT DEF CondJump, Jumps
    <2>2. Pops(Ins.op) = 1  BY <1>1, <2>1, PopsOf
    <2>3. PICK kind : kind = Top(s, 0).kind  OBVIOUS
    <2>4. PICK value : value = Converted(0)  OBVIOUS
    <2>5. kind \in Kind /\ value \in ValueType /\ value.kind \in Represented(kind)
      <3>1. 0 \in 0..(Pops(Ins.op) - 1)  BY <2>2
      <3> QED  BY <2>3, <2>4, <3>1, OperandFits, Conversions DEF s, i
    <2>6. AtTarget(Ins, i, s) = Push(rest, Slot(kind, i, 0))
      BY <1>6, <2>2, <2>3 DEF AtTarget, rest
    <2>7. Expected(prog, start, Ins.arg, Push(rest, Slot(kind, i, 0)))  BY <1>1, <2>1, <2>6
    <2>8. Follows(prog, start, U, frame')
      BY <1>6, <2>4, <2>5, <2>7, GoesWithResult DEF i, s, rest
    <2> QED  BY <1>6, <2>8, GoesRight
  <1>7. CASE Stop("returned")  BY <1>7, Stops
  <1> QED  BY <1>4, <1>5, <1>6, <1>7 DEF Follow

LEMMA ExecuteStep ==
  ASSUME NEW U, OnTrack(U), Execute
  PROVE  StaysRight(U)
  <1>1. ~GuardFails  BY Conversions
  <1>2. Stop("misread") => StaysRight(U)  BY Stops
  <1> QED
    BY <1>1, <1>2, LoadStep, LoadFastStep, StoreFastStep, DeleteFastStep, OperateStep,
       ShuffleStep, FollowStep DEF Execute

\* A call that enters the specialised body has the arguments the analysis began with.
LEMMA CallStep ==
  ASSUME AnalysisInv, BodiesInv, Call
  PROVE  FrameInv'
  <1>1. /\ bodies # <<>> /\ bodies' = bodies /\ prog' = prog /\ start' = start
        /\ argKinds' = argKinds
    BY DEF Call, absVars
  <1> DEFINE bound(args) == [v \in 0..(prog.nlocals - 1) |->
                                IF v < prog.argcount THEN args[v] ELSE "null"]
             nulls == [v \in 0..(prog.nlocals - 1) |-> "null"]
             cells == [0..(prog.nlocals - 1) -> ValueKind \cup {"null"}]
  <1>2. PICK args \in [0..(prog.argcount - 1) -> CallKinds] :
            frame' = [end |-> "running", body |-> Entered(args), pc |-> 1, stack |-> <<>>,
                      fast |-> bound(args),
                      native |-> [v \in DOMAIN bound(args) |-> "null"],
                      python |-> bound(args)]
    BY Zenon DEF Call
  <1> DEFINE locals == bound(args)
  <1>3. DOMAIN locals = 0..(prog.nlocals - 1)  OBVIOUS
  <1>4. PICK f : f = frame'  OBVIOUS
  <1>5. /\ HasFields(f) /\ f.end = "running" /\ f.body = Entered(args) /\ f.pc = 1
        /\ f.stack = <<>> /\ f.fast = locals /\ f.native = nulls /\ f.python = locals
    <2> HIDE DEF locals, nulls
    <2>1. f = [end |-> "running", body |-> Entered(args), pc |-> 1, stack |-> <<>>,
               fast |-> locals, native |-> nulls, python |-> locals]
      BY <1>2, <1>3, <1>4 DEF locals, nulls
    <2> QED  BY <2>1 DEF HasFields, Fields
  <1>6. ProgramAssumption(prog)  BY AbsInterpAssumption DEF AnalysisInv
  <1>7. prog.argcount \in Nat /\ prog.nlocals \in Nat /\ prog.argcount <= prog.nlocals
    BY <1>6, ProgramFacts
  <1>8. Entered(args) \in {"specialized", "generic"}  BY DEF Entered
  <1>9. ASSUME Entered(args) = "specialized"
        PROVE  \E U \in SUBSET (prog.argcount..(prog.nlocals - 1)) :
                   /\ NativeAre(prog, bodies["specialized"].graph.escape, U)
                   /\ Follows(prog, start, U, f)
    <2>1. GoodBody(prog, start, bodies["specialized"])  BY <1>1 DEF BodiesInv
    <2>2. PICK U \in SUBSET (prog.argcount..(prog.nlocals - 1)) :
              NativeAre(prog, bodies["specialized"].graph.escape, U)
      BY <2>1 DEF GoodBody
    <2>3. \A v \in 0..(prog.argcount - 1) : argKinds[v] \in {"Any", args[v]}
      BY <1>9 DEF Entered
    <2>4. \A v \in 0..(prog.argcount - 1) : args[v] \in ValueKind
      BY <1>2, CompiledCodeAssumption DEF ValueKind
    <2>5. /\ 1 \in DOMAIN start /\ start[1] \in StateType(prog)
          /\ InitialState \in StateType(prog) /\ Above(prog, start[1], InitialState)
      BY DEF AnalysisInv, StatesOf, StartsIn, IsState
    <2>6. InitialState.stack = <<>>
          /\ \A v \in 0..(prog.nlocals - 1) :
                 InitialState.locals[v] = IF v < prog.argcount
                                          THEN [kind |-> argKinds[v], maybeUndefined |-> FALSE]
                                          ELSE [kind |-> "Undefined", maybeUndefined |-> TRUE]
      BY DEF InitialState
    <2>7. ASSUME NEW v \in 0..(prog.nlocals - 1)
          PROVE  /\ locals[v] \in ValueKind \cup {"null"}
                 /\ LocalFits(InitialState.locals[v], locals[v])
                 /\ v \in U => locals[v] = "null"
      <3>a. PICK mine, initial : mine = locals[v] /\ initial = InitialState.locals[v]  OBVIOUS
      <3>1. CASE v < prog.argcount
        <4>1. v \in 0..(prog.argcount - 1) /\ v \notin U  BY <1>7, <2>2, <3>1, SMT
        <4>2. mine = args[v] /\ initial = [kind |-> argKinds[v], maybeUndefined |-> FALSE]
          BY <2>6, <3>1, <3>a
        <4>3. args[v] \in ValueKind /\ argKinds[v] \in {"Any", args[v]}
          BY <2>3, <2>4, <4>1
        <4>4. args[v] \in Represented(argKinds[v])  BY <4>3, RepresentedKinds
        <4>5. LocalFits(initial, mine)  BY <4>2, <4>4 DEF LocalFits
        <4> QED  BY <3>a, <4>1, <4>2, <4>3, <4>5
      <3>2. CASE ~(v < prog.argcount)
        <4>1. mine = "null" /\ initial = [kind |-> "Undefined", maybeUndefined |-> TRUE]
          BY <2>6, <3>2, <3>a
        <4>2. LocalFits(initial, mine)  BY <4>1 DEF LocalFits
        <4> QED  BY <3>a, <4>1, <4>2
      <3> QED  BY <3>1, <3>2
    <2>8. locals \in cells /\ nulls \in cells  BY <2>7
    <2> HIDE DEF locals
    <2>9. StackFits(InitialState, <<>>) /\ LocalsFit(prog, InitialState, locals)
      BY <2>6, <2>7, SMT DEF StackFits, LocalsFit
    <2>10. StackFits(start[1], <<>>) /\ LocalsFit(prog, start[1], locals)
      BY <2>5, <2>9, FitsAbove
    <2>11. <<>> \in Seq(ValueType)  OBVIOUS
    <2>12. Follows(prog, start, U, f)
      BY <1>5, <2>5, <2>7, <2>8, <2>10, <2>11 DEF Follows
    <2> QED  BY <2>2, <2>12
  <1> HIDE DEF locals, nulls, cells, bound
  <1> QED  BY <1>1, <1>4, <1>5, <1>8, <1>9 DEF FrameInv

LEMMA FrameStep ==
  ASSUME AnalysisInv, BodiesInv, FrameInv, [Next]_vars
  PROVE  FrameInv'
  <1>1. CASE Analyse
    <2>1. ~Analysed
      BY <1>1, SMT DEF Analyse, Interpret, NextBlock, Straight, Branch, Jump, Leave, Analysed
    <2>2. frame' = frame  BY <1>1 DEF Analyse
    <2>3. frame = NoFrame  BY <2>1 DEF FrameInv, BodiesInv
    <2> QED  BY <2>2, <2>3 DEF FrameInv, NoFrame
  <1>2. CASE Compile
    <2>1. bodies = <<>> /\ frame' = frame  BY <1>2 DEF Compile
    <2>2. frame = NoFrame  BY <2>1 DEF FrameInv
    <2> QED  BY <2>1, <2>2 DEF FrameInv, NoFrame
  <1>3. CASE Call  BY <1>3, CallStep
  <1>4. CASE Execute
    <2>1. frame.end = "running" /\ prog' = prog /\ start' = start /\ bodies' = bodies
      BY <1>4 DEF Execute, Running, absVars
    <2>2. frame # NoFrame  BY <2>1 DEF NoFrame
    <2>3. HasFields(frame) /\ bodies # <<>> /\ frame.body \in {"specialized", "generic"}
      BY <2>2 DEF FrameInv
    <2>4. KeepsBody  BY <1>4, <2>3, StaysInBody
    <2>5. ASSUME frame.body = "specialized"
          PROVE  \E U \in SUBSET (prog.argcount..(prog.nlocals - 1)) :
                     /\ NativeAre(prog, bodies["specialized"].graph.escape, U)
                     /\ StaysRight(U)
      <3>1. PICK U \in SUBSET (prog.argcount..(prog.nlocals - 1)) :
                /\ NativeAre(prog, bodies["specialized"].graph.escape, U)
                /\ Follows(prog, start, U, frame)
        BY <2>1, <2>2, <2>5 DEF FrameInv
      <3>2. OnTrack(U)  BY <2>1, <2>3, <2>5, <3>1 DEF OnTrack
      <3> QED  BY <1>4, <3>1, <3>2, ExecuteStep
    <2> QED  BY <2>1, <2>3, <2>4, <2>5 DEF FrameInv, KeepsBody, StaysRight
  <1>5. CASE UNCHANGED vars
    BY <1>5 DEF vars, absVars, FrameInv
  <1> QED  BY <1>1, <1>2, <1>3, <1>4, <1>5 DEF Next

LEMMA FrameAlways == Spec => [](AnalysisInv /\ FrameInv)
  <1>1. Init => FrameInv  BY DEF Init, FrameInv
  <1> QED  BY <1>1, AnalysisAlways, BodiesAlways, FrameStep, PTL DEF Spec

\* The start states that interpret() ends with say what really happens: whatever
\* the function and however it is called, the specialised code finds the stack at
\* the height, and values of the kinds, that the compiler took for granted.
THEOREM AnalysisHolds == Spec => []AnalysisIsSound
  <1>1. AnalysisInv /\ FrameInv => AnalysisIsSound
    <2> SUFFICES ASSUME AnalysisInv, FrameInv, frame.end = "running", frame.body = "specialized"
                 PROVE  LET state == start[frame.pc]
                        IN  /\ frame.pc \in DOMAIN start
                            /\ Len(frame.stack) = Len(state.stack)
                            /\ \A n \in DOMAIN frame.stack :
                                   frame.stack[n].kind \in Represented(state.stack[n].kind)
                            /\ \A v \in DOMAIN frame.python :
                                   frame.python[v] \in Represented(state.locals[v].kind) \cup
                                       (IF state.locals[v].maybeUndefined THEN {"null"} ELSE {})
      BY DEF AnalysisIsSound
    <2>1. frame # NoFrame  BY DEF NoFrame
    <2>2. PICK U : Follows(prog, start, U, frame)  BY <2>1 DEF FrameInv
    <2>3. /\ frame.pc \in DOMAIN start /\ frame.stack \in Seq(ValueType)
          /\ StackFits(start[frame.pc], frame.stack)
          /\ LocalsFit(prog, start[frame.pc], frame.python)
          /\ DOMAIN frame.python = 0..(prog.nlocals - 1)
      BY <2>2 DEF Follows
    <2>4. DOMAIN frame.stack = 1..Len(frame.stack)  BY <2>3, SMT
    <2> QED  BY <2>3, <2>4 DEF StackFits, LocalsFit, LocalFits
  <1> QED  BY <1>1, FrameAlways, PTL

\* emit_unbox cannot fail in the specialised code: an edge is unboxed only to a
\* kind that the start state has for its value, and that is what the value is.
THEOREM SpecializedCodeUnboxes == Spec => []SpecializedUnboxes
  <1>1. FrameInv => SpecializedUnboxes
    BY DEF FrameInv, NoFrame, SpecializedUnboxes
  <1> QED  BY <1>1, FrameAlways, PTL


-----------------------------------------------------------------------------
(* Where paths join, the stack is empty *)

\* Instruction i leads from state s to instruction j with state t.
Goes(p, i, s, j, t) ==
    LET ins == p.code[i]
    IN  \/ FallsThrough(ins.op) /\ j = i + 1 /\ t = After(ins, i, s)
        \/ Jumps(ins.op) /\ j = ins.arg /\ t = AtTarget(ins, i, s)

\* How many slots below those it pops an instruction leaves alone, ...
Kept(p, i) == p.depth[i] - Pops(p.code[i].op)

\* ... and how many slots behind it have kinds that it only copies from its start state.
Passed(p, i) == Kept(p, i) + (IF p.code[i].op = "LOAD_FAST" THEN 1 ELSE 0)

Producer == {"LOAD_CONST", "LOAD_FAST", "BINARY_ADD", "COMPARE_OP"}

\* What instruction i leaves in slot n of state t.
SlotBehind(p, i, s, t, n) ==
    /\ n <= Kept(p, i) => t.stack[n] = s.stack[n]
    /\ n > Kept(p, i) =>
           /\ t.stack[n].src = <<i, n - Kept(p, i) - 1>>
           /\ p.code[i].op = "LOAD_FAST" => t.stack[n].kind = s.locals[p.code[i].arg].kind

SlotsBehind(p, i, s, t) == \A n \in 1..Len(t.stack) : SlotBehind(p, i, s, t, n)

LEMMA SlotsOfPush ==
  ASSUME NEW p, ProgramAssumption(p), NEW i \in DOMAIN p.code, NEW s, IsState(p, i, s),
         NEW kind \in Kind, p.code[i].op = "LOAD_FAST" => kind = s.locals[p.code[i].arg].kind
  PROVE  SlotsBehind(p, i, s, Push(Pop(s, Pops(p.code[i].op)), Slot(kind, i, 0)))
  <1>a. PICK k : k = Pops(p.code[i].op)  OBVIOUS
  <1> DEFINE rest == Pop(s, k)
             t == Push(rest, Slot(kind, i, 0))
  <1>1. i \in Nat /\ p.depth[i] \in Nat /\ k \in 0..p.depth[i]
    BY <1>a, ProgramFacts, PopsOf, SMT
  <1>2. /\ rest \in StateType(p) /\ Len(rest.stack) = p.depth[i] - k
        /\ \A n \in 1..(p.depth[i] - k) : rest.stack[n] = s.stack[n]
    BY <1>1, RestOfState
  <1>3. /\ Slot(kind, i, 0) \in SlotType /\ Slot(kind, i, 0).kind = kind
        /\ Slot(kind, i, 0).src = <<i, 0>>
    BY <1>1, NewSlot
  <1>4. /\ Len(t.stack) = Len(rest.stack) + 1
        /\ t.stack[Len(rest.stack) + 1] = Slot(kind, i, 0)
        /\ \A n \in 1..Len(rest.stack) : t.stack[n] = rest.stack[n]
    BY <1>2, <1>3, PushedState
  <1>5. Kept(p, i) = p.depth[i] - k  BY <1>a DEF Kept
  <1> HIDE DEF t, rest
  <1> SUFFICES ASSUME NEW n \in 1..Len(t.stack)  PROVE  SlotBehind(p, i, s, t, n)
    BY <1>a DEF SlotsBehind, t, rest
  <1>6. CASE n <= Kept(p, i)
    BY <1>1, <1>2, <1>4, <1>5, <1>6 DEF SlotBehind
  <1>7. CASE n > Kept(p, i)
    <2>1. n = Len(rest.stack) + 1 /\ n - Kept(p, i) - 1 = 0  BY <1>1, <1>2, <1>4, <1>5, <1>7
    <2>2. t.stack[n].src = <<i, 0>> /\ t.stack[n].kind = kind  BY <1>3, <1>4, <2>1
    <2> QED  BY <1>1, <1>5, <1>7, <2>1, <2>2 DEF SlotBehind
  <1> QED  BY <1>1, <1>5, <1>6, <1>7

LEMMA PopNothing ==
  ASSUME NEW p, NEW s \in StateType(p)
  PROVE  Pop(s, 0) = s
  <1>1. s.stack \in Seq(SlotType) /\ s = [stack |-> s.stack, locals |-> s.locals]
    BY SMT DEF StateType
  <1>2. SubSeq(s.stack, 1, Len(s.stack) - 0) = s.stack  BY <1>1, SMT
  <1>3. Pop(s, 0) = [s EXCEPT !.stack = s.stack]  BY <1>2 DEF Pop
  <1> QED  BY <1>1, <1>3, RecordUpdate

\* An instruction that leaves nothing but the slots it does not pop.
LEMMA SlotsOfRest ==
  ASSUME NEW p, ProgramAssumption(p), NEW i \in DOMAIN p.code, NEW s, IsState(p, i, s),
         NEW t, t.stack = Pop(s, Pops(p.code[i].op)).stack
  PROVE  SlotsBehind(p, i, s, t)
  <1>a. PICK k : k = Pops(p.code[i].op)  OBVIOUS
  <1>1. i \in Nat /\ p.depth[i] \in Nat /\ k \in 0..p.depth[i]
    BY <1>a, ProgramFacts, PopsOf, SMT
  <1>2. /\ Len(t.stack) = p.depth[i] - k
        /\ \A n \in 1..(p.depth[i] - k) : t.stack[n] = s.stack[n]
    BY <1>a, <1>1, RestOfState
  <1>3. Kept(p, i) = p.depth[i] - k  BY <1>a DEF Kept
  <1> SUFFICES ASSUME NEW n \in 1..Len(t.stack)  PROVE  SlotBehind(p, i, s, t, n)
    BY DEF SlotsBehind
  <1> QED  BY <1>1, <1>2, <1>3 DEF SlotBehind

LEMMA SlotsOfDup ==
  ASSUME NEW p, ProgramAssumption(p), NEW i \in DOMAIN p.code, NEW s, IsState(p, i, s),
         NEW kind \in Kind, p.code[i].op = "DUP_TOP"
  PROVE  SlotsBehind(p, i, s, Push(Push(Pop(s, Pops(p.code[i].op)), Slot(kind, i, 0)),
                                   Slot(kind, i, 1)))
  <1>a. PICK k : k = Pops(p.code[i].op)  OBVIOUS
  <1> DEFINE rest == Pop(s, k)
             u == Push(rest, Slot(kind, i, 0))
             t == Push(u, Slot(kind, i, 1))
  <1>1. i \in Nat /\ p.depth[i] \in Nat /\ k \in 0..p.depth[i]
    BY <1>a, ProgramFacts, PopsOf, SMT
  <1>2. /\ rest \in StateType(p) /\ Len(rest.stack) = p.depth[i] - k
        /\ \A n \in 1..(p.depth[i] - k) : rest.stack[n] = s.stack[n]
    BY <1>1, RestOfState
  <1>3. /\ Slot(kind, i, 0) \in SlotType /\ Slot(kind, i, 0).src = <<i, 0>>
        /\ Slot(kind, i, 1) \in SlotType /\ Slot(kind, i, 1).src = <<i, 1>>
    BY <1>1, NewSlot
  <1>4. /\ u \in StateType(p) /\ Len(u.stack) = Len(rest.stack) + 1
        /\ u.stack[Len(rest.stack) + 1] = Slot(kind, i, 0)
        /\ \A n \in 1..Len(rest.stack) : u.stack[n] = rest.stack[n]
    BY <1>2, <1>3, PushedState
  <1> HIDE DEF u
  <1>5. /\ Len(t.stack) = Len(u.stack) + 1
        /\ t.stack[Len(u.stack) + 1] = Slot(kind, i, 1)
        /\ \A n \in 1..Len(u.stack) : t.stack[n] = u.stack[n]
    BY <1>3, <1>4, PushedState
  <1> HIDE DEF t, rest
  <1>6. PICK h \in Nat : h = p.depth[i] - k  BY <1>1
  <1>7. Len(rest.stack) = h /\ Len(u.stack) = h + 1 /\ Len(t.stack) = h + 2
    BY <1>2, <1>4, <1>5, <1>6
  <1>8. /\ \A m \in 1..h : t.stack[m] = s.stack[m]
        /\ t.stack[h + 1] = Slot(kind, i, 0) /\ t.stack[h + 2] = Slot(kind, i, 1)
    <2>1. \A m \in 1..(h + 1) : t.stack[m] = u.stack[m]  BY <1>5, <1>7
    <2>2. \A m \in 1..h : u.stack[m] = rest.stack[m]  BY <1>4, <1>7
    <2>3. \A m \in 1..h : rest.stack[m] = s.stack[m]  BY <1>2, <1>6
    <2>4. t.stack[h + 1] = Slot(kind, i, 0)  BY <1>4, <1>6, <1>7, <2>1
    <2>5. t.stack[h + 2] = Slot(kind, i, 1)  BY <1>5, <1>6, <1>7
    <2> QED  BY <1>6, <2>1, <2>2, <2>3, <2>4, <2>5
  <1>9. Kept(p, i) = h  BY <1>a, <1>6 DEF Kept
  <1> SUFFICES ASSUME NEW n \in 1..(h + 2)  PROVE  SlotBehind(p, i, s, t, n)
    BY <1>a, <1>7 DEF SlotsBehind, t, u, rest
  <1>10. /\ n <= h => t.stack[n] = s.stack[n]
         /\ n > h => t.stack[n].src = <<i, n - h - 1>>
    <2>1. n \in 1..h \/ n = h + 1 \/ n = h + 2  BY <1>6
    <2>2. CASE n \in 1..h  BY <1>6, <1>8, <2>2
    <2>3. CASE n = h + 1
      <3>1. ~(n <= h) /\ n - h - 1 = 0  BY <1>6, <2>3
      <3> QED  BY <1>3, <1>8, <2>3, <3>1, Zenon
    <2>4. CASE n = h + 2
      <3>1. ~(n <= h) /\ n - h - 1 = 1  BY <1>6, <2>4
      <3> QED  BY <1>3, <1>8, <2>4, <3>1, Zenon
    <2> QED  BY <2>1, <2>2, <2>3, <2>4
  <1> QED  BY <1>9, <1>10, Zenon DEF SlotBehind

LEMMA SlotsOfAfter ==
  ASSUME NEW p, NEW i, NEW s, StartsIn(p, i, s)
  PROVE  SlotsBehind(p, i, s, After(p.code[i], i, s))
  <1>a. PICK ins : ins = p.code[i]  OBVIOUS
  <1> DEFINE op == ins.op
             t == After(ins, i, s)
             rest == Pop(s, Pops(op))
             one == Top(s, 1).kind
             two == Top(s, 0).kind
  <1> SUFFICES SlotsBehind(p, i, s, t)  BY <1>a
  <1>0. ProgramAssumption(p) /\ i \in DOMAIN p.code /\ IsState(p, i, s) /\ s \in StateType(p)
    BY DEF StartsIn, IsState
  <1>1. /\ p.depth[i] \in Nat /\ op \in Op /\ Pops(op) <= p.depth[i] /\ Pops(op) \in 0..2
        /\ InstructionAssumption(p, i, ins)
    BY <1>0, <1>a, ProgramFacts, PopsOf, SMT
  <1>2. \A v \in {op} : v \in LocalOp => ins.arg \in 0..(p.nlocals - 1)
    BY <1>1 DEF InstructionAssumption
  <1>3. \A n \in 0..(p.depth[i] - 1) : Top(s, n).kind \in Kind  BY <1>0, OperandSlots
  <1>4. (Pops(op) >= 1 => two \in Kind) /\ (Pops(op) >= 2 => one \in Kind)
    BY <1>1, <1>3, SMT
  <1>5. ASSUME Pops(op) = 0 PROVE rest = s  BY <1>0, <1>5, PopNothing
  <1> HIDE DEF rest, one, two, t
  <1>6. ASSUME NEW kind \in Kind, op = "LOAD_FAST" => kind = s.locals[ins.arg].kind,
               t = Push(rest, Slot(kind, i, 0))
        PROVE  SlotsBehind(p, i, s, t)
    BY <1>a, <1>0, <1>6, SlotsOfPush DEF rest
  <1>7. ASSUME t.stack = rest.stack
        PROVE  SlotsBehind(p, i, s, t)
    BY <1>a, <1>0, <1>7, SlotsOfRest DEF rest
  <1>8. /\ op \in {"LOAD_CONST", "LOAD_GLOBAL", "LOAD_FAST", "DELETE_FAST"} => Pops(op) = 0
        /\ op \in {"BINARY_ADD", "COMPARE_OP"} => Pops(op) = 2
        /\ op \in {"STORE_FAST", "DUP_TOP"} => Pops(op) = 1
    BY <1>1, PopsOf
  <1>9. CASE op = "LOAD_CONST"
    <2>1. ins.arg \in Kind  BY <1>1, <1>9 DEF InstructionAssumption
    <2>2. t = Push(rest, Slot(ins.arg, i, 0))  BY <1>5, <1>8, <1>9, AfterOf DEF t
    <2> QED  BY <1>6, <1>9, <2>1, <2>2
  <1>10. CASE op = "LOAD_GLOBAL"
    <2>1. t = Push(rest, Slot("Any", i, 0))  BY <1>5, <1>8, <1>10, AfterOf DEF t
    <2> QED  BY <1>6, <1>10, <2>1 DEF Kind
  <1>11. CASE op = "LOAD_FAST"
    <2>1. s.locals[ins.arg].kind \in Kind
      <3>1. ins.arg \in 0..(p.nlocals - 1)  BY <1>2, <1>11 DEF LocalOp
      <3>2. s.locals \in [0..(p.nlocals - 1) -> LocalType]  BY <1>0 DEF StateType
      <3> QED  BY <3>1, <3>2 DEF LocalType
    <2>2. t = Push(rest, Slot(s.locals[ins.arg].kind, i, 0))
      BY <1>5, <1>8, <1>11, AfterOf DEF t
    <2> QED  BY <1>6, <2>1, <2>2
  <1>12. CASE op = "STORE_FAST"
    <2>1. t = Assign(rest, ins.arg, two)  BY <1>12, AfterOf DEF t, rest, two
    <2>2. rest \in StateType(p)  BY <1>0, <1>1, RestOfState, SMT DEF rest
    <2>3. ins.arg \in 0..(p.nlocals - 1)  BY <1>2, <1>12 DEF LocalOp
    <2>4. two \in Kind  BY <1>4, <1>8, <1>12
    <2>5. Assign(rest, ins.arg, two).stack = rest.stack
      BY <2>2, <2>3, <2>4, AssignedStack
    <2> QED  BY <1>7, <2>1, <2>5, Zenon
  <1>13. CASE op = "DELETE_FAST"
    <2>1. t = Assign(rest, ins.arg, "Undefined")
      BY <1>5, <1>8, <1>13, AfterOf DEF t
    <2>2. rest \in StateType(p)  BY <1>0, <1>5, <1>8, <1>13
    <2>3. ins.arg \in 0..(p.nlocals - 1)  BY <1>2, <1>13 DEF LocalOp
    <2>4. "Undefined" \in Kind  BY DEF Kind
    <2>5. Assign(rest, ins.arg, "Undefined").stack = rest.stack
      BY <2>2, <2>3, <2>4, AssignedStack
    <2> QED  BY <1>7, <2>1, <2>5, Zenon
  <1>14. CASE op = "BINARY_ADD"
    <2>1. binaryAdd(one, two) \in Kind  BY <1>4, <1>8, <1>14, BinaryAdd, SMT DEF Kind
    <2>2. t = Push(rest, Slot(binaryAdd(one, two), i, 0))
      BY <1>14, AfterOf DEF t, rest, one, two
    <2> QED  BY <1>6, <1>14, <2>1, <2>2
  <1>15. CASE op = "COMPARE_OP"
    <2>1. compare(one, two) \in Kind  BY <1>4, <1>8, <1>15, Compare, SMT DEF Kind
    <2>2. t = Push(rest, Slot(compare(one, two), i, 0))
      BY <1>15, AfterOf DEF t, rest, one, two
    <2> QED  BY <1>6, <1>15, <2>1, <2>2
  <1>16. CASE op = "DUP_TOP"
    <2>1. two \in Kind  BY <1>4, <1>8, <1>16
    <2>2. t = Push(Push(rest, Slot(two, i, 0)), Slot(two, i, 1))
      BY <1>16, AfterOf DEF t, rest, two
    <2> QED  BY <1>a, <1>0, <1>16, <2>1, <2>2, SlotsOfDup DEF rest
  <1>17. CASE op \in CondJump \cup {"POP_TOP", "JUMP_ABSOLUTE", "RETURN_VALUE"}
    <2>1. t = rest  BY <1>17, AfterOf DEF t, rest
    <2> QED  BY <1>7, <2>1
  <1> QED
    BY <1>1, <1>9, <1>10, <1>11, <1>12, <1>13, <1>14, <1>15, <1>16, <1>17, SMT DEF Op, LocalOp

\* LeadsTo and EmptyJoins, of any program.
Leads(p, i, j) ==
    LET ins == p.code[i]
    IN  \/ FallsThrough(ins.op) /\ j = i + 1
        \/ Jumps(ins.op) /\ j = ins.arg

Single(p) ==
    \A i, j, k \in DOMAIN p.code :
        Leads(p, i, k) /\ Leads(p, j, k) /\ p.depth[k] > 0 => i = j

LEMMA EmptyJoinsAreSingle == EmptyJoins <=> Single(prog)
  BY DEF EmptyJoins, LeadsTo, Single, Leads

\* Where instruction i leads, and what it leaves there.
LEMMA Outcome ==
  ASSUME NEW p, NEW i, NEW s, NEW j, NEW t, StartsIn(p, i, s), Goes(p, i, s, j, t)
  PROVE  LET op == p.code[i].op
         IN  /\ StartsIn(p, j, t) /\ SlotsBehind(p, i, s, t) /\ Leads(p, i, j)
             /\ Kept(p, i) \in Nat /\ Kept(p, i) <= p.depth[i] /\ p.depth[i] \in Nat
             /\ Len(t.stack) = p.depth[j] /\ p.depth[j] \in Nat /\ Kept(p, i) <= p.depth[j]
             /\ p.depth[j] > Kept(p, i) =>
                    op \in Producer \cup {"LOAD_GLOBAL", "DUP_TOP", "JUMP_IF_FALSE_OR_POP"}
             /\ op \in Producer => j = i + 1 /\ p.depth[j] = Kept(p, i) + 1
  <1>a. PICK ins : ins = p.code[i]  OBVIOUS
  <1> DEFINE op == ins.op
  <1>0. ProgramAssumption(p) /\ i \in DOMAIN p.code /\ IsState(p, i, s)
    BY DEF StartsIn
  <1>1. /\ p.depth[i] \in Nat /\ op \in Op /\ Pops(op) <= p.depth[i] /\ Pops(op) \in 0..2
        /\ Pushes(op) \in 0..2 /\ InstructionAssumption(p, i, ins)
    BY <1>0, <1>a, ProgramFacts, PopsOf, PushesOf, SMT
  <1>2. PICK h \in Nat : h = p.depth[i] - Pops(op)  BY <1>1
  <1>3. Kept(p, i) = h  BY <1>a, <1>2 DEF Kept
  <1>4. Leads(p, i, j)  BY <1>a DEF Leads, Goes
  <1>5. /\ StartsIn(p, j, t) /\ SlotsBehind(p, i, s, t)
        /\ \/ FallsThrough(op) /\ j = i + 1 /\ p.depth[j] = h + Pushes(op)
           \/ /\ Jumps(op) /\ j = ins.arg
              /\ p.depth[j] = h + (IF op = "JUMP_IF_FALSE_OR_POP" THEN 1 ELSE 0)
    <2>1. CASE FallsThrough(op) /\ j = i + 1 /\ t = After(ins, i, s)
      <3>1. StartsIn(p, j, t) /\ SlotsBehind(p, i, s, t)
        BY <1>a, <2>1, NextStartsIn, SlotsOfAfter
      <3>2. p.depth[i + 1] = p.depth[i] - Pops(op) + Pushes(op)
        BY <1>1, <2>1 DEF InstructionAssumption
      <3> QED  BY <1>2, <2>1, <3>1, <3>2
    <2>2. CASE Jumps(op) /\ j = ins.arg /\ t = AtTarget(ins, i, s)
      <3>1. StartsIn(p, j, t)  BY <1>a, <2>2, TargetStartsIn
      <3>2. SlotsBehind(p, i, s, t)
        <4>1. CASE op # "JUMP_IF_FALSE_OR_POP"
          BY <1>a, <2>2, <4>1, SlotsOfAfter DEF AtTarget
        <4>2. CASE op = "JUMP_IF_FALSE_OR_POP"
          <5>1. Pops(op) = 1  BY <1>1, <4>2, PopsOf, SMT DEF CondJump
          <5>2. t = Push(Pop(s, Pops(op)), Slot(Top(s, 0).kind, i, 0))
            BY <2>2, <4>2, <5>1 DEF AtTarget
          <5>3. Top(s, 0).kind \in Kind  BY <1>0, <1>1, <5>1, OperandSlots, SMT
          <5>4. p.code[i].op # "LOAD_FAST"  BY <1>a, <4>2
          <5> QED  BY <1>a, <1>0, <5>2, <5>3, <5>4, SlotsOfPush
        <4> QED  BY <4>1, <4>2
      <3>3. p.depth[ins.arg] = p.depth[i] - Pops(op) +
                (IF op = "JUMP_IF_FALSE_OR_POP" THEN 1 ELSE 0)
        BY <1>1, <2>2 DEF InstructionAssumption
      <3> QED  BY <1>2, <2>2, <3>1, <3>2, <3>3
    <2> QED  BY <1>a, <2>1, <2>2 DEF Goes
  <1>6. Len(t.stack) = p.depth[j] /\ p.depth[j] \in Nat
    <2>1. IsState(p, j, t) /\ j \in DOMAIN p.code  BY <1>5 DEF StartsIn
    <2> QED  BY <1>0, <2>1, ProgramFacts DEF IsState
  <1>7. p.depth[j] > h =>
            op \in Producer \cup {"LOAD_GLOBAL", "DUP_TOP", "JUMP_IF_FALSE_OR_POP"}
    <2>1. op \notin Producer \cup {"LOAD_GLOBAL", "DUP_TOP", "JUMP_IF_FALSE_OR_POP"} =>
              Pushes(op) = 0
      BY <1>1, PushesOf, SMT DEF Producer, Op, CondJump, LocalOp
    <2> QED  BY <1>2, <1>5, <2>1
  <1>8. op \in Producer => j = i + 1 /\ p.depth[j] = h + 1
    <2>1. op \in Producer => Pushes(op) = 1 /\ ~Jumps(op)
      BY <1>1, PushesOf, SMT DEF Producer, Jumps, CondJump
    <2> QED  BY <1>5, <2>1
  <1>9. h <= p.depth[j] /\ h <= p.depth[i]
    BY <1>1, <1>2, <1>5
  <1> QED  BY <1>a, <1>1, <1>2, <1>3, <1>4, <1>5, <1>6, <1>7, <1>8, <1>9

\* In a program without joins of filled stacks, an instruction leads to a filled
\* stack with one state only.
LEMMA OutcomeIsOne ==
  ASSUME NEW p, NEW i, NEW s, NEW j, NEW t, NEW u, StartsIn(p, i, s),
         Goes(p, i, s, j, t), Goes(p, i, s, j, u)
  PROVE  t = u
  <1>a. PICK ins : ins = p.code[i]  OBVIOUS
  <1> DEFINE op == ins.op
  <1>1. Len(t.stack) = p.depth[j] /\ Len(u.stack) = p.depth[j] /\ Kept(p, i) \in Nat
    BY Outcome
  <1>2. CASE op # "JUMP_IF_FALSE_OR_POP"
    BY <1>a, <1>2 DEF Goes, AtTarget
  <1>3. CASE op = "JUMP_IF_FALSE_OR_POP"
    <2>0. ProgramAssumption(p) /\ i \in DOMAIN p.code  BY DEF StartsIn
    <2>1. op \in Op /\ InstructionAssumption(p, i, ins) /\ p.depth[i] \in Nat
          /\ Pops(op) <= p.depth[i]
      BY <1>a, <2>0, ProgramFacts
    <2>2. Pops(op) = 1 /\ Pushes(op) = 0  BY <1>3, <2>1, PopsOf, PushesOf, SMT DEF CondJump
    <2>3. FallsThrough(op) /\ Jumps(op)  BY <1>3, SMT DEF FallsThrough, Jumps, CondJump
    <2>4. p.depth[i + 1] # p.depth[ins.arg]
      <3>1. p.depth[i + 1] = p.depth[i] - Pops(op) + Pushes(op)
        BY <2>1, <2>3 DEF InstructionAssumption
      <3>2. p.depth[ins.arg] = p.depth[i] - Pops(op) + 1
        BY <1>3, <2>1, <2>3 DEF InstructionAssumption
      <3> QED  BY <2>1, <2>2, <3>1, <3>2
    <2>5. i + 1 # ins.arg  BY <2>4
    <2> QED  BY <1>a, <2>5 DEF Goes
  <1> QED  BY <1>2, <1>3

\* Start state t has the sources of state s that instruction i leads to it with, and no
\* larger kinds where i only copies.
Agrees(p, i, t, s) ==
    \A n \in 1..Len(s.stack) :
        /\ t.stack[n].src = s.stack[n].src
        /\ n <= Passed(p, i) => Covers(s.stack[n].kind, t.stack[n].kind)

Handed(p, states) ==
    \A i, j \in DOMAIN states : \A t :
        Goes(p, i, states[i], j, t) /\ p.depth[j] > 0 => Agrees(p, i, states[j], t)

\* An instruction with a filled stack comes behind another one.
LedTo(p, S) ==
    \A j \in S : p.depth[j] > 0 => \E i \in S : i # j /\ Leads(p, i, j)

LEMMA MergedSlots ==
  ASSUME NEW p, NEW i, NEW old, NEW new, StartsIn(p, i, old), StartsIn(p, i, new),
         NEW keepOld \in BOOLEAN
  PROVE  \A n \in 1..p.depth[i] : mergeStates(old, new, keepOld).stack[n] =
                                      MergeSlot(old.stack[n], new.stack[n], keepOld)
  <1>1. /\ Len(old.stack) = p.depth[i] /\ Len(new.stack) = p.depth[i]
        /\ old.stack \in Seq(SlotType) /\ new.stack \in Seq(SlotType)
    BY DEF StartsIn, IsState, StateType
  <1>2. DOMAIN old.stack = 1..p.depth[i] /\ DOMAIN new.stack = 1..p.depth[i]
    BY <1>1, SMT
  <1> SUFFICES ASSUME NEW n \in 1..p.depth[i]
               PROVE  mergeStates(old, new, keepOld).stack[n] =
                          MergeSlot(old.stack[n], new.stack[n], keepOld)
    OBVIOUS
  <1>3. old.stack # <<>>  BY <1>1, SMT
  <1> QED  BY <1>2, <1>3 DEF mergeStates

\* A start state that agrees with what is merged into it stays as it is in the slots
\* that matter.
LEMMA MergeAgrees ==
  ASSUME NEW p, NEW i, NEW j, NEW old, NEW new, StartsIn(p, j, old), StartsIn(p, j, new),
         NEW keepOld \in BOOLEAN, Agrees(p, i, old, new)
  PROVE  LET m == mergeStates(old, new, keepOld)
         IN  /\ Agrees(p, i, m, new)
             /\ \A n \in 1..p.depth[j] : m.stack[n].src = old.stack[n].src
  <1> DEFINE m == mergeStates(old, new, keepOld)
  <1>1. /\ Len(new.stack) = p.depth[j] /\ p.depth[j] \in Nat
        /\ \A n \in 1..p.depth[j] : old.stack[n] \in SlotType /\ new.stack[n] \in SlotType
    <2>1. IsState(p, j, old) /\ IsState(p, j, new) /\ ProgramAssumption(p) /\ j \in DOMAIN p.code
      BY DEF StartsIn
    <2> QED  BY <2>1, ProgramFacts, SMT DEF IsState, StateType
  <1>2. \A n \in 1..p.depth[j] : m.stack[n] = MergeSlot(old.stack[n], new.stack[n], keepOld)
    BY MergedSlots
  <1> HIDE DEF m
  <1>3. ASSUME NEW n \in 1..p.depth[j]
        PROVE  /\ m.stack[n].src = old.stack[n].src /\ m.stack[n].src = new.stack[n].src
               /\ n <= Passed(p, i) => Covers(new.stack[n].kind, m.stack[n].kind)
    <2>1. PICK a \in SlotType : a = old.stack[n]  BY <1>1
    <2>2. PICK b \in SlotType : b = new.stack[n]  BY <1>1
    <2>3. a.src = b.src /\ (n <= Passed(p, i) => Covers(b.kind, a.kind))
      BY <1>1, <2>1, <2>2 DEF Agrees
    <2>4. m.stack[n] = MergeSlot(a, b, keepOld)  BY <1>2, <2>1, <2>2
    <2>5. MergeSlot(a, b, keepOld).src = a.src  BY <2>3 DEF MergeSlot
    <2>6. MergeSlot(a, b, keepOld).kind = mergeKind(a.kind, b.kind)  BY DEF MergeSlot
    <2>7. a.kind \in Kind /\ b.kind \in Kind  BY DEF SlotType
    <2>8. ASSUME Covers(b.kind, a.kind)  PROVE  Covers(b.kind, mergeKind(a.kind, b.kind))
      BY <2>7, <2>8 DEF Covers, mergeKind, Kind
    <2> QED  BY <2>1, <2>2, <2>3, <2>4, <2>5, <2>6, <2>8
  <1>4. Agrees(p, i, m, new)  BY <1>1, <1>3 DEF Agrees
  <1> QED  BY <1>3, <1>4 DEF m

\* When the start state of instruction i grows and keeps its sources, so does what it
\* leads to.
LEMMA OutcomeGrows ==
  ASSUME NEW p, NEW i, NEW s, NEW s2, NEW j, NEW t, NEW t2,
         StartsIn(p, i, s), StartsIn(p, i, s2), Above(p, s2, s),
         \A n \in 1..p.depth[i] : s2.stack[n].src = s.stack[n].src,
         Goes(p, i, s, j, t), Goes(p, i, s2, j, t2),
         NEW u, StartsIn(p, j, u), Agrees(p, i, u, t)
  PROVE  Agrees(p, i, u, t2)
  <1>1. /\ StartsIn(p, j, t) /\ SlotsBehind(p, i, s, t) /\ Kept(p, i) \in Nat
        /\ Len(t.stack) = p.depth[j] /\ p.depth[j] \in Nat /\ Kept(p, i) <= p.depth[i]
        /\ StartsIn(p, j, t2) /\ SlotsBehind(p, i, s2, t2) /\ Len(t2.stack) = p.depth[j]
        /\ p.depth[i] \in Nat
    BY Outcome
  <1>2. /\ s.stack \in Seq(SlotType) /\ t.stack \in Seq(SlotType) /\ t2.stack \in Seq(SlotType)
        /\ u.stack \in Seq(SlotType) /\ Len(u.stack) = p.depth[j]
        /\ Len(s.stack) = p.depth[i] /\ ProgramAssumption(p) /\ i \in DOMAIN p.code
    BY <1>1 DEF StartsIn, IsState, StateType
  <1>3. /\ \A n \in 1..p.depth[i] : Covers(s2.stack[n].kind, s.stack[n].kind)
        /\ \A v \in 0..(p.nlocals - 1) : Covers(s2.locals[v].kind, s.locals[v].kind)
    BY <1>2 DEF Above
  <1> SUFFICES ASSUME NEW n \in 1..p.depth[j]
               PROVE  /\ u.stack[n].src = t2.stack[n].src
                      /\ n <= Passed(p, i) => Covers(t2.stack[n].kind, u.stack[n].kind)
    BY <1>1 DEF Agrees
  <1>4. /\ u.stack[n].src = t.stack[n].src
        /\ n <= Passed(p, i) => Covers(t.stack[n].kind, u.stack[n].kind)
    BY <1>1 DEF Agrees
  <1>5. t.stack[n].kind \in Kind /\ t2.stack[n].kind \in Kind /\ u.stack[n].kind \in Kind
    <2>1. t.stack[n] \in SlotType /\ t2.stack[n] \in SlotType /\ u.stack[n] \in SlotType
      BY <1>1, <1>2, SMT
    <2> QED  BY <2>1 DEF SlotType
  <1>6. SlotBehind(p, i, s, t, n) /\ SlotBehind(p, i, s2, t2, n)  BY <1>1 DEF SlotsBehind
  <1>7. CASE n <= Kept(p, i)
    <2>1. n \in 1..p.depth[i]  BY <1>1, <1>7
    <2>2. t.stack[n] = s.stack[n] /\ t2.stack[n] = s2.stack[n]  BY <1>6, <1>7 DEF SlotBehind
    <2>3. t2.stack[n].src = t.stack[n].src /\ Covers(t2.stack[n].kind, t.stack[n].kind)
      BY <1>3, <2>1, <2>2
    <2> QED  BY <1>4, <1>5, <2>3, CoversIsTransitive
  <1>8. CASE ~(n <= Kept(p, i))
    <2>1. n > Kept(p, i)  BY <1>1, <1>8
    <2>2. t2.stack[n].src = t.stack[n].src
      BY <1>6, <2>1 DEF SlotBehind
    <2>3. ASSUME n <= Passed(p, i)
          PROVE  Covers(t2.stack[n].kind, t.stack[n].kind)
      <3>1. p.code[i].op = "LOAD_FAST"  BY <1>1, <1>8, <2>3 DEF Passed
      <3>2. t.stack[n].kind = s.locals[p.code[i].arg].kind
            /\ t2.stack[n].kind = s2.locals[p.code[i].arg].kind
        BY <1>6, <2>1, <3>1 DEF SlotBehind
      <3>3. p.code[i].arg \in 0..(p.nlocals - 1)
        <4>1. InstructionAssumption(p, i, p.code[i])  BY <1>2, ProgramFacts
        <4> QED  BY <3>1, <4>1 DEF InstructionAssumption, LocalOp
      <3> QED  BY <1>3, <3>2, <3>3
    <2> QED  BY <1>4, <1>5, <2>2, <2>3, CoversIsTransitive
  <1> QED  BY <1>7, <1>8

\* Merging what instruction i leads to into the start states keeps them handed on.
LEMMA HandedOn ==
  ASSUME NEW p, NEW states, StatesOf(p, states), Single(p), LedTo(p, DOMAIN states),
         Handed(p, states), NEW i \in DOMAIN states, NEW j, NEW s,
         Goes(p, i, states[i], j, s), NEW keepOld \in BOOLEAN
  PROVE  Handed(p, updateStartState(states, j, s, keepOld))
  <1> DEFINE after == updateStartState(states, j, s, keepOld)
  <1>1. StartsIn(p, i, states[i]) /\ StartsIn(p, j, s) /\ i \in DOMAIN p.code /\ j \in DOMAIN p.code
    <2>1. StartsIn(p, i, states[i])  BY DEF StatesOf
    <2>2. StartsIn(p, j, s)  BY <2>1, Outcome
    <2> QED  BY <2>1, <2>2 DEF StartsIn
  <1>2. /\ StatesOf(p, after) /\ Grown(p, states, after) /\ DOMAIN after = DOMAIN states \cup {j}
        /\ \A k \in DOMAIN states : k # j => after[k] = states[k]
    <2>1. Updated(p, states, after, j, s)  BY <1>1, UpdatedStates, Zenon
    <2> QED  BY <2>1 DEF Updated
  <1>3. after[j] = IF j \in DOMAIN states THEN mergeStates(states[j], s, keepOld) ELSE s
    BY DEF updateStartState
  <1>4. p.depth[j] > 0 =>
            /\ Agrees(p, i, after[j], s)
            /\ j \in DOMAIN states =>
                   \A n \in 1..p.depth[j] : after[j].stack[n].src = states[j].stack[n].src
    <2>1. CASE j \notin DOMAIN states
      BY <1>3, <2>1, CoversItself DEF Agrees
    <2>2. CASE j \in DOMAIN states
      <3>1. StartsIn(p, j, states[j])  BY <2>2 DEF StatesOf
      <3>2. p.depth[j] > 0 => Agrees(p, i, states[j], s)  BY <2>2 DEF Handed
      <3> DEFINE m == mergeStates(states[j], s, keepOld)
      <3>3. ASSUME Agrees(p, i, states[j], s)
            PROVE  /\ Agrees(p, i, m, s)
                   /\ \A n \in 1..p.depth[j] : m.stack[n].src = states[j].stack[n].src
        BY <1>1, <3>1, <3>3, MergeAgrees
      <3>4. after[j] = m  BY <1>3, <2>2
      <3> HIDE DEF m
      <3> QED  BY <3>2, <3>3, <3>4
    <2> QED  BY <2>1, <2>2
  <1> HIDE DEF after
  <1> SUFFICES Handed(p, after)  BY DEF after
  <1> SUFFICES ASSUME NEW a \in DOMAIN after, NEW b \in DOMAIN after, NEW t,
                      Goes(p, a, after[a], b, t), p.depth[b] > 0
               PROVE  Agrees(p, a, after[b], t)
    BY DEF Handed
  <1>5. /\ StartsIn(p, a, after[a]) /\ StartsIn(p, b, after[b]) /\ Leads(p, a, b)
        /\ a \in DOMAIN p.code /\ b \in DOMAIN p.code
    <2>1. StartsIn(p, a, after[a]) /\ StartsIn(p, b, after[b])  BY <1>2 DEF StatesOf
    <2>2. Leads(p, a, b)  BY <2>1, Outcome
    <2> QED  BY <2>1, <2>2 DEF StartsIn
  <1>6. Leads(p, i, j)  BY <1>1, Outcome
  <1>7. a \in DOMAIN states
    <2>1. CASE b \in DOMAIN states
      <3>1. PICK c \in DOMAIN states : Leads(p, c, b)  BY <2>1 DEF LedTo
      <3>2. c \in DOMAIN p.code  BY DEF StatesOf
      <3> QED  BY <1>5, <3>1, <3>2 DEF Single
    <2>2. CASE b \notin DOMAIN states
      <3>1. b = j  BY <1>2, <2>2
      <3> QED  BY <1>1, <1>5, <1>6, <3>1 DEF Single
    <2> QED  BY <2>1, <2>2
  <1>8. StartsIn(p, a, states[a])  BY <1>7 DEF StatesOf
  \* What instruction a led to before, it leads to still.
  <1>9. ASSUME NEW u, Goes(p, a, states[a], b, u)
        PROVE  Agrees(p, a, after[b], u)
    <2>1. CASE b # j
      <3>1. b \in DOMAIN states /\ after[b] = states[b]  BY <1>2, <2>1
      <3> QED  BY <1>7, <1>9, <3>1 DEF Handed
    <2>2. CASE b = j
      <3>1. a = i  BY <1>1, <1>5, <1>6, <2>2 DEF Single
      <3>2. u = s  BY <1>1, <1>9, <2>2, <3>1, OutcomeIsOne
      <3> QED  BY <1>4, <2>2, <3>1, <3>2
    <2> QED  BY <2>1, <2>2
  <1>10. CASE a # j
    <2>1. after[a] = states[a]  BY <1>2, <1>7, <1>10
    <2> QED  BY <1>9, <2>1
  <1>11. CASE a = j
    <2>1. PICK u : Goes(p, a, states[a], b, u)  BY DEF Goes
    <2>2. Agrees(p, a, after[b], u)  BY <1>9, <2>1
    <2>3. Above(p, after[a], states[a])  BY <1>2, <1>7 DEF Grown
    <2>4. \A n \in 1..p.depth[a] : after[a].stack[n].src = states[a].stack[n].src
      <3>1. p.depth[a] \in Nat  BY <1>8, Outcome, <2>1
      <3> QED  BY <1>4, <1>7, <1>11, <3>1
    <2> QED  BY <1>5, <1>8, <2>1, <2>2, <2>3, <2>4, OutcomeGrows
  <1> QED  BY <1>10, <1>11

\* Every set of instructions that has the first one, and those its members lead to, is
\* all of S: an induction principle.
Connected(p, S) ==
    \A C \in SUBSET S :
        1 \in C /\ (\A i \in C, j \in S : Leads(p, i, j) => j \in C) => C = S

LEMMA ConnectedIsLedTo ==
  ASSUME NEW p, p.depth[1] = 0, NEW S, 1 \in S, Connected(p, S)
  PROVE  LedTo(p, S)
  <1> SUFFICES ASSUME NEW j \in S, p.depth[j] > 0
               PROVE  \E i \in S : i # j /\ Leads(p, i, j)
    BY DEF LedTo
  <1>1. j # 1  BY SMT
  <1> DEFINE C == S \ {j}
  <1>2. C \in SUBSET S /\ 1 \in C /\ C # S  BY <1>1
  <1>3. \E a \in C, b \in S : Leads(p, a, b) /\ b \notin C  BY <1>2 DEF Connected
  <1> QED  BY <1>3

LEMMA ConnectedGrows ==
  ASSUME NEW p, NEW S, 1 \in S, Connected(p, S), NEW i \in S, NEW j, Leads(p, i, j)
  PROVE  Connected(p, S \cup {j})
  <1> SUFFICES ASSUME NEW C \in SUBSET (S \cup {j}), 1 \in C,
                      \A a \in C, b \in S \cup {j} : Leads(p, a, b) => b \in C
               PROVE  C = S \cup {j}
    BY DEF Connected
  <1>1. C \cap S = S
    <2> DEFINE D == C \cap S
    <2>1. D \in SUBSET S /\ 1 \in D /\ \A a \in D, b \in S : Leads(p, a, b) => b \in D
      OBVIOUS
    <2> QED  BY <2>1 DEF Connected
  <1>2. j \in C  BY <1>1
  <1> QED  BY <1>1, <1>2

FlowInv == Connected(prog, DOMAIN start) /\ (Single(prog) => Handed(prog, start))

Flows(p, states) ==
    /\ StatesOf(p, states) /\ 1 \in DOMAIN states
    /\ Connected(p, DOMAIN states) /\ (Single(p) => Handed(p, states))

FlowsOn(p, states, after, j) ==
    /\ Flows(p, after) /\ DOMAIN after = DOMAIN states \cup {j}
    /\ \A k \in DOMAIN states : k # j => after[k] = states[k]

\* One step of the interpreter that tells instruction j what instruction i does.
LEMMA FlowGrows ==
  ASSUME NEW p, NEW states, Flows(p, states),
         NEW i \in DOMAIN states, NEW j, NEW s, StartsIn(p, j, s), Leads(p, i, j),
         Single(p) => Goes(p, i, states[i], j, s),
         NEW keepOld \in BOOLEAN
  PROVE  FlowsOn(p, states, updateStartState(states, j, s, keepOld), j)
  <1> DEFINE after == updateStartState(states, j, s, keepOld)
  <1>1. StartsIn(p, i, states[i]) /\ 1 \in DOMAIN states /\ StatesOf(p, states)
        /\ Connected(p, DOMAIN states) /\ (Single(p) => Handed(p, states))
    BY DEF StatesOf, Flows
  <1>3. /\ StatesOf(p, after) /\ DOMAIN after = DOMAIN states \cup {j}
        /\ \A k \in DOMAIN states : k # j => after[k] = states[k]
    <2>1. Updated(p, states, after, j, s)  BY <1>1, UpdatedStates, Zenon
    <2> QED  BY <2>1 DEF Updated
  <1>4. p.depth[1] = 0  BY <1>1, ProgramFacts DEF StartsIn
  <1>5. LedTo(p, DOMAIN states)  BY <1>1, <1>4, ConnectedIsLedTo
  <1>6. Single(p) => Handed(p, after)  BY <1>1, <1>5, HandedOn
  <1>7. Connected(p, DOMAIN after)  BY <1>1, <1>3, ConnectedGrows
  <1> QED  BY <1>1, <1>3, <1>6, <1>7 DEF FlowsOn, Flows

LEMMA InitFlow == Init => FlowInv
  <1> SUFFICES ASSUME Init  PROVE  FlowInv  OBVIOUS
  <1>1. DOMAIN start = {1}  BY DEF Init, AbsInit
  <1>2. prog.depth[1] = 0
    BY AbsInterpAssumption, ProgramFacts DEF Init, AbsInit
  <1>3. Connected(prog, {1})  BY DEF Connected
  <1>4. Handed(prog, start)  BY <1>1, <1>2, SMT DEF Handed
  <1> QED  BY <1>1, <1>3, <1>4 DEF FlowInv

LEMMA FlowStraight ==
  ASSUME AnalysisInv, FlowInv, Straight, prog' = prog
  PROVE  FlowInv'
  <1>1. /\ cur # 0 /\ FallsThrough(Opcode) /\ ~Jumps(Opcode)
    BY SMT DEF Straight, FallsThrough, Jumps
  <1> DEFINE s == After(Instruction, cur, start[cur])
  <1>2. PICK keepOld \in BOOLEAN : start' = updateStartState(start, cur + 1, s, keepOld)
    BY DEF Straight
  <1>3. StatesOf(prog, start) /\ StartsIn(prog, cur + 1, s) /\ cur \in DOMAIN start
    BY <1>1, CurrentInstruction
  <1>4. Leads(prog, cur, cur + 1) /\ Goes(prog, cur, start[cur], cur + 1, s)
    BY <1>1 DEF Leads, Goes, Opcode, Instruction
  <1>5. 1 \in DOMAIN start  BY DEF AnalysisInv
  <1> HIDE DEF s
  <1> DEFINE after == updateStartState(start, cur + 1, s, keepOld)
  <1>6. FlowsOn(prog, start, after, cur + 1)
    <2>1. Flows(prog, start)  BY <1>3, <1>5 DEF FlowInv, Flows
    <2> QED  BY <1>2, <1>3, <1>4, <2>1, FlowGrows, Zenon
  <1> HIDE DEF after
  <1>7. start' = after  BY <1>2 DEF after
  <1> QED  BY <1>6, <1>7 DEF FlowInv, FlowsOn, Flows

LEMMA FlowJump ==
  ASSUME AnalysisInv, FlowInv, Jump, prog' = prog
  PROVE  FlowInv'
  <1>1. cur # 0 /\ Opcode = "JUMP_ABSOLUTE"  BY DEF Jump
  <1>2. ~FallsThrough(Opcode) /\ Jumps(Opcode)  BY <1>1, SMT DEF FallsThrough, Jumps
  <1> DEFINE s == AtTarget(Instruction, cur, start[cur])
  <1>3. /\ StatesOf(prog, start) /\ StartsIn(prog, Target, s) /\ cur \in DOMAIN start
        /\ Opcode \in Op /\ StartsIn(prog, cur, start[cur])
    BY <1>1, <1>2, CurrentInstruction
  <1>4. s = start[cur]
    <2>1. s = After(Instruction, cur, start[cur])  BY <1>1 DEF AtTarget, Opcode
    <2>2. After(Instruction, cur, start[cur]) = Pop(start[cur], Pops(Opcode))
      BY <1>1, AfterOf DEF Opcode
    <2>3. Pops(Opcode) = 0  BY <1>1, <1>3, PopsOf
    <2>4. start[cur] \in StateType(prog)  BY <1>3 DEF StartsIn, IsState
    <2> QED  BY <2>1, <2>2, <2>3, <2>4, PopNothing
  <1>5. PICK keepOld \in BOOLEAN : start' = updateStartState(start, Target, s, keepOld)
    BY <1>4 DEF Jump
  <1>6. Leads(prog, cur, Target) /\ Goes(prog, cur, start[cur], Target, s)
    BY <1>2 DEF Leads, Goes, Opcode, Instruction, Target
  <1>7. 1 \in DOMAIN start  BY DEF AnalysisInv
  <1> HIDE DEF s
  <1> DEFINE after == updateStartState(start, Target, s, keepOld)
  <1>8. FlowsOn(prog, start, after, Target)
    <2>1. Flows(prog, start)  BY <1>3, <1>7 DEF FlowInv, Flows
    <2> QED  BY <1>3, <1>5, <1>6, <2>1, FlowGrows, Zenon
  <1> HIDE DEF after
  <1>9. start' = after  BY <1>5 DEF after
  <1> QED  BY <1>8, <1>9 DEF FlowInv, FlowsOn, Flows

LEMMA FlowBranch ==
  ASSUME AnalysisInv, FlowInv, Branch, prog' = prog
  PROVE  FlowInv'
  <1>1. cur # 0 /\ Opcode \in CondJump  BY DEF Branch
  <1>2. FallsThrough(Opcode) /\ Jumps(Opcode)
    BY <1>1, SMT DEF FallsThrough, Jumps, CondJump
  <1> DEFINE s == After(Instruction, cur, start[cur])
             t == AtTarget(Instruction, cur, start[cur])
  <1>3. /\ StatesOf(prog, start) /\ StartsIn(prog, Target, t) /\ StartsIn(prog, cur + 1, s)
        /\ cur \in DOMAIN start /\ Opcode \in Op /\ StartsIn(prog, cur, start[cur])
        /\ cur \in DOMAIN prog.code /\ ProgramAssumption(prog)
    BY <1>1, <1>2, CurrentInstruction DEF StartsIn
  <1>4. PICK keepOld \in BOOLEAN :
            start' = updateStartState(updateStartState(start, Target, t, keepOld), cur + 1, s, keepOld)
    BY DEF Branch
  <1>5. /\ Leads(prog, cur, Target) /\ Goes(prog, cur, start[cur], Target, t)
        /\ Leads(prog, cur, cur + 1) /\ Goes(prog, cur, start[cur], cur + 1, s)
    BY <1>2 DEF Leads, Goes, Opcode, Instruction, Target
  <1>6. 1 \in DOMAIN start /\ prog.depth[1] = 0
    BY <1>3, ProgramFacts DEF AnalysisInv
  \* The target of the jump is another instruction: its stack is not empty.
  <1>7. ASSUME Single(prog)  PROVE  Target # cur
    <2>1. prog.depth[cur] > 0
      <3>1. Pops(Opcode) = 1  BY <1>1, <1>3, PopsOf
      <3>2. Pops(Opcode) <= prog.depth[cur] /\ prog.depth[cur] \in Nat
        BY <1>3, ProgramFacts DEF Opcode, Instruction
      <3> QED  BY <3>1, <3>2
    <2>2. LedTo(prog, DOMAIN start)  BY <1>6, ConnectedIsLedTo DEF FlowInv
    <2>3. PICK i \in DOMAIN start : i # cur /\ Leads(prog, i, cur)
      BY <1>3, <2>1, <2>2 DEF LedTo
    <2>4. i \in DOMAIN prog.code  BY <1>3 DEF StatesOf
    <2> QED  BY <1>3, <1>5, <1>7, <2>1, <2>3, <2>4 DEF Single
  <1> HIDE DEF s, t
  <1> DEFINE jumped == updateStartState(start, Target, t, keepOld)
  <1>8. FlowsOn(prog, start, jumped, Target)
    <2>1. Flows(prog, start)  BY <1>3, <1>6 DEF FlowInv, Flows
    <2> QED  BY <1>3, <1>4, <1>5, <2>1, FlowGrows, Zenon
  <1> HIDE DEF jumped
  <1>9. /\ Flows(prog, jumped) /\ cur \in DOMAIN jumped
        /\ Single(prog) => Goes(prog, cur, jumped[cur], cur + 1, s)
    BY <1>3, <1>5, <1>7, <1>8 DEF FlowsOn
  <1> DEFINE after == updateStartState(jumped, cur + 1, s, keepOld)
  <1>10. FlowsOn(prog, jumped, after, cur + 1)
    BY <1>3, <1>4, <1>5, <1>9, FlowGrows, Zenon
  <1> HIDE DEF after
  <1>11. start' = after  BY <1>4 DEF after, jumped
  <1> QED  BY <1>10, <1>11 DEF FlowInv, FlowsOn, Flows

LEMMA FlowStep ==
  ASSUME AnalysisInv, FlowInv, [Next]_vars
  PROVE  FlowInv'
  <1>1. CASE start' = start /\ prog' = prog  BY <1>1 DEF FlowInv
  <1>2. CASE Interpret
    BY <1>1, <1>2, FlowStraight, FlowBranch, FlowJump DEF Interpret, NextBlock, Leave
  <1> QED
    BY <1>1, <1>2 DEF Next, Analyse, Compile, Call, Execute, vars, absVars

LEMMA FlowAlways == Spec => [](AnalysisInv /\ FlowInv)
  BY InitFlow, AnalysisAlways, FlowStep, PTL DEF Spec

-----------------------------------------------------------------------------
(* All slots of one source are of one kind *)

\* The top of the stack behind instruction k.
Produced(p, states, k) == states[k + 1].stack[p.depth[k + 1]]

\* A slot that instruction k produced is what the start state behind k has on top.
SourceFits(p, states, slot) ==
    LET k == slot.src[1]
        op == p.code[k].op
    IN  /\ op \in Producer \cup {"LOAD_GLOBAL", "DUP_TOP", "JUMP_IF_FALSE_OR_POP"}
        /\ op \in Producer => k + 1 \in DOMAIN states /\ slot.kind = Produced(p, states, k).kind

LEMMA CoversBothWays ==
  \A a, b \in Kind : Covers(a, b) /\ Covers(b, a) => a = b
  BY DEF Covers, Kind

LEMMA Led ==
  ASSUME AnalysisInv, Analysed, NEW i \in DOMAIN start, NEW j, Leads(prog, i, j)
  PROVE  \E t : /\ Goes(prog, i, start[i], j, t) /\ StartsIn(prog, j, t)
                /\ j \in DOMAIN start /\ Above(prog, start[j], t)
  <1>1. /\ StartsIn(prog, i, start[i])
        /\ FallsThrough(prog.code[i].op) =>
               Expected(prog, start, i + 1, After(prog.code[i], i, start[i]))
        /\ Jumps(prog.code[i].op) =>
               Expected(prog, start, prog.code[i].arg, AtTarget(prog.code[i], i, start[i]))
    BY Successors
  <1>2. PICK t : Goes(prog, i, start[i], j, t) /\ Expected(prog, start, j, t)
    BY <1>1 DEF Leads, Goes
  <1>3. StartsIn(prog, j, t)  BY <1>1, <1>2, Outcome
  <1> QED  BY <1>2, <1>3 DEF Expected

LEMMA SourcesFit ==
  ASSUME AnalysisInv, Analysed, FlowInv, Single(prog)
  PROVE  \A j \in DOMAIN start : \A n \in 1..prog.depth[j] :
             SourceFits(prog, start, start[j].stack[n])
  <1> DEFINE Fit(j) == \A n \in 1..prog.depth[j] : SourceFits(prog, start, start[j].stack[n])
             C == {j \in DOMAIN start : Fit(j)}
  <1>1. StatesOf(prog, start) /\ 1 \in DOMAIN start /\ ProgramAssumption(prog)
        /\ prog.depth[1] = 0 /\ Connected(prog, DOMAIN start) /\ Handed(prog, start)
    BY AbsInterpAssumption, ProgramFacts DEF AnalysisInv, FlowInv
  <1>2. 1 \in C  BY <1>1, SMT
  <1>3. ASSUME NEW i \in C, NEW j \in DOMAIN start, Leads(prog, i, j)
        PROVE  j \in C
    <2> SUFFICES ASSUME NEW n \in 1..prog.depth[j]
                 PROVE  SourceFits(prog, start, start[j].stack[n])
      OBVIOUS
    <2>1. i \in DOMAIN start /\ Fit(i)  OBVIOUS
    <2> HIDE DEF C, Fit
    <2>2. PICK t : /\ Goes(prog, i, start[i], j, t) /\ StartsIn(prog, j, t)
                   /\ Above(prog, start[j], t)
      BY <1>3, <2>1, Led
    <2>3. StartsIn(prog, i, start[i]) /\ StartsIn(prog, j, start[j])
      BY <1>1, <2>1 DEF StatesOf
    <2>4. /\ SlotsBehind(prog, i, start[i], t)
          /\ Kept(prog, i) \in Nat /\ Kept(prog, i) <= prog.depth[i] /\ prog.depth[i] \in Nat
          /\ Len(t.stack) = prog.depth[j] /\ prog.depth[j] \in Nat
          /\ prog.depth[j] > Kept(prog, i) => prog.code[i].op \in
                 Producer \cup {"LOAD_GLOBAL", "DUP_TOP", "JUMP_IF_FALSE_OR_POP"}
          /\ prog.code[i].op \in Producer => j = i + 1 /\ prog.depth[j] = Kept(prog, i) + 1
      BY <2>2, <2>3, Outcome
    <2>5. Agrees(prog, i, start[j], t)
      <3>1. prog.depth[j] > 0  BY <2>4
      <3> QED  BY <1>1, <2>1, <2>2, <3>1 DEF Handed
    <2>6. SlotBehind(prog, i, start[i], t, n)  BY <2>4 DEF SlotsBehind
    <2>7. start[j].stack[n].src = t.stack[n].src  BY <2>4, <2>5 DEF Agrees
    <2>8. CASE n <= Kept(prog, i)
      <3>1. t.stack[n] = start[i].stack[n] /\ n \in 1..prog.depth[i]
        BY <2>4, <2>6, <2>8 DEF SlotBehind
      <3>2. SourceFits(prog, start, t.stack[n])  BY <2>1, <3>1 DEF Fit
      <3>3. start[j].stack[n].kind = t.stack[n].kind
        <4>1. n <= Passed(prog, i)  BY <2>4, <2>8 DEF Passed
        <4>2. Covers(t.stack[n].kind, start[j].stack[n].kind)  BY <2>4, <2>5, <4>1 DEF Agrees
        <4>3. Covers(start[j].stack[n].kind, t.stack[n].kind)  BY <2>2, <2>4 DEF Above
        <4>4. start[j].stack[n].kind \in Kind /\ t.stack[n].kind \in Kind
          <5>1. /\ start[j].stack \in Seq(SlotType) /\ Len(start[j].stack) = prog.depth[j]
                /\ t.stack \in Seq(SlotType)
            BY <2>2, <2>3 DEF StartsIn, IsState, StateType
          <5>2. start[j].stack[n] \in SlotType /\ t.stack[n] \in SlotType  BY <2>4, <5>1, SMT
          <5> QED  BY <5>2 DEF SlotType
        <4> QED  BY <4>2, <4>3, <4>4, CoversBothWays
      <3> QED  BY <2>7, <3>2, <3>3 DEF SourceFits
    <2>9. CASE ~(n <= Kept(prog, i))
      <3>1. n > Kept(prog, i)  BY <2>4, <2>9
      <3>2. start[j].stack[n].src[1] = i  BY <2>6, <2>7, <3>1 DEF SlotBehind
      <3>3. prog.code[i].op \in Producer \cup {"LOAD_GLOBAL", "DUP_TOP", "JUMP_IF_FALSE_OR_POP"}
        BY <2>4, <3>1
      <3>4. ASSUME prog.code[i].op \in Producer
            PROVE  i + 1 \in DOMAIN start
                   /\ start[j].stack[n].kind = Produced(prog, start, i).kind
        <4>1. j = i + 1 /\ prog.depth[j] = Kept(prog, i) + 1  BY <2>4, <3>4
        <4>2. n = prog.depth[j]  BY <2>4, <3>1, <4>1
        <4> QED  BY <4>1, <4>2 DEF Produced
      <3> QED  BY <3>2, <3>3, <3>4 DEF SourceFits
    <2> QED  BY <2>8, <2>9
  <1> HIDE DEF Fit
  <1>4. C = DOMAIN start  BY <1>1, <1>2, <1>3 DEF Connected
  <1> QED  BY <1>4 DEF Fit

\* A load of a local without a value produces a slot without a kind.
LEMMA UndefinedLoad ==
  ASSUME AnalysisInv, Analysed, FlowInv, Single(prog), NEW i \in DOMAIN start,
         prog.code[i].op = "LOAD_FAST", start[i].locals[prog.code[i].arg].kind = "Undefined"
  PROVE  Produced(prog, start, i).kind = "Undefined"
  <1>1. StatesOf(prog, start) /\ StartsIn(prog, i, start[i]) /\ Handed(prog, start)
    BY DEF AnalysisInv, StatesOf, FlowInv
  <1>2. Leads(prog, i, i + 1)  BY SMT DEF Leads, FallsThrough
  <1>3. PICK t : Goes(prog, i, start[i], i + 1, t) /\ i + 1 \in DOMAIN start
    BY <1>2, Led
  <1>4. /\ SlotsBehind(prog, i, start[i], t) /\ Kept(prog, i) \in Nat
        /\ Len(t.stack) = prog.depth[i + 1] /\ prog.depth[i + 1] \in Nat
        /\ prog.depth[i + 1] = Kept(prog, i) + 1
    BY <1>1, <1>3, Outcome DEF Producer
  <1>5. PICK n \in Nat : n = prog.depth[i + 1]  BY <1>4
  <1>6. n > Kept(prog, i) /\ n <= Passed(prog, i) /\ n \in 1..Len(t.stack)
    BY <1>4, <1>5 DEF Passed
  <1>7. t.stack[n].kind = "Undefined"  BY <1>4, <1>6 DEF SlotsBehind, SlotBehind
  <1>8. Agrees(prog, i, start[i + 1], t)
    <2>1. prog.depth[i + 1] > 0  BY <1>4
    <2> QED  BY <1>1, <1>3, <2>1 DEF Handed
  <1>9. Covers("Undefined", start[i + 1].stack[n].kind)  BY <1>6, <1>7, <1>8 DEF Agrees
  <1> QED  BY <1>5, <1>9 DEF Covers, Produced

\* An edge comes from an instruction that produces a value, of the kind of the edge.
LEMMA EdgeSources ==
  ASSUME AnalysisInv, Analysed, FlowInv, Single(prog), NEW e \in EdgeSet
  PROVE  LET k == e.from
             op == prog.code[k].op
         IN  /\ e.to \in DOMAIN start /\ e.to \in 1..Len(prog.code) /\ Len(prog.code) \in Nat
             /\ k \in DOMAIN prog.code
             /\ op \in Producer \cup {"LOAD_GLOBAL", "DUP_TOP", "JUMP_IF_FALSE_OR_POP"}
             /\ op \in Producer => e.kind = Produced(prog, start, k).kind
  <1>1. StatesOf(prog, start) /\ ProgramAssumption(prog)
    BY AbsInterpAssumption DEF AnalysisInv
  <1>2. PICK i \in DOMAIN start : \E n \in Positions(prog, i) : e = EdgeAt(start, i, n)
    BY EdgesAreOperands
  <1>3. PICK n \in Positions(prog, i) : e = EdgeAt(start, i, n)  BY <1>2
  <1>4. i \in DOMAIN prog.code /\ IsState(prog, i, start[i])  BY <1>1 DEF StatesOf, StartsIn
  <1>5. prog.code[i].op \in Op /\ Pops(prog.code[i].op) <= prog.depth[i] /\ prog.depth[i] \in Nat
        /\ Pops(prog.code[i].op) \in 0..2
    BY <1>1, <1>4, ProgramFacts, PopsOf
  <1>6. n \in 0..(prog.depth[i] - 1)  BY <1>5 DEF Positions
  <1>7. PICK m \in 1..prog.depth[i] : m = prog.depth[i] - n  BY <1>5, <1>6
  <1>8. Top(start[i], n) = start[i].stack[m] /\ Top(start[i], n).src[1] \in DOMAIN prog.code
    BY <1>1, <1>4, <1>6, <1>7, OperandSlots
  <1>9. SourceFits(prog, start, start[i].stack[m])  BY SourcesFit
  <1>10. e.from = start[i].stack[m].src[1] /\ e.kind = start[i].stack[m].kind /\ e.to = i
    BY <1>3, <1>8 DEF EdgeAt
  <1>11. Len(prog.code) \in Nat /\ i \in 1..Len(prog.code)  BY <1>1, <1>4, ProgramFacts
  <1> QED  BY <1>8, <1>9, <1>10, <1>11 DEF SourceFits

\* getEdgesFrom keeps an edge of every position.
LEMMA LastConsumer ==
  ASSUME AnalysisInv, Analysed, FlowInv, Single(prog), NEW e \in EdgeSet
  PROVE  \E d \in getEdgesFrom(EdgeSet, e.from) : d \in EdgeSet /\ d.from = e.from
  <1> DEFINE N == Len(prog.code)
             At == {d \in EdgeSet : d.from = e.from /\ d.position = e.position}
             T == {N - d.to : d \in At}
  <1>1. N \in Nat /\ \A d \in EdgeSet : d.to \in 1..N  BY EdgeSources
  <1> HIDE DEF N
  <1>2. T \subseteq Nat /\ T # {}  BY <1>1
  <1>3. \E x \in T : \A y \in T : x <= y
    <2> HIDE DEF T
    <2> QED  BY <1>2, Least
  <1>4. PICK d \in At : \A c \in At : N - d.to <= N - c.to  BY <1>3
  <1>5. \A c \in At : c.to <= d.to  BY <1>1, <1>4
  <1>6. d \in getEdgesFrom(EdgeSet, e.from)
    <2>1. d \in EdgeSet /\ d.from = e.from /\ d.position = e.position  OBVIOUS
    <2>2. \A c \in EdgeSet : c.from = e.from /\ c.position = d.position => c.to <= d.to
      BY <1>5, <2>1
    <2> QED  BY <2>1, <2>2 DEF getEdgesFrom
  <1> QED  BY <1>6

\* What the instructions in the escaped set owe to their edges.
Escapes(p, states, escape) ==
    /\ \A i \in escape : supportsUnboxing(p.code[i].op)
    /\ \A i \in DOMAIN states : \A n \in Positions(p, i) :
           LET e == EdgeAt(states, i, n)
           IN  ~supportsEscaping(e.kind) => e.from \notin escape /\ e.to \notin escape
    /\ \A i \in DOMAIN states :
           p.code[i].op = "LOAD_FAST" /\ i \in escape =>
               states[i].locals[p.code[i].arg].kind # "Undefined"

\* fixInstructions and fixLocals: neither end of an edge that is not escapable is
\* escaped, and no load of a local without a value.
LEMMA EscapesFit ==
  ASSUME AnalysisInv, Analysed, FlowInv, Single(prog), NEW escape,
         escape \subseteq fixInstructions(EdgeSet) \cup fixLocals(EdgeSet)
  PROVE  Escapes(prog, start, escape)
  <1>a. PICK edges : edges = EdgeSet  OBVIOUS
  <1>1. escape \subseteq fixInstructions(edges) \cup fixLocals(edges)  BY <1>a
  <1>2. ASSUME NEW i \in fixInstructions(edges)
        PROVE  /\ supportsUnboxing(prog.code[i].op) /\ prog.code[i].op \notin LocalOp
               /\ \A e \in edges : e.to = i => supportsEscaping(e.kind)
               /\ \A e \in getEdgesFrom(edges, i) : supportsEscaping(e.kind)
    BY DEF fixInstructions, escapable
  <1>3. ASSUME NEW i \in fixLocals(edges)
        PROVE  /\ prog.code[i].op \in LocalOp
               /\ prog.code[i].op \in {"LOAD_FAST", "STORE_FAST"} =>
                      \E e \in edges : localEdges(edges, i) = {e} /\ supportsEscaping(e.kind)
    <2>1. PICK v \in unboxedFastLocals(edges) : \E op \in LocalOp : i \in Uses(op, v)
      BY DEF fixLocals
    <2>2. prog.code[i].op \in LocalOp /\ i \in DOMAIN prog.code /\ prog.code[i].arg = v
      BY <2>1 DEF Uses
    <2>3. unboxedLocal(edges, v)  BY DEF unboxedFastLocals
    <2>4. prog.code[i].op \in {"LOAD_FAST", "STORE_FAST"} =>
              i \in Uses("LOAD_FAST", v) \cup Uses("STORE_FAST", v)
      BY <2>2 DEF Uses
    <2>5. ASSUME prog.code[i].op \in {"LOAD_FAST", "STORE_FAST"}
          PROVE  \E e \in edges : localEdges(edges, i) = {e} /\ supportsEscaping(e.kind)
      <3>1. PICK kind \in Kind : supportsEscaping(kind) /\
                \A j \in Uses("LOAD_FAST", v) \cup Uses("STORE_FAST", v) :
                    \E e \in edges : localEdges(edges, j) = {e} /\ e.kind = kind
        BY <2>3, Zenon DEF unboxedLocal
      <3> QED  BY <2>4, <2>5, <3>1
    <2> QED  BY <2>2, <2>5
  \* All edges from an escaped instruction are of one kind, and one of them is escapable.
  <1>4. ASSUME NEW e \in edges, e.from \in escape
        PROVE  supportsEscaping(e.kind)
    <2>1. PICK k : k = e.from  OBVIOUS
    <2>2. /\ prog.code[k].op \in Producer \cup {"LOAD_GLOBAL", "DUP_TOP", "JUMP_IF_FALSE_OR_POP"}
          /\ \A d \in edges : d.from = k /\ prog.code[k].op \in Producer =>
                 d.kind = Produced(prog, start, k).kind
      BY <1>a, <2>1, EdgeSources
    <2>3. PICK d \in getEdgesFrom(edges, k) : d \in edges /\ d.from = k
      BY <1>a, <2>1, LastConsumer
    <2>4. CASE k \in fixInstructions(edges)
      <3>1. supportsUnboxing(prog.code[k].op) /\ prog.code[k].op \notin LocalOp
            /\ supportsEscaping(d.kind)
        BY <1>2, <2>3, <2>4
      <3>2. prog.code[k].op \in Producer
        BY <2>2, <3>1, SMT DEF supportsUnboxing, Producer, LocalOp
      <3> QED  BY <2>1, <2>2, <2>3, <3>1, <3>2
    <2>5. CASE k \in fixLocals(edges)
      <3>1. prog.code[k].op = "LOAD_FAST"
        BY <1>3, <2>2, <2>5, SMT DEF Producer, LocalOp
      <3>2. PICK x \in edges : getEdgesFrom(edges, k) = {x} /\ supportsEscaping(x.kind)
        BY <1>3, <2>5, <3>1 DEF localEdges
      <3>3. d = x  BY <2>3, <3>2
      <3> QED  BY <2>1, <2>2, <2>3, <3>1, <3>2, <3>3 DEF Producer
    <2> QED  BY <1>1, <1>4, <2>1, <2>4, <2>5
  <1>5. ASSUME NEW e \in edges, e.to \in escape
        PROVE  supportsEscaping(e.kind)
    <2>1. CASE e.to \in fixInstructions(edges)  BY <1>2, <2>1
    <2>2. CASE e.to \in fixLocals(edges)
      <3>1. prog.code[e.to].op \in LocalOp  BY <1>3, <2>2
      <3>2. prog.code[e.to].op = "STORE_FAST"
        <4>1. PICK i \in DOMAIN start : \E n \in Positions(prog, i) : e = EdgeAt(start, i, n)
          BY <1>a, EdgesAreOperands
        <4>2. PICK n \in Positions(prog, i) : e = EdgeAt(start, i, n)  BY <4>1
        <4>3. e.to = i  BY <4>2 DEF EdgeAt
        <4>4. i \in DOMAIN prog.code /\ ProgramAssumption(prog)
          BY AbsInterpAssumption DEF AnalysisInv, StatesOf, StartsIn
        <4>5. Pops(prog.code[i].op) # 0 /\ prog.code[i].op \in Op
          BY <4>2, <4>4, ProgramFacts, SMT DEF Positions
        <4> QED  BY <3>1, <4>3, <4>5, PopsOf DEF LocalOp
      <3>3. PICK x \in edges : localEdges(edges, e.to) = {x} /\ supportsEscaping(x.kind)
        BY <1>3, <2>2, <3>2
      <3>4. e \in localEdges(edges, e.to)  BY <3>2 DEF localEdges
      <3> QED  BY <3>3, <3>4
    <2> QED  BY <1>1, <1>5, <2>1, <2>2
  <1>6. \A i \in escape : supportsUnboxing(prog.code[i].op)
    BY <1>1, <1>2, <1>3 DEF supportsUnboxing
  <1>7. ASSUME NEW i \in DOMAIN start, NEW n \in Positions(prog, i)
        PROVE  LET e == EdgeAt(start, i, n)
               IN  ~supportsEscaping(e.kind) => e.from \notin escape /\ e.to \notin escape
    <2>1. EdgeAt(start, i, n) \in edges  BY <1>a, EdgesAreOperands
    <2> QED  BY <1>4, <1>5, <2>1
  <1>8. ASSUME NEW i \in DOMAIN start, prog.code[i].op = "LOAD_FAST", i \in escape,
               start[i].locals[prog.code[i].arg].kind = "Undefined"
        PROVE  FALSE
    <2>1. i \in fixLocals(edges)
      BY <1>1, <1>2, <1>8 DEF LocalOp
    <2>2. PICK x \in edges : getEdgesFrom(edges, i) = {x} /\ supportsEscaping(x.kind)
      BY <1>3, <1>8, <2>1 DEF localEdges
    <2>3. x.from = i  BY <2>2 DEF getEdgesFrom
    <2>4. x.kind = Produced(prog, start, i).kind
      BY <1>a, <1>8, <2>3, EdgeSources DEF Producer
    <2>5. x.kind = "Undefined"  BY <1>8, <2>4, UndefinedLoad
    <2> QED  BY <2>2, <2>5 DEF supportsEscaping
  <1> QED  BY <1>6, <1>7, <1>8 DEF Escapes

\* What a body owes to the edges of its graph.
TidyBody(p, states, body) ==
    LET graph == body.graph
    IN  /\ Escapes(p, states, graph.escape)
        /\ graph.valid =>
               \A i \in DOMAIN states : \A n \in Positions(p, i) :
                   graph.operands[i][n + 1].escaped =
                       transition(graph.escape, EdgeAt(states, i, n))
        /\ ~graph.valid => graph.escape = {}

LEMMA BodyIsTidy ==
  ASSUME AnalysisInv, Analysed, FlowInv, Single(prog), NEW generic \in BOOLEAN
  PROVE  TidyBody(prog, start, Body(generic))
  <1> DEFINE E == fixInstructions(EdgeSet) \cup (IF ~generic THEN fixLocals(EdgeSet) ELSE {})
             g == deoptimizeInstructions(EdgeSet, E)
             operand(e) == [kind |-> e.kind, position |-> e.position,
                            escaped |-> transition(g.escape, e)]
             graph == Graph(~generic)
  <1>1. ProgramAssumption(prog) /\ StatesOf(prog, start)
    BY AbsInterpAssumption DEF AnalysisInv
  <1>2. graph = [escape   |-> IF g.invalid THEN {} ELSE g.escape,
                 valid    |-> ~g.invalid,
                 operands |-> [i \in DOMAIN prog.code |->
                                  [n \in DOMAIN getEdges(EdgeSet, i) |->
                                      operand(getEdges(EdgeSet, i)[n])]]]
    BY Zenon DEF Graph
  <1>3. g.escape \subseteq fixInstructions(EdgeSet) \cup fixLocals(EdgeSet)
    <2>1. Reduced(g.escape, E)  BY <1>1, EdgesEndElsewhere, Deoptimized
    <2>2. E \subseteq fixInstructions(EdgeSet) \cup fixLocals(EdgeSet)  OBVIOUS
    <2> HIDE DEF g, E
    <2> QED  BY <2>1, <2>2 DEF Reduced
  <1> HIDE DEF g, graph
  <1>4. graph.escape \in {{}, g.escape} /\ (graph.valid => graph.escape = g.escape)
        /\ (~graph.valid => graph.escape = {})
    BY <1>2
  <1>5. Escapes(prog, start, graph.escape)
    <2>1. graph.escape \subseteq fixInstructions(EdgeSet) \cup fixLocals(EdgeSet)
      BY <1>3, <1>4
    <2> QED  BY <2>1, EscapesFit
  <1>6. ASSUME graph.valid, NEW i \in DOMAIN start, NEW n \in Positions(prog, i)
        PROVE  graph.operands[i][n + 1].escaped =
                   transition(graph.escape, EdgeAt(start, i, n))
    <2> DEFINE list == getEdges(EdgeSet, i)
    <2>1. i \in DOMAIN prog.code  BY <1>1 DEF StatesOf, StartsIn
    <2>2. PICK k \in Nat : k = EdgeCount(prog, start, i)
                           /\ list = [m \in 1..k |-> EdgeAt(start, i, m - 1)]
      BY <2>1, FittingEdges
    <2>3. n \in Nat /\ n + 1 \in 1..k /\ (n + 1) - 1 = n  BY <2>2 DEF Positions, EdgeCount
    <2> HIDE DEF list
    <2>4. DOMAIN list = 1..k /\ list[n + 1] = EdgeAt(start, i, n)  BY <2>2, <2>3
    <2>5. graph.operands[i] = [m \in DOMAIN list |-> operand(list[m])]
      BY <1>2, <2>1 DEF list
    <2>6. graph.operands[i][n + 1] = operand(list[n + 1])  BY <2>3, <2>4, <2>5
    <2>7. graph.operands[i][n + 1].escaped = transition(g.escape, list[n + 1])  BY <2>6
    <2> QED  BY <1>4, <1>6, <2>4, <2>7
  <1>7. Body(generic).graph = graph  BY DEF Body, graph
  <1> QED  BY <1>4, <1>5, <1>6, <1>7 DEF TidyBody

\* A load behind the deletion of its local, in the order of the byte code, is checked.
ChecksDeleted(body) ==
    \A i \in DOMAIN prog.code :
        prog.code[i].op = "LOAD_FAST" /\ DeletedLast(prog.code[i].arg, i) => i \in body.checked

LEMMA DeletedIsChecked ==
  ASSUME ProgramAssumption(prog), NEW generic \in BOOLEAN
  PROVE  ChecksDeleted(Body(generic))
  <1> SUFFICES ASSUME NEW i \in DOMAIN prog.code, prog.code[i].op = "LOAD_FAST",
                      DeletedLast(prog.code[i].arg, i)
               PROVE  i \in checked(generic)
    BY DEF ChecksDeleted, Body
  <1>a. PICK v : v = prog.code[i].arg  OBVIOUS
  <1>1. PICK d \in Uses("DELETE_FAST", v) :
            d < i /\ \A j \in Uses("STORE_FAST", v) : j < i => j < d
    BY <1>a DEF DeletedLast
  <1>2. \A j \in DOMAIN prog.code : j \in Nat  BY ProgramFacts
  <1>3. \A op : Uses(op, v) \subseteq DOMAIN prog.code  BY DEF Uses
  <1> DEFINE before == {j \in Touches(v) : j < i}
  <1>4. d \in before  BY <1>1 DEF Touches
  <1>5. ~\E j \in Uses("STORE_FAST", v) \cap before : \A k \in before : k <= j
    <2> SUFFICES ASSUME NEW j \in Uses("STORE_FAST", v), j < i, d <= j
                 PROVE  FALSE
      BY <1>4
    <2>1. j < d  BY <1>1
    <2>2. j \in Nat /\ d \in Nat  BY <1>2, <1>3
    <2> QED  BY <2>1, <2>2
  <1>6. \A initially : ~assignedAt(v, i, initially)
    BY <1>4, <1>5, Zenon DEF assignedAt
  <1> QED  BY <1>6, <1>a, Zenon DEF checked

TidyInv ==
    bodies # <<>> /\ Single(prog) =>
        \A name \in {"specialized", "generic"} :
            TidyBody(prog, start, bodies[name]) /\ ChecksDeleted(bodies[name])

LEMMA TidyStep ==
  ASSUME AnalysisInv, FlowInv, BodiesInv, TidyInv, [Next]_vars
  PROVE  TidyInv'
  <1>1. CASE Analyse
    <2>1. ~Analysed
      BY <1>1, SMT DEF Analyse, Interpret, NextBlock, Straight, Branch, Jump, Leave, Analysed
    <2>2. bodies' = bodies  BY <1>1 DEF Analyse
    <2> QED  BY <2>1, <2>2 DEF BodiesInv, TidyInv
  <1>2. CASE Compile
    <2>1. bodies' = [specialized |-> Body(FALSE), generic |-> Body(TRUE)] /\ Analysed
          /\ prog' = prog /\ start' = start
      BY <1>2 DEF Compile, absVars
    <2>a. PICK one : one = bodies'["specialized"]  OBVIOUS
    <2>b. PICK two : two = bodies'["generic"]  OBVIOUS
    <2>2. one = Body(FALSE) /\ two = Body(TRUE)  BY <2>1, <2>a, <2>b
    <2>3. /\ Single(prog) => TidyBody(prog, start, one) /\ TidyBody(prog, start, two)
          /\ ChecksDeleted(one) /\ ChecksDeleted(two)
      <3>1. ProgramAssumption(prog)  BY AbsInterpAssumption DEF AnalysisInv
      <3> QED  BY <2>1, <2>2, <3>1, BodyIsTidy, DeletedIsChecked
    <2>4. bodies'["specialized"] = one /\ bodies'["generic"] = two  BY <2>a, <2>b
    <2>5. ChecksDeleted(one)' /\ ChecksDeleted(two)'
      BY <2>1, <2>3 DEF ChecksDeleted, DeletedLast, Uses
    <2>6. ChecksDeleted(bodies["specialized"])' /\ ChecksDeleted(bodies["generic"])'
      BY <2>4, <2>5 DEF ChecksDeleted
    <2> QED  BY <2>1, <2>3, <2>4, <2>6 DEF TidyInv
  <1>3. CASE UNCHANGED <<absVars, bodies>>
    BY <1>3 DEF TidyInv, absVars, ChecksDeleted, DeletedLast, Uses
  <1> QED  BY <1>1, <1>2, <1>3 DEF Next, Call, Execute, vars

LEMMA TidyAlways == Spec => [](AnalysisInv /\ FlowInv /\ BodiesInv /\ TidyInv)
  <1>1. Init => TidyInv  BY DEF Init, TidyInv
  <1> QED  BY <1>1, AnalysisAlways, FlowAlways, BodiesAlways, TidyStep, PTL DEF Spec

-----------------------------------------------------------------------------
(* A call in a tidy function, in either body *)

\* Every value is represented as its source is compiled.
BoxedAs(s, escape, stack) ==
    \A n \in 1..Len(stack) : stack[n].boxed = (s.stack[n].src[1] \notin escape)

\* What the state has as assigned is bound.
BoundIn(p, s, python) ==
    \A v \in 0..(p.nlocals - 1) : ~s.locals[v].maybeUndefined => python[v] # "null"

Cells(p) == [0..(p.nlocals - 1) -> ValueKind \cup {"null"}]

\* A local is where the body keeps it.
HeldIn(p, U, fast, native, python) ==
    \A v \in 0..(p.nlocals - 1) : /\ v \in U => python[v] \in {"null", native[v]}
                                  /\ v \notin U => fast[v] = python[v]

Tracks(p, states, escape, U, f) ==
    /\ f.pc \in DOMAIN states
    /\ f.stack \in Seq(ValueType) /\ Len(f.stack) = p.depth[f.pc]
    /\ BoxedAs(states[f.pc], escape, f.stack)
    /\ BoundIn(p, states[f.pc], f.python)
    /\ f.fast \in Cells(p) /\ f.native \in Cells(p) /\ f.python \in Cells(p)
    /\ HeldIn(p, U, f.fast, f.native, f.python)

EscapeSet == bodies[frame.body].graph.escape

OnTidyTrack(U) ==
    /\ AnalysisInv /\ FlowInv /\ BodiesInv /\ TidyInv /\ bodies # <<>> /\ Tidy
    /\ HasFields(frame) /\ frame.body \in {"specialized", "generic"} /\ frame.end = "running"
    /\ NativeAre(prog, EscapeSet, U)
    /\ Tracks(prog, start, EscapeSet, U, frame)

LEMMA TidyFacts ==
  ASSUME NEW U, OnTidyTrack(U)
  PROVE  LET i == frame.pc
             s == start[i]
             d == prog.depth[i]
         IN  /\ i \in DOMAIN start /\ i \in DOMAIN prog.code /\ Ins = prog.code[i] /\ i \in Nat
             /\ ProgramAssumption(prog) /\ InstructionAssumption(prog, i, Ins)
             /\ s \in StateType(prog) /\ IsState(prog, i, s) /\ d \in Nat
             /\ Len(s.stack) = d /\ Len(frame.stack) = d /\ Ins.op \in Op
             /\ Pops(Ins.op) \in 0..2 /\ Pops(Ins.op) <= d /\ Pushes(Ins.op) \in 0..2
             /\ Kept(prog, i) = d - Pops(Ins.op) /\ Kept(prog, i) \in Nat
             /\ FallsThrough(Ins.op) => Goes(prog, i, s, i + 1, After(Ins, i, s))
             /\ Jumps(Ins.op) => Goes(prog, i, s, Ins.arg, AtTarget(Ins, i, s))
             /\ Analysed /\ Single(prog) /\ TidyBody(prog, start, bodies[frame.body])
             /\ GoodBody(prog, start, bodies[frame.body]) /\ ChecksDeleted(bodies[frame.body])
  <1> DEFINE i == frame.pc
             s == start[i]
  <1>1. /\ AnalysisInv /\ BodiesInv /\ bodies # <<>> /\ TidyInv /\ Tidy
        /\ Tracks(prog, start, EscapeSet, U, frame)
        /\ frame.body \in {"specialized", "generic"}
    BY DEF OnTidyTrack
  <1>2. Single(prog)  BY <1>1, EmptyJoinsAreSingle DEF Tidy
  <1>3. /\ Analysed /\ GoodBody(prog, start, bodies[frame.body])
        /\ TidyBody(prog, start, bodies[frame.body]) /\ ChecksDeleted(bodies[frame.body])
    BY <1>1, <1>2 DEF BodiesInv, TidyInv
  <1>4. i \in DOMAIN start /\ Len(frame.stack) = prog.depth[i]  BY <1>1 DEF Tracks
  <1>5. StartsIn(prog, i, s)  BY <1>1, <1>4 DEF AnalysisInv, StatesOf
  <1>6. /\ IsState(prog, i, s) /\ ProgramAssumption(prog) /\ i \in DOMAIN prog.code
        /\ s \in StateType(prog) /\ Len(s.stack) = prog.depth[i]
    BY <1>5 DEF StartsIn, IsState
  <1>7. /\ prog.depth[i] \in Nat /\ prog.code[i].op \in Op /\ i \in Nat
        /\ Pops(prog.code[i].op) <= prog.depth[i]
        /\ InstructionAssumption(prog, i, prog.code[i])
    BY <1>6, ProgramFacts
  <1>8. Pops(prog.code[i].op) \in 0..2 /\ Pushes(prog.code[i].op) \in 0..2
    BY <1>7, PopsOf, PushesOf
  <1>9. Kept(prog, i) = prog.depth[i] - Pops(prog.code[i].op) /\ Kept(prog, i) \in Nat
    BY <1>7, <1>8 DEF Kept
  <1>10. /\ FallsThrough(prog.code[i].op) => Goes(prog, i, s, i + 1, After(prog.code[i], i, s))
         /\ Jumps(prog.code[i].op) =>
                Goes(prog, i, s, prog.code[i].arg, AtTarget(prog.code[i], i, s))
    BY DEF Goes
  <1>11. Ins = prog.code[i]  BY DEF Ins
  <1> QED  BY <1>2, <1>3, <1>4, <1>6, <1>7, <1>8, <1>9, <1>10, <1>11

LEMMA TidyOperand ==
  ASSUME NEW U, OnTidyTrack(U), NEW n \in 0..(Pops(Ins.op) - 1)
  PROVE  /\ Operand(n) \in ValueType
         /\ Operand(n).boxed = (Top(start[frame.pc], n).src[1] \notin EscapeSet)
  <1> DEFINE i == frame.pc
             s == start[i]
             d == prog.depth[i]
  <1>1. /\ i \in DOMAIN prog.code /\ ProgramAssumption(prog) /\ IsState(prog, i, s)
        /\ d \in Nat /\ Len(s.stack) = d /\ Len(frame.stack) = d
        /\ Pops(Ins.op) \in 0..2 /\ Pops(Ins.op) <= d
    BY TidyFacts
  <1>2. frame.stack \in Seq(ValueType) /\ BoxedAs(s, EscapeSet, frame.stack)
    BY DEF OnTidyTrack, Tracks
  <1> HIDE DEF d, s, i
  <1>3. n \in 0..(d - 1) /\ d - n \in 1..d  BY <1>1, SMT
  <1>4. Top(s, n) = s.stack[d - n]  BY <1>1, <1>3, OperandSlots DEF d
  <1>5. Operand(n) = frame.stack[d - n]  BY <1>1 DEF Operand
  <1>6. Operand(n) \in ValueType  BY <1>1, <1>2, <1>3, <1>5, SMT
  <1>7. Operand(n).boxed = (Top(s, n).src[1] \notin EscapeSet)
    BY <1>1, <1>2, <1>3, <1>4, <1>5 DEF BoxedAs
  <1> QED  BY <1>6, <1>7 DEF s, i

LEMMA BoxedValue ==
  ASSUME NEW kind \in ValueKind, NEW boxed \in BOOLEAN
  PROVE  Value(kind, boxed) \in ValueType /\ Value(kind, boxed).boxed = boxed
  BY DEF Value, ValueType

\* The transition of an edge turns what its source is compiled to produce into what
\* its consumer is compiled to take.
LEMMA TransitionFits ==
  ASSUME NEW escape, NEW e, ~supportsEscaping(e.kind) => e.from \notin escape /\ e.to \notin escape
  PROVE  LET how == transition(escape, e)
         IN  /\ how = "Unbox" => e.from \notin escape /\ e.to \in escape /\ supportsEscaping(e.kind)
             /\ how = "Box" => e.from \in escape /\ e.to \notin escape
             /\ how \notin {"Box", "Unbox"} => (e.from \in escape <=> e.to \in escape)
  BY DEF transition

\* Every operand of an instruction is represented as the instruction reads it.
LEMMA Representations ==
  ASSUME NEW U, OnTidyTrack(U)
  PROVE  /\ ~Misread
         /\ \A n \in 0..(Pops(Ins.op) - 1) :
                Converted(n) \in ValueType /\ Converted(n).boxed = ~Escaped
  <1> DEFINE i == frame.pc
             s == start[i]
             k == Pops(Ins.op)
             graph == bodies[frame.body].graph
             ops == graph.operands[i]
             E == graph.escape
  <1>1. /\ i \in DOMAIN start /\ i \in DOMAIN prog.code /\ Ins = prog.code[i] /\ k \in 0..2
        /\ GoodBody(prog, start, bodies[frame.body])
        /\ TidyBody(prog, start, bodies[frame.body])
    BY TidyFacts
  <1>2. EdgeCount(prog, start, i) = k  BY <1>1 DEF EdgeCount
  <1>3. OperandsFit(prog, start, i, ops)  BY <1>1 DEF GoodBody
  <1>4. /\ DOMAIN ops = 1..k
        /\ \A m \in 1..k : ops[m].kind = Top(s, m - 1).kind
    BY <1>2, <1>3 DEF OperandsFit
  <1>5. Positions(prog, i) = 0..(k - 1)  BY <1>1 DEF Positions
  <1>6. ASSUME NEW n \in 0..(k - 1)
        PROVE  /\ Operand(n) \in ValueType
               /\ Operand(n).boxed = (Top(s, n).src[1] \notin E)
               /\ graph.valid => ops[n + 1].escaped = transition(E, EdgeAt(start, i, n))
               /\ ~supportsEscaping(Top(s, n).kind) => Top(s, n).src[1] \notin E /\ i \notin E
    <2>1. Operand(n) \in ValueType /\ Operand(n).boxed = (Top(s, n).src[1] \notin E)
      BY TidyOperand DEF EscapeSet
    <2>2. graph.valid => ops[n + 1].escaped = transition(E, EdgeAt(start, i, n))
      BY <1>1, <1>5 DEF TidyBody
    <2>3. LET e == EdgeAt(start, i, n)
          IN  ~supportsEscaping(e.kind) => e.from \notin E /\ e.to \notin E
      BY <1>1, <1>5 DEF TidyBody, Escapes
    <2> QED  BY <2>1, <2>2, <2>3 DEF EdgeAt
  <1>7. ~graph.valid => E = {}  BY <1>1 DEF TidyBody
  <1>8. Escaped <=> i \in E  BY DEF Escaped
  <1>9. Transitions = IF graph.valid /\ \E n \in DOMAIN ops : ops[n].escaped \in {"Box", "Unbox"}
                      THEN ops ELSE <<>>
    BY DEF Transitions
  <1>10. \A how : Transitioned(how) = {n \in DOMAIN Transitions : Transitions[n].escaped = how}
    BY DEF Transitioned
  <1> HIDE DEF k, s, i, graph, ops, E
  \* What happens to operand n.
  <1>11. ASSUME NEW n \in 0..(k - 1)
         PROVE  /\ n + 1 \in Transitioned("Unbox") =>
                       /\ Operand(n).boxed /\ i \in E
                       /\ Transitions[n + 1].kind \in ValueKind
                /\ n + 1 \in Transitioned("Box") => ~Operand(n).boxed /\ i \notin E
                /\ n + 1 \notin Transitioned("Unbox") \cup Transitioned("Box") =>
                       Operand(n).boxed = (i \notin E)
    <2>1. n + 1 \in 1..k /\ n + 1 - 1 = n  BY <1>1
    <2>2. PICK from : from = Top(s, n).src[1]  OBVIOUS
    <2>3. PICK kind : kind = Top(s, n).kind  OBVIOUS
    <2>4. Operand(n).boxed = (from \notin E)
          /\ (~supportsEscaping(kind) => from \notin E /\ i \notin E)
      BY <1>6, <2>2, <2>3
    <2>5. LET e == EdgeAt(start, i, n) IN e.from = from /\ e.to = i /\ e.kind = kind
      BY <2>2, <2>3 DEF EdgeAt, s
    <2>6. PICK how : how = transition(E, EdgeAt(start, i, n))  OBVIOUS
    <2>7. /\ how = "Unbox" => from \notin E /\ i \in E /\ supportsEscaping(kind)
          /\ how = "Box" => from \in E /\ i \notin E
          /\ how \notin {"Box", "Unbox"} => (from \in E <=> i \in E)
      BY <2>4, <2>5, <2>6, TransitionFits
    <2>8. graph.valid => ops[n + 1].escaped = how  BY <1>6, <2>6
    <2>9. CASE Transitions = ops /\ graph.valid
      <3>1. \A h : n + 1 \in Transitioned(h) <=> how = h
        BY <1>4, <1>10, <2>1, <2>8, <2>9
      <3>2. how = "Unbox" => Transitions[n + 1].kind \in ValueKind
        <4>1. Transitions[n + 1].kind = kind  BY <1>4, <2>1, <2>3, <2>9
        <4> QED  BY <2>7, <4>1 DEF supportsEscaping, ValueKind
      <3> QED  BY <2>4, <2>7, <3>1, <3>2
    <2>10. CASE Transitions = <<>> /\ graph.valid /\ ops[n + 1].escaped \notin {"Box", "Unbox"}
      <3>1. \A h : n + 1 \notin Transitioned(h)  BY <1>10, <2>10
      <3> QED  BY <2>4, <2>7, <2>8, <2>10, <3>1
    <2>11. CASE Transitions = <<>> /\ ~graph.valid
      <3>1. \A h : n + 1 \notin Transitioned(h)  BY <1>10, <2>11
      <3> QED  BY <1>7, <2>4, <2>11, <3>1
    <2> QED  BY <1>4, <1>9, <2>1, <2>9, <2>10, <2>11
  <1>12. ASSUME NEW n \in 0..(k - 1)
         PROVE  Converted(n) \in ValueType /\ Converted(n).boxed = ~Escaped
    <2>1. CASE n + 1 \in Transitioned("Unbox")
      <3>1. Converted(n) = Value(Transitions[n + 1].kind, FALSE)  BY <2>1 DEF Converted
      <3> QED  BY <1>8, <1>11, <2>1, <3>1, BoxedValue
    <2>2. CASE n + 1 \notin Transitioned("Unbox") /\ n + 1 \in Transitioned("Box")
      <3>1. Converted(n) = Value(Operand(n).kind, TRUE)  BY <2>2 DEF Converted
      <3>2. Operand(n).kind \in ValueKind  BY <1>6 DEF ValueType
      <3> QED  BY <1>8, <1>11, <2>2, <3>1, <3>2, BoxedValue
    <2>3. CASE n + 1 \notin Transitioned("Unbox") /\ n + 1 \notin Transitioned("Box")
      <3>1. Converted(n) = Operand(n)  BY <2>3 DEF Converted
      <3> QED  BY <1>6, <1>8, <1>11, <2>3, <3>1
    <2> QED  BY <2>1, <2>2, <2>3
  <1>13. \A how : \A m \in Transitioned(how) : m - 1 \in 0..(k - 1) /\ (m - 1) + 1 = m
    <2> SUFFICES ASSUME NEW how, NEW m \in Transitioned(how)
                 PROVE  m - 1 \in 0..(k - 1) /\ (m - 1) + 1 = m
      OBVIOUS
    <2>1. m \in DOMAIN Transitions  BY <1>10
    <2>2. DOMAIN <<>> = {}  OBVIOUS
    <2>3. m \in DOMAIN ops  BY <1>9, <2>1, <2>2
    <2> QED  BY <1>1, <1>4, <2>3
  <1>14. ~Misread
    <2>1. \A m \in Transitioned("Unbox") : Operand(m - 1).boxed  BY <1>11, <1>13
    <2>2. \A m \in Transitioned("Box") : ~Operand(m - 1).boxed  BY <1>11, <1>13
    <2>3. \A n \in 0..(k - 1) : Converted(n).boxed # Escaped  BY <1>8, <1>12
    <2> QED  BY <2>1, <2>2, <2>3 DEF Misread, k
  <1> QED  BY <1>12, <1>14 DEF k

\* Only stores and deletions change a local.
LEMMA LocalsBehind ==
  ASSUME NEW p, NEW i, NEW s, StartsIn(p, i, s), NEW j, NEW t, Goes(p, i, s, j, t),
         p.code[i].op \notin {"STORE_FAST", "DELETE_FAST"}
  PROVE  t.locals = s.locals
  <1>a. PICK ins : ins = p.code[i]  OBVIOUS
  <1> DEFINE op == ins.op
             rest == Pop(s, Pops(op))
             one == Top(s, 1).kind
             two == Top(s, 0).kind
  <1>0. ProgramAssumption(p) /\ i \in DOMAIN p.code /\ IsState(p, i, s) /\ s \in StateType(p)
    BY DEF StartsIn, IsState
  <1>1. /\ p.depth[i] \in Nat /\ i \in Nat /\ op \in Op /\ Pops(op) <= p.depth[i]
        /\ Pops(op) \in 0..2 /\ Pops(op) \in 0..p.depth[i] /\ InstructionAssumption(p, i, ins)
    BY <1>0, <1>a, ProgramFacts, PopsOf, SMT
  <1>2. rest \in StateType(p) /\ rest.locals = s.locals  BY <1>0, <1>1, RestOfState
  <1>3. \A n \in 0..(p.depth[i] - 1) : Top(s, n).kind \in Kind  BY <1>0, OperandSlots
  <1>4. (Pops(op) >= 1 => two \in Kind) /\ (Pops(op) >= 2 => one \in Kind)
    BY <1>1, <1>3, SMT
  <1>5. ASSUME NEW u \in StateType(p), u.locals = s.locals, NEW kind \in Kind, NEW n \in {0, 1}
        PROVE  Push(u, Slot(kind, i, n)) \in StateType(p)
               /\ Push(u, Slot(kind, i, n)).locals = s.locals
    <2>1. Slot(kind, i, n) \in SlotType  BY <1>1, NewSlot
    <2> QED  BY <1>5, <2>1, PushedState
  <1> HIDE DEF rest, one, two
  <1>6. After(ins, i, s).locals = s.locals
    <2>1. CASE op \in {"LOAD_CONST", "LOAD_GLOBAL", "LOAD_FAST"}
      <3>1. PICK kind : /\ After(ins, i, s) = Push(s, Slot(kind, i, 0))
                        /\ kind \in Kind
        <4>1. CASE op = "LOAD_CONST"
          <5>1. ins.arg \in Kind  BY <1>1, <4>1 DEF InstructionAssumption
          <5> QED  BY <4>1, <5>1, AfterOf
        <4>2. CASE op = "LOAD_GLOBAL"
          <5>1. "Any" \in Kind  BY DEF Kind
          <5> QED  BY <4>2, <5>1, AfterOf
        <4>3. CASE op = "LOAD_FAST"
          <5>1. ins.arg \in 0..(p.nlocals - 1)  BY <1>1, <4>3 DEF InstructionAssumption, LocalOp
          <5>2. s.locals \in [0..(p.nlocals - 1) -> LocalType]  BY <1>0 DEF StateType
          <5>3. s.locals[ins.arg] \in LocalType  BY <5>1, <5>2, Zenon
          <5>4. s.locals[ins.arg].kind \in Kind  BY <5>3, SMT DEF LocalType
          <5> QED  BY <4>3, <5>4, AfterOf
        <4> QED  BY <2>1, <4>1, <4>2, <4>3
      <3> QED  BY <1>0, <1>5, <3>1
    <2>2. CASE op \in {"BINARY_ADD", "COMPARE_OP"}
      <3>1. Pops(op) = 2  BY <1>1, <2>2, PopsOf
      <3>2. binaryAdd(one, two) \in Kind /\ compare(one, two) \in Kind
        <4>1. binaryAdd(one, two) \in {"Integer", "String", "Any"}  BY <1>4, <3>1, BinaryAdd
        <4>2. compare(one, two) \in {"Bool", "Any"}  BY <1>4, <3>1, Compare
        <4> QED  BY <4>1, <4>2, SMT DEF Kind
      <3>3. \/ After(ins, i, s) = Push(rest, Slot(binaryAdd(one, two), i, 0))
            \/ After(ins, i, s) = Push(rest, Slot(compare(one, two), i, 0))
        BY <2>2, AfterOf DEF rest, one, two
      <3> QED  BY <1>2, <1>5, <3>2, <3>3
    <2>3. CASE op = "DUP_TOP"
      <3>1. Pops(op) = 1  BY <1>1, <2>3, PopsOf
      <3>2. two \in Kind  BY <1>4, <3>1
      <3>3. After(ins, i, s) = Push(Push(rest, Slot(two, i, 0)), Slot(two, i, 1))
        BY <2>3, AfterOf DEF rest, two
      <3>4. /\ Push(rest, Slot(two, i, 0)) \in StateType(p)
            /\ Push(rest, Slot(two, i, 0)).locals = s.locals
        BY <1>2, <1>5, <3>2
      <3> QED  BY <1>5, <3>2, <3>3, <3>4
    <2>4. CASE op \in CondJump \cup {"POP_TOP", "JUMP_ABSOLUTE", "RETURN_VALUE"}
      <3>1. After(ins, i, s) = rest  BY <2>4, AfterOf DEF rest
      <3> QED  BY <1>2, <3>1
    <2> QED  BY <1>a, <1>1, <2>1, <2>2, <2>3, <2>4, SMT DEF Op, LocalOp, CondJump
  <1>7. CASE op = "JUMP_IF_FALSE_OR_POP"
    <2>1. Pops(op) = 1  BY <1>1, <1>7, PopsOf DEF CondJump
    <2>2. AtTarget(ins, i, s) = Push(rest, Slot(two, i, 0))
      BY <1>7, <2>1 DEF AtTarget, rest, two
    <2>3. two \in Kind  BY <1>4, <2>1
    <2>4. AtTarget(ins, i, s).locals = s.locals  BY <1>2, <1>5, <2>2, <2>3
    <2> QED  BY <1>6, <1>a, <2>4 DEF Goes
  <1>8. CASE op # "JUMP_IF_FALSE_OR_POP"
    BY <1>6, <1>8, <1>a DEF Goes, AtTarget
  <1> QED  BY <1>7, <1>8

IsBeginning(S, a, h, c) == c \in Seq(S) /\ Len(c) = h /\ \A n \in 1..h : c[n] = a[n]

LEMMA Beginning ==
  ASSUME NEW S, NEW a \in Seq(S), NEW h \in 0..Len(a), NEW c, c = SubSeq(a, 1, h)
  PROVE  IsBeginning(S, a, h, c)
  BY SMT DEF IsBeginning

IsJoined(S, a, b, c) ==
    /\ c \in Seq(S) /\ Len(c) = Len(a) + Len(b)
    /\ \A n \in 1..Len(a) : c[n] = a[n]
    /\ \A n \in 1..Len(b) : c[Len(a) + n] = b[n]

LEMMA Joined ==
  ASSUME NEW S, NEW a \in Seq(S), NEW b \in Seq(S), NEW c, c = a \o b
  PROVE  IsJoined(S, a, b, c)
  BY SMT DEF IsJoined

\* What an instruction pushes is represented as it is compiled itself.
LEMMA StackBehind ==
  ASSUME NEW U, OnTidyTrack(U), NEW j, NEW t,
         Goes(prog, frame.pc, start[frame.pc], j, t), NEW pushed \in Seq(ValueType),
         Len(pushed) = prog.depth[j] - Kept(prog, frame.pc),
         \A m \in 1..Len(pushed) : pushed[m].boxed = ~Escaped
  PROVE  /\ Left(pushed) \in Seq(ValueType) /\ Len(Left(pushed)) = prog.depth[j]
         /\ BoxedAs(t, EscapeSet, Left(pushed))
  <1> DEFINE i == frame.pc
             s == start[i]
             k == Pops(Ins.op)
             kept == SubSeq(frame.stack, 1, Len(frame.stack) - k)
             E == EscapeSet
  <1>1. /\ StartsIn(prog, i, s) /\ prog.depth[i] \in Nat /\ Len(frame.stack) = prog.depth[i]
        /\ k \in 0..2 /\ k <= prog.depth[i] /\ Kept(prog, i) = prog.depth[i] - k
        /\ Kept(prog, i) \in Nat
    BY TidyFacts DEF StartsIn
  <1>2. /\ SlotsBehind(prog, i, s, t) /\ Len(t.stack) = prog.depth[j] /\ prog.depth[j] \in Nat
    BY <1>1, Outcome
  <1>3. frame.stack \in Seq(ValueType) /\ BoxedAs(s, E, frame.stack)
    BY DEF OnTidyTrack, Tracks
  <1>4. Escaped <=> i \in E  BY DEF Escaped, EscapeSet
  <1>5. Left(pushed) = kept \o pushed  BY DEF Left
  <1>6. PICK h \in Nat : h = Kept(prog, i)  BY <1>1
  <1>7. PICK d \in Nat : d = prog.depth[j]  BY <1>2
  <1> HIDE DEF i, s, k, E
  <1>8. /\ kept \in Seq(ValueType) /\ Len(kept) = h
        /\ \A n \in 1..h : kept[n] = frame.stack[n]
    <2>1. Len(frame.stack) - k = h /\ h <= Len(frame.stack)  BY <1>1, <1>6
    <2>2. kept = SubSeq(frame.stack, 1, h)  BY <2>1
    <2>3. h \in 0..Len(frame.stack)  BY <1>1, <2>1
    <2> HIDE DEF kept
    <2>4. IsBeginning(ValueType, frame.stack, h, kept)
      BY <1>3, <2>2, <2>3, Beginning, Zenon
    <2> QED  BY <2>4 DEF IsBeginning
  <1> HIDE DEF kept
  <1>9. Len(pushed) = d - h /\ Len(pushed) \in Nat  BY <1>6, <1>7 DEF i
  <1>10. /\ Left(pushed) \in Seq(ValueType) /\ Len(Left(pushed)) = d
         /\ \A n \in 1..h : Left(pushed)[n] = frame.stack[n]
         /\ \A n \in 1..d : n > h => Left(pushed)[n] = pushed[n - h] /\ n - h \in 1..Len(pushed)
    <2>1. /\ Left(pushed) \in Seq(ValueType) /\ Len(Left(pushed)) = Len(kept) + Len(pushed)
          /\ \A n \in 1..Len(kept) : Left(pushed)[n] = kept[n]
          /\ \A n \in 1..Len(pushed) : Left(pushed)[Len(kept) + n] = pushed[n]
      <3>1. kept \in Seq(ValueType)  BY <1>8
      <3>2. IsJoined(ValueType, kept, pushed, Left(pushed))  BY <1>5, <3>1, Joined, Zenon
      <3> QED  BY <3>2 DEF IsJoined
    <2>2. h + Len(pushed) = d  BY <1>9
    <2>3. ASSUME NEW n \in 1..d, n > h
          PROVE  Left(pushed)[n] = pushed[n - h] /\ n - h \in 1..Len(pushed)
      <3>1. n - h \in 1..Len(pushed) /\ h + (n - h) = n  BY <1>9, <2>2, <2>3
      <3>2. Left(pushed)[h + (n - h)] = pushed[n - h]  BY <1>8, <2>1, <3>1, Zenon
      <3> QED  BY <3>1, <3>2
    <2>4. Len(Left(pushed)) = d  BY <1>8, <2>1, <2>2
    <2>5. ASSUME NEW n \in 1..h
          PROVE  Left(pushed)[n] = frame.stack[n]
      BY <1>8, <2>1, Zenon
    <2> QED  BY <2>1, <2>3, <2>4, <2>5
  <1>11. PICK left : left = Left(pushed)  OBVIOUS
  <1>12. ASSUME NEW n \in 1..d
         PROVE  left[n].boxed = (t.stack[n].src[1] \notin E)
    <2>1. SlotBehind(prog, i, s, t, n)  BY <1>2, <1>7 DEF SlotsBehind
    <2>2. CASE n <= h
      <3>1. t.stack[n] = s.stack[n]  BY <1>6, <2>1, <2>2 DEF SlotBehind
      <3>2. left[n] = frame.stack[n] /\ n \in 1..Len(frame.stack)
        BY <1>1, <1>6, <1>10, <1>11, <2>2
      <3>3. frame.stack[n].boxed = (s.stack[n].src[1] \notin E)  BY <1>3, <3>2 DEF BoxedAs
      <3> QED  BY <3>1, <3>2, <3>3
    <2>3. CASE n > h
      <3>1. t.stack[n].src = <<i, n - h - 1>>  BY <1>6, <2>1, <2>3 DEF SlotBehind
      <3>2. t.stack[n].src[1] = i  BY <3>1
      <3>3. left[n] = pushed[n - h] /\ n - h \in 1..Len(pushed)  BY <1>10, <1>11, <2>3
      <3>4. pushed[n - h].boxed = ~Escaped  BY <3>3
      <3> QED  BY <1>4, <3>2, <3>3, <3>4
    <2> QED  BY <2>2, <2>3
  <1>13. BoxedAs(t, E, left)  BY <1>10, <1>11, <1>12 DEF BoxedAs
  <1> QED  BY <1>7, <1>10, <1>11, <1>13 DEF E

\* Wherever the call goes on, its values are represented as is expected there.
LEMMA TidyArrives ==
  ASSUME NEW U, OnTidyTrack(U), NEW j, NEW t,
         Goes(prog, frame.pc, start[frame.pc], j, t),
         NEW stack \in Seq(ValueType), Len(stack) = prog.depth[j], BoxedAs(t, EscapeSet, stack),
         NEW fast \in Cells(prog), NEW native \in Cells(prog), NEW python \in Cells(prog),
         BoundIn(prog, t, python), HeldIn(prog, U, fast, native, python),
         GoesOn(frame, frame', j, stack, fast, native, python)
  PROVE  Tracks(prog, start, EscapeSet, U, frame')
  <1> DEFINE i == frame.pc
             s == start[i]
             E == EscapeSet
  <1>1. /\ i \in DOMAIN start /\ Analysed /\ Single(prog) /\ AnalysisInv /\ FlowInv
        /\ StartsIn(prog, i, s)
    BY TidyFacts DEF OnTidyTrack, StartsIn
  <1>2. /\ Leads(prog, i, j) /\ StartsIn(prog, j, t) /\ Len(t.stack) = prog.depth[j]
        /\ prog.depth[j] \in Nat
    BY <1>1, Outcome
  <1>3. j \in DOMAIN start /\ Above(prog, start[j], t)
    <2>1. /\ FallsThrough(prog.code[i].op) =>
                 Expected(prog, start, i + 1, After(prog.code[i], i, s))
          /\ Jumps(prog.code[i].op) =>
                 Expected(prog, start, prog.code[i].arg, AtTarget(prog.code[i], i, s))
      BY <1>1, Successors
    <2>2. Expected(prog, start, j, t)  BY <2>1 DEF Goes
    <2> QED  BY <2>2 DEF Expected
  <1>4. Handed(prog, start)  BY <1>1 DEF FlowInv
  <1> HIDE DEF i, s, E
  <1>5. ASSUME NEW n \in 1..Len(stack)
        PROVE  stack[n].boxed = (start[j].stack[n].src[1] \notin E)
    <2>1. prog.depth[j] > 0  BY <1>2
    <2>2. Agrees(prog, i, start[j], t)  BY <1>1, <1>3, <1>4, <2>1 DEF Handed, i, s
    <2>3. start[j].stack[n].src = t.stack[n].src  BY <1>2, <2>2 DEF Agrees
    <2>4. stack[n].boxed = (t.stack[n].src[1] \notin E)  BY DEF BoxedAs, E
    <2> QED  BY <2>3, <2>4
  <1>6. BoxedAs(start[j], E, stack)  BY <1>5 DEF BoxedAs
  <1>7. BoundIn(prog, start[j], python)
    <2> SUFFICES ASSUME NEW v \in 0..(prog.nlocals - 1), ~start[j].locals[v].maybeUndefined
                 PROVE  python[v] # "null"
      BY DEF BoundIn
    <2>1. ~t.locals[v].maybeUndefined  BY <1>3 DEF Above
    <2> QED  BY <2>1 DEF BoundIn
  <1>8. PICK f : f = frame'  OBVIOUS
  <1>9. f.pc = j /\ f.stack = stack /\ f.fast = fast /\ f.native = native /\ f.python = python
    BY <1>8 DEF GoesOn
  <1>10. Tracks(prog, start, E, U, f)  BY <1>3, <1>6, <1>7, <1>9 DEF Tracks
  <1> QED  BY <1>8, <1>10 DEF E

\* The body goes on as is expected, or ends without having misread anything.
StaysTidy(U) ==
    /\ frame'.end \notin {"misread", "null", "unbound"}
    /\ frame'.end = "running" => Tracks(prog, start, EscapeSet, U, frame')

LEMMA StopsTidily ==
  ASSUME NEW U, OnTidyTrack(U), NEW how, Stop(how),
         how \in {"returned", "TypeError", "UnboxingError", "UnboundLocalError"}
  PROVE  StaysTidy(U)
  <1>1. Ends(frame, frame', how)  BY FrameSteps DEF OnTidyTrack
  <1> QED  BY <1>1 DEF Ends, StaysTidy

LEMMA GoesTidily ==
  ASSUME NEW U, OnTidyTrack(U), Tracks(prog, start, EscapeSet, U, frame'),
         NEW j, NEW stack, NEW fast, NEW native, NEW python,
         GoesOn(frame, frame', j, stack, fast, native, python)
  PROVE  StaysTidy(U)
  <1>1. frame.end = "running"  BY DEF OnTidyTrack
  <1>2. frame'.end = "running"  BY <1>1 DEF GoesOn
  <1> QED  BY <1>2 DEF StaysTidy

\* An instruction that leaves the locals alone.
LEMMA PushesTidily ==
  ASSUME NEW U, OnTidyTrack(U), NEW j, NEW t,
         Goes(prog, frame.pc, start[frame.pc], j, t), Ins.op \notin {"STORE_FAST", "DELETE_FAST"},
         NEW pushed \in Seq(ValueType), Len(pushed) = prog.depth[j] - Kept(prog, frame.pc),
         \A m \in 1..Len(pushed) : pushed[m].boxed = ~Escaped, Goto(j, pushed)
  PROVE  StaysTidy(U)
  <1> DEFINE i == frame.pc
             s == start[i]
  <1>1. StartsIn(prog, i, s) /\ Ins = prog.code[i]  BY TidyFacts DEF StartsIn
  <1>2. t.locals = s.locals  BY <1>1, LocalsBehind
  <1>3. /\ Left(pushed) \in Seq(ValueType) /\ Len(Left(pushed)) = prog.depth[j]
        /\ BoxedAs(t, EscapeSet, Left(pushed))
    BY StackBehind
  <1>4. /\ frame.fast \in Cells(prog) /\ frame.native \in Cells(prog)
        /\ frame.python \in Cells(prog) /\ BoundIn(prog, s, frame.python)
        /\ HeldIn(prog, U, frame.fast, frame.native, frame.python) /\ HasFields(frame)
    BY DEF OnTidyTrack, Tracks
  <1>5. BoundIn(prog, t, frame.python)  BY <1>2, <1>4 DEF BoundIn
  <1>6. GoesOn(frame, frame', j, Left(pushed), frame.fast, frame.native, frame.python)
    BY <1>4, FrameSteps
  <1>7. Tracks(prog, start, EscapeSet, U, frame')  BY <1>3, <1>4, <1>5, <1>6, TidyArrives
  <1> QED  BY <1>6, <1>7, GoesTidily

LEMMA PushesNothing ==
  ASSUME NEW U, OnTidyTrack(U), NEW j, NEW t,
         Goes(prog, frame.pc, start[frame.pc], j, t), Ins.op \notin {"STORE_FAST", "DELETE_FAST"},
         prog.depth[j] = Kept(prog, frame.pc), Goto(j, <<>>)
  PROVE  StaysTidy(U)
  <1>1. <<>> \in Seq(ValueType) /\ Len(<<>>) = 0  OBVIOUS
  <1>2. PICK none : none = <<>>  OBVIOUS
  <1>3. none \in Seq(ValueType) /\ Len(none) = 0 /\ Goto(j, none)  BY <1>1, <1>2
  <1>4. Kept(prog, frame.pc) \in Nat  BY TidyFacts
  <1>5. Len(none) = prog.depth[j] - Kept(prog, frame.pc)  BY <1>3, <1>4
  <1>6. \A m \in 1..Len(none) : none[m].boxed = ~Escaped  BY <1>3
  <1> QED  BY <1>3, <1>5, <1>6, PushesTidily

LEMMA PushesOne ==
  ASSUME NEW U, OnTidyTrack(U), NEW j, NEW t,
         Goes(prog, frame.pc, start[frame.pc], j, t), Ins.op \notin {"STORE_FAST", "DELETE_FAST"},
         prog.depth[j] = Kept(prog, frame.pc) + 1,
         NEW value \in ValueType, value.boxed = ~Escaped, Goto(j, <<value>>)
  PROVE  StaysTidy(U)
  <1>1. <<value>> \in Seq(ValueType) /\ Len(<<value>>) = 1 /\ <<value>>[1] = value  OBVIOUS
  <1>2. PICK one : one = <<value>>  OBVIOUS
  <1>3. one \in Seq(ValueType) /\ Len(one) = 1 /\ one[1] = value /\ Goto(j, one)
    BY <1>1, <1>2
  <1>4. Kept(prog, frame.pc) \in Nat  BY TidyFacts
  <1>5. Len(one) = prog.depth[j] - Kept(prog, frame.pc)  BY <1>3, <1>4
  <1>6. \A m \in 1..Len(one) : one[m].boxed = ~Escaped  BY <1>3
  <1> QED  BY <1>3, <1>5, <1>6, PushesTidily

\* How high the stack is where an instruction leads.
LEMMA TidyRoom ==
  ASSUME NEW U, OnTidyTrack(U)
  PROVE  LET i == frame.pc
             s == start[i]
         IN  /\ FallsThrough(Ins.op) =>
                    /\ Goes(prog, i, s, i + 1, After(Ins, i, s))
                    /\ Pushes(Ins.op) = 0 => prog.depth[i + 1] = Kept(prog, i)
                    /\ Pushes(Ins.op) = 1 => prog.depth[i + 1] = Kept(prog, i) + 1
                    /\ Pushes(Ins.op) = 2 => prog.depth[i + 1] = Kept(prog, i) + 2
             /\ Jumps(Ins.op) =>
                    /\ Goes(prog, i, s, Ins.arg, AtTarget(Ins, i, s))
                    /\ Ins.op = "JUMP_IF_FALSE_OR_POP" =>
                           prog.depth[Ins.arg] = Kept(prog, i) + 1
                    /\ Ins.op # "JUMP_IF_FALSE_OR_POP" => prog.depth[Ins.arg] = Kept(prog, i)
  <1> DEFINE i == frame.pc
             s == start[i]
  <1>1. /\ InstructionAssumption(prog, i, Ins) /\ prog.depth[i] \in Nat /\ Pops(Ins.op) \in 0..2
        /\ Kept(prog, i) = prog.depth[i] - Pops(Ins.op) /\ Kept(prog, i) \in Nat
        /\ FallsThrough(Ins.op) => Goes(prog, i, s, i + 1, After(Ins, i, s))
        /\ Jumps(Ins.op) => Goes(prog, i, s, Ins.arg, AtTarget(Ins, i, s))
    BY TidyFacts
  <1>2. FallsThrough(Ins.op) => prog.depth[i + 1] = Kept(prog, i) + Pushes(Ins.op)
    BY <1>1 DEF InstructionAssumption
  <1>3. Jumps(Ins.op) => prog.depth[Ins.arg] = Kept(prog, i) +
                             (IF Ins.op = "JUMP_IF_FALSE_OR_POP" THEN 1 ELSE 0)
    BY <1>1 DEF InstructionAssumption
  <1> QED  BY <1>1, <1>2, <1>3

LEMMA TidyLoad ==
  ASSUME NEW U, OnTidyTrack(U), Load
  PROVE  StaysTidy(U)
  <1> DEFINE i == frame.pc
             s == start[i]
  <1>1. Ins.op \in {"LOAD_CONST", "LOAD_GLOBAL"}  BY DEF Load
  <1>2. /\ InstructionAssumption(prog, i, Ins) /\ Ins.op \in Op /\ i \in DOMAIN prog.code
        /\ Ins = prog.code[i] /\ TidyBody(prog, start, bodies[frame.body])
    BY TidyFacts
  <1>3. Goes(prog, i, s, i + 1, After(Ins, i, s)) /\ prog.depth[i + 1] = Kept(prog, i) + 1
    <2>1. FallsThrough(Ins.op)  BY <1>1, SMT DEF FallsThrough
    <2>2. Pushes(Ins.op) = 1  BY <1>1, <1>2, PushesOf
    <2> QED  BY <2>1, <2>2, TidyRoom
  <1> HIDE DEF i, s
  <1>4. ASSUME NEW value \in ValueType, value.boxed = ~Escaped, Continue(<<value>>)
        PROVE  StaysTidy(U)
    <2>1. Goto(i + 1, <<value>>)  BY <1>4 DEF Continue, i
    <2>2. Ins.op \notin {"STORE_FAST", "DELETE_FAST"}  BY <1>1
    <2> QED  BY <1>3, <1>4, <2>1, <2>2, PushesOne DEF i, s
  <1>5. CASE Ins.op = "LOAD_CONST" /\ Continue(<<Value(Ins.arg, ~Escaped)>>)
    <2>1. Ins.arg \in Kind \ {"Undefined", "Any"}  BY <1>2, <1>5 DEF InstructionAssumption
    <2>2. Ins.arg \in ValueKind  BY <2>1, SMT DEF Kind, ValueKind
    <2>3. PICK value : value = Value(Ins.arg, ~Escaped)  OBVIOUS
    <2>4. value \in ValueType /\ value.boxed = ~Escaped  BY <2>2, <2>3, BoxedValue
    <2> QED  BY <1>4, <1>5, <2>3, <2>4
  <1>6. CASE Ins.op = "LOAD_GLOBAL" /\ \E kind \in CallKinds : Continue(<<Value(kind, TRUE)>>)
    <2>1. PICK kind \in CallKinds : Continue(<<Value(kind, TRUE)>>)  BY <1>6
    <2>2. kind \in ValueKind  BY <2>1, CompiledCodeAssumption DEF ValueKind
    <2>3. PICK value : value = Value(kind, TRUE)  OBVIOUS
    <2>4. value \in ValueType /\ value.boxed = TRUE  BY <2>2, <2>3, BoxedValue
    <2>5. ~Escaped
      <3>1. ~supportsUnboxing(Ins.op)  BY <1>6 DEF supportsUnboxing, LocalOp
      <3>2. i \notin EscapeSet  BY <1>2, <3>1 DEF TidyBody, Escapes, EscapeSet
      <3> QED  BY <3>2 DEF Escaped, EscapeSet, i
    <2> QED  BY <1>4, <2>1, <2>3, <2>4, <2>5
  <1> QED  BY <1>5, <1>6 DEF Load

\* A load finds its local where the body keeps it, bound unless it is checked.
LEMMA TidyLoadFast ==
  ASSUME NEW U, OnTidyTrack(U), LoadFast
  PROVE  StaysTidy(U)
  <1> DEFINE i == frame.pc
             s == start[i]
             v == Ins.arg
             body == bodies[frame.body]
  <1>1. /\ InstructionAssumption(prog, i, Ins) /\ Ins.op \in Op /\ i \in DOMAIN prog.code
        /\ Ins = prog.code[i] /\ TidyBody(prog, start, body) /\ i \in DOMAIN start
        /\ ChecksDeleted(body)
    BY TidyFacts
  <1>2. Ins.op = "LOAD_FAST"  BY DEF LoadFast
  <1>3. v \in 0..(prog.nlocals - 1)  BY <1>1, <1>2 DEF InstructionAssumption, LocalOp
  <1>4. Goes(prog, i, s, i + 1, After(Ins, i, s)) /\ prog.depth[i + 1] = Kept(prog, i) + 1
    <2>1. FallsThrough(Ins.op)  BY <1>2, SMT DEF FallsThrough
    <2>2. Pushes(Ins.op) = 1  BY <1>1, <1>2, PushesOf
    <2> QED  BY <2>1, <2>2, TidyRoom
  <1>5. Tracks(prog, start, EscapeSet, U, frame) /\ Tidy
        /\ NativeAre(prog, EscapeSet, U)
    BY DEF OnTidyTrack
  <1>6. /\ frame.fast[v] \in ValueKind \cup {"null"} /\ frame.native[v] \in ValueKind \cup {"null"}
        /\ frame.python[v] \in ValueKind \cup {"null"}
        /\ ~s.locals[v].maybeUndefined => frame.python[v] # "null"
        /\ v \in U => frame.python[v] \in {"null", frame.native[v]}
        /\ v \notin U => frame.fast[v] = frame.python[v]
    BY <1>3, <1>5 DEF Tracks, HeldIn, BoundIn, Cells
  <1>7. Escaped <=> v \in U
    <2>1. Escaped <=> i \in EscapeSet  BY DEF Escaped, EscapeSet
    <2>2. prog.code[i].op \in LocalOp /\ prog.code[i].arg = v  BY <1>1, <1>2 DEF LocalOp
    <2> QED  BY <1>1, <1>5, <2>1, <2>2 DEF NativeAre
  <1>8. s.locals[v].maybeUndefined => s.locals[v].kind = "Undefined" /\ i \in body.checked
    <2>1. s.locals[v].maybeUndefined => s.locals[v].kind = "Undefined" /\ DeletedLast(v, i)
      BY <1>1, <1>2, <1>5 DEF Tidy, BindingIsKnown
    <2> QED  BY <1>1, <1>2, <2>1 DEF ChecksDeleted
  <1>9. Escaped => s.locals[v].kind # "Undefined"
    BY <1>1, <1>2 DEF Escaped, TidyBody, Escapes
  <1> HIDE DEF i, s, v, body
  <1>10. ASSUME NEW value \in ValueType, value.boxed = ~Escaped, Continue(<<value>>)
         PROVE  StaysTidy(U)
    <2>1. Goto(i + 1, <<value>>)  BY <1>10 DEF Continue, i
    <2>2. Ins.op \notin {"STORE_FAST", "DELETE_FAST"}  BY <1>2
    <2> QED  BY <1>4, <1>10, <2>1, <2>2, PushesOne DEF i, s
  <1>11. CASE Escaped /\ frame.python[v] = "null"
    BY <1>6, <1>8, <1>9, <1>11
  <1>12. CASE Escaped /\ frame.python[v] # "null" /\ Continue(<<Value(frame.native[v], FALSE)>>)
    <2>1. frame.native[v] \in ValueKind  BY <1>6, <1>7, <1>12
    <2>2. PICK value : value = Value(frame.native[v], FALSE)  OBVIOUS
    <2>3. value \in ValueType /\ value.boxed = FALSE  BY <2>1, <2>2, BoxedValue
    <2> QED  BY <1>10, <1>12, <2>2, <2>3
  <1>13. CASE ~Escaped /\ frame.fast[v] # "null" /\ Continue(<<Value(frame.fast[v], TRUE)>>)
    <2>1. frame.fast[v] \in ValueKind  BY <1>6, <1>13
    <2>2. PICK value : value = Value(frame.fast[v], TRUE)  OBVIOUS
    <2>3. value \in ValueType /\ value.boxed = TRUE  BY <2>1, <2>2, BoxedValue
    <2> QED  BY <1>10, <1>13, <2>2, <2>3
  <1>14. CASE /\ ~Escaped /\ frame.fast[v] = "null"
              /\ Stop(IF frame.pc \in bodies[frame.body].checked
                      THEN "UnboundLocalError" ELSE "null")
    <2>1. frame.python[v] = "null"  BY <1>6, <1>7, <1>14
    <2>2. i \in body.checked  BY <1>6, <1>8, <2>1
    <2>3. Stop("UnboundLocalError")  BY <1>14, <2>2 DEF i, body
    <2> QED  BY <2>3, StopsTidily
  <1> QED  BY <1>11, <1>12, <1>13, <1>14 DEF LoadFast, v

\* What is left of the stack behind an instruction that pushes nothing.
LEMMA NothingPushed ==
  ASSUME NEW U, OnTidyTrack(U), NEW j, NEW t,
         Goes(prog, frame.pc, start[frame.pc], j, t), prog.depth[j] = Kept(prog, frame.pc)
  PROVE  /\ Left(<<>>) \in Seq(ValueType) /\ Len(Left(<<>>)) = prog.depth[j]
         /\ BoxedAs(t, EscapeSet, Left(<<>>))
  <1>1. <<>> \in Seq(ValueType) /\ Len(<<>>) = 0  OBVIOUS
  <1>2. PICK none : none = <<>>  OBVIOUS
  <1>3. none \in Seq(ValueType) /\ Len(none) = 0  BY <1>1, <1>2
  <1>4. Kept(prog, frame.pc) \in Nat  BY TidyFacts
  <1>5. Len(none) = prog.depth[j] - Kept(prog, frame.pc)  BY <1>3, <1>4
  <1>6. \A m \in 1..Len(none) : none[m].boxed = ~Escaped  BY <1>3
  <1>7. /\ Left(none) \in Seq(ValueType) /\ Len(Left(none)) = prog.depth[j]
        /\ BoxedAs(t, EscapeSet, Left(none))
    BY <1>3, <1>5, <1>6, StackBehind
  <1> QED  BY <1>2, <1>7

\* A store writes the one place in which the body keeps the local.
LEMMA TidyStoreFast ==
  ASSUME NEW U, OnTidyTrack(U), StoreFast
  PROVE  StaysTidy(U)
  <1> DEFINE i == frame.pc
             s == start[i]
             v == Ins.arg
             rest == Pop(s, Pops(Ins.op))
             two == Top(s, 0).kind
             kind == Converted(0).kind
             t == After(Ins, i, s)
             fast == [frame.fast EXCEPT ![v] = kind]
             native == [frame.native EXCEPT ![v] = kind]
             python == [frame.python EXCEPT ![v] = kind]
             cells == Cells(prog)
  <1>1. Ins.op = "STORE_FAST"  BY DEF StoreFast
  <1>2. /\ InstructionAssumption(prog, i, Ins) /\ Ins.op \in Op /\ i \in DOMAIN prog.code
        /\ Ins = prog.code[i] /\ ProgramAssumption(prog) /\ IsState(prog, i, s)
        /\ prog.depth[i] \in Nat /\ Pops(Ins.op) <= prog.depth[i]
    BY TidyFacts
  <1>3. v \in 0..(prog.nlocals - 1)  BY <1>1, <1>2 DEF InstructionAssumption, LocalOp
  <1>4. Pops(Ins.op) = 1 /\ Pushes(Ins.op) = 0 /\ FallsThrough(Ins.op)
    <2>1. Pops(Ins.op) = 1  BY <1>1, <1>2, PopsOf
    <2>2. Pushes(Ins.op) = 0  BY <1>1, <1>2, PushesOf
    <2>3. FallsThrough(Ins.op)  BY <1>1, SMT DEF FallsThrough
    <2> QED  BY <2>1, <2>2, <2>3
  <1>5. Goes(prog, i, s, i + 1, t) /\ prog.depth[i + 1] = Kept(prog, i)
    BY <1>4, TidyRoom
  <1>6. /\ Left(<<>>) \in Seq(ValueType) /\ Len(Left(<<>>)) = prog.depth[i + 1]
        /\ BoxedAs(t, EscapeSet, Left(<<>>))
    BY <1>5, NothingPushed
  <1>7. kind \in ValueKind
    <2>1. 0 \in 0..(Pops(Ins.op) - 1)  BY <1>4
    <2>2. Converted(0) \in ValueType  BY <2>1, Representations
    <2> QED  BY <2>2, SMT DEF ValueType
  <1>8. two \in Kind
    <2>1. 0 \in 0..(prog.depth[i] - 1)  BY <1>2, <1>4
    <2> QED  BY <1>2, <2>1, OperandSlots
  <1>9. rest \in StateType(prog) /\ rest.locals = s.locals
    <2>1. Pops(Ins.op) \in 0..prog.depth[i]  BY <1>2, <1>4
    <2> QED  BY <1>2, <2>1, RestOfState
  <1>10. t = Assign(rest, v, two)  BY <1>1, AfterOf
  <1>11. Tracks(prog, start, EscapeSet, U, frame) /\ HasFields(frame)
         /\ NativeAre(prog, EscapeSet, U)
    BY DEF OnTidyTrack
  <1>12. Escaped <=> v \in U
    <2>1. Escaped <=> i \in EscapeSet  BY DEF Escaped, EscapeSet
    <2>2. prog.code[i].op \in LocalOp /\ prog.code[i].arg = v  BY <1>1, <1>2 DEF LocalOp
    <2> QED  BY <1>2, <1>11, <2>1, <2>2 DEF NativeAre
  <1> HIDE DEF i, s, v, rest, two, kind, t
  <1>13. \A w \in 0..(prog.nlocals - 1) : w # v => t.locals[w] = s.locals[w]
    <2>1. Assigned(prog, rest, Assign(rest, v, two), v, two)
      BY <1>3, <1>8, <1>9, AssignedLocal, Zenon
    <2> QED  BY <1>9, <1>10, <2>1 DEF Assigned
  <1>14. /\ frame.fast \in cells /\ frame.native \in cells /\ frame.python \in cells
         /\ BoundIn(prog, s, frame.python)
         /\ \A w \in 0..(prog.nlocals - 1) :
                /\ w \in U => frame.python[w] \in {"null", frame.native[w]}
                /\ w \notin U => frame.fast[w] = frame.python[w]
    BY <1>11 DEF Tracks, HeldIn, i, s
  <1>15. /\ python \in cells /\ python[v] = kind
         /\ \A w \in 0..(prog.nlocals - 1) : w # v => python[w] = frame.python[w]
    BY <1>3, <1>7, <1>14, FunctionUpdate DEF Cells
  <1>16. /\ native \in cells /\ native[v] = kind
         /\ \A w \in 0..(prog.nlocals - 1) : w # v => native[w] = frame.native[w]
    BY <1>3, <1>7, <1>14, FunctionUpdate DEF Cells
  <1>17. /\ fast \in cells /\ fast[v] = kind
         /\ \A w \in 0..(prog.nlocals - 1) : w # v => fast[w] = frame.fast[w]
    BY <1>3, <1>7, <1>14, FunctionUpdate DEF Cells
  <1>18. \/ Escaped /\ GoesOn(frame, frame', i + 1, Left(<<>>), frame.fast, native, python)
         \/ ~Escaped /\ GoesOn(frame, frame', i + 1, Left(<<>>), fast, frame.native, python)
    BY <1>11, FrameSteps DEF i, v, kind
  <1> HIDE DEF fast, native, python, cells
  <1>19. BoundIn(prog, t, python)
    <2>1. kind # "null"  BY <1>7, SMT DEF ValueKind
    <2> SUFFICES ASSUME NEW w \in 0..(prog.nlocals - 1), ~t.locals[w].maybeUndefined
                 PROVE  python[w] # "null"
      BY DEF BoundIn
    <2>2. CASE w = v  BY <1>15, <2>1, <2>2
    <2>3. CASE w # v  BY <1>13, <1>14, <1>15, <2>3 DEF BoundIn
    <2> QED  BY <2>2, <2>3
  <1>20. CASE Escaped /\ GoesOn(frame, frame', i + 1, Left(<<>>), frame.fast, native, python)
    <2>1. HeldIn(prog, U, frame.fast, native, python)
      BY <1>12, <1>14, <1>15, <1>16, <1>20 DEF HeldIn
    <2>2. Tracks(prog, start, EscapeSet, U, frame')
      BY <1>5, <1>6, <1>14, <1>15, <1>16, <1>19, <1>20, <2>1, TidyArrives DEF cells, i, s
    <2> QED  BY <1>20, <2>2, GoesTidily
  <1>21. CASE ~Escaped /\ GoesOn(frame, frame', i + 1, Left(<<>>), fast, frame.native, python)
    <2>1. HeldIn(prog, U, fast, frame.native, python)
      BY <1>12, <1>14, <1>15, <1>17, <1>21 DEF HeldIn
    <2>2. Tracks(prog, start, EscapeSet, U, frame')
      BY <1>5, <1>6, <1>14, <1>15, <1>17, <1>19, <1>21, <2>1, TidyArrives DEF cells, i, s
    <2> QED  BY <1>21, <2>2, GoesTidily
  <1> QED  BY <1>18, <1>20, <1>21

\* A deletion finds a bound local.
LEMMA TidyDeleteFast ==
  ASSUME NEW U, OnTidyTrack(U), DeleteFast
  PROVE  StaysTidy(U)
  <1> DEFINE i == frame.pc
             s == start[i]
             v == Ins.arg
             t == After(Ins, i, s)
             fast == [frame.fast EXCEPT ![v] = "null"]
             python == [frame.python EXCEPT ![v] = "null"]
             cells == Cells(prog)
  <1>1. Ins.op = "DELETE_FAST"  BY DEF DeleteFast
  <1>2. /\ InstructionAssumption(prog, i, Ins) /\ Ins.op \in Op /\ i \in DOMAIN prog.code
        /\ Ins = prog.code[i] /\ s \in StateType(prog) /\ i \in DOMAIN start
        /\ prog.depth[i] \in Nat /\ Kept(prog, i) = prog.depth[i] - Pops(Ins.op)
        /\ Len(frame.stack) = prog.depth[i]
    BY TidyFacts
  <1>3. v \in 0..(prog.nlocals - 1)  BY <1>1, <1>2 DEF InstructionAssumption, LocalOp
  <1>4. Pops(Ins.op) = 0 /\ Pushes(Ins.op) = 0 /\ FallsThrough(Ins.op)
    <2>1. Pops(Ins.op) = 0  BY <1>1, <1>2, PopsOf
    <2>2. Pushes(Ins.op) = 0  BY <1>1, <1>2, PushesOf
    <2>3. FallsThrough(Ins.op)  BY <1>1, SMT DEF FallsThrough
    <2> QED  BY <2>1, <2>2, <2>3
  <1>5. Goes(prog, i, s, i + 1, t) /\ prog.depth[i + 1] = Kept(prog, i)
    BY <1>4, TidyRoom
  <1>6. Tracks(prog, start, EscapeSet, U, frame) /\ HasFields(frame)
        /\ NativeAre(prog, EscapeSet, U) /\ Tidy
    BY DEF OnTidyTrack
  <1>7. frame.stack \in Seq(ValueType) /\ Len(frame.stack) = prog.depth[i + 1]
    BY <1>2, <1>4, <1>5, <1>6 DEF Tracks
  <1>8. t = Assign(s, v, "Undefined")  BY <1>1, AfterOf
  <1>9. /\ t.stack = s.stack /\ t.locals[v].maybeUndefined
        /\ \A w \in 0..(prog.nlocals - 1) : w # v => t.locals[w] = s.locals[w]
    <2>1. "Undefined" \in Kind  BY DEF Kind
    <2>2. Assigned(prog, s, Assign(s, v, "Undefined"), v, "Undefined")
      BY <1>2, <1>3, <2>1, AssignedLocal, Zenon
    <2> QED  BY <1>8, <2>2 DEF Assigned
  <1>10. BoxedAs(t, EscapeSet, frame.stack)
    <2>1. BoxedAs(s, EscapeSet, frame.stack)  BY <1>6 DEF Tracks
    <2> QED  BY <1>9, <2>1 DEF BoxedAs
  <1>11. Escaped <=> v \in U
    <2>1. Escaped <=> i \in EscapeSet  BY DEF Escaped, EscapeSet
    <2>2. prog.code[i].op \in LocalOp /\ prog.code[i].arg = v  BY <1>1, <1>2 DEF LocalOp
    <2> QED  BY <1>2, <1>6, <2>1, <2>2 DEF NativeAre
  <1>12. /\ frame.fast \in cells /\ frame.native \in cells /\ frame.python \in cells
         /\ BoundIn(prog, s, frame.python)
         /\ \A w \in 0..(prog.nlocals - 1) :
                /\ w \in U => frame.python[w] \in {"null", frame.native[w]}
                /\ w \notin U => frame.fast[w] = frame.python[w]
    BY <1>6 DEF Tracks, HeldIn
  <1>13. frame.python[v] # "null"
    <2>1. ~s.locals[v].maybeUndefined  BY <1>1, <1>2, <1>6 DEF Tidy, BindingIsKnown
    <2> QED  BY <1>3, <1>12, <2>1 DEF BoundIn
  <1> HIDE DEF i, s, v, t
  <1>14. /\ python \in cells /\ python[v] = "null"
         /\ \A w \in 0..(prog.nlocals - 1) : w # v => python[w] = frame.python[w]
    BY <1>3, <1>12, FunctionUpdate DEF Cells
  <1>15. /\ fast \in cells /\ fast[v] = "null"
         /\ \A w \in 0..(prog.nlocals - 1) : w # v => fast[w] = frame.fast[w]
    BY <1>3, <1>12, FunctionUpdate DEF Cells
  <1>16. \/ Escaped /\ GoesOn(frame, frame', i + 1, frame.stack, frame.fast, frame.native, python)
         \/ ~Escaped /\ GoesOn(frame, frame', i + 1, frame.stack, fast, frame.native, python)
    <2>1. \/ Escaped /\ frame' = [frame EXCEPT !.pc = frame.pc + 1, !.python[v] = "null"]
          \/ /\ ~Escaped
             /\ frame' = [frame EXCEPT !.pc = frame.pc + 1, !.fast[v] = "null",
                                       !.python[v] = "null"]
      BY <1>13, Zenon DEF DeleteFast, v
    <2> QED  BY <1>6, <2>1, DeletedNative, DeletedFast, Zenon DEF i, python, fast
  <1> HIDE DEF fast, python, cells
  <1>17. BoundIn(prog, t, python)
    <2> SUFFICES ASSUME NEW w \in 0..(prog.nlocals - 1), ~t.locals[w].maybeUndefined
                 PROVE  python[w] # "null"
      BY DEF BoundIn
    <2>1. w # v  BY <1>9
    <2> QED  BY <1>9, <1>12, <1>14, <2>1 DEF BoundIn
  <1>18. CASE /\ Escaped
              /\ GoesOn(frame, frame', i + 1, frame.stack, frame.fast, frame.native, python)
    <2>1. HeldIn(prog, U, frame.fast, frame.native, python)
      BY <1>11, <1>12, <1>14, <1>18 DEF HeldIn
    <2>2. Tracks(prog, start, EscapeSet, U, frame')
      BY <1>5, <1>7, <1>10, <1>12, <1>14, <1>17, <1>18, <2>1, TidyArrives DEF cells, i, s
    <2> QED  BY <1>18, <2>2, GoesTidily
  <1>19. CASE ~Escaped /\ GoesOn(frame, frame', i + 1, frame.stack, fast, frame.native, python)
    <2>1. HeldIn(prog, U, fast, frame.native, python)
      BY <1>11, <1>12, <1>14, <1>15, <1>19 DEF HeldIn
    <2>2. Tracks(prog, start, EscapeSet, U, frame')
      BY <1>5, <1>7, <1>10, <1>12, <1>14, <1>15, <1>17, <1>19, <2>1, TidyArrives DEF cells, i, s
    <2> QED  BY <1>19, <2>2, GoesTidily
  <1> QED  BY <1>16, <1>18, <1>19

LEMMA TidyOperate ==
  ASSUME NEW U, OnTidyTrack(U), Operate
  PROVE  StaysTidy(U)
  <1> DEFINE i == frame.pc
             s == start[i]
             a == Converted(1).kind
             b == Converted(0).kind
  <1>1. Ins.op \in {"BINARY_ADD", "COMPARE_OP"}  BY DEF Operate
  <1>2. Ins.op \in Op  BY TidyFacts
  <1>3. Goes(prog, i, s, i + 1, After(Ins, i, s)) /\ prog.depth[i + 1] = Kept(prog, i) + 1
    <2>1. FallsThrough(Ins.op)  BY <1>1, SMT DEF FallsThrough
    <2>2. Pushes(Ins.op) = 1  BY <1>1, <1>2, PushesOf
    <2> QED  BY <2>1, <2>2, TidyRoom
  <1>4. a \in ValueKind /\ b \in ValueKind
    <2>1. Pops(Ins.op) = 2  BY <1>1, <1>2, PopsOf
    <2>2. 0 \in 0..(Pops(Ins.op) - 1) /\ 1 \in 0..(Pops(Ins.op) - 1)  BY <2>1
    <2>3. Converted(0) \in ValueType /\ Converted(1) \in ValueType
      BY <2>2, Representations
    <2> QED  BY <2>3, SMT DEF ValueType
  <1> HIDE DEF i, s, a, b
  <1>5. PICK sum : sum = binaryAdd(a, b)  OBVIOUS
  <1>6. sum # "Any" => sum \in ValueKind
    <2>1. a \in Kind /\ b \in Kind  BY <1>4, SMT DEF ValueKind, Kind
    <2>2. binaryAdd(a, b) \in {"Integer", "String", "Any"}  BY <2>1, BinaryAdd
    <2> QED  BY <1>5, <2>2, SMT DEF ValueKind
  <1>7. ASSUME NEW value \in ValueType, value.boxed = ~Escaped, Continue(<<value>>)
        PROVE  StaysTidy(U)
    <2>1. Goto(i + 1, <<value>>)  BY <1>7 DEF Continue, i
    <2>2. Ins.op \notin {"STORE_FAST", "DELETE_FAST"}  BY <1>1
    <2> QED  BY <1>3, <1>7, <2>1, <2>2, PushesOne DEF i, s
  <1>8. ASSUME NEW kind \in ValueKind, Continue(<<Value(kind, ~Escaped)>>)
        PROVE  StaysTidy(U)
    <2>1. PICK value : value = Value(kind, ~Escaped)  OBVIOUS
    <2>2. value \in ValueType /\ value.boxed = ~Escaped  BY <2>1, BoxedValue
    <2> QED  BY <1>7, <1>8, <2>1, <2>2
  <1>9. \/ sum = "Any" /\ Stop("TypeError")
        \/ sum # "Any" /\ Continue(<<Value(IF Ins.op = "BINARY_ADD" THEN sum ELSE "Bool", ~Escaped)>>)
    BY <1>5, Zenon DEF Operate, a, b
  <1>10. CASE sum = "Any" /\ Stop("TypeError")  BY <1>10, StopsTidily
  <1>11. CASE Ins.op = "BINARY_ADD" /\ sum # "Any" /\ Continue(<<Value(sum, ~Escaped)>>)
    BY <1>6, <1>8, <1>11
  <1>12. CASE Ins.op = "COMPARE_OP" /\ Continue(<<Value("Bool", ~Escaped)>>)
    <2>1. "Bool" \in ValueKind  BY DEF ValueKind
    <2> QED  BY <1>8, <1>12, <2>1
  <1> QED  BY <1>1, <1>9, <1>10, <1>11, <1>12

LEMMA TidyShuffle ==
  ASSUME NEW U, OnTidyTrack(U), Shuffle
  PROVE  StaysTidy(U)
  <1> DEFINE i == frame.pc
             s == start[i]
  <1>1. Ins.op \in {"POP_TOP", "DUP_TOP"}  BY DEF Shuffle
  <1>2. Ins.op \in Op /\ Kept(prog, i) \in Nat  BY TidyFacts
  <1>3. FallsThrough(Ins.op) /\ Ins.op \notin {"STORE_FAST", "DELETE_FAST"}
    BY <1>1, SMT DEF FallsThrough
  <1>4. Goes(prog, i, s, i + 1, After(Ins, i, s))  BY <1>3, TidyRoom
  <1>5. CASE Ins.op = "POP_TOP" /\ Continue(<<>>)
    <2>1. Pushes(Ins.op) = 0  BY <1>2, <1>5, PushesOf
    <2>2. prog.depth[i + 1] = Kept(prog, i)  BY <1>3, <2>1, TidyRoom
    <2>3. Goto(i + 1, <<>>)  BY <1>5 DEF Continue
    <2> HIDE DEF i, s
    <2> QED  BY <1>3, <1>4, <2>2, <2>3, PushesNothing DEF i, s
  <1>6. CASE Ins.op = "DUP_TOP" /\ Continue(<<Converted(0), Converted(0)>>)
    <2>1. Pushes(Ins.op) = 2 /\ Pops(Ins.op) = 1  BY <1>2, <1>6, PushesOf, PopsOf
    <2>2. prog.depth[i + 1] = Kept(prog, i) + 2  BY <1>3, <2>1, TidyRoom
    <2>3. 0 \in 0..(Pops(Ins.op) - 1)  BY <2>1
    <2>4. PICK value : value = Converted(0)  OBVIOUS
    <2>5. value \in ValueType /\ value.boxed = ~Escaped  BY <2>3, <2>4, Representations
    <2>6. PICK two : two = <<value, value>>  OBVIOUS
    <2>7. two \in Seq(ValueType) /\ Len(two) = 2 /\ two[1] = value /\ two[2] = value
      BY <2>5, <2>6
    <2>8. Goto(i + 1, two)  BY <1>6, <2>4, <2>6 DEF Continue
    <2> HIDE DEF i, s
    <2>9. Len(two) = prog.depth[i + 1] - Kept(prog, i)  BY <1>2, <2>2, <2>7
    <2>10. \A m \in 1..Len(two) : two[m].boxed = ~Escaped  BY <2>5, <2>7
    <2> QED  BY <1>3, <1>4, <2>7, <2>8, <2>9, <2>10, PushesTidily DEF i, s
  <1> QED  BY <1>5, <1>6 DEF Shuffle

LEMMA TidyFollow ==
  ASSUME NEW U, OnTidyTrack(U), Follow
  PROVE  StaysTidy(U)
  <1> DEFINE i == frame.pc
             s == start[i]
  <1>1. Ins.op \in Op  BY TidyFacts
  <1>2. CASE Ins.op \in {"JUMP_ABSOLUTE", "POP_JUMP_IF_FALSE"} /\ Goto(Ins.arg, <<>>)
    <2>1. /\ Jumps(Ins.op) /\ Ins.op # "JUMP_IF_FALSE_OR_POP"
          /\ Ins.op \notin {"STORE_FAST", "DELETE_FAST"}
      BY <1>2, SMT DEF Jumps, CondJump
    <2>2. Goes(prog, i, s, Ins.arg, AtTarget(Ins, i, s)) /\ prog.depth[Ins.arg] = Kept(prog, i)
      BY <2>1, TidyRoom
    <2> QED  BY <1>2, <2>1, <2>2, PushesNothing
  <1>3. CASE Ins.op \in CondJump /\ Continue(<<>>)
    <2>1. FallsThrough(Ins.op) /\ Ins.op \notin {"STORE_FAST", "DELETE_FAST"}
      BY <1>3, SMT DEF CondJump, FallsThrough
    <2>2. Pushes(Ins.op) = 0  BY <1>1, <1>3, PushesOf
    <2>3. Goes(prog, i, s, i + 1, After(Ins, i, s)) /\ prog.depth[i + 1] = Kept(prog, i)
      BY <2>1, <2>2, TidyRoom
    <2>4. Goto(i + 1, <<>>)  BY <1>3 DEF Continue
    <2> HIDE DEF i, s
    <2> QED  BY <2>1, <2>3, <2>4, PushesNothing DEF i, s
  <1>4. CASE Ins.op = "JUMP_IF_FALSE_OR_POP" /\ Goto(Ins.arg, <<Converted(0)>>)
    <2>1. Jumps(Ins.op) /\ Ins.op \in CondJump /\ Ins.op \notin {"STORE_FAST", "DELETE_FAST"}
      BY <1>4, SMT DEF CondJump, Jumps
    <2>2. Pops(Ins.op) = 1  BY <1>1, <2>1, PopsOf
    <2>3. 0 \in 0..(Pops(Ins.op) - 1)  BY <2>2
    <2>4. PICK value : value = Converted(0)  OBVIOUS
    <2>5. value \in ValueType /\ value.boxed = ~Escaped  BY <2>3, <2>4, Representations
    <2>6. /\ Goes(prog, i, s, Ins.arg, AtTarget(Ins, i, s))
          /\ prog.depth[Ins.arg] = Kept(prog, i) + 1
      BY <1>4, <2>1, TidyRoom
    <2>7. Goto(Ins.arg, <<value>>)  BY <1>4, <2>4
    <2> QED  BY <2>1, <2>5, <2>6, <2>7, PushesOne
  <1>5. CASE Stop("returned")  BY <1>5, StopsTidily
  <1> QED  BY <1>2, <1>3, <1>4, <1>5 DEF Follow

LEMMA TidyExecute ==
  ASSUME NEW U, OnTidyTrack(U), Execute
  PROVE  StaysTidy(U)
  <1>1. ~Misread  BY Representations
  <1>2. Stop("UnboxingError") => StaysTidy(U)  BY StopsTidily
  <1> QED
    BY <1>1, <1>2, TidyLoad, TidyLoadFast, TidyStoreFast, TidyDeleteFast, TidyOperate,
       TidyShuffle, TidyFollow DEF Execute

OnTheRun ==
    \E U \in SUBSET (prog.argcount..(prog.nlocals - 1)) :
        NativeAre(prog, EscapeSet, U) /\ Tracks(prog, start, EscapeSet, U, frame)

FrameIsTidy ==
    /\ frame.end \notin {"misread", "null", "unbound"}
    /\ frame.end = "running" => OnTheRun

TidyFrameInv ==
    \/ frame = NoFrame
    \/ /\ HasFields(frame) /\ bodies # <<>>
       /\ frame.body \in {"specialized", "generic"}
       /\ Tidy => FrameIsTidy

\* A call begins with its arguments as objects, whichever body it enters.
LEMMA TidyCall ==
  ASSUME AnalysisInv, BodiesInv, Call
  PROVE  TidyFrameInv'
  <1>1. /\ bodies # <<>> /\ bodies' = bodies /\ prog' = prog /\ start' = start
    BY DEF Call, absVars
  <1> DEFINE bound(args) == [v \in 0..(prog.nlocals - 1) |->
                                IF v < prog.argcount THEN args[v] ELSE "null"]
             nulls == [v \in 0..(prog.nlocals - 1) |-> "null"]
  <1>2. PICK args \in [0..(prog.argcount - 1) -> CallKinds] :
            frame' = [end |-> "running", body |-> Entered(args), pc |-> 1, stack |-> <<>>,
                      fast |-> bound(args),
                      native |-> [v \in DOMAIN bound(args) |-> "null"],
                      python |-> bound(args)]
    BY Zenon DEF Call
  <1> DEFINE locals == bound(args)
  <1>3. DOMAIN locals = 0..(prog.nlocals - 1)  OBVIOUS
  <1>4. PICK f : f = frame'  OBVIOUS
  <1>5. /\ HasFields(f) /\ f.end = "running" /\ f.body = Entered(args) /\ f.pc = 1
        /\ f.stack = <<>> /\ f.fast = locals /\ f.native = nulls /\ f.python = locals
    <2> HIDE DEF locals, nulls
    <2>1. f = [end |-> "running", body |-> Entered(args), pc |-> 1, stack |-> <<>>,
               fast |-> locals, native |-> nulls, python |-> locals]
      BY <1>2, <1>3, <1>4 DEF locals, nulls
    <2> QED  BY <2>1 DEF HasFields, Fields
  <1>6. ProgramAssumption(prog)  BY AbsInterpAssumption DEF AnalysisInv
  <1>7. /\ prog.argcount \in Nat /\ prog.nlocals \in Nat /\ prog.argcount <= prog.nlocals
        /\ prog.depth[1] = 0
    BY <1>6, ProgramFacts
  <1>8. Entered(args) \in {"specialized", "generic"}  BY DEF Entered
  <1>9. PICK body : body = bodies[f.body]  OBVIOUS
  <1>10. GoodBody(prog, start, body)  BY <1>1, <1>5, <1>8, <1>9 DEF BodiesInv
  <1>11. PICK U \in SUBSET (prog.argcount..(prog.nlocals - 1)) :
             NativeAre(prog, body.graph.escape, U)
    BY <1>10 DEF GoodBody
  <1>12. \A v \in 0..(prog.argcount - 1) : args[v] \in ValueKind
    BY <1>2, CompiledCodeAssumption DEF ValueKind
  <1>13. 1 \in DOMAIN start /\ Above(prog, start[1], InitialState)
    BY DEF AnalysisInv
  <1>14. \A v \in 0..(prog.nlocals - 1) :
             InitialState.locals[v] = IF v < prog.argcount
                                      THEN [kind |-> argKinds[v], maybeUndefined |-> FALSE]
                                      ELSE [kind |-> "Undefined", maybeUndefined |-> TRUE]
    BY DEF InitialState
  <1>15. ASSUME NEW v \in 0..(prog.nlocals - 1)
         PROVE  /\ locals[v] \in ValueKind \cup {"null"}
                /\ ~InitialState.locals[v].maybeUndefined => locals[v] # "null"
                /\ v \in U => locals[v] = "null"
    <2>a. PICK mine, initial : mine = locals[v] /\ initial = InitialState.locals[v]  OBVIOUS
    <2>b. "null" \notin ValueKind  BY SMT DEF ValueKind
    <2>1. CASE v < prog.argcount
      <3>1. v \in 0..(prog.argcount - 1) /\ v \notin U  BY <1>7, <1>11, <2>1, SMT
      <3>2. mine = args[v]  BY <2>1, <2>a
      <3>3. args[v] \in ValueKind  BY <1>12, <3>1
      <3> QED  BY <2>a, <2>b, <3>1, <3>2, <3>3
    <2>2. CASE ~(v < prog.argcount)
      <3>1. mine = "null" /\ initial = [kind |-> "Undefined", maybeUndefined |-> TRUE]
        BY <1>14, <2>2, <2>a
      <3> QED  BY <2>a, <3>1
    <2> QED  BY <2>1, <2>2
  <1>16. locals \in Cells(prog) /\ nulls \in Cells(prog)  BY <1>15 DEF Cells
  <1>17. nulls = [v \in 0..(prog.nlocals - 1) |-> "null"]  OBVIOUS
  <1> HIDE DEF locals, nulls, bound
  <1>18. BoundIn(prog, start[1], locals)
    <2> SUFFICES ASSUME NEW v \in 0..(prog.nlocals - 1), ~start[1].locals[v].maybeUndefined
                 PROVE  locals[v] # "null"
      BY DEF BoundIn
    <2>1. ~InitialState.locals[v].maybeUndefined  BY <1>13 DEF Above
    <2> QED  BY <1>15, <2>1
  <1>19. HeldIn(prog, U, locals, nulls, locals)  BY <1>15, <1>17 DEF HeldIn
  <1>20. Tracks(prog, start, body.graph.escape, U, f)
    <2>1. f.stack \in Seq(ValueType) /\ Len(f.stack) = 0  BY <1>5
    <2>2. BoxedAs(start[1], body.graph.escape, f.stack)  BY <2>1 DEF BoxedAs
    <2> QED  BY <1>5, <1>7, <1>13, <1>16, <1>18, <1>19, <2>1, <2>2 DEF Tracks
  <1>21. EscapeSet' = body.graph.escape  BY <1>1, <1>4, <1>9 DEF EscapeSet
  <1>22. OnTheRun'  BY <1>1, <1>4, <1>11, <1>20, <1>21 DEF OnTheRun
  <1>23. FrameIsTidy'  BY <1>4, <1>5, <1>22 DEF FrameIsTidy
  <1> QED  BY <1>1, <1>4, <1>5, <1>8, <1>23 DEF TidyFrameInv

LEMMA TidyFrameStep ==
  ASSUME AnalysisInv, FlowInv, BodiesInv, TidyInv, TidyFrameInv, [Next]_vars
  PROVE  TidyFrameInv'
  <1>1. CASE Analyse
    <2>1. ~Analysed
      BY <1>1, SMT DEF Analyse, Interpret, NextBlock, Straight, Branch, Jump, Leave, Analysed
    <2>2. frame' = frame  BY <1>1 DEF Analyse
    <2>3. frame = NoFrame  BY <2>1 DEF TidyFrameInv, BodiesInv
    <2> QED  BY <2>2, <2>3 DEF TidyFrameInv, NoFrame
  <1>2. CASE Compile
    <2>1. bodies = <<>> /\ frame' = frame  BY <1>2 DEF Compile
    <2>2. frame = NoFrame  BY <2>1 DEF TidyFrameInv
    <2> QED  BY <2>1, <2>2 DEF TidyFrameInv, NoFrame
  <1>3. CASE Call  BY <1>3, TidyCall
  <1>4. CASE Execute
    <2>1. frame.end = "running" /\ prog' = prog /\ start' = start /\ bodies' = bodies
      BY <1>4 DEF Execute, Running, absVars
    <2>2. frame # NoFrame  BY <2>1 DEF NoFrame
    <2>3. HasFields(frame) /\ bodies # <<>> /\ frame.body \in {"specialized", "generic"}
      BY <2>2 DEF TidyFrameInv
    <2>4. KeepsBody  BY <1>4, <2>3, StaysInBody
    <2>5. EscapeSet' = EscapeSet  BY <2>1, <2>4 DEF EscapeSet, KeepsBody
    <2>6. Tidy' <=> Tidy
      BY <2>1 DEF Tidy, EmptyJoins, LeadsTo, BindingIsKnown, DeletedLast, Uses
    <2>7. ASSUME Tidy
          PROVE  FrameIsTidy'
      <3>1. PICK U \in SUBSET (prog.argcount..(prog.nlocals - 1)) :
                NativeAre(prog, EscapeSet, U) /\ Tracks(prog, start, EscapeSet, U, frame)
        BY <2>1, <2>2, <2>7 DEF TidyFrameInv, FrameIsTidy, OnTheRun
      <3>2. OnTidyTrack(U)  BY <2>1, <2>3, <2>7, <3>1 DEF OnTidyTrack
      <3>3. StaysTidy(U)  BY <1>4, <3>2, TidyExecute
      <3>4. frame'.end = "running" => OnTheRun'
        BY <2>1, <2>5, <3>1, <3>3 DEF StaysTidy, OnTheRun
      <3> QED  BY <3>3, <3>4 DEF StaysTidy, FrameIsTidy
    <2> QED  BY <2>1, <2>3, <2>4, <2>6, <2>7 DEF TidyFrameInv, KeepsBody
  <1>5. CASE UNCHANGED vars
    <2>1. prog' = prog /\ start' = start /\ bodies' = bodies /\ frame' = frame
      BY <1>5 DEF vars, absVars
    <2>2. Tidy' <=> Tidy
      BY <2>1 DEF Tidy, EmptyJoins, LeadsTo, BindingIsKnown, DeletedLast, Uses
    <2>3. OnTheRun' <=> OnTheRun  BY <2>1 DEF OnTheRun, EscapeSet
    <2>4. FrameIsTidy' <=> FrameIsTidy  BY <2>1, <2>3 DEF FrameIsTidy
    <2> QED  BY <2>1, <2>2, <2>4 DEF TidyFrameInv
  <1> QED  BY <1>1, <1>2, <1>3, <1>4, <1>5 DEF Next

\* In a function that is tidy, no call of either body takes an object for a machine
\* word or the other way round, loads a local that is unbound without a check, or finds
\* an unboxed local without a value (emit_escape_edges, loadFastWorker, loadFastUnboxed).
THEOREM TidyCodeStaysSafe == Spec => []TidyCodeIsSafe
  <1>1. Init => TidyFrameInv  BY DEF Init, TidyFrameInv
  <1>2. TidyFrameInv => TidyCodeIsSafe
    BY DEF TidyFrameInv, FrameIsTidy, NoFrame, TidyCodeIsSafe, RepresentationMatches,
           LocalsAreChecked, UnboxedIsBound
  <1> QED  BY <1>1, <1>2, TidyAlways, TidyFrameStep, PTL DEF Spec
=============================================================================

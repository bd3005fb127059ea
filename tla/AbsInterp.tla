----------------------------- MODULE AbsInterp -----------------------------
(***************************************************************************)
(* The abstract interpreter (absint.cpp, absint.h): before a function is   *)
(* compiled, its byte code is interpreted over kinds of values instead of  *)
(* values.  For every reachable instruction the interpreter keeps the      *)
(* state the instruction starts in; where control flow joins, states are   *)
(* merged, and a block whose start state changed is queued and interpreted *)
(* again.                                                                  *)
(*                                                                         *)
(* Every stack slot remembers the instruction that produced it (its        *)
(* source), and every source the instructions that popped it.  These pairs *)
(* are what InstructionGraph builds its edges from.                        *)
(*                                                                         *)
(* Instructions are numbered from 1, as if each took one byte.  One opcode *)
(* stands for each way of treating stack, locals and control flow.         *)
(***************************************************************************)
EXTENDS Naturals, Sequences, FiniteSets

CONSTANT Programs   \* functions, as CPython compiles them

\* LOAD_CONST carries the kind of its constant, LOAD_FAST, STORE_FAST and
\* DELETE_FAST the number of a local, jumps the number of an instruction.
CondJump == {"POP_JUMP_IF_FALSE", "JUMP_IF_FALSE_OR_POP"}
LocalOp == {"LOAD_FAST", "STORE_FAST", "DELETE_FAST"}
Op == CondJump \cup LocalOp \cup
      {"LOAD_CONST", "LOAD_GLOBAL", "BINARY_ADD", "COMPARE_OP", "POP_TOP",
       "DUP_TOP", "JUMP_ABSOLUTE", "RETURN_VALUE"}

\* How many values an instruction takes from the stack, and how many it puts there
\* when it falls through.
Pops(op) ==
    CASE op \in {"BINARY_ADD", "COMPARE_OP"} -> 2
      [] op \in CondJump \cup {"STORE_FAST", "POP_TOP", "DUP_TOP", "RETURN_VALUE"} -> 1
      [] OTHER -> 0

Pushes(op) ==
    CASE op \in {"LOAD_CONST", "LOAD_GLOBAL", "LOAD_FAST", "BINARY_ADD", "COMPARE_OP"} -> 1
      [] op = "DUP_TOP" -> 2
      [] OTHER -> 0

FallsThrough(op) == op \notin {"JUMP_ABSOLUTE", "RETURN_VALUE"}
Jumps(op) == op \in CondJump \cup {"JUMP_ABSOLUTE"}

\* Integer stands for the numbers that are unboxed, Float included, and String
\* for the known kinds that are not.
Kind == {"Undefined", "Any", "Integer", "Bool", "String"}

\* Instruction ins of program p, at i: it finds its operands on the stack, and
\* wherever it goes the stack has the depth that is expected there.
InstructionAssumption(p, i, ins) ==
    /\ ins.op \in Op
    /\ ins.op \in LocalOp => ins.arg \in 0..(p.nlocals - 1)
    /\ ins.op = "LOAD_CONST" => ins.arg \in Kind \ {"Undefined", "Any"}
    /\ Pops(ins.op) <= p.depth[i]
    /\ FallsThrough(ins.op) =>
           /\ i + 1 \in DOMAIN p.code
           /\ p.depth[i + 1] = p.depth[i] - Pops(ins.op) + Pushes(ins.op)
    /\ Jumps(ins.op) =>
           /\ ins.arg \in DOMAIN p.code
           /\ p.depth[ins.arg] = p.depth[i] - Pops(ins.op) +
                  (IF ins.op = "JUMP_IF_FALSE_OR_POP" THEN 1 ELSE 0)

\* Arguments are the first locals.  CPython gives every instruction a fixed depth
\* of the stack, of which co_stacksize is the largest, and drops the instructions
\* that cannot be reached.
ProgramAssumption(p) ==
    /\ p.nlocals \in Nat /\ p.argcount \in 0..p.nlocals
    /\ p.code \in Seq({p.code[i] : i \in DOMAIN p.code}) /\ p.code # <<>>
    /\ p.depth \in [DOMAIN p.code -> Nat] /\ p.depth[1] = 0
    /\ \A i \in DOMAIN p.code : InstructionAssumption(p, i, p.code[i])

ASSUME AbsInterpAssumption == \A p \in Programs : ProgramAssumption(p)

VARIABLES
    prog,        \* the function being compiled
    argKinds,    \* the kinds of the arguments the compiling call was given
    start,       \* mStartStates: instruction -> the state before it
    consumers,   \* AbstractSource::_consumers, of all sources
    queue,       \* blocks to interpret
    cur          \* the instruction being interpreted, 0 between blocks

absVars == <<prog, argKinds, start, consumers, queue, cur>>

-----------------------------------------------------------------------------
(* Kinds *)

\* Mutant: the younger kind wins.
mergeKind_Newest(old, new) == new

mergeKind(old, new) == CASE old = "Undefined" -> new
                         [] old = new         -> old
                         [] OTHER             -> "Any"

Number == {"Integer", "Bool"}

binaryAdd(one, two) ==
    CASE one \in Number /\ two \in Number    -> "Integer"
      [] one = "String" /\ two = "String"    -> "String"
      [] OTHER                               -> "Any"

compare(one, two) == IF {one, two} \cap {"Any", "Undefined"} = {}
                     THEN "Bool" ELSE "Any"

-----------------------------------------------------------------------------
(* States: a stack of slots [kind, src], where src is the producing          *)
(* instruction and which of its results, and the locals.                     *)

Slot(kind, i, n) == [kind |-> kind, src |-> <<i, n>>]

Top(s, n) == s.stack[Len(s.stack) - n]
Pop(s, n) == [s EXCEPT !.stack = SubSeq(@, 1, Len(@) - n)]
Push(s, slot) == [s EXCEPT !.stack = Append(@, slot)]

\* STORE_FAST and DELETE_FAST.
Assign(s, v, kind) ==
    [s EXCEPT !.locals[v] = [kind |-> kind, maybeUndefined |-> kind = "Undefined"]]

\* The state behind instruction ins, at i, when it falls through.
After(ins, i, s) ==
    LET rest == Pop(s, Pops(ins.op))
        one == Top(s, 1).kind
        two == Top(s, 0).kind
    IN  CASE ins.op = "LOAD_CONST"  -> Push(s, Slot(ins.arg, i, 0))
          [] ins.op = "LOAD_GLOBAL" -> Push(s, Slot("Any", i, 0))
          [] ins.op = "LOAD_FAST"   -> Push(s, Slot(s.locals[ins.arg].kind, i, 0))
          [] ins.op = "STORE_FAST"  -> Assign(rest, ins.arg, two)
          [] ins.op = "DELETE_FAST" -> Assign(s, ins.arg, "Undefined")
          [] ins.op = "BINARY_ADD"  -> Push(rest, Slot(binaryAdd(one, two), i, 0))
          [] ins.op = "COMPARE_OP"  -> Push(rest, Slot(compare(one, two), i, 0))
          [] ins.op = "DUP_TOP"     -> Push(Push(rest, Slot(two, i, 0)), Slot(two, i, 1))
          [] OTHER                  -> rest

\* The state instruction ins jumps with: JUMP_IF_FALSE_OR_POP keeps the value,
\* under a source of its own.
AtTarget(ins, i, s) ==
    IF ins.op = "JUMP_IF_FALSE_OR_POP"
    THEN Push(Pop(s, 1), Slot(Top(s, 0).kind, i, 0))
    ELSE After(ins, i, s)

\* Mutant: the position is not counted.
PoppedBy_Uncounted(ins, i, s) ==
    {[src |-> Top(s, n).src, by |-> i, position |-> 0] : n \in 0..(Pops(ins.op) - 1)}

\* What InterpreterState::pop tells the sources of the slots that instruction ins, at i,
\* pops.
PoppedBy(ins, i, s) ==
    {[src |-> Top(s, n).src, by |-> i, position |-> n] : n \in 0..(Pops(ins.op) - 1)}

InitialState ==
    [stack  |-> <<>>,
     locals |-> [v \in 0..(prog.nlocals - 1) |->
                    IF v < prog.argcount
                    THEN [kind |-> argKinds[v], maybeUndefined |-> FALSE]
                    ELSE [kind |-> "Undefined", maybeUndefined |-> TRUE]]]

-----------------------------------------------------------------------------
(* mergeStates, updateStartState *)

\* A slot that keeps its kind keeps its source: AbstractSource::combine links
\* the two sources, and linked sources compare equal.  A slot whose kind
\* changes takes the source combine answers: the one with more links, which
\* keepOld chooses.
MergeSlot(old, new, keepOld) ==
    LET kind == mergeKind(old.kind, new.kind)
    IN  IF kind = old.kind THEN old
        ELSE [kind |-> kind, src |-> IF keepOld THEN old.src ELSE new.src]

\* Mutant: a local that is undefined on one side only counts as defined.
mergeLocal_Defined(old, new) ==
    [kind |-> mergeKind(old.kind, new.kind),
     maybeUndefined |-> old.maybeUndefined /\ new.maybeUndefined]

mergeLocal(old, new) ==
    [kind |-> mergeKind(old.kind, new.kind),
     maybeUndefined |-> old.maybeUndefined \/ new.maybeUndefined]

mergeStates(old, new, keepOld) ==
    [stack  |-> IF old.stack = <<>> THEN new.stack
                ELSE [n \in DOMAIN old.stack |->
                         IF n \in DOMAIN new.stack
                         THEN MergeSlot(old.stack[n], new.stack[n], keepOld)
                         ELSE old.stack[n]],
     locals |-> [v \in DOMAIN old.locals |-> mergeLocal(old.locals[v], new.locals[v])]]

updateStartState(states, i, s, keepOld) ==
    [j \in DOMAIN states \cup {i} |->
        IF j # i THEN states[j]
        ELSE IF i \in DOMAIN states THEN mergeStates(states[i], s, keepOld) ELSE s]

Changed(before, after, i) == i \notin DOMAIN before \/ before[i] # after[i]

-----------------------------------------------------------------------------
(* interpret *)

AbsInit ==
    /\ prog \in Programs
    /\ argKinds \in [0..(prog.argcount - 1) -> Kind \ {"Undefined"}]
    /\ start = [i \in {1} |-> InitialState]
    /\ consumers = {}
    /\ queue = <<1>>
    /\ cur = 0

Analysed == cur = 0 /\ queue = <<>>

Instruction == prog.code[cur]
Opcode == Instruction.op
Target == Instruction.arg

\* Mutant: only a target that was never seen is queued.
Enqueue_Once(after) ==
    queue' = IF Target \notin DOMAIN start THEN Append(queue, Target) ELSE queue

\* The target of the jump is interpreted (again) if its start state changed.
Enqueue(after) ==
    queue' = IF Changed(start, after, Target) THEN Append(queue, Target) ELSE queue

NextBlock ==
    /\ cur = 0 /\ queue # <<>>
    /\ cur' = Head(queue)
    /\ queue' = Tail(queue)
    /\ UNCHANGED <<prog, argKinds, start, consumers>>

\* An instruction that only falls through; the one behind it is interpreted
\* next, whether its start state changed or not.
Straight ==
    /\ cur # 0 /\ Opcode \notin CondJump \cup {"JUMP_ABSOLUTE", "RETURN_VALUE"}
    /\ \E keepOld \in BOOLEAN :
           start' = updateStartState(start, cur + 1, After(Instruction, cur, start[cur]), keepOld)
    /\ cur' = cur + 1
    /\ UNCHANGED queue

Branch ==
    /\ cur # 0 /\ Opcode \in CondJump
    /\ \E keepOld \in BOOLEAN :
           LET jumped == updateStartState(start, Target, AtTarget(Instruction, cur, start[cur]), keepOld)
           IN  /\ Enqueue(jumped)
               /\ start' = updateStartState(jumped, cur + 1, After(Instruction, cur, start[cur]), keepOld)
    /\ cur' = cur + 1

Jump ==
    /\ cur # 0 /\ Opcode = "JUMP_ABSOLUTE"
    /\ \E keepOld \in BOOLEAN :
           start' = updateStartState(start, Target, start[cur], keepOld)
    /\ Enqueue(start')
    /\ cur' = 0

Leave ==
    /\ cur # 0 /\ Opcode = "RETURN_VALUE"
    /\ cur' = 0
    /\ UNCHANGED <<start, queue>>

Interpret ==
    \/ NextBlock
    \/ /\ Straight \/ Branch \/ Jump \/ Leave
       /\ consumers' = consumers \cup PoppedBy(Instruction, cur, start[cur])
       /\ UNCHANGED <<prog, argKinds>>

-----------------------------------------------------------------------------
(* Properties *)

\* Where instruction i can go from state s, and the state it goes there with.
Outcomes(i, s) ==
    LET ins == prog.code[i]
    IN  (IF FallsThrough(ins.op) THEN {[to |-> i + 1, state |-> After(ins, i, s)]} ELSE {})
        \cup (IF Jumps(ins.op) THEN {[to |-> ins.arg, state |-> AtTarget(ins, i, s)]} ELSE {})

\* Undefined stands for no value at all.
Covers(kind, other) == other = "Undefined" \/ kind \in {"Any", other}

\* When no block is left to interpret, the start states agree with each other:
\* whatever an instruction does to its start state is covered by the start states
\* it leads to, with a stack of the same height and the marks of unassigned
\* locals.  The queue is only fed when a jump changes its target, so this is what
\* the worklist of interpret() has to get right.
StartStatesAreStable ==
    Analysed =>
        \A i \in DOMAIN start : \A o \in Outcomes(i, start[i]) :
            /\ o.to \in DOMAIN start
            /\ Len(start[o.to].stack) = Len(o.state.stack)
            /\ \A n \in DOMAIN o.state.stack :
                   Covers(start[o.to].stack[n].kind, o.state.stack[n].kind)
            /\ \A v \in DOMAIN o.state.locals :
                   LET local == start[o.to].locals[v]
                   IN  /\ Covers(local.kind, o.state.locals[v].kind)
                       /\ o.state.locals[v].maybeUndefined => local.maybeUndefined

\* The abstract interpretation of every function comes to an end: loops do not
\* keep changing the start states of their blocks.
AnalysisEnds == <>Analysed
=============================================================================

---------------------------- MODULE EmittedCode ----------------------------
(***************************************************************************)
(* A compiled method at work: it runs the steps CompileWorker emitted for  *)
(* a program, on the evaluation stack, the temporaries and the local x of  *)
(* the frame, the blocks of the frame and the exception being handled of   *)
(* the thread.                                                             *)
(*                                                                         *)
(* A slot is a pair <<kind, object>>.  The method owns references: how     *)
(* many of which object is counted, and whenever an instruction ends there *)
(* must be one for every place that holds the object.  As a yardstick the  *)
(* state has the exception blocks Python would have, and the instruction's *)
(* stack at its start.                                                     *)
(***************************************************************************)
EXTENDS CompileWorker

CONSTANTS
    Programs,     \* the functions compiled: sequences of instructions
    MaxObjects,   \* a bound on the objects alive at one time
    MaxBlocks     \* CO_MAXBLOCKS, the blocks a frame has room for

ASSUME EmittedCodeAssumption == {MaxObjects, MaxBlocks} \subseteq Nat \ {0}

VARIABLES
    prog,       \* the function that was compiled
    compiled,   \* what compileWorker knows of it
    vm,         \* the method that is running
    py          \* what Python would have, and what went wrong

vars == <<prog, compiled, vm, py>>

Nothing == <<"null", 0>>
Unset == <<"unset", 0>>
Object(o) == <<"obj", o>>
Ids == 1..MaxObjects
Instruction == prog[vm.pc]

Load(i) == Steps(prog[i])

\* The frame starts with the local x unbound or bound.
Start(program, bound) ==
    [pc |-> 1, next |-> 2, todo |-> Steps(program[1]), state |-> "running",
     height |-> 0, stack |-> <<>>, temps |-> <<>>, raised |-> "no", pending |-> FALSE,
     fast |-> IF bound THEN Object(1) ELSE Nothing,
     rc |-> [o \in Ids |-> IF bound /\ o = 1 THEN 1 ELSE 0],
     excInfo |-> <<Nothing, Nothing, Nothing>>, blocks |-> <<>>, suspended |-> <<>>]

NoFault == <<"none", "">>
Clean == [blocks |-> <<>>, abandoned |-> 0, before |-> <<>>, fault |-> NoFault, leaks |-> {}]

\* A function that could not be compiled stays with the interpreter.
Init ==
    /\ prog \in Programs
    /\ compiled = compileWorker(prog)
    /\ compiled.result = "Success"
    /\ \E bound \in BOOLEAN : vm = Start(prog, bound)
    /\ py = Clean

-----------------------------------------------------------------------------
(* The machine *)

Running == vm.state = "running" /\ py.fault = NoFault
Op == Head(vm.todo)
Is(kind) == Running /\ vm.todo # <<>> /\ Op[1] = kind
Done == [vm EXCEPT !.todo = Tail(@)]

Push(v, slot) == [v EXCEPT !.stack = Append(@, slot)]
PushAll(v, slots) == [v EXCEPT !.stack = @ \o slots]
Drop(v, n) == [v EXCEPT !.stack = SubSeq(@, 1, Len(@) - n)]
TopOf(v) == Last(v.stack)
Insert(v, code) == [v EXCEPT !.todo = code \o @]

\* How many values a step takes.
Takes(step) ==
    CASE step[1] \in {"st", "pop", "dup", "incref", "decref", "deref", "switch", "stfast", "errorCheck",
                      "intErrorCheck", "negCheck", "return", "yield"} -> 1
      [] step[1] = "call" -> Arity(step[2])
      [] step[1] = "fill" -> step[2] + 1
      [] step[1] = "setfield" -> 2
      [] step[1] = "popexcept" -> 3
      [] OTHER -> 0

Becomes(v) == vm' = v /\ UNCHANGED <<prog, compiled, py>>
Faults(what) == py' = [py EXCEPT !.fault = <<what, Instruction.op>>] /\ UNCHANGED <<prog, compiled, vm>>

\* The object a slot holds; a slot is usable if its object was not freed.
Holds(slot) == slot[1] = "obj"
Usable(v, slot) == Holds(slot) => v.rc[slot[2]] > 0
Misused(v, slot) ==
    CASE Holds(slot)       -> IF Usable(v, slot) THEN "none" ELSE "freed"
      [] slot = Nothing    -> "null"
      [] OTHER             -> "type"

Release(v, slot) == IF Holds(slot) THEN [v EXCEPT !.rc[slot[2]] = @ - 1] ELSE v
Retain(v, slot) == [v EXCEPT !.rc[slot[2]] = @ + 1]

InUse(v) ==
    {o \in Ids : v.rc[o] > 0}
    \cup {s[2] : s \in ToSet(v.stack) \cup {v.temps[t] : t \in DOMAIN v.temps}}
Fresh(v, refs) == LET o == CHOOSE o \in Ids \ InUse(v) : \A p \in Ids \ InUse(v) : o <= p
                  IN  [object |-> Object(o), vm |-> [v EXCEPT !.rc[o] = refs]]
PushNew(v) == Push(Fresh(v, 1).vm, Fresh(v, 1).object)

Enough(kind) == Is(kind) /\ Len(vm.stack) >= Takes(Op)

-----------------------------------------------------------------------------
(* Steps on the stack, the temporaries and the local *)

StoreTemp == Enough("st") /\ Becomes(Drop([Done EXCEPT !.temps = (Op[2] :> TopOf(vm)) @@ @], 1))
LoadTemp == Is("ld") /\ Becomes(Push(Done, IF Op[2] \in DOMAIN vm.temps THEN vm.temps[Op[2]] ELSE Unset))
Duplicate == Enough("dup") /\ Becomes(Push(Done, TopOf(vm)))
PopValue == Enough("pop") /\ Becomes(Drop(Done, 1))
PushNull == Is("null") /\ Becomes(Push(Done, Nothing))
PushStatus == Is("push") /\ Becomes(Push(Done, <<Op[2], 0>>))
PushItem == Is("item") /\ Becomes(PushNew(Done))
SetError == Is("error") /\ Becomes([Done EXCEPT !.pending = TRUE])

\* incref and a field access need an object, decref takes a null as well.
UseObject ==
    /\ \E kind \in {"incref", "deref"} : Enough(kind)
    /\ IF Misused(vm, TopOf(vm)) # "none" THEN Faults(Misused(vm, TopOf(vm)))
       ELSE Becomes(Drop(IF Op[1] = "incref" THEN Retain(Done, TopOf(vm)) ELSE Done, 1))

Decref ==
    /\ Enough("decref")
    /\ IF Misused(vm, TopOf(vm)) \in {"freed", "type"} THEN Faults(Misused(vm, TopOf(vm)))
       ELSE Becomes(Drop(Release(Done, TopOf(vm)), 1))

LoadLocal == Is("ldfast") /\ Becomes(Push(Done, vm.fast))
StoreLocal == Enough("stfast") /\ Becomes(Drop([Done EXCEPT !.fast = TopOf(vm)], 1))

Choose == Is("either") /\ \E i \in DOMAIN Op[2] : Becomes(Insert(Done, Op[2][i]))

Switch ==
    /\ Enough("switch")
    /\ Becomes(IF TopOf(vm)[1] \in DOMAIN Op[2] THEN Insert(Done, Op[2][TopOf(vm)[1]]) ELSE Done)

\* n values go into the container on top, which owns them from then on.
Fill ==
    /\ Enough("fill")
    /\ LET n == Op[2]
           filled == SubSeq(vm.stack, Len(vm.stack) - n, Len(vm.stack) - 1)
           wrong == {Misused(vm, s) : s \in ToSet(filled) \cup {TopOf(vm)}} \ {"none"}
       IN  IF wrong # {} THEN Faults(CHOOSE w \in wrong : TRUE)
           ELSE Becomes(Push(Drop(FoldLeft(Release, Done, filled), n + 1), TopOf(vm)))

\* The value on top goes into a field of the object below.
SetField ==
    /\ Enough("setfield")
    /\ Becomes(Drop(Release(Done, TopOf(vm)), 2))

-----------------------------------------------------------------------------
(* Calls of helpers *)

Failing == {"null", "fail", "error"}

\* Without an iterator there is nothing but an error.
OutcomesOf(h, args) ==
    IF h = "PyJit_IterNext" /\ args = <<Nothing>> THEN {Out(<<"xdrop">>, "error")} ELSE Outcomes[h]

\* What is wrong with an argument, given what the helper does with it.
WrongArgument(v, slot, fate) ==
    IF Misused(v, slot) = "null" THEN IF fate \in {"xdrop", "move"} THEN "none" ELSE "null"
    ELSE IF fate = "revive" /\ Holds(slot) /\ v.rc[slot[2]] < 2 THEN "freed"
    ELSE Misused(v, slot)

Settled(v, args, fates) ==
    FoldLeft(LAMBDA w, i : IF fates[i] = "keep" THEN w ELSE Release(w, args[i]), v, [i \in DOMAIN args |-> i])

Returned(v, ret, args) ==
    CASE ret = "new"       -> PushNew(v)
      [] ret = "null"      -> Push(v, Nothing)
      [] ret = "arg1"      -> Push(v, args[1])
      [] ret = "arg2"      -> Push(v, args[2])
      [] ret = "method"    -> Push(PushNew(Push(v, args[1])), <<"ok", 0>>)
      [] ret = "attribute" -> Push(PushNew(Push(v, Nothing)), <<"ok", 0>>)
      [] ret = "void"      -> v
      [] OTHER             -> Push(v, <<ret, 0>>)

\* A method that was not found leaves its two places unset.
Unfound(h, ret, v) == IF h = "PyJit_LoadMethod" /\ ret = "fail" THEN PushAll(v, <<Unset, Unset>>) ELSE v

Call ==
    /\ Enough("call")
    /\ LET h == Op[2]
           args == SubSeq(vm.stack, Len(vm.stack) - Arity(h) + 1, Len(vm.stack))
       IN  \E out \in OutcomesOf(h, args) :
               LET wrong == {WrongArgument(vm, args[i], out.fates[i]) : i \in DOMAIN args} \ {"none"}
                   left == Settled(Drop(Done, Len(args)), args, out.fates)
                   raises == out.ret \in Failing \/ h \in {"PyJit_PyErrRestore", "PyJit_Raise"}
               IN  IF wrong # {} THEN Faults(CHOOSE w \in wrong : TRUE)
                   ELSE Becomes(Returned(Unfound(h, out.ret, [left EXCEPT !.pending = @ \/ raises]), out.ret, args))

-----------------------------------------------------------------------------
(* Errors, blocks and jumps *)

Raised == vm.raised # "no"
Handler == compiled.code[vm.pc].handler
Entry(h) == compiled.handlers[h].entry

Goto(v, i) == [v EXCEPT !.next = i, !.todo = <<>>]

\* branchRaise: what lies above the handler's entry height is stored away,
\* for good.
RaiseFrom(v) ==
    LET above == v.height - Entry(Handler)
        stored == IF above < 0 THEN 0 ELSE IF above > Len(v.stack) THEN Len(v.stack) ELSE above
    IN  Goto([Drop(v, stored) EXCEPT !.raised = IF stored = 0 THEN "clean" ELSE "stored"], Handler)

Compile_Time ==
    \/ Is("dec") /\ Becomes([Done EXCEPT !.height = @ - Op[2]])
    \/ Is("inc") /\ Becomes([Done EXCEPT !.height = @ + Op[2]])

ErrorCheck ==
    /\ Enough("errorCheck")
    /\ Becomes(IF TopOf(vm) = Nothing THEN RaiseFrom(Drop(Done, 1)) ELSE Done)

StatusCheck ==
    /\ \E kind \in {"intErrorCheck", "negCheck"} : Enough(kind)
    /\ Becomes(IF TopOf(vm)[1] = "fail" THEN RaiseFrom(Drop(Done, 1))
               ELSE IF Op[1] = "negCheck" THEN Done ELSE Drop(Done, 1))

RaiseAlways == Is("raise") /\ Becomes(RaiseFrom(Done))
Jump == Is("jump") /\ Becomes(Goto(Done, Op[2]))
Return == Enough("return") /\ Becomes([Goto(Release(Drop(Done, 1), TopOf(vm)), Root) EXCEPT !.stack = <<>>])

\* Without room for one more block the interpreter is ended.
PushBlock ==
    /\ Is("pushblock")
    /\ IF Len(vm.blocks) = MaxBlocks THEN Faults("block")
       ELSE Becomes([Done EXCEPT !.blocks = Append(@, Op[2])])

\* PyJit_BlockPop gives the block, or null when there is none.
PopBlock ==
    /\ Is("popblock")
    /\ Becomes(Push([Done EXCEPT !.blocks = IF @ = <<>> THEN @ ELSE Front(@)], <<"block", 0>>))

\* PyJit_PopExcept does not look before it pops, and leaves everything as it
\* is if that was another block.
PopExceptBlock ==
    /\ Enough("popexcept")
    /\ LET three == SubSeq(vm.stack, Len(vm.stack) - 2, Len(vm.stack))
           popped == Drop([Done EXCEPT !.blocks = Front(@)], 3)
       IN  CASE vm.blocks = <<>> -> Faults("block")
             [] vm.blocks # <<>> /\ Last(vm.blocks) # "EXCEPT_HANDLER" -> Becomes([popped EXCEPT !.pending = TRUE])
             [] OTHER -> Becomes([FoldLeft(Release, popped, vm.excInfo) EXCEPT !.excInfo = three])

\* PyJit_HandleException: the exception handled so far moves to the stack,
\* below the new one, of which the thread gets references of its own.
Fetch ==
    /\ Is("fetch")
    /\ LET tb == Fresh(Done, 2)
           val == Fresh(tb.vm, 2)
           exc == Fresh(val.vm, 2)
           new == <<tb.object, val.object, exc.object>>
       IN  Becomes(PushAll([exc.vm EXCEPT !.excInfo = new, !.pending = FALSE], vm.excInfo \o new))

\* The values below the one yielded are kept in the frame, and the temporaries
\* are not kept.
Yield ==
    /\ Enough("yield")
    /\ Becomes([Release(Done, TopOf(vm)) EXCEPT !.suspended = Front(vm.stack), !.stack = <<>>,
                                                !.temps = <<>>, !.state = "suspended"])

Resume ==
    /\ vm.state = "suspended"
    /\ Becomes([PushNew([vm EXCEPT !.stack = vm.suspended]) EXCEPT !.suspended = <<>>, !.state = "running"])

-----------------------------------------------------------------------------
(* The end of an instruction *)

Places(v) == v.stack \o v.excInfo \o <<v.fast>>
Holders(v, o) == Cardinality({i \in DOMAIN Places(v) : Places(v)[i] = Object(o)})

\* The stack Python has after an instruction that reorders, as a function of
\* the one before; a value that is new in Python is the one the method has.
PyStack(ins, s, new) ==
    LET n == Len(s)
        below(k) == SubSeq(s, 1, n - k)
    IN  CASE ins.op = "ROT_TWO"   -> below(2) \o <<s[n], s[n - 1]>>
          [] ins.op = "ROT_THREE" -> below(3) \o <<s[n], s[n - 2], s[n - 1]>>
          [] ins.op = "ROT_FOUR"  -> below(4) \o <<s[n], s[n - 3], s[n - 2], s[n - 1]>>
          [] ins.op = "DUP_TOP"   -> s \o <<s[n]>>
          [] ins.op = "DUP_TOP_TWO" -> s \o <<s[n - 1], s[n]>>
          [] ins.op \in FillOps \ {"MAP_ADD"} -> below(1)
          [] ins.op = "MAP_ADD"   -> below(2)
          [] OTHER                -> new

\* Python unwinds blocks up to the innermost try; those of handlers it ends.
Innermost == LET tries == {i \in DOMAIN py.blocks : py.blocks[i] # Root} IN IF tries = {} THEN 0 ELSE Max(tries)

\* The block of a try is its handler, that of a handler is Root.
PyBlocks(ins) ==
    CASE Raised -> IF Innermost = 0 THEN <<>> ELSE Append(SubSeq(py.blocks, 1, Innermost - 1), Root)
      [] ins.op = "SETUP_FINALLY" -> Append(py.blocks, ins.to)
      [] ins.op \in {"POP_BLOCK", "POP_EXCEPT"} -> Front(py.blocks)
      [] OTHER -> py.blocks

PyTarget == IF ~Raised THEN vm.next ELSE IF Innermost = 0 THEN Root ELSE py.blocks[Innermost]
HeightAt(i) == CASE i = Root -> 0
                 [] i # Root /\ Raised -> Entry(i)
                 [] OTHER -> compiled.code[i].height

\* A value is not where Python has it; a handler begins with another stack.
ValueMoved ==
    /\ ~Raised /\ vm.next # Root /\ py.before # <<Unset>>
    /\ vm.stack # PyStack(Instruction, py.before, vm.stack)

\* What went wrong with the instruction that ends, the first of these.
FaultAtEnd ==
    IF Raised # vm.pending THEN "error"
    ELSE IF Len(vm.stack) # HeightAt(vm.next) THEN "height"
    ELSE IF \E o \in Ids : vm.rc[o] < Holders(vm, o) THEN "freed"
    ELSE IF vm.next # PyTarget THEN "strayed"
    ELSE IF ValueMoved THEN "moved"
    ELSE "none"

EndOfInstruction ==
    /\ Running /\ vm.todo = <<>>
    /\ LET i == vm.next
           kept == [o \in Ids |-> Holders(vm, o)]
       IN  /\ vm' = IF i = Root
                    THEN [vm EXCEPT !.state = IF Raised THEN "raised" ELSE "returned", !.rc = kept, !.temps = <<>>]
                    ELSE [vm EXCEPT !.pc = i, !.next = i + 1, !.rc = kept, !.temps = <<>>,
                                    !.height = compiled.code[i].height, !.raised = "no",
                                    !.todo = (IF Raised THEN handlerEntry ELSE <<>>) \o Load(i)]
           /\ py' = [blocks |-> PyBlocks(Instruction), before |-> IF Raised THEN <<Unset>> ELSE vm.stack, fault |-> IF FaultAtEnd = "none" THEN NoFault ELSE <<FaultAtEnd, Instruction.op>>,
                     abandoned |-> py.abandoned
                                   + IF Raised THEN Len(py.blocks) - Innermost ELSE 0,
                     leaks |-> py.leaks \cup IF \E o \in Ids : vm.rc[o] > kept[o]
                                             THEN {<<Instruction.op, vm.raised>>} ELSE {}]
           /\ UNCHANGED <<prog, compiled>>

Next ==
    \/ StoreTemp \/ LoadTemp \/ Duplicate \/ PopValue \/ PushNull \/ PushStatus \/ PushItem
    \/ SetError \/ UseObject \/ Decref \/ LoadLocal \/ StoreLocal \/ Choose \/ Switch \/ Fill \/ SetField
    \/ Call \/ Compile_Time \/ ErrorCheck \/ StatusCheck \/ RaiseAlways \/ Jump \/ Return \/ PushBlock
    \/ PopBlock \/ PopExceptBlock \/ Fetch \/ Yield \/ Resume \/ EndOfInstruction

Spec == Init /\ [][Next]_vars

-----------------------------------------------------------------------------
(* Properties *)

\* The stack of the running method has the height compileWorker computed for
\* every instruction, whichever jump or exception led to it; the handler of a
\* try finds the height its try began with.  No step finds fewer values than it
\* takes, or a status where an object belongs.
HeightsAgree ==
    /\ py.fault[1] \notin {"height", "type"}
    /\ Running /\ vm.todo # <<>> => Len(vm.stack) >= Takes(Op)

\* No step uses an object after its last reference was released, or a null.
\* The exceptions: the item store of a list that fails releases its value
\* twice, UNPACK_EX reads the list it failed to make, and the arguments of an
\* inlined call are stored into a tuple without a check that there is one.
OnlyLiveObjectsAreUsed ==
    py.fault[1] \in {"freed", "null"} => py.fault[2] \in {"STORE_SUBSCR", "UNPACK_EX", "CALL_FUNCTION_INLINE"}

\* An instruction raises if and only if an exception is set: no error is
\* skipped, and no handler is entered without one.  The exceptions: the result
\* of a plain FORMAT_VALUE is not checked, and unpacking does not notice that
\* there is no iterator when no value is taken from it one by one.  POP_EXCEPT
\* sets an error that nothing checks when it finds the block of a try, which
\* needs an exception that left a handler before.
ErrorsAreRaised ==
    py.fault[1] = "error" =>
        \/ py.fault[2] \in {"FORMAT_VALUE", "UNPACK_EX", "UNPACK_SEQUENCE"}
        \/ py.fault[2] = "POP_EXCEPT" /\ py.abandoned > 0

\* Opcodes that reach below the top leave every other value where it was.
ValuesKeepTheirPlace == py.fault[1] # "moved"

\* An exception goes to the handler Python would run, for functions in which no
\* protected region closes after another handler in the byte code.
HandlersArePythons == py.fault[1] # "strayed"

\* The frame's blocks at the end are those of handlers an exception left, and
\* the exception being handled is what it was before the call if there are none;
\* the blocks run out or underflow in no other case.
BlocksAreBalanced ==
    /\ py.fault[1] = "block" => py.abandoned > 0
    /\ vm.state \in {"returned", "raised"} /\ py.fault = NoFault =>
            /\ Len(vm.blocks) = py.abandoned
            /\ py.abandoned = 0 => vm.excInfo = <<Nothing, Nothing, Nothing>>

\* An instruction that succeeds leaves exactly one reference for every place
\* that holds the object, but for the module name's level and list, the value
\* of a cell, the result of an exception match and the items UNPACK_EX took.
SuccessLeaksNothing ==
    \A l \in py.leaks : l[2] = "no" =>
        l[1] \in {"IMPORT_NAME", "STORE_DEREF", "JUMP_IF_NOT_EXC_MATCH", "UNPACK_EX"}

\* An instruction that raises with nothing left to store away has released its
\* operands, but for containers that were being filled and tested values.
FailureReleasesOperands ==
    \A l \in py.leaks : l[2] = "clean" =>
        l[1] \in {"BUILD_MAP", "BUILD_SET", "LIST_EXTEND", "DICT_UPDATE", "SET_UPDATE", "DICT_MERGE",
                  "LIST_APPEND", "SET_ADD", "MAP_ADD", "IMPORT_NAME", "IMPORT_STAR", "JUMP_IF_X_OR_POP"}
=============================================================================

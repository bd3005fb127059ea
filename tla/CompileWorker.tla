--------------------------- MODULE CompileWorker ---------------------------
(***************************************************************************)
(* The code generator (absint.cpp, compileWorker): for every opcode the    *)
(* steps it is compiled to, and the pass over the byte code that keeps the *)
(* height of the evaluation stack, the stack of exception blocks and the   *)
(* handler in force at compile time.                                       *)
(*                                                                         *)
(* The steps are those of Emitter, with the moves of the compile-time      *)
(* height (dec, inc) and the error checks in the order they are emitted.   *)
(* All values are objects here; unboxed ones are those of CompiledCode.    *)
(***************************************************************************)
EXTENDS Emitter

dec(n)        == <<"dec", n>>
inc(n)        == <<"inc", n>>
errorCheck    == <<"errorCheck">>      \* a null raises
intErrorCheck == <<"intErrorCheck">>   \* a failed status raises; it is consumed
raiseOnNegativeOne == <<"negCheck">>   \* a failed truth test raises; a good one stays
branchRaise   == <<"raise">>
branch(to)    == <<"jump", to>>

\* Mutant: the result is not checked.
Result_Unchecked(code, n) == code \o <<dec(n), inc(1)>>

\* The three shapes most opcodes have.
Result(code, n) == code \o <<dec(n), errorCheck, inc(1)>>
Status(code, n) == code \o <<dec(n), intErrorCheck>>
Moved(lift, code, n, sink) == lift \o code \o <<dec(n), errorCheck, inc(1)>> \o sink
-----------------------------------------------------------------------------
\* Opcodes that call one helper for a new object, and those that call one for
\* a status.  The operands are the helper's arguments.
Makes ==
    [LOAD_BUILD_CLASS |-> "PyJit_BuildClass", LOAD_DEREF |-> "PyJit_CellGet", LOAD_CLOSURE |-> "PyJit_LoadClosure",
     LOAD_CLASSDEREF |-> "PyJit_LoadClassDeref", IMPORT_NAME |-> "PyJit_ImportName",
     UNARY_POSITIVE |-> "PyJit_UnaryPositive", UNARY_NEGATIVE |-> "PyJit_UnaryNegative",
     UNARY_NOT |-> "PyJit_UnaryNot", UNARY_INVERT |-> "PyJit_UnaryInvert", BINARY_ADD |-> "PyJit_Add",
     BINARY_MODULO |-> "PyJit_Modulo", INPLACE_ADD |-> "PyJit_InplaceAdd", INPLACE_MULTIPLY |-> "PyJit_InplaceMultiply",
     GET_ITER |-> "PyJit_GetIter", LIST_TO_TUPLE |-> "PyJit_ListToTuple"]

Does ==
    [SETUP_ANNOTATIONS |-> "PyJit_SetupAnnotations", STORE_ATTR |-> "PyJit_StoreAttr",
     DELETE_ATTR |-> "PyJit_DeleteAttr", STORE_GLOBAL |-> "PyJit_StoreGlobal",
     DELETE_GLOBAL |-> "PyJit_DeleteGlobal", STORE_NAME |-> "PyJit_StoreName",
     DELETE_NAME |-> "PyJit_DeleteName", DELETE_SUBSCR |-> "PyJit_DeleteSubscr",
     PRINT_EXPR |-> "PyJit_PrintExpr", IMPORT_STAR |-> "PyJit_ImportStar"]

loadFastWorker ==
    emit_load_fast \o <<switch([null |-> <<pop, pyerr_setstring, branchRaise>>]), dup, incref>>

StackCode(op) ==
    CASE op = "ROT_TWO"     -> emit_rot_two
      [] op = "ROT_THREE"   -> emit_rot_three
      [] op = "ROT_FOUR"    -> emit_rot_four
      [] op = "POP_TOP"     -> <<decref, dec(1)>>
      [] op = "DUP_TOP"     -> emit_dup_top \o <<inc(1)>>
      [] op = "DUP_TOP_TWO" -> <<inc(2)>> \o emit_dup_top_two

NameCode(op) ==
    CASE op = "LOAD_CONST"           -> <<item, inc(1)>>
      [] op = "LOAD_ASSERTION_ERROR" -> <<call("PyJit_LoadAssertionError"), inc(1)>>
      [] op = "LOAD_NAME"            -> Result(<<oneOf(<<"PyJit_LoadName", "PyJit_LoadNameHash">>)>>, 0)
      [] op = "LOAD_GLOBAL"          -> Result(emit_load_global, 0)
      [] op = "LOAD_ATTR"            -> Result(emit_load_attr, 1)
      [] op = "LOAD_FAST"            -> loadFastWorker \o <<inc(1)>>
      [] op = "STORE_FAST"           -> emit_store_fast \o <<dec(1)>>
      [] op = "DELETE_FAST"          -> loadFastWorker \o <<decref>> \o emit_delete_fast
      [] op = "STORE_DEREF"          -> <<call("PyJit_CellSet"), dec(1)>>
      [] op = "IMPORT_FROM"          -> Result(<<dup, call("PyJit_ImportFrom")>>, 0)

OperatorCode(op) ==
    CASE op = "COMPARE_OP"    -> Result(emit_compare_known_object, 2)
      [] op = "IS_OP"         -> Result(<<either(<<emit_is, <<call("PyJit_Is")>>, <<call("PyJit_IsNot")>> >>)>>, 2)
      [] op = "CONTAINS_OP"   -> Result(<<oneOf(<<"PyJit_Contains", "PyJit_NotContains">>)>>, 2)
      [] op = "BINARY_SUBSCR" -> Result(emit_binary_subscr, 2)
      [] op = "STORE_SUBSCR"  -> Status(emit_store_subscr, 3)

-----------------------------------------------------------------------------
(* Jumps and loops *)

\* Whether the value is true is known at once for True and False, and asked of
\* the object else; either way the jump may be taken or not.
testAndBranch(test, jump, noJump) ==
    <<either(<<jump, noJump, test \o <<raiseOnNegativeOne, pop, either(<<jump, noJump>>)>> >>)>>

JumpCode(op, to) ==
    CASE op \in {"JUMP_FORWARD", "JUMP_ABSOLUTE"} -> <<branch(to)>>
      [] op = "JUMP_IF_X_OR_POP" ->
            <<dec(1), st("tmp")>>
            \o testAndBranch(<<ld("tmp"), call("PyObject_IsTrue")>>,
                             <<ld("tmp"), branch(to)>>, <<ld("tmp"), decref>>)
      [] op = "POP_JUMP_IF" ->
            testAndBranch(<<dup, call("PyObject_IsTrue")>>, <<decref, branch(to)>>, <<decref>>) \o <<dec(1)>>
      [] op = "JUMP_IF_NOT_EXC_MATCH" ->
            <<call("PyJit_CompareExceptions"), dec(2), errorCheck, pop, either(<< <<branch(to)>>, <<>> >>)>>
      [] op = "FOR_ITER" ->
            <<dup, call("PyJit_IterNext"),
              switch([error |-> <<pop, branchRaise>>, stop |-> <<pop, decref, branch(to)>>]), inc(1)>>

-----------------------------------------------------------------------------
(* Calls and containers *)

buildTuple(n) ==
    emit_new_tuple(n) \o (IF n = 0 THEN <<>> ELSE <<errorCheck>> \o emit_tuple_store(n) \o <<dec(n)>>)

CallCode(op, n) ==
    CASE op = "CALL_FUNCTION" ->
            IF n <= MaxArguments THEN Result(emit_call_function(n), n + 1)
            ELSE buildTuple(n) \o Result(<<inc(1), call("PyJit_CallN")>>, 2)
      [] op = "CALL_FUNCTION_INLINE" -> Result(emit_call_function_inline(n), n + 1)
      [] op = "CALL_FUNCTION_KW" ->
            <<st("names"), dec(1)>> \o buildTuple(n) \o Result(<<ld("names"), call("PyJit_KwCallN")>>, 1)
      [] op = "CALL_FUNCTION_EX" ->
            Result(<<call(IF n = 1 THEN "PyJit_CallKwArgs" ELSE "PyJit_CallArgs")>>, n + 2)
      [] op = "LOAD_METHOD" -> <<either(<<emit_load_method, emit_builtin_method>>), inc(1), intErrorCheck>>
      [] op = "CALL_METHOD" ->
            IF n <= MaxArguments THEN Result(emit_method_call(n), n + 2)
            ELSE buildTuple(n) \o Result(<<call("MethCallN")>>, 2)

\* One more value into the set; if that fails the values not yet added are
\* released and the set is not.
setAdd(i, n) ==
    <<ld("set"), ld(Temps(n)[i]), call("PyJit_SetAdd"),
      switch([null |-> <<pop>> \o FlattenSeq([j \in 1..(n - i) |-> <<ld(Temps(n)[i + j]), decref>>]) \o <<branchRaise>>,
              obj  |-> <<pop>>])>>

BuildCode(op, n) ==
    CASE op = "BUILD_TUPLE" -> buildTuple(n) \o <<inc(1)>>
      [] op = "BUILD_LIST"  -> <<call("PyJit_NewList"), errorCheck>> \o emit_list_store(n) \o <<dec(n), inc(1)>>
      [] op = "BUILD_MAP"   ->
            <<call("PyDict_New"), errorCheck, st("map")>>
            \o Repeat(n, <<ld("map"), call("PyJit_StoreMap"), dec(2), intErrorCheck>>) \o <<ld("map"), inc(1)>>
      [] op = "BUILD_SET"   ->
            <<call("PySet_New"), errorCheck, st("set")>>
            \o FlattenSeq([i \in 1..n |-> <<st(Temps(n)[n + 1 - i]), dec(1)>>])
            \o FlattenSeq([i \in 1..n |-> setAdd(i, n)]) \o <<ld("set"), inc(1)>>
      [] op = "BUILD_SLICE" -> Result((IF n = 3 THEN <<>> ELSE <<null>>) \o <<call("PyJit_BuildSlice")>>, n)
      [] op = "BUILD_STRING" -> buildTuple(n) \o Result(<<inc(2), call("PyJit_UnicodeJoinArray")>>, 2)
      [] op = "BUILD_CONST_KEY_MAP" ->
            buildTuple(n + 1) \o Result(<<inc(1), call("PyJit_BuildDictFromTuples")>>, 1)
      [] op = "UNPACK_SEQUENCE" ->
            <<either(<<emit_unpack_tuple(n), emit_unpack_generic(n)>>), dec(1), inc(n), intErrorCheck>>
      [] op = "UNPACK_EX" ->   \* n values before the starred one and one after
            emit_unpack_sequence_ex(n, 1) \o <<dec(1), inc(n + 2), intErrorCheck>>

\* Opcodes that work on a container n values down the stack.
FillCode(op, n) ==
    CASE op = "LIST_APPEND" -> Moved(lift_n_to_second(n), <<call("PyJit_ListAppend")>>, 2, sink_top_to_n(n - 1))
      [] op = "SET_ADD"     -> Moved(lift_n_to_second(n), <<call("PyJit_SetAdd")>>, 2, sink_top_to_n(n - 1))
      [] op = "DICT_MERGE"  -> Moved(lift_n_to_second(n), <<call("PyJit_DictMerge")>>, 2, sink_top_to_n(n - 1))
      [] op = "MAP_ADD"     -> Moved(lift_n_to_third(n + 1), <<call("PyJit_MapAdd")>>, 3, sink_top_to_n(n - 1))
      [] op = "LIST_EXTEND" -> Moved(lift_n_to_top(n), <<call("PyJit_ExtendList")>>, 2, <<>>)
      [] op = "DICT_UPDATE" -> Moved(lift_n_to_top(n), <<call("PyJit_DictUpdate")>>, 2, <<>>)
      [] op = "SET_UPDATE"  -> Moved(lift_n_to_top(n), <<call("PyJit_UpdateSet")>>, 2, <<>>)

-----------------------------------------------------------------------------
(* Functions and strings *)

\* n of closure, annotations, keyword defaults and defaults are given.
makeFunction(n) ==
    <<call("PyJit_NewFunction"), dec(2), errorCheck, st("func")>>
    \o Repeat(n, <<st("tmp"), ld("func"), ld("tmp")>> \o emit_set_field \o <<dec(1)>>) \o <<ld("func"), inc(1)>>

convert == oneOf(<<"PyObject_Str", "PyObject_Repr", "PyObject_ASCII">>)

\* Mutant: the format specification is kept when the conversion failed.
formatValue_KeepsSpec(converted, spec) ==
    (IF spec THEN <<st("spec"), dec(1)>> ELSE <<>>) \o <<dec(1)>>
    \o (IF converted THEN <<dup, st("tmp"), convert, ld("tmp"), decref, errorCheck>> ELSE <<>>)
    \o (CASE spec -> <<ld("spec"), call("PyJit_FormatObject"), errorCheck>>
          [] ~spec /\ ~converted -> <<call("PyJit_FormatValue")>>
          [] OTHER -> <<>>)
    \o <<inc(1)>>

\* With a conversion, a format specification, both or neither.  Only the last
\* is not checked for errors.
formatValue(converted, spec) ==
    LET release == IF spec THEN <<ld("spec"), decref>> ELSE <<>>
    IN  (IF spec THEN <<st("spec"), dec(1)>> ELSE <<>>) \o <<dec(1)>>
        \o (IF converted
            THEN <<dup, st("tmp"), convert, ld("tmp"), decref,
                   switch([null |-> <<pop>> \o release \o <<branchRaise>>])>>
            ELSE <<>>)
        \o (CASE spec -> <<ld("spec"), call("PyJit_FormatObject"), errorCheck>>
              [] ~spec /\ ~converted -> <<call("PyJit_FormatValue")>>
              [] OTHER -> <<>>)
        \o <<inc(1)>>

-----------------------------------------------------------------------------
(* Exceptions *)

\* Mutant: the block of the try stays below that of the handler.
handlerEntry_Nested == <<emit_push_block("EXCEPT_HANDLER")>> \o emit_fetch_err

\* Where a handler begins: the block of its try is replaced by one of its own
\* and the exception is pushed.
handlerEntry == <<emit_pop_block, pop, emit_push_block("EXCEPT_HANDLER")>> \o emit_fetch_err

BlockCode(op, n) ==
    CASE op = "RAISE_VARARGS" -> Repeat(2 - n, <<null>>) \o <<dec(n), call("PyJit_Raise"), pop, branchRaise>>
      [] op = "RERAISE"       -> emit_restore_err \o <<dec(3), branchRaise>>
      [] op = "SETUP_FINALLY" -> <<emit_push_block("SETUP_FINALLY")>>
      [] op = "POP_EXCEPT"    -> <<emit_pop_except, dec(3)>>
      [] op = "POP_BLOCK"     -> <<emit_pop_block, pop>>

FlowOps == {"JUMP_FORWARD", "JUMP_ABSOLUTE", "JUMP_IF_X_OR_POP", "POP_JUMP_IF", "JUMP_IF_NOT_EXC_MATCH", "FOR_ITER"}
StackOps == {"ROT_TWO", "ROT_THREE", "ROT_FOUR", "POP_TOP", "DUP_TOP", "DUP_TOP_TWO"}
NameOps == {"LOAD_CONST", "LOAD_ASSERTION_ERROR", "LOAD_NAME", "LOAD_GLOBAL", "LOAD_ATTR", "LOAD_FAST", "STORE_FAST",
            "DELETE_FAST", "STORE_DEREF", "IMPORT_FROM"}
OperatorOps == {"COMPARE_OP", "IS_OP", "CONTAINS_OP", "BINARY_SUBSCR", "STORE_SUBSCR"}
CallOps == {"CALL_FUNCTION", "CALL_FUNCTION_INLINE", "CALL_FUNCTION_KW", "CALL_FUNCTION_EX", "LOAD_METHOD",
            "CALL_METHOD"}
BuildOps == {"BUILD_TUPLE", "BUILD_LIST", "BUILD_MAP", "BUILD_SET", "BUILD_SLICE", "BUILD_STRING",
             "BUILD_CONST_KEY_MAP", "UNPACK_SEQUENCE", "UNPACK_EX"}
FillOps == {"LIST_APPEND", "SET_ADD", "DICT_MERGE", "MAP_ADD", "LIST_EXTEND", "DICT_UPDATE", "SET_UPDATE"}
BlockOps == {"RAISE_VARARGS", "RERAISE", "SETUP_FINALLY", "POP_EXCEPT", "POP_BLOCK"}

\* The switch over the opcodes.
Steps(ins) ==
    CASE ins.op \in DOMAIN Makes -> Result(<<call(Makes[ins.op])>>, Arity(Makes[ins.op]))
      [] ins.op \in DOMAIN Does  -> Status(<<call(Does[ins.op])>>, Arity(Does[ins.op]))
      [] ins.op \in StackOps     -> StackCode(ins.op)
      [] ins.op \in NameOps      -> NameCode(ins.op)
      [] ins.op \in OperatorOps  -> OperatorCode(ins.op)
      [] ins.op \in FlowOps      -> JumpCode(ins.op, ins.to)
      [] ins.op \in CallOps      -> CallCode(ins.op, ins.arg)
      [] ins.op \in BuildOps     -> BuildCode(ins.op, ins.arg)
      [] ins.op \in FillOps      -> FillCode(ins.op, ins.arg)
      [] ins.op \in BlockOps     -> BlockCode(ins.op, ins.arg)
      [] ins.op = "MAKE_FUNCTION" -> makeFunction(ins.arg)
      [] ins.op = "FORMAT_VALUE" -> formatValue(ins.arg \in {1, 3}, ins.arg \in {2, 3})
      [] ins.op = "RETURN_VALUE" -> <<emit_return_value, dec(1)>>
      [] ins.op = "YIELD_VALUE"  -> <<emit_yield_value>>
      [] OTHER -> <<>>   \* NOP, GEN_START, DELETE_DEREF

-----------------------------------------------------------------------------
(* The pass over the byte code *)

Root == 0   \* the handler of the frame: it leaves

\* What an instruction does to the height of the compile-time stack.
Moves(height, step) ==
    CASE step[1] = "inc" -> height + step[2]
      [] step[1] = "dec" -> height - step[2]
      [] OTHER           -> height
heightAfter(ins, height) == FoldLeft(Moves, height, Steps(ins))

\* Mutant: the target of a conditional jump starts with the condition.
heightAtTarget_Unpopped(ins, height) ==
    CASE ins.op = "SETUP_FINALLY" -> height + 6
      [] ins.op = "JUMP_IF_NOT_EXC_MATCH" -> height - 2
      [] OTHER -> height

\* The height at which the target of a jump starts.
heightAtTarget(ins, height) ==
    CASE ins.op \in {"JUMP_FORWARD", "JUMP_ABSOLUTE", "JUMP_IF_X_OR_POP"} -> height
      [] ins.op \in {"POP_JUMP_IF", "FOR_ITER"}                           -> height - 1
      [] ins.op = "JUMP_IF_NOT_EXC_MATCH"                                 -> height - 2
      [] ins.op = "SETUP_FINALLY"                                         -> height + 6

\* A jump to instruction i that was seen decides the height there; a handler
\* that begins at i gets a block under the handler outside of its try.
enter(w, i) ==
    [w EXCEPT !.height = IF i \in DOMAIN w.offsetStack THEN w.offsetStack[i] ELSE @,
              !.blockStack = IF i \in DOMAIN w.handlers THEN Append(@, w.handlers[i].back) ELSE @]

\* Mutant: a try block stays open until its handler.
blocksAfter_Open(ins, blockStack) ==
    IF ins.op = "SETUP_FINALLY" THEN Append(blockStack, ins.to) ELSE blockStack

\* The handlers of the blocks that are open after an instruction.  They follow
\* the byte code from front to back, whatever jumps there are.
blocksAfter(ins, blockStack) ==
    CASE ins.op = "SETUP_FINALLY" -> Append(blockStack, ins.to)
      [] ins.op = "POP_BLOCK"     -> Front(blockStack)
      [] OTHER                    -> blockStack

\* CUR_HANDLER of a block stack that is not empty.
CurrentHandler(blockStack) == Last(blockStack)

\* One turn of compileWorker's loop.  With unboxing every turn asks for the
\* handler in force, and BlockStack::back throws when no block is left: that
\* ends the compilation.
visit(w, i) ==
    LET ins == w.program[i]
        here == enter(w, i)
        handler == CurrentHandler(here.blockStack)
    IN  IF w.result # "Success" \/ here.blockStack = <<>>
        THEN [w EXCEPT !.result = "CompilationException"]
        ELSE [here EXCEPT
               !.code = Append(@, [height |-> here.height, handler |-> handler]),
               !.height = heightAfter(ins, here.height),
               !.offsetStack = IF ins.op \in FlowOps \cup {"SETUP_FINALLY"}
                               THEN (ins.to :> heightAtTarget(ins, here.height)) @@ @ ELSE @,
               !.handlers = IF ins.op = "SETUP_FINALLY"
                            THEN (ins.to :> [entry |-> here.height, back |-> handler]) @@ @ ELSE @,
               !.blockStack = blocksAfter(ins, @)]

\* The compiled program: height and handler of every instruction, and the
\* handlers with the height of the stack outside of their try.
compileWorker(program) ==
    LET w == FoldLeft(visit,
                      [program |-> program, code |-> <<>>, height |-> 0, blockStack |-> <<Root>>,
                       offsetStack |-> <<>>, handlers |-> Root :> [entry |-> 0, back |-> Root],
                       result |-> "Success"],
                      [i \in DOMAIN program |-> i])
    IN  [result |-> w.result, code |-> w.code, handlers |-> w.handlers]
=============================================================================

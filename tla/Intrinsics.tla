----------------------------- MODULE Intrinsics -----------------------------
(***************************************************************************)
(* The run-time helpers of intrins.cpp, as far as references are           *)
(* concerned: what a helper does with the reference behind each of its     *)
(* owned arguments, and what it returns, on every way out.  Arguments that *)
(* are never owned (the frame, a name, a hash, the trace info) are left    *)
(* out.  Every type and every size is possible, so each way out is a       *)
(* member of a set of outcomes.                                            *)
(*                                                                         *)
(* A fate is "drop" (Py_DECREF), "xdrop" (Py_XDECREF, the argument may be  *)
(* null), "keep" (not touched), "move" (handed to the interpreter) or      *)
(* "revive" (dropped, and then retained and dropped once more).  A result  *)
(* is "new" (a reference the caller owns), "null", "arg<i>" (argument i    *)
(* with the reference it came with), "ok" and "fail" (a status), "stop"    *)
(* and "error" (the signals of an iterator), "yes", "no" and "fail" for a  *)
(* truth value, or "void".                                                 *)
(*                                                                         *)
(* Containers of the type the bytecode promises (a list for LIST_APPEND,   *)
(* a dict for MAP_ADD) and insertions of constant keys do not fail.        *)
(***************************************************************************)
EXTENDS Naturals, Sequences, TLC

Out(fates, ret) == [fates |-> fates, ret |-> ret]
All(n, fate) == [i \in 1..n |-> fate]

\* The common contract: every argument is released, whatever happens.
Consumes(n)    == {Out(All(n, "drop"), "new"), Out(All(n, "drop"), "null")}
ConsumesInt(n) == {Out(All(n, "drop"), "ok"), Out(All(n, "drop"), "fail")}

\* The container stays, the element goes; on failure the container is neither
\* returned nor released.
Fills(fates, ret) == {Out(fates, ret), Out(fates, "null")}
-----------------------------------------------------------------------------
Subscripts ==
    [h \in {"PyJit_Subscr", "PyJit_SubscrIndex", "PyJit_SubscrIndexHash", "PyJit_SubscrDict",
            "PyJit_SubscrDictHash", "PyJit_SubscrList", "PyJit_SubscrListIndex"} |-> Consumes(2)]

TuplesAndTests ==
    [h \in {"PyJit_SubscrTuple", "PyJit_SubscrTupleIndex", "PyJit_RichCompare", "PyJit_Contains",
            "PyJit_NotContains", "PyJit_NewFunction"} |-> Consumes(2)]
    @@ "PyJit_LoadClosure" :> Consumes(0)
    @@ "PyJit_BuildSlice" :> {Out(<<"drop", "drop", "xdrop">>, r) : r \in {"new", "null"}}

UnariesAndFillers ==
    [h \in {"PyJit_UnaryPositive", "PyJit_UnaryNegative", "PyJit_UnaryNot", "PyJit_UnaryInvert"} |-> Consumes(1)]
    @@ "PyJit_NewList" :> Consumes(0)
    @@ "PyJit_ListAppend" :> Fills(<<"keep", "drop">>, "arg1")
    @@ "PyJit_SetAdd"     :> Fills(<<"keep", "drop">>, "arg1")
    @@ "PyJit_UpdateSet"  :> Fills(<<"drop", "keep">>, "arg2")
    @@ "PyJit_MapAdd"     :> Fills(<<"keep", "drop", "drop">>, "arg1")

Binaries == [h \in {"PyJit_Add", "PyJit_Modulo"} |-> Consumes(2)]
Inplaces == [h \in {"PyJit_InplaceAdd", "PyJit_InplaceMultiply"} |-> Consumes(2)]

Exceptions ==
    "PyJit_PrintExpr" :> ConsumesInt(1)
    @@ "PyJit_CompareExceptions" :> Consumes(2)
    @@ "PyJit_PyErrRestore" :> {Out(<<"move", "move", "move">>, "void")}

\* ImportName releases neither the level nor the list of names.
Imports ==
    "PyJit_ImportName" :> {Out(<<"keep", "keep">>, r) : r \in {"new", "null"}}
    @@ "PyJit_ImportFrom" :> {Out(<<"keep">>, r) : r \in {"new", "null"}}

\* ImportStar releases the module only once the locals were found.
ImportStar ==
    "PyJit_ImportStar" :> (ConsumesInt(1) \cup {Out(<<"keep">>, "fail")})

Splats == "PyJit_CallKwArgs" :> Consumes(3) @@ "PyJit_CallArgs" :> Consumes(2)

\* A bare raise has a null exception; "yes" is a reraise of the current one.
Raise == "PyJit_Raise" :> ({Out(<<"xdrop", "xdrop">>, "no")} \cup {Out(<<"xdrop", "xdrop">>, "yes")})

PopExcept == "PyJit_PopExcept" :> {Out(<<"move", "move", "move">>, "void")}

\* ExtendList releases an iterable that failed, unless it was none.
Builders ==
    "PyJit_LoadClassDeref" :> Consumes(0)
    @@ "PyJit_ExtendList" :> (Fills(<<"drop", "keep">>, "arg2") \cup {Out(<<"keep", "keep">>, "null")})
    @@ "PyJit_ListToTuple" :> Consumes(1)
    @@ "PyJit_StoreMap" :> {Out(<<"drop", "drop", "keep">>, r) : r \in {"ok", "fail"}}
    @@ "PyJit_BuildDictFromTuples" :> Consumes(1)
    @@ "PyJit_LoadAssertionError" :> {Out(<<>>, "new")}

Dicts ==
    "PyJit_DictUpdate" :> Fills(<<"drop", "keep">>, "arg2")
    @@ "PyJit_DictMerge" :> Fills(<<"keep", "drop">>, "arg1")

\* PyList_SetItem takes the value over and drops it when it fails; the
\* helpers for lists retain it afterwards.
Stores ==
    [h \in {"PyJit_StoreSubscr", "PyJit_StoreSubscrIndex", "PyJit_StoreSubscrIndexHash",
            "PyJit_StoreSubscrDict", "PyJit_StoreSubscrDictHash"} |-> ConsumesInt(3)]
    @@ [h \in {"PyJit_StoreSubscrList", "PyJit_StoreSubscrListIndex"} |->
            ConsumesInt(3) \cup {Out(<<"revive", "drop", "drop">>, "fail")}]
    @@ "PyJit_DeleteSubscr" :> ConsumesInt(2)

CallTuple == "PyJit_CallN" :> Consumes(2)

Globals ==
    "PyJit_StoreGlobal" :> ConsumesInt(1)
    @@ "PyJit_DeleteGlobal" :> ConsumesInt(0)
    @@ "PyJit_LoadGlobal" :> Consumes(0)

\* CellSet does not release the value: PyCell_Set retains it for the cell.
IteratorsAndCells ==
    "PyJit_GetIter" :> Consumes(1)
    @@ "PyJit_IterNext" :> {Out(<<"keep">>, r) : r \in {"new", "stop", "error"}}
    @@ "PyJit_CellGet" :> Consumes(0)
    @@ "PyJit_CellSet" :> {Out(<<"keep">>, "void")}

Attributes ==
    "PyJit_BuildClass" :> Consumes(0)
    @@ "PyJit_LoadAttr" :> Consumes(1)
    @@ "PyJit_StoreAttr" :> ConsumesInt(2)
    @@ "PyJit_DeleteAttr" :> ConsumesInt(1)
    @@ "PyJit_SetupAnnotations" :> ConsumesInt(0)

Names ==
    "PyJit_LoadName" :> Consumes(0)
    @@ "PyJit_LoadNameHash" :> Consumes(0)
    @@ "PyJit_StoreName" :> ConsumesInt(1)
    @@ "PyJit_DeleteName" :> ConsumesInt(0)

\* Call0 to Call10: the callable and its arguments.
Calls == [h \in {"Call0"} |-> Consumes(1)] @@ "Call1" :> Consumes(2) @@ "Call2" :> Consumes(3)

\* MethCall0 to MethCall10: self (null for a plain attribute), the method and
\* its arguments.
MethodCalls ==
    "MethCall0" :> {Out(<<"xdrop", "drop">>, r) : r \in {"new", "null"}}
    @@ "MethCall1" :> {Out(<<"xdrop", "drop", "drop">>, r) : r \in {"new", "null"}}

TupleCalls ==
    "MethCallN" :> {Out(<<"xdrop", "drop", "drop">>, r) : r \in {"new", "null"}}
    @@ "PyJit_KwCallN" :> Consumes(3)

\* LoadMethod stores the method, and as self the object or null.
Formats ==
    "PyJit_PyTuple_New" :> Consumes(0)
    @@ [h \in {"PyJit_Is", "PyJit_IsNot"} |-> {Out(<<"drop", "drop">>, "new")}]
    @@ "PyJit_UnicodeJoinArray" :> Consumes(1)
    @@ "PyJit_FormatObject" :> Consumes(2)
    @@ "PyJit_FormatValue" :> (Consumes(1) \cup {Out(<<"keep">>, "arg1")})
    @@ "PyJit_LoadMethod" :> {Out(<<"keep">>, "method"), Out(<<"drop">>, "attribute"), Out(<<"keep">>, "fail")}

\* Functions of the C API the emitters call directly.
Api ==
    "PyDict_New" :> Consumes(0) @@ "PySet_New" :> Consumes(0)
    @@ "PyObject_IsTrue" :> {Out(<<"keep">>, r) : r \in {"yes", "no", "fail"}}
    @@ [h \in {"PyObject_Str", "PyObject_Repr", "PyObject_ASCII", "PyObject_GenericGetAttr"} |->
            {Out(<<"keep">>, r) : r \in {"new", "null"}}]
    @@ "PySequence_List" :> {Out(<<"keep">>, r) : r \in {"new", "null"}}

Outcomes ==
    Subscripts @@ TuplesAndTests @@ UnariesAndFillers @@ Binaries @@ Inplaces @@ Exceptions
    @@ Imports @@ ImportStar @@ Splats @@ Raise @@ PopExcept @@ Builders @@ Dicts @@ Stores @@ CallTuple @@ Globals
    @@ IteratorsAndCells @@ Attributes @@ Names @@ Calls @@ MethodCalls @@ TupleCalls @@ Formats @@ Api

\* How many owned arguments a helper takes.
Arity(h) == Len((CHOOSE o \in Outcomes[h] : TRUE).fates)
=============================================================================

------------------------------ MODULE Emitter ------------------------------
(***************************************************************************)
(* What the emitters of pycomp.cpp generate, as sequences of steps on the  *)
(* evaluation stack of the compiled method, its temporaries and the local  *)
(* x of the frame.  Arguments that own nothing (frame, names, counts,      *)
(* hashes) are left out, as in Intrinsics.  A branch on data the model     *)
(* does not have is a choice between sequences ("either"), a branch on the *)
(* value at the top of the stack a "switch" on what that value is.         *)
(***************************************************************************)
EXTENDS Intrinsics, SequencesExt

call(h)   == <<"call", h>>
st(t)     == <<"st", t>>
ld(t)     == <<"ld", t>>
dup       == <<"dup">>
pop       == <<"pop">>
incref    == <<"incref">>
item      == <<"item">>         \* an object the code owns a reference of
deref     == <<"deref">>        \* reads a field of the object and drops the pointer
pyerr_setstring == <<"error">>
null      == <<"null">>
status(k) == <<"push", k>>
fill(n)   == <<"fill", n>>      \* store n values into the container above them
either(alternatives) == <<"either", alternatives>>
switch(cases) == <<"switch", cases>>

Repeat(n, s) == FlattenSeq([i \in 1..n |-> s])
Temps(n) == [i \in 1..n |-> <<"t1", "t2", "t3", "t4", "t5">>[i]]
Spill(temps) == [i \in DOMAIN temps |-> st(temps[i])]
Recover(temps) == [i \in DOMAIN temps |-> ld(temps[i])]
-----------------------------------------------------------------------------
\* The frame's locals.  A load does not retain; a store puts the new value in
\* place before it releases the old one.
decref == <<"decref">>
load_local == <<"ldfast">>
emit_load_fast == <<load_local>>
\* Mutant: the value that was replaced is not released.
emit_store_fast_Kept == <<st("value"), load_local, ld("value"), <<"stfast">>, pop>>

emit_store_fast == <<st("value"), load_local, ld("value"), <<"stfast">>, decref>>
emit_delete_fast == <<load_local, null, <<"stfast">>, decref>>

\* Unpacking.  The items are pushed from the last to the first and followed
\* by a status; whatever fails pushes nulls.  The generic way iterates.
unpackKnown(n) ==
    <<st("sequence"),
      either(<<FlattenSeq([i \in 1..n |-> <<item>>]) \o <<status("ok")>>,
               Repeat(n, <<null>>) \o <<pyerr_setstring, status("fail")>> >>),
      ld("sequence"), decref>>
emit_unpack_tuple(n) == unpackKnown(n)
emit_unpack_list(n) == unpackKnown(n)

\* One step of the iterator.  Once it failed or stopped the result is failed.
advance(t) ==
    <<ld("iter"), call("PyJit_IterNext"),
      switch([error |-> <<status("fail"), st("result"), st(t)>>,
              stop  |-> <<pop, null, pyerr_setstring, status("fail"), st("result"), st(t)>>,
              obj   |-> <<st(t)>>])>>
advanceAll(temps) == FlattenSeq([i \in DOMAIN temps |-> advance(temps[Len(temps) + 1 - i])])
openIterator == <<status("ok"), st("result"), dup, call("PyJit_GetIter"), st("iter"), st("object")>>
closeIterator == <<ld("iter"), decref, ld("result")>>

emit_unpack_generic(n) ==
    openIterator \o advanceAll(Temps(n)) \o Recover(Temps(n)) \o closeIterator

\* UNPACK_EX: the left values, a list of the rest, and the right values taken
\* off the back of that list, which is then made shorter without a release.
\* Without an iterator the values are returned with the status as it is.
emit_unpack_sequence_ex(left, right) ==
    LET L == Temps(left)
        R == [i \in 1..right |-> <<"r1", "r2">>[i]]
        takeRight == FlattenSeq([i \in 1..right |-> <<item, dup, incref, st(R[right + 1 - i])>>])
        rest == <<pop, ld("iter"), call("PySequence_List"), st("rest"), ld("rest"), deref,
                  either(<<takeRight, <<pyerr_setstring, status("fail"), st("result")>> >>)>>
    IN  openIterator \o advanceAll(L)
        \o <<ld("result"),
             switch([fail |-> <<pop>>,
                     ok   |-> <<pop, ld("iter"), switch([null |-> <<pop>>, obj |-> rest])>>])>>
        \o Recover(R) \o <<ld("rest")>> \o Recover(L) \o closeIterator

\* Rotations and the moves that bring a container deep in the stack to where
\* a helper expects it.
emit_rot_two == <<st("top"), st("second"), ld("top"), ld("second")>>
emit_rot_three == <<st("top"), st("second"), st("third"), ld("top"), ld("third"), ld("second")>>
emit_rot_four ==
    <<st("top"), st("second"), st("third"), st("fourth"), ld("top"), ld("fourth"), ld("third"), ld("second")>>

\* The values between are put back in the order they came off: the model
\* keeps that order.
lift_n_to_second(pos) ==
    IF pos = 1 THEN <<>>
    ELSE <<st("top")>> \o Spill(Temps(pos - 1)) \o <<st("n")>> \o Recover(Temps(pos - 1)) \o <<ld("n"), ld("top")>>
lift_n_to_third(pos) ==
    IF pos = 1 THEN <<>>
    ELSE <<st("top"), st("second")>> \o Spill(Temps(pos - 2)) \o <<st("n")>>
         \o Recover(Temps(pos - 2)) \o <<ld("n"), ld("second"), ld("top")>>
\* Mutant: the container goes one place too high.
sink_top_to_n_High(pos) ==
    IF pos < 2 THEN <<>>
    ELSE <<st("top")>> \o Spill(Temps(pos - 1)) \o <<ld("top")>> \o Recover(Temps(pos - 1))

sink_top_to_n(pos) ==
    IF pos = 0 THEN <<>>
    ELSE <<st("top")>> \o Spill(Temps(pos)) \o <<ld("top")>> \o Recover(Temps(pos))
lift_n_to_top(pos) == Spill(Temps(pos)) \o <<st("n")>> \o Recover(Temps(pos)) \o <<ld("n")>>

\* Mutant: the copy is not retained.
emit_dup_top_Borrowed == <<dup>>

emit_dup_top == <<dup, dup, incref>>
emit_dup_top_two ==
    <<st("top"), st("second"), ld("second"), ld("top"), ld("second"), ld("top"),
      ld("top"), incref, ld("second"), incref>>
emit_list_store(n) == <<fill(n)>>

\* LOAD_ATTR: the general helper releases the owner, the slot of a known type
\* does not, so the emitter does.
emit_load_attr ==
    <<either(<< <<call("PyJit_LoadAttr")>>,
                <<st("obj"), ld("obj"), call("PyObject_GenericGetAttr"), ld("obj"), decref>> >>)>>

\* LOAD_GLOBAL: the value cached while compiling, or a lookup.
emit_load_global == <<either(<< <<item>>, <<call("PyJit_LoadGlobal")>> >>)>>

\* An empty tuple is the shared one.
emit_new_tuple(n) == IF n = 0 THEN <<item>> ELSE <<call("PyJit_PyTuple_New")>>
emit_tuple_store(n) == <<fill(n)>>

storeHelpers == <<"PyJit_StoreSubscr", "PyJit_StoreSubscrDict", "PyJit_StoreSubscrDictHash",
                  "PyJit_StoreSubscrIndex", "PyJit_StoreSubscrIndexHash", "PyJit_StoreSubscrList",
                  "PyJit_StoreSubscrListIndex">>
oneOf(helpers) == either([i \in DOMAIN helpers |-> <<call(helpers[i])>>])
emit_store_subscr == <<oneOf(storeHelpers)>>
emit_binary_subscr ==
    <<oneOf(<<"PyJit_Subscr", "PyJit_SubscrIndex", "PyJit_SubscrIndexHash", "PyJit_SubscrDict",
              "PyJit_SubscrDictHash", "PyJit_SubscrList", "PyJit_SubscrListIndex", "PyJit_SubscrTuple",
              "PyJit_SubscrTupleIndex">>)>>

\* One helper per number of arguments, up to MaxArguments (ten); more go
\* through a tuple.
MaxArguments == 1
emit_call_function(n) == <<call(<<"Call0", "Call1", "Call2">>[n + 1])>>
emit_method_call(n) == <<call(<<"MethCall0", "MethCall1">>[n + 1])>>

\* An exception caught: its type, value and traceback on top of those that
\* were being handled.
emit_fetch_err == <<<<"fetch">>>>
emit_restore_err == <<call("PyJit_PyErrRestore")>>

\* emit_set_closure, _annotations, _kw_defaults, _defaults: the reference to
\* the value moves into the function object.
emit_set_field == <<<<"setfield">>>>

\* The exception blocks of the frame.
emit_push_block(kind) == <<"pushblock", kind>>
emit_pop_block == <<"popblock">>
emit_pop_except == <<"popexcept">>
emit_return_value == <<"return">>
emit_yield_value == <<"yield">>

emit_is ==
    <<st("left"), st("right"), item, ld("left"), decref, ld("right"), decref>>
emit_compare_known_object == <<either(<<emit_is, <<call("PyJit_RichCompare")>> >>)>>

\* LOAD_METHOD pushes self, the method and a status.
emit_load_method == <<call("PyJit_LoadMethod")>>
emit_builtin_method == <<st("object"), either(<< <<ld("object"), item, status("ok")>>,
                                                 <<ld("object")>> \o emit_load_method>>)>>

\* The arguments go into a tuple whose release is theirs.
emit_call_function_inline(n) ==
    emit_new_tuple(n) \o (IF n = 0 THEN <<>> ELSE emit_tuple_store(n))
    \o <<st("arguments"), st("function"),
         either(<< <<item>>, <<pyerr_setstring, null>>,
                   <<item, st("made"), pyerr_setstring, ld("made"), decref, null>> >>),
         ld("arguments"), decref, ld("function"), decref>>
=============================================================================

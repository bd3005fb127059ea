--------------------------- MODULE MC_EmittedCode ---------------------------
(***************************************************************************)
(* The functions EmittedCode is checked with, in the byte code CPython     *)
(* 3.10 makes of them.                                                     *)
(***************************************************************************)
EXTENDS EmittedCode

Ins(op) == [op |-> op, arg |-> 0, to |-> 0]
Arg(op, n) == [op |-> op, arg |-> n, to |-> 0]
To(op, target) == [op |-> op, arg |-> 0, to |-> target]
Many(n, op) == [i \in 1..n |-> Ins(op)]
ReturnNone == <<Ins("LOAD_CONST"), Ins("RETURN_VALUE")>>
EndHandler == Many(3, "POP_TOP") \o <<Ins("POP_EXCEPT")>>

\* for i in y: try: <code> except: pass, with the code's operands loaded and
\* its results dropped; without the loop, whose iterator stays below.
Tried(ins, operands, results) ==
    LET body == Many(operands, "LOAD_CONST") \o <<ins>> \o Many(results, "POP_TOP")
        handler == Len(body) + 7
    IN  <<Ins("LOAD_CONST"), To("SETUP_FINALLY", handler)>> \o body
        \o <<Ins("POP_BLOCK"), Ins("POP_TOP")>> \o ReturnNone
        \o EndHandler \o <<Ins("POP_TOP")>> \o ReturnNone

\* An instruction with its number of operands and results.
OneInstruction ==
    {<<Ins(op), Arity(Makes[op]), 1>> : op \in DOMAIN Makes}
    \cup {<<Ins(op), Arity(Does[op]), 0>> : op \in DOMAIN Does}
    \cup {<<Ins("ROT_TWO"), 2, 2>>, <<Ins("ROT_THREE"), 3, 3>>, <<Ins("ROT_FOUR"), 4, 4>>, <<Ins("DUP_TOP"), 1, 2>>,
          <<Ins("DUP_TOP_TWO"), 2, 4>>, <<Ins("NOP"), 0, 0>>}
    \cup {<<Ins("LOAD_NAME"), 0, 1>>, <<Ins("LOAD_GLOBAL"), 0, 1>>, <<Ins("LOAD_ATTR"), 1, 1>>, <<Ins("LOAD_FAST"), 0, 1>>,
          <<Ins("STORE_FAST"), 1, 0>>, <<Ins("DELETE_FAST"), 0, 0>>, <<Ins("STORE_DEREF"), 1, 0>>,
          <<Ins("IMPORT_FROM"), 1, 2>>, <<Ins("LOAD_ASSERTION_ERROR"), 0, 1>>, <<Ins("DELETE_DEREF"), 0, 0>>}
    \cup {<<Ins("COMPARE_OP"), 2, 1>>, <<Ins("IS_OP"), 2, 1>>, <<Ins("CONTAINS_OP"), 2, 1>>, <<Ins("BINARY_SUBSCR"), 2, 1>>,
          <<Ins("STORE_SUBSCR"), 3, 0>>}
    \cup {<<Arg("CALL_FUNCTION", n), n + 1, 1>> : n \in 0..2}
    \cup {<<Arg("CALL_FUNCTION_INLINE", n), n + 1, 1>> : n \in 0..2}
    \cup {<<Arg("CALL_FUNCTION_KW", n), n + 2, 1>> : n \in 1..2}
    \cup {<<Arg("CALL_FUNCTION_EX", n), n + 2, 1>> : n \in 0..1}
    \cup {<<Ins("LOAD_METHOD"), 1, 2>>} \cup {<<Arg("CALL_METHOD", n), n + 2, 1>> : n \in 0..2}
    \cup {<<Arg(op, n), n, 1>> : op \in {"BUILD_TUPLE", "BUILD_LIST", "BUILD_SET", "BUILD_STRING"}, n \in 0..3}
    \cup {<<Arg("BUILD_MAP", n), 2 * n, 1>> : n \in 0..2}
    \cup {<<Arg("BUILD_SLICE", n), n, 1>> : n \in 2..3}
    \cup {<<Arg("BUILD_CONST_KEY_MAP", n), n + 1, 1>> : n \in 1..2}
    \cup {<<Arg("UNPACK_SEQUENCE", n), 1, n>> : n \in 0..2}
    \cup {<<Arg("UNPACK_EX", n), 1, n + 2>> : n \in 0..1}
    \cup {<<Arg(op, 1), 2, 1>> : op \in {"LIST_EXTEND", "DICT_UPDATE", "SET_UPDATE", "DICT_MERGE"}}
    \cup {<<Arg(op, n), n + 1, n>> : op \in {"LIST_APPEND", "SET_ADD"}, n \in 2..4}
    \cup {<<Arg("MAP_ADD", n), n + 2, n>> : n \in 2..4}
    \cup {<<Arg("MAKE_FUNCTION", n), n + 2, 1>> : n \in 0..2}
    \cup {<<Arg("FORMAT_VALUE", n), 1 + n \div 2, 1>> : n \in 0..3}
    \cup {<<Arg("RAISE_VARARGS", n), n, 0>> : n \in 0..2}

OneOpcode == {Tried(t[1], t[2], t[3]) : t \in OneInstruction}

\* return [a for b in c], in a function of its own
Comprehension ==
    <<Arg("BUILD_LIST", 0), Ins("LOAD_FAST"), To("FOR_ITER", 8), Ins("STORE_FAST"), Ins("LOAD_NAME"),
      Arg("LIST_APPEND", 2), To("JUMP_ABSOLUTE", 3), Ins("RETURN_VALUE")>>

\* {a: b for c in d}
DictComprehension ==
    <<Arg("BUILD_MAP", 0), Ins("LOAD_FAST"), To("FOR_ITER", 9), Ins("STORE_FAST"), Ins("LOAD_NAME"), Ins("LOAD_NAME"),
      Arg("MAP_ADD", 2), To("JUMP_ABSOLUTE", 3), Ins("RETURN_VALUE")>>

\* return a if b else c and d
Conditional ==
    <<Ins("LOAD_NAME"), To("POP_JUMP_IF", 5), Ins("LOAD_NAME"), Ins("RETURN_VALUE"),
      Ins("LOAD_NAME"), To("JUMP_IF_X_OR_POP", 8), Ins("LOAD_NAME"), Ins("RETURN_VALUE")>>

\* try: a  except b: pass
TryExcept ==
    <<To("SETUP_FINALLY", 7), Ins("LOAD_NAME"), Ins("POP_TOP"), Ins("POP_BLOCK"), Ins("LOAD_CONST"), Ins("RETURN_VALUE"),
      Ins("DUP_TOP"), Ins("LOAD_GLOBAL"), To("JUMP_IF_NOT_EXC_MATCH", 16)>> \o EndHandler \o ReturnNone
    \o <<Ins("RERAISE")>>

\* try: a  finally: b
TryFinally ==
    <<To("SETUP_FINALLY", 9), Ins("LOAD_NAME"), Ins("POP_TOP"), Ins("POP_BLOCK"), Ins("LOAD_NAME"), Ins("POP_TOP")>>
    \o ReturnNone \o <<Ins("LOAD_NAME"), Ins("POP_TOP"), Ins("RERAISE")>>

\* for x in y: try: a  except: pass
TryInLoop ==
    <<Ins("LOAD_NAME"), Ins("GET_ITER"), To("FOR_ITER", 15), Ins("STORE_FAST"), To("SETUP_FINALLY", 10),
      Ins("LOAD_NAME"), Ins("POP_TOP"), Ins("POP_BLOCK"), To("JUMP_ABSOLUTE", 3)>> \o EndHandler
    \o <<To("JUMP_ABSOLUTE", 3)>> \o ReturnNone

\* try: a  except: raise
RaiseInHandler ==
    <<To("SETUP_FINALLY", 7), Ins("LOAD_NAME"), Ins("POP_TOP"), Ins("POP_BLOCK"), Ins("LOAD_CONST"), Ins("RETURN_VALUE")>>
    \o Many(3, "POP_TOP") \o <<Arg("RAISE_VARARGS", 0)>>

\* y = yield a + (yield b)
Generator ==
    <<Ins("GEN_START"), Ins("LOAD_NAME"), Ins("LOAD_NAME"), Ins("YIELD_VALUE"), Ins("BINARY_ADD"), Ins("YIELD_VALUE"),
      Ins("POP_TOP")>> \o ReturnNone

\* try: try: a  finally: b  except: c
Nested ==
    <<To("SETUP_FINALLY", 14), To("SETUP_FINALLY", 11), Ins("LOAD_NAME"), Ins("POP_TOP"), Ins("POP_BLOCK"),
      Ins("LOAD_NAME"), Ins("POP_TOP"), Ins("POP_BLOCK")>> \o ReturnNone
    \o <<Ins("LOAD_NAME"), Ins("POP_TOP"), Ins("RERAISE")>> \o EndHandler \o ReturnNone

\* for x in y: try: try: a  except: raise
\*             except: pass
ReraiseInLoop ==
    <<Ins("LOAD_NAME"), Ins("GET_ITER"), To("FOR_ITER", 22), Ins("STORE_FAST"), To("SETUP_FINALLY", 17),
      To("SETUP_FINALLY", 11), Ins("LOAD_NAME"), Ins("POP_TOP"), Ins("POP_BLOCK"), To("JUMP_FORWARD", 15)>>
    \o Many(3, "POP_TOP") \o <<Arg("RAISE_VARARGS", 0), Ins("POP_BLOCK"), To("JUMP_ABSOLUTE", 3)>>
    \o EndHandler \o <<To("JUMP_ABSOLUTE", 3)>> \o ReturnNone

\* try: a  except: (try: b except: pass)
TryInHandler ==
    <<To("SETUP_FINALLY", 7), Ins("LOAD_NAME"), Ins("POP_TOP"), Ins("POP_BLOCK")>> \o ReturnNone \o Many(3, "POP_TOP")
    \o <<To("SETUP_FINALLY", 15), Ins("LOAD_NAME"), Ins("POP_TOP"), Ins("POP_BLOCK"), To("JUMP_FORWARD", 19)>>
    \o EndHandler \o <<Ins("POP_EXCEPT")>> \o ReturnNone

\* try: a  except: (try: (try: b except: raise) except: pass)
ReraiseInHandler ==
    <<To("SETUP_FINALLY", 7), Ins("LOAD_NAME"), Ins("POP_TOP"), Ins("POP_BLOCK")>> \o ReturnNone \o Many(3, "POP_TOP")
    \o <<To("SETUP_FINALLY", 22), To("SETUP_FINALLY", 16), Ins("LOAD_NAME"), Ins("POP_TOP"), Ins("POP_BLOCK"),
         To("JUMP_FORWARD", 20)>>
    \o Many(3, "POP_TOP") \o <<Arg("RAISE_VARARGS", 0), Ins("POP_BLOCK"), To("JUMP_FORWARD", 26)>>
    \o EndHandler \o <<Ins("POP_EXCEPT")>> \o ReturnNone

\* try: if a: return b; c  except: d.  The return's POP_BLOCK closes the try for
\* all that follows, and the next one the function: it is not compiled.
ReturnInTry ==
    <<To("SETUP_FINALLY", 12), Ins("LOAD_NAME"), To("POP_JUMP_IF", 7), Ins("POP_BLOCK")>> \o ReturnNone
    \o <<Ins("LOAD_NAME"), Ins("POP_TOP"), Ins("POP_BLOCK")>> \o ReturnNone \o EndHandler \o ReturnNone

Functions ==
    OneOpcode \cup {Comprehension, DictComprehension, Conditional, TryExcept, TryFinally, TryInLoop, ReraiseInLoop, RaiseInHandler,
                    TryInHandler, ReraiseInHandler, Generator, Nested, ReturnInTry}

\* try: a  except: b  finally: c
TryExceptFinally ==
    <<To("SETUP_FINALLY", 17), To("SETUP_FINALLY", 7), Ins("LOAD_NAME"), Ins("POP_TOP"), Ins("POP_BLOCK"),
      To("JUMP_FORWARD", 12)>> \o EndHandler
    \o <<To("JUMP_FORWARD", 12), Ins("POP_BLOCK"), Ins("LOAD_NAME"), Ins("POP_TOP")>> \o ReturnNone
    \o <<Ins("LOAD_NAME"), Ins("POP_TOP"), Ins("RERAISE")>>

\* A function in which a protected region closes in the middle of another.
Astray == {TryExceptFinally}
=============================================================================

-------------------------- MODULE MC_CompiledCode --------------------------
\* Functions f(a) with locals x and y, as CPython 3.10 compiles them, for TLC.
\* The operands are a small integer, a string or the argument.
EXTENDS CompiledCode

a == 0
x == 1
y == 2

I(op, arg) == [op |-> op, arg |-> arg]
Const(kind) == I("LOAD_CONST", kind)
Load_(v) == I("LOAD_FAST", v)
Store(v) == I("STORE_FAST", v)
Del(v) == I("DELETE_FAST", v)
Global == I("LOAD_GLOBAL", 0)
Add == I("BINARY_ADD", 0)
Less == I("COMPARE_OP", 0)
Return == I("RETURN_VALUE", 0)
IfNot(i) == I("POP_JUMP_IF_FALSE", i)
GoTo(i) == I("JUMP_ABSOLUTE", i)

\* The depth of the stack before each instruction: behind the one above, or where
\* a jump from above leads.
Depth(code) ==
    LET above(i) == CHOOSE j \in 1..(i - 1) : Jumps(code[j].op) /\ code[j].arg = i
        depth[i \in DOMAIN code] ==
            IF i = 1 THEN 0
            ELSE IF FallsThrough(code[i - 1].op)
            THEN depth[i - 1] - Pops(code[i - 1].op) + Pushes(code[i - 1].op)
            ELSE depth[above(i)] - Pops(code[above(i)].op) +
                     (IF code[above(i)].op = "JUMP_IF_FALSE_OR_POP" THEN 1 ELSE 0)
    IN  depth

F(code) == [code |-> code, argcount |-> 1, nlocals |-> 3, depth |-> Depth(code)]

Operands == {Const("Integer"), Const("String"), Load_(a)}

\* x = p; y = x + q; return y
Sum(p, q) == F(<<p, Store(x), Load_(x), q, Add, Store(y), Load_(y), Return>>)

\* p + q; x = y = q; return x + y
Chain(p, q) == F(<<p, q, Add, I("POP_TOP", 0), q, I("DUP_TOP", 0), Store(x), Store(y),
                   Load_(x), Load_(y), Add, Return>>)

\* x = p; y = x + q; del x; x = r; return x + y
Again(p, q, r) == F(<<p, Store(x), Load_(x), q, Add, Store(y), Del(x), r, Store(x),
                      Load_(x), Load_(y), Add, Return>>)

\* if g: x = p else: x = q; return x + r
Choice(p, q, r) == F(<<Global, IfNot(6), p, Store(x), GoTo(8), q, Store(x),
                       Load_(x), r, Add, Return>>)

\* x = p; while a < q: x = x + r; return x
Loop(p, q, r) == F(<<p, Store(x), Load_(a), q, Less, IfNot(12), Load_(x), r, Add,
                     Store(x), GoTo(3), Load_(x), Return>>)

\* x = p; while x: x = x + q; return a
Until(p, q) == F(<<p, Store(x), Load_(x), IfNot(10), Load_(x), q, Add, Store(x), GoTo(3),
                   Load_(a), Return>>)

\* x = p; return (x if g else q) + r
Ternary(p, q, r) == F(<<p, Store(x), Global, IfNot(7), Load_(x), GoTo(8), q,
                        r, Add, Return>>)

\* return (p and q) + r
And(p, q, r) == F(<<p, I("JUMP_IF_FALSE_OR_POP", 4), q, r, Add, Return>>)

\* if g: x = p; return x + q
Maybe(p, q) == F(<<Global, IfNot(5), p, Store(x), Load_(x), q, Add, Return>>)

\* x = p; if g: del x else: y = q; return x + q
Forget(p, q) == F(<<p, Store(x), Global, IfNot(7), Del(x), GoTo(9), q, Store(y),
                    Load_(x), q, Add, Return>>)

\* x = p; if g: del x; return x + q
Drop(p, q) == F(<<p, Store(x), Global, IfNot(6), Del(x), Load_(x), q, Add, Return>>)

\* x = p; y = x + q; del x; return x
Gone(p, q) == F(<<p, Store(x), Load_(x), q, Add, Store(y), Del(x), Load_(x), Return>>)

\* x = a; del a; return a
GoneArgument == F(<<Load_(a), Store(x), Del(a), Load_(a), Return>>)

\* while g: if g: x = p else: x = q
Flip(p, q) == F(<<Global, IfNot(11), Global, IfNot(8), p, Store(x), GoTo(1), q, Store(x),
                  GoTo(1), Load_(a), Return>>)

\* while g: if a: y = x + p; x = q; return a
Late(p, q) == F(<<Global, IfNot(12), Load_(a), IfNot(9), Load_(x), p, Add, Store(y),
                  q, Store(x), GoTo(1), Load_(a), Return>>)

\* return a + p + q
Use(p, q) == F(<<Load_(a), p, Add, q, Add, Return>>)

Binary(T(_, _)) == {T(p, q) : p \in Operands, q \in Operands}
Ternary3(T(_, _, _)) == {T(p, q, r) : p \in Operands, q \in Operands, r \in Operands}

All == {GoneArgument} \cup Binary(Gone) \cup Binary(Sum) \cup Binary(Chain) \cup Binary(Until) \cup
       Binary(Drop) \cup Binary(Flip) \cup Binary(Maybe) \cup Binary(Forget) \cup Binary(Late) \cup
       Binary(Use) \cup Ternary3(Again) \cup Ternary3(Choice) \cup Ternary3(Loop) \cup
       Ternary3(Ternary) \cup Ternary3(And)

Ternaries == {Ternary(Const("Integer"), Load_(a), Const("Integer"))}
Maybes == {Maybe(Const("String"), Const("String"))}

TwoKinds == {"Integer", "String"}
=============================================================================

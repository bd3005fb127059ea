---------------------------- MODULE CompiledCode ----------------------------
(***************************************************************************)
(* What a function does once it is compiled (absint.cpp: compile,          *)
(* compileWorker; pycomp.cpp: emit_escape_edges, emit_box, emit_unbox).    *)
(*                                                                         *)
(* The analysis of AbsInterp runs to its end; the function is compiled     *)
(* twice from the same start states, into specialised code for the         *)
(* argument kinds it was analysed with and into generic code for all       *)
(* others; then a call runs one of the two.  The run keeps the kind of     *)
(* every value, whether it is a Python object or an unboxed machine value, *)
(* and, as a yardstick, the kinds the locals have in Python.               *)
(***************************************************************************)
EXTENDS InstructionGraph, TLC

\* The kinds of the values that calls pass.  An Integer is none of 0 and 1,
\* which code that expects a Bool would accept.
CONSTANT CallKinds

ASSUME CompiledCodeAssumption == CallKinds \subseteq {"Integer", "Bool", "String"}

VARIABLES
    bodies,   \* the two compiled bodies, <<>> before the compilation
    frame     \* the call that is running

vars == <<absVars, bodies, frame>>

NoFrame == [end |-> "idle"]

Init == AbsInit /\ bodies = <<>> /\ frame = NoFrame

-----------------------------------------------------------------------------
(* compile *)

Touches(v) == Uses("STORE_FAST", v) \cup Uses("DELETE_FAST", v)

\* m_assignmentState of local v when compileWorker reaches instruction i: it
\* walks the byte code from the first to the last instruction, whatever the
\* order they run in.
assignedAt(v, i, initially) ==
    LET before == {j \in Touches(v) : j < i}
    IN  IF before = {} THEN initially
        ELSE \E j \in Uses("STORE_FAST", v) \cap before : \A k \in before : k <= j

\* preprocess: arguments are assigned, unless the function deletes them.
assignedOnEntry(v) == v < prog.argcount /\ Uses("DELETE_FAST", v) = {}

\* Mutant: a local counts as assigned when anything was done to it before.
checked_Touched(generic) ==
    {i \in DOMAIN prog.code :
        /\ prog.code[i].op = "LOAD_FAST"
        /\ ~assignedOnEntry(prog.code[i].arg)
        /\ \A j \in Touches(prog.code[i].arg) : j >= i}

\* The loads of locals that are compiled with a check for an unbound local.  The
\* generic compilation starts from the state the specialised one ended in.
checked(generic) ==
    {i \in DOMAIN prog.code :
        LET v == prog.code[i].arg
            initially == IF generic
                         THEN assignedAt(v, Len(prog.code) + 1, assignedOnEntry(v))
                         ELSE assignedOnEntry(v)
        IN  prog.code[i].op = "LOAD_FAST" /\ ~assignedAt(v, i, initially)}

Body(generic) == [graph |-> Graph(~generic), checked |-> checked(generic)]

Compile ==
    /\ Analysed /\ bodies = <<>>
    /\ bodies' = [specialized |-> Body(FALSE), generic |-> Body(TRUE)]
    /\ UNCHANGED <<absVars, frame>>

-----------------------------------------------------------------------------
(* Running *)

Value(kind, boxed) == [kind |-> kind, boxed |-> boxed]

\* Mutant: the specialised body is entered with any arguments.
Entered_Specialized(args) == "specialized"

\* The dispatcher enters the specialised body only with arguments of the kinds
\* it was compiled for.
Entered(args) == IF \A v \in DOMAIN args : argKinds[v] \in {"Any", args[v]}
                 THEN "specialized" ELSE "generic"

\* Frames hold the kinds of the objects in the frame's locals (fast), of the
\* values in native variables, and of the locals as Python has them.
Call ==
    /\ bodies # <<>> /\ frame.end # "running"
    /\ \E args \in [0..(prog.argcount - 1) -> CallKinds] :
           LET bound == [v \in 0..(prog.nlocals - 1) |->
                            IF v < prog.argcount THEN args[v] ELSE "null"]
           IN  frame' = [end |-> "running", body |-> Entered(args), pc |-> 1,
                         stack |-> <<>>, fast |-> bound,
                         native |-> [v \in DOMAIN bound |-> "null"],
                         python |-> bound]
    /\ UNCHANGED <<absVars, bodies>>

Running == frame.end = "running"
Ins == prog.code[frame.pc]
Escaped == frame.pc \in bodies[frame.body].graph.escape
Operand(n) == frame.stack[Len(frame.stack) - n]

\* emit_escape_edges: the transition of the n-th edge is applied to the n-th
\* value from the top, when any of the edges needs one.
Transitions ==
    LET graph == bodies[frame.body].graph
        ops == graph.operands[frame.pc]
    IN  IF graph.valid /\ \E n \in DOMAIN ops : ops[n].escaped \in {"Box", "Unbox"}
        THEN ops ELSE <<>>

Transitioned(how) == {n \in DOMAIN Transitions : Transitions[n].escaped = how}

\* Operand n as the instruction gets it.
Converted(n) ==
    IF n + 1 \in Transitioned("Unbox") THEN Value(Transitions[n + 1].kind, FALSE)
    ELSE IF n + 1 \in Transitioned("Box") THEN Value(Operand(n).kind, TRUE)
    ELSE Operand(n)

\* An object is read as a machine value or a machine value as an object: by a
\* transition, or by the instruction.
Misread ==
    \/ \E n \in Transitioned("Unbox") : ~Operand(n - 1).boxed
    \/ \E n \in Transitioned("Box") : Operand(n - 1).boxed
    \/ \E n \in 0..(Pops(Ins.op) - 1) : Converted(n).boxed = Escaped

\* emit_unbox raises PyjionUnboxingError for an object it cannot read.
GuardFails == \E n \in Transitioned("Unbox") :
    LET kind == Transitions[n].kind
    IN  Operand(n - 1).kind \notin {kind} \cup (IF kind = "Integer" THEN {"Bool"} ELSE {})

Stop(how) == frame' = [frame EXCEPT !.end = how]

Left(pushed) == SubSeq(frame.stack, 1, Len(frame.stack) - Pops(Ins.op)) \o pushed
Goto(i, pushed) == frame' = [frame EXCEPT !.pc = i, !.stack = Left(pushed)]
Continue(pushed) == Goto(frame.pc + 1, pushed)

Load ==
    \/ /\ Ins.op = "LOAD_CONST"
       /\ Continue(<<Value(Ins.arg, ~Escaped)>>)
    \/ /\ Ins.op = "LOAD_GLOBAL"
       /\ \E kind \in CallKinds : Continue(<<Value(kind, TRUE)>>)

\* loadFastUnboxed reads the native variable; loadFastWorker increments the
\* reference count of what it finds in the frame.
LoadFast ==
    LET v == Ins.arg
    IN  /\ Ins.op = "LOAD_FAST"
        /\ \/ Escaped /\ frame.python[v] = "null" /\ Stop("unbound")
           \/ Escaped /\ frame.python[v] # "null" /\ Continue(<<Value(frame.native[v], FALSE)>>)
           \/ ~Escaped /\ frame.fast[v] # "null" /\ Continue(<<Value(frame.fast[v], TRUE)>>)
           \/ /\ ~Escaped /\ frame.fast[v] = "null"
              /\ Stop(IF frame.pc \in bodies[frame.body].checked
                      THEN "UnboundLocalError" ELSE "null")

StoreFast ==
    LET v == Ins.arg
        kind == Converted(0).kind
    IN  /\ Ins.op = "STORE_FAST"
        /\ \/ /\ Escaped
              /\ frame' = [frame EXCEPT !.pc = @ + 1, !.stack = Left(<<>>),
                                        !.native[v] = kind, !.python[v] = kind]
           \/ /\ ~Escaped
              /\ frame' = [frame EXCEPT !.pc = @ + 1, !.stack = Left(<<>>),
                                        !.fast[v] = kind, !.python[v] = kind]

\* Nothing is compiled for a DELETE_FAST of an unboxed local.
DeleteFast ==
    LET v == Ins.arg
    IN  /\ Ins.op = "DELETE_FAST"
        /\ \/ /\ frame.python[v] = "null"
              /\ Stop(IF Escaped THEN "unbound" ELSE "UnboundLocalError")
           \/ /\ frame.python[v] # "null" /\ Escaped
              /\ frame' = [frame EXCEPT !.pc = @ + 1, !.python[v] = "null"]
           \/ /\ frame.python[v] # "null" /\ ~Escaped
              /\ frame' = [frame EXCEPT !.pc = @ + 1, !.fast[v] = "null", !.python[v] = "null"]

\* Operators on values of unrelated kinds raise.
Operate ==
    /\ Ins.op \in {"BINARY_ADD", "COMPARE_OP"}
    /\ LET sum == binaryAdd(Converted(1).kind, Converted(0).kind)
       IN  IF sum = "Any" THEN Stop("TypeError")
           ELSE Continue(<<Value(IF Ins.op = "BINARY_ADD" THEN sum ELSE "Bool", ~Escaped)>>)

Shuffle ==
    \/ Ins.op = "POP_TOP" /\ Continue(<<>>)
    \/ Ins.op = "DUP_TOP" /\ Continue(<<Converted(0), Converted(0)>>)

Follow ==
    \/ Ins.op = "JUMP_ABSOLUTE" /\ Goto(Ins.arg, <<>>)
    \/ Ins.op \in CondJump /\ Continue(<<>>)
    \/ Ins.op = "POP_JUMP_IF_FALSE" /\ Goto(Ins.arg, <<>>)
    \/ Ins.op = "JUMP_IF_FALSE_OR_POP" /\ Goto(Ins.arg, <<Converted(0)>>)
    \/ Ins.op = "RETURN_VALUE" /\ Stop("returned")

Execute ==
    /\ Running
    /\ \/ Misread /\ Stop("misread")
       \/ ~Misread /\ GuardFails /\ Stop("UnboxingError")
       \/ /\ ~Misread /\ ~GuardFails
          /\ Load \/ LoadFast \/ StoreFast \/ DeleteFast \/ Operate \/ Shuffle \/ Follow
    /\ UNCHANGED <<absVars, bodies>>

Analyse == Interpret /\ UNCHANGED <<bodies, frame>>

Next == Analyse \/ Compile \/ Call \/ Execute

\* Interpreting and compiling are done in one go by the compiling thread.
Spec == Init /\ [][Next]_vars /\ WF_vars(Analyse)

-----------------------------------------------------------------------------
(* Properties *)

Represented(kind) == IF kind = "Any" THEN {"Integer", "Bool", "String"}
                     ELSE {kind} \ {"Undefined"}

\* The start states say what really happens: wherever the specialised code is,
\* the stack has the height that the analysis gives it, every value is of the
\* kind that its slot or local has, and only a local that is marked as maybe
\* undefined is unbound.  Everything the compiler does rests on this.
AnalysisIsSound ==
    frame.end = "running" /\ frame.body = "specialized" =>
        LET state == start[frame.pc]
        IN  /\ frame.pc \in DOMAIN start
            /\ Len(frame.stack) = Len(state.stack)
            /\ \A n \in DOMAIN frame.stack :
                   frame.stack[n].kind \in Represented(state.stack[n].kind)
            /\ \A v \in DOMAIN frame.python :
                   frame.python[v] \in Represented(state.locals[v].kind) \cup
                       (IF state.locals[v].maybeUndefined THEN {"null"} ELSE {})

\* emit_escape_edges pairs the edges of an instruction with the values on top of
\* the stack by counting: in a graph that is used, an instruction with an edge
\* that needs a transition has edges for a gapless run of operands.
EdgesMatchOperands ==
    bodies # <<>> =>
        \A name \in DOMAIN bodies : \A i \in DOMAIN bodies[name].graph.operands :
            LET graph == bodies[name].graph
                ops == graph.operands[i]
            IN  graph.valid /\ ops # <<>> =>
                    /\ Len(ops) = Pops(prog.code[i].op)
                    /\ \A n \in DOMAIN ops : ops[n].position = n - 1

\* instructions.h names the transitions by the representations on their two
\* sides, boxed and unboxed: no compiled instruction and no transition reads an
\* object as a machine value or a machine value as an object.
RepresentationMatches == frame.end # "misread"

\* LOAD_FAST skips the check for an unbound local only when the local is
\* definitely assigned, as the change log says: no load finds a null reference.
LocalsAreChecked == frame.end # "null"

\* A local that Python has as unbound is never read or deleted as if it were
\* bound, although unboxed locals have no unbound state (the comment at
\* DELETE_FAST in absint.cpp).
UnboxedIsBound == frame.end # "unbound"

\* Where control can go from instruction i.
LeadsTo(i, j) ==
    LET ins == prog.code[i]
    IN  \/ FallsThrough(ins.op) /\ j = i + 1
        \/ Jumps(ins.op) /\ j = ins.arg

\* No value is on the stack where paths join.
EmptyJoins ==
    \A i, j, k \in DOMAIN prog.code :
        LeadsTo(i, k) /\ LeadsTo(j, k) /\ prog.depth[k] > 0 => i = j

\* In the order of the byte code, local v was deleted last when i is reached.
DeletedLast(v, i) ==
    \E d \in Uses("DELETE_FAST", v) :
        d < i /\ \A j \in Uses("STORE_FAST", v) : j < i => j < d

\* To the analysis a local is bound wherever it is deleted, and on all paths to a load
\* of it or on none; a load of a local that is unbound comes behind its deletion.
BindingIsKnown ==
    \A i \in DOMAIN start :
        LET ins == prog.code[i]
            local == start[i].locals[ins.arg]
        IN  /\ ins.op = "DELETE_FAST" => ~local.maybeUndefined
            /\ ins.op = "LOAD_FAST" /\ local.maybeUndefined =>
                   local.kind = "Undefined" /\ DeletedLast(ins.arg, i)

Tidy == EmptyJoins /\ BindingIsKnown

\* In a tidy function no instruction takes an object for a machine word or the other
\* way round, and the order of the byte code is good enough to tell whether a load
\* must be checked, of unboxed locals too (absint.cpp:1349, 1773-1801,
\* instructions.cpp:227-278).
TidyCodeIsSafe ==
    (RepresentationMatches /\ LocalsAreChecked /\ UnboxedIsBound) \/ ~Tidy

\* The specialised code never fails to unbox: the dispatcher only lets in
\* arguments of the kinds it was compiled for, and every other value it unboxes
\* is of the kind the analysis gave it.
SpecializedUnboxes == frame.end = "UnboxingError" => frame.body = "generic"
=============================================================================

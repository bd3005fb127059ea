-------------------------- MODULE InstructionGraph --------------------------
(***************************************************************************)
(* The instruction graph (instructions.cpp, unboxing.cpp): from the start  *)
(* states of an analysed function, an edge for every value that flows from *)
(* one instruction to another, the set of instructions that are escaped,   *)
(* that is compiled to work on unboxed machine values, and for every edge  *)
(* the transition its value needs on the way.                              *)
(*                                                                         *)
(* The constructor runs fixInstructions, fixLocals, deoptimizeInstructions *)
(* and fixEdges in this order over one graph; here each is a function of   *)
(* the result of the one before.                                           *)
(***************************************************************************)
EXTENDS AbsInterp, SequencesExt

supportsUnboxing(op) ==
    op \in LocalOp \cup {"POP_JUMP_IF_FALSE", "COMPARE_OP", "BINARY_ADD", "LOAD_CONST"}

supportsEscaping(kind) == kind \in {"Integer", "Bool"}

StackEffect(op) == Pushes(op) - Pops(op)

-----------------------------------------------------------------------------
(* Edges *)

\* A slot of a start state is an edge to the instruction when its source was
\* consumed by it, from the producer of the source.
EdgeSet ==
    UNION {UNION {{[from |-> slot.src[1], to |-> i, kind |-> slot.kind,
                    position |-> c.position] :
                      c \in {x \in consumers : x.src = slot.src /\ x.by = i}} :
                  slot \in ToSet(start[i].stack)} : i \in DOMAIN start}

\* getEdges: at most one edge per position, in the order of the positions.
getEdges(edges, i) ==
    LET in == {e \in edges : e.to = i}
        positions == {e.position : e \in in}
        nth(n) == CHOOSE p \in positions : Cardinality({q \in positions : q < p}) = n - 1
    IN  [n \in 1..Cardinality(positions) |-> CHOOSE e \in in : e.position = nth(n)]

\* getEdgesFrom: likewise; of several consumers at one position the last stays.
getEdgesFrom(edges, i) ==
    LET out == {e \in edges : e.from = i}
    IN  {e \in out : \A d \in out : d.position = e.position => d.to <= e.to}

-----------------------------------------------------------------------------
(* fixInstructions, fixLocals *)

escapable(edges, i) ==
    /\ supportsUnboxing(prog.code[i].op) /\ prog.code[i].op \notin LocalOp
    /\ \A e \in edges : e.to = i => supportsEscaping(e.kind)
    /\ \A e \in getEdgesFrom(edges, i) : supportsEscaping(e.kind)

fixInstructions(edges) == {i \in DOMAIN prog.code : escapable(edges, i)}

Uses(op, v) == {i \in DOMAIN prog.code : prog.code[i].op = op /\ prog.code[i].arg = v}

\* The one edge of a load or a store of a local.
localEdges(edges, i) ==
    IF prog.code[i].op = "LOAD_FAST" THEN getEdgesFrom(edges, i)
    ELSE {e \in edges : e.to = i}

unboxedLocal(edges, v) ==
    LET uses == Uses("LOAD_FAST", v) \cup Uses("STORE_FAST", v)
    IN  /\ Uses("LOAD_FAST", v) # {} /\ Uses("STORE_FAST", v) # {}
        /\ \E kind \in Kind : supportsEscaping(kind) /\
               \A i \in uses : \E e \in edges : localEdges(edges, i) = {e} /\ e.kind = kind

\* The locals that are kept in native variables; arguments never are.
unboxedFastLocals(edges) ==
    {v \in prog.argcount..(prog.nlocals - 1) : unboxedLocal(edges, v)}

fixLocals(edges) ==
    UNION {UNION {Uses(op, v) : op \in LocalOp} : v \in unboxedFastLocals(edges)}

-----------------------------------------------------------------------------
(* deoptimizeInstructions *)

\* One instruction, given the result for the ones before it: [escape, invalid].
deoptimize(edges, g, i) ==
    LET op == prog.code[i].op
        in == {e \in edges : e.to = i}
        out == getEdgesFrom(edges, i)
        boxedBefore == \A e \in in : e.from \notin g.escape
        boxedBehind == \A e \in out : e.to \notin g.escape
        ends == {e.to : e \in {x \in out : getEdgesFrom(edges, x.to) = {}}}
        removed ==
            IF \/ in = {} /\ Cardinality(out) = 1 /\ boxedBehind
               \/ Cardinality(in) = 1 /\ out = {} /\ boxedBefore
               \/ in # {} /\ out # {} /\ boxedBefore /\ boxedBehind
            THEN {i}
            ELSE IF in # {} /\ Cardinality(out) = 1 /\ boxedBefore /\ ends # {}
            THEN {i} \cup {j \in ends : prog.code[j].op # "STORE_FAST"}
            ELSE {}
    IN  IF i \notin g.escape \/ op \in LocalOp THEN g
        ELSE IF Cardinality(out) # Cardinality(in) + StackEffect(op)
        THEN [escape |-> g.escape \ {i}, invalid |-> TRUE]
        ELSE [escape |-> g.escape \ removed, invalid |-> g.invalid]

\* From the first instruction to the last.
deoptimizeInstructions(edges, escape) ==
    LET g[i \in 0..Len(prog.code)] ==
            IF i = 0 THEN [escape |-> escape, invalid |-> FALSE]
            ELSE deoptimize(edges, g[i - 1], i)
    IN  g[Len(prog.code)]

-----------------------------------------------------------------------------
(* fixEdges *)

transition(escape, e) ==
    IF ~supportsEscaping(e.kind) THEN "NoEscape"
    ELSE IF e.from \in escape THEN IF e.to \in escape THEN "Unboxed" ELSE "Box"
    ELSE IF e.to \in escape THEN "Unbox" ELSE "NoEscape"

\* The graph a compilation works with: per instruction the operands it has edges
\* for, top of the stack first, with kind and transition.
Graph(escapeLocals) ==
    LET edges == EdgeSet
        g == deoptimizeInstructions(edges, fixInstructions(edges) \cup
                 (IF escapeLocals THEN fixLocals(edges) ELSE {}))
    IN  [escape   |-> IF g.invalid THEN {} ELSE g.escape,
         valid    |-> ~g.invalid,
         operands |-> [i \in DOMAIN prog.code |->
                          [n \in DOMAIN getEdges(edges, i) |->
                              LET e == getEdges(edges, i)[n]
                              IN  [kind |-> e.kind, position |-> e.position,
                                   escaped |-> transition(g.escape, e)]]]]
=============================================================================

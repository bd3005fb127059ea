------------------------------ MODULE Feedback ------------------------------
(***************************************************************************)
(* A function compiled on what has been learned, running while what it was *)
(* compiled on changes.  It is compiled in its first two calls, with       *)
(* probes first and then with the profile they have made (pyjit.cpp); the  *)
(* second code is final.  While it runs and between its calls, names are   *)
(* bound anew, attributes are stored, and other code that stores them is   *)
(* compiled.                                                               *)
(*                                                                         *)
(* Beside the sum that the compiled code has, the frame carries the sum    *)
(* the interpreter would have from the same operands.                      *)
(***************************************************************************)
EXTENDS TypeFeedback

CONSTANTS
    FirstTag,    \* the tags the dictionaries have at the beginning
    FreeTag      \* the first tag that none of them has

ASSUME FirstTagAssumption ==
    /\ FirstTag \in [Dict -> Nat] /\ FreeTag \in Nat
    /\ \A d \in Dict : FirstTag[d] < FreeTag
    /\ \A d, e \in Dict : FirstTag[d] = FirstTag[e] => d = e

VARIABLES
    code,        \* what the last compilation made
    attr,        \* the attribute, per type of object
    frame,       \* the call that runs
    seen         \* history: what all objects of a kind of operand were, or "many"

vars == <<globalVars, learnedVars, code, attr, frame, seen>>

Idle == [running |-> FALSE]
NoCode == [operands |-> <<>>]
NotProfiled == [left |-> NotSeen, right |-> NotSeen, owner |-> Unbound]
Error == {"TypeError", "NameError", "guard"}

\* Results of calls, the global, the type of the argument, and the attribute of
\* the objects of each type.
Watched == {"Call", "Global", "Argument"} \cup Owner

ASSUME NamesAssumption ==
    /\ Unbound \notin Kind \cup Error \cup Owner \cup {"Any", "many"}
    /\ Owner \cap {"Call", "Global", "Argument", "many"} = {}

CommonKind(kinds) ==
    CASE kinds = {}                  -> Unbound
      [] \E v \in kinds : kinds = {v} -> CHOOSE v \in kinds : TRUE
      [] OTHER                       -> "many"

Noted(w, v) ==
    IF v = Unbound THEN seen
    ELSE [seen EXCEPT ![w] = IF @ \in {Unbound, v} THEN v ELSE "many"]

-----------------------------------------------------------------------------
(* Addition *)

Number == {"Integer", "BigInteger", "Float", "Complex"}
Width == [Integer |-> 1, BigInteger |-> 2, Float |-> 3, Complex |-> 4]

\* PyNumber_Add on kinds; integers are positive, and small ones have small sums.
Sum(one, two) ==
    LET kinds == {one, two}
    IN  IF kinds \cap Error # {} THEN CHOOSE e \in Error : e \in kinds
        ELSE IF kinds \subseteq Number
        THEN CHOOSE n \in kinds : \A m \in kinds : Width[m] <= Width[n]
        ELSE IF kinds = {"String"} THEN "String" ELSE "TypeError"

\* emit_unbox: integers are always converted with a check; a float's value is
\* read out of whatever object is there unless it has to be guarded.
emit_unbox(kind, guard, v) ==
    IF v # kind /\ (kind = "Integer" \/ guard) THEN "guard" ELSE kind

\* Whether an operand comes as an object; constants of additions on machine
\* words, and the sums of such additions, do not.
IsObject(k, side) ==
    IF side = "right" THEN body[k] # "Const" \/ ~code.escape[k]
    ELSE ~code.escape[k - 1]

\* emit_escape_edges for one operand.
unboxed(k, side, v) ==
    LET guess == code.operands[k][side]
    IN  IF IsObject(k, side) THEN emit_unbox(guess.kind, guess.guard, v) ELSE v

\* An object of another kind is read as a float.
Misreads(k, side, v) == IsObject(k, side) /\ unboxed(k, side, v) \notin {v, "guard"}

\* Operands whose kinds are taken for certain but are only as good as a guess:
\* builtins, and sums of which one operand was guessed to be a big integer.
Trusted(k, side) ==
    \/ code.operands[k][side].fixed
    \/ side = "left" /\ k > 2 /\
           \E s \in {"left", "right"} : code.operands[k - 1][s].kind = "BigInteger"

\* BINARY_ADD as compiled.
compiledSum(k, one, two) ==
    IF two \in Error \/ ~code.escape[k] THEN Sum(one, two)
    ELSE Sum(unboxed(k, "left", one), unboxed(k, "right", two))

\* The probes in front of an addition of objects; a sum of machine words on the
\* left is not captured.
emitPgcProbes(k, one, two) ==
    IF ~code.probes \/ code.escape[k] THEN profile
    ELSE [profile EXCEPT
             ![k].left = IF IsObject(k, "left") THEN record(@, one) ELSE @,
             ![k].right = record(@, two)]

-----------------------------------------------------------------------------

\* Bound: what a function has no operand of is left alone.
Uses(origin) == \E k \in DOMAIN body : body[k] = origin

Init ==
    /\ body \in Bodies
    /\ \E v \in [Dict -> Value \cup {Unbound}] :
           /\ dict = [d \in Dict |-> [value |-> v[d], tag |-> FirstTag[d]]]
           /\ Uses("Global") \/ \A d \in Dict : v[d] = Unbound
    /\ nextTag = FreeTag
    /\ compiled = {}
    /\ status = "Uncompiled"
    /\ profile = [k \in DOMAIN body |-> NotProfiled]
    /\ table = [o \in Owner |-> Unbound]
    /\ code = NoCode
    /\ attr \in [Owner -> AttrValue]
    /\ Uses("Attr") \/ \A o \in Owner : attr[o] = "Float"
    /\ frame = Idle
    /\ seen = [w \in Watched |->
                  CASE w \in Owner  -> attr[w]
                    [] w = "Global" -> CommonKind({dict[d].value : d \in Dict} \ {Unbound})
                    [] OTHER        -> Unbound]

\* interpret() and compileWorker(): the kinds, the additions on machine words,
\* and LOAD_GLOBAL's cache.
compile(g, o) ==
    LET operands == analyse(g, o)
    IN  [operands |-> operands, escape |-> escapes(operands),
         probes |-> status = "Uncompiled", global |-> resolve(g)]

\* A call with an object of type o, in a frame of namespace g: PyJit_EvalFrame
\* compiles until the code is the optimised one.
Call(g, o) ==
    /\ frame = Idle
    /\ Uses("Attr") \/ o = CHOOSE t \in Owner : TRUE
    /\ frame' = [running |-> TRUE, g |-> g, k |-> 0, owner |-> o, left |-> Unbound,
                 py |-> Unbound, misread |-> "no"]
    /\ IF status = "Optimized" THEN UNCHANGED <<globalVars, code>>
       ELSE code' = compile(g, o) /\ Resolve(g)
    /\ seen' = Noted("Argument", o)
    /\ UNCHANGED <<learnedVars, attr>>

Ended == frame.k = Len(body) \/ {frame.left, frame.py} \cap Error # {}

\* What the operands of addition k, one and two, are misread as: "no" when they
\* are not, "trusted" when all that are were trusted.
Misreading(k, one, two) ==
    LET sides == {s \in {"left", "right"} :
                     code.escape[k] /\ Misreads(k, s, IF s = "left" THEN one ELSE two)}
    IN  IF sides = {} THEN "no"
        ELSE IF \A s \in sides : Trusted(k, s) THEN "trusted" ELSE "yes"

\* The next operand is on the stack, jit in the compiled code and py in the
\* interpreter, and is added to the sum so far.
Add(jit, py) ==
    LET k == frame.k + 1
        adds == k # 1 /\ jit \notin Error
    IN  /\ frame' = [frame EXCEPT
               !.k = k,
               !.left = IF k = 1 THEN jit ELSE compiledSum(k, @, jit),
               !.py = IF k = 1 THEN py ELSE Sum(@, py),
               !.misread = IF adds /\ @ = "no" THEN Misreading(k, frame.left, jit) ELSE @]
        /\ profile' = LET p == IF adds THEN emitPgcProbes(k, frame.left, jit) ELSE profile
                      IN  [p EXCEPT ![k].owner = IF body[k] = "Attr" /\ code.probes
                                                 THEN recordType(@, frame.owner) ELSE @]
        /\ UNCHANGED <<body, status, table, globalVars, code, attr>>

Steps(origin) == frame.running /\ ~Ended /\ body[frame.k + 1] = origin

AddConst == Steps("Const") /\ Add("Float", "Float") /\ UNCHANGED seen

\* CALL_FUNCTION may give anything, and do anything before it returns.
AddCall(v) == Steps("Call") /\ Add(v, v) /\ seen' = Noted("Call", v)

Bound(v) == IF v = Unbound THEN "NameError" ELSE v

AddGlobal ==
    /\ Steps("Global")
    /\ Add(Bound(emit_load_global(code.global, frame.g)), Bound(LoadGlobal(frame.g)))
    /\ UNCHANGED seen

AddAttr ==
    /\ Steps("Attr")
    /\ Add(attr[frame.owner], attr[frame.owner])
    /\ UNCHANGED seen

\* The status moves when the call is over, with a result or an exception.
Return ==
    /\ frame.running /\ Ended
    /\ frame' = Idle
    /\ status' = IF status = "Uncompiled" THEN "CompiledWithProbes" ELSE "Optimized"
    /\ UNCHANGED <<globalVars, body, profile, table, code, attr, seen>>

\* The rest of the program, between calls and while operands are computed.
BindName(d, v) ==
    /\ Uses("Global") /\ Bind(d, v)
    /\ seen' = Noted("Global", v)
    /\ UNCHANGED <<learnedVars, code, attr, frame>>

StoreAttr(o, v) ==
    /\ Uses("Attr") /\ v # attr[o]
    /\ attr' = [attr EXCEPT ![o] = v]
    /\ seen' = Noted(o, v)
    /\ UNCHANGED <<globalVars, learnedVars, code, frame>>

\* Code that stores a value of a known kind in the attribute is compiled; it may
\* never run.
CompileStore(o, kind) ==
    /\ Uses("Attr")
    /\ table' = [table EXCEPT ![o] = captureStoreAttr(@, kind)]
    /\ seen' = Noted(o, kind)
    /\ UNCHANGED <<globalVars, body, status, profile, code, attr, frame>>

Next ==
    \/ \E g \in Globals, o \in Owner : Call(g, o)
    \/ AddConst \/ AddGlobal \/ AddAttr
    \/ \E v \in Value : AddCall(v)
    \/ Return
    \/ \E d \in Dict, v \in Value \cup {Unbound} : BindName(d, v)
    \/ \E o \in Owner, v \in AttrValue : StoreAttr(o, v) \/ CompileStore(o, v)

Spec == Init /\ [][Next]_vars

-----------------------------------------------------------------------------
(* Properties *)

\* What was learned about types never changes a result: for every history of calls,
\* bindings, stores and compilations the compiled code returns the interpreter's sum,
\* and raises what the interpreter raises when it does.  Two cases are left out, a
\* failed guard, whose exception the interpreter does not know, and a sum of which a
\* builtin, or a sum with a guessed big integer, was taken for certain and read as
\* what it was not (absint.cpp:2048, pycomp.cpp:2656).
ResultsAgree ==
    frame.running /\ Ended /\ frame.left # "guard" /\ frame.misread # "trusted"
        => frame.left = frame.py

\* The compiled code gives up only when an operand has changed: as long as calls
\* give one kind, the name is bound to one kind, the argument is of one type and
\* the attribute of that type of one kind, no guard fails (pgc.cpp:53,
\* attrtable.cpp:28).
GuardErrorsAreEarned ==
    frame.running /\ frame.left = "guard" =>
        \E w \in {"Call", "Global", "Argument", frame.owner} : seen[w] = "many"

\* A float is read out of an object of another kind only where a builtin or a sum
\* with a guessed big integer was taken for certain (absint.h:182, pycomp.cpp:2484).
ReadsAreGuarded == frame.running => frame.misread # "yes"
=============================================================================

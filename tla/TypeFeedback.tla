---------------------------- MODULE TypeFeedback ----------------------------
(***************************************************************************)
(* What the JIT learns about types at run time: the profile of a code      *)
(* object (pgc.cpp) and the table of attribute types (attrtable.cpp), and  *)
(* what the tables of kinds and the unboxing make of it (absvalue.cpp,     *)
(* unboxing.cpp, instructions.cpp) in functions that add operands up:      *)
(*                                                                         *)
(*     return o1 + o2 + ... + on                                           *)
(*                                                                         *)
(* An operand is a float constant, the result of a call, a global, or an   *)
(* attribute of the function's argument.  Instruction k adds operand k, on *)
(* the right, to the sum of those before it, on the left.                  *)
(* Objects are told apart by kind only; Integer stands for those of at     *)
(* most 60 bits, BigInteger for those that do not fit a machine word.      *)
(***************************************************************************)
EXTENDS Sequences, CachedGlobals

CONSTANTS
    Owner,       \* types of objects with the attribute
    AttrValue,   \* objects the attribute may be
    Bodies       \* functions, as sequences of origins of operands

Origin == {"Const", "Call", "Global", "Attr"}
Kind == {"Float", "Integer", "BigInteger", "Complex", "String", "None"}

ASSUME FeedbackAssumption ==
    /\ Value \cup AttrValue \subseteq Kind
    /\ \A b \in Bodies : b \in Seq(Origin) /\ Len(b) > 1

supportsEscaping(kind) == kind \in {"Float", "Integer"}

-----------------------------------------------------------------------------
(* Abstract values: a kind, whether it must be checked before it is relied   *)
(* on (needsGuard), and whether it comes from a constant or a builtin.       *)

AbstractValue(kind, guard, fixed) == [kind |-> kind, guard |-> guard, fixed |-> fixed]

AnyValue == AbstractValue("Any", FALSE, FALSE)
Volatile(kind) == AbstractValue(kind, TRUE, FALSE)

\* The kind of a sum, from the tables of the kind on the left; those of complex
\* numbers and strings are not asked for a value that must be checked.
sumKind(one, two) ==
    LET kinds == {one.kind, two.kind}
    IN  CASE kinds \subseteq {"Float", "Integer", "BigInteger"} ->
                 IF "Float" \in kinds THEN "Float"
                 ELSE IF kinds = {"Integer"} THEN "Integer" ELSE "BigInteger"
          [] one.kind \in {"Float", "Integer", "BigInteger"} /\ two.kind = "Complex" -> "Complex"
          [] ~one.guard /\ one.kind = "Complex" /\ two.kind \in {"Float", "Integer", "Complex"} -> "Complex"
          [] ~one.guard /\ kinds = {"String"} -> "String"
          [] OTHER -> "Any"

binary(one, two) == AbstractValue(sumKind(one, two), FALSE, FALSE)

-----------------------------------------------------------------------------
(* PyjionCodeProfile *)

NotSeen == [type |-> Unbound, kind |-> Unbound]

Type(kind) == IF kind = "BigInteger" THEN "Integer" ELSE kind

recordType(entry, type) == IF entry = Unbound THEN type ELSE entry

\* record: the type of the first object, the kind of the last one.
record(entry, v) == [type |-> recordType(entry.type, Type(v)), kind |-> v]

\* Mutant: what was seen is taken for certain.
fromPgc_Unguarded(existing, entry) ==
    IF existing.fixed \/ entry.type = Unbound THEN existing
    ELSE AbstractValue(entry.kind, FALSE, FALSE)

fromPgc(existing, entry) ==
    IF \/ existing.fixed
       \/ ~existing.guard /\ existing.kind # "Any"
       \/ entry.type = Unbound
    THEN existing
    ELSE Volatile(entry.kind)

-----------------------------------------------------------------------------
(* AttributeTable; the missing entry and AVK_Any read the same *)

captureStoreAttr(entry, kind) ==
    CASE entry \in {Unbound, "None", kind} -> kind
      [] OTHER                             -> "Any"

\* Mutant: the kind in the table is taken for certain.
getAttr_Certain(entry) ==
    IF entry \in {Unbound, "Any"} THEN AnyValue ELSE AbstractValue(entry, FALSE, FALSE)

getAttr(entry) ==
    IF entry \in {Unbound, "Any"} THEN AnyValue ELSE Volatile(entry)

-----------------------------------------------------------------------------
(* The analysis of a body *)

VARIABLES
    body,        \* the function that is compiled
    status,      \* its PgcStatus
    profile,     \* per addition: its operands and, when the right one is an
                 \* attribute, the type of the object LOAD_ATTR had
    table        \* AttributeTable, for the attribute: per type of object

learnedVars == <<body, status, profile, table>>

Additions == 2..Len(body)

\* The profile is used by the second compilation only.
learns == status = "CompiledWithProbes"

\* LOAD_GLOBAL: an object of the namespace is volatile; of a builtin the type is
\* asked for its kind, and that is taken for certain.
globalValue(g) ==
    IF dict[g].value # Unbound THEN Volatile(dict[g].value)
    ELSE IF LoadGlobal(g) = Unbound THEN AnyValue
    ELSE LET type == Type(LoadGlobal(g))
         IN  AbstractValue(IF type = "Integer" THEN "BigInteger" ELSE type, FALSE, TRUE)

\* LOAD_ATTR: the table is asked for the type of the argument the compiling call
\* had, or for the one in the profile.
attrValue(k, o) ==
    getAttr(table[IF learns /\ profile[k].owner # Unbound THEN profile[k].owner ELSE o])

loadedValue(k, g, o) ==
    CASE body[k] = "Const"  -> AbstractValue("Float", FALSE, TRUE)
      [] body[k] = "Call"   -> AnyValue
      [] body[k] = "Global" -> globalValue(g)
      [] body[k] = "Attr"   -> attrValue(k, o)

\* Mutant: the two positions of the profile are exchanged.
profiled_Exchanged(k, one, two) ==
    IF learns THEN [left  |-> fromPgc(one, profile[k].right),
                    right |-> fromPgc(two, profile[k].left)]
    ELSE [left |-> one, right |-> two]

\* PGC_UPDATE_STACK(2)
profiled(k, one, two) ==
    IF learns THEN [left  |-> fromPgc(one, profile[k].left),
                    right |-> fromPgc(two, profile[k].right)]
    ELSE [left |-> one, right |-> two]

\* The two operands of every addition.
analyse(g, o) ==
    LET operands[k \in Additions] ==
            profiled(k,
                     IF k = 2 THEN loadedValue(1, g, o)
                     ELSE binary(operands[k - 1].left, operands[k - 1].right),
                     loadedValue(k, g, o))
    IN  operands

\* The instructions that work on machine words, an addition or the load of a
\* first operand.  fixInstructions: both operands and the sum are of kinds that
\* can be; deoptimizeInstructions: so is the work of a neighbour.
escapes(operands) ==
    LET can(k) == /\ supportsEscaping(operands[k].left.kind)
                  /\ supportsEscaping(operands[k].right.kind)
                  /\ supportsEscaping(binary(operands[k].left, operands[k].right).kind)
        escape[k \in DOMAIN body] ==
            IF k = 1 THEN body[1] = "Const" /\ can(2)
            ELSE /\ can(k)
                 /\ \/ escape[k - 1] \/ body[k] = "Const"
                    \/ k < Len(body) /\ can(k + 1)
    IN  escape
=============================================================================

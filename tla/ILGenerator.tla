---------------------------- MODULE ILGenerator ----------------------------
(***************************************************************************)
(* The generator of IL (ilgen.h): the bytes of branches and operands, the  *)
(* labels they go to, and the local variables that are used again.         *)
(*                                                                         *)
(* A branch to a label that is not marked yet takes five bytes, and is     *)
(* rewritten when the label is marked: in the short form with three NOPs   *)
(* behind it, where a byte is enough for the distance.  All other code     *)
(* counts by its size.  An emitter marks a label once, and frees a local   *)
(* while it owns it.                                                       *)
(***************************************************************************)
EXTENDS Integers, Sequences, FiniteSets

CONSTANTS
    Label,             \* the labels of a method
    Owner,             \* variables of the emitters that hold a local
    Type,              \* types of locals
    Sizes,             \* sizes of other code
    Operands,          \* operands of loads
    IntHalf, LongHalf, \* half of the numbers of 4 and of 8 bytes
    MaxBranches, MaxSize, MaxLocals  \* bounds on a method

Half == [byte |-> 128, int |-> IntHalf, long |-> LongHalf]

Int32 == -IntHalf..(IntHalf - 1)
UInt32 == 0..(2 * IntHalf - 1)
Int64 == -LongHalf..(LongHalf - 1)
UInt64 == 0..(2 * LongHalf - 1)
UInt16 == 0..65535

\* ld_i4, ld_u4 and ld_i8 with a number, ld_i with a pointer, ld_loc (and st_loc and
\* ld_arg) and ld_loca with an index.
Operand ==
    [load : {"ld_i4"}, value : Int32] \cup [load : {"ld_u4"}, value : UInt32]
    \cup [load : {"ld_i8"}, value : Int64] \cup [load : {"ld_i"}, value : UInt64]
    \cup [load : {"ld_loc", "ld_loca"}, value : UInt16]

ASSUME GeneratorAssumption ==
    /\ IntHalf \in Nat /\ IntHalf > 65535
    /\ LongHalf \in Nat /\ LongHalf >= 2 * IntHalf
    /\ Sizes \subseteq Nat /\ Operands \subseteq Operand
    /\ {MaxBranches, MaxSize, MaxLocals} \subseteq Nat
    /\ MaxSize + 5 <= IntHalf /\ MaxLocals < 65535

None == [index |-> -1]

VARIABLES
    size,            \* of m_il, in bytes
    branches,        \* the branches in m_il, with the bytes of their distance
    m_labels,        \* where the labels are, -1 before they are marked
    loaded,          \* the last operand, as it was asked for and as it is in m_il
    m_locals,        \* the types of the locals
    m_freedLocals,   \* the locals to be used again, by type
    held             \* the Local in each variable of the emitters

vars == <<size, branches, m_labels, loaded, m_locals, m_freedLocals, held>>

code == <<size, branches, m_labels>>
locals == <<m_locals, m_freedLocals, held>>

Nothing == [load |-> "none", value |-> 0, found |-> 0]

Init ==
    /\ size = 0 /\ branches = {} /\ m_labels = [l \in Label |-> -1]
    /\ loaded = Nothing
    /\ m_locals = <<>> /\ m_freedLocals = [t \in Type |-> <<>>]
    /\ held = [o \in Owner |-> None]

-----------------------------------------------------------------------------
(* Numbers in bytes *)

\* The bytes of a number that fits them with or without a sign.
Bytes(n, width) == IF n < 0 THEN n + 2 * Half[width] ELSE n

Signed(b, width) == IF b < Half[width] THEN b ELSE b - 2 * Half[width]

-----------------------------------------------------------------------------
(* Branches *)

Emit(n) ==
    /\ size + n <= MaxSize
    /\ size' = size + n
    /\ loaded' = Nothing

BranchRecord == [at : 0..MaxSize, label : Label, form : {"byte", "int"}, bytes : Nat]

\* The bytes of branch(branchType, offset): 2 in the short form and 5 in the long.
ShortBranch(l, distance) ==
    [at |-> size, label |-> l, form |-> "byte", bytes |-> Bytes(distance, "byte")]
LongBranch(l, distance) ==
    [at |-> size, label |-> l, form |-> "int", bytes |-> Bytes(distance, "int")]

branch(l, offset) ==
    IF offset - 2 \in -127..128
    THEN Emit(2) /\ branches' = branches \cup {ShortBranch(l, offset - 2)}
    ELSE Emit(5) /\ branches' = branches \cup {LongBranch(l, offset - 5)}

Branch(l) ==
    /\ Cardinality(branches) < MaxBranches
    /\ branch(l, IF m_labels[l] = -1 THEN 65535 ELSE m_labels[l] - size)
    /\ UNCHANGED <<m_labels, locals>>

\* Mutant: a distance of 128 is put into a byte.
Patched_Wide(b) ==
    IF size - (b.at + 2) \in -128..128
    THEN [b EXCEPT !.form = "byte", !.bytes = Bytes(size - (b.at + 2), "byte")]
    ELSE [b EXCEPT !.bytes = Bytes(size - (b.at + 5), "int")]

Patched(b) ==
    IF size - (b.at + 2) \in -127..127
    THEN [b EXCEPT !.form = "byte", !.bytes = Bytes(size - (b.at + 2), "byte")]
    ELSE [b EXCEPT !.bytes = Bytes(size - (b.at + 5), "int")]

mark_label(l) ==
    /\ m_labels[l] = -1
    /\ m_labels' = [m_labels EXCEPT ![l] = size]
    /\ branches' = {IF b.label = l THEN Patched(b) ELSE b : b \in branches}
    /\ loaded' = Nothing
    /\ UNCHANGED <<size, locals>>

Other(n) ==
    /\ Emit(n)
    /\ UNCHANGED <<branches, m_labels, locals>>

\* Where a branch goes: the distance counts from its end.
Destination(b) == b.at + (IF b.form = "byte" THEN 2 ELSE 5) + Signed(b.bytes, b.form)

-----------------------------------------------------------------------------
(* Operands: the form they are emitted in, and the number that is loaded *)

ld_i4(i) ==
    IF i \in -1..8 THEN i
    ELSE IF i > -128 /\ i < 128 THEN Signed(Bytes(i, "byte"), "byte")
    ELSE Signed(Bytes(i, "int"), "int")

\* CONV_U4.
ld_u4(i) == Bytes(ld_i4(Signed(i, "int")), "int")

ld_i8(i) == Signed(Bytes(i, "long"), "long")

\* A pointer whose upper half is zero is loaded as an int, and CONV_I extends its sign.
ld_i(value) ==
    Bytes(IF value \in UInt32 THEN Signed(value, "int") ELSE Signed(value, "long"), "long")

\* Indices: in the opcode, in a byte, or in two bytes, the lower one first.
ld_loc(index) ==
    IF index < 256 THEN index ELSE (index % 256) + 256 * (index \div 256)

Loaded(operand) ==
    CASE operand.load = "ld_i4" -> ld_i4(operand.value)
      [] operand.load = "ld_u4" -> ld_u4(operand.value)
      [] operand.load = "ld_i8" -> ld_i8(operand.value)
      [] operand.load = "ld_i"  -> ld_i(operand.value)
      [] OTHER                  -> ld_loc(operand.value)
Load(operand) ==
    /\ loaded' = [load |-> operand.load, value |-> operand.value, found |-> Loaded(operand)]
    /\ UNCHANGED <<code, locals>>

-----------------------------------------------------------------------------
(* Local variables *)

NewLocal(o, t) ==
    /\ Len(m_locals) < MaxLocals
    /\ m_locals' = Append(m_locals, t)
    /\ held' = [held EXCEPT ![o] = [index |-> Len(m_locals), type |-> t]]
    /\ UNCHANGED m_freedLocals

\* Mutant: the local stays in the list.
FreedLocal_Kept(o, t) ==
    LET freed == m_freedLocals[t]
    IN  /\ held' = [held EXCEPT ![o] = [index |-> freed[Len(freed)], type |-> t]]
        /\ UNCHANGED <<m_locals, m_freedLocals>>

\* The local of this type that was freed last.
FreedLocal(o, t) ==
    LET freed == m_freedLocals[t]
    IN  /\ held' = [held EXCEPT ![o] = [index |-> freed[Len(freed)], type |-> t]]
        /\ m_freedLocals' = [m_freedLocals EXCEPT ![t] = SubSeq(freed, 1, Len(freed) - 1)]
        /\ UNCHANGED m_locals

define_local(o, t) ==
    /\ held[o] = None
    /\ IF m_freedLocals[t] # <<>> THEN FreedLocal(o, t) ELSE NewLocal(o, t)
    /\ loaded' = Nothing
    /\ UNCHANGED code

define_local_no_cache(o, t) ==
    /\ held[o] = None
    /\ NewLocal(o, t)
    /\ loaded' = Nothing
    /\ UNCHANGED code

\* The type of a local by its index, which counts from zero.
TypeOf(index) == m_locals[index + 1]

\* The code throws for a local that is in the list already: LocalsAreDistinct says
\* that a local which is held never is.
free_local(o) ==
    LET index == held[o].index
        freed == m_freedLocals[TypeOf(index)]
    IN  /\ held[o] # None
        /\ \A n \in DOMAIN freed : freed[n] # index
        /\ m_freedLocals' = [m_freedLocals EXCEPT ![TypeOf(index)] = Append(freed, index)]
        /\ held' = [held EXCEPT ![o] = None]
        /\ loaded' = Nothing
        /\ UNCHANGED <<m_locals, code>>

-----------------------------------------------------------------------------

Next ==
    \/ \E l \in Label : Branch(l) \/ mark_label(l)
    \/ \E n \in Sizes : Other(n)
    \/ \E operand \in Operands : Load(operand)
    \/ \E o \in Owner :
          \/ \E t \in Type : define_local(o, t) \/ define_local_no_cache(o, t)
          \/ free_local(o)

Spec == Init /\ [][Next]_vars

-----------------------------------------------------------------------------
(* Properties *)

TypeOK ==
    /\ size \in 0..MaxSize
    /\ branches \subseteq BranchRecord
    /\ m_labels \in [Label -> -1..MaxSize]
    /\ m_locals \in Seq(Type)
    /\ m_freedLocals \in [Type -> Seq(Nat)]
    /\ held \in [Owner -> {None} \cup [index : Nat, type : Type]]

\* Once its label is marked, a branch goes there, in whatever form and direction it
\* was emitted, and however it was rewritten.
BranchesReachTheirLabels ==
    \A b \in branches : m_labels[b.label] # -1 => Destination(b) = m_labels[b.label]

\* What is loaded is what was asked for, but for pointers (and sizes) that need all
\* of 32 bits.
OperandsAreLoaded ==
    \/ loaded.found = loaded.value
    \/ loaded.load = "ld_i" /\ loaded.value \in UInt32 /\ loaded.value >= IntHalf

\* The bytes mean what the emitters asked for.
CodeMeansWhatWasEmitted == BranchesReachTheirLabels /\ OperandsAreLoaded

\* Two emitters never hold the same local, the local has the type it was defined
\* with, and no local that is held is up to be used again (to free it cannot fail).
LocalsAreDistinct ==
    \A o \in Owner : held[o] # None =>
        /\ \A p \in Owner \ {o} : held[p] # None => held[p].index # held[o].index
        /\ held[o].index < Len(m_locals) /\ TypeOf(held[o].index) = held[o].type
        /\ \A t \in Type : \A n \in DOMAIN m_freedLocals[t] :
              m_freedLocals[t][n] # held[o].index
=============================================================================

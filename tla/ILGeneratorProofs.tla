------------------------- MODULE ILGeneratorProofs -------------------------
(***************************************************************************)
(* Proofs about the IL generator, for methods and sizes of any kind.       *)
(***************************************************************************)
EXTENDS ILGenerator, TLAPS

LEMMA Halves ==
    /\ Half["byte"] = 128 /\ Half["int"] = IntHalf /\ Half["long"] = LongHalf
    /\ IntHalf \in Nat /\ IntHalf > 65535 /\ LongHalf \in Nat /\ LongHalf >= 2 * IntHalf
    /\ MaxSize \in Nat /\ MaxSize + 5 <= IntHalf
BY GeneratorAssumption DEF Half

\* A number that fits comes back from its bytes (emit_int and the bytes pushed by
\* branch, mark_label and the loads).
LEMMA BytesAreSigned ==
    /\ \A n \in -128..127 : Bytes(n, "byte") \in Nat /\ Signed(Bytes(n, "byte"), "byte") = n
    /\ \A n \in Int32 : Bytes(n, "int") \in Nat /\ Signed(Bytes(n, "int"), "int") = n
    /\ \A n \in Int64 : Bytes(n, "long") \in Nat /\ Signed(Bytes(n, "long"), "long") = n
BY Halves DEF Bytes, Signed, Int32, Int64

\* A number is made of its lower byte and the rest (the two bytes of st_loc, ld_loc,
\* ld_loca and ld_arg).
LEMMA TwoBytes == \A n \in Nat : n = (n % 256) + 256 * (n \div 256)
OBVIOUS

LEMMA LoadsNumbers ==
    /\ \A i \in Int32 : ld_i4(i) = i
    /\ \A i \in UInt32 : ld_u4(i) = i
    /\ \A i \in Int64 : ld_i8(i) = i
<1>1. ASSUME NEW i \in Int32
      PROVE  ld_i4(i) = i
    <2>1. i \in Int /\ Signed(Bytes(i, "int"), "int") = i
        BY BytesAreSigned, Halves DEF Int32
    <2>2. i > -128 /\ i < 128 => Signed(Bytes(i, "byte"), "byte") = i
        BY <2>1, BytesAreSigned
    <2> QED
        BY <2>1, <2>2 DEF ld_i4
<1>2. ASSUME NEW i \in UInt32
      PROVE  ld_u4(i) = i
    <2>1. Signed(i, "int") \in Int32 /\ Bytes(Signed(i, "int"), "int") = i
        BY Halves DEF Signed, Bytes, Int32, UInt32
    <2> QED
        BY <1>1, <2>1 DEF ld_u4
<1>3. \A i \in Int64 : ld_i8(i) = i
    BY BytesAreSigned DEF ld_i8
<1> QED
    BY <1>1, <1>2, <1>3

LEMMA LoadsPointers ==
    ASSUME NEW n \in UInt64, ~(n \in UInt32 /\ n >= IntHalf)
    PROVE  ld_i(n) = n
BY Halves DEF ld_i, Signed, Bytes, UInt32, UInt64

LEMMA LoadsIndices == \A n \in UInt16 : ld_loc(n) = n
BY TwoBytes DEF ld_loc, UInt16

\* Every operand but a pointer of exactly 32 bits is loaded as it was asked for
\* (ld_i4, ld_u4, ld_i8, ld_i, ld_loc, ld_loca).
LEMMA LoadsAreExact ==
    ASSUME NEW operand \in Operand,
           ~(operand.load = "ld_i" /\ operand.value \in UInt32 /\ operand.value >= IntHalf)
    PROVE  Loaded(operand) = operand.value
<1>1. CASE operand \in [load : {"ld_i4"}, value : Int32]
    BY <1>1, LoadsNumbers DEF Loaded
<1>2. CASE operand \in [load : {"ld_u4"}, value : UInt32]
    BY <1>2, LoadsNumbers DEF Loaded
<1>3. CASE operand \in [load : {"ld_i8"}, value : Int64]
    BY <1>3, LoadsNumbers DEF Loaded
<1>4. CASE operand \in [load : {"ld_i"}, value : UInt64]
    BY <1>4, LoadsPointers DEF Loaded
<1>5. CASE operand \in [load : {"ld_loc", "ld_loca"}, value : UInt16]
    BY <1>5, LoadsIndices DEF Loaded
<1> QED
    BY <1>1, <1>2, <1>3, <1>4, <1>5 DEF Operand

-----------------------------------------------------------------------------
(* The inductive invariant *)

\* A label is marked where code was, and a branch is within what fits an int.
LabelsAreBehind == \A l \in Label : m_labels[l] <= size

\* A branch that waits for its label has room for any distance.
WaitingIsLong == \A b \in branches : m_labels[b.label] = -1 => b.form = "int"

\* The lists hold every local once, under its type.
FreedOnce ==
    \A t \in Type : \A n \in DOMAIN m_freedLocals[t] :
        /\ m_freedLocals[t][n] < Len(m_locals)
        /\ TypeOf(m_freedLocals[t][n]) = t
        /\ \A k \in DOMAIN m_freedLocals[t] :
              k # n => m_freedLocals[t][k] # m_freedLocals[t][n]

CodeInv == LabelsAreBehind /\ WaitingIsLong /\ BranchesReachTheirLabels /\ OperandsAreLoaded

LocalInv == FreedOnce /\ LocalsAreDistinct

GeneratorInv == TypeOK /\ CodeInv /\ LocalInv

\* A method starts empty (ILGenerator's constructor).
LEMMA StartsEmpty == Init => GeneratorInv
<1> SUFFICES ASSUME Init PROVE GeneratorInv
    OBVIOUS
<1>1. TypeOK
    BY Halves DEF Init, TypeOK, None
<1>2. CodeInv
    BY DEF Init, CodeInv, LabelsAreBehind, WaitingIsLong, BranchesReachTheirLabels, OperandsAreLoaded, Nothing
<1>3. LocalInv
    BY DEF Init, LocalInv, FreedOnce, LocalsAreDistinct
<1> QED
    BY <1>1, <1>2, <1>3 DEF GeneratorInv

-----------------------------------------------------------------------------
(* Code *)

LEMMA ShortReaches ==
    ASSUME NEW l \in Label, size \in 0..MaxSize, NEW distance \in -128..127
    PROVE  /\ ShortBranch(l, distance) \in BranchRecord
           /\ ShortBranch(l, distance).label = l
           /\ Destination(ShortBranch(l, distance)) = size + 2 + distance
<1>1. Bytes(distance, "byte") \in Nat /\ Signed(Bytes(distance, "byte"), "byte") = distance
    BY BytesAreSigned
<1> QED
    BY <1>1 DEF ShortBranch, BranchRecord, Destination

LEMMA LongReaches ==
    ASSUME NEW l \in Label, size \in 0..MaxSize, NEW distance \in Int32
    PROVE  /\ LongBranch(l, distance) \in BranchRecord
           /\ LongBranch(l, distance).label = l /\ LongBranch(l, distance).form = "int"
           /\ Destination(LongBranch(l, distance)) = size + 5 + distance
<1>1. Bytes(distance, "int") \in Nat /\ Signed(Bytes(distance, "int"), "int") = distance
    BY BytesAreSigned
<1> QED
    BY <1>1 DEF LongBranch, BranchRecord, Destination

\* A branch that waits for its label goes there once it is rewritten, in either form
\* (mark_label).
LEMMA PatchedReaches ==
    ASSUME size \in 0..MaxSize, NEW b \in BranchRecord, b.form = "int"
    PROVE  /\ Patched(b) \in BranchRecord
           /\ Patched(b).label = b.label
           /\ Destination(Patched(b)) = size
<1>0. b.at \in 0..MaxSize /\ b.label \in Label
    BY DEF BranchRecord
<1>1. CASE size - (b.at + 2) \in -127..127
    <2> DEFINE bytes == Bytes(size - (b.at + 2), "byte")
    <2>1. bytes \in Nat /\ Signed(bytes, "byte") = size - (b.at + 2)
        <3>1. size - (b.at + 2) \in -128..127
            BY <1>1
        <3> QED
            BY <3>1, BytesAreSigned
    <2>2. Patched(b) = [b EXCEPT !.form = "byte", !.bytes = bytes]
        BY <1>1 DEF Patched
    <2> HIDE DEF bytes
    <2>3. Patched(b) = [at |-> b.at, label |-> b.label, form |-> "byte", bytes |-> bytes]
        BY <2>2 DEF BranchRecord
    <2> QED
        BY <1>0, <2>1, <2>3, Halves DEF Destination, BranchRecord
<1>2. CASE size - (b.at + 2) \notin -127..127
    <2> DEFINE bytes == Bytes(size - (b.at + 5), "int")
    <2>1. bytes \in Nat /\ Signed(bytes, "int") = size - (b.at + 5)
        <3>1. size - (b.at + 5) \in Int32
            BY <1>0, Halves DEF Int32
        <3> QED
            BY <3>1, BytesAreSigned
    <2>2. Patched(b) = [b EXCEPT !.bytes = bytes]
        BY <1>2 DEF Patched
    <2> HIDE DEF bytes
    <2>3. Patched(b) = [at |-> b.at, label |-> b.label, form |-> "int", bytes |-> bytes]
        BY <2>2 DEF BranchRecord
    <2> QED
        BY <1>0, <2>1, <2>3, Halves DEF Destination, BranchRecord
<1> QED
    BY <1>1, <1>2

\* A branch goes to its label at once if the label is marked (branch).
LEMMA BranchKeeps ==
    ASSUME TypeOK, CodeInv, NEW l \in Label, Branch(l)
    PROVE  TypeOK' /\ CodeInv'
<1> DEFINE offset == IF m_labels[l] = -1 THEN 65535 ELSE m_labels[l] - size
<1>1. /\ size \in 0..MaxSize /\ m_labels[l] \in -1..MaxSize /\ m_labels[l] <= size
      /\ branch(l, offset)
      /\ m_labels' = m_labels
      /\ UNCHANGED <<m_locals, m_freedLocals, held>>
    BY DEF Branch, locals, TypeOK, CodeInv, LabelsAreBehind
<1>2. \E b \in BranchRecord :
        /\ branches' = branches \cup {b} /\ b.label = l
        /\ IF m_labels[l] = -1 THEN b.form = "int" ELSE Destination(b) = m_labels[l]
        /\ size' \in size..MaxSize /\ loaded' = Nothing
    <2>1. CASE offset - 2 \in -127..128
        <3>1. m_labels[l] # -1 /\ offset - 2 \in -128..127
            BY <1>1, <2>1
        <3>2. PICK d \in -128..127 : d = offset - 2
            BY <3>1
        <3>3. branches' = branches \cup {ShortBranch(l, d)} /\ Emit(2)
            BY <1>1, <2>1, <3>2 DEF branch
        <3>4. size' \in size..MaxSize /\ loaded' = Nothing
            BY <1>1, <3>3, Halves DEF Emit
        <3>5. /\ ShortBranch(l, d) \in BranchRecord /\ ShortBranch(l, d).label = l
              /\ Destination(ShortBranch(l, d)) = size + 2 + d
            BY <1>1, ShortReaches
        <3>6. size + 2 + d = m_labels[l]
            BY <1>1, <3>1, <3>2
        <3> HIDE DEF offset
        <3> QED
            BY <3>1, <3>3, <3>4, <3>5, <3>6
    <2>2. CASE offset - 2 \notin -127..128
        <3>1. offset - 5 \in Int32
            <4>1. offset \in Int /\ offset >= -MaxSize /\ offset <= 65535
                BY <1>1, Halves
            <4> HIDE DEF offset
            <4> QED
                BY <4>1, Halves DEF Int32
        <3>2. PICK d \in Int32 : d = offset - 5
            BY <3>1
        <3>3. branches' = branches \cup {LongBranch(l, d)} /\ Emit(5)
            BY <1>1, <2>2, <3>2 DEF branch
        <3>4. size' \in size..MaxSize /\ loaded' = Nothing
            BY <1>1, <3>3, Halves DEF Emit
        <3>5. /\ LongBranch(l, d) \in BranchRecord /\ LongBranch(l, d).label = l
              /\ LongBranch(l, d).form = "int"
              /\ Destination(LongBranch(l, d)) = size + 5 + d
            BY <1>1, LongReaches
        <3>6. m_labels[l] # -1 => size + 5 + d = m_labels[l]
            BY <1>1, <3>2
        <3> HIDE DEF offset
        <3> QED
            BY <3>3, <3>4, <3>5, <3>6
    <2> QED
        BY <2>1, <2>2
<1> HIDE DEF offset
<1>3. TypeOK'
    BY <1>1, <1>2, Halves DEF TypeOK
<1>4. LabelsAreBehind'
    BY <1>1, <1>2, Halves DEF LabelsAreBehind, CodeInv, TypeOK
<1>5. WaitingIsLong'
    BY <1>1, <1>2 DEF WaitingIsLong, CodeInv
<1>6. BranchesReachTheirLabels'
    BY <1>1, <1>2 DEF BranchesReachTheirLabels, CodeInv, Destination
<1>7. OperandsAreLoaded'
    BY <1>2 DEF OperandsAreLoaded, Nothing
<1> QED
    BY <1>3, <1>4, <1>5, <1>6, <1>7 DEF CodeInv

\* The branches that wait for a label are rewritten when it is marked, all others stay
\* (mark_label).
LEMMA MarkKeeps ==
    ASSUME TypeOK, CodeInv, NEW l \in Label, mark_label(l)
    PROVE  TypeOK' /\ CodeInv'
<1>1. /\ size \in 0..MaxSize /\ m_labels[l] = -1 /\ m_labels \in [Label -> -1..MaxSize]
      /\ m_labels' = [m_labels EXCEPT ![l] = size]
      /\ branches' = {IF b.label = l THEN Patched(b) ELSE b : b \in branches}
      /\ loaded' = Nothing
      /\ UNCHANGED <<size, m_locals, m_freedLocals, held>>
    BY DEF mark_label, locals, TypeOK
<1>2. ASSUME NEW c \in branches'
      PROVE  /\ c \in BranchRecord
             /\ \/ c.label = l /\ Destination(c) = size
                \/ c.label # l /\ c \in branches
    <2>1. PICK b \in branches : c = IF b.label = l THEN Patched(b) ELSE b
        BY <1>1
    <2>2. b \in BranchRecord
        BY DEF TypeOK
    <2>3. CASE b.label = l
        <3>1. b.form = "int"
            BY <1>1, <2>3 DEF CodeInv, WaitingIsLong
        <3> QED
            BY <1>1, <2>1, <2>2, <2>3, <3>1, PatchedReaches
    <2>4. CASE b.label # l
        BY <2>1, <2>2, <2>4
    <2> QED
        BY <2>3, <2>4
<1>3. TypeOK'
    BY <1>1, <1>2, Halves DEF TypeOK
<1>4. LabelsAreBehind'
    BY <1>1 DEF LabelsAreBehind, CodeInv
<1>5. WaitingIsLong'
    BY <1>1, <1>2 DEF WaitingIsLong, CodeInv
<1>6. BranchesReachTheirLabels'
    <2> SUFFICES ASSUME NEW c \in branches', m_labels'[c.label] # -1
                 PROVE  Destination(c) = m_labels'[c.label]
        BY DEF BranchesReachTheirLabels, Destination
    <2>1. CASE c.label = l /\ Destination(c) = size
        BY <1>1, <2>1
    <2>2. CASE c.label # l /\ c \in branches
        <3>1. c.label \in Label /\ m_labels'[c.label] = m_labels[c.label]
            BY <1>1, <1>2, <2>2 DEF BranchRecord
        <3> QED
            BY <2>2, <3>1 DEF CodeInv, BranchesReachTheirLabels
    <2> QED
        BY <1>2, <2>1, <2>2
<1>7. OperandsAreLoaded'
    BY <1>1 DEF OperandsAreLoaded, Nothing
<1> QED
    BY <1>3, <1>4, <1>5, <1>6, <1>7 DEF CodeInv

\* Other code only makes the method longer (push_back).
LEMMA OtherKeeps ==
    ASSUME TypeOK, CodeInv, NEW n \in Sizes, Other(n)
    PROVE  TypeOK' /\ CodeInv'
<1>1. /\ size \in 0..MaxSize /\ n \in Nat /\ size' = size + n /\ size' <= MaxSize
      /\ loaded' = Nothing
      /\ UNCHANGED <<branches, m_labels, m_locals, m_freedLocals, held>>
    BY GeneratorAssumption DEF Other, Emit, locals, TypeOK
<1>2. TypeOK'
    BY <1>1, Halves DEF TypeOK
<1>3. LabelsAreBehind'
    BY <1>1, Halves DEF LabelsAreBehind, CodeInv, TypeOK
<1>4. WaitingIsLong' /\ BranchesReachTheirLabels'
    BY <1>1 DEF WaitingIsLong, BranchesReachTheirLabels, CodeInv, Destination
<1>5. OperandsAreLoaded'
    BY <1>1 DEF OperandsAreLoaded, Nothing
<1> QED
    BY <1>2, <1>3, <1>4, <1>5 DEF CodeInv

\* A load is exact, but for a pointer of 32 bits.
LEMMA LoadKeeps ==
    ASSUME TypeOK, CodeInv, NEW operand \in Operands, Load(operand)
    PROVE  TypeOK' /\ CodeInv'
<1>1. /\ loaded' = [load |-> operand.load, value |-> operand.value, found |-> Loaded(operand)]
      /\ UNCHANGED <<size, branches, m_labels, m_locals, m_freedLocals, held>>
    BY DEF Load, code, locals
<1>2. OperandsAreLoaded'
    BY <1>1, LoadsAreExact, GeneratorAssumption DEF OperandsAreLoaded
<1> QED
    BY <1>1, <1>2
       DEF TypeOK, CodeInv, LabelsAreBehind, WaitingIsLong, BranchesReachTheirLabels, Destination

-----------------------------------------------------------------------------
(* Local variables *)

\* Steps on locals leave the code alone.
LEMMA CodeStays ==
    ASSUME CodeInv, UNCHANGED code, loaded' = Nothing \/ UNCHANGED loaded
    PROVE  CodeInv'
BY DEF code, CodeInv, LabelsAreBehind, WaitingIsLong, BranchesReachTheirLabels, Destination,
       OperandsAreLoaded, Nothing

\* And steps of the code leave the locals alone.
LEMMA LocalsStay ==
    ASSUME LocalInv, UNCHANGED <<m_locals, m_freedLocals, held>>
    PROVE  LocalInv'
BY DEF LocalInv, FreedOnce, LocalsAreDistinct, TypeOf

\* What is held is a local.
LEMMA HeldIsLocal ==
    ASSUME TypeOK, NEW o \in Owner, held[o] # None
    PROVE  held[o] \in [index : Nat, type : Type]
BY DEF TypeOK

\* A new local has an index that nobody holds (define_local_no_cache).
LEMMA NewKeeps ==
    ASSUME TypeOK, LocalInv, NEW o \in Owner, NEW t \in Type, held[o] = None,
           NewLocal(o, t), UNCHANGED <<size, branches, m_labels>>
    PROVE  TypeOK' /\ LocalInv'
<1> DEFINE new == [index |-> Len(m_locals), type |-> t]
<1>1. /\ m_locals \in Seq(Type) /\ m_locals' = Append(m_locals, t)
      /\ held \in [Owner -> {None} \cup [index : Nat, type : Type]]
      /\ held' = [held EXCEPT ![o] = new]
      /\ m_freedLocals' = m_freedLocals /\ m_freedLocals \in [Type -> Seq(Nat)]
    BY DEF NewLocal, TypeOK
<1>2. /\ Len(m_locals) \in Nat /\ Len(m_locals') = Len(m_locals) + 1
      /\ \A k \in 0..(Len(m_locals) - 1) : m_locals'[k + 1] = m_locals[k + 1]
      /\ m_locals'[Len(m_locals) + 1] = t
    BY <1>1
<1>3. new \in [index : Nat, type : Type] /\ new # None
      /\ new.index = Len(m_locals) /\ new.type = t
    BY <1>2 DEF None
<1> HIDE DEF new
<1>4. TypeOK'
    BY <1>1, <1>3 DEF TypeOK
<1>5. FreedOnce'
    <2> SUFFICES ASSUME NEW u \in Type, NEW n \in DOMAIN m_freedLocals[u]
                 PROVE  /\ m_freedLocals[u][n] < Len(m_locals')
                        /\ m_locals'[m_freedLocals[u][n] + 1] = u
        BY <1>1 DEF FreedOnce, LocalInv, TypeOf
    <2>1. m_freedLocals[u][n] \in Nat
        BY <1>1
    <2>2. m_freedLocals[u][n] < Len(m_locals) /\ m_locals[m_freedLocals[u][n] + 1] = u
        BY DEF FreedOnce, LocalInv, TypeOf
    <2> QED
        BY <1>2, <2>1, <2>2
<1>6. LocalsAreDistinct'
    <2> SUFFICES ASSUME NEW p \in Owner, held'[p] # None
                 PROVE  /\ \A q \in Owner \ {p} :
                              held'[q] # None => held'[q].index # held'[p].index
                        /\ held'[p].index < Len(m_locals')
                        /\ m_locals'[held'[p].index + 1] = held'[p].type
                        /\ \A u \in Type : \A n \in DOMAIN m_freedLocals[u] :
                              m_freedLocals[u][n] # held'[p].index
        BY <1>1 DEF LocalsAreDistinct, TypeOf
    <2>1. \A q \in Owner : q # o /\ held[q] # None =>
             /\ held[q].index \in Nat /\ held[q].index < Len(m_locals)
             /\ m_locals[held[q].index + 1] = held[q].type
        BY HeldIsLocal DEF LocalInv, LocalsAreDistinct, TypeOf
    <2>2. \A u \in Type : \A n \in DOMAIN m_freedLocals[u] :
             m_freedLocals[u][n] \in Nat /\ m_freedLocals[u][n] < Len(m_locals)
        BY <1>1 DEF LocalInv, FreedOnce
    <2>3. CASE p = o
        <3>1. held'[p] = new /\ \A q \in Owner \ {p} : held'[q] = held[q]
            BY <1>1, <2>3
        <3>2. \A q \in Owner \ {p} : held'[q] # None => held'[q].index # held'[p].index
            BY <1>2, <1>3, <2>1, <2>3, <3>1
        <3>3. held'[p].index < Len(m_locals') /\ m_locals'[held'[p].index + 1] = held'[p].type
            BY <1>2, <1>3, <3>1
        <3>4. \A u \in Type : \A n \in DOMAIN m_freedLocals[u] :
                 m_freedLocals[u][n] # held'[p].index
            BY <1>2, <1>3, <2>2, <3>1
        <3> QED
            BY <3>2, <3>3, <3>4
    <2>4. CASE p # o
        <3>1. held'[p] = held[p]
            BY <1>1, <2>4
        <3>2. \A q \in Owner \ {p} : held'[q] # None => held'[q].index # held'[p].index
            BY <1>1, <1>3, <2>1, <2>4, <3>1 DEF LocalInv, LocalsAreDistinct
        <3>3. held'[p].index < Len(m_locals') /\ m_locals'[held'[p].index + 1] = held'[p].type
            <4>1. held[p].index \in 0..(Len(m_locals) - 1)
                BY <1>2, <2>1, <2>4, <3>1
            <4> QED
                BY <1>2, <2>1, <2>4, <3>1, <4>1
        <3> QED
            BY <3>1, <3>2, <3>3 DEF LocalInv, LocalsAreDistinct
    <2> QED
        BY <2>3, <2>4
<1> QED
    BY <1>4, <1>5, <1>6 DEF LocalInv

\* A local is taken from the list of its type, where it was once, and nobody holds it
\* (define_local).
LEMMA ReuseKeeps ==
    ASSUME TypeOK, LocalInv, NEW o \in Owner, NEW t \in Type, held[o] = None,
           m_freedLocals[t] # <<>>, FreedLocal(o, t), UNCHANGED <<size, branches, m_labels>>
    PROVE  TypeOK' /\ LocalInv'
<1> DEFINE freed == m_freedLocals[t]
           index == freed[Len(freed)]
           fewer == SubSeq(freed, 1, Len(freed) - 1)
           reused == [index |-> index, type |-> t]
<1>1. /\ m_freedLocals \in [Type -> Seq(Nat)] /\ freed \in Seq(Nat) /\ freed # <<>>
      /\ m_freedLocals' = [m_freedLocals EXCEPT ![t] = fewer]
      /\ held \in [Owner -> {None} \cup [index : Nat, type : Type]]
      /\ held' = [held EXCEPT ![o] = reused]
      /\ m_locals' = m_locals
    BY DEF FreedLocal, TypeOK
<1>2. /\ Len(freed) \in DOMAIN freed /\ fewer \in Seq(Nat)
      /\ \A n \in DOMAIN fewer : n \in DOMAIN freed /\ n # Len(freed) /\ fewer[n] = freed[n]
    BY <1>1
<1>3. /\ index \in Nat /\ index < Len(m_locals) /\ m_locals[index + 1] = t
      /\ \A n \in DOMAIN fewer : fewer[n] # index
      /\ \A p \in Owner : held[p] # None => held[p].index # index
    BY <1>1, <1>2 DEF LocalInv, FreedOnce, LocalsAreDistinct, TypeOf
<1>4. reused \in [index : Nat, type : Type] /\ reused # None
      /\ reused.index = index /\ reused.type = t
    BY <1>3 DEF None
<1> HIDE DEF freed, index, fewer, reused
<1>5. TypeOK'
    BY <1>1, <1>2, <1>4 DEF TypeOK
<1>6. \A u \in Type : \A n \in DOMAIN m_freedLocals'[u] :
         /\ n \in DOMAIN m_freedLocals[u] /\ m_freedLocals'[u][n] = m_freedLocals[u][n]
         /\ m_freedLocals'[u][n] # index
    <2> SUFFICES ASSUME NEW u \in Type, NEW n \in DOMAIN m_freedLocals'[u]
                 PROVE  /\ n \in DOMAIN m_freedLocals[u]
                        /\ m_freedLocals'[u][n] = m_freedLocals[u][n]
                        /\ m_freedLocals'[u][n] # index
        OBVIOUS
    <2>1. CASE u = t
        BY <1>1, <1>2, <1>3, <2>1 DEF freed
    <2>2. CASE u # t
        <3>1. m_freedLocals'[u] = m_freedLocals[u]
            BY <1>1, <2>2
        <3>2. m_locals[m_freedLocals[u][n] + 1] = u
            BY <3>1 DEF LocalInv, FreedOnce, TypeOf
        <3> QED
            BY <1>3, <2>2, <3>1, <3>2
    <2> QED
        BY <2>1, <2>2
<1>7. FreedOnce'
    BY <1>1, <1>6 DEF FreedOnce, LocalInv, TypeOf
<1>8. LocalsAreDistinct'
    <2> SUFFICES ASSUME NEW p \in Owner, held'[p] # None
                 PROVE  /\ \A q \in Owner \ {p} :
                              held'[q] # None => held'[q].index # held'[p].index
                        /\ held'[p].index < Len(m_locals)
                        /\ m_locals[held'[p].index + 1] = held'[p].type
                        /\ \A u \in Type : \A n \in DOMAIN m_freedLocals'[u] :
                              m_freedLocals'[u][n] # held'[p].index
        BY <1>1 DEF LocalsAreDistinct, TypeOf
    <2>1. CASE p = o
        <3>1. held'[p] = reused /\ \A q \in Owner \ {p} : held'[q] = held[q]
            BY <1>1, <2>1
        <3> QED
            BY <1>3, <1>4, <1>6, <3>1
    <2>2. CASE p # o
        <3>1. held'[p] = held[p]
            BY <1>1, <2>2
        <3>2. \A q \in Owner \ {p} : held'[q] # None => held'[q].index # held'[p].index
            BY <1>1, <1>3, <1>4, <2>2, <3>1 DEF LocalInv, LocalsAreDistinct
        <3> QED
            BY <1>6, <3>1, <3>2 DEF LocalInv, LocalsAreDistinct, TypeOf
    <2> QED
        BY <2>1, <2>2
<1> QED
    BY <1>5, <1>7, <1>8 DEF LocalInv

\* A local goes back to the list of its type, where it is not yet, and is not held any
\* more (free_local).
LEMMA FreeKeeps ==
    ASSUME TypeOK, LocalInv, NEW o \in Owner, free_local(o)
    PROVE  TypeOK' /\ LocalInv'
<1> DEFINE index == held[o].index
           t == TypeOf(index)
           more == Append(m_freedLocals[t], index)
<1>1. /\ held[o] # None /\ held' = [held EXCEPT ![o] = None]
      /\ held \in [Owner -> {None} \cup [index : Nat, type : Type]]
      /\ m_freedLocals \in [Type -> Seq(Nat)]
      /\ m_freedLocals' = [m_freedLocals EXCEPT ![t] = more]
      /\ UNCHANGED <<m_locals, size, branches, m_labels>>
    BY DEF free_local, TypeOK, code
<1>2. /\ index \in Nat /\ index < Len(m_locals) /\ t \in Type
      /\ \A p \in Owner \ {o} : held[p] # None => held[p].index # index
      /\ \A u \in Type : \A n \in DOMAIN m_freedLocals[u] : m_freedLocals[u][n] # index
    BY <1>1, HeldIsLocal DEF LocalInv, LocalsAreDistinct
<1>3. /\ m_freedLocals[t] \in Seq(Nat) /\ more \in Seq(Nat)
      /\ DOMAIN more = DOMAIN m_freedLocals[t] \cup {Len(m_freedLocals[t]) + 1}
      /\ more[Len(m_freedLocals[t]) + 1] = index
      /\ Len(m_freedLocals[t]) + 1 \notin DOMAIN m_freedLocals[t]
      /\ \A n \in DOMAIN m_freedLocals[t] : more[n] = m_freedLocals[t][n]
    BY <1>1, <1>2
<1> HIDE DEF more
<1>4. TypeOK'
    <2>1. m_freedLocals' \in [Type -> Seq(Nat)]
        BY <1>1, <1>2, <1>3
    <2>2. held' \in [Owner -> {None} \cup [index : Nat, type : Type]]
        BY <1>1
    <2> QED
        BY <1>1, <2>1, <2>2 DEF TypeOK
<1>5. FreedOnce'
    <2> SUFFICES ASSUME NEW u \in Type, NEW n \in DOMAIN m_freedLocals'[u]
                 PROVE  /\ m_freedLocals'[u][n] < Len(m_locals)
                        /\ m_locals[m_freedLocals'[u][n] + 1] = u
                        /\ \A k \in DOMAIN m_freedLocals'[u] :
                              k # n => m_freedLocals'[u][k] # m_freedLocals'[u][n]
        BY <1>1 DEF FreedOnce, TypeOf
    <2>1. CASE u # t
        <3>1. m_freedLocals'[u] = m_freedLocals[u]
            BY <1>1, <2>1
        <3> QED
            BY <3>1 DEF LocalInv, FreedOnce, TypeOf
    <2>2. CASE u = t
        <3>1. m_freedLocals'[u] = more
            BY <1>1, <1>2, <2>2
        <3>2. \A k \in DOMAIN m_freedLocals[t] :
                 /\ more[k] = m_freedLocals[t][k] /\ more[k] # index
                 /\ more[k] < Len(m_locals) /\ m_locals[more[k] + 1] = t
                 /\ \A i \in DOMAIN m_freedLocals[t] : i # k => more[i] # more[k]
            BY <1>2, <1>3 DEF LocalInv, FreedOnce, TypeOf
        <3>3. index < Len(m_locals) /\ m_locals[index + 1] = t
            BY <1>2 DEF TypeOf
        <3> HIDE DEF index, t
        <3> QED
            BY <1>3, <2>2, <3>1, <3>2, <3>3
    <2> QED
        BY <2>1, <2>2
<1>6. LocalsAreDistinct'
    <2> SUFFICES ASSUME NEW p \in Owner, held'[p] # None
                 PROVE  /\ \A q \in Owner \ {p} :
                              held'[q] # None => held'[q].index # held'[p].index
                        /\ held'[p].index < Len(m_locals)
                        /\ m_locals[held'[p].index + 1] = held'[p].type
                        /\ \A u \in Type : \A n \in DOMAIN m_freedLocals'[u] :
                              m_freedLocals'[u][n] # held'[p].index
        BY <1>1 DEF LocalsAreDistinct, TypeOf
    <2>1. p # o /\ held'[p] = held[p] /\ \A q \in Owner : held'[q] # None => held'[q] = held[q]
        BY <1>1
    <2>2. \A u \in Type : \A n \in DOMAIN m_freedLocals'[u] :
             \/ m_freedLocals'[u][n] = index
             \/ n \in DOMAIN m_freedLocals[u] /\ m_freedLocals'[u][n] = m_freedLocals[u][n]
        <3>1. m_freedLocals'[t] = more /\ \A u \in Type \ {t} : m_freedLocals'[u] = m_freedLocals[u]
            BY <1>1, <1>2
        <3> HIDE DEF index, t
        <3> QED
            BY <1>3, <3>1
    <2> HIDE DEF index, t
    <2> QED
        BY <1>2, <2>1, <2>2 DEF LocalInv, LocalsAreDistinct, TypeOf
<1> QED
    BY <1>4, <1>5, <1>6 DEF LocalInv

-----------------------------------------------------------------------------
(* Theorems *)

\* Every step of the generator keeps the invariant.
LEMMA StepKeeps == GeneratorInv /\ [Next]_vars => GeneratorInv'
<1> SUFFICES ASSUME GeneratorInv, [Next]_vars
             PROVE  GeneratorInv'
    OBVIOUS
<1> USE DEF GeneratorInv
<1>1. ASSUME NEW l \in Label, Branch(l)
      PROVE  GeneratorInv'
    BY <1>1, BranchKeeps, LocalsStay DEF Branch, locals
<1>2. ASSUME NEW l \in Label, mark_label(l)
      PROVE  GeneratorInv'
    BY <1>2, MarkKeeps, LocalsStay DEF mark_label, locals
<1>3. ASSUME NEW n \in Sizes, Other(n)
      PROVE  GeneratorInv'
    BY <1>3, OtherKeeps, LocalsStay DEF Other, locals
<1>4. ASSUME NEW operand \in Operands, Load(operand)
      PROVE  GeneratorInv'
    BY <1>4, LoadKeeps, LocalsStay DEF Load, locals
<1>5. ASSUME NEW o \in Owner, NEW t \in Type, define_local(o, t)
      PROVE  GeneratorInv'
    <2>1. UNCHANGED code /\ loaded' = Nothing /\ held[o] = None
        BY <1>5 DEF define_local
    <2>2. CodeInv'
        BY <2>1, CodeStays
    <2>3. CASE m_freedLocals[t] # <<>>
        BY <1>5, <2>1, <2>2, <2>3, ReuseKeeps DEF define_local, code
    <2>4. CASE m_freedLocals[t] = <<>>
        BY <1>5, <2>1, <2>2, <2>4, NewKeeps DEF define_local, code
    <2> QED
        BY <2>3, <2>4
<1>6. ASSUME NEW o \in Owner, NEW t \in Type, define_local_no_cache(o, t)
      PROVE  GeneratorInv'
    BY <1>6, CodeStays, NewKeeps DEF define_local_no_cache, code
<1>7. ASSUME NEW o \in Owner, free_local(o)
      PROVE  GeneratorInv'
    BY <1>7, CodeStays, FreeKeeps DEF free_local
<1>8. CASE UNCHANGED vars
    <2>1. CodeInv' /\ LocalInv'
        BY <1>8, CodeStays, LocalsStay DEF vars, code
    <2> QED
        BY <1>8, <2>1 DEF vars, TypeOK
<1> QED
    BY <1>1, <1>2, <1>3, <1>4, <1>5, <1>6, <1>7, <1>8 DEF Next

\* The state of the generator has its types, and the lists of freed locals and the
\* branches that wait are as the emitters left them (ILGenerator).
THEOREM GeneratorIsSound == Spec => []GeneratorInv
<1>1. Init => GeneratorInv
    BY StartsEmpty
<1>2. GeneratorInv /\ [Next]_vars => GeneratorInv'
    BY StepKeeps
<1> QED
    BY <1>1, <1>2, PTL DEF Spec

\* For every size of code in between, every branch goes to its label, whether it was
\* emitted before or behind it, in a byte or rewritten; and what is loaded is what was
\* asked for, pointers of 32 bits apart (branch, mark_label, ld_i4 to ld_loca).
THEOREM CodeIsRight == Spec => []CodeMeansWhatWasEmitted
<1>1. GeneratorInv => CodeMeansWhatWasEmitted
    BY DEF GeneratorInv, CodeInv, CodeMeansWhatWasEmitted
<1> QED
    BY <1>1, GeneratorIsSound, PTL

\* However locals are defined and freed, two that are held are different, and of the
\* types they were defined with (define_local, define_local_no_cache, free_local).
THEOREM LocalsAreNotShared == Spec => []LocalsAreDistinct
<1>1. GeneratorInv => LocalsAreDistinct
    BY DEF GeneratorInv, LocalInv
<1> QED
    BY <1>1, GeneratorIsSound, PTL
=============================================================================

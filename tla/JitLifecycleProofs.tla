------------------------- MODULE JitLifecycleProofs -------------------------
(***************************************************************************)
(* Theorems about JitLifecycle, for every set of code objects, threads and *)
(* argument classes and every limit.                                       *)
(***************************************************************************)
EXTENDS JitLifecycle, TLAPS

-----------------------------------------------------------------------------
(* Facts about the data *)

\* The kind a value is given represents it (GetAbstractType), at either level.
LEMMA KindRepresents ==
    ASSUME NEW v \in ValueClass, NEW b \in BOOLEAN
    PROVE  /\ GetAbstractType(b, v) \in Kind
           /\ v \in Represents(GetAbstractType(b, v))
  BY DEF ValueClass, GetAbstractType, Represents, Kind

\* A NULL argument may be given to code of every kind.
LEMMA NullRepresented ==
    ASSUME NEW k \in Kind
    PROVE  "null" \in Represents(k)
  BY DEF Kind, Represents, ValueClass

LEMMA NextStatusType ==
    ASSUME NEW s \in PgcStatus
    PROVE  nextPgcStatus(s) \in PgcStatus \ {"Uncompiled"}
  BY DEF PgcStatus, nextPgcStatus

LEMMA BumpType ==
    ASSUME NEW n \in 0..RunCountCap
    PROVE  /\ Bump(n) \in 0..RunCountCap
           /\ Bump(n) >= n
           /\ \A m \in 0..MaxThreshold : n >= m => Bump(n) > m
  BY LifecycleAssumption DEF RunCountCap, Bump

\* No compilation is NoCode.
LEMMA BodyIsCode == NoCode \notin Body
  BY DEF Body, NoCode, PgcStatus

LEMMA NewJittedCode ==
    ASSUME NEW n \in 0..MaxThreshold
    PROVE  /\ PyjionJittedCode(n) \in JittedCode
           /\ NotMade \in JittedCode
  <1>1. 0 \in 0..RunCountCap /\ 0 \in 0..MaxThreshold
    BY LifecycleAssumption DEF RunCountCap
  <1>2. PyjionJittedCode(n) \in JittedCode
    BY <1>1 DEF PyjionJittedCode, JittedCode, PgcStatus
  <1>3. NotMade \in JittedCode
    BY <1>1 DEF PyjionJittedCode, NotMade, JittedCode, PgcStatus
  <1>4. QED
    BY <1>2, <1>3

-----------------------------------------------------------------------------
(* Type correctness *)

LEMMA EnsuredType ==
    ASSUME TypeOK, NEW t \in Thread, NEW c \in Code
    PROVE  Ensured(t, c) \in JittedCode
  BY NewJittedCode DEF TypeOK, Ensured, Settings

\* What EnsureExtra keeps, and a frame that is entered, have their types.
LEMMA KeepType ==
    ASSUME TypeOK, NEW t \in Thread, NEW c \in Code, NEW j \in JittedCode,
           Keep(t, c, j)
    PROVE  slots' \subseteq Thread /\ jitted' \in [Thread -> [Code -> JittedCode]]
  BY DEF TypeOK, Keep, With

LEMMA EnterType ==
    ASSUME TypeOK, NEW t \in Thread, NEW f \in Frame, Enter(t, f)
    PROVE  frames' \in [Thread -> Seq(Frame)]
  BY DEF TypeOK, Enter

\* The objects and frames the dispatcher builds have their types.
LEMMA DispatchTypes ==
    ASSUME TypeOK, NEW t \in Thread, NEW c \in Code, NEW v \in Value,
           NEW j \in JittedCode, NEW k \in Kind
    PROVE  /\ [j EXCEPT !.runCount = Bump(@)] \in JittedCode
           /\ LET b == [pass |-> j.pgcStatus, kind |-> k]
              IN  /\ b \in Body
                  /\ Left(t, [j EXCEPT !.runCount = Bump(@), !.addr = b,
                              !.genericAddr = b, !.specializedKind = k]) \in JittedCode
           /\ Left(t, [j EXCEPT !.runCount = Bump(@), !.failed = TRUE,
                       !.addr = NoCode]) \in JittedCode
           /\ \A d \in BOOLEAN : DefaultFrame(c, v, d) \in Frame
  <1>1. /\ Bump(j.runCount) \in 0..RunCountCap
        /\ j.pgcStatus \in PgcStatus
        /\ nextPgcStatus(j.pgcStatus) \in PgcStatus
    BY BumpType, NextStatusType DEF JittedCode
  <1>2. v \in ValueClass
    BY LifecycleAssumption
  <1>3. QED
    BY <1>1, <1>2 DEF JittedCode, Left, DefaultFrame, Frame, Body

\* The type invariant holds of every behaviour.
THEOREM TypeCorrect == Spec => []TypeOK
  <1>1. Init => TypeOK
    BY LifecycleAssumption, NewJittedCode DEF Init, TypeOK, Settings
  <1>2. TypeOK /\ [Next]_vars => TypeOK'
    <2> SUFFICES ASSUME TypeOK, [Next]_vars PROVE TypeOK'
      OBVIOUS
    <2> settings.optimistic \in BOOLEAN
      BY DEF TypeOK, Settings
    <2>1. CASE pyjion_enable
      BY <2>1 DEF pyjion_enable, TypeOK
    <2>2. CASE pyjion_disable
      BY <2>2 DEF pyjion_disable, TypeOK
    <2>3. CASE \E s \in Settings : pyjion_config(s)
      BY <2>3 DEF pyjion_config, TypeOK
    <2>4. ASSUME NEW t \in Thread, NEW c \in Code, pyjion_info(t, c)
          PROVE  TypeOK'
      BY <2>4, EnsuredType, KeepType DEF pyjion_info, TypeOK
    <2>5. ASSUME NEW t \in Thread, NEW c \in Code, NEW v \in Value,
                 PyJit_EvalFrame(t, c, v)
          PROVE  TypeOK'
      <3> DEFINE j == Ensured(t, c)
                 k == GetAbstractType(settings.optimistic, v)
      <3>1. j \in JittedCode /\ k \in Kind /\ v \in ValueClass
        BY EnsuredType, KindRepresents, LifecycleAssumption
      <3>2. CASE RunCompiled(t, c, v)
        <4>1. /\ j.addr \in Body \cup {NoCode}
              /\ j.genericAddr \in Body \cup {NoCode}
          BY <3>1 DEF JittedCode
        <4>2. slots' \subseteq Thread /\ jitted' \in [Thread -> [Code -> JittedCode]]
          BY <3>1, <3>2, DispatchTypes, KeepType DEF RunCompiled
        <4>3. frames' \in [Thread -> Seq(Frame)]
          BY <3>1, <3>2, <4>1, EnterType DEF RunCompiled, Frame
        <4>4. QED
          BY <3>2, <4>2, <4>3 DEF RunCompiled, TypeOK
      <3>3. CASE CompileAndRun(t, c, v)
        <4> DEFINE b == [pass |-> j.pgcStatus, kind |-> k]
        <4>1. b \in Body
          BY <3>1, DispatchTypes
        <4>2. slots' \subseteq Thread /\ jitted' \in [Thread -> [Code -> JittedCode]]
          BY <3>1, <3>3, DispatchTypes, KeepType DEF CompileAndRun
        <4>3. frames' \in [Thread -> Seq(Frame)]
          BY <3>1, <3>3, <4>1, EnterType DEF CompileAndRun, Frame
        <4>4. QED
          BY <3>3, <4>2, <4>3 DEF CompileAndRun, TypeOK
      <3>4. CASE CompileFails(t, c, v)
        <4>1. slots' \subseteq Thread /\ jitted' \in [Thread -> [Code -> JittedCode]]
          BY <3>1, <3>4, DispatchTypes, KeepType DEF CompileFails
        <4>2. frames' \in [Thread -> Seq(Frame)]
          BY <3>1, <3>4, DispatchTypes, EnterType DEF CompileFails
        <4>3. QED
          BY <3>4, <4>1, <4>2 DEF CompileFails, TypeOK
      <3>5. CASE RunDefault(t, c, v)
        <4>1. slots' \subseteq Thread /\ jitted' \in [Thread -> [Code -> JittedCode]]
          BY <3>1, <3>5, DispatchTypes, KeepType DEF RunDefault
        <4>2. frames' \in [Thread -> Seq(Frame)]
          BY <3>1, <3>5, DispatchTypes, EnterType DEF RunDefault
        <4>3. QED
          BY <3>5, <4>1, <4>2 DEF RunDefault, TypeOK
      <3>6. CASE RunThrow(t, c, v)
        <4>1. slots' \subseteq Thread /\ jitted' \in [Thread -> [Code -> JittedCode]]
          BY <3>1, <3>6, KeepType DEF RunThrow
        <4>2. frames' \in [Thread -> Seq(Frame)]
          BY <3>1, <3>6, DispatchTypes, EnterType DEF RunThrow
        <4>3. QED
          BY <3>6, <4>1, <4>2 DEF RunThrow, TypeOK
      <3>7. CASE RunBare(t, c, v)
        <4>1. frames' \in [Thread -> Seq(Frame)]
          BY <3>1, <3>7, DispatchTypes, EnterType DEF RunBare
        <4>2. QED
          BY <3>7, <4>1 DEF RunBare, TypeOK
      <3>8. QED
        BY <2>5, <3>2, <3>3, <3>4, <3>5, <3>6, <3>7 DEF PyJit_EvalFrame, Counted
    <2>6. ASSUME NEW t \in Thread, Return(t)
          PROVE  TypeOK'
      <3>1. Innermost(t) \in Frame
        BY <2>6 DEF TypeOK, Return, Innermost
      <3>2. frames' \in [Thread -> Seq(Frame)]
        BY <2>6 DEF TypeOK, Return
      <3>3. jitted' \in [Thread -> [Code -> JittedCode]]
        <4> DEFINE c == Innermost(t).code
        <4>1. c \in Code
          BY <3>1 DEF Frame
        <4>2. jitted[t][c] \in JittedCode
          BY <4>1 DEF TypeOK
        <4>3. [jitted[t][c] EXCEPT !.pgcStatus = nextPgcStatus(jitted[t][c].pgcStatus)] \in JittedCode
          BY <4>2, NextStatusType DEF JittedCode
        <4>4. QED
          BY <2>6, <4>1, <4>3 DEF Return, TypeOK, With
      <3>4. QED
        BY <2>6, <3>2, <3>3 DEF Return, TypeOK
    <2>7. CASE UNCHANGED vars
      BY <2>7 DEF vars, TypeOK
    <2>8. QED
      BY <2>1, <2>2, <2>3, <2>4, <2>5, <2>6, <2>7 DEF Next
  <1>3. QED
    BY <1>1, <1>2, PTL DEF Spec

-----------------------------------------------------------------------------
(* The inductive invariant *)

\* What holds of a PyjionJittedCode between two steps: failing drops the code;
\* installed code was made late enough and for the kinds that are compared; a
\* status beyond Uncompiled is a status of installed code.
ObjectInv(j) ==
    /\ j.failed => j.addr = NoCode
    /\ j.addr # NoCode => /\ j.made /\ j.runCount > j.threshold
                          /\ j.addr.kind = j.specializedKind
                          /\ j.genericAddr # NoCode
    /\ j.pgcStatus # "Uncompiled" /\ ~j.failed => j.addr # NoCode
    /\ ~j.made => j.addr = NoCode /\ ~j.failed

Compiled(j) == j.addr # NoCode \/ j.failed

\* What holds of a frame: the conclusion of SpecializedEntry.
FrameInv(f) ==
    f.mode = "specialized" => f.body # NoCode /\ f.arg \in Represents(f.body.kind)

\* A frame that owes its code object a status belongs to one that compiled, and
\* an Uncompiled object that compiled is owed one.
FlightInv(t, c) ==
    /\ InFlight(t, c) => Compiled(jitted[t][c])
    /\ jitted[t][c].pgcStatus = "Uncompiled" /\ Compiled(jitted[t][c])
          => InFlight(t, c)

IInv ==
    /\ TypeOK
    /\ \A t \in Thread, c \in Code : ObjectInv(jitted[t][c])
    /\ \A t \in Thread, c \in Code : FlightInv(t, c)
    /\ \A t \in Thread : \A i \in 1..Len(frames[t]) : FrameInv(frames[t][i])

LEMMA InitInv == Init => IInv
  <1> SUFFICES ASSUME Init PROVE IInv
    OBVIOUS
  <1>1. TypeOK
    BY LifecycleAssumption, NewJittedCode DEF Init, TypeOK, Settings
  <1>2. ASSUME NEW t \in Thread, NEW c \in Code
        PROVE  ObjectInv(jitted[t][c]) /\ FlightInv(t, c)
    BY DEF Init, NotMade, PyjionJittedCode, ObjectInv, FlightInv, InFlight, Compiled
  <1>3. \A t \in Thread : Len(frames[t]) = 0
    BY DEF Init
  <1>4. QED
    BY <1>1, <1>2, <1>3 DEF IInv

\* EnsureExtra answers the object there is, or a fresh one.
LEMMA EnsuredInv ==
    ASSUME IInv, NEW t \in Thread, NEW c \in Code
    PROVE  LET j == Ensured(t, c)
           IN  /\ ObjectInv(j) /\ j.made
               /\ j.failed = jitted[t][c].failed
               /\ j.addr = jitted[t][c].addr
               /\ Compiled(j) <=> Compiled(jitted[t][c])
               /\ j.pgcStatus = jitted[t][c].pgcStatus
  <1> DEFINE o == jitted[t][c]
  <1>1. ObjectInv(o) /\ o \in JittedCode
    BY DEF IInv, TypeOK
  <1>2. CASE o.made
    BY <1>1, <1>2 DEF Ensured, ObjectInv, Compiled
  <1>3. CASE ~o.made
    <2>1. /\ o.addr = NoCode /\ o.failed = FALSE
          /\ o.pgcStatus = "Uncompiled"
      BY <1>1, <1>3 DEF ObjectInv, JittedCode
    <2>2. Ensured(t, c) = PyjionJittedCode(settings.threshold)
      BY <1>3 DEF Ensured
    <2> DEFINE e == PyjionJittedCode(settings.threshold)
    <2>3. /\ e.made = TRUE /\ e.failed = FALSE /\ e.addr = NoCode
          /\ e.pgcStatus = "Uncompiled"
      BY DEF PyjionJittedCode
    <2> HIDE DEF e
    <2>4. ObjectInv(e)
      BY <2>3 DEF ObjectInv
    <2>5. QED
      BY <2>1, <2>2, <2>3, <2>4 DEF Compiled, e
  <1>4. QED
    BY <1>2, <1>3

\* What an evaluation does to the invariant: it suffices to look at the object
\* it keeps and the frame it enters.
LEMMA EvaluationInv ==
    ASSUME IInv, TypeOK', NEW t \in Thread, NEW c \in Code,
           NEW j \in JittedCode, NEW f \in Frame,
           jitted' = With(t, c, j), Enter(t, f), f.code = c,
           ObjectInv(j), FrameInv(f),
           Compiled(jitted[t][c]) => Compiled(j),
           f.compiling => Compiled(j),
           j.pgcStatus = "Uncompiled" /\ Compiled(j)
               => InFlight(t, c) \/ (HasRoom(t) /\ f.compiling)
    PROVE  IInv'
  <1>1. \A u \in Thread, d \in Code :
           jitted'[u][d] = IF u = t /\ d = c THEN j ELSE jitted[u][d]
    BY DEF IInv, TypeOK, With
  <1>2. \A u \in Thread : u # t => frames'[u] = frames[u]
    BY DEF IInv, TypeOK, Enter
  <1>3. CASE ~HasRoom(t)
    <2>1. frames' = frames
      BY <1>3 DEF Enter
    <2>2. \A u \in Thread, d \in Code : InFlight(u, d)' <=> InFlight(u, d)
      BY <2>1 DEF InFlight
    <2>3. QED
      BY <1>1, <1>3, <2>1, <2>2 DEF IInv, FlightInv
  <1>4. CASE HasRoom(t)
    <2> DEFINE n == Len(frames[t])
    <2>1. frames[t] \in Seq(Frame) /\ frames'[t] = Append(frames[t], f)
      BY <1>4 DEF IInv, TypeOK, Enter
    <2>2. /\ Len(frames'[t]) = n + 1 /\ n \in Nat
          /\ frames'[t][n + 1] = f
          /\ \A i \in 1..n : frames'[t][i] = frames[t][i]
      BY <2>1
    <2>3. \A u \in Thread : \A i \in 1..Len(frames'[u]) : FrameInv(frames'[u][i])
      <3> SUFFICES ASSUME NEW u \in Thread, NEW i \in 1..Len(frames'[u])
                   PROVE  FrameInv(frames'[u][i])
        OBVIOUS
      <3>1. CASE u # t
        BY <3>1, <1>2 DEF IInv
      <3>2. CASE u = t /\ i = n + 1
        BY <3>2, <2>2
      <3>3. CASE u = t /\ i # n + 1
        BY <3>3, <2>2 DEF IInv
      <3>4. QED
        BY <3>1, <3>2, <3>3
    <2>4. \A d \in Code :
             InFlight(t, d)' <=> InFlight(t, d) \/ (d = c /\ f.compiling)
      <3> SUFFICES ASSUME NEW d \in Code
                   PROVE  InFlight(t, d)' <=> InFlight(t, d) \/ (d = c /\ f.compiling)
        OBVIOUS
      <3>1. InFlight(t, d)' => InFlight(t, d) \/ (d = c /\ f.compiling)
        <4> SUFFICES ASSUME NEW i \in 1..(n + 1),
                            frames'[t][i].code = d, frames'[t][i].compiling
                     PROVE  InFlight(t, d) \/ (d = c /\ f.compiling)
          BY <2>2 DEF InFlight
        <4>1. CASE i = n + 1
          BY <4>1, <2>2
        <4>2. CASE i \in 1..n
          BY <4>2, <2>2 DEF InFlight
        <4>3. QED
          BY <4>1, <4>2, <2>2
      <3>2. InFlight(t, d) => InFlight(t, d)'
        <4> SUFFICES ASSUME NEW i \in 1..n,
                            frames[t][i].code = d, frames[t][i].compiling
                     PROVE  InFlight(t, d)'
          BY DEF InFlight
        <4>1. i \in 1..Len(frames'[t])
          BY <2>2
        <4>2. QED
          BY <4>1, <2>2 DEF InFlight
      <3>3. d = c /\ f.compiling => InFlight(t, d)'
        <4>1. n + 1 \in 1..Len(frames'[t])
          BY <2>2
        <4>2. QED
          BY <4>1, <2>2 DEF InFlight
      <3>4. QED
        BY <3>1, <3>2, <3>3
    <2>5. \A u \in Thread, d \in Code : u # t => (InFlight(u, d)' <=> InFlight(u, d))
      BY <1>2 DEF InFlight
    <2>6. ASSUME NEW u \in Thread, NEW d \in Code
          PROVE  FlightInv(u, d)'
      <3>1. FlightInv(u, d)
        BY DEF IInv
      <3>2. CASE u # t
        BY <3>1, <3>2, <1>1, <2>5 DEF FlightInv
      <3>3. CASE u = t /\ d # c
        BY <3>1, <3>3, <1>1, <2>4 DEF FlightInv
      <3>4. CASE u = t /\ d = c
        BY <3>1, <3>4, <1>1, <1>4, <2>4 DEF FlightInv
      <3>5. QED
        BY <3>2, <3>3, <3>4
    <2>7. QED
      BY <1>1, <2>3, <2>6 DEF IInv
  <1>5. QED
    BY <1>3, <1>4

\* What a step of Next other than a return does to the compilation state.
LEMMA EvalFrameInv ==
    ASSUME IInv, TypeOK', NEW t \in Thread, NEW c \in Code, NEW v \in Value,
           PyJit_EvalFrame(t, c, v)
    PROVE  IInv'
  <1> DEFINE j == Ensured(t, c)
             k == GetAbstractType(settings.optimistic, v)
  <1>1. /\ TypeOK /\ j \in JittedCode /\ k \in Kind /\ v \in ValueClass
        /\ v \in Represents(k)
    <2>1. settings.optimistic \in BOOLEAN
      BY DEF IInv, TypeOK, Settings
    <2>2. QED
      BY <2>1, EnsuredType, KindRepresents, LifecycleAssumption DEF IInv
  <1>2. /\ ObjectInv(j) /\ j.made
        /\ Compiled(j) <=> Compiled(jitted[t][c])
        /\ j.pgcStatus = jitted[t][c].pgcStatus
    BY EnsuredInv
  <1>3. \A d \in BOOLEAN : /\ DefaultFrame(c, v, d) \in Frame
                           /\ DefaultFrame(c, v, d).code = c
                           /\ DefaultFrame(c, v, d).compiling = d
                           /\ FrameInv(DefaultFrame(c, v, d))
    BY <1>1, DispatchTypes DEF DefaultFrame, FrameInv
  <1>4. /\ j.runCount \in 0..RunCountCap /\ j.threshold \in 0..MaxThreshold
        /\ Bump(j.runCount) \in 0..RunCountCap
        /\ j.runCount > j.threshold => Bump(j.runCount) > j.threshold
        /\ j.runCount >= j.threshold => Bump(j.runCount) > j.threshold
    BY <1>1, BumpType, LifecycleAssumption DEF JittedCode, RunCountCap
  <1>5. jitted[t][c].pgcStatus = "Uncompiled" /\ Compiled(jitted[t][c])
           => InFlight(t, c)
    BY DEF IInv, FlightInv
  <1> HIDE DEF j, k
  <1>6. CASE RunCompiled(t, c, v)
    <2> DEFINE n == [j EXCEPT !.runCount = Bump(@)]
               sf == [code |-> c, mode |-> "specialized", arg |-> v,
                      body |-> j.addr, compiling |-> FALSE]
               gf == [code |-> c, mode |-> "generic", arg |-> v,
                      body |-> j.genericAddr, compiling |-> FALSE]
    <2>1. /\ jitted' = With(t, c, n) /\ Ready(j)
          /\ (KindMatches(j, v) /\ Enter(t, sf)) \/ Enter(t, gf)
      BY <1>6 DEF RunCompiled, Keep, j
    <2>2. n \in JittedCode /\ sf \in Frame /\ gf \in Frame
      BY <1>1, <1>4 DEF JittedCode, Frame
    <2>3. ObjectInv(n) /\ (Compiled(n) <=> Compiled(j)) /\ n.pgcStatus = j.pgcStatus
      BY <1>1, <1>2, <1>4 DEF ObjectInv, Compiled, JittedCode
    <2>4. FrameInv(gf)
      BY DEF FrameInv
    <2>5. KindMatches(j, v) => FrameInv(sf)
      <3> SUFFICES ASSUME KindMatches(j, v)
                   PROVE  j.addr # NoCode /\ v \in Represents(j.addr.kind)
        BY DEF FrameInv
      <3>1. j.addr # NoCode /\ j.addr.kind \in Kind /\ j.addr.kind = j.specializedKind
        BY <1>1, <1>2, <2>1 DEF Ready, ObjectInv, JittedCode, Body
      <3>2. CASE v = "null"
        BY <3>1, <3>2, NullRepresented
      <3>3. CASE v # "null"
        BY <1>1, <3>1, <3>3 DEF KindMatches, k
      <3>4. QED
        BY <3>1, <3>2, <3>3
    <2> HIDE DEF n
    <2>6. CASE KindMatches(j, v) /\ Enter(t, sf)
      <3>1. FrameInv(sf) /\ sf.code = c /\ sf.compiling = FALSE
        BY <2>5, <2>6
      <3> HIDE DEF sf
      <3>2. QED
        BY <1>2, <1>5, <2>1, <2>2, <2>3, <2>6, <3>1, EvaluationInv
    <2>7. CASE Enter(t, gf)
      <3>1. FrameInv(gf) /\ gf.code = c /\ gf.compiling = FALSE
        BY <2>4
      <3> HIDE DEF gf
      <3>2. QED
        BY <1>2, <1>5, <2>1, <2>2, <2>3, <2>7, <3>1, EvaluationInv
    <2>8. QED
      BY <2>1, <2>6, <2>7
  <1>7. CASE CompileAndRun(t, c, v)
    <2> DEFINE b == [pass |-> j.pgcStatus, kind |-> k]
               m == [j EXCEPT !.runCount = Bump(@), !.addr = b,
                              !.genericAddr = b, !.specializedKind = k]
               n == Left(t, m)
               f == [code |-> c, mode |-> "specialized", arg |-> v, body |-> b,
                     compiling |-> TRUE]
    <2>1. jitted' = With(t, c, n) /\ Enter(t, f) /\ Due(j)
      BY <1>7 DEF CompileAndRun, Keep, j, k
    <2>2. /\ b \in Body /\ n \in JittedCode /\ f \in Frame
          /\ b # NoCode /\ b.kind = k
      <3>1. b \in Body /\ n \in JittedCode
        BY <1>1, DispatchTypes
      <3>2. QED
        BY <1>1, <3>1, BodyIsCode DEF Frame
    <2> HIDE DEF b
    <2>3. /\ m.failed = FALSE /\ m.addr = b /\ m.made = j.made
          /\ m.runCount = Bump(j.runCount) /\ m.threshold = j.threshold
          /\ m.specializedKind = k /\ m.pgcStatus = j.pgcStatus /\ m.genericAddr = b
      BY <1>1, <2>1 DEF JittedCode, Due
    <2>4. /\ n.failed = FALSE /\ n.addr = b /\ n.made = j.made
          /\ n.runCount = Bump(j.runCount) /\ n.threshold = j.threshold
          /\ n.specializedKind = k /\ n.genericAddr = b
          /\ n.pgcStatus = IF HasRoom(t) THEN j.pgcStatus ELSE nextPgcStatus(j.pgcStatus)
      <3>1. m \in JittedCode
        BY <1>1, <1>4, <2>2 DEF JittedCode
      <3> HIDE DEF m
      <3>2. QED
        BY <2>3, <3>1 DEF Left, JittedCode
    <2>5. ObjectInv(n) /\ Compiled(n)
      BY <1>2, <1>4, <2>1, <2>2, <2>4 DEF ObjectInv, Compiled, Due
    <2>6. ~HasRoom(t) => n.pgcStatus # "Uncompiled"
      BY <1>1, <2>4, NextStatusType DEF JittedCode
    <2>7. FrameInv(f) /\ f.code = c /\ f.compiling = TRUE
      BY <1>1, <2>2 DEF FrameInv
    <2> HIDE DEF n, f
    <2>8. QED
      BY <1>2, <2>1, <2>2, <2>5, <2>6, <2>7, EvaluationInv
  <1>8. CASE CompileFails(t, c, v)
    <2> DEFINE m == [j EXCEPT !.runCount = Bump(@), !.failed = TRUE, !.addr = NoCode]
               n == Left(t, m)
    <2>1. jitted' = With(t, c, n) /\ Enter(t, DefaultFrame(c, v, TRUE))
      BY <1>8 DEF CompileFails, Keep, j
    <2>2. n \in JittedCode
      BY <1>1, DispatchTypes
    <2>3. m.failed = TRUE /\ m.addr = NoCode /\ m.made = j.made
      BY <1>1 DEF JittedCode
    <2>4. /\ n.failed = TRUE /\ n.addr = NoCode /\ n.made = j.made
          /\ ~HasRoom(t) => n.pgcStatus # "Uncompiled"
      <3>1. m \in JittedCode
        BY <1>1, <1>4 DEF JittedCode
      <3> HIDE DEF m
      <3>2. nextPgcStatus(m.pgcStatus) # "Uncompiled"
        BY <3>1, NextStatusType DEF JittedCode
      <3>3. QED
        BY <2>3, <3>1, <3>2 DEF Left, JittedCode
    <2>5. ObjectInv(n) /\ Compiled(n)
      BY <1>2, <2>4 DEF ObjectInv, Compiled
    <2> HIDE DEF n
    <2>6. QED
      BY <1>2, <1>3, <2>1, <2>2, <2>4, <2>5, EvaluationInv
  <1>9. CASE RunDefault(t, c, v)
    <2> DEFINE n == IF j.failed THEN j ELSE [j EXCEPT !.runCount = Bump(@)]
    <2>1. jitted' = With(t, c, n) /\ Enter(t, DefaultFrame(c, v, FALSE))
      BY <1>9 DEF RunDefault, Keep, j
    <2>2. n \in JittedCode
      BY <1>1, <1>4 DEF JittedCode
    <2>3. ObjectInv(n) /\ (Compiled(n) <=> Compiled(j)) /\ n.pgcStatus = j.pgcStatus
      BY <1>1, <1>2, <1>4 DEF ObjectInv, Compiled, JittedCode
    <2> HIDE DEF n
    <2>4. QED
      BY <1>2, <1>3, <1>5, <2>1, <2>2, <2>3, EvaluationInv
  <1>10. CASE RunThrow(t, c, v)
    <2>1. jitted' = With(t, c, j) /\ Enter(t, DefaultFrame(c, v, FALSE))
      BY <1>10 DEF RunThrow, Keep, j
    <2>2. QED
      BY <1>1, <1>2, <1>3, <1>5, <2>1, EvaluationInv
  <1>11. CASE RunBare(t, c, v)
    <2>1. Enter(t, DefaultFrame(c, v, FALSE)) /\ jitted' = jitted
      BY <1>11 DEF RunBare
    <2>2. jitted[t][c] \in JittedCode /\ jitted = With(t, c, jitted[t][c])
      BY <1>1 DEF TypeOK, With
    <2>3. ObjectInv(jitted[t][c])
      BY DEF IInv
    <2>4. QED
      BY <1>3, <1>5, <2>1, <2>2, <2>3, EvaluationInv
  <1>12. QED
    BY <1>6, <1>7, <1>8, <1>9, <1>10, <1>11 DEF PyJit_EvalFrame, Counted

\* Leaving a frame pays the status it owes, and takes only that frame away.
LEMMA ReturnInv ==
    ASSUME IInv, TypeOK', NEW t \in Thread, Return(t)
    PROVE  IInv'
  <1> DEFINE n == Len(frames[t])
             c == Innermost(t).code
             j == jitted[t][c]
             o == [j EXCEPT !.pgcStatus = nextPgcStatus(j.pgcStatus)]
  <1>1. /\ frames[t] \in Seq(Frame) /\ n \in Nat /\ n > 0
        /\ Innermost(t) = frames[t][n] /\ Innermost(t) \in Frame
        /\ frames'[t] = SubSeq(frames[t], 1, n - 1)
        /\ \A u \in Thread : u # t => frames'[u] = frames[u]
    BY DEF IInv, TypeOK, Return, Innermost
  <1>2. /\ Len(frames'[t]) = n - 1
        /\ \A i \in 1..(n - 1) : frames'[t][i] = frames[t][i]
    BY <1>1
  <1>3. /\ c \in Code /\ j \in JittedCode /\ ObjectInv(j) /\ FlightInv(t, c)
    BY <1>1 DEF Frame, IInv, TypeOK
  <1>4. Innermost(t).compiling => InFlight(t, c)
    BY <1>1 DEF InFlight
  <1>5. /\ o.made = j.made /\ o.failed = j.failed /\ o.addr = j.addr
        /\ o.runCount = j.runCount /\ o.threshold = j.threshold
        /\ o.specializedKind = j.specializedKind /\ o.genericAddr = j.genericAddr
        /\ o.pgcStatus # "Uncompiled"
    BY <1>3, NextStatusType DEF JittedCode
  <1>6. \A u \in Thread, d \in Code :
           jitted'[u][d] = IF u = t /\ d = c /\ Innermost(t).compiling
                           THEN o ELSE jitted[u][d]
    BY <1>3 DEF IInv, TypeOK, Return, With
  <1>7. Compiled(j) => Compiled(o)
    BY <1>5 DEF Compiled
  <1>8. Innermost(t).compiling => ObjectInv(o)
    BY <1>3, <1>4, <1>5 DEF ObjectInv, FlightInv, Compiled
  <1> HIDE DEF o
  <1>9. \A u \in Thread, d \in Code : InFlight(u, d)' => InFlight(u, d)
    <2> SUFFICES ASSUME NEW u \in Thread, NEW d \in Code, InFlight(u, d)'
                 PROVE  InFlight(u, d)
      OBVIOUS
    <2>1. CASE u # t
      BY <1>1, <2>1 DEF InFlight
    <2>2. CASE u = t
      <3>1. PICK i \in 1..(n - 1) : frames'[t][i].code = d /\ frames'[t][i].compiling
        BY <1>2, <2>2 DEF InFlight
      <3>2. i \in 1..n /\ frames[t][i].code = d /\ frames[t][i].compiling
        BY <1>1, <1>2, <3>1
      <3>3. QED
        BY <2>2, <3>2 DEF InFlight
    <2>3. QED
      BY <2>1, <2>2
  <1>10. ASSUME NEW u \in Thread, NEW d \in Code,
                ~(u = t /\ d = c /\ Innermost(t).compiling), InFlight(u, d)
         PROVE  InFlight(u, d)'
    <2>1. CASE u # t
      BY <1>1, <1>10, <2>1 DEF InFlight
    <2>2. CASE u = t
      <3>1. PICK i \in 1..n : frames[t][i].code = d /\ frames[t][i].compiling
        BY <1>10, <2>2 DEF InFlight
      <3>2. i # n
        BY <1>1, <1>10, <2>2, <3>1
      <3>3. i \in 1..(n - 1)
        BY <1>1, <3>1, <3>2
      <3>4. i \in 1..Len(frames'[t]) /\ frames'[t][i].code = d /\ frames'[t][i].compiling
        BY <1>2, <3>1, <3>3
      <3>5. QED
        BY <2>2, <3>4 DEF InFlight
    <2>3. QED
      BY <2>1, <2>2
  <1>11. ASSUME NEW u \in Thread, NEW d \in Code
         PROVE  ObjectInv(jitted'[u][d]) /\ FlightInv(u, d)'
    <2>1. ObjectInv(jitted[u][d]) /\ FlightInv(u, d)
      BY DEF IInv
    <2>2. CASE u = t /\ d = c /\ Innermost(t).compiling
      BY <1>3, <1>4, <1>5, <1>6, <1>7, <1>8, <2>2 DEF FlightInv
    <2>3. CASE ~(u = t /\ d = c /\ Innermost(t).compiling)
      BY <1>6, <1>9, <1>10, <2>1, <2>3 DEF FlightInv
    <2>4. QED
      BY <2>2, <2>3
  <1>12. ASSUME NEW u \in Thread, NEW i \in 1..Len(frames'[u])
         PROVE  FrameInv(frames'[u][i])
    <2>1. CASE u # t
      BY <1>1, <2>1 DEF IInv
    <2>2. CASE u = t
      <3>1. i \in 1..n /\ frames'[t][i] = frames[t][i]
        BY <1>1, <1>2, <2>2
      <3>2. QED
        BY <2>2, <3>1 DEF IInv
    <2>3. QED
      BY <2>1, <2>2
  <1>13. QED
    BY <1>11, <1>12 DEF IInv

\* The inductive invariant holds of every behaviour.
THEOREM Inductive == Spec => []IInv
  <1>1. IInv /\ TypeOK' /\ [Next]_vars => IInv'
    <2> SUFFICES ASSUME IInv, TypeOK', [Next]_vars PROVE IInv'
      OBVIOUS
    <2>1. ASSUME jitted' = jitted, frames' = frames
          PROVE  IInv'
      BY <2>1 DEF IInv, ObjectInv, FlightInv, FrameInv, InFlight, Compiled
    <2>2. CASE pyjion_enable
      BY <2>1, <2>2 DEF pyjion_enable
    <2>3. CASE pyjion_disable
      BY <2>1, <2>3 DEF pyjion_disable
    <2>4. CASE \E s \in Settings : pyjion_config(s)
      BY <2>1, <2>4 DEF pyjion_config
    <2>5. ASSUME NEW t \in Thread, NEW c \in Code, pyjion_info(t, c)
          PROVE  IInv'
      <3>1. CASE Keep(t, c, Ensured(t, c))
        <4> DEFINE j == Ensured(t, c)
        <4>1. /\ ObjectInv(j)
              /\ Compiled(j) <=> Compiled(jitted[t][c])
              /\ j.pgcStatus = jitted[t][c].pgcStatus
          BY EnsuredInv
        <4>2. \A u \in Thread, d \in Code :
                 jitted'[u][d] = IF u = t /\ d = c THEN j ELSE jitted[u][d]
          BY <3>1 DEF IInv, TypeOK, Keep, With
        <4>3. frames' = frames /\ \A u \in Thread, d \in Code :
                 InFlight(u, d)' <=> InFlight(u, d)
          BY <2>5 DEF pyjion_info, InFlight
        <4> HIDE DEF j
        <4>4. ASSUME NEW u \in Thread, NEW d \in Code
              PROVE  ObjectInv(jitted'[u][d]) /\ FlightInv(u, d)'
          BY <4>1, <4>2, <4>3 DEF IInv, FlightInv
        <4>5. QED
          BY <4>3, <4>4 DEF IInv
      <3>2. CASE jitted' = jitted
        BY <2>1, <2>5, <3>2 DEF pyjion_info
      <3>3. QED
        BY <2>5, <3>1, <3>2 DEF pyjion_info
    <2>6. ASSUME NEW t \in Thread, NEW c \in Code, NEW v \in Value,
                 PyJit_EvalFrame(t, c, v)
          PROVE  IInv'
      BY <2>6, EvalFrameInv
    <2>7. ASSUME NEW t \in Thread, Return(t)
          PROVE  IInv'
      BY <2>7, ReturnInv
    <2>8. CASE UNCHANGED vars
      BY <2>1, <2>8 DEF vars
    <2>9. QED
      BY <2>2, <2>3, <2>4, <2>5, <2>6, <2>7, <2>8 DEF Next
  <1>2. QED
    BY <1>1, InitInv, TypeCorrect, PTL DEF Spec

-----------------------------------------------------------------------------
(* The properties *)

\* Specialised machine code is only entered with an argument its kind
\* represents.
THEOREM EntryIsSpecialized == Spec => []SpecializedEntry
  <1>1. IInv => SpecializedEntry
    BY DEF IInv, FrameInv, SpecializedEntry
  <1>2. QED
    BY <1>1, Inductive, PTL

\* No code object is left Uncompiled by a compilation or a failure unless the
\* evaluation that owes it the status is still under way.
THEOREM StatusIsOwed == Spec => []StatusOwed
  <1>1. IInv => StatusOwed
    BY DEF IInv, FlightInv, Compiled, StatusOwed
  <1>2. QED
    BY <1>1, Inductive, PTL

\* Nothing is compiled at or below the threshold its object was made with.
THEOREM ThresholdIsRespected == Spec => []ThresholdRespected
  <1>1. IInv => ThresholdRespected
    BY DEF IInv, ObjectInv, ThresholdRespected
  <1>2. QED
    BY <1>1, Inductive, PTL

\* A frame a step pushes was built by an evaluation; if it is a machine-code
\* frame, its code object had not failed.
LEMMA PushedByEvaluation ==
    ASSUME IInv, [Next]_vars, NEW u \in Thread, Pushes(u), Pushed(u).mode # "default"
    PROVE  ~jitted[u][Pushed(u).code].failed
  <1>1. Len(frames[u]) \in Nat
    BY DEF IInv, TypeOK
  <1>2. frames' # frames
    BY <1>1 DEF Pushes
  <1>3. ASSUME NEW t \in Thread, Return(t)
        PROVE  FALSE
    <2>1. frames[t] \in Seq(Frame) /\ Len(frames[t]) > 0
      BY <1>3 DEF IInv, TypeOK, Return
    <2>2. frames'[t] = SubSeq(frames[t], 1, Len(frames[t]) - 1)
      BY <1>3 DEF IInv, TypeOK, Return
    <2>3. u # t => frames'[u] = frames[u]
      BY <1>3 DEF IInv, TypeOK, Return
    <2>4. Len(frames'[t]) = Len(frames[t]) - 1
      BY <2>1, <2>2
    <2>5. QED
      BY <1>1, <2>3, <2>4 DEF Pushes
  <1>4. PICK t \in Thread, c \in Code, v \in Value : PyJit_EvalFrame(t, c, v)
    BY <1>2, <1>3 DEF Next, vars, pyjion_enable, pyjion_disable, pyjion_config, pyjion_info
  <1>5. ASSUME NEW f, Enter(t, f)
        PROVE  u = t /\ Pushed(u) = f
    <2>1. frames \in [Thread -> Seq(Frame)]
      BY DEF IInv, TypeOK
    <2>2. frames' = [frames EXCEPT ![t] = Append(frames[t], f)]
      BY <1>2, <1>5 DEF Enter
    <2>3. u = t
      BY <1>1, <2>1, <2>2 DEF Pushes
    <2>4. frames'[t] = Append(frames[t], f)
      BY <2>1, <2>2
    <2>5. QED
      BY <1>1, <2>1, <2>3, <2>4 DEF Pushed
  <1>6. Ensured(t, c).failed = jitted[t][c].failed
    BY EnsuredInv
  <1>7. \A d \in BOOLEAN : DefaultFrame(c, v, d).mode = "default"
    BY DEF DefaultFrame
  <1>8. CASE RunCompiled(t, c, v)
    BY <1>5, <1>6, <1>8 DEF RunCompiled, Ready
  <1>9. CASE CompileAndRun(t, c, v)
    BY <1>5, <1>6, <1>9 DEF CompileAndRun, Due
  <1>10. CASE CompileFails(t, c, v)
    BY <1>5, <1>7, <1>10 DEF CompileFails
  <1>11. CASE RunDefault(t, c, v) \/ RunThrow(t, c, v) \/ RunBare(t, c, v)
    BY <1>5, <1>7, <1>11 DEF RunDefault, RunThrow, RunBare
  <1>12. QED
    BY <1>4, <1>8, <1>9, <1>10, <1>11 DEF PyJit_EvalFrame, Counted

\* Machine code is never entered for a code object that has failed.
THEOREM FailedIsNeverEntered == Spec => FailedNeverEntered
  <1>1. IInv /\ [Next]_vars
           => [\A t \in Thread :
                 Pushes(t) /\ Pushed(t).mode # "default"
                    => ~jitted[t][Pushed(t).code].failed]_vars
    BY PushedByEvaluation
  <1>2. QED
    BY <1>1, Inductive, PTL DEF Spec, FailedNeverEntered

-----------------------------------------------------------------------------
(* Refinement *)

LEMMA TierOfType ==
    ASSUME NEW j \in JittedCode
    PROVE  /\ TierOf(j) \in Tiers!Tier
           /\ TierOf(j) \in Tiers!Climbing <=> ~j.failed /\ j.pgcStatus # "Optimized"
           /\ ~j.failed /\ j.pgcStatus # "Optimized"
                => TierOf([j EXCEPT !.pgcStatus = nextPgcStatus(j.pgcStatus)])
                      = Tiers!Above(TierOf(j))
           /\ j.failed \/ j.pgcStatus = "Optimized"
                => TierOf([j EXCEPT !.pgcStatus = nextPgcStatus(j.pgcStatus)]) = TierOf(j)
  BY DEF JittedCode, PgcStatus, TierOf, nextPgcStatus, Tiers!Tier, Tiers!Climbing,
         Tiers!Above

\* A step that changes one object changes one code object's tier and code.
LEMMA TierChange ==
    ASSUME IInv, NEW t \in Thread, NEW c \in Code, NEW j \in JittedCode,
           jitted' = With(t, c, j)
    PROVE  /\ tier' = Tiers!Set(tier, t, c, TierOf(j))
           /\ installed' = Tiers!Set(installed, t, c, j.addr)
  BY DEF IInv, TypeOK, With, tier, installed, Tiers!Set

LEMMA NoTierChange ==
    ASSUME IInv, NEW t \in Thread, NEW c \in Code, NEW j \in JittedCode,
           jitted' = With(t, c, j),
           TierOf(j) = TierOf(jitted[t][c]), j.addr = jitted[t][c].addr
    PROVE  UNCHANGED <<tier, installed>>
  BY TierChange DEF IInv, TypeOK, With, tier, installed, Tiers!Set

\* What an evaluation frame does to the tiers.
LEMMA EvalFrameTiers ==
    ASSUME IInv, NEW t \in Thread, NEW c \in Code, NEW v \in Value,
           PyJit_EvalFrame(t, c, v)
    PROVE  [Tiers!TierNext]_<<tier, installed>>
  <1> DEFINE j == Ensured(t, c)
             o == jitted[t][c]
             k == GetAbstractType(settings.optimistic, v)
  <1>1. TypeOK /\ j \in JittedCode /\ o \in JittedCode /\ k \in Kind
    <2>1. settings.optimistic \in BOOLEAN /\ v \in ValueClass
      BY LifecycleAssumption DEF IInv, TypeOK, Settings
    <2>2. QED
      BY <2>1, EnsuredType, KindRepresents DEF IInv, TypeOK
  <1>2. /\ ObjectInv(j) /\ j.failed = o.failed /\ j.addr = o.addr
        /\ j.pgcStatus = o.pgcStatus
    BY EnsuredInv
  <1>3. /\ tier[t][c] = TierOf(o) /\ installed[t][c] = o.addr
        /\ TierOf(j) = TierOf(o)
    BY <1>2 DEF tier, installed, TierOf
  <1>4. /\ Bump(j.runCount) \in 0..RunCountCap
        /\ nextPgcStatus(j.pgcStatus) \in PgcStatus
    BY <1>1, BumpType, NextStatusType DEF JittedCode
  <1> HIDE DEF j, k
  <1>5. Due(j) => j.pgcStatus # "Optimized" /\ ~j.failed
    BY <1>2 DEF Due, Ready, ObjectInv
  <1>6. Due(j) => tier[t][c] \in Tiers!Climbing
    BY <1>1, <1>3, <1>5, TierOfType
  <1>7. CASE \/ RunCompiled(t, c, v) \/ RunDefault(t, c, v) \/ RunThrow(t, c, v)
    <2>1. PICK n \in {j, [j EXCEPT !.runCount = Bump(@)]} : jitted' = With(t, c, n)
      BY <1>7 DEF RunCompiled, RunDefault, RunThrow, Keep, j
    <2>2. n \in JittedCode /\ TierOf(n) = TierOf(j) /\ n.addr = j.addr
      BY <1>1, <1>4, <2>1 DEF JittedCode, TierOf
    <2>3. UNCHANGED <<tier, installed>>
      BY <1>2, <1>3, <2>1, <2>2, NoTierChange
    <2>4. QED
      BY <2>3
  <1>8. CASE CompileAndRun(t, c, v)
    <2> DEFINE b == [pass |-> j.pgcStatus, kind |-> k]
               m == [j EXCEPT !.runCount = Bump(@), !.addr = b,
                              !.genericAddr = b, !.specializedKind = k]
               n == Left(t, m)
    <2>1. jitted' = With(t, c, n) /\ Due(j)
      BY <1>8 DEF CompileAndRun, Keep, j, k
    <2>2. b \in Body /\ m \in JittedCode /\ n \in JittedCode
      <3>1. b \in Body /\ n \in JittedCode
        BY <1>1, DispatchTypes
      <3>2. QED
        BY <1>1, <1>4, <3>1 DEF JittedCode
    <2>3. /\ m.failed = j.failed /\ m.pgcStatus = j.pgcStatus /\ m.addr = b
          /\ TierOf(m) = TierOf(j)
      BY <1>1 DEF JittedCode, TierOf
    <2> HIDE DEF m, b
    <2>4. n.addr = b /\ (TierOf(n) = TierOf(m) \/ TierOf(n) = Tiers!Above(TierOf(m)))
      BY <1>5, <2>1, <2>2, <2>3, TierOfType DEF Left, JittedCode
    <2> HIDE DEF n
    <2>5. /\ tier' = Tiers!Set(tier, t, c, TierOf(n))
          /\ installed' = Tiers!Set(installed, t, c, b)
      BY <2>1, <2>2, <2>4, TierChange
    <2>6. Tiers!Set(tier, t, c, TierOf(o)) = tier
      BY <1>3 DEF Tiers!Set, tier
    <2>7. Tiers!Install(t, c)
      BY <1>3, <1>6, <2>1, <2>2, <2>3, <2>4, <2>5, <2>6 DEF Tiers!Install
    <2>8. QED
      BY <2>7 DEF Tiers!TierNext
  <1>9. CASE CompileFails(t, c, v)
    <2> DEFINE m == [j EXCEPT !.runCount = Bump(@), !.failed = TRUE, !.addr = NoCode]
               n == Left(t, m)
    <2>1. jitted' = With(t, c, n) /\ Due(j)
      BY <1>9 DEF CompileFails, Keep, j
    <2>2. m \in JittedCode /\ m.failed = TRUE /\ m.addr = NoCode
      BY <1>1, <1>4 DEF JittedCode
    <2> HIDE DEF m
    <2>3. n \in JittedCode /\ n.failed = TRUE /\ n.addr = NoCode
      BY <2>2, NextStatusType DEF Left, JittedCode
    <2> HIDE DEF n
    <2>4. Tiers!GiveUp(t, c)
      BY <1>6, <2>1, <2>3, TierChange DEF Tiers!GiveUp, TierOf
    <2>5. QED
      BY <2>4 DEF Tiers!TierNext
  <1>10. CASE RunBare(t, c, v)
    BY <1>10 DEF RunBare, tier, installed
  <1>11. QED
    BY <1>7, <1>8, <1>9, <1>10 DEF PyJit_EvalFrame, Counted

LEMMA ReturnTiers ==
    ASSUME IInv, NEW t \in Thread, Return(t)
    PROVE  [Tiers!TierNext]_<<tier, installed>>
  <1> DEFINE c == Innermost(t).code
             j == jitted[t][c]
             n == [j EXCEPT !.pgcStatus = nextPgcStatus(j.pgcStatus)]
  <1>1. Innermost(t) \in Frame /\ Innermost(t) = frames[t][Len(frames[t])]
        /\ Len(frames[t]) \in 1..Len(frames[t])
    BY DEF IInv, TypeOK, Return, Innermost
  <1>2. c \in Code /\ j \in JittedCode /\ ObjectInv(j) /\ FlightInv(t, c)
    BY <1>1 DEF Frame, IInv, TypeOK
  <1>3. n \in JittedCode /\ n.addr = j.addr
    BY <1>2, NextStatusType DEF JittedCode
  <1>4. tier[t][c] = TierOf(j) /\ installed[t][c] = j.addr
    BY <1>2 DEF tier, installed
  <1>5. CASE ~Innermost(t).compiling
    BY <1>5 DEF Return, tier, installed
  <1>6. CASE Innermost(t).compiling
    <2>1. jitted' = With(t, c, n)
      BY <1>6 DEF Return
    <2>2. Compiled(j)
      BY <1>1, <1>2, <1>6 DEF FlightInv, InFlight
    <2>3. CASE j.failed \/ j.pgcStatus = "Optimized"
      <3>1. TierOf(n) = TierOf(j)
        BY <1>2, <2>3, TierOfType
      <3>2. UNCHANGED <<tier, installed>>
        BY <1>2, <1>3, <2>1, <3>1, NoTierChange
      <3>3. QED
        BY <3>2
    <2>4. CASE ~j.failed /\ j.pgcStatus # "Optimized"
      <3>1. TierOf(n) = Tiers!Above(TierOf(j)) /\ TierOf(j) \in Tiers!Climbing
        BY <1>2, <2>4, TierOfType
      <3>2. j.addr # NoCode
        BY <2>2, <2>4 DEF Compiled
      <3> HIDE DEF n
      <3>3. /\ tier' = Tiers!Set(tier, t, c, TierOf(n))
            /\ installed' = Tiers!Set(installed, t, c, j.addr)
        BY <1>2, <1>3, <2>1, TierChange
      <3>4. Tiers!Set(installed, t, c, j.addr) = installed
        BY <1>2 DEF Tiers!Set, installed
      <3>5. Tiers!Climb(t, c)
        BY <1>4, <3>1, <3>2, <3>3, <3>4 DEF Tiers!Climb
      <3>6. QED
        BY <1>2, <3>5 DEF Tiers!TierNext
    <2>5. QED
      BY <2>3, <2>4
  <1>7. QED
    BY <1>5, <1>6

\* Every behaviour of the dispatcher is a behaviour of TieredCode: tiers are
\* climbed in order, optimized code and failures are final.
THEOREM Refinement == Spec => ImplementsTiers
  <1>1. Init => Tiers!TierInit
    BY DEF Init, Tiers!TierInit, tier, installed, TierOf, NotMade, PyjionJittedCode
  <1>2. IInv /\ [Next]_vars => [Tiers!TierNext]_<<tier, installed>>
    <2> SUFFICES ASSUME IInv, [Next]_vars
                 PROVE  [Tiers!TierNext]_<<tier, installed>>
      OBVIOUS
    <2>1. CASE jitted' = jitted
      BY <2>1 DEF tier, installed
    <2>2. ASSUME NEW t \in Thread, NEW c \in Code, pyjion_info(t, c)
          PROVE  [Tiers!TierNext]_<<tier, installed>>
      <3> DEFINE j == Ensured(t, c)
      <3>1. CASE Keep(t, c, j)
        <4>1. /\ TypeOK /\ j \in JittedCode /\ jitted' = With(t, c, j)
              /\ j.addr = jitted[t][c].addr /\ TierOf(j) = TierOf(jitted[t][c])
          BY <3>1, EnsuredType, EnsuredInv DEF IInv, Keep, TierOf
        <4> HIDE DEF j
        <4>2. UNCHANGED <<tier, installed>>
          BY <4>1, NoTierChange
        <4>3. QED
          BY <4>2
      <3>2. QED
        BY <2>1, <2>2, <3>1 DEF pyjion_info
    <2>3. QED
      BY <2>1, <2>2, EvalFrameTiers, ReturnTiers
         DEF Next, vars, pyjion_enable, pyjion_disable, pyjion_config
  <1>3. QED
    BY <1>1, <1>2, Inductive, PTL DEF Spec, ImplementsTiers, Tiers!TierSpec, Tiers!tierVars
=============================================================================

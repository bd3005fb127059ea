---------------------------- MODULE JitLifecycle ----------------------------
(***************************************************************************)
(* The life of a code object under the JIT (pyjit.cpp, pyjit.h, pgc.cpp):  *)
(* the replacement frame evaluator PyJit_EvalFrame decides, for every      *)
(* evaluation of a frame, between the default interpreter, the specialised *)
(* machine code, the generic machine code and a (re)compilation; the       *)
(* profile-guided compilation status advances when the evaluation that     *)
(* compiled is LEFT.                                                       *)
(*                                                                         *)
(* The compilation state hangs off the code object at an extra index that  *)
(* is kept in thread-specific storage: every thread has an index, and so a *)
(* PyjionJittedCode per code object, of its own.                           *)
(*                                                                         *)
(* The interpreter lock makes everything up to the first byte code of a    *)
(* frame one step; Python code runs between the step that pushes a frame   *)
(* and the step that pops it, so recursion overlaps evaluations of one     *)
(* code object.  Resuming a generator is an evaluation like any other.     *)
(***************************************************************************)
EXTENDS Naturals, Sequences, FiniteSets

CONSTANTS
    Code,            \* code objects
    Thread,          \* Python threads
    Value,           \* classes of argument values that calls pass
    RecursionLimit,  \* g_pyjionSettings.recursionLimit
    MaxThreshold,    \* largest threshold config() is called with
    MaxExtraUsers    \* code-extra indices the interpreter hands out

\* What the argument slot of a frame holds when it is evaluated: NULL when the
\* argument lives in a cell, or was deleted before a generator is resumed.
ValueClass == {"null", "smallint", "bigint", "float"}

ASSUME LifecycleAssumption ==
    /\ Value \subseteq ValueClass
    /\ RecursionLimit \in Nat
    /\ MaxThreshold \in Nat
    /\ MaxExtraUsers \in Nat

VARIABLES
    evalFrame,   \* the interpreter's frame evaluation function
    settings,    \* g_pyjionSettings: pgc, threshold, OptimisticIntegers
    slots,       \* threads whose g_extraSlot holds an extra index
    jitted,      \* per thread and code object, its PyjionJittedCode
    frames,      \* per thread, the frames being evaluated, oldest first
    alive        \* the process has not dereferenced a null PyjionJittedCode

vars == <<evalFrame, settings, slots, jitted, frames, alive>>

-----------------------------------------------------------------------------
(* Data *)

PgcStatus == {"Uncompiled", "CompiledWithProbes", "Optimized"}

\* Mutant: the status is an enumerator that is incremented.
nextPgcStatus_Increment(status) ==
    CASE status = "Uncompiled"         -> "CompiledWithProbes"
      [] status = "CompiledWithProbes" -> "Optimized"
      [] OTHER                         -> "Status3"

nextPgcStatus(status) ==
    IF status = "Uncompiled" THEN "CompiledWithProbes" ELSE "Optimized"

Kind == {"AVK_Any", "AVK_Integer", "AVK_BigInteger", "AVK_Float"}

\* Integers are only told apart by size under OptimisticIntegers.
GetAbstractType(optimistic, value) ==
    CASE value = "float"                    -> "AVK_Float"
      [] value = "smallint" /\ optimistic   -> "AVK_Integer"
      [] value = "smallint" /\ ~optimistic  -> "AVK_BigInteger"
      [] value = "bigint"                   -> "AVK_BigInteger"
      [] OTHER                              -> "AVK_Any"

\* The values that code specialised for a kind may be given.
Represents(kind) ==
    CASE kind = "AVK_Integer"    -> {"null", "smallint"}
      [] kind = "AVK_BigInteger" -> {"null", "smallint", "bigint"}
      [] kind = "AVK_Float"      -> {"null", "float"}
      [] OTHER                   -> ValueClass

\* One compilation: the PGC status it was made under and the argument kind it
\* was specialised for.
Body == [pass: PgcStatus, kind: Kind]
NoCode == [pass |-> "none", kind |-> "none"]

\* A run count is only ever compared with a threshold.
RunCountCap == MaxThreshold + 1
Bump(n) == IF n < RunCountCap THEN n + 1 ELSE n

\* made: the object exists.  j_specializedKinds is one kind, "none" before the
\* first compilation.
JittedCode ==
    [made: BOOLEAN, runCount: 0..RunCountCap, threshold: 0..MaxThreshold,
     failed: BOOLEAN, pgcStatus: PgcStatus, addr: Body \cup {NoCode},
     genericAddr: Body \cup {NoCode}, specializedKind: Kind \cup {"none"}]

PyjionJittedCode(threshold) ==
    [made |-> TRUE, runCount |-> 0, threshold |-> threshold, failed |-> FALSE,
     pgcStatus |-> "Uncompiled", addr |-> NoCode, genericAddr |-> NoCode,
     specializedKind |-> "none"]

NotMade == [PyjionJittedCode(0) EXCEPT !.made = FALSE]

Frame == [code: Code, mode: {"default", "specialized", "generic"}, arg: Value,
          body: Body \cup {NoCode}, compiling: BOOLEAN]

Settings == [pgc: BOOLEAN, threshold: 0..MaxThreshold, optimistic: BOOLEAN]

TypeOK ==
    /\ evalFrame \in {"PyJit_EvalFrame", "_PyEval_EvalFrameDefault"}
    /\ settings \in Settings
    /\ slots \subseteq Thread
    /\ jitted \in [Thread -> [Code -> JittedCode]]
    /\ frames \in [Thread -> Seq(Frame)]
    /\ alive \in BOOLEAN

-----------------------------------------------------------------------------
Init ==
    /\ evalFrame = "_PyEval_EvalFrameDefault"
    /\ settings = [pgc |-> TRUE, threshold |-> 0, optimistic |-> FALSE]
    /\ slots = {}
    /\ jitted = [t \in Thread |-> [c \in Code |-> NotMade]]
    /\ frames = [t \in Thread |-> <<>>]
    /\ alive = TRUE

-----------------------------------------------------------------------------
(* PyJit_EnsureExtra *)

\* The thread has an extra index or can still be given one; otherwise
\* PyJit_EnsureExtra answers NULL.
HasExtra(t) == t \in slots \/ Cardinality(slots) < MaxExtraUsers

\* The object PyJit_EnsureExtra answers: its threshold is fixed when it is
\* made, from the settings of that moment.
Ensured(t, c) == IF jitted[t][c].made THEN jitted[t][c]
                 ELSE PyjionJittedCode(settings.threshold)

With(t, c, j) == [jitted EXCEPT ![t] = [@ EXCEPT ![c] = j]]

\* Mutant: one extra index for all threads.
Keep_Shared(t, c, j) ==
    /\ HasExtra(t)
    /\ slots' = slots \cup {t}
    /\ jitted' = [u \in Thread |-> [jitted[u] EXCEPT ![c] = j]]

\* PyJit_EnsureExtra succeeded and the caller left the object as j.
Keep(t, c, j) ==
    /\ HasExtra(t)
    /\ slots' = slots \cup {t}
    /\ jitted' = With(t, c, j)

-----------------------------------------------------------------------------
(* The Python-level controls *)

pyjion_enable ==
    /\ evalFrame' = "PyJit_EvalFrame"
    /\ UNCHANGED <<settings, slots, jitted, frames, alive>>

pyjion_disable ==
    /\ evalFrame' = "_PyEval_EvalFrameDefault"
    /\ UNCHANGED <<settings, slots, jitted, frames, alive>>

\* Any subset of the settings may change, also by a call that goes on to fail.
pyjion_config(s) ==
    /\ settings' = s
    /\ UNCHANGED <<evalFrame, slots, jitted, frames, alive>>

\* info(), il(), native(), offsets(), graph(), symbols(): reading the state of
\* a function makes its PyjionJittedCode; a NULL answer is dereferenced.
pyjion_info(t, c) ==
    /\ \/ Keep(t, c, Ensured(t, c)) /\ UNCHANGED alive
       \/ ~HasExtra(t) /\ alive' = FALSE /\ UNCHANGED <<slots, jitted>>
    /\ UNCHANGED <<evalFrame, settings, frames>>

-----------------------------------------------------------------------------
(* PyJit_EvalFrame *)

HasRoom(t) == Len(frames[t]) < RecursionLimit

\* At the recursion limit the frame is refused with a RecursionError.
Enter(t, f) ==
    frames' = IF HasRoom(t) THEN [frames EXCEPT ![t] = Append(@, f)] ELSE frames

DefaultFrame(c, v, compiling) ==
    [code |-> c, mode |-> "default", arg |-> v, body |-> NoCode,
     compiling |-> compiling]

\* Mutant: with PGC off, optimized code is not recognised.
Ready_OnlyPgc(j) ==
    /\ j.addr # NoCode
    /\ j.genericAddr # NoCode
    /\ ~j.failed
    /\ settings.pgc /\ j.pgcStatus = "Optimized"

\* The machine code of j may be entered as it is.
Ready(j) ==
    /\ j.addr # NoCode
    /\ j.genericAddr # NoCode
    /\ ~j.failed
    /\ settings.pgc => j.pgcStatus = "Optimized"

\* Mutants: a failure is tried again; the threshold is read when it is compared.
Due_Retry(j) == ~Ready(j) /\ j.runCount >= j.threshold
Due_Settings(j) == ~Ready(j) /\ ~j.failed /\ j.runCount >= settings.threshold

\* It is time to compile; the run count is compared before it is incremented.
Due(j) == ~Ready(j) /\ ~j.failed /\ j.runCount >= j.threshold

\* Mutant: the two integer kinds are taken for one.
KindMatches_Family(j, v) ==
    v \notin {"null"} =>
        \/ j.specializedKind = GetAbstractType(settings.optimistic, v)
        \/ {j.specializedKind, GetAbstractType(settings.optimistic, v)}
               \subseteq {"AVK_Integer", "AVK_BigInteger"}

\* A NULL local is not compared with the kind it was specialised for.
KindMatches(j, v) ==
    v # "null" => j.specializedKind = GetAbstractType(settings.optimistic, v)

\* Mutant: a refused frame returns before the status is moved.
Left_Refused(t, j) == j

\* The status moves on when the evaluation that compiled is left: at once if
\* its frame is refused.
Left(t, j) == IF HasRoom(t) THEN j
              ELSE [j EXCEPT !.pgcStatus = nextPgcStatus(j.pgcStatus)]

RunCompiled(t, c, v) ==
    LET j == Ensured(t, c)
    IN  /\ evalFrame = "PyJit_EvalFrame"
        /\ Ready(j)
        /\ Keep(t, c, [j EXCEPT !.runCount = Bump(@)])
        /\ \/ /\ KindMatches(j, v)
              /\ Enter(t, [code |-> c, mode |-> "specialized", arg |-> v,
                           body |-> j.addr, compiling |-> FALSE])
           \/ /\ ~KindMatches(j, v)
              /\ Enter(t, [code |-> c, mode |-> "generic", arg |-> v,
                           body |-> j.genericAddr, compiling |-> FALSE])
        /\ UNCHANGED <<evalFrame, settings, alive>>

\* The compilation succeeds: everything is installed and the frame runs the
\* new specialised code.
CompileAndRun(t, c, v) ==
    LET j == Ensured(t, c)
        k == GetAbstractType(settings.optimistic, v)
        b == [pass |-> j.pgcStatus, kind |-> k]
    IN  /\ evalFrame = "PyJit_EvalFrame"
        /\ Due(j)
        /\ Keep(t, c, Left(t, [j EXCEPT !.runCount = Bump(@), !.addr = b,
                                        !.genericAddr = b, !.specializedKind = k]))
        /\ Enter(t, [code |-> c, mode |-> "specialized", arg |-> v, body |-> b,
                     compiling |-> TRUE])
        /\ UNCHANGED <<evalFrame, settings, alive>>

\* The compilation fails: the code object is given up for good, and this frame
\* is evaluated by the default interpreter.
CompileFails(t, c, v) ==
    LET j == Ensured(t, c)
    IN  /\ evalFrame = "PyJit_EvalFrame"
        /\ Due(j)
        /\ Keep(t, c, Left(t, [j EXCEPT !.runCount = Bump(@), !.failed = TRUE,
                                        !.addr = NoCode]))
        /\ Enter(t, DefaultFrame(c, v, TRUE))
        /\ UNCHANGED <<evalFrame, settings, alive>>

\* Mutant: interpreted evaluations are not counted.
RunDefault_Uncounted(t, c, v) ==
    LET j == Ensured(t, c)
    IN  /\ evalFrame = "PyJit_EvalFrame"
        /\ ~Ready(j) /\ ~Due(j)
        /\ Keep(t, c, j)
        /\ Enter(t, DefaultFrame(c, v, FALSE))
        /\ UNCHANGED <<evalFrame, settings, alive>>

\* Neither ready nor due: counted, unless it has failed, and interpreted.
RunDefault(t, c, v) ==
    LET j == Ensured(t, c)
    IN  /\ evalFrame = "PyJit_EvalFrame"
        /\ ~Ready(j) /\ ~Due(j)
        /\ Keep(t, c, IF j.failed THEN j ELSE [j EXCEPT !.runCount = Bump(@)])
        /\ Enter(t, DefaultFrame(c, v, FALSE))
        /\ UNCHANGED <<evalFrame, settings, alive>>

\* A frame resumed by throw() is never given to machine code.
RunThrow(t, c, v) ==
    /\ evalFrame = "PyJit_EvalFrame"
    /\ Keep(t, c, Ensured(t, c))
    /\ Enter(t, DefaultFrame(c, v, FALSE))
    /\ UNCHANGED <<evalFrame, settings, alive>>

\* Without a PyjionJittedCode, and with the JIT disabled, the frame is
\* evaluated as if the JIT were not there.
RunBare(t, c, v) ==
    /\ evalFrame = "PyJit_EvalFrame" => ~HasExtra(t)
    /\ Enter(t, DefaultFrame(c, v, FALSE))
    /\ UNCHANGED <<evalFrame, settings, slots, jitted, alive>>

Counted(t, c, v) ==
    \/ RunCompiled(t, c, v)
    \/ CompileAndRun(t, c, v)
    \/ CompileFails(t, c, v)
    \/ RunDefault(t, c, v)

PyJit_EvalFrame(t, c, v) ==
    Counted(t, c, v) \/ RunThrow(t, c, v) \/ RunBare(t, c, v)

Innermost(t) == frames[t][Len(frames[t])]

\* The innermost frame of a thread is left, by a return, a yield or an
\* exception; when its evaluation had compiled, the status moves on.
Return(t) ==
    /\ frames[t] # <<>>
    /\ frames' = [frames EXCEPT ![t] = SubSeq(@, 1, Len(@) - 1)]
    /\ LET c == Innermost(t).code
           j == jitted[t][c]
       IN  jitted' = IF Innermost(t).compiling
                     THEN With(t, c, [j EXCEPT !.pgcStatus = nextPgcStatus(j.pgcStatus)])
                     ELSE jitted
    /\ UNCHANGED <<evalFrame, settings, slots, alive>>

Next ==
    /\ alive
    /\ \/ pyjion_enable
       \/ pyjion_disable
       \/ \E s \in Settings : pyjion_config(s)
       \/ \E t \in Thread, c \in Code : pyjion_info(t, c)
       \/ \E t \in Thread, c \in Code, v \in Value : PyJit_EvalFrame(t, c, v)
       \/ \E t \in Thread : Return(t)

Spec == Init /\ [][Next]_vars

-----------------------------------------------------------------------------
(* Safety *)

\* Specialised machine code is only ever entered with an argument its kind
\* represents, however recompilations, level changes and calls interleave
\* between the compilation and the entry (PyJit_EvalFrame's check of the
\* specialised types).
SpecializedEntry ==
    \A t \in Thread : \A i \in 1..Len(frames[t]) :
        frames[t][i].mode = "specialized"
            => /\ frames[t][i].body # NoCode
               /\ frames[t][i].arg \in Represents(frames[t][i].body.kind)

InFlight(t, c) == \E i \in 1..Len(frames[t]) :
                     frames[t][i].code = c /\ frames[t][i].compiling

\* A code object that was compiled, or given up, but still reads Uncompiled has
\* an evaluation under way in that thread which compiled it and will advance
\* its status: no path through a failure or a recursion error leaves it there.
StatusOwed ==
    \A t \in Thread, c \in Code :
        (/\ jitted[t][c].pgcStatus = "Uncompiled"
         /\ jitted[t][c].addr # NoCode \/ jitted[t][c].failed)
            => InFlight(t, c)

\* No code object is compiled before it was evaluated more often than the
\* threshold it was made with, whatever config() and info() do in between.
ThresholdRespected ==
    \A t \in Thread, c \in Code :
        jitted[t][c].addr # NoCode
            => jitted[t][c].made /\ jitted[t][c].runCount > jitted[t][c].threshold

\* The frame a step pushes for thread t, if it pushes one.
Pushes(t) == Len(frames'[t]) = Len(frames[t]) + 1
Pushed(t) == frames'[t][Len(frames'[t])]

\* Machine code is never entered, nor compiled again, for a code object that
\* has failed, although the generic code of an earlier compilation is still
\* installed and frames of that compilation may still be running.
FailedNeverEntered ==
    [][\A t \in Thread :
          Pushes(t) /\ Pushed(t).mode # "default"
              => ~jitted[t][Pushed(t).code].failed]_vars

-----------------------------------------------------------------------------
(* Refinement *)

TierOf(j) == IF j.failed THEN "failed"
             ELSE IF j.pgcStatus = "Uncompiled" THEN "cold"
             ELSE IF j.pgcStatus = "CompiledWithProbes" THEN "profiling"
             ELSE "optimized"

tier == [t \in Thread |-> [c \in Code |-> TierOf(jitted[t][c])]]
installed == [t \in Thread |-> [c \in Code |-> jitted[t][c].addr]]

Tiers == INSTANCE TieredCode WITH Owner <- Thread, Machine <- Body, NoMachine <- NoCode

\* Every code object climbs through the tiers in order; optimized code is final
\* and a failure is final, whatever is reconfigured or recursive.
ImplementsTiers == Tiers!TierSpec

-----------------------------------------------------------------------------
(* Liveness *)

\* Frames are left again: evaluations terminate.
FairSpec == Spec /\ \A t \in Thread : WF_vars(alive /\ Return(t))

\* A code object whose frames a thread keeps evaluating with the JIT on is
\* eventually compiled or given up for that thread.
HotCodeIsCompiled ==
    \A t \in Thread, c \in Code :
        []<><<alive /\ \E v \in Value : Counted(t, c, v)>>_vars
            => <>[](jitted[t][c].failed \/ jitted[t][c].addr # NoCode)
=============================================================================

# Pyjion in TLA+

Pyjion is a just-in-time compiler for CPython 3.10: it replaces the interpreter's
frame evaluation function, compiles hot functions to .NET IL and has the .NET
runtime turn that into machine code. This directory holds TLA+ models of the parts
of Pyjion that decide something, TLC configurations that check them on small
instances, and TLAPS proofs. Paths below are relative to `src/pyjion/` unless they
start elsewhere.

Check a module with `tlc -config X.cfg MC_M.tla`, the proofs with
`tlapm JitLifecycleProofs.tla` (and so on for the other `*Proofs` modules).
`PROJECT.json` lists the runs, what each
definition translates (file, lines, symbol), the hazards of the code, and for each
checked property a mutation of the model that violates it.

## 1. The system

How a call runs: `PyJit_EvalFrame` (pyjit.cpp) is called by CPython for each frame.
It looks up the code object's `PyjionJittedCode`, and either interprets the frame,
enters machine code, or compiles first. To compile, `AbstractInterpreter::interpret`
(absint.cpp) runs the byte code over *kinds* of values; `InstructionGraph`
(instructions.cpp) turns what values flow where into edges and decides what is
unboxed; `compileWorker` (absint.cpp) walks the byte code once more and calls the
emitters of `PythonCompiler` (pycomp.cpp, binarycomp.cpp), twice: a specialised
body for the kinds of the arguments of the compiling call, and a generic body. The
emitted code calls the helpers of intrins.cpp. The first compilation adds probes,
which fill the profile (pgc.cpp) for the second one.

| Part | State it keeps | Operations | What makes it correct |
|---|---|---|---|
| Dispatcher (pyjit.cpp) | per thread and code object a `PyjionJittedCode`; settings; the thread's recursion depth and cframe | evaluate a frame, enable, disable, config, info and other readers, free | specialised code only for the arguments it was made for; no compilation before the threshold; tiers in order, failure final; hot code gets compiled |
| Profile (pgc.cpp) | per instruction and stack position: first type, last kind | record, getType, getKind, next status | what is read fits together and is guarded |
| Analysis (absint.cpp, absvalue.cpp) | a start state per instruction, sources and their consumers, a queue of blocks | interpret a block, merge a state | ends; stable; says what really happens |
| Instruction graph (instructions.cpp, unboxing.cpp) | edges, instructions to unbox, a validity flag | build, fix instructions, locals, edges | both ends of an edge agree on who is boxed |
| Compile worker (absint.cpp, stack.cpp, exceptionhandling.cpp) | compile-time stack, stacks at jump targets, assigned locals, handler tree | one case per instruction, branchRaise | emitted code agrees with Python on values, errors, references |
| Object operators (binarycomp.cpp) | none | emit slot calls, guard, fallback | same result as `PyNumber_*`; operands released once |
| Unboxed arithmetic (pycomp.cpp, intrins.cpp) | none | box, unbox, operators on `int64_t` and `double` | same value and errors as Python where the value fits |
| Attribute table (attrtable.cpp) | type and name to kind | captureStoreAttr, getAttr | readers do not rely on a kind that changed later |
| IL generator (ilgen.h, cee.h) | instruction bytes, local variables with a free list, labels | emit | a local is not reused while in use |
| Token tables (codemodel.cpp) | global map from tokens to functions | AddMethod, ResolveMethod | a token keeps its function |
| JIT interface (jitinfo.h, jitinit.cpp) | memory of one method | callbacks of the .NET compiler | - |
| Range iterator (objects/) | index, length, start, step | next | all members, once |
| Python package (`__init__.py`, `dis.py`, `wsgi.py`, `__main__.py`) | - | loading the library, printing, WSGI wrapper | - |

Interaction: everything runs under the interpreter lock, so there is no preemption
inside a step of the dispatcher or inside a compilation, but *any* Python code can run
between the moment a frame is entered and the moment it is left: recursive calls of
the function that is just being compiled, `config()` and `info()` calls, other
threads. The parts share the profile, the settings (read at compile time and at
dispatch time) and the attribute table. The compiled body and the dispatcher share
only one thing, the kinds of the arguments.

What is hard here: recursion across a compilation; settings that change between
compilation and entry; failures in the middle (a compilation, a refused frame, an
operand that does not unbox); joins of control flow, where the analysis sees one
path after another; two bodies compiled from one analysis; the limits of a machine
word. The list with lines is `hazards` in `PROJECT.json`. There are no messages,
nothing is persisted, nothing times out, so there is nothing to check about those.

## 2. Plan

Eight groups of modules, each with one module for TLC (`MC_*`) and, where something is
proved, one for the proofs. All of them are written; what is still worth doing is listed
at the end of the section.

| Group | Modules | Composition | State |
|---|---|---|---|
| A, dispatcher | `TieredCode`, `JitLifecycle`, `JitLifecycleProofs` | `JitLifecycle` implements `TieredCode` | checked, proved |
| B, unboxing | `AbsInterp`, `InstructionGraph`, `CompiledCode`, `CompiledCodeProofs` | analysis, graph, the two bodies and a call; each extends the one before | checked, proved |
| C, object operators | `BinaryOperators`, `BinaryOperatorsProofs` | - | checked, proved |
| D, machine integers | `UnboxedMath`, `RangeLoop`, `UnboxedMathProofs` | the arithmetic is the body of the loop | checked, proved |
| E, emitted code | `Intrinsics`, `Emitter`, `CompileWorker`, `EmittedCode` | helpers, emitters, opcodes, a method at work | checked |
| F, feedback | `CachedGlobals`, `TypeFeedback`, `Feedback`, `CachedGlobalsProofs`, `FeedbackProofs` | `Feedback` implements `CachedGlobals` | checked, proved |
| G, frames | `FrameExec`, `FrameExecProofs` | recursion, C frames and tracing together | checked, proved |
| H, IL | `ILGenerator`, `ILGeneratorProofs` | - | checked, proved |

Abstract specifications: `TieredCode` for the dispatcher, `CachedGlobals` for the loads of
globals in `Feedback`; elsewhere the abstract side is Python's own semantics, carried in the
state next to the compiled code's (`frame.python` in `CompiledCode`, `Python` in
`BinaryOperators`, `exact` and `error` in `UnboxedMath`, `py` in `EmittedCode`, the
interpreter's sum in `Feedback`).

Left to do, most useful first: generators between tiers (a resumed frame enters code
compiled since); the boxed and unboxed operands of one instruction in `branchRaise`
(`EmittedCode` has objects only); classes of floats (finite, infinite, NaN) against the
sentinel; proofs about `EmittedCode`, which need the properties of well-formed byte code
that CPython's compiler ensures (balanced blocks, agreeing depths) as assumptions on
`Programs`.

At most a dozen runs and forty checked properties are kept: where a run that showed a
deviation was given up for another, the deviation is still described in section 6.

## 3. The models

### A. JitLifecycle (pyjit.cpp, pyjit.h, pgc.cpp)

| Model | Code |
|---|---|
| `jitted[t][c]` | the `PyjionJittedCode` at the extra index of thread `t`; `addr`, `genericAddr` hold the pass and kind of the compilation they came from |
| `slots` | the threads whose `g_extraSlot` is set |
| `frames[t]` | frames being evaluated; `compiling` marks a call of `PyJit_ExecuteAndCompileFrame` that has not returned |
| `settings` | `g_pyjionSettings`, as far as evaluation reads it |
| `RunCompiled`, `CompileAndRun`, `CompileFails`, `RunDefault`, `RunThrow`, `RunBare` | the paths through `PyJit_EvalFrame` |
| `Return` | the end of `PyJit_ExecuteJittedFrame` and of the evaluation, with `nextPgcStatus` after a compilation |
| `pyjion_enable`, `pyjion_disable`, `pyjion_config`, `pyjion_info` | the functions of the Python module |

One argument stands for all: the code compares them one by one and enters the
generic body on the first that differs. Compilation itself either succeeds or fails,
at any time. Run counts stop one above the largest threshold (`RunCountCap`), since
they are only compared with thresholds. Resuming a generator, also by `throw()`, is
an evaluation. `alive` becomes FALSE when one of the reading functions is used on a
thread for which `PyJit_EnsureExtra` has no index: the code dereferences the null
result (pyjit.cpp:447).

`TieredCode` is what this amounts to: each code object climbs from cold over
profiling to optimized or is given up, machine code is replaced only below the top.
The refinement mapping is `tier` and `installed`.

Recursion depth is the number of frames in the model, as the interpreter counts them
too. The frame that the default interpreter refuses is refused the same way.

### B. AbsInterp, InstructionGraph, CompiledCode (absint.cpp, instructions.cpp, unboxing.cpp, pycomp.cpp)

`AbsInterp` interprets one instruction per step. `start` is `mStartStates`, `queue`
the queue of blocks, `cur` the instruction `curByte` stands at, `consumers` the
consumers of all sources. `NextBlock`, `Straight`, `Branch`, `Jump` and `Leave` are
the cases of the instruction switch, grouped by what they do to the control flow; a
source is named by the instruction that made it. `depth` has the depth of the stack that
CPython gives every instruction, which only the assumption on functions speaks of. A join keeps the source of the side
that was there first, as `AbstractSource::combine` and the comparison of linked
sources do.

`InstructionGraph` has no state: `Graph` is the result of buildInstructions,
buildEdges, fixInstructions, fixLocals, deoptimizeInstructions and fixEdges, in that
order. `CompiledCode` compiles both bodies from it when the analysis is done (`Compile`)
and runs one call (`Call` and one step per instruction). A value carries its kind and
whether it is boxed; the frame also has the locals as Python sees them (`python`). A
call ends as `done` or with what went wrong: `misread` (an object read as a machine
word or the other way round), `null` (an unchecked load of an unbound local),
`unbound`, `UnboxingError`, or the Python error that interpreting would raise too.

Kinds are Integer (for all numbers that are unboxed), Bool, String (for all known kinds
that are not unboxed), Any and Undefined; opcodes are one for each way to treat stack,
locals and control flow.

### C. BinaryOperators (binarycomp.cpp, absvalue.cpp)

A step is one piece of emitted code: `Guard`, `CallLeft`, `CallRight`, `Fallback`,
`Release`; `Continue` uses the result as the left operand of another operator, with the
kind that the tables (`binary`) promise. `Case` has the kinds the compiler knew, whether
they are guesses, and the types the operands really are. What the slots of the built-in
types answer is external: modelled from CPython's types as far as it decides whether a
slot answers and which type comes out.

### D. UnboxedMath, RangeLoop (pycomp.cpp, intrins.cpp, absvalue.cpp, objects/unboxedrangeobject.cpp)

One value goes through any sequence of integer operators, boxing and unboxing. `value`
is what compiled code has, a word of `Width` bits or an object; `exact` is Python's value;
`raised` and `error` are the errors on the two sides. `past` says whether Python's value
has always fitted, is out of range (`wrapped`), or is no longer comparable (`lost`)
because one of the steps listed in `Unusual` was taken. `Pow2[n]` is 2^n, as a recursive
function.

`RangeLoop` puts a loop over a range around that. `GetIter` is `PyJit_GetUnboxedIter`: it
copies start, step and length into machine words (a part that does not fit becomes -1 and
leaves an OverflowError pending that nobody looks for) and refuses other iterables.
`ForIter` is the emitted FOR_ITER, which compares every item with the word that stands for
the end. Each round starts from the item, next to Python's item.

### E. Intrinsics, Emitter, CompileWorker, EmittedCode (intrins.cpp, pycomp.cpp, absint.cpp, stack.cpp, exceptionhandling.cpp)

`Intrinsics` is a table: for every helper the emitted code calls, the set of ways out, each
with what becomes of the reference behind every owned argument and what is returned.
`Emitter` has the emitters as sequences of steps on the evaluation stack and on temporaries;
`CompileWorker` has one case per opcode (`Steps`), with the changes of the compile-time
height and the error checks in the order they are emitted, and the pass over the byte code
(`compiled`) that yields for every instruction the height, the block and the handler in
force, or `CompilationException` when an instruction finds no block open (`stack.h` throws, and
unboxing, which is taken to be on, asks at every instruction). `EmittedCode` runs this: `vm` is the method (stack, temporaries, the local `x`, blocks,
the exception set and the one being handled, reference counts of what the method owns), `py`
the yardstick: the blocks and the handler CPython's loop would have at this point, and the
first fault. Faults: `height`, `type`, `freed` and `null` (a use), `error` (set without a
raise or the other way round), `moved`, `strayed` (another handler than Python's), `block`.

Objects are told apart by identity only; a branch on data the model does not have is a
choice. All values are objects here (the unboxed ones are those of B and D).

### F. CachedGlobals, TypeFeedback, Feedback (pgc.cpp, attrtable.cpp, absint.cpp, absvalue.cpp, pycomp.cpp)

`CachedGlobals`: dictionaries with version tags from one counter, bindings, and for every
compilation the object found and the two tags (`isCurrent`, `emit_load_global`). A code
object may run in frames of several namespaces, and compilations that were replaced may
still run. `TypeFeedback` has the profile (`record`: the first type, the last kind), the
attribute table, the kinds the tables of absvalue.cpp give to sums, and the choice between
guarded and unguarded unboxing; `Feedback` compiles a function that adds operands up, with
probes and then from the profile, and runs it while names and attributes change. The frame
carries the compiled code's sum and the interpreter's. `seen` is history: whether all
objects of one origin had one kind. Kinds stand for objects; BigInteger stands for integers
that do not fit a machine word; Bool is left out.

### G. FrameExec (pyjit.cpp, intrins.cpp, absint.cpp)

`frames` is the stack of evaluations, each with its place in `PyJit_ExecuteJittedFrame` or in
a hook (`pc`), the `use_tracing` flag of its C frame and the C frame below; `cframe`, `depth`,
`tracing`, `tracefunc` and `exc` are the fields of the thread state. `Call`, `Leave` and `Throw` are the
dispatcher's entry, the normal and the C++ way out. `CheckRecursiveCall` is
`Pyjit_CheckRecursiveCall` with both of its branches, and with another limit the interpreter's own
check for an interpreted function (`CallInterpreted`), a function of C that is refused (`CallC`) and the
trace function: a call beyond the limit raises RecursionError (`Refuse`), and while an exception is
normalised a call beyond the limit and the headroom ends the process (`Dies`). `Catch` is
a handler; where the class of the exception is written in Python it is called with the headroom
(`Creates`), as a frame of kind `init` that has no C frame of its own and does what any code may do
until the class returns (`Normalised`) or fails and is called again (`Renormalise`).
`TraceFrameEntry`, `TraceLine`, `TraceFrameException` and `TraceFrameExit` are the hooks, each
with the paths through `protected_trace` and `trace`; while a hook runs its frame has kind
`hook` and does what any Python code may do: call, raise, switch tracing, move the limit.
A function is compiled in its first call, with hooks if tracing is on for the thread then.
Left out are the events that the interpreter itself reports for frames it runs, profile hooks (the
same code with another function), an exception class written in Python that the hook at an
error normalises (intrins.cpp:2607; a class that switches tracing there would lose its exception) or that
switches tracing or moves the limit itself, and the interpreter's bound of 32 on failures of such classes in a row.

### H. ILGenerator (ilgen.h)

`branches` has every branch with the bytes of its distance and the form it is in; `size` is
the size of `m_il`. `mark_label` rewrites all branches that wait for the label. `Load` emits an
operand and keeps what was asked for beside what the bytes mean (`loaded`). `define_local`,
`define_local_no_cache` and `free_local` work on the lists of freed locals per type; `held` has
the `Local` in each variable of the emitters. Other opcodes count by their size. An emitter
marks a label once and frees a local while it owns it, as all of pycomp.cpp's do.

## 4. The runs

| Run | Module, instance | Shows |
|---|---|---|
| `lifecycle_calls` | `JitLifecycle`: 1 code object, 1 thread, 4 classes of arguments, 2 frames, thresholds 0 and 1 | types; `SpecializedEntry`, `ThresholdRespected`, `StatusOwed`; `FailedNeverEntered`; refinement of `TieredCode` |
| `lifecycle_threads` | 2 threads, 1 index, 1 frame each, fair | refinement per thread, `HotCodeIsCompiled` |
| `compiled_all` | `CompiledCode`: the shapes of functions, every choice of operands among small int, str and the argument; argument and call int or str | the analysis ends, is stable, sound; graph and operands fit; specialised code never fails to unbox; where no value is on the stack at a join and a local is bound on all paths or on none (`Tidy`), both bodies agree with Python on what is boxed and bound (`TidyCodeIsSafe`) |
| `compiled_join_doc`, `compiled_unbound_doc` | one function each | *violated:* `RepresentationMatches`, `LocalsAreChecked` |
| `operators` | `BinaryOperators`: 20 operators, 12 kinds, right and wrong guesses, unknown operands, constants; results used again | references, Python's result, predicted kinds |
| `unboxed` | `RangeLoop`: 8-bit words, 13 operands around 0, up to the limit of small ints and beyond both that and a word; shifts up to 9, values up to 600; 9 iterables | `FitsIsExact`, `WrappedIsCongruent`, `LoopsArePythons` |
| `emitted` | `EmittedCode`: each opcode once in a `try`, in a loop, with all outcomes of its helpers, and functions with loops, comprehensions, nested and re-raised exceptions, tries in handlers, yields; a return in a try, which is not compiled | heights, live objects, errors, places of values, handlers, blocks, references |
| `emitted_handler_doc` | try, except, finally | *violated:* `HandlersArePythons` |
| `feedback` | `Feedback`: 2 namespaces over 1 dictionary of builtins, 4 kinds, 2 types of objects with the attribute, 6 functions | `LoadsAreCurrent`, `ResultsAgree`, `GuardErrorsAreEarned`, `ReadsAreGuarded` |
| `frames` | `FrameExec`: a compiled and an interpreted function, an exception class, limit 3 at the start, 2 or 4 later, headroom 2 | types, `ThreadIsRestored`, `TraceIsNotReentered`, `PendingWhileFailing`, `EventsAreBalanced`, `RecursionRecovers` |
| `generator` | `ILGenerator`: 3 branches, 2 labels, code of 62 and 63 bytes up to 140, 2 locals of 2 types | `CodeMeansWhatWasEmitted`, `LocalsAreDistinct` |

Why the bounds are enough.

- *Dispatcher:* two frames are what it takes for a compilation inside a compiling evaluation
  and a refused frame on top; more frames repeat this, and the theorems do not bound them. A
  threshold of 1 tells the threshold that is kept from the one in the settings.
- *Functions:* each shape has one kind of control flow (branch, loop, nested branch in a loop,
  value on the stack at a join, delete) with all choices of operands, which includes every
  transition of the escape analysis.
- *Operators:* the enumeration is complete over the modelled kinds; a second operator on a
  result is enough to notice a wrong prediction.
- *Words:* 8 bits have all boundary cases of 64: the limits of small ints, shifts by half and by
  more than a width, products that wrap more than once; `Bound` cuts off Python's value after it
  has left the range by more than twice its size. The sentinel of the iterator is the 7 among them.
- *Emitted code:* an opcode's steps do not depend on what is below its operands, so one at a time
  in a `try` inside a loop has every way out; opcodes with a count are taken with 0 to 3 items, and one
  argument stands for the largest number that is passed without a tuple (`MaxArguments`, ten in the
  code). Five blocks (`MaxBlocks`) stand for CPython's 20 and are reached by the loops;
  `MaxObjects` is never reached.
- *Feedback:* one rebinding of a name after the compilations, between any two steps, is enough to make
  one of the two tags stale (`MaxTag`); the theorems do not bound it. Three operands are enough for a sum
  of sums, two calls for the two compilations.
- *Frames:* a limit of three holds a call in a trace function in a call, and four one more that is
  refused. The headroom is 2 instead of 50: evaluations nest up to six deep, so that a class can call a function
  that is traced, or calls another, or handles an exception in turn, and the process ends one call further. The limit is raised and lowered by one, which is less than the headroom, and for which the
  bound of `RecursionRecovers` is reached. More functions or classes of one sort would not differ; the theorems
  have any number of them.
- *IL:* 62 and 63 add up to every distance from 124 to 126, on both sides of the last that fits a byte in
  both directions. Numbers of 4 and 8 bytes are scaled to 17 and 19 bits.

Deadlock is not checked where the system really stops: when the process has died
(`lifecycle_threads`, `frames`), when an expression, a call or a method has been evaluated or emitted
(`operators`, `emitted`, `generator`), when the bound on tags is reached (`feedback`) or a value cannot be followed (`unboxed`).

Fairness. `JitLifecycle` assumes weak fairness of `Return` for each thread while the process
lives: evaluations end, as the claim is about functions that are called again and again and not
about one that loops for ever. Nothing is assumed of calls: `HotCodeIsCompiled` is about code
that *is* evaluated infinitely often. `CompiledCode` assumes weak fairness of the analysis,
which is a loop in the compiling thread that nothing interrupts.

## 5. What is proved

**`JitLifecycleProofs`**, for any sets of code objects and threads, any subset of the argument
classes, any recursion limit, threshold bound and number of indices (`LifecycleAssumption`):

- `TypeCorrect`: the type invariant.
- `Inductive`: `IInv`. The properties are not inductive by themselves. `SpecializedEntry`
  needs that installed code has the kind that the dispatcher compares (`ObjectInv`), and that
  optimized or failed objects have, or do not have, code. `StatusOwed` needs that an evaluation
  that compiled belongs to an object that compiled or failed, and the other way round while the
  status is Uncompiled (`FlightInv`), because two evaluations may owe the same object.
- `EntryIsSpecialized`, `StatusIsOwed`, `ThresholdIsRespected`: consequences of `IInv`.
- `FailedIsNeverEntered`: the action property, from `IInv` and a lemma on the frame a step pushes.
- `Refinement`: `Spec` implements `TieredCode`; each path through the dispatcher is a step of it or
  stutters.

The proof of the inductive step goes by the disjuncts of `Next`; the paths through
`PyJit_EvalFrame` share the lemmas on `Ensured`, `Keep` and `Enter`.

**`CachedGlobalsProofs`**, for any namespaces, dictionaries of builtins, objects and bound on tags
(`GlobalsAssumption`): `CacheIsInvariant`, that tags are below the counter and never shared between
dictionaries, and that a compilation whose two tags are those of a namespace's dictionaries found what a
lookup in them finds now. The second part is what makes `LoadsAreCurrent` inductive: a binding gives a
dictionary a tag that no compilation has. `CompiledLoadsAreCurrent` follows.

**`FeedbackProofs`**, for any functions, kinds, types and history (`FeedbackAssumption`,
`FirstTagAssumption`): `FeedbackImplementsGlobals`, each step of `Feedback` is a binding, a compilation or
nothing in `CachedGlobals`, so that `LoadsStayCurrent` is inherited; `SumsAreTheInterpreters`, that the
sum that is returned, or the exception that is raised, is the interpreter's, unless a guard failed or a kind that
was taken for certain was wrong: a read that the code guards is never a wrong one, and the loads are current. With `NamesAssumption` (the
markers for unbound, unknown and several kinds are no kinds or types) two more:

- `ReadsStayGuarded`: an object is read as a number it is not only where the kind came from a sum or a
  builtin (section 6). `ReadsInv` is that the code that runs is `Guarded`, which follows from the
  recursions of `analyse` and `escapes` by going from an addition to the one before it.
- `GuardsFailOnChange`: a guard fails only after some source of operands in reach of the function has been of
  two kinds. `SeenInv` says why: as long as each has been of one (`Calm`), the profile, the attribute table
  and the dictionaries hold the kinds that have been seen, and so the kinds that the code predicts are those
  of the operands, and of the sums, that come. What was seen never shrinks, so a compilation
  from an older profile is no exception.

**`FrameExecProofs`**, for any functions, exception classes, limits and headroom (`LimitAssumption`): `FramesAreChained`, the
inductive invariant `FrameInv`: the types; every frame was called from the one below it, or from one
whose callee a C++ exception cut off (`Chained`); at most one frame is a hook's, and `tracing` counts it
(`Hooked`); counter and C frame agree with the stack. `TypeCorrect`, `ChainIsRestored` and
`HooksAreNotReentered` follow. On top of it:

- `ErrorsAreKept`, from `ErrorInv`: the exception of a frame that waits for a trace function is the one
  that was fetched (`PendingInv`).
- `CallsAreReportedToEnd`, from `ErrorInv` too: every frame that was called from a traced one, outside of the
  trace function, is still traced (`EventInv`), and inside of it nothing is (`QuietInv`), so that a call cannot
  find the flag switched off when it ends.
- `ErrorsAreHandled`: the call that ends the process is above every evaluation outside of normalisations by more than
  the headroom, less the distance of the two limits. So as long as the distance is less than the headroom,
  an evaluation does not end the process by failing, only by further calls while its exception is normalised. `DepthInv` says that the evaluations outside of
  normalisations are bounded by one of the two limits, and that the call that ends the process exceeds one of
  them by more than the headroom. Each action's lemma also gives `Nests`, which is what `DepthInv` needs to know of
  the frames: a step keeps their kinds and adds one at most, which is a class or has room under one of the limits.

**`CompiledCodeProofs`**, for any functions whose instructions find their operands at the depth of the stack
that CPython computes (`AbsInterpAssumption`), any kinds of arguments and calls (`CompiledCodeAssumption`):

- `AnalysisIsStable`, from `AnalysisInv`: every instruction that has a start state is settled (the states it
  leads to include what it does, and the sources it pops know it as their consumer), in the queue, or the one
  being interpreted. Stability is the case of an empty queue. Joins only raise a state, so a
  settled instruction can become unsettled only when its own state changes, which is when it is queued again. The
  invariant also fixes where a source is on the stack, which the edges need.
- `EdgesAreCounted`, from `BodiesInv`: the passes over the graph change what is escaped and never the number,
  order or kind of the edges; and the instructions on a local are unboxed together or not at all, because
  `deoptimizeInstructions` takes back what `fixLocals` cannot do for all of them.
- `AnalysisHolds` and `SpecializedCodeUnboxes`, from `FrameInv`: a call of the specialised body is at an
  instruction with a start state that describes its stack and locals, unboxed locals have Python's value, and
  an edge unboxes only what a supported kind was predicted for.

The generic body is left out of the last two: it does fail to unbox (section 6).

- `TidyCodeStaysSafe`: in a function that is `Tidy`, neither body, whatever it is called with, reads an object as a
  machine word or the other way round, follows a null reference or uses an unboxed local that Python has as unbound. The
  invariant that carries it is about the analysis: where at most one instruction leads to a filled stack, a
  start state has the sources its predecessor leaves and, in the slots that are only copied, its kinds (`Handed` in
  `FlowInv`; `Connected` is the induction over the paths from the first instruction). Hence all
  slots of one source have one kind (`SourcesFit`), the last consumer of a source speaks for all its edges, and an edge
  that is not escapable has neither end escaped (`Escapes` in `TidyInv`). `TidyFrameInv` then says of a running
  call that each value on the stack is boxed unless its source is escaped, and each local is in the native
  variable or in the frame according to its instructions. Without `EmptyJoins` or `BindingIsKnown` the theorem is
  false: `compiled_join_doc` and `compiled_unbound_doc` are the counterexamples.

**`UnboxedMathProofs`**, for words of any width of at least six bits, any operands, bounds, ranges and sentinel
(`WordAssumption`, `LoopAssumption`). The lemmas find `Pow2`, its monotony and its
quotients; congruence modulo 2^Width is kept by the ring operators and by shifting left, and is equality between words.
`FloorDivideIsPythons` and `ModIsPythons` state what the helpers compute from C's truncated division:
Python's rounding to the lower side and its sign of the remainder, for all words. `ArithmeticIsSound` is
the inductive invariant `IInv`. Its part `MathInv` adds to the two properties that an unboxed value is a word,
and that Python's value is one while it has always fitted: a value that wrapped and comes
back into the range is then equal and not only congruent. `LoopInv` says which iterators have a part
that does not fit. `UnboxedIsExact`, `OverflowIsModular` and `LoopsEndWhereTheyShould` follow.

**`BinaryOperatorsProofs`**, for any operations (`CasesAssumption`) with operands that are guesses or what they are
known to be, the remainder of a bool included, and without an in-place operator on a frozenset
(`OperandsAssumption`): `OperandsAreReleasedOnce`, whose invariant is that both operands are held until the last
piece of code; `CompiledIsPythons` (`DefinedIsSame`) and `KindsArePredicted` (`ResultIsPredicted`). What
the assumption leaves out is what section 6 lists as wrong: going on with the result of a wrong guess or of a
mispredicted power, and changing a frozenset. Not every operation of the run is checked again kind by kind: the
slot functions are first brought into one form (`CallNumberIs`, `NumberOpIs`: what a slot can be given, `Understands`,
and what it makes, `Made`, which does not depend on whose slot it is), and then compared
function by function with Python. `LeftAnswers`, `RightAnswers`, `LeftRepeats` and `RightRepeats` show that each
function comes to the right `Outcome`; the essential lemma is `LeftIsOut`, that when the left function is missing or
declines, Python has no use for the left slot either, and the left operand is no sequence that could have been
repeated or extended. `PathInv` carries this along the paths. The tables need three more lemmas, one each for numbers,
for a number and something else, and for containers, which show that what Python makes has the type of the predicted kind.

**`ILGeneratorProofs`**, for any labels, types, owners, sizes and widths (`GeneratorAssumption`):
`GeneratorIsSound`, the inductive invariant: marked labels lie at or before the end of the code; branches
that wait are in the long form, so that every distance has room; a freed local is in one list, once, under its
type, and nobody holds it. `CodeIsRight` and `LocalsAreNotShared` follow, with lemmas that a number comes
back from its bytes (`BytesAreSigned`) and each load from its form (`LoadsAreExact`).

Only model-checked:

- liveness (`HotCodeIsCompiled`, `AnalysisEnds`), which the prover does not handle under fairness;
- group E, whose properties hold of well-formed byte code only and whose definitions fold over the
  instructions of a function and the steps of every opcode.

## 6. What the checks found

Disagreements that a run shows, with the quoted text in `PROJECT.json` under `findings`:

1. A boxed and an unboxed value that meet on the stack: the later instruction follows the first
   (`compiled_join_doc`).
2. A local stored on one path only is loaded without a check on the other (`compiled_unbound_doc`).
3. The blocks of the compile worker follow the byte code and not the control flow: a finally body runs under
   the handler of its own try (`emitted_handler_doc`). Where the order of the byte code closes one block too
   many, as behind a `return` in an `if` in a `try`, no block is left at the next instruction, `CUR_HANDLER`
   throws (stack.h:115-119) and the function is given up (absint.cpp:2695); that is with unboxing on
   (absint.cpp:1520), as it is by default.

What `Tidy` had to rule out for its proof are three more limits of the same order-of-the-byte-code reasoning: a second
`del` of an unboxed local raises nothing; a local that is unbound on all paths to a load, with no deletion before
it in the byte code, is loaded without a check where a store comes first or, in the generic body, where the
specialised compilation ended with the local assigned; a load of a local that is unbound on some paths only.

Deviations that earlier versions of the runs showed, and that the models still have:

- A recursive call during the first evaluation after a compilation compiles again; the status then
  reaches Optimized without a compilation that had a profile (pyjit.cpp:390, against opt-16.rst:51).
- The generic body unboxes too, and fails for the arguments it exists for (against CHANGELOG.md:42).
- `fs |= s` changes the frozenset `fs` (binarycomp.cpp:297, against opt-13.rst:33).
- Sums, shifts and differences wrap around silently (pycomp.cpp:1950, against opt-16.rst:85).
- The kind of a sum computed from a guessed big integer, and of a builtin, is not guarded, so that an object of
  another kind is read as a float without an error (absvalue.cpp:721, absint.cpp:521, against opt-16.rst:84).

Other deviations from Python that the models have, or leave out of the cases and name:

- An exception that leaves a handler leaves an EXCEPT_HANDLER block on the frame; after 20 rounds of a loop
  the frame has no room. The exception being handled is not restored either (`BlocksAreBalanced`).
- UNPACK_EX goes on with a null iterator and reads a list it failed to make; each value behind the star
  costs a reference; unpacking does not notice items that are left (`ErrorsAreRaised`, `OnlyLiveObjectsAreUsed`).
- The result of a FORMAT_VALUE without a conversion is not checked.
- An exception that leaves a handler leaves the block of the outer try behind (only the handler's own is popped).
  When that try is itself in a handler, the POP_EXCEPT of the latter pops this block, sets `SystemError`
  ("popped block is not an except handler", intrins.cpp:1220) and returns, and the emitted code goes on with the
  error pending. `ErrorsAreRaised` allows this after such an exception only (`ReraiseInHandler` reaches it).
- References are lost in STORE_DEREF, IMPORT_NAME, JUMP_IF_NOT_EXC_MATCH, and of containers whose filling fails
  (`SuccessLeaksNothing`, `FailureReleasesOperands`); the object of a float guard that fails is not released.
- `PyJit_StoreSubscrList` uses the value after releasing it when it fails; the dictionary of
  `PyJit_BuildDictFromTuples` is returned after it was released when an insertion fails.
- `branchRaise` pops one value too many when the stack has unboxed ones (absint.cpp:1240); not modelled.
- A quotient or remainder that equals 2^63 - 1 is reported as a division by zero; `MIN // -1` traps; a
  shift by 64 or more is taken modulo 64; unboxed `+x` of a negative number is its absolute value
  (which Tests/test_math.cpp expects). All in `Unusual`.
- An unboxed loop over a range ends at an item that equals 0x7fffffff; a range with a start, step or length that
  does not fit leaves an OverflowError pending and iterates with -1; items beyond a word wrap around. An
  iterable that is no range is refused, and not released.
- The limit for small integers is 2^60 (absvalue.h), CHANGELOG.md speaks of a billion.
- `x ** -1` has the kind of an integer and is a float, and `negative ** fraction` has the kind Float and
  is complex; adding a bool to such a value raises TypeError. Not among the cases of `operators`.
- The concatenation and repetition variants: `1 + [2]` reaches list_concat with an int on the left, and
  `[..] * [..]` returns a value with an exception set. The properties of `operators` speak of operations that Python defines.
- A NotImplemented that a slot answers is not released.
- A hook drops the pending exception when the thread is already tracing (only possible inside a trace function
  that switched tracing), and what a trace function raises is ignored, so code runs on with an exception pending
  (`PendingWhileFailing`). The cframe is not restored after a C++ exception (`ThreadIsRestored`).
- The JIT keeps the recursion limit it finds when it starts. When the interpreter's limit is lowered by 50 or more, recursion
  of compiled code ends the process, as its RecursionError is then created beyond the interpreter's headroom.
  When it is raised, compiled code that runs while an exception is normalised ends the process from 50 above the old limit
  on, at depths the new one allows (pyjit.cpp:125, `RecursionRecovers`).
- A pointer or size of exactly 32 bits is loaded with its sign extended (ilgen.h:509, `OperandsAreLoaded`).
- The functions that read a code object's state dereference a null pointer when the thread has no index.
- The slice emitters and their helpers are not called by the compile worker; `emit_push_block` passes the type
  in place of the handler and the level (pycomp.cpp:112-114).

## 7. What is not modelled, and why

- *Unboxed floats:* IEEE arithmetic is out of TLC's reach; the sentinel (plus infinity) may follow as a class of values.
- *Generators between tiers:* EmittedCode has yields and resumptions within one body; that a resumed frame may
  enter code compiled since is not modelled.
- *Boxed and unboxed operands of one instruction when it raises*, the async opcodes, the specialised subscripts
  beyond their shape.
- *Profiles of generators and coroutines*, dictionaries of a subclass as globals, attribute names compared as
  pointers, and the probes' flag `hasProbedFlag`, which is read before it is set and relies on locals that
  start at zero.
- *Sequence points, call points, the call of the .NET compiler, its callbacks and memory* (jitinfo.h, jitinit.cpp):
  the compiler is not in the repository; the callbacks answer from constants and tables.
- *Token tables and known methods* (codemodel.cpp, knownmethods.h): constant tables, and one that only grows.
- *Memory reuse:* recompilation overwrites the IL and the table of kinds without freeing them, which does not
  change what the program computes; `PyjionJitFree` is left out with it.
- `dis.py`, `wsgi.py`, the build, the gdb tool and `makeGraph` have no state of the JIT.

------------------------------ MODULE FrameExec ------------------------------
(***************************************************************************)
(* PyJit_ExecuteJittedFrame and the tracing hooks of compiled code: what a *)
(* thread keeps while evaluations nest, the counter of the recursion limit *)
(* and the chain of C frames with their use_tracing flags (pyjit.cpp), and *)
(* what becomes of the pending exception when the hooks call the trace     *)
(* function (intrins.cpp).                                                 *)
(*                                                                         *)
(* The thread runs functions, compiled ones and interpreted ones, that     *)
(* call each other.  The trace function and the class of an exception are  *)
(* any Python code: they call functions, raise, switch tracing.  Whether   *)
(* code has hooks is decided when it is compiled, in its first call; what  *)
(* the interpreter traces is left out.                                     *)
(***************************************************************************)
EXTENDS Sequences, Integers

CONSTANTS
    Code,        \* functions that are compiled
    Uncompiled,  \* functions that stay with the interpreter
    Classes,     \* exception classes written in Python
    JitLimit,    \* the recursion limit when the JIT was started
    Limits,      \* the limits sys.setrecursionlimit is called with
    Headroom     \* what a limit may be exceeded by while an exception is normalised

ASSUME LimitAssumption ==
    JitLimit \in Nat /\ JitLimit > 1 /\ Limits \subseteq Nat /\ Headroom \in Nat \ {0}

VARIABLES
    hooks,       \* per function: "none" before it is compiled, "plain" or "traced"
    frames,      \* evaluations under way, the innermost one last
    cframe,      \* tstate->cframe: of which of them, or 0, one that has been left
    depth,       \* tstate->recursion_depth
    limit,       \* the interpreter's recursion limit
    tracefunc,   \* tstate->c_tracefunc is set
    tracing,     \* tstate->tracing
    exc,         \* the pending exception
    fatal,       \* 0, or the depth of the call that has ended the process:
                 \* Py_FatalError, cannot recover from stack overflow
    hookFailed,  \* history: a trace function has raised
    spoilt       \* history: inside of a trace function, sys.settrace was called or a
                 \* C++ exception caught, so that use_tracing may be set there

vars == <<hooks, frames, cframe, depth, limit, tracefunc, tracing, exc, fatal,
          hookFailed, spoilt>>

Exception == {"none", "error", "SystemError"}

\* A C frame, and where its evaluation is: "entry" and "exit" before the hooks
\* there, "failed" when an operation has failed, "raised" when the error has been
\* traced, "left" behind the exit.  saved is what protected_trace has fetched;
\* history: cut, a callee was left by a C++ exception, and reported, the trace
\* function was told of the call, not of its end, and tracing not switched since.
\* "init" is the call of an exception's class while it is normalised: it has no C
\* frame, use_tracing and previous are those of its caller's.
Frame == [kind : {"base", "code", "hook", "init"}, interpreted : BOOLEAN,
          traced : BOOLEAN, use_tracing : BOOLEAN, previous : Nat,
          pc : {"entry", "body", "failed", "raised", "exit", "left"},
          result : {"value", "null"}, saved : Exception,
          cut : BOOLEAN, reported : BOOLEAN]

Base == [kind |-> "base", interpreted |-> FALSE, traced |-> FALSE,
         use_tracing |-> FALSE, previous |-> 0, pc |-> "body", result |-> "value",
         saved |-> "none", cut |-> FALSE, reported |-> FALSE]

Top == Len(frames)
Running(pcs) == fatal = 0 /\ frames[Top].pc \in pcs

\* tstate->recursion_headroom
Normalising == \E n \in DOMAIN frames : frames[n].kind = "init"

\* A flag read from a C frame that has been left may be anything.
UseTracing == IF cframe = 0 THEN BOOLEAN ELSE {frames[cframe].use_tracing}

\* Stores to tstate->cframe->use_tracing, which may be lost.
WithFlag(fs, n, use) == IF n = 0 THEN fs ELSE [fs EXCEPT ![n].use_tracing = use]

Unsettled(fs) == [n \in DOMAIN fs |-> [fs[n] EXCEPT !.reported = FALSE]]

Init ==
    /\ hooks = [c \in Code |-> "none"]
    /\ frames = <<Base>> /\ cframe = 1 /\ depth = 1
    /\ limit = JitLimit
    /\ tracefunc = FALSE /\ tracing = 0
    /\ exc = "none" /\ fatal = 0
    /\ hookFailed = FALSE /\ spoilt = FALSE

-----------------------------------------------------------------------------
(* Calls *)

\* Mutant: the limit holds for what handles an overflow, too.
Room_Without(max) == max

\* How deep calls may nest under a limit.
Room(max) == IF Normalising THEN max + Headroom ELSE max

Fails ==
    /\ exc' = "error"
    /\ frames' = [frames EXCEPT ![Top].pc = "failed"]

\* The class of the error is called if another one is handled: with headroom, as
\* always, and with the refused call still counted.
Formatted ==
    \/ UNCHANGED fatal
    \/ depth + 2 > limit + Headroom /\ fatal' = depth + 2

\* Mutant: the counter is not taken back.
Refuse_Counted == Fails /\ Formatted /\ depth' = depth + 1 /\ UNCHANGED cframe

Refuse == Fails /\ Formatted /\ UNCHANGED <<cframe, depth>>

Dies == fatal' = depth + 1 /\ UNCHANGED <<frames, cframe, depth, exc>>

Push(f) ==
    /\ frames' = Append(frames, f)
    /\ cframe' = Top + 1
    /\ depth' = depth + 1
    /\ UNCHANGED <<exc, fatal>>

\* Pyjit_CheckRecursiveCall, and the interpreter's own, which differs in the limit.
CheckRecursiveCall(max) ==
    /\ depth + 1 > Room(max)
    /\ IF Normalising THEN Dies ELSE Refuse

EnterRecursiveCall(max, f) ==
    \/ depth + 1 <= Room(max) /\ Push(f)
    \/ CheckRecursiveCall(max)

Entered(use) ==
    [Base EXCEPT !.kind = "code", !.use_tracing = use, !.previous = cframe, !.pc = "entry"]

\* PyJit_ExecuteJittedFrame up to the compiled code.  A first call compiles, with
\* hooks if the thread is tracing.
Call(c) ==
    /\ Running({"body"})
    /\ \E use \in UseTracing :
           /\ hooks' = IF hooks[c] # "none" THEN hooks
                       ELSE [hooks EXCEPT ![c] = IF use /\ tracefunc THEN "traced" ELSE "plain"]
           /\ EnterRecursiveCall(JitLimit, [Entered(use) EXCEPT !.traced = hooks'[c] = "traced"])
    /\ UNCHANGED <<limit, tracefunc, tracing, hookFailed, spoilt>>

\* The interpreter keeps the C frame of its evaluations likewise.
CallInterpreted(c) ==
    /\ Running({"body"})
    /\ \E use \in UseTracing :
           EnterRecursiveCall(limit, [Entered(use) EXCEPT !.interpreted = TRUE])
    /\ UNCHANGED <<hooks, limit, tracefunc, tracing, hookFailed, spoilt>>

\* A function of C, which matters here if it is refused.
CallC ==
    /\ Running({"body"})
    /\ CheckRecursiveCall(limit)
    /\ UNCHANGED <<hooks, limit, tracefunc, tracing, hookFailed, spoilt>>

Raise ==
    /\ Running({"body"}) /\ Fails
    /\ UNCHANGED <<hooks, cframe, depth, limit, tracefunc, tracing, fatal, hookFailed, spoilt>>

\* The class of an exception is called with headroom, if it is to be created.
Overflows == depth + 1 > limit + Headroom /\ Dies

\* PyErr_NormalizeException calls the class, and deals with any error there.
Creates(class) ==
    /\ depth + 1 <= limit + Headroom
    /\ \E use \in UseTracing :
           frames' = Append([frames EXCEPT ![Top].pc = "body"],
                            [Base EXCEPT !.kind = "init", !.use_tracing = use,
                                         !.previous = cframe, !.cut = (cframe = 0)])
    /\ cframe' = IF cframe = 0 THEN 0 ELSE Top + 1
    /\ depth' = depth + 1
    /\ exc' = "none"
    /\ UNCHANGED fatal

\* A handler of the frame: the exception is fetched, normalised and dealt with.
Catch ==
    /\ Running({"raised"}) /\ frames[Top].kind # "init"
    /\ \/ exc # "none" /\ (Overflows \/ \E class \in Classes : Creates(class))
       \/ /\ exc' = "none"
          /\ frames' = [frames EXCEPT ![Top].pc = "body"]
          /\ UNCHANGED <<cframe, depth, fatal>>
    /\ UNCHANGED <<hooks, limit, tracefunc, tracing, hookFailed, spoilt>>

\* The class has failed: its error is fetched and normalised in turn.
Renormalise ==
    /\ Running({"raised"}) /\ frames[Top].kind = "init"
    /\ exc' = "none"
    /\ frames' = [frames EXCEPT ![Top].pc = "body"]
    /\ UNCHANGED <<hooks, cframe, depth, limit, tracefunc, tracing, fatal, hookFailed, spoilt>>

\* A return, or the landing pad of the root handler.
Exit ==
    /\ \/ Running({"body"}) /\ frames' = [frames EXCEPT ![Top].pc = "exit", ![Top].result = "value"]
       \/ Running({"raised"}) /\ frames' = [frames EXCEPT ![Top].pc = "exit", ![Top].result = "null"]
    /\ frames[Top].kind = "code"
    /\ UNCHANGED <<hooks, cframe, depth, limit, tracefunc, tracing, exc, fatal, hookFailed, spoilt>>

\* PyJit_CheckFunctionResult
Checked(result) ==
    CASE result = "null" /\ exc = "none"  -> "SystemError"
      [] result = "value" /\ exc # "none" -> "SystemError"
      [] OTHER                            -> exc

\* The frames without the innermost one; its caller goes on or has failed.
Popped(e) ==
    [SubSeq(frames, 1, Top - 1) EXCEPT ![Top - 1].pc = IF e = "none" THEN "body" ELSE "failed"]

\* Mutant: the frame's C frame is left in place.
Leave_Chain ==
    /\ Running({"left"})
    /\ exc' = Checked(frames[Top].result)
    /\ frames' = Popped(exc')
    /\ depth' = depth - 1
    /\ UNCHANGED <<hooks, cframe, limit, tracefunc, tracing, fatal, hookFailed, spoilt>>

\* PyJit_ExecuteJittedFrame behind the compiled code.
Leave ==
    /\ Running({"left"})
    /\ exc' = Checked(frames[Top].result)
    /\ LET f == frames[Top]
       IN  /\ frames' = WithFlag(Popped(exc'), f.previous, f.use_tracing)
           /\ cframe' = f.previous
    /\ depth' = depth - 1
    /\ UNCHANGED <<hooks, limit, tracefunc, tracing, fatal, hookFailed, spoilt>>

\* The class has been called.
Normalised ==
    /\ Running({"body"}) /\ frames[Top].kind = "init"
    /\ LET f == frames[Top]
       IN  /\ frames' = WithFlag([Popped("none") EXCEPT ![Top - 1].cut = @ \/ f.cut],
                                 f.previous, f.use_tracing)
           /\ cframe' = IF f.cut THEN 0 ELSE f.previous
    /\ depth' = depth - 1
    /\ UNCHANGED <<hooks, limit, tracefunc, tracing, exc, fatal, hookFailed, spoilt>>

\* A C++ exception: the chain of C frames is not restored.
Throw ==
    /\ Running({"body"}) /\ frames[Top].kind = "code" /\ ~frames[Top].interpreted
    /\ exc' = "error"
    /\ frames' = [Popped("error") EXCEPT ![Top - 1].cut = TRUE]
    /\ cframe' = 0
    /\ depth' = depth - 1
    /\ spoilt' = (spoilt \/ tracing > 0)
    /\ UNCHANGED <<hooks, limit, tracefunc, tracing, fatal, hookFailed>>

-----------------------------------------------------------------------------
(* Events *)

\* The trace function has raised: tracing is switched off.
HookFails(fs) ==
    /\ tracefunc' = FALSE /\ hookFailed' = TRUE
    /\ exc' = "error"
    /\ frames' = Unsettled(WithFlag(fs, cframe, FALSE))
    /\ UNCHANGED <<cframe, depth, tracing>>

\* Mutant: the trace function is called whatever runs.
Silent_Off == ~tracefunc

\* trace() does not call the trace function.
Silent == tracing > 0 \/ ~tracefunc

\* protected_trace with its caller at fs afterwards: what is pending is fetched,
\* and put back behind the trace function, which the interpreter may refuse.
\* Without a function, or inside of one, it is not put back.
protected_trace(fs) ==
    /\ IF Silent
       THEN /\ exc' = "none" /\ frames' = fs
            /\ UNCHANGED <<cframe, depth, tracefunc, tracing, fatal, hookFailed>>
       ELSE IF depth + 1 > Room(limit)
       THEN IF Normalising THEN Dies /\ UNCHANGED <<tracefunc, tracing, hookFailed>>
            ELSE HookFails(fs) /\ Formatted
       ELSE /\ tracing' = tracing + 1
            /\ depth' = depth + 1
            /\ cframe' = Top + 1
            /\ exc' = "none"
            /\ frames' = Append(WithFlag([fs EXCEPT ![Top].saved = exc], cframe, FALSE),
                                [Base EXCEPT !.kind = "hook", !.previous = cframe])
            /\ UNCHANGED <<tracefunc, fatal, hookFailed>>
    /\ UNCHANGED <<hooks, limit, spoilt>>

Passed(fs) ==
    /\ frames' = fs
    /\ UNCHANGED <<hooks, cframe, depth, limit, tracefunc, tracing, exc, fatal, hookFailed, spoilt>>

\* Whether the hooks at the entry, the exit and an error of a frame do anything.
Reports == frames[Top].traced /\ frames[Top].use_tracing /\ tracefunc

Told(call) ==
    [frames EXCEPT ![Top].reported = IF Reports /\ tracing = 0 THEN call ELSE @]

TraceFrameEntry ==
    /\ Running({"entry"})
    /\ LET fs == [Told(TRUE) EXCEPT ![Top].pc = "body"]
       IN  IF Reports THEN protected_trace(fs) ELSE Passed(fs)

\* Mutant: a frame that has failed is not reported.
TraceFrameExit_Value ==
    /\ Running({"exit"})
    /\ LET fs == [Told(FALSE) EXCEPT ![Top].pc = "left"]
       IN  IF Reports /\ frames[Top].result = "value" THEN protected_trace(fs)
           ELSE Passed([frames EXCEPT ![Top].pc = "left"])

TraceFrameExit ==
    /\ Running({"exit"})
    /\ LET fs == [Told(FALSE) EXCEPT ![Top].pc = "left"]
       IN  IF Reports THEN protected_trace(fs) ELSE Passed(fs)

\* branchRaise: the exception is normalised for the trace function; its class is
\* one of C here.
TraceFrameException ==
    /\ Running({"failed"})
    /\ LET fs == [frames EXCEPT ![Top].pc = "raised"]
       IN  IF Reports
           THEN \/ protected_trace(fs)
                \/ Overflows /\ UNCHANGED <<hooks, limit, tracefunc, tracing, hookFailed, spoilt>>
           ELSE Passed(fs)

\* A new line: whether the thread is tracing is not asked.
TraceLine ==
    /\ Running({"body"}) /\ frames[Top].traced
    /\ protected_trace(frames)

\* Mutant: what was fetched is not put back.
Restored_Not(f) == "none"

Restored(f) == f.saved

\* The trace function returns, or raises, which switches tracing off; none of the
\* hooks passes its failure on.
HookEnds(fails) ==
    /\ IF fails THEN Running({"raised"}) ELSE Running({"body"})
    /\ frames[Top].kind = "hook"
    /\ LET caller == [SubSeq(frames, 1, Top - 1) EXCEPT ![Top - 1].saved = "none"]
           on == tracefunc /\ ~fails
           n == frames[Top].previous
       IN  /\ frames' = WithFlag(IF fails THEN Unsettled(caller) ELSE caller, n, on)
           /\ cframe' = n
           /\ exc' = IF fails THEN exc ELSE Restored(frames[Top - 1])
           /\ tracefunc' = on
    /\ tracing' = tracing - 1
    /\ depth' = depth - 1
    /\ hookFailed' = (hookFailed \/ fails)
    /\ UNCHANGED <<hooks, limit, fatal, spoilt>>

-----------------------------------------------------------------------------
(* What the program does to the thread *)

\* sys.settrace
SetTrace(on) ==
    /\ Running({"body"}) /\ frames[Top].kind # "init"
    /\ tracefunc' = on
    /\ frames' = Unsettled(WithFlag(frames, cframe, on))
    /\ spoilt' = (spoilt \/ tracing > 0)
    /\ UNCHANGED <<hooks, cframe, depth, limit, tracing, exc, fatal, hookFailed>>

\* sys.setrecursionlimit refuses a limit that has been reached.
SetLimit(n) ==
    /\ Running({"body"}) /\ frames[Top].kind # "init" /\ depth < n
    /\ limit' = n
    /\ UNCHANGED <<hooks, frames, cframe, depth, tracefunc, tracing, exc, fatal,
                   hookFailed, spoilt>>

Next ==
    \/ \E c \in Code : Call(c)
    \/ \E c \in Uncompiled : CallInterpreted(c)
    \/ CallC \/ Raise \/ Catch \/ Renormalise \/ Normalised
    \/ Exit \/ Leave \/ Throw
    \/ TraceFrameEntry \/ TraceFrameExit \/ TraceFrameException \/ TraceLine
    \/ \E fails \in BOOLEAN : HookEnds(fails)
    \/ \E on \in BOOLEAN : SetTrace(on)
    \/ \E n \in Limits : SetLimit(n)

Spec == Init /\ [][Next]_vars

-----------------------------------------------------------------------------
(* Properties *)

TypeOK ==
    /\ hooks \in [Code -> {"none", "plain", "traced"}]
    /\ frames \in Seq(Frame) /\ frames # <<>>
    /\ cframe \in 0..Top
    /\ depth \in Nat /\ limit \in Limits \cup {JitLimit} /\ tracing \in Nat
    /\ tracefunc \in BOOLEAN /\ fatal \in Nat
    /\ exc \in Exception

\* However evaluations nest and end, refused, failed or left by a C++ exception,
\* the counter of the recursion limit is the number of them, and the thread's C
\* frame is that of the innermost one, but for a frame with a callee that a C++
\* exception has left: it must be left itself before the chain is right again
\* (pyjit.cpp:190-203).
ThreadIsRestored ==
    /\ depth = Top
    /\ cframe = Top \/ (frames[Top].cut /\ cframe = 0)

\* The trace function is not called for what happens while it runs
\* (intrins.cpp:2490).
TraceIsNotReentered ==
    LET runs == {n \in DOMAIN frames : frames[n].kind = "hook"}
    IN  /\ \A m, n \in runs : m = n
        /\ tracing = IF runs = {} THEN 0 ELSE 1

Failing ==
    \/ frames[Top].pc \in {"failed", "raised"}
    \/ frames[Top].pc \in {"exit", "left"} /\ frames[Top].result = "null"

\* Hooks neither lose an exception nor leave one behind: an operation that has
\* failed still has its error when a handler or the caller looks for it, unless
\* tracing was switched, or a C++ exception caught, inside of a trace function
\* (intrins.cpp:2551), and code never runs, and never returns a value, with an
\* exception pending, unless a trace function has failed (intrins.cpp:2540).
PendingWhileFailing ==
    /\ ~spoilt /\ Failing => exc # "none"
    /\ ~hookFailed /\ ~Failing => exc = "none"

\* A call that was reported is reported to end, however it ends, unless tracing
\* was switched in between or a C++ exception ended it (absint.cpp:2618).
EventsAreBalanced ==
    frames[Top].pc = "left" => ~frames[Top].reported

\* The distance of the limit the JIT keeps from the interpreter's.
Apart == IF limit > JitLimit THEN limit - JitLimit ELSE JitLimit - limit

\* The evaluations that are not part of the normalisation of an exception.
Ordinary(n) == \A m \in 1..n : frames[m].kind # "init"

\* Recursion ends the process only by calls that are nested in the normalisation of
\* an exception, further than the headroom, if the interpreter's limit is still the
\* one the JIT keeps, or the headroom less their distance (pyjit.cpp:125).
RecursionRecovers ==
    fatal > 0 => \A n \in DOMAIN frames : Ordinary(n) => fatal - n > Headroom - Apart
=============================================================================

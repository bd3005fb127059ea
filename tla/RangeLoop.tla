----------------------------- MODULE RangeLoop -----------------------------
(***************************************************************************)
(* Loops over ranges whose items are machine words (absint.cpp: GET_ITER   *)
(* and FOR_ITER of instructions that are unboxed; intrins.cpp:             *)
(* PyJit_GetUnboxedIter, PyJit_IterNextUnboxed; unboxedrangeobject.cpp).   *)
(*                                                                         *)
(* The body of the loop is arithmetic on the item, as UnboxedMath has it.  *)
(* Every round starts again from the item, next to Python's.  The iterator *)
(* is a copy of three parts of the range in machine words, and its end is  *)
(* a word as well.                                                         *)
(***************************************************************************)
EXTENDS UnboxedMath

CONSTANTS
    Iterables,         \* what the code loops over
    SIG_STOP_ITER      \* stands for the end of an iterator

\* A range by its parts as Python has them, or an object of another type: the kind
\* of an iterable is a guess as long as the name `range` may be rebound.
Iterable == [type : {"range", "other"}, start : Int, step : Int \ {0}, length : Nat]

ASSUME LoopAssumption == Iterables \subseteq Iterable /\ SIG_STOP_ITER \in Word

VARIABLE loop

loopVars == <<vars, loop>>

\* "none": the value is an argument, "new": GET_ITER comes next.
NoLoop == [state |-> "none", index |-> 0, pending |-> FALSE]

LoopInit ==
    /\ Init
    /\ \/ loop = NoLoop
       \/ /\ value = 0
          /\ \E i \in Iterables :
                loop = [state |-> "new", index |-> 0, pending |-> FALSE, over |-> i]

-----------------------------------------------------------------------------

\* A part that does not fit is -1 in the iterator.
Part(n) == IF n \in Word THEN n ELSE -1

Parts(i) == {i.start, i.step, i.length}

\* Nobody looks for the OverflowError of a part.
PyJit_GetUnboxedIter ==
    LET i == loop.over
    IN  IF i.type = "range"
        THEN /\ loop' = [loop EXCEPT !.state = "iterator", !.pending = ~(Parts(i) \subseteq Word)]
             /\ past' = IF loop'.pending THEN "lost" ELSE past
             /\ UNCHANGED raised
        ELSE /\ raised' = "TypeError"
             /\ past' = "lost"
             /\ UNCHANGED loop

GetIter ==
    /\ Running /\ loop.state = "new"
    /\ PyJit_GetUnboxedIter
    /\ UNCHANGED <<unboxMultiply, kind, boxed, value, exact, error>>

\* Mutant: the iterator has one item too many.
HasNext_Late(i) == loop.index <= Part(i.length)

HasNext(i) == loop.index < Part(i.length)

Item(i) == Part(i.start) + loop.index * Part(i.step)

pyjion_rangeiter_next(i) == IF HasNext(i) THEN Wrap(Item(i)) ELSE SIG_STOP_ITER

PythonItem(i) == i.start + loop.index * i.step

\* The word for the end is compared with every item.
ForIter ==
    /\ Running /\ loop.state = "iterator"
    /\ LET i == loop.over
           next == pyjion_rangeiter_next(i)
           after == IF HasNext(i) THEN loop.index + 1 ELSE loop.index
       IN  IF next = SIG_STOP_ITER
           THEN /\ loop' = [loop EXCEPT !.state = "ended", !.index = after]
                /\ UNCHANGED <<kind, boxed, value, exact, past>>
           ELSE /\ loop' = [loop EXCEPT !.index = after]
                /\ kind' = "Integer" /\ boxed' = FALSE
                /\ value' = next
                /\ exact' = PythonItem(i)
                /\ past' = IF loop.pending THEN "lost"
                           ELSE IF PythonItem(i) \in Word THEN "fits" ELSE "wrapped"
    /\ UNCHANGED <<unboxMultiply, raised, error>>

\* The operators of the body, and those behind the loop, need an item.
InBody == loop.state # "none" => loop.state # "new" /\ loop.index > 0

LoopNext ==
    \/ InBody /\ Next /\ UNCHANGED loop
    \/ GetIter
    \/ ForIter

LoopSpec == LoopInit /\ [][LoopNext]_loopVars

-----------------------------------------------------------------------------

\* A loop over a range of words ends where Python's does, with nothing pending:
\* behind the last item, or, which Python's does not, at an item with the word that
\* stands for the end.  What its items are is FitsIsExact.
LoopsArePythons ==
    loop.state \in {"iterator", "ended"} /\ Parts(loop.over) \subseteq Word =>
        /\ ~loop.pending
        /\ loop.index <= loop.over.length
        /\ loop.state = "ended" =>
              \/ loop.index = loop.over.length
              \/ (loop.over.start + (loop.index - 1) * loop.over.step - SIG_STOP_ITER)
                     % Pow2[Width] = 0
=============================================================================

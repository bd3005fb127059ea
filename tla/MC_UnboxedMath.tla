--------------------------- MODULE MC_UnboxedMath ---------------------------
\* Words of 8 bits, in which numbers up to 15 are small, for TLC.
EXTENDS RangeLoop

SmallAndBig == {-15, -3, -2, -1, 0, 1, 2, 3, 5, 9, 15, 100, 200}

range(start, step, length) ==
    [type |-> "range", start |-> start, step |-> step, length |-> length]

\* Ranges upwards, downwards and empty; with the word for the end; past the largest
\* word; with a start, a step or a length that is none; and another iterable.
Loops == {range(1, 1, 3), range(2, -3, 3), range(0, 1, 0), range(5, 1, 4), range(100, 27, 3),
          range(200, 1, 2), range(0, 200, 2), range(-128, 1, 256),
          [range(0, 1, 2) EXCEPT !.type = "other"]}
=============================================================================

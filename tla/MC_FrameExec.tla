----------------------------- MODULE MC_FrameExec -----------------------------
\* A compiled function, an interpreted one and an exception class written in Python.
EXTENDS FrameExec

CONSTANTS compiled, other, class
=============================================================================

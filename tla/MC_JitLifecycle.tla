--------------------------- MODULE MC_JitLifecycle ---------------------------
\* Small instances of JitLifecycle for TLC.
EXTENDS JitLifecycle

CONSTANTS f, t1, t2

OneCode == {f}
OneThread == {t1}
TwoThreads == {t1, t2}
TwoValues == {"smallint", "float"}
=============================================================================

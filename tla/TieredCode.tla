----------------------------- MODULE TieredCode -----------------------------
(***************************************************************************)
(* What the JIT promises of a code object, whatever calls, recursion,      *)
(* threads and settings do: it climbs from cold through profiling to       *)
(* optimized, or is given up; machine code appears below the top tier      *)
(* only, is never replaced once the code object is optimized, and is never *)
(* seen again once it is given up.  JitLifecycle implements this.          *)
(***************************************************************************)
CONSTANTS Owner,      \* whoever keeps a compilation state of its own
          Code,       \* code objects
          Machine,    \* what a compilation can produce
          NoMachine   \* nothing installed

VARIABLES tier, installed

tierVars == <<tier, installed>>

Climbing == {"cold", "profiling"}
Tier == Climbing \cup {"optimized", "failed"}

TierInit ==
    /\ tier = [o \in Owner |-> [c \in Code |-> "cold"]]
    /\ installed = [o \in Owner |-> [c \in Code |-> NoMachine]]

Above(r) == IF r = "cold" THEN "profiling" ELSE "optimized"

Set(f, o, c, x) == [f EXCEPT ![o] = [@ EXCEPT ![c] = x]]

\* New machine code, for a code object that still climbs; it may reach the
\* next tier in the same step.
Install(o, c) ==
    /\ tier[o][c] \in Climbing
    /\ \E m \in Machine : installed' = Set(installed, o, c, m)
    /\ \/ UNCHANGED tier
       \/ tier' = Set(tier, o, c, Above(tier[o][c]))

\* Only code that is installed climbs.
Climb(o, c) ==
    /\ tier[o][c] \in Climbing
    /\ installed[o][c] # NoMachine
    /\ tier' = Set(tier, o, c, Above(tier[o][c]))
    /\ UNCHANGED installed

GiveUp(o, c) ==
    /\ tier[o][c] \in Climbing
    /\ tier' = Set(tier, o, c, "failed")
    /\ installed' = Set(installed, o, c, NoMachine)

TierNext == \E o \in Owner, c \in Code : Install(o, c) \/ Climb(o, c) \/ GiveUp(o, c)

TierSpec == TierInit /\ [][TierNext]_tierVars
=============================================================================

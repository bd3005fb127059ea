---------------------------- MODULE CachedGlobals ----------------------------
(***************************************************************************)
(* LOAD_GLOBAL of one name (absint.cpp, pycomp.cpp).  Every dictionary of  *)
(* CPython 3.10 carries a version tag, and every change of any dictionary  *)
(* takes the next tag of one global counter.  A compilation looks the name *)
(* up, and the code it emits uses the object it found for as long as the   *)
(* two dictionaries of the running frame have the tags they had then;      *)
(* otherwise it looks the name up again.                                   *)
(*                                                                         *)
(* One code object may run in frames of several namespaces, and code that  *)
(* has been replaced may still run: every compilation's result is kept.    *)
(***************************************************************************)
EXTENDS Naturals

CONSTANTS
    Globals,     \* namespaces the code runs in: the dictionaries f_globals
    Builtins,    \* the dictionaries f_builtins
    BuiltinsOf,  \* the one that the frames of a namespace have
    Value,       \* objects the name may be bound to
    Unbound,     \* the name is not a key, or the lookup failed
    MaxTag       \* bound: version tags given out

Dict == Globals \cup Builtins

ASSUME GlobalsAssumption ==
    /\ Globals \cap Builtins = {}
    /\ BuiltinsOf \in [Globals -> Builtins]
    /\ Unbound \notin Value
    /\ MaxTag \in Nat

VARIABLES
    dict,        \* what every dictionary has under the name, and its ma_version_tag
    nextTag,     \* the counter of the tags
    compiled     \* for every compilation: the object it found and the two tags

globalVars == <<dict, nextTag, compiled>>

Resolution == [last : Value \cup {Unbound}, globals : Nat, builtins : Nat]

-----------------------------------------------------------------------------

\* PyJit_LoadGlobal, and the two lookups of the analysis.
LoadGlobal(g) ==
    IF dict[g].value # Unbound THEN dict[g].value
    ELSE dict[BuiltinsOf[g]].value

\* interpret() reads the tags before it looks names up; the dictionaries do not
\* change while it runs.
resolve(g) ==
    [last     |-> LoadGlobal(g),
     globals  |-> dict[g].tag,
     builtins |-> dict[BuiltinsOf[g]].tag]

\* Mutant: the tag of the builtins is not compared.
isCurrent_GlobalsOnly(c, g) == c.last # Unbound /\ dict[g].tag = c.globals

\* The comparisons in front of the cached object; a name that was not found is
\* always looked up.
isCurrent(c, g) ==
    /\ c.last # Unbound
    /\ dict[g].tag = c.globals
    /\ dict[BuiltinsOf[g]].tag = c.builtins

\* Mutant: an object that was found once is used for good.
emit_load_global_Forever(c, g) == IF c.last # Unbound THEN c.last ELSE LoadGlobal(g)

emit_load_global(c, g) == IF isCurrent(c, g) THEN c.last ELSE LoadGlobal(g)

-----------------------------------------------------------------------------

GlobalsInit ==
    /\ dict \in [Dict -> [value : Value \cup {Unbound}, tag : Nat]]
    /\ nextTag \in Nat
    /\ \A d \in Dict : dict[d].tag < nextTag
    /\ \A d, e \in Dict : dict[d].tag = dict[e].tag => d = e
    /\ compiled = {}

\* The name is bound, rebound or deleted: a new tag for the dictionary.
Bind(d, v) ==
    /\ nextTag < MaxTag
    /\ v # dict[d].value
    /\ dict' = [dict EXCEPT ![d] = [value |-> v, tag |-> nextTag]]
    /\ nextTag' = nextTag + 1
    /\ UNCHANGED compiled

\* A frame of namespace g has the code compiled.
Resolve(g) ==
    /\ compiled' = compiled \cup {resolve(g)}
    /\ UNCHANGED <<dict, nextTag>>

GlobalsNext ==
    \/ \E d \in Dict, v \in Value \cup {Unbound} : Bind(d, v)
    \/ \E g \in Globals : Resolve(g)

GlobalsSpec == GlobalsInit /\ [][GlobalsNext]_globalVars

-----------------------------------------------------------------------------

GlobalsTypeOK ==
    /\ dict \in [Dict -> [value : Value \cup {Unbound}, tag : Nat]]
    /\ nextTag \in Nat
    /\ compiled \subseteq Resolution

\* Tags are never shared and never given out again.
TagsAreFresh ==
    /\ \A d \in Dict : dict[d].tag < nextTag
    /\ \A d, e \in Dict : dict[d].tag = dict[e].tag => d = e
    /\ \A c \in compiled : c.globals < nextTag /\ c.builtins < nextTag

\* Whatever was compiled when, for whichever namespace, and whatever has been
\* bound, rebound, deleted or shadowed since: the emitted LOAD_GLOBAL gives the
\* object the interpreter would give (pycomp.cpp:1082-1115).
LoadsAreCurrent ==
    \A c \in compiled, g \in Globals : emit_load_global(c, g) = LoadGlobal(g)
=============================================================================

------------------------- MODULE CachedGlobalsProofs -------------------------
(***************************************************************************)
(* LOAD_GLOBAL's cache is right for every set of namespaces, builtins and  *)
(* objects, every history of bindings and every number of compilations.    *)
(***************************************************************************)
EXTENDS CachedGlobals, TLAPS

\* The tags identify the contents: a resolution whose tags are those of a frame's
\* dictionaries found what a lookup finds now.  LoadsAreCurrent is not inductive
\* without it, nor it without TagsAreFresh: a change takes a tag that no
\* resolution can have.
TagsIdentify ==
    \A c \in compiled, g \in Globals : isCurrent(c, g) => c.last = LoadGlobal(g)

CacheInv == GlobalsTypeOK /\ TagsAreFresh /\ TagsIdentify

LEMMA BuiltinsOfType ==
    ASSUME NEW g \in Globals
    PROVE  g \in Dict /\ BuiltinsOf[g] \in Dict /\ g # BuiltinsOf[g]
  BY GlobalsAssumption DEF Dict

LEMMA LoadGlobalType ==
    ASSUME GlobalsTypeOK, NEW g \in Globals
    PROVE  LoadGlobal(g) \in Value \cup {Unbound}
  BY BuiltinsOfType DEF GlobalsTypeOK, LoadGlobal

LEMMA ResolveType ==
    ASSUME GlobalsTypeOK, NEW g \in Globals
    PROVE  resolve(g) \in Resolution
  BY BuiltinsOfType, LoadGlobalType DEF GlobalsTypeOK, resolve, Resolution

LEMMA CacheInit == GlobalsInit => CacheInv
  BY DEF GlobalsInit, CacheInv, GlobalsTypeOK, TagsAreFresh, TagsIdentify

\* A binding: the dictionary's tag becomes one that no resolution has, so only
\* resolutions of other dictionaries stay current, and those see no change.
LEMMA BindPreserves ==
    ASSUME CacheInv, NEW d \in Dict, NEW v \in Value \cup {Unbound}, Bind(d, v)
    PROVE  CacheInv'
  <1> USE DEF CacheInv
  <1>1. GlobalsTypeOK'
    BY DEF GlobalsTypeOK, Bind
  <1>2. \A e \in Dict : dict'[e] = IF e = d THEN [value |-> v, tag |-> nextTag] ELSE dict[e]
    BY DEF GlobalsTypeOK, Bind
  <1>3. TagsAreFresh'
    <2>1. \A e \in Dict : dict[e].tag \in Nat
      BY DEF GlobalsTypeOK
    <2>2. \A e \in Dict : dict'[e].tag < nextTag'
      BY <1>2, <2>1 DEF GlobalsTypeOK, TagsAreFresh, Bind
    <2>3. \A e, f \in Dict : dict'[e].tag = dict'[f].tag => e = f
      BY <1>2, <2>1 DEF GlobalsTypeOK, TagsAreFresh
    <2>4. \A c \in compiled' : c.globals < nextTag' /\ c.builtins < nextTag'
      BY DEF GlobalsTypeOK, TagsAreFresh, Bind, Resolution
    <2>5. QED
      BY <2>2, <2>3, <2>4 DEF TagsAreFresh
  <1>4. TagsIdentify'
    <2> SUFFICES ASSUME NEW c \in compiled, NEW g \in Globals, isCurrent(c, g)'
                 PROVE  c.last = LoadGlobal(g)'
      BY DEF TagsIdentify, Bind
    <2>1. c.globals # nextTag /\ c.builtins # nextTag
      BY DEF GlobalsTypeOK, TagsAreFresh, Resolution
    <2>2. d # g /\ d # BuiltinsOf[g]
      BY <1>2, <2>1, BuiltinsOfType DEF isCurrent
    <2>3. dict'[g] = dict[g] /\ dict'[BuiltinsOf[g]] = dict[BuiltinsOf[g]]
      BY <1>2, <2>2, BuiltinsOfType
    <2>4. isCurrent(c, g) /\ LoadGlobal(g)' = LoadGlobal(g)
      BY <2>3 DEF isCurrent, LoadGlobal
    <2>5. QED
      BY <2>4 DEF TagsIdentify
  <1>5. QED
    BY <1>1, <1>3, <1>4

\* A compilation: its tags are those of one namespace only, and what it found is
\* what that namespace has.
LEMMA ResolvePreserves ==
    ASSUME CacheInv, NEW n \in Globals, Resolve(n)
    PROVE  CacheInv'
  <1> USE DEF CacheInv
  <1>1. GlobalsTypeOK'
    BY ResolveType DEF GlobalsTypeOK, Resolve
  <1>2. TagsAreFresh'
    BY BuiltinsOfType DEF TagsAreFresh, Resolve, resolve
  <1>3. TagsIdentify'
    <2> SUFFICES ASSUME NEW c \in compiled', NEW g \in Globals, isCurrent(c, g)
                 PROVE  c.last = LoadGlobal(g)
      BY DEF TagsIdentify, Resolve, isCurrent, LoadGlobal
    <2>1. CASE c \in compiled
      BY <2>1 DEF TagsIdentify
    <2>2. CASE c = resolve(n)
      <3>1. dict[g].tag = dict[n].tag
        BY <2>2 DEF isCurrent, resolve
      <3>2. g = n
        BY <3>1, BuiltinsOfType DEF TagsAreFresh
      <3>3. QED
        BY <2>2, <3>2 DEF resolve
    <2>3. QED
      BY <2>1, <2>2 DEF Resolve
  <1>4. QED
    BY <1>1, <1>2, <1>3

\* Tags are never shared or reused, and a resolution whose tags a frame has is
\* what a lookup gives, in every reachable state (absint.cpp:233, pycomp.cpp:1082).
THEOREM CacheIsInvariant == GlobalsSpec => []CacheInv
  <1>1. CacheInv /\ [GlobalsNext]_globalVars => CacheInv'
    <2> SUFFICES ASSUME CacheInv, [GlobalsNext]_globalVars PROVE CacheInv'
      OBVIOUS
    <2>1. CASE \E d \in Dict, v \in Value \cup {Unbound} : Bind(d, v)
      BY <2>1, BindPreserves
    <2>2. CASE \E g \in Globals : Resolve(g)
      BY <2>2, ResolvePreserves
    <2>3. CASE UNCHANGED globalVars
      BY <2>3 DEF globalVars, CacheInv, GlobalsTypeOK, TagsAreFresh, TagsIdentify,
                  isCurrent, LoadGlobal
    <2>4. QED
      BY <2>1, <2>2, <2>3 DEF GlobalsNext
  <1>2. QED
    BY <1>1, CacheInit, PTL DEF GlobalsSpec

\* Type correctness of the dictionaries, the counter of tags and the caches
\* (pycomp.cpp:1082).
THEOREM TypesAreRight == GlobalsSpec => []GlobalsTypeOK
  BY CacheIsInvariant, PTL DEF CacheInv

\* Compiled code loads the object the interpreter would load, in every frame of
\* every namespace and whatever was bound, deleted or shadowed since the code was
\* compiled (pycomp.cpp:1082-1115).
THEOREM CompiledLoadsAreCurrent == GlobalsSpec => []LoadsAreCurrent
  <1>1. CacheInv => LoadsAreCurrent
    BY DEF CacheInv, TagsIdentify, LoadsAreCurrent, emit_load_global
  <1>2. QED
    BY <1>1, CacheIsInvariant, PTL
=============================================================================

----------------------------- MODULE MC_Feedback -----------------------------
\* Two namespaces over one dictionary of builtins, for TLC.
EXTENDS Feedback, TLC

CONSTANTS g1, g2, b, T1, T2

Builtin == [g \in Globals |-> b]

Tag == (g1 :> 0) @@ (g2 :> 1) @@ (b :> 2)

\* A kind that is unboxed without and one that is unboxed with a conversion, the
\* integers too large for it, and a kind that floats add up with to yet another.
Values == {"Float", "Integer", "BigInteger", "Complex"}

\* An attribute that is None before it becomes a number.
AttrValues == {"None", "Float", "Integer"}

Functions == {<<"Call", "Const">>, <<"Call", "Const", "Const">>, <<"Call", "Call", "Const">>,
              <<"Global", "Const">>, <<"Const", "Global", "Call">>, <<"Attr", "Const">>}

Symmetric == Permutations({g1, g2}) \cup Permutations({T1, T2})
=============================================================================

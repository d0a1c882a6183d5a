---------------------------- MODULE KconfigTerms ----------------------------
(* Expressions of the vendored Kconfig library (kconfiglib.py): what they   *)
(* are and how they are built.  An expression is a tuple that starts with   *)
(* its kind:                                                                *)
(*   <<"tri", 0..2>>            the constants n, m and y                    *)
(*   <<"str", text>>            any other constant (quoted) symbol          *)
(*   <<"sym", s>>, <<"choice", c>>   an item                                *)
(*   <<"not", e>>, <<"and", e, f>>, <<"or", e, f>>                          *)
(*   <<r, leaf, leaf>>          a relation r                                *)
EXTENDS Integers, Sequences, FiniteSets

Relations == {"=", "!=", "<", "<=", ">", ">="}
Leaves == {"tri", "str", "sym", "choice"}

N == <<"tri", 0>>
M == <<"tri", 1>>
Y == <<"tri", 2>>
Sym(s) == <<"sym", s>>

IsLeaf(e) == e[1] \in Leaves

Min2(a, b) == IF a < b THEN a ELSE b
Max2(a, b) == IF a > b THEN a ELSE b

\* The constants are single objects, compared by identity.
MakeAnd(e, f) ==
    CASE e = Y -> f
      [] e # Y /\ f = Y -> e
      [] e # Y /\ f # Y /\ N \in {e, f} -> N
      [] OTHER -> <<"and", e, f>>

MakeOr(e, f) ==
    CASE e = N -> f
      [] e # N /\ f = N -> e
      [] e # N /\ f # N /\ Y \in {e, f} -> Y
      [] OTHER -> <<"or", e, f>>
=============================================================================

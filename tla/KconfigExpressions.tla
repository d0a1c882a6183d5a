------------------------ MODULE KconfigExpressions ------------------------
(* Expressions of the vendored Kconfig library (kconfiglib.py; see          *)
(* KconfigTerms): how they are taken apart and searched.                    *)
EXTENDS KconfigTerms

\* The items and constants of an expression.
RECURSIVE ExprItems(_)
ExprItems(e) ==
    IF IsLeaf(e) THEN {e} ELSE UNION {ExprItems(e[i]) : i \in 2..Len(e)}

\* The operands of the top-level uses of op, from left to right.
RECURSIVE SplitExpr(_, _)
SplitExpr(e, op) ==
    IF e[1] = op THEN SplitExpr(e[2], op) \o SplitExpr(e[3], op) ELSE <<e>>

\* Does e force sym to be other than n?  What decides the automatic submenus:
\* the operand that is not sym has to be m or y, or n under "!=".
RECURSIVE ExprDependsOn(_, _)
ExprDependsOn(e, sym) ==
    \/ IsLeaf(e) /\ e = sym
    \/ /\ e[1] = "and"
       /\ ExprDependsOn(e[2], sym) \/ ExprDependsOn(e[3], sym)
    \/ /\ e[1] \in {"=", "!="}
       /\ sym \in {e[2], e[3]}
       /\ LET other == IF e[3] = sym THEN e[2] ELSE e[3]
          IN \/ e[1] = "=" /\ other = M
             \/ other = Y
             \/ e[1] = "!=" /\ other = N
============================================================================

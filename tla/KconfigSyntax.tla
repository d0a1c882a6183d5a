--------------------------- MODULE KconfigSyntax ---------------------------
(* Expressions of the vendored Kconfig library as text: the parser of      *)
(* kconfiglib.py and expr_str().  A token is a leaf of an expression or    *)
(* <<"op", text>>.                                                         *)
EXTENDS KconfigExpressions

Op(text) == <<"op", text>>
End == Op("")

At(toks, i) == IF i <= Len(toks) THEN toks[i] ELSE End

IsSymbol(tok) == tok[1] \in Leaves

\* What was parsed and the index of the next token, 0 if it is malformed.
Malformed == [e |-> N, next |-> 0]

RECURSIVE ParseExpr(_, _, _), ParseAndExpr(_, _, _), ParseFactor(_, _, _)

\* left alone, or left and all that Rest finds after the operator: A op B op C
\* is A op (B op C).
Joined(toks, left, op, kind, Rest(_)) ==
    IF left.next = 0 \/ At(toks, left.next) # Op(op) THEN left
    ELSE LET right == Rest(left.next + 1)
         IN IF right.next = 0 THEN Malformed
            ELSE [e |-> <<kind, left.e, right.e>>, next |-> right.next]

ParseExpr(toks, i, transformM) ==
    Joined(toks, ParseAndExpr(toks, i, transformM), "||", "or",
           LAMBDA j : ParseExpr(toks, j, transformM))

ParseAndExpr(toks, i, transformM) ==
    Joined(toks, ParseFactor(toks, i, transformM), "&&", "and",
           LAMBDA j : ParseAndExpr(toks, j, transformM))

\* In conditions m stands for m && MODULES, other than in relations.
ParseFactor(toks, i, transformM) ==
    LET tok == At(toks, i)
        rel == At(toks, i + 1)
        isRelation == rel[1] = "op" /\ rel[2] \in Relations
    IN CASE IsSymbol(tok) /\ ~isRelation ->
              [e |-> IF transformM /\ tok = M THEN <<"and", M, Sym("MODULES")>> ELSE tok,
               next |-> i + 1]
         [] IsSymbol(tok) /\ isRelation ->
              IF IsSymbol(At(toks, i + 2))
              THEN [e |-> <<rel[2], tok, toks[i + 2]>>, next |-> i + 3] ELSE Malformed
         [] tok = Op("!") ->
              LET f == ParseFactor(toks, i + 1, transformM)
              IN IF f.next = 0 THEN Malformed ELSE [e |-> <<"not", f.e>>, next |-> f.next]
         [] tok = Op("(") ->
              LET p == ParseExpr(toks, i + 1, transformM)
              IN IF p.next # 0 /\ At(toks, p.next) = Op(")")
                 THEN [p EXCEPT !.next = @ + 1] ELSE Malformed
         [] OTHER -> Malformed

\* All of a token sequence, with nothing behind it.
Parsed(toks, transformM) ==
    LET p == ParseExpr(toks, 1, transformM)
    IN IF p.next = Len(toks) + 1 THEN p ELSE Malformed

Braced(toks) == <<Op("(")>> \o toks \o <<Op(")")>>

RECURSIVE ExprStr(_)
\* An operand, in parentheses if it is of the other kind.
Parenthesized(e, kind) == IF e[1] = kind THEN Braced(ExprStr(e)) ELSE ExprStr(e)

ExprStr(e) ==
    CASE IsLeaf(e) -> <<e>>
      [] e[1] = "and" -> Parenthesized(e[2], "or") \o <<Op("&&")>> \o Parenthesized(e[3], "or")
      [] e[1] = "or" -> Parenthesized(e[2], "and") \o <<Op("||")>> \o Parenthesized(e[3], "and")
      [] e[1] = "not" -> <<Op("!")>> \o IF IsLeaf(e[2]) THEN <<e[2]>> ELSE Braced(ExprStr(e[2]))
      [] OTHER -> <<e[2], Op(e[1]), e[3]>>

----------------------------------------------------------------------------
\* The value of an expression for given values of its items, as it is meant;
\* a choice stands for its mode.
RECURSIVE Meaning(_, _)
Meaning(e, given) ==
    CASE e[1] = "tri" -> e[2]
      [] e[1] = "str" -> 0
      [] e[1] \in {"sym", "choice"} -> given[e]
      [] e[1] = "not" -> 2 - Meaning(e[2], given)
      [] e[1] = "and" -> Min2(Meaning(e[2], given), Meaning(e[3], given))
      [] e[1] = "or" -> Max2(Meaning(e[2], given), Meaning(e[3], given))
      [] e[1] \in {"=", "!="} ->
           IF (Meaning(e[2], given) = Meaning(e[3], given)) = (e[1] = "=") THEN 2 ELSE 0

ItemsOf(e) == {x \in ExprItems(e) : x[1] \in {"sym", "choice"}}

SameMeaning(e, f) ==
    \A given \in [ItemsOf(e) \cup ItemsOf(f) -> 0..2] : Meaning(e, given) = Meaning(f, given)
============================================================================

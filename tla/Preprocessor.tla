---------------------------- MODULE Preprocessor ----------------------------
(* The macros of Kconfig files (kconfiglib.py).  A text is a sequence of    *)
(* atoms: "$(", "(", ")", ",", the quotes '"' and "'", "\\", blanks, the    *)
(* operators of assignments, and anything else, which stands for itself.    *)
(* The library replaces a macro in the text and goes on behind what it      *)
(* became; the properties compare this with what a text means.              *)
EXTENDS Integers, Sequences, FiniteSets

CONSTANTS
    Environment,    \* name -> text, the environment variables
    MaxExpansions   \* how deep a function may call itself; 100 in the code

VARIABLES
    variables       \* name -> [value, recursive]

From(s, i) == SubSeq(s, i, Len(s))

\* A text and where to go on in it; ok is FALSE after an error.
Text(s, i) == [ok |-> TRUE, s |-> s, i |-> i]
Failed == [ok |-> FALSE, s |-> <<>>, i |-> 0]

\* F of r unless it failed; the set makes TLC evaluate r once.
Continued(r, F(_)) == CHOOSE b \in {IF x.ok THEN F(x) ELSE Failed : x \in {r}} : TRUE

Digits == {"0", "1", "2"}
Place(digit) == CASE digit = "0" -> 1 [] digit = "1" -> 2 [] digit = "2" -> 3

\* Does the macro stand for an argument of the one around it?
IsArgument(fn, args) == Len(fn) = 1 /\ fn[1] \in Digits /\ Place(fn[1]) <= Len(args)

First(s, i, atoms) ==
    LET found == {j \in i..Len(s) : s[j] \in atoms}
    IN IF found = {} THEN 0 ELSE CHOOSE j \in found : \A k \in found : j <= k

RECURSIVE Scan(_, _, _, _, _), ExpandMacro(_, _, _, _), ExpandWhole(_, _, _, _), FnVal(_, _)

\* A macro from the special atom that is next at or after i.  call is what was
\* read of it: before, the text ahead of it; start, where its current argument
\* starts; args, those that ended; nesting, the open parentheses in it.  open
\* counts the expansions of each variable that are under way (_n_expansions).
Scan(open, s, from, args, call) ==
    LET i == First(s, from, {"$(", "(", ")", ","})
        on(c) == Scan(open, s, i + 1, args, c)
        all == Append(call.args, SubSeq(s, call.start, i - 1))
        closed(value) == Text(call.before \o value \o From(s, i + 1), Len(call.before \o value) + 1)
    IN IF i = 0 THEN Failed
       ELSE CASE s[i] = "(" -> on([call EXCEPT !.nesting = @ + 1])
              [] s[i] = ")" /\ call.nesting > 0 -> on([call EXCEPT !.nesting = @ - 1])
              [] s[i] = ")" /\ call.nesting = 0 ->
                   IF IsArgument(all[1], args) THEN closed(args[Place(all[1][1])])
                   ELSE Continued(FnVal(open, all), LAMBDA v : closed(v.s))
              [] s[i] = "," ->
                   on(IF call.nesting > 0 THEN call ELSE [call EXCEPT !.args = all, !.start = i + 1])
              [] s[i] = "$(" ->
                   Continued(ExpandMacro(open, s, i, args),
                             LAMBDA r : Scan(open, r.s, r.i, args, call))

ExpandMacro(open, s, i, args) ==
    Scan(open, s, i + 1, args,
         [before |-> SubSeq(s, 1, i - 1), start |-> i + 1, args |-> <<>>, nesting |-> 0])

\* Mutant: goes on where the macro was, and so expands what it became.
ExpandWholeAgain(open, s, from, args) ==
    LET i == First(s, from, {"$("})
    IN IF i = 0 THEN Text(s, Len(s) + 1)
       ELSE Continued(ExpandMacro(open, s, i, args), LAMBDA r : ExpandWhole(open, r.s, i, args))

ExpandWhole(open, s, from, args) ==
    LET i == First(s, from, {"$("})
    IN IF i = 0 THEN Text(s, Len(s) + 1)
       ELSE Continued(ExpandMacro(open, s, i, args), LAMBDA r : ExpandWhole(open, r.s, r.i, args))

Count(open, fn) == IF fn \in DOMAIN open THEN open[fn] ELSE 0

\* A variable must not use itself; a function may, but not without end.
Stuck(open, all) ==
    Count(open, all[1]) > IF Len(all) = 1 THEN 0 ELSE MaxExpansions

Opened(open, fn) == [f \in DOMAIN open \cup {fn} |-> Count(open, f) + IF f = fn THEN 1 ELSE 0]

ErrorIf == <<"error-if">>

\* Variables come before functions, which come before the environment.  One
\* that is just being made has no value yet, and reading it raises an exception.
FnVal(open, all) ==
    LET fn == all[1]
    IN CASE fn \in DOMAIN variables ->
              IF Stuck(open, all) THEN Failed
              ELSE Continued(ExpandWhole(Opened(open, fn), variables[fn].value, 1, all),
                             LAMBDA r : r)
         [] fn \notin DOMAIN variables /\ fn \in DOMAIN open -> Failed
         [] fn \notin DOMAIN variables \cup DOMAIN open /\ fn = ErrorIf ->
              IF Len(all) # 3 \/ all[2] = <<"y">> THEN Failed ELSE Text(<<>>, 1)
         [] fn \notin DOMAIN variables \cup DOMAIN open \cup {ErrorIf} ->
              Text(IF fn \in DOMAIN Environment THEN Environment[fn] ELSE <<>>, 1)

NoneOpen == [f \in {} |-> 0]
Expanded(s) == ExpandWhole(NoneOpen, s, 1, <<>>)

\* A quoted string from i on: backslashes are removed and keep what follows
\* from being special.  It ends before r.i.
RECURSIVE ExpandStr(_, _, _)
ExpandStr(s, from, quote) ==
    LET i == First(s, from, {"$(", "\\", quote})
    IN CASE i = 0 -> Failed
         [] i > 0 /\ s[i] = quote -> Text(s, i + 1)
         [] i > 0 /\ s[i] = "\\" -> ExpandStr(SubSeq(s, 1, i - 1) \o From(s, i + 1), i + 1, quote)
         [] OTHER -> Continued(ExpandMacro(NoneOpen, s, i, <<>>),
                               LAMBDA r : ExpandStr(r.s, r.i, quote))

Operators == {"=", ":=", "+="}

\* The left side of an assignment, up to the operator.
RECURSIVE ExpandName(_, _)
ExpandName(s, from) ==
    LET i == First(s, from, {"$("} \cup Operators)
    IN IF i = 0 \/ s[i] # "$(" THEN Text(s, IF i = 0 THEN Len(s) + 1 ELSE i)
       ELSE Continued(ExpandMacro(NoneOpen, s, i, <<>>), LAMBDA r : ExpandName(r.s, r.i))

\* The variables after an assignment, or after macros alone on a line, which
\* have to expand to nothing.  := and += to a variable that was last set with it
\* expand at once.
Assigned(line) ==
    LET lhs == ExpandName(line, 1)
        name == SubSeq(lhs.s, 1, lhs.i - 1)
        op == lhs.s[lhs.i]
        val == From(lhs.s, lhs.i + 1)
        added == op = "+=" /\ name \in DOMAIN variables
        recursive == IF added THEN variables[name].recursive ELSE op # ":="
        made == IF name \in DOMAIN variables THEN NoneOpen ELSE Opened(NoneOpen, name)
        right == IF recursive THEN Text(val, 1) ELSE ExpandWhole(made, val, 1, <<>>)
        value == IF added THEN variables[name].value \o <<" ">> \o right.s ELSE right.s
        bad == [ok |-> FALSE, variables |-> variables]
    IN IF ~lhs.ok THEN bad
       ELSE IF lhs.s = <<>> THEN [bad EXCEPT !.ok = TRUE]
       ELSE IF lhs.i > Len(lhs.s) \/ ~right.ok THEN bad
       ELSE [ok |-> TRUE,
             variables |-> [n \in DOMAIN variables \cup {name} |->
                              IF n = name THEN [value |-> value, recursive |-> recursive]
                              ELSE variables[n]]]

PreprocessorInit == variables = [n \in {} |-> 0]

----------------------------------------------------------------------------
(* What a text means, from its structure: a macro ends at the parenthesis  *)
(* that matches in the text as it was written, its arguments are what the  *)
(* commas outside of parentheses separate there, and an argument or a      *)
(* value, once expanded, is taken as it is.                                *)

Openings(s, i, j) == Len(SelectSeq(SubSeq(s, i, j), LAMBDA a : a \in {"$(", "("}))
Closings(s, i, j) == Len(SelectSeq(SubSeq(s, i, j), LAMBDA a : a = ")"))
Depth(s, i, j) == Openings(s, i, j) - Closings(s, i, j)

RECURSIVE MeaningOf(_, _, _), MeaningsOf(_, _, _)

\* The texts of a sequence, each by itself.
MeaningsOf(open, texts, args) ==
    [k \in DOMAIN texts |-> MeaningOf(open, texts[k], args)]

MeaningOf(open, s, args) ==
    LET i == First(s, 1, {"$("})
        ends == {j \in i..Len(s) : Depth(s, i, j) = 0}
        end == CHOOSE j \in ends : \A k \in ends : j <= k
        commas == {j \in i + 1..end - 1 : s[j] = "," /\ Depth(s, i, j) = 1}
        cuts == {i, end} \cup commas
        nth(n) == CHOOSE c \in cuts : Cardinality({d \in cuts : d < c}) = n - 1
        parts == [n \in 1..Cardinality(commas) + 1 |-> SubSeq(s, nth(n) + 1, nth(n + 1) - 1)]
        call == MeaningsOf(open, parts, args)
        values == [n \in DOMAIN call |-> call[n].s]
        fn == values[1]
        value == CASE IsArgument(fn, args) -> Text(args[Place(fn[1])], 1)
                   [] ~IsArgument(fn, args) /\ fn \in DOMAIN variables ->
                        IF Stuck(open, values) THEN Failed
                        ELSE MeaningOf(Opened(open, fn), variables[fn].value, values)
                   [] OTHER -> FnVal(open, values)
        rest == MeaningOf(open, From(s, end + 1), args)
    IN IF i = 0 THEN Text(s, 0)
       ELSE IF ends = {} \/ \E n \in DOMAIN call : ~call[n].ok THEN Failed
       ELSE IF ~value.ok \/ ~rest.ok THEN Failed
       ELSE Text(SubSeq(s, 1, i - 1) \o value.s \o rest.s, 0)
============================================================================

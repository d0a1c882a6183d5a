------------------------- MODULE MCKconfigLanguage -------------------------
(* Lines for the run of the Kconfig language.  Each vocabulary is there for *)
(* one part of it, and files are all sequences of its lines.                *)
EXTENDS MenuTree

Ln(t) == [t |-> t]
Config(s) == [t |-> "config", sym |-> Sym(s)]
Depends(toks) == [t |-> "depends", toks |-> toks]
IfLine(toks) == [t |-> "if", toks |-> toks]
Prompt(cond) == [t |-> "type", type |-> "bool", prompt |-> TRUE, cond |-> cond]
Select(s, cond) == [t |-> "select", sym |-> Sym(s), cond |-> cond]
Default(value, cond) == [t |-> "default", type |-> None, value |-> value, cond |-> cond]
ChoiceLine(name) == [t |-> "choice", name |-> name]
Files(names, obligatory) == [t |-> "source", files |-> names, obligatory |-> obligatory]
Assign(text) == [t |-> "assign", text |-> text]

A == Sym("A")
B == Sym("B")
C == Sym("C")

Up(most, lines) == [lines |-> lines, most |-> most]

\* Blocks in blocks, and lines where they must not be.
Blocks == Up(6, {Config("A"), Ln("menu"), IfLine(<<A>>), Ln("endif"), Ln("endmenu"),
                 ChoiceLine("CH"), Ln("endchoice")})
\* Files in files, with help texts.
Sources == Up(5, {Config("A"), Files(<<"x", "y">>, TRUE), Files(<<>>, FALSE), Files(<<>>, TRUE),
                  [t |-> "help", texts |-> 1], Ln("blank"), Ln("menu"), Ln("endmenu")})
\* Dependencies that make submenus.
Trees == Up(6, {Config("A"), Config("B"), Prompt(<<>>), Prompt(<<A>>), Depends(<<A, Op("||"), B>>),
                IfLine(<<A, Op("!="), Y>>), Ln("endif"),
                Depends(<<Op("!"), Op("("), A, Op("&&"), M, Op(")")>>)})
Menus == Up(6, {Config("A"), Prompt(<<>>), Depends(<<A>>), Ln("menu"), Ln("endmenu"),
                [t |-> "visible", toks |-> <<B>>], ChoiceLine("CH"), Ln("endchoice")})
\* Dependencies that loop.
Loops == Up(6, {Config("A"), Config("B"), ChoiceLine(None), Ln("endchoice"), Select("A", <<B>>),
                Default(<<B>>, <<>>), Default(<<A>>, <<A>>), Depends(<<A>>)})
\* Loops through a choice and a symbol outside of it.
Choices == Up(7, {ChoiceLine(None), Config("A"), Config("B"), Ln("endchoice"), Config("C"), Prompt(<<C>>),
                  Default(<<Y>>, <<B>>)})
\* Properties, good and bad, of good and bad items.
Properties1 == Up(4, {Config("A"), [t |-> "config", sym |-> Y], ChoiceLine("CH"), Ln("optional"),
                      Ln("comment"), Ln("mainmenu"), [t |-> "prompt", cond |-> <<A, A>>],
                      [t |-> "range", low |-> A, high |-> <<"str", <<"9">>>>, cond |-> <<>>],
                      [t |-> "imply", sym |-> B, cond |-> <<>>], [t |-> "env", name |-> <<"a">>]})
\* Variables, and a default in quotes.
Macros == Up(3, {Assign(<<"f", "=", "$(", "1", ")">>), Assign(<<"f", ":=", "a">>),
                 Assign(<<"f", "+=", "$(", "a", ")">>), Assign(<<"a", "=", "$(", "f", ",", ")", ")">>),
                 Assign(<<"$(", "a", ")", ":=", "$(", "f", ",", "1", ")">>),
                 Assign(<<"$(", "error-if", ",", "y", ",", "a", ")">>),
                 Config("A"), [t |-> "string", text |-> <<"\\", "$(", "$(", "a", ")", "\"">>, cond |-> <<>>]})

All == {Blocks, Sources, Trees, Menus, Loops, Choices, Properties1, Macros}

Vars == [n \in {<<"a">>} |-> <<"$(", "f", ")", ",">>]
Atoms == {"$(", ")", "(", ",", "a", "f", "1"}
ShortTexts == UNION {[1..n -> Atoms] : n \in 1..3}
LongTexts == {<<"$(">> \o t \o <<")">> : t \in [1..3 -> Atoms]}
             \cup {<<"$(", "f", ",">> \o t \o <<")">> : t \in UNION {[1..n -> Atoms] : n \in 1..3}}
AllTexts == ShortTexts \cup LongTexts
============================================================================

---------------------------- MODULE UserSettings ----------------------------
(* What the user has set of a configuration (kconfiglib.py): the values and  *)
(* the selections of choices, how they are set and unset, and what loading a *)
(* configuration file makes of them.                                         *)
(*                                                                         *)
(* The settings st are a record with the fields user, selected, cache (see  *)
(* SymbolValues) and was, the items that have _was_set, which only a load   *)
(* that replaces everything takes from them.                                *)
(*                                                                         *)
(* A file is a sequence of lines [kind, name, val]:                        *)
(*   "set"    NAME=val, of which bools and tristates keep the first        *)
(*            character and strings what is between the quotes             *)
(*   "bare"   NAME=val where val is not a string literal                   *)
(*   "unset"  # NAME is not set                                            *)
(*   "other"  comments, blank and malformed lines                          *)
EXTENDS Integers, Sequences

CONSTANTS
    Symbols, Choices,
    Tree,                 \* item -> its properties, of which type, choice and prompts are read
    Numeral,              \* type -> strings that are numerals in its base -> their value
    Invalidated(_, _),    \* what invalidating items leaves of a cache
    None

Items == Symbols \cup Choices

OrigType(i) == Tree[i].type
IsTri(i) == OrigType(i) \in {"bool", "tristate"}
InChoice(s) == s \in Symbols /\ Tree[s].choice # None
HasPrompt(s) == Tree[s].prompts # <<>>
TriStr == <<"n", "m", "y">>
IsNumber(type, text) == text \in DOMAIN Numeral[type]

Valid(i, v) ==
    CASE OrigType(i) = "bool" -> v \in {0, 2}
      [] OrigType(i) = "tristate" -> v \in 0..2
      [] OrigType(i) = "string" -> TRUE
      [] OrigType(i) = "int" -> IsNumber("int", v)
      [] OrigType(i) = "hex" -> IsNumber("hex", v) /\ Numeral["hex"][v] >= 0

\* User values have no effect without a prompt.
Affecting(is) == {i \in is : i \in Choices \/ HasPrompt(i)}

\* Mutant: y does not make a choice symbol the selection.
SetValueOnly(st, s, v) ==
    IF ~Valid(s, v) THEN st
    ELSE [st EXCEPT !.user[s] = v, !.was = @ \cup {s}, !.cache = Invalidated(@, Affecting({s}))]

\* The value stays as it is if it is the old one or invalid.  A choice symbol
\* is set even to its old value, since y makes it the selection again.
SetValue(st, s, v) ==
    LET remembered == [st EXCEPT !.was = @ \cup {s}]
        stored == [remembered EXCEPT !.user[s] = v]
        ch == Tree[s].choice
    IN IF v = st.user[s] /\ ch = None THEN remembered
       ELSE IF ~Valid(s, v) THEN st
       ELSE IF ch # None /\ v = 2
            THEN [stored EXCEPT !.selected[ch] = s, !.was = @ \cup {ch},
                                !.cache = Invalidated(@, {ch})]
       ELSE [stored EXCEPT !.cache = Invalidated(@, Affecting({s}))]

SetMode(st, ch, v) ==
    IF v = st.user[ch] THEN [st EXCEPT !.was = @ \cup {ch}]
    ELSE IF ~Valid(ch, v) THEN st
    ELSE [st EXCEPT !.user[ch] = v, !.was = @ \cup {ch}, !.cache = Invalidated(@, {ch})]

\* Unset the items of a set.  Those that have nothing keep their caches; one
\* after the other, the rest invalidates the same as all at once.
UnsetEach(st, is) ==
    LET given == {i \in is : st.user[i] # None \/ (i \in Choices /\ st.selected[i] # None)}
    IN [st EXCEPT !.user = [i \in Items |-> IF i \in is THEN None ELSE @[i]],
                  !.selected = [ch \in Choices |-> IF ch \in is THEN None ELSE @[ch]],
                  !.cache = Invalidated(@, Affecting(given))]

----------------------------------------------------------------------------
TriOfStr(char) == CHOOSE v \in 0..2 : TriStr[v + 1] = char

\* m and y in a choice set its mode before the symbol is set.
Moded(st, s, v) == IF InChoice(s) /\ v # 0 THEN SetMode(st, Tree[s].choice, v) ELSE st

AssignTri(st, s, v) == SetValue(Moded(st, s, v), s, v)

Accepted(s) == IF OrigType(s) = "bool" THEN {"y", "n"} ELSE {"y", "m", "n"}

\* What is set again has an old value, which _assigned_twice() reports, but for
\* what has been unset: there is no text for the None of a bool or tristate, which
\* raises a KeyError.
NothingToReport(st, s) == s \in st.was /\ st.user[s] = None

\* One line, for at = [st, missing, error]: nothing is read behind a line that
\* raises.  Invalid values and malformed literals are ignored, assignments to
\* undefined symbols are remembered.
LoadLine(at, line) ==
    LET s == line.name
        char == IF line.kind = "unset" THEN "n" ELSE line.val
        v == TriOfStr(char)
    IN IF at.error # "none" \/ line.kind = "other" THEN at
       ELSE IF s \notin Symbols THEN [at EXCEPT !.missing = Append(@, <<s, char>>)]
       ELSE IF IsTri(s)
            THEN IF char \notin Accepted(s) THEN at
                 ELSE IF NothingToReport(at.st, s)
                 THEN [at EXCEPT !.st = Moded(@, s, v), !.error = "KeyError"]
                 ELSE [at EXCEPT !.st = AssignTri(@, s, v)]
       ELSE IF line.kind = "unset" \/ (line.kind = "bare" /\ OrigType(s) = "string") THEN at
       ELSE [at EXCEPT !.st = SetValue(@, s, line.val)]

LoadLines(at, lines) ==
    LET after[k \in 0..Len(lines)] == IF k = 0 THEN at ELSE LoadLine(after[k - 1], lines[k])
    IN after[Len(lines)]

\* A load that replaces starts as if nothing had been set, but keeps the values.
LoadStart(st, known, replace) ==
    [st |-> IF replace THEN [st EXCEPT !.was = {}] ELSE st,
     missing |-> IF replace THEN <<>> ELSE known,
     error |-> "none"]

\* Mutant: the rest keeps what it had.
LoadConfigMerges(st, known, lines, replace) == LoadLines(LoadStart(st, known, replace), lines)

\* A load that replaces unsets what the file did not set, without unsetting
\* the rest first.
LoadConfig(st, known, lines, replace) ==
    LET end == LoadLines(LoadStart(st, known, replace), lines)
    IN IF replace /\ end.error = "none" THEN [end EXCEPT !.st = UnsetEach(@, Items \ @.was)] ELSE end

\* Does the file set a choice symbol to m?
MakesModular(lines) ==
    \E k \in DOMAIN lines : lines[k].val = "m" /\ lines[k].name \in Symbols /\ InChoice(lines[k].name)
=============================================================================

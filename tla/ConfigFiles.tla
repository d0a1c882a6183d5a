---------------------------- MODULE ConfigFiles ----------------------------
(* The files of the vendored Kconfig library: what a configuration, a      *)
(* minimal configuration and a header say of the values of SymbolValues,   *)
(* and what a load makes of a library that was used before.               *)
EXTENDS SymbolValues

CONSTANTS
    \* Fields of Kconfigs that are read here:
    \*   order     the symbols in the order of their definitions
    \*   inputs    the files that a user may load
    MaxMissing   \* bound: assignments to undefined symbols that are remembered

VARIABLES
    missing      \* Kconfig.missing_syms

Order == kconf.order
Inputs == kconf.inputs

fileVars == <<valueVars, missing>>

Line(kind, name, val) == [kind |-> kind, name |-> name, val |-> val]

----------------------------------------------------------------------------
(* Writing *)

\* The state with all values calculated, from the caches as far as they go.
Calculated(st) == EvaluateEach(st, Symbols \X {"value"})

VisibilityIn(full, s) == full.cache[<<s, "vis">>]
TriOf(full, s) == full.cache[<<s, "value">>].tri
TextOf(full, s) == full.cache[<<s, "value">>].text
Written(full, s) == full.cache[<<s, "value">>].write

\* config_string, as a sequence of one line or none.
ConfigString(full, s) ==
    IF ~Written(full, s) THEN <<>>
    ELSE IF IsTri(s) /\ TextOf(full, s) = "n" THEN <<Line("unset", s, "n")>>
    ELSE <<Line("set", s, TextOf(full, s))>>

RECURSIVE Concat(_, _)
Concat(lines, k) == IF k > Len(Order) THEN <<>> ELSE lines[Order[k]] \o Concat(lines, k + 1)

\* Every symbol once, where it is defined first; menus and comments give only
\* lines of the kind "other" and are left out.
ConfigContents(full) == Concat([s \in Symbols |-> ConfigString(full, s)], 1)

\* The value that a symbol would have without the user, as text.
StrDefault(full, s) ==
    IF ~IsTri(s) THEN DefaultText(full, s).v.text
    ELSE IF InChoice(s) THEN "n"
    ELSE LET levels == {ExprValue(full, e).v : e \in {Tree[s].rev, Tree[s].weak}} \cup {DefaultTri(full, s).v}
         IN TriStr[Promoted(full, s, CHOOSE v \in levels : \A w \in levels : w <= v).v + 1]

\* Is the symbol y by default in a choice that can only be y?
ChosenByDefault(full, s) ==
    /\ InChoice(s) /\ OrigType(s) = "bool" /\ TextOf(full, s) = "y"
    /\ ~Tree[Tree[s].choice].optional
    /\ DefaultSelection(full, Tree[s].choice, 1).v = s

\* Mutant: what is set visibly is taken for the default of a choice symbol.
MinKeepsNoChoice(full, s) ==
    ~InChoice(s) /\ VisibilityIn(full, s) # 0 /\ TextOf(full, s) # StrDefault(full, s)

\* The minimal configuration leaves out what cannot be changed and what has
\* its default.
MinKeeps(full, s) ==
    /\ InChoice(s) \/ VisibilityIn(full, s) > ExprValue(full, Tree[s].rev).v
    /\ TextOf(full, s) # StrDefault(full, s)
    /\ ~ChosenByDefault(full, s)

MinContents(full) ==
    Concat([s \in Symbols |-> IF MinKeeps(full, s) THEN ConfigString(full, s) ELSE <<>>], 1)

----------------------------------------------------------------------------
FilesInit == ValuesInit /\ missing = <<>>

\* A KeyError leaves what the lines before it did.
Load(k, replace) ==
    LET end == LoadConfig(Given, missing, Inputs[k], replace)
    IN /\ Len(end.missing) <= MaxMissing
       /\ Take(end.st)
       /\ missing' = end.missing

\* Writing any of the files calculates the values.
Write ==
    /\ \E full \in {Calculated(Given)} : full # Given /\ Take(full)
    /\ UNCHANGED missing

----------------------------------------------------------------------------
Pristine == [user |-> [i \in Items |-> None], selected |-> [ch \in Choices |-> None],
             cache |-> NoCache, was |-> {}]

\* The values that a tool sees after loading lines into st.
TextsOf(full) == [s \in Symbols |-> TextOf(full, s)]
ValuesAfter(st, lines) == TextsOf(Calculated(LoadConfig(st, <<>>, lines, TRUE).st))

\* A load that replaces the configuration gives the values that the file gives
\* to a library that has just started, for files that set no choice symbol to m.
LoadReplaces ==
    \A k \in DOMAIN Inputs :
        MakesModular(Inputs[k]) \/ ValuesAfter(Given, Inputs[k]) = ValuesAfter(Pristine, Inputs[k])

\* No default gives more than what a user may set.
DefaultsAreSettable(full) ==
    \A s \in Symbols : IsTri(s) /\ ~InChoice(s) =>
        VisibilityIn(full, s) \in {0, 2} \/ TriOf(full, s) <= VisibilityIn(full, s)

\* Is a bool the selection of a tristate choice?
BoolChosen(full) ==
    \E s \in Symbols : /\ InChoice(s) /\ OrigType(s) = "bool"
                       /\ OrigType(Tree[s].choice) = "tristate" /\ TextOf(full, s) = "y"

\* A configuration that is written and loaded again has the same values, as
\* long as no default exceeds the visibility of its symbol; so has a minimal
\* configuration, as long as no bool is the selection of a tristate choice.
RoundTrip ==
    \A full \in {Calculated(Given)} :
        \A lines \in (IF DefaultsAreSettable(full) THEN {ConfigContents(full)} ELSE {})
                      \cup (IF BoolChosen(full) THEN {} ELSE {MinContents(full)}) :
            ValuesAfter(Pristine, lines) = TextsOf(full)
============================================================================

----------------------------- MODULE MCSyncDeps -----------------------------
(* Configuration systems for the run of the Kconfig library, each with what *)
(* it is there for.                                                        *)
EXTENDS KconfigLibrary, KconfigSystems

\* MODULES that depends on a symbol, a select under a condition that a menu
\* adds, an imply, and prompts at m.
\*   config A: tristate "a"; imply D
\*   config B: tristate "b" if A; default y if A
\*     select D if A != m
\*   config MODULES: bool "modules"; depends on X
\*   config D: tristate "d"; depends on X || B
DepsOrder == <<"X", "MODULES", "A", "B", "D">>
DepsTree ==
    "X" :> Symbol("bool")
    @@ "MODULES" :> [Symbol("bool") EXCEPT !.prompts = <<Sym("X")>>, !.dep = Sym("X")]
    @@ "A" :> Symbol("tristate")
    @@ "B" :> [Symbol("tristate") EXCEPT !.prompts = <<Sym("A")>>,
                 !.defaults = <<Dflt(Y, Sym("A"))>>, !.dep = Sym("A")]
    @@ "D" :> [Symbol("tristate") EXCEPT
                 !.prompts = <<<<"or", Sym("X"), Sym("B")>>>>,
                 !.rev = <<"and", Sym("B"), <<"!=", Sym("A"), M>>>>,
                 !.weak = Sym("A"), !.dep = <<"or", Sym("X"), Sym("B")>>]
DepsOffered ==
    "X" :> {0, 2} @@ "MODULES" :> {1, 2} @@ "A" :> 0..2 @@ "B" :> {0, 1} @@ "D" :> {1}
DepsReadable == {<<"D", "value">>, <<"B", "vis">>, <<"A", "assignable">>}

----------------------------------------------------------------------------
\* A tristate choice that W shows at m or y, of which one symbol is a bool and
\* another depends on W as well.
\*   choice CH: tristate "ch" if W; optional; default R if W = y
\*   P, Q: tristate; R: bool; Q depends on W
ChoiceOrder == <<"MODULES", "W", "P", "Q", "R">>
ChoiceTree ==
    "MODULES" :> Symbol("bool")
    @@ "W" :> Symbol("tristate")
    @@ "CH" :> Choice(<<"P", "Q", "R">>, <<Sym("W")>>, <<Dflt("R", <<"=", Sym("W"), Y>>)>>)
    @@ "P" :> Member("tristate", "CH", Y)
    @@ "Q" :> Member("tristate", "CH", Sym("W"))
    @@ "R" :> Member("bool", "CH", Y)
ChoiceOffered ==
    "MODULES" :> {2} @@ "W" :> {1, 2} @@ "CH" :> {1, 2}
    @@ "P" :> {1, 2} @@ "Q" :> {2} @@ "R" :> {}
ChoiceReadable == {<<"P", "value">>, <<"Q", "vis">>, <<"CH", "selection">>}

----------------------------------------------------------------------------
\* Numbers and strings.
\*   config LOW: int "low"; default 5
\*   config I: int "i"; range LOW 12 if X; default 3
\*   config H: hex "h" if I >= LOW; range 0x5 0xc; default I
\*   config S: string; default "a" if H != I
NumberOrder == <<"X", "LOW", "I", "H", "S">>
NumberTree ==
    "X" :> Symbol("bool")
    @@ "LOW" :> [Symbol("int") EXCEPT !.defaults = <<Dflt(Str("5"), Y)>>]
    @@ "I" :> [Symbol("int") EXCEPT !.ranges = <<Limits(Sym("LOW"), Str("12"), Sym("X"))>>,
                                    !.defaults = <<Dflt(Str("3"), Y)>>]
    @@ "H" :> [Symbol("hex") EXCEPT !.prompts = <<<<">=", Sym("I"), Sym("LOW")>>>>,
                                    !.ranges = <<Limits(Str("0x5"), Str("0xc"), Y)>>,
                                    !.defaults = <<Dflt(Sym("I"), Y)>>]
    @@ "S" :> [Symbol("string") EXCEPT !.prompts = <<>>,
                                    !.defaults = <<Dflt(Str("a"), <<"!=", Sym("H"), Sym("I")>>)>>]
NumberOffered ==
    "X" :> {2} @@ "LOW" :> {"7"} @@ "I" :> {"3", "7", "12", "a"} @@ "H" :> {"7", "12"} @@ "S" :> {}
NumberReadable == {<<"S", "value">>, <<"H", "vis">>, <<"I", "value">>}

----------------------------------------------------------------------------
(*   config MODULES: bool "modules"                                        *)
(*   choice CH: tristate "ch"; default R; P: tristate; R: bool             *)
(*   config T: bool "t" if P != n; default y; select E                     *)
(*   config E: bool "e"                                                    *)
(*   config I: int "i" if T; range 5 12 if T; default 3                    *)
(*   config S: string "s"; default "a" if E                                *)

FileOrder == <<"MODULES", "P", "R", "T", "E", "I", "S">>
FileTree ==
    "MODULES" :> Symbol("bool")
    @@ "CH" :> [Choice(<<"P", "R">>, <<Y>>, <<Dflt("R", Y)>>) EXCEPT !.optional = FALSE]
    @@ "P" :> Member("tristate", "CH", Y)
    @@ "R" :> Member("bool", "CH", Y)
    @@ "T" :> [Symbol("bool") EXCEPT !.prompts = <<<<"!=", Sym("P"), N>>>>,
                                     !.defaults = <<Dflt(Y, <<"!=", Sym("P"), N>>)>>]
    @@ "E" :> [Symbol("bool") EXCEPT !.rev = Sym("T")]
    @@ "I" :> [Symbol("int") EXCEPT !.prompts = <<Sym("T")>>,
                                    !.ranges = <<Limits(Str("5"), Str("12"), Sym("T"))>>,
                                    !.defaults = <<Dflt(Str("3"), Y)>>]
    @@ "S" :> [Symbol("string") EXCEPT !.defaults = <<Dflt(Str("a"), Sym("E"))>>]
FileOffered ==
    "MODULES" :> {} @@ "CH" :> {2} @@ "P" :> {2} @@ "R" :> {} @@ "T" :> {0}
    @@ "E" :> {} @@ "I" :> {} @@ "S" :> {}
FileReadable == {<<"E", "value">>}
FileInputs ==
    << << Line("set", "MODULES", "y"), Line("set", "P", "m"), Line("set", "I", "7"),
          Line("set", "I", "a"), Line("set", "GONE", "y") >>,
       << Line("unset", "P", "n"), Line("set", "R", "y"), Line("unset", "I", "n"),
          Line("other", "", ""), Line("unset", "OLD", "n"), Line("bare", "S", "7") >>,
       << Line("set", "P", "m"), Line("set", "S", "a"), Line("set", "E", "m") >> >>

----------------------------------------------------------------------------
(*   config T: tristate "t"                                                *)
(*   config I: int "i" if T; range 5 12 if T                               *)
(*   config S: string "s" if T = y; default "a" if T                       *)

SyncOrder == <<"MODULES", "T", "I", "S">>
SyncTree ==
    "MODULES" :> [Symbol("bool") EXCEPT !.defaults = <<Dflt(Y, Y)>>]
    @@ "T" :> Symbol("tristate")
    @@ "I" :> [Symbol("int") EXCEPT !.prompts = <<Sym("T")>>,
                                    !.ranges = <<Limits(Str("5"), Str("12"), Sym("T"))>>]
    @@ "S" :> [Symbol("string") EXCEPT !.prompts = <<<<"=", Sym("T"), Y>>>>,
                                       !.defaults = <<Dflt(Str("a"), Sym("T"))>>]
SyncOffered == "MODULES" :> {} @@ "T" :> {1, 2} @@ "I" :> {"7"} @@ "S" :> {}

----------------------------------------------------------------------------
Systems ==
    { System(DepsOrder, {}, DepsTree, "MODULES", DepsOffered, DepsReadable),
      System(ChoiceOrder, {"CH"}, ChoiceTree, "MODULES", ChoiceOffered, ChoiceReadable),
      System(NumberOrder, {}, NumberTree, None, NumberOffered, NumberReadable),
      [System(FileOrder, {"CH"}, FileTree, "MODULES", FileOffered, FileReadable)
         EXCEPT !.inputs = FileInputs],
      [System(SyncOrder, {}, SyncTree, "MODULES", SyncOffered, {}) EXCEPT !.syncs = TRUE] }

\* All names that are defined, or were when auto.conf was written.
AllNames == UNION {k.symbols : k \in Systems} \cup {"GONE"}

AllTexts == Elements(Strings) \cup {"n", "m", "y"}

\* View: of was, only loads read whether there is something to report of a bool or
\* tristate, so that states which differ in the rest of it are one.
LoadView == <<kconf, dependents, user, selected, cache, missing, syncVars,
              IF Inputs = <<>> THEN {} ELSE {s \in Symbols : IsTri(s) /\ NothingToReport(Given, s)}>>
============================================================================

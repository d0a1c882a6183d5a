---------------------------- MODULE MCMenuconfig ----------------------------
(* Configuration systems for the terminal interface.                        *)
EXTENDS Menuconfig, KconfigSystems

\* A node with the nodes below it, and what the menu nodes have besides.
ANode(item, parent, list, prompt, menuconfig) ==
    [item |-> item, parent |-> parent, list |-> list, prompt |-> prompt, visibility |-> Y,
     menuconfig |-> menuconfig]
TopNode(list) == ANode(<<"menu">>, 0, list, <<Y>>, TRUE)

\* A submenu in place, one behind a menuconfig symbol, and more lines than the
\* window has.
\*   config A: bool "a";  comment: depends on A
\*   menuconfig C: bool "c"; default y;  two comments: depends on C
\*   comment
NavOrder == <<"A", "C">>
NavTree ==
    "A" :> Symbol("bool") @@ "C" :> [Symbol("bool") EXCEPT !.defaults = <<Dflt(Y, Y)>>]
NavNodes ==
    << TopNode(<<2, 4, 7>>),
       ANode(Sym("A"), 1, <<3>>, <<Y>>, FALSE), ANode(<<"comment">>, 2, <<>>, <<Sym("A")>>, FALSE),
       ANode(Sym("C"), 1, <<5, 6>>, <<Y>>, TRUE), ANode(<<"comment">>, 4, <<>>, <<Sym("C")>>, FALSE),
       ANode(<<"comment">>, 4, <<>>, <<Sym("C")>>, FALSE), ANode(<<"comment">>, 1, <<>>, <<Y>>, FALSE) >>

\* A choice, and a menu that is visible as long as one symbol of it is chosen.
\*   choice CH: bool "ch"; P, Q: bool
\*   menu: visible if Q;  config E: bool "e";  a comment that never is visible
ChNodes ==
    << TopNode(<<2, 5, 7>>),
       ANode(<<"choice", "CH">>, 1, <<3, 4>>, <<Y>>, TRUE),
       ANode(Sym("P"), 2, <<>>, <<<<"choice", "CH">>>>, FALSE),
       ANode(Sym("Q"), 2, <<>>, <<<<"choice", "CH">>>>, FALSE),
       [ANode(<<"menu">>, 1, <<6>>, <<Y>>, TRUE) EXCEPT !.visibility = Sym("Q")],
       ANode(Sym("E"), 5, <<>>, <<Sym("Q")>>, FALSE), ANode(<<"comment">>, 1, <<>>, <<N>>, FALSE) >>
ChOrder == <<"P", "Q", "E">>
ChTree ==
    "CH" :> [Choice(<<"P", "Q">>, <<Y>>, <<>>) EXCEPT !.type = "bool", !.optional = FALSE]
    @@ "P" :> Member("bool", "CH", Y) @@ "Q" :> Member("bool", "CH", Y)
    @@ "E" :> [Symbol("bool") EXCEPT !.prompts = <<Sym("Q")>>]

\* Searches that lead into menus and choices, visible or not.
\*   config A: bool "a"
\*   menu: visible if A;  config E: bool "e"; select of it
\*   choice CH: bool "ch" if A;  P: bool
SeekNodes ==
    << TopNode(<<2, 3, 5>>), ANode(Sym("A"), 1, <<>>, <<Y>>, FALSE),
       [ANode(<<"menu">>, 1, <<4>>, <<Y>>, TRUE) EXCEPT !.visibility = Sym("A")],
       ANode(Sym("E"), 3, <<>>, <<Sym("A")>>, FALSE),
       ANode(<<"choice", "CH">>, 1, <<6>>, <<Sym("A")>>, TRUE),
       ANode(Sym("P"), 5, <<>>, <<<<"choice", "CH">>>>, FALSE) >>
SeekOrder == <<"A", "E", "P">>
SeekTree ==
    "CH" :> [Choice(<<"P">>, <<Sym("A")>>, <<>>) EXCEPT !.type = "bool", !.optional = FALSE]
    @@ "P" :> Member("bool", "CH", Y) @@ "A" :> Symbol("bool")
    @@ "E" :> [Symbol("bool") EXCEPT !.prompts = <<Sym("A")>>, !.rev = Y]
SeekSearches == {<<>>, <<4, 6, 3, 5>>}

\* Files.
\*   config T: bool "t"
\*   config I: int "i" if T; range 5 12; default 5
IOOrder == <<"T", "I">>
IOTree ==
    "T" :> Symbol("bool")
    @@ "I" :> [Symbol("int") EXCEPT !.prompts = <<Sym("T")>>,
                 !.ranges = <<Limits(Str("5"), Str("12"), Y)>>, !.defaults = <<Dflt(Str("5"), Sym("T"))>>]
IONodes ==
    << TopNode(<<2>>), ANode(Sym("T"), 1, <<3>>, <<Y>>, FALSE), ANode(Sym("I"), 2, <<>>, <<Sym("T")>>, FALSE) >>
IOInputs == << << Line("set", "T", "y"), Line("set", "I", "3"), Line("set", "GONE", "y") >>,
               << Line("set", "T", "y") >>,
               << Line("other", "", ""), Line("set", "T", "y"), Line("set", "I", "7") >> >>

Interface(order, choices, tree, nodes, terminals) ==
    [System(order, choices, tree, None, [i \in Elements(order) |-> {}], {})
       EXCEPT !.nodes = nodes, !.terminals = terminals]

Nav == Interface(NavOrder, {}, NavTree, NavNodes, {9, 12})
Ch == Interface(ChOrder, {"CH"}, ChTree, ChNodes, {9, 12})
Seek == [Interface(SeekOrder, {"CH"}, SeekTree, SeekNodes, {9, 12}) EXCEPT !.searches = SeekSearches]
IO == [Interface(IOOrder, {}, IOTree, IONodes, {12})
         EXCEPT !.files = {"config", "other"},
                !.found = {[config |-> 0, other |-> 3], [config |-> 1, other |-> 2]},
                !.inputs = IOInputs, !.offered["I"] = {"7", "a"}]

\* A comment in a menu that is visible only if A is, and a range that ends at a
\* symbol without a value.
\*   config A: bool "a";  menu: visible if A;  comment
\*   config Z: int;  config I: int "i"; range Z 12
LostNodes ==
    << TopNode(<<2, 3, 5>>), ANode(Sym("A"), 1, <<>>, <<Y>>, FALSE),
       [ANode(<<"menu">>, 1, <<4>>, <<Y>>, TRUE) EXCEPT !.visibility = Sym("A")],
       ANode(<<"comment">>, 3, <<>>, <<Y>>, FALSE), ANode(Sym("I"), 1, <<>>, <<Y>>, FALSE) >>
LostTree ==
    "A" :> Symbol("bool") @@ "Z" :> [Symbol("int") EXCEPT !.prompts = <<>>]
    @@ "I" :> [Symbol("int") EXCEPT !.ranges = <<Limits(Sym("Z"), Str("12"), Y)>>]
Lost == [Interface(<<"A", "Z", "I">>, {}, LostTree, LostNodes, {12}) EXCEPT !.offered["I"] = {"7"}]

Interfaces == {Nav, Ch, Seek, IO, Lost}
============================================================================

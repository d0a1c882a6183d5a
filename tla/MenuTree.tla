------------------------------ MODULE MenuTree ------------------------------
(* What becomes of the parsed nodes (Kconfig._init() after the parsing):    *)
(* the tree is finalized, the properties of the nodes are gathered at their *)
(* items, and the dependencies are searched for loops.                      *)
EXTENDS KconfigParser, KconfigDependents

VARIABLES
    props,  \* item -> its properties (see KconfigDependents), with its type
    parsed  \* history: the nodes as they were before

treeVars == <<parserVars, props, parsed>>

(* The steps work on w = [nodes, items]: the nodes, and the properties of   *)
(* symbols and choices by name.                                             *)

\* F of w, which the set makes TLC calculate once.
Once(w, F(_)) == CHOOSE b \in {F(x) : x \in {w}} : TRUE

\* Dependencies on the node that the list belongs to go to everything in it.
Guarded(list, dep) == [k \in DOMAIN list |-> [list[k] EXCEPT !.cond = MakeAnd(@, dep)]]

RECURSIVE PropagateFrom(_, _, _, _)
PropagateFrom(ns, n, basedep, visibleIf) ==
    IF n = 0 THEN ns
    ELSE LET cur == ns[n]
             dep == MakeAnd(cur.dep, basedep)
             shown == IF cur.item[1] \in {"sym", "choice"} THEN MakeAnd(visibleIf, dep) ELSE dep
             new == [cur EXCEPT
                       !.dep = dep,
                       !.prompt = [k \in DOMAIN @ |-> MakeAnd(@[k], shown)],
                       !.defaults = Guarded(@, dep), !.ranges = Guarded(@, dep),
                       !.selects = Guarded(@, dep), !.implies = Guarded(@, dep)]
         IN PropagateFrom([ns EXCEPT ![n] = new], cur.next, basedep, visibleIf)

PropagateDeps(ns, n, visibleIf) ==
    PropagateFrom(ns, ns[n].list,
                  IF ns[n].item[1] = "choice" THEN ns[n].item ELSE ns[n].dep, visibleIf)

\* Mutant: the second definition of a symbol replaces its dependencies.
DirectDepLast(old, dep) == dep
DirectDep(old, dep) == MakeOr(old, dep)

RECURSIVE Reversed(_, _, _, _)
\* Selects (field "rev") and implies ("weak") of sym, at their targets.
Reversed(items, sym, targets, field) ==
    IF targets = <<>> THEN items
    ELSE LET t == Head(targets)
         IN Reversed([items EXCEPT ![t.sym][field] = MakeOr(@, MakeAnd(sym, t.cond))],
                     sym, Tail(targets), field)

AddPropsToSym(w, n) ==
    LET node == w.nodes[n]
        own == [w.items EXCEPT ![node.item[2]] =
                  [@ EXCEPT !.dep = DirectDep(@, node.dep),
                            !.defaults = @ \o node.defaults,
                            !.ranges = @ \o node.ranges]]
    IN [w EXCEPT !.items = Reversed(Reversed(own, node.item, node.selects, "rev"),
                                    node.item, node.implies, "weak")]

AutoMenuDep(ns, n, other) ==
    ExprDependsOn(IF ns[other].prompt # <<>> THEN ns[other].prompt[1] ELSE ns[other].dep, ns[n].item)

\* Nodes without prompts give what is below them to their own list.
RECURSIVE LastGiven(_, _, _), Flatten(_, _), Kept(_, _), RemoveIfs(_, _)
\* Makes parent the parent from n on, and says which is the last.
LastGiven(ns, n, parent) ==
    LET given == [ns EXCEPT ![n].parent = parent]
    IN IF ns[n].next = 0 THEN [ns |-> given, last |-> n] ELSE LastGiven(given, ns[n].next, parent)

Flatten(ns, n) ==
    IF n = 0 THEN ns
    ELSE IF ns[n].list # 0 /\ ns[n].prompt = <<>> /\ ns[n].item[1] # "choice"
    THEN LET g == LastGiven(ns, ns[n].list, ns[n].parent)
         IN Flatten([g.ns EXCEPT ![g.last].next = ns[n].next, ![n].next = ns[n].list, ![n].list = 0],
                    ns[n].list)
    ELSE Flatten(ns, ns[n].next)

\* The first node from n on that is no if.
Kept(ns, n) == IF n # 0 /\ ns[n].item[1] = "if" THEN Kept(ns, ns[n].next) ELSE n

\* Every next pointer from n on skips ifs.
RemoveIfs(ns, n) ==
    IF n = 0 THEN ns
    ELSE LET next == Kept(ns, ns[n].next) IN RemoveIfs([ns EXCEPT ![n].next = next], next)

\* The symbols in the list become the symbols of the choice.  Types that are
\* missing are those of the first symbol, and of the choice.
RECURSIVE SymsFrom(_, _)
SymsFrom(ns, n) ==
    IF n = 0 THEN <<>>
    ELSE (IF ns[n].item[1] = "sym" THEN <<ns[n].item[2]>> ELSE <<>>) \o SymsFrom(ns, ns[n].next)

FinalizeChoice(w, n) ==
    LET node == w.nodes[n]
        ch == node.item[2]
        new == SymsFrom(w.nodes, node.list)
        syms == w.items[ch].syms \o new
        typed == {k \in DOMAIN syms : w.items[syms[k]].type # None}
        type == IF w.items[ch].type # None \/ typed = {} THEN w.items[ch].type
                ELSE w.items[syms[CHOOSE k \in typed : \A j \in typed : k <= j]].type
    IN [w EXCEPT !.items =
          [i \in DOMAIN @ |->
             IF i = ch
             THEN [@[i] EXCEPT !.type = type, !.syms = syms, !.dep = DirectDep(@, node.dep),
                               !.defaults = @ \o node.defaults]
             ELSE IF i \in Elements(syms)
             THEN [@[i] EXCEPT !.choice = IF i \in Elements(new) THEN ch ELSE @,
                               !.type = IF @ = None THEN type ELSE @]
             ELSE @[i]]]

RECURSIVE FinalizeNode(_, _, _), AutoMenu(_, _, _, _), FinalizeEach(_, _, _)

\* The nodes behind n that depend on it, as far as cur, one after the other.
AutoMenu(w, n, cur, visibleIf) ==
    LET next == w.nodes[cur].next
    IN IF next = 0 \/ ~AutoMenuDep(w.nodes, n, next) THEN [w |-> w, last |-> cur]
       ELSE Once(FinalizeNode(w, next, visibleIf), LAMBDA x :
              AutoMenu([x EXCEPT !.nodes[next].parent = n], n, next, visibleIf))

\* They become the list of n.
Tilted(w, n, last) ==
    IF last = n THEN w
    ELSE [w EXCEPT !.nodes[n].list = w.nodes[n].next, !.nodes[n].next = w.nodes[last].next,
                   !.nodes[last].next = 0]

FinalizeEach(w, cur, visibleIf) ==
    IF cur = 0 THEN w
    ELSE Once(FinalizeNode(w, cur, visibleIf), LAMBDA x :
           FinalizeEach(x, x.nodes[cur].next, visibleIf))

Leveled(w, n) ==
    IF w.nodes[n].list = 0 THEN w
    ELSE Once(Flatten(w.nodes, w.nodes[n].list), LAMBDA ns :
           LET first == Kept(ns, ns[n].list)
           IN [w EXCEPT !.nodes = RemoveIfs([ns EXCEPT ![n].list = first], first)])

FinalizeNode(w, n, visibleIf) ==
    LET node == w.nodes[n]
        shown == IF node.item[1] = "menu" THEN MakeAnd(visibleIf, node.visibility) ELSE visibleIf
        below == CASE node.item[1] = "sym" ->
                        Once(AutoMenu(AddPropsToSym(w, n), n, n, visibleIf), LAMBDA a :
                          Tilted(a.w, n, a.last))
                   [] node.item[1] # "sym" /\ node.list # 0 ->
                        FinalizeEach([w EXCEPT !.nodes = PropagateDeps(@, n, shown)], node.list, shown)
                   [] OTHER -> w
    IN Once(below, LAMBDA b :
         IF node.item[1] = "choice" THEN FinalizeChoice(Leveled(b, n), n) ELSE Leveled(b, n))

----------------------------------------------------------------------------
Defined == {nodes[n].item : n \in {n \in DOMAIN nodes : IsItem(n)}}
Targets == {Sym(t.sym) : t \in UNION {Elements(nodes[n].selects \o nodes[n].implies) : n \in DOMAIN nodes}}

Untouched(i) ==
    LET type == IF i \in DOMAIN types THEN types[i] ELSE None
    IN IF i[1] = "choice"
       THEN [type |-> type, defaults |-> <<>>, dep |-> N, syms |-> <<>>, prompts |-> <<>>,
             optional |-> i[2] \in optional]
       ELSE [type |-> type, defaults |-> <<>>, dep |-> N, ranges |-> <<>>, prompts |-> <<>>,
             rev |-> N, weak |-> N, choice |-> None]

Finalized ==
    LET known == Defined \cup Targets
        named(name) == CHOOSE i \in known : i[2] = name
    IN FinalizeNode([nodes |-> nodes, items |-> [i \in {i[2] : i \in known} |-> Untouched(named(i))]], 1, Y)

RECURSIVE PromptsOf(_, _, _)
PromptsOf(ns, i, n) ==
    IF n > Len(ns) THEN <<>>
    ELSE (IF Len(ns[n].item) = 2 /\ ns[n].item[2] = i THEN ns[n].prompt ELSE <<>>) \o PromptsOf(ns, i, n + 1)

\* Only symbols that are defined have dependents and are searched.
Gathered(w) ==
    [i \in {i[2] : i \in Defined} |-> [w.items[i] EXCEPT !.prompts = PromptsOf(w.nodes, i, 1)]]

\* unique_defined_syms: in the order of their first definitions.
UniqueDefinedSyms ==
    LET first == SelectSeq([n \in DOMAIN nodes |-> n],
                           LAMBDA n : Kind(n) = "sym" /\ \A k \in 1..n - 1 : nodes[k].item # nodes[n].item)
    IN [k \in DOMAIN first |-> nodes[first[k]].item[2]]

Finalize ==
    /\ phase = "parsed"
    /\ \E w \in {Finalized} :
         /\ nodes' = w.nodes
         /\ props' = Gathered(w)
         /\ \E loop \in LoopAnswers(Gathered(w), UniqueDefinedSyms) :
              phase' = IF loop THEN "error" ELSE "ready"
    /\ parsed' = nodes
    /\ UNCHANGED <<vocabulary, frames, pending, files, peeked, types, optional, variables, read>>

TreeInit == ParserInit /\ props = <<>> /\ parsed = <<>>
TreeNext == Finalize \/ (ParserNext /\ UNCHANGED <<props, parsed>>)
TreeSpec == TreeInit /\ [][TreeNext]_treeVars

----------------------------------------------------------------------------
RECURSIVE Siblings(_), Preorder(_)
Siblings(n) == IF n = 0 THEN <<>> ELSE <<n>> \o Siblings(nodes[n].next)
\* The nodes from n on, each with what is below it.
Preorder(n) ==
    IF n = 0 THEN <<>> ELSE <<n>> \o Preorder(nodes[n].list) \o Preorder(nodes[n].next)

RECURSIVE Conjunction(_), Outer(_)
Conjunction(es) == IF es = <<>> THEN Y ELSE <<"and", Head(es), Conjunction(Tail(es))>>

\* The blocks around a node as it was parsed, from the inside.
Outer(n) == IF parsed[n].parent = 0 THEN <<>> ELSE <<parsed[n].parent>> \o Outer(parsed[n].parent)

\* What the lines say that a node depends on: its own dependencies and those of
\* the blocks around it, of which a choice stands for its own.
RECURSIVE Within(_, _)
Within(n, blocks) ==
    IF blocks = <<>> THEN parsed[n].dep
    ELSE IF parsed[blocks[1]].item[1] = "choice" THEN <<"and", parsed[n].dep, parsed[blocks[1]].item>>
    ELSE <<"and", parsed[n].dep, Within(blocks[1], Tail(blocks))>>

Visible(n) ==
    Conjunction([k \in DOMAIN Outer(n) |-> parsed[Outer(n)[k]].visibility])

\* Does the text of an expression mean what the expression means?  A choice has
\* no name in a text.
WrittenWell(e) ==
    (\A x \in ExprItems(e) : x[1] # "choice") =>
        /\ Parsed(ExprStr(e), TRUE).next # 0
        /\ SameMeaning(Parsed(ExprStr(e), TRUE).e, e)

\* The node's prompt, or its dependencies if it has none.
Shown(n) == IF nodes[n].prompt # <<>> THEN nodes[n].prompt[1] ELSE nodes[n].dep

DependsOnNotY(e, s) == \E x \in Elements(SplitExpr(e, "and")) : x[1] = "!=" /\ x[2] = s /\ x[3] = Y

\* A finalized tree has the nodes that were parsed, without the ifs, in the same
\* order, each below its parent.  Each has the dependencies of its line and of
\* all blocks around it, and its prompt also what makes the menus around it
\* visible.  What is in a submenu of a symbol cannot be seen while that is n.
TreeFinalized ==
    phase = "ready" =>
        /\ Preorder(1) = SelectSeq([n \in DOMAIN nodes |-> n], LAMBDA n : Kind(n) # "if")
        /\ \A n \in Elements(Preorder(1)) \ {1} :
             /\ n \in Elements(Siblings(nodes[nodes[n].parent].list))
             /\ SameMeaning(nodes[n].dep, Within(n, Outer(n)))
             /\ WrittenWell(nodes[n].dep)
             /\ nodes[n].prompt # <<>> /\ IsItem(n) =>
                  SameMeaning(nodes[n].prompt[1],
                              Conjunction(<<parsed[n].prompt[1], Within(n, Outer(n)), Visible(n)>>))
             /\ LET above == nodes[nodes[n].parent].item
                IN above[1] = "sym" /\ ~DependsOnNotY(Shown(n), above) =>
                     SameMeaning(<<"and", Shown(n), <<"=", above, N>>>>, N)
        /\ \A i \in DOMAIN props :
             LET at == {n \in DOMAIN nodes : IsItem(n) /\ nodes[n].item[2] = i}
                 dep == CHOOSE e \in {props[i].dep} : TRUE
             IN \A n \in at : SameMeaning(<<"or", nodes[n].dep, dep>>, dep)

\* A tree whose dependencies are accepted lets every value be calculated: none
\* needs itself, through symbols, choices and selections, in whatever order the
\* dependents were searched.  From a choice the search goes to its symbols alone,
\* so it misses loops through a choice in a choice.  It misses some through the
\* selection of a choice that it enters from outside or that has more than two
\* symbols: it marks a symbol of the choice as done without the way back into the
\* choice, and takes it for done when another symbol of the choice leads to it.
LoopsFound == phase = "ready" => WellFounded(props)
============================================================================

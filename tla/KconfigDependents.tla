------------------------- MODULE KconfigDependents -------------------------
(* Which items of a configuration depend on which, and the search for      *)
(* dependency loops (kconfiglib.py).  The properties p of an item are      *)
(*   prompts    conditions of its prompts                                  *)
(*   defaults   [value, cond]; dep, its direct dependencies                *)
(*   syms       the symbols of a choice, optional                          *)
(*   ranges     [low, high, cond] of a symbol; rev and weak, its reverse   *)
(*              dependencies; choice, that it is in, or None               *)
EXTENDS KconfigExpressions

Elements(seq) == {seq[k] : k \in DOMAIN seq}
Conds(props) == {p.cond : p \in Elements(props)}
IsChoice(p) == "syms" \in DOMAIN p

\* Mutant: default values and the ends of ranges are forgotten.
DependsOnCond(p) ==
    Elements(p.prompts) \cup Conds(p.defaults)
    \cup IF IsChoice(p) THEN {} ELSE Conds(p.ranges) \cup {p.rev, p.dep}

\* The expressions that an item is told to depend on.
DependsOn(p) ==
    Elements(p.prompts) \cup Conds(p.defaults)
    \cup IF IsChoice(p) THEN {}
         ELSE {d.value : d \in Elements(p.defaults)} \cup {p.rev, p.weak, p.dep}
              \cup UNION {{r.low, r.high, r.cond} : r \in Elements(p.ranges)}

LeafOf(tree, i) == IF IsChoice(tree[i]) THEN <<"choice", i>> ELSE Sym(i)

\* _dependents of every item, before choices depend on their symbols.
BuildDep(tree) ==
    LET needs == [i \in DOMAIN tree |-> UNION {ExprItems(e) : e \in DependsOn(tree[i])}]
    IN [i \in DOMAIN tree |-> {j \in DOMAIN tree : LeafOf(tree, i) \in needs[j]}]

AddChoiceDeps(tree, deps) ==
    [i \in DOMAIN tree |-> deps[i] \cup {c \in DOMAIN tree : IsChoice(tree[c]) /\ i \in Elements(tree[c].syms)}]

Built(tree) == AddChoiceDeps(tree, BuildDep(tree))

----------------------------------------------------------------------------
(* The search, depth first.  at.seen maps an item to its _visited: 0, 1    *)
(* while the items after it are searched, and 2; it ends at the first loop. *)
(* Where it goes next is a sequence of sets: one after the other, and those *)
(* in one set (a Python set of dependents) in any order.                    *)

OneByOne(items, skip) == [k \in DOMAIN items |-> {<<items[k], skip>>}]

\* Mutant: a choice does not lead to its symbols.
ThenToSymbols(tree, i, skip) ==
    IF IsChoice(tree[i]) THEN <<>> ELSE <<{<<c, {i}>> : c \in {tree[i].choice} \cap (DOMAIN tree \ skip)}>>

\* After its dependents, a symbol leads to its choice and a choice to its
\* symbols in their order, with what is skipped there: the one to go back.
Then(tree, i, skip) ==
    IF IsChoice(tree[i]) THEN OneByOne(SelectSeq(tree[i].syms, LAMBDA s : s \notin skip), {i})
    ELSE <<{<<c, {i}>> : c \in {tree[i].choice} \cap (DOMAIN tree \ skip)}>>

\* How the search may end.
RECURSIVE CheckDepLoop(_, _, _, _)
CheckDepLoop(tree, deps, at, todo) ==
    IF todo = <<>> \/ at.loop THEN {at}
    ELSE IF Head(todo) = {} THEN CheckDepLoop(tree, deps, at, Tail(todo))
    ELSE UNION {
        LET i == x[1]
            dependents == IF IsChoice(tree[i]) THEN {} ELSE {<<j, {}>> : j \in deps[i]}
            after == CheckDepLoop(tree, deps, [at EXCEPT !.seen[i] = 1], <<dependents>> \o Then(tree, i, x[2]))
            visited == CASE at.seen[i] = 2 -> {at}
                         [] at.seen[i] = 1 -> {[at EXCEPT !.loop = TRUE]}
                         [] at.seen[i] = 0 -> {IF a.loop THEN a ELSE [a EXCEPT !.seen[i] = 2] : a \in after}
        IN UNION {CheckDepLoop(tree, deps, a, <<Head(todo) \ {x}>> \o Tail(todo)) : a \in visited} :
        x \in Head(todo)}

\* Is there a loop?  The answers that the search may give, from the symbols in
\* the order of their definitions.
LoopAnswers(tree, defined) ==
    {a.loop : a \in CheckDepLoop(tree, BuildDep(tree), [seen |-> [i \in DOMAIN tree |-> 0], loop |-> FALSE],
                                 OneByOne(defined, {}))}

----------------------------------------------------------------------------
(* What a calculation reads, to compare: <<item, what>> for its value, its *)
(* visibility and the selection of a choice.  Whether tristates are bools  *)
(* (MODULES) is left out, which the search does not follow either.         *)
Refs(tree, es) ==
    {<<x[2], "value">> : x \in {x \in UNION {ExprItems(e) : e \in es} : x[1] \in {"sym", "choice"} /\ x[2] \in DOMAIN tree}}

Reads(tree, a) ==
    LET i == a[1]
        p == tree[i]
        choice == IF IsChoice(p) THEN {} ELSE {p.choice} \cap DOMAIN tree
    IN CASE a[2] = "vis" -> Refs(tree, Elements(p.prompts)) \cup (choice \X {"value"})
         [] a[2] = "value" /\ IsChoice(p) -> {<<i, "vis">>}
         [] a[2] = "value" /\ ~IsChoice(p) ->
              Refs(tree, DependsOn(p)) \cup {<<i, "vis">>} \cup (choice \X {"selection"})
         [] a[2] = "selection" ->
              Refs(tree, Conds(p.defaults)) \cup (({i} \cup Elements(p.syms)) \X {"vis"}) \cup {<<i, "value">>}

\* Repeatedly taking away what reads nothing that is left leaves the loops.
RECURSIVE Looping(_, _)
Looping(tree, as) ==
    LET rest == {a \in as : Reads(tree, a) \cap as # {}}
    IN IF rest = as THEN as ELSE Looping(tree, rest)

Attributes(tree) ==
    ((DOMAIN tree) \X {"vis", "value"})
    \cup {<<i, "selection">> : i \in {i \in DOMAIN tree : IsChoice(tree[i])}}

\* A choice that the search may enter from a symbol which is not its own, or with
\* more symbols behind it than one.
OpenChoice(tree, c) ==
    /\ IsChoice(tree[c])
    /\ LET own == Elements(tree[c].syms)
       IN \/ Cardinality(own) > 2
          \/ \E s \in DOMAIN tree \ own : ~IsChoice(tree[s]) /\ c \in BuildDep(tree)[s]

\* A choice in a choice, on which its prompts or defaults depend.
NestedChoice(tree, c) ==
    IsChoice(tree[c]) /\ \E e \in DependsOn(tree[c]) : \E x \in ExprItems(e) : x[1] = "choice"

\* Nothing has to be calculated from itself, but through what an open choice
\* selects or through a choice in a choice.
WellFounded(tree) ==
    Looping(tree, {a \in Attributes(tree) :
                     ~NestedChoice(tree, a[1]) /\ (a[2] = "selection" => ~OpenChoice(tree, a[1]))}) = {}
============================================================================

--------------------------- MODULE SymbolValues ---------------------------
(* Values of the symbols and choices of a configuration (kconfiglib.py):   *)
(* what the user set, what follows from it, and the caches in between.     *)
(* A value is calculated when it is read, from values that are read in     *)
(* turn, and every one of them is kept until something it may depend on is *)
(* set.                                                                    *)
(*                                                                         *)
(* A configuration system is a constant: the properties of each item after *)
(* finalization, with the dependencies of the surrounding menus already    *)
(* propagated.  Every behaviour is about one of Kconfigs.                  *)
EXTENDS KconfigDependents, Invalidation

CONSTANTS
    Kconfigs,   \* the configuration systems, records (see MCSyncDeps):
                \*   symbols, choices   the defined symbols, the choices
                \*   tree      item -> its properties (see KconfigDependents)
                \*   modules   the symbol MODULES, or None
                \*   offered   item -> the values that the user gives it
                \*   readable  the entries that the tools read
    Collation,  \* every string in use, in the order of strcmp()
    Numeral,    \* type -> strings that are numerals in its base -> their value
    None

\* Nothing on the right of a choice symbol's select or imply has an effect,
\* which the library warns about (_check_choice_sanity).
ASSUME ChoiceSymbolsNotSelected ==
    \A k \in Kconfigs : \A s \in k.symbols :
        LET p == k.tree[s] IN p.choice # None => p.rev = N /\ p.weak = N

VARIABLES
    kconf,       \* the one of Kconfigs that it is
    dependents,  \* item -> its _dependents
    user,        \* symbol -> Symbol.user_value; choice -> Choice.user_value
    selected,    \* choice -> Choice.user_selection
    was,         \* items with _was_set, which stays when they are unset
    cache        \* <<item, attribute>> -> cached value

valueVars == <<kconf, dependents, user, selected, was, cache>>

Symbols == kconf.symbols
Choices == kconf.choices
Tree == kconf.tree
Modules == kconf.modules
Offered == kconf.offered

Invalidated(c, is) == Wiped(Modules, c, Reached(Symbols \cup Choices, dependents, Modules, c, is))

INSTANCE UserSettings

Entries == (Symbols \X {"vis", "value", "assignable"})
           \cup (Choices \X {"vis", "assignable", "selection"})

NoCache == [e \in Entries |-> Uncached]

----------------------------------------------------------------------------
(* Evaluation.  Reading takes the state st = [user, selected, cache, was]  *)
(* and gives the value v with the state after it, whose cache holds all    *)
(* that was calculated on the way.  A short circuit leaves things out.     *)

Ret(st, v) == [v |-> v, st |-> st]

\* F of the value and the state that q gives; the set makes TLC evaluate q once.
Bind(q, F(_, _)) == CHOOSE b \in {F(p.v, p.st) : p \in {q}} : TRUE

\* What is read, <<of, what>>: an entry of the cache, the value of an expression
\* or the mode of a choice.
RECURSIVE Evaluate(_, _)
ExprValue(st, e) == Evaluate(st, <<e, "expr">>)
Visibility(st, i) == Evaluate(st, <<i, "vis">>)
SymValue(st, s) == Evaluate(st, <<s, "value">>)
ChoiceTri(st, ch) == Evaluate(st, <<ch, "mode">>)
Selection(st, ch) == Evaluate(st, <<ch, "selection">>)
Assignable(st, i) == Evaluate(st, <<i, "assignable">>)

\* The value of a symbol is [text, tri, write]; write is _write_to_conf, which
\* is assigned whenever the value is calculated and read only after it.
SymTri(st, s) == Bind(SymValue(st, s), LAMBDA v, t: Ret(t, v.tri))

LeafText(st, l) ==
    CASE l[1] = "tri" -> Ret(st, TriStr[l[2] + 1])
      [] l[1] = "str" -> Ret(st, l[2])
      [] OTHER -> Bind(SymValue(st, l[2]), LAMBDA v, t: Ret(t, v.text))

LeafTri(st, l) ==
    CASE l[1] = "tri" -> Ret(st, l[2])
      [] l[1] = "str" -> Ret(st, 0)
      [] l[1] = "choice" -> ChoiceTri(st, l[2])
      [] OTHER -> SymTri(st, l[2])

LeafType(l) ==
    CASE l[1] = "tri" -> "tristate" [] l[1] = "str" -> "unknown" [] OTHER -> OrigType(l[2])

\* Negative, 0 or positive: only the sign of a comparison is looked at.
Strcmp(a, b) ==
    LET place(text) == CHOOSE i \in DOMAIN Collation : Collation[i] = text
    IN place(a) - place(b)

\* Strings are compared as strings, anything else as numbers if it converts;
\* n, m and y count as 0, 1 and 2.
Compared(l, a, r, b) ==
    LET logical(k) == LeafType(k) \in {"bool", "tristate"}
        converts(k, text) == logical(k) \/ IsNumber(LeafType(k), text)
        number(k, text) == IF logical(k) THEN CHOOSE i \in 0..2 : TriStr[i + 1] = text
                           ELSE Numeral[LeafType(k)][text]
    IN IF {LeafType(l), LeafType(r)} # {"string"} /\ converts(l, a) /\ converts(r, b)
       THEN number(l, a) - number(r, b) ELSE Strcmp(a, b)

Holds(rel, comp) ==
    CASE rel = "=" -> comp = 0  [] rel = "!=" -> comp # 0
      [] rel = "<" -> comp < 0  [] rel = "<=" -> comp <= 0
      [] rel = ">" -> comp > 0  [] rel = ">=" -> comp >= 0

ExprValueNow(st, e) ==
    CASE IsLeaf(e) -> LeafTri(st, e)
      [] e[1] = "and" ->
           Bind(ExprValue(st, e[2]), LAMBDA l, t:
             IF l = 0 THEN Ret(t, 0)
             ELSE Bind(ExprValue(t, e[3]), LAMBDA r, u: Ret(u, Min2(l, r))))
      [] e[1] = "or" ->
           Bind(ExprValue(st, e[2]), LAMBDA l, t:
             IF l = 2 THEN Ret(t, 2)
             ELSE Bind(ExprValue(t, e[3]), LAMBDA r, u: Ret(u, Max2(l, r))))
      [] e[1] = "not" -> Bind(ExprValue(st, e[2]), LAMBDA v, t: Ret(t, 2 - v))
      [] e[1] \in Relations ->
           Bind(LeafText(st, e[2]), LAMBDA a, t:
           Bind(LeafText(t, e[3]), LAMBDA b, u:
             Ret(u, IF Holds(e[1], Compared(e[2], a, e[3], b)) THEN 2 ELSE 0)))

\* Is the type bool?  Tristates become bool without modules, and in a choice
\* in y mode.
TypeIsBool(st, i) ==
    IF OrigType(i) # "tristate" THEN Ret(st, OrigType(i) = "bool")
    ELSE Bind(IF InChoice(i) THEN ChoiceTri(st, Tree[i].choice) ELSE Ret(st, 0), LAMBDA mode, t:
           IF mode = 2 \/ Modules = None THEN Ret(t, TRUE)
           ELSE Bind(SymTri(t, Modules), LAMBDA v, u: Ret(u, v = 0)))

\* m is promoted to y for all that is not tristate now.
Promoted(st, i, level) ==
    IF level # 1 THEN Ret(st, level)
    ELSE IF ~IsTri(i) THEN Ret(st, 2)
    ELSE Bind(TypeIsBool(st, i), LAMBDA bool, t: Ret(t, IF bool THEN 2 ELSE 1))

\* The largest value of the prompts' conditions; every one is evaluated.
RECURSIVE PromptLevel(_, _, _)
PromptLevel(st, ps, vis) ==
    IF ps = <<>> THEN Ret(st, vis)
    ELSE Bind(ExprValue(st, Head(ps)), LAMBDA v, t: PromptLevel(t, Tail(ps), Max2(vis, v)))

\* In a choice, only tristates have a place in m mode, and only those that can
\* be y in y mode.
VisibilityNow(st, i) ==
    Bind(PromptLevel(st, Tree[i].prompts, 0), LAMBDA vis, t:
      LET ch == Tree[i].choice
          plain == OrigType(i) # "tristate"
          asks == InChoice(i) /\ IF plain THEN OrigType(ch) = "tristate" ELSE vis = 1
      IN Bind(IF asks THEN ChoiceTri(t, ch) ELSE Ret(t, None), LAMBDA mode, u:
           IF asks /\ plain # (mode = 2) THEN Ret(u, 0) ELSE Promoted(u, i, vis)))

\* The first property whose condition holds, as [at, level]; at is 0 for none.
RECURSIVE FirstActive(_, _, _)
FirstActive(st, props, at) ==
    IF at > Len(props) THEN Ret(st, [at |-> 0, level |-> 0])
    ELSE Bind(ExprValue(st, props[at].cond), LAMBDA v, t:
           IF v # 0 THEN Ret(t, [at |-> at, level |-> v]) ELSE FirstActive(t, props, at + 1))

Defaults(i) == Tree[i].defaults

\* e as far as cond is not n, which is then evaluated after it or not at all.
Unless(st, e, cond) ==
    Bind(ExprValue(st, e), LAMBDA v, t:
      IF v = 0 THEN Ret(t, 0)
      ELSE Bind(ExprValue(t, cond), LAMBDA d, u: Ret(u, IF d = 0 THEN 0 ELSE v)))

DefaultTri(st, s) ==
    Bind(FirstActive(st, Defaults(s), 1), LAMBDA d, t:
      IF d.at = 0 THEN Ret(t, 0)
      ELSE Bind(ExprValue(t, Defaults(s)[d.at].value), LAMBDA v, u: Ret(u, Min2(v, d.level))))

\* A select; the direct dependencies are read to warn when it exceeds them.
Forced(st, s) ==
    Bind(ExprValue(st, Tree[s].rev), LAMBDA r, t:
      IF r = 0 THEN Ret(t, 0) ELSE Bind(ExprValue(t, Tree[s].dep), LAMBDA d, u: Ret(u, r)))

ImpliesY(st, s) == Bind(ExprValue(st, Tree[s].weak), LAMBDA w, t: Ret(t, w = 2))

\* Can the symbol not be m: a bool, or implied to y?
NeverM(st, s) ==
    Bind(TypeIsBool(st, s), LAMBDA bool, t: IF bool THEN Ret(t, TRUE) ELSE ImpliesY(t, s))

\* The user's value up to the visibility, or else the first active default and
\* what is implied while the direct dependencies are met.
OwnTri(st, s, vis) ==
    IF vis # 0 /\ st.user[s] # None THEN Ret(st, [level |-> Min2(st.user[s], vis), write |-> TRUE])
    ELSE Bind(DefaultTri(st, s), LAMBDA d, t:
         Bind(Unless(t, Tree[s].weak, Tree[s].dep), LAMBDA i, u:
           Ret(u, [level |-> Max2(d, i), write |-> vis # 0 \/ d # 0 \/ i # 0])))

\* Symbols outside of choices: that, and a select on top of it.
PlainTri(st, s, vis) ==
    Bind(OwnTri(st, s, vis), LAMBDA own, t:
    Bind(Forced(t, s), LAMBDA f, u:
    Bind(IF Max2(own.level, f) = 1 THEN NeverM(u, s) ELSE Ret(u, FALSE), LAMBDA never, w:
      Ret(w, [level |-> IF never THEN 2 ELSE Max2(own.level, f), write |-> own.write \/ f # 0]))))

\* Mutant: what the user set counts in y mode too.
ChoiceSymTriUser(st, s, vis) ==
    Ret(st, [level |-> IF vis # 0 /\ st.user[s] # None THEN Min2(st.user[s], vis) ELSE 0,
             write |-> vis # 0])

\* Choice symbols: the selection in y mode, what the user set in m mode.
ChoiceSymTri(st, s, vis) ==
    IF vis = 2
    THEN Bind(Selection(st, Tree[s].choice), LAMBDA sel, t:
           Ret(t, [level |-> IF sel = s THEN 2 ELSE 0, write |-> TRUE]))
    ELSE Ret(st, [level |-> IF vis = 1 /\ st.user[s] \in {1, 2} THEN 1 ELSE 0,
                  write |-> vis # 0])

TriValue(st, s) ==
    Bind(Visibility(st, s), LAMBDA vis, x:
    Bind(IF InChoice(s) THEN ChoiceSymTri(x, s, vis) ELSE PlainTri(x, s, vis), LAMBDA v, y:
      Ret(y, [text |-> TriStr[v.level + 1], tri |-> v.level, write |-> v.write])))

NumberOr0(type, text) == IF IsNumber(type, text) THEN Numeral[type][text] ELSE 0

\* str() or hex() of a number: the first of its numerals in Collation.
Standard(type, n) ==
    LET numerals == {i \in DOMAIN Collation : /\ IsNumber(type, Collation[i])
                                              /\ Numeral[type][Collation[i]] = n}
    IN Collation[CHOOSE i \in numerals : \A j \in numerals : i <= j]

\* The first range whose condition holds, as <<low, high>>; <<>> for none.
ActiveRange(st, s) ==
    LET rs == Tree[s].ranges
        number(text) == NumberOr0(OrigType(s), text)
    IN Bind(FirstActive(st, rs, 1), LAMBDA r, t:
         IF r.at = 0 THEN Ret(t, <<>>)
         ELSE Bind(LeafText(t, rs[r.at].low), LAMBDA lo, u:
              Bind(LeafText(u, rs[r.at].high), LAMBDA hi, w:
                Ret(w, <<number(lo), number(hi)>>))))

\* The text of the first active default, and whether there is one.
DefaultText(st, s) ==
    Bind(FirstActive(st, Defaults(s), 1), LAMBDA d, t:
      IF d.at = 0 THEN Ret(t, [text |-> "", found |-> FALSE])
      ELSE Bind(LeafText(t, Defaults(s)[d.at].value), LAMBDA v, u:
             Ret(u, [text |-> v, found |-> TRUE])))

Within(range, n) == range # <<>> => range[1] <= n /\ n <= range[2]

\* Clamping runs even without a default, where the value counts as 0.
Clamped(type, range, text) ==
    LET n == NumberOr0(type, text)
    IN IF Within(range, n) THEN text
       ELSE Standard(type, IF n < range[1] THEN range[1] ELSE range[2])

\* The user's value of an int or a hex is ignored outside of the active range.
NumberValue(st, s, vis) ==
    LET type == OrigType(s)
    IN Bind(ActiveRange(st, s), LAMBDA range, t:
         IF vis # 0 /\ st.user[s] # None /\ Within(range, Numeral[type][st.user[s]])
         THEN Ret(t, [text |-> st.user[s], write |-> TRUE])
         ELSE Bind(DefaultText(t, s), LAMBDA d, u:
                Ret(u, [text |-> Clamped(type, range, d.text), write |-> vis # 0 \/ d.found])))

StringValue(st, s, vis) ==
    IF vis # 0 /\ st.user[s] # None THEN Ret(st, [text |-> st.user[s], write |-> TRUE])
    ELSE Bind(DefaultText(st, s), LAMBDA d, t:
           Ret(t, [text |-> d.text, write |-> vis # 0 \/ d.found]))

\* Symbols of other types are n in a logical context, and those that take an
\* environment variable (or list the defconfigs) are never written.
StrValue(st, s) ==
    Bind(Visibility(st, s), LAMBDA vis, x:
    Bind(IF OrigType(s) = "string" THEN StringValue(x, s, vis) ELSE NumberValue(x, s, vis),
         LAMBDA v, y: Ret(y, [text |-> v.text, tri |-> 0, write |-> v.write /\ ~Tree[s].env])))

\* The mode of a choice is never cached.
ChoiceTriNow(st, ch) ==
    LET least == IF Tree[ch].optional THEN 0 ELSE 1
        wanted == IF st.user[ch] = None THEN least ELSE Max2(least, st.user[ch])
    IN Bind(Visibility(st, ch), LAMBDA vis, t: Promoted(t, ch, Min2(wanted, vis)))

RECURSIVE FirstVisible(_, _), DefaultSelection(_, _, _)
FirstVisible(st, syms) ==
    IF syms = <<>> THEN Ret(st, None)
    ELSE Bind(Visibility(st, Head(syms)), LAMBDA vis, t:
           IF vis # 0 THEN Ret(t, Head(syms)) ELSE FirstVisible(t, Tail(syms)))

\* The first default that is active and visible, or else the first visible symbol.
DefaultSelection(st, ch, at) ==
    IF at > Len(Defaults(ch)) THEN FirstVisible(st, Tree[ch].syms)
    ELSE LET d == Defaults(ch)[at] IN
         Bind(ExprValue(st, d.cond), LAMBDA v, t:
           IF v = 0 THEN DefaultSelection(t, ch, at + 1)
           ELSE Bind(Visibility(t, d.value), LAMBDA vis, u:
                  IF vis # 0 THEN Ret(u, d.value) ELSE DefaultSelection(u, ch, at + 1)))

SelectionNow(st, ch) ==
    Bind(ChoiceTri(st, ch), LAMBDA mode, x:
      IF mode # 2 THEN Ret(x, None)
      ELSE IF st.selected[ch] = None THEN DefaultSelection(x, ch, 1)
      ELSE Bind(Visibility(x, st.selected[ch]), LAMBDA vis, y:
             IF vis # 0 THEN Ret(y, st.selected[ch]) ELSE DefaultSelection(y, ch, 1)))

\* The user values that would be respected now, as a set.
SymAssignable(st, s, vis) ==
    Bind(ExprValue(st, Tree[s].rev), LAMBDA rev, t:
      CASE rev = 2 \/ (vis = 2 /\ InChoice(s)) -> Ret(t, {2})
        [] vis = 2 /\ ~InChoice(s) /\ rev # 2 ->
             Bind(NeverM(t, s), LAMBDA b, u: Ret(u, (rev..2) \ IF b THEN {1} ELSE {}))
        [] vis = 1 /\ rev = 0 ->
             Bind(ImpliesY(t, s), LAMBDA b, u: Ret(u, IF b THEN {0, 2} ELSE {0, 1}))
        [] vis = 1 /\ rev = 1 -> Ret(t, {1}))

ChoiceAssignable(st, ch, vis) ==
    LET least == IF Tree[ch].optional THEN 0 ELSE 1
    IN IF vis = 1 THEN Ret(st, least..1)
       ELSE Bind(TypeIsBool(st, ch), LAMBDA b, t: Ret(t, (least..2) \ IF b THEN {1} ELSE {}))

AssignableNow(st, i) ==
    IF ~IsTri(i) THEN Ret(st, {})
    ELSE Bind(Visibility(st, i), LAMBDA vis, t:
           IF vis = 0 THEN Ret(t, {})
           ELSE IF i \in Symbols THEN SymAssignable(t, i, vis)
           ELSE ChoiceAssignable(t, i, vis))

\* Calculated now, from what can be read.
EvaluateNow(st, e) ==
    CASE e[2] = "expr" -> ExprValueNow(st, e[1])
      [] e[2] = "mode" -> ChoiceTriNow(st, e[1])
      [] e[2] = "vis" -> VisibilityNow(st, e[1])
      [] e[2] = "value" -> IF IsTri(e[1]) THEN TriValue(st, e[1]) ELSE StrValue(st, e[1])
      [] e[2] = "assignable" -> AssignableNow(st, e[1])
      [] e[2] = "selection" -> SelectionNow(st, e[1])

Evaluate(st, e) ==
    IF e[2] \in {"expr", "mode"} THEN EvaluateNow(st, e)
    ELSE IF st.cache[e] # Uncached THEN Ret(st, st.cache[e])
    ELSE Bind(EvaluateNow(st, e), LAMBDA v, t: Ret([t EXCEPT !.cache[e] = v], v))

RECURSIVE EvaluateEach(_, _)
EvaluateEach(st, es) ==
    IF es = {} THEN st
    ELSE LET e == CHOOSE e \in es : TRUE
         IN Bind(Evaluate(st, e), LAMBDA v, t: EvaluateEach(t, es \ {e}))

----------------------------------------------------------------------------
Given == [user |-> user, selected |-> selected, cache |-> cache, was |-> was]

Take(st) ==
    /\ user' = st.user /\ selected' = st.selected /\ was' = st.was /\ cache' = st.cache
    /\ UNCHANGED <<kconf, dependents>>

ValuesInit ==
    /\ kconf \in Kconfigs
    /\ dependents = Built(Tree)
    /\ user = [i \in Items |-> None]
    /\ selected = [ch \in Choices |-> None]
    /\ was = {}
    /\ cache = NoCache

Set(i, v) == Take(IF i \in Symbols THEN SetValue(Given, i, v) ELSE SetMode(Given, i, v))
Unset(i) == Offered[i] # {} /\ Take(UnsetEach(Given, {i}))
UnsetAll == Take(UnsetEach(Given, Items))
Read(e) == cache[e] = Uncached /\ Take(Evaluate(Given, e).st)

----------------------------------------------------------------------------
\* Everything calculated anew: the cache with every entry filled from nothing.
Anew(st) == EvaluateEach([st EXCEPT !.cache = NoCache], Entries).cache

Level(st, i) == IF i \in Symbols THEN SymTri(st, i).v ELSE ChoiceTri(st, i).v
LevelAnew(st, i) == Level([st EXCEPT !.cache = NoCache], i)

\* What is cached is what would be calculated now, however items were set,
\* unset and read before (Symbol._rec_invalidate stops at items without a
\* cached visibility).
CachesFresh ==
    \A fresh \in {Anew(Given)} : \A e \in Entries : cache[e] # Uncached => cache[e] = fresh[e]

\* Setting a value that `assignable' offers makes it the value: neither the
\* visibility, nor a select, an imply, a choice or MODULES takes it back.
AssignableRespected ==
    \A fresh \in {Anew(Given)} : \A i \in Items : \A v \in fresh[<<i, "assignable">>] :
        LevelAnew(IF i \in Symbols THEN SetValue(Given, i, v) ELSE SetMode(Given, i, v), i) = v

\* A choice in y mode has one symbol that is y, and it is the selection, as
\* long as any of its symbols is visible; in m mode there is none that is y.
ChoiceExclusive(fresh) ==
    \A ch \in Choices :
        LET symbols == {s \in Symbols : Tree[s].choice = ch}
            chosen == {s \in symbols : fresh[<<s, "value">>].tri = 2}
            visible == {s \in symbols : fresh[<<s, "vis">>] # 0}
        IN /\ chosen = {fresh[<<ch, "selection">>]} \ {None}
           /\ ChoiceTri([Given EXCEPT !.cache = fresh], ch).v = 2 /\ visible # {} => Cardinality(chosen) = 1

\* A number whose range is active lies in it, and is what the user gave if that
\* lies in it too, in the same form.
RangeRespected(fresh) ==
    \A s \in {s \in Symbols : OrigType(s) \in {"int", "hex"}} :
        \A range \in {ActiveRange([Given EXCEPT !.cache = fresh], s).v} :
        LET text == fresh[<<s, "value">>].text
            visible == fresh[<<s, "vis">>] # 0
        IN range # <<>> /\ range[1] <= range[2] =>
             /\ Within(range, NumberOr0(OrigType(s), text))
             /\ visible /\ user[s] # None /\ Within(range, Numeral[OrigType(s)][user[s]])
                  => text = user[s]

\* Selects and dependencies agree: what is more than its dependencies allow is
\* selected.
DependenciesMet(fresh) ==
    LET full == [Given EXCEPT !.cache = fresh]
    IN \A s \in Symbols : IsTri(s) /\ Defaults(s) = <<>> =>
         \E e \in {Tree[s].dep, Tree[s].rev} :
             fresh[<<s, "value">>].tri <= Promoted(full, s, ExprValue(full, e).v).v

\* The values that hold together: one of each choice, numbers in their ranges,
\* and nothing above its dependencies that is not selected.
ValuesConsistent ==
    \A fresh \in {Anew(Given)} : ChoiceExclusive(fresh) /\ RangeRespected(fresh) /\ DependenciesMet(fresh)
============================================================================

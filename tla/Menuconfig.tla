----------------------------- MODULE Menuconfig -----------------------------
(* The terminal interface of the vendored Kconfig library (menuconfig.py):  *)
(* what is shown of a configuration, where the cursor is, what the keys do, *)
(* and what is saved and loaded.  The dialogs that float above the menu let *)
(* nothing happen but a resize, and are part of the step that opens them;   *)
(* the search and the information fill the screen and have steps of their   *)
(* own.  Values are read anew in each step (see CachesFresh).               *)
EXTENDS ConfigFiles, Scrolling

CONSTANTS
    \* Fields of Kconfigs that are read here:
    \*   nodes      the menu nodes, the top node first (see KconfigSystems)
    \*   searches   the lists of nodes that a search finds
    \*   files      the names of files that are saved and loaded
    \*   found      what those may hold at first: name -> its place in Inputs, or 0
    \*   terminals  heights of the terminal
    PageJump,      \* _PG_JUMP
    MaxStray       \* bound: how far the cursor leaves an empty list

VARIABLES
    screen,   \* the globals of the interface, and how it ended
    search,   \* the search dialog
    dialogs,  \* the full-screen dialogs that are open, the upper one last
    terminal, \* its height
    disk      \* file -> None or [lines, min, lost]: what it holds, whether that
              \* was saved as a minimal configuration, and whether a save of it
              \* failed on the way

menuVars == <<fileVars, screen, search, dialogs, terminal, disk>>

Nodes == kconf.nodes
Files == kconf.files

IsMenu(n) == Nodes[n].menuconfig
IsSymNode(n) == Nodes[n].item[1] = "sym"
NodesOf(item) == SelectSeq([n \in DOMAIN Nodes |-> n], LAMBDA n : Nodes[n].item = item)

\* The conditions under which a node is visible.
Conditions(n) ==
    {Nodes[n].prompt[1]} \cup IF Nodes[n].item = <<"menu">> THEN {Nodes[n].visibility} ELSE {}

Visible(st, n) == Nodes[n].prompt # <<>> /\ \A c \in Conditions(n) : ExprValue(st, c).v # 0

\* The state of a step, with every value calculated and the nodes that are
\* visible.
WithCache(st, full) ==
    [user |-> st.user, selected |-> st.selected, was |-> st.was, cache |-> full,
     visible |-> {n \in DOMAIN Nodes : Visible([st EXCEPT !.cache = full], n)}]
Filled(st) == WithCache(st, Anew(st))

\* A list as it is shown.  Submenus that are no menus of the interface are
\* shown in place, and a symbol that is invisible if anything below it is not.
RECURSIVE Listed(_, _, _)
Listed(st, all, list) ==
    IF list = <<>> THEN <<>>
    ELSE LET n == Head(list)
             below == Listed(st, all, Nodes[n].list)
             rest == Listed(st, all, Tail(list))
         IN IF all \/ n \in st.visible \/ (IsSymNode(n) /\ below # <<>>)
            THEN <<n>> \o (IF IsMenu(n) THEN <<>> ELSE below) \o rest
            ELSE rest

\* Those of list whose symbols are not in seen, each symbol once.
RECURSIVE Unseen(_, _)
Unseen(list, seen) ==
    IF list = <<>> THEN <<>>
    ELSE LET n == Head(list)
             rest == Unseen(Tail(list), seen \cup IF IsSymNode(n) THEN {Nodes[n].item} ELSE {})
         IN IF Nodes[n].item \in seen THEN rest ELSE <<n>> \o rest

\* The choice symbols of all places where the choice is defined, of which this
\* one comes before the others.
RECURSIVE FromPlaces(_, _, _, _, _)
FromPlaces(st, all, menu, places, seen) ==
    IF places = <<>> THEN <<>>
    ELSE LET list == Listed(st, all, Nodes[Head(places)].list)
             new == IF Head(places) = menu THEN list ELSE Unseen(list, seen)
         IN new \o FromPlaces(st, all, menu, Tail(places),
                              seen \cup {Nodes[n].item : n \in {n \in Elements(new) : IsSymNode(n)}})

ShownNodes(st, all, menu) ==
    LET here == Listed(st, all, Nodes[menu].list)
    IN IF Nodes[menu].item[1] = "choice"
       THEN FromPlaces(st, all, menu, NodesOf(Nodes[menu].item),
                       {Nodes[n].item : n \in {n \in Elements(here) : IsSymNode(n)}})
       ELSE here

RECURSIVE ParentMenu(_)
ParentMenu(n) == IF IsMenu(Nodes[n].parent) THEN Nodes[n].parent ELSE ParentMenu(Nodes[n].parent)

----------------------------------------------------------------------------
(* The handlers work on w = [st, s]: the values, and the screen.  sel and   *)
(* scroll count from 0.                                                     *)

\* F of w, which the set makes TLC calculate once.
Once(w, F(_)) == CHOOSE b \in {F(x) : x \in {w}} : TRUE

Selected(w) == w.s.shown[w.s.sel + 1]

\* Python's index() raises an exception if the node is not in the list.
Select(w, n) ==
    LET at == {k \in DOMAIN w.s.shown : w.s.shown[k] = n}
    IN IF at = {} THEN [w EXCEPT !.s.state = "lost"]
       ELSE [w EXCEPT !.s.sel = (CHOOSE k \in at : TRUE) - 1]

CenterVertically(w) == [w EXCEPT !.s = Centered(@, w.s.shown)]

\* The cursor stays in its row if it can.
KeepRow(w, row) == [w EXCEPT !.s = InRow(@, row)]

Shows(w, menu) == [w EXCEPT !.s.menu = menu, !.s.shown = ShownNodes(w.st, w.s.showAll, menu)]

SelectSelectedChoiceSym(w) ==
    LET chosen == w.st.cache[<<Nodes[w.s.menu].item[2], "selection">>]
        at == SelectSeq(NodesOf(Sym(chosen)), LAMBDA n : n \in Elements(w.s.shown))
    IN IF chosen = None \/ at = <<>> THEN w ELSE CenterVertically(Select(w, at[1]))

EnterMenu(w, n) ==
    LET in == [Shows(w, n) EXCEPT !.s = FirstLine([@ EXCEPT !.rows = Append(@, Row(w.s))])]
    IN IF Nodes[n].item[1] = "choice" THEN SelectSelectedChoiceSym(in) ELSE in

CanEnter(w, n) == IsMenu(n) /\ ShownNodes(w.st, w.s.showAll, n) # <<>>

\* Mutant: the row is one of the window as it was when the menu was entered.
LeaveMenuRow(w) ==
    IF w.s.menu = 1 THEN w
    ELSE Once(Select(Shows(w, ParentMenu(w.s.menu)), w.s.menu), LAMBDA up :
           IF up.s.state = "lost" THEN up
           ELSE IF w.s.rows = <<>> THEN CenterVertically(up)
           ELSE KeepRow([up EXCEPT !.s.rows = SubSeq(@, 1, Len(@) - 1)], w.s.rows[Len(w.s.rows)]))

LeaveMenu(w) ==
    IF w.s.menu = 1 THEN w
    ELSE Once(Select(Shows(w, ParentMenu(w.s.menu)), w.s.menu), LAMBDA up :
           IF up.s.state = "lost" THEN up
           ELSE IF w.s.rows = <<>> THEN CenterVertically(up)
           ELSE KeepRow([up EXCEPT !.s.rows = SubSeq(@, 1, Len(@) - 1)],
                      Least(w.s.rows[Len(w.s.rows)], w.s.height - 1)))

\* The closest node that is still shown becomes the selected one, preferably
\* one before it; with none, all nodes are shown again.
ToggleShowAll(w) ==
    LET shown == ShownNodes(w.st, ~w.s.showAll, w.s.menu)
        old == w.s.shown
        stay == {k \in DOMAIN old : old[k] \in Elements(shown)}
        before == {k \in stay : k <= w.s.sel + 1}
        closest == IF before # {} THEN CHOOSE k \in before : \A j \in before : j <= k
                   ELSE CHOOSE k \in stay : \A j \in stay : k <= j
    IN IF stay = {} THEN [w EXCEPT !.s.showAll = TRUE]
       ELSE KeepRow(Select([w EXCEPT !.s.showAll = ~@, !.s.shown = shown], old[closest]), Row(w.s))

\* Menus and choices are entered, at their first node.
JumpTo(w, n) ==
    LET into == Nodes[n].item[1] \in {"choice", "menu"} /\ Nodes[n].list # <<>>
        target == IF into THEN Head(Nodes[n].list) ELSE n
        menu == IF into THEN n ELSE ParentMenu(n)
        there == Shows([w EXCEPT !.s.rows = <<>>], menu)
        all == IF target \in Elements(there.s.shown) THEN there
               ELSE Shows([there EXCEPT !.s.showAll = TRUE], menu)
        forced == into /\ ~w.s.showAll /\ all.s.showAll
    IN Once(Select(all, target), LAMBDA at :
       Once(CenterVertically(IF forced THEN ToggleShowAll(at) ELSE at), LAMBDA centered :
         IF into /\ Nodes[n].item[1] = "choice" THEN SelectSelectedChoiceSym(centered) ELSE centered))

----------------------------------------------------------------------------
\* After a change, the same node stays selected, in its row.
UpdateMenu(w) == KeepRow(Select(Shows(w, w.s.menu), Selected(w)), Row(w.s))

\* The value as text, which is not set if it is what the item has.
SetVal(w, i, v) ==
    LET has == IF IsTri(i) THEN Level(w.st, i) ELSE TextOf(w.st, i)
    IN IF v = has THEN w
       ELSE UpdateMenu([w EXCEPT !.st = Filled(IF i \in Symbols THEN SetValue(@, i, v) ELSE SetMode(@, i, v)),
                                 !.s.changed = TRUE])

AssignableIn(st, i) == st.cache[<<i, "assignable">>]

IsYModeChoiceSym(w, i) == InChoice(i) /\ VisibilityIn(w.st, i) = 2

Changeable(w, n) ==
    LET i == Nodes[n].item[2]
    IN /\ Nodes[n].item[1] \in {"sym", "choice"}
       /\ n \in w.st.visible
       /\ ~IsTri(i) \/ Cardinality(AssignableIn(w.st, i)) > 1 \/ IsYModeChoiceSym(w, i)

\* The ends of the range that is active, as they are written.
RangeTexts(st, i) ==
    UNION {IF at = 0 THEN {} ELSE {LeafText(st, Tree[i].ranges[at].low).v, LeafText(st, Tree[i].ranges[at].high).v} :
             at \in {FirstActive(st, Tree[i].ranges, 1).v.at}}

\* The ends of a range are taken for numbers, though they may be empty.
RangeRaises(w, i) ==
    OrigType(i) # "string" /\ \E end \in RangeTexts(w.st, i) : ~IsNumber(OrigType(i), end)

\* The texts that the input dialog lets pass; it asks until the text is valid
\* or the user gives up.
ValidTexts(w, i) ==
    LET type == OrigType(i)
    IN IF type = "string" THEN Offered[i]
       ELSE UNION {{t \in Offered[i] : IsNumber(type, t) /\ Within(range, Numeral[type][t])} :
                    range \in {ActiveRange(w.st, i).v}}

\* The next value that the item may have, in a circle.
NextValues(values, level) ==
    LET after == {x \in values : x > level}
        least(s) == CHOOSE x \in s : \A y \in s : x <= y
    IN IF Cardinality(values) = 1 THEN values
       ELSE IF level \notin values THEN {}
       ELSE {least(IF after # {} THEN after ELSE values)}

NewValues(w, i) ==
    IF IsTri(i) THEN NextValues(AssignableIn(w.st, i), Level(w.st, i)) ELSE ValidTexts(w, i)

\* list.index() raises an exception for a value that could not be assigned.
ChangeRaises(w, i) == IF IsTri(i) THEN NewValues(w, i) = {} ELSE RangeRaises(w, i)

\* The states after _change_node(); a dialog may be left without a text.
ChangedStates(w, i) ==
    (IF IsTri(i) THEN {} ELSE {w})
    \cup IF ChangeRaises(w, i) THEN {[w EXCEPT !.s.state = "raised"]}
         ELSE {SetVal(w, i, v) : v \in NewValues(w, i)}

\* A selection in a choice leads back to its parent menu.
ChangeNode(w, n) ==
    {IF c.s.state = "run" /\ Nodes[n].item[1] = "sym" /\ Nodes[n].list = <<>>
        /\ IsYModeChoiceSym(c, Nodes[n].item[2])
     THEN LeaveMenu(c) ELSE c : c \in ChangedStates(w, Nodes[n].item[2])}

SetSelNodeTriVal(w, v) ==
    LET item == Nodes[Selected(w)].item
    IN IF item[1] \in {"sym", "choice"} /\ v \in AssignableIn(w.st, item[2]) THEN SetVal(w, item[2], v) ELSE w

----------------------------------------------------------------------------
(* Saving and loading *)

\* Mutant: symbols that the file does not mention are not looked at.
NeedsSaveMentioned(st, known) ==
    \/ known # <<>>
    \/ \E s \in Symbols :
         /\ st.user[s] # None
         /\ st.user[s] # IF IsTri(s) THEN TriOf(st, s) ELSE TextOf(st, s)

\* Would the configuration that was just loaded be saved as something else?
NeedsSave(st, known) ==
    \/ known # <<>>
    \/ \E s \in Symbols :
         IF st.user[s] = None THEN ConfigString(st, s) # <<>>
         ELSE st.user[s] # IF IsTri(s) THEN TriOf(st, s) ELSE TextOf(st, s)

File(lines, min) == [lines |-> lines, min |-> min, lost |-> FALSE]

\* What save_fn may leave in the file: the contents, or, after an error, what
\* was there, or nothing, because it was moved away or emptied.
Saved(name, contents, min) ==
    LET old == disk[name]
    IN IF old # None /\ old.lines = contents THEN {[ok |-> TRUE, file |-> old]}
       ELSE {[ok |-> TRUE, file |-> File(contents, min)], [ok |-> FALSE, file |-> old],
             [ok |-> FALSE, file |-> [File(<<>>, min) EXCEPT !.lost = TRUE]]}

\* The file is loaded into w with the values st, and the symbols known that are
\* missing; the selected node is shown in any case.
Loaded(w, name, st, known) ==
    LET shown == Selected(w) \in Elements(ShownNodes(st, w.s.showAll, w.s.menu))
    IN UpdateMenu([w EXCEPT !.st = st, !.s.conf = name, !.s.changed = NeedsSave(st, known),
                            !.s.showAll = @ \/ ~shown])

----------------------------------------------------------------------------
(* Resizing *)

ResizeMain(s, t) == Fitted(s, MenuHeight(t, s.showHelp))

----------------------------------------------------------------------------
Working == [st |-> Filled(Given), s |-> screen]

\* The step to w, which reads nothing that is cached.
Shown(w) ==
    /\ Take([w.st EXCEPT !.cache = NoCache])
    /\ screen' = w.s

NoSearch == [matches |-> <<>>, sel |-> 0, scroll |-> 0, height |-> 1]

Upper == IF dialogs = <<>> THEN "main" ELSE dialogs[Len(dialogs)]

AtMain == screen.state = "run" /\ Upper = "main"

\* A key that leaves the files alone.
Key(w) == AtMain /\ Shown(w) /\ UNCHANGED <<missing, search, dialogs, terminal, disk>>

Resize(t) ==
    /\ screen.state = "run" /\ t # terminal
    /\ terminal' = t
    /\ screen' = IF Upper = "main" THEN ResizeMain(screen, t) ELSE screen
    /\ search' = IF Upper = "jump" THEN Fitted(search, MatchesHeight(t)) ELSE search
    /\ UNCHANGED <<fileVars, dialogs, disk>>

\* Down, up, page down and page up, and to the ends.
Move ==
    LET at(s) == [st |-> Given, s |-> s]
    IN \/ \E k \in {1, -1, PageJump, -PageJump} : Key(at(Lines(screen, screen.shown, k)))
       \/ Key(at(FirstLine(screen)))
       \/ Key(at(LastLine(screen, screen.shown)))

\* Space changes the node or else enters it; Enter does it the other way.
Activate(changeFirst) ==
    /\ AtMain
    /\ \E w \in {Working} :
         LET n == Selected(w)
             change == Changeable(w, n) /\ (changeFirst \/ ~CanEnter(w, n))
         IN IF change THEN \E c \in ChangeNode(w, n) : Key(c)
            ELSE CanEnter(w, n) /\ Key(EnterMenu(w, n))

SetTri(v) == AtMain /\ Key(SetSelNodeTriVal(Working, v))

Leave == AtMain /\ Key(LeaveMenu(Working))

ToggleAll == AtMain /\ Key(ToggleShowAll(Working))

\* The help takes lines from the menu.  Bound: where the terminal keeps its
\* height, so does the help.
ToggleHelp ==
    LET other == [screen EXCEPT !.showHelp = ~@]
    IN Cardinality(kconf.terminals) > 1 /\ Key([st |-> Given, s |-> ResizeMain(other, terminal)])

\* _load_dialog(); files that are missing make it ask again.  Changes that are
\* not saved are left behind after a question.
LoadDialog(name) ==
    /\ AtMain /\ disk[name] # None
    /\ \E end \in {LoadConfig(Given, missing, disk[name].lines, TRUE)} :
         /\ \E w \in {Loaded(Working, name, Filled(end.st), end.missing)} : Shown(w)
         /\ missing' = end.missing
    /\ UNCHANGED <<search, dialogs, terminal, disk>>

Contents(full, min) == IF min THEN MinContents(full) ELSE ConfigContents(full)

SaveDialog(name, min) ==
    /\ AtMain
    /\ \E saved \in Saved(name, Contents(Calculated(Given), min), min) :
         /\ disk' = [disk EXCEPT ![name] = saved.file]
         /\ screen' = IF saved.ok /\ ~min THEN [screen EXCEPT !.conf = name, !.changed = FALSE] ELSE screen
    /\ UNCHANGED <<fileVars, search, dialogs, terminal>>

\* The user is asked about changes, and may save, drop them, or go on; a save
\* that fails asks again.
QuitDialog ==
    /\ AtMain
    /\ \/ /\ screen' = [screen EXCEPT !.state = "ended"]
          /\ UNCHANGED disk
       \/ /\ screen.changed /\ screen.conf \in Files
          /\ \E saved \in Saved(screen.conf, Contents(Calculated(Given), FALSE), FALSE) :
               /\ disk' = [disk EXCEPT ![screen.conf] = saved.file]
               /\ screen' = IF saved.ok THEN [screen EXCEPT !.state = "ended", !.changed = FALSE] ELSE screen
    /\ UNCHANGED <<fileVars, search, dialogs, terminal>>

----------------------------------------------------------------------------
(* The search and the information.  The search can be opened from the       *)
(* information and the other way round, but not once more above themselves. *)

Open(which, s) ==
    /\ dialogs' = Append(dialogs, which)
    /\ search' = s
    /\ UNCHANGED <<fileVars, screen, terminal, disk>>

\* Back to what is below, which is resized to the terminal as it is now.
CloseTo(depth, s) ==
    LET below == SubSeq(dialogs, 1, depth)
    IN /\ dialogs' = below
       /\ screen' = IF below = <<>> THEN ResizeMain(s, terminal) ELSE s
       /\ search' = IF below = <<>> \/ below[depth] = "info" THEN NoSearch
                    ELSE Fitted(search, MatchesHeight(terminal))
       /\ UNCHANGED <<terminal, disk>>

Searching == screen.state = "run" /\ Upper = "jump"

OpenSearch ==
    /\ screen.state = "run" /\ Upper \in {"main", "info"} /\ "jump" \notin Elements(dialogs)
    /\ kconf.searches # {}
    /\ \E m \in kconf.searches :
         Open("jump", [NoSearch EXCEPT !.matches = m, !.height = MatchesHeight(terminal)])

OpenInfo ==
    /\ screen.state = "run" /\ kconf.searches # {}
    /\ \/ Upper = "main"
       \/ Upper = "jump" /\ search.matches # <<>>
    /\ Open("info", search)

\* Another text finds other nodes, from the top of their list.
Search ==
    /\ Searching
    /\ \E m \in kconf.searches : search' = FirstLine([search EXCEPT !.matches = m])
    /\ UNCHANGED <<fileVars, screen, dialogs, terminal, disk>>

\* The next and the previous match do not stop at the ends of a list without
\* nodes.
MatchLine(at, k) ==
    IF at.matches = <<>> THEN [at EXCEPT !.sel = @ + IF k < 0 /\ @ = 0 THEN 0 ELSE IF k > 0 /\ @ = -1 THEN 0 ELSE k]
    ELSE Lines(at, at.matches, k)

MoveInSearch ==
    /\ Searching
    /\ \/ \E k \in {1, -1, PageJump, -PageJump} :
            /\ search.matches = <<>> => k \in {1, -1} /\ MatchLine(search, k).sel \in -MaxStray..MaxStray
            /\ search' = MatchLine(search, k)
       \/ search' = FirstLine(search)
       \/ search' = LastLine(search, search.matches)
    /\ UNCHANGED <<fileVars, screen, dialogs, terminal, disk>>

\* The jump closes the information that the search was opened from.
Jump ==
    /\ Searching /\ search.matches # <<>>
    /\ \E w \in {JumpTo(Working, search.matches[search.sel + 1])} :
         /\ Take([w.st EXCEPT !.cache = NoCache])
         /\ CloseTo(0, w.s)
    /\ UNCHANGED missing

\* "/" above the search, and the keys that leave a dialog.
Close ==
    /\ screen.state = "run" /\ dialogs # <<>>
    /\ CloseTo(Len(dialogs) - 1, screen)
    /\ UNCHANGED fileVars

----------------------------------------------------------------------------
Interfaced == Nodes # <<>>

\* The interface starts with the configuration that it finds, and shows all
\* nodes if none is visible.
MenuInit ==
    /\ FilesInit
    /\ dialogs = <<>> /\ search = NoSearch
    /\ terminal \in kconf.terminals
    /\ \E found \in kconf.found :
         disk = [name \in DOMAIN found |-> IF found[name] = 0 THEN None ELSE File(Inputs[found[name]], FALSE)]
    /\ screen = [state |-> "start"]

StartMenu ==
    /\ Interfaced /\ screen.state = "start"
    /\ \E end \in {IF disk["config"] = None THEN [st |-> Given, missing |-> <<>>]
                   ELSE LoadConfig(Given, missing, disk["config"].lines, TRUE)} :
       \E st \in {Filled(end.st)} :
         LET all == ShownNodes(st, FALSE, 1) = <<>>
         IN /\ ShownNodes(st, TRUE, 1) # <<>>
            /\ Take([st EXCEPT !.cache = NoCache])
            /\ missing' = end.missing
            /\ screen' = [state |-> "run", menu |-> 1, shown |-> ShownNodes(st, all, 1), sel |-> 0,
                          scroll |-> 0, rows |-> <<>>, showAll |-> all, showHelp |-> FALSE,
                          height |-> MenuHeight(terminal, FALSE), conf |-> "config",
                          changed |-> disk["config"] = None \/ NeedsSave(st, end.missing)]
    /\ UNCHANGED <<search, dialogs, terminal, disk>>

MenuNext ==
    \/ StartMenu \/ Move \/ Leave \/ ToggleAll \/ ToggleHelp \/ QuitDialog
    \/ OpenSearch \/ OpenInfo \/ Search \/ MoveInSearch \/ Jump \/ Close
    \/ \E t \in kconf.terminals : Resize(t)
    \/ \E changeFirst \in BOOLEAN : Activate(changeFirst)
    \/ \E v \in 0..2 : SetTri(v)
    \/ \E name \in Files : LoadDialog(name)
    \/ \E name \in Files, min \in BOOLEAN : SaveDialog(name, min)

MenuSpec == MenuInit /\ [][MenuNext]_menuVars

----------------------------------------------------------------------------
\* No item is defined twice, and the menus that are visible under a condition
\* have no menus and comments in them.
PlainTree ==
    /\ \A n, m \in DOMAIN Nodes : n # m /\ Nodes[n].item = Nodes[m].item => Len(Nodes[n].item) = 1
    /\ \A n \in DOMAIN Nodes : Len(Nodes[n].item) = 1 /\ n # 1 => Nodes[Nodes[n].parent].visibility = Y

\* What is shown is what the values make of the menu, after every change, load,
\* jump and resize, and one of its nodes is selected, in a row that is on the
\* screen; so is the selected match of a search.  In a plain tree nothing makes
\* the selected node disappear, nor the menu that Leave goes back to.
SelectionOnScreen ==
    /\ screen.state = "run" =>
         /\ screen.shown = ShownNodes(Filled(Given), screen.showAll, screen.menu)
         /\ OnScreen(screen, screen.shown)
    /\ search.matches # <<>> => OnScreen(search, search.matches)
    /\ screen.state = "lost" => ~PlainTree

\* The interface ends without a question only if nothing would be lost: the
\* file has every line that would be saved, and gives the values that are seen
\* to whoever loads it.  What a minimal configuration or a save that failed
\* left there is another matter.
NoChangesLost ==
    screen.state \in {"run", "ended"} /\ ~screen.changed =>
        LET file == disk[screen.conf]
        IN /\ file # None
           /\ ~file.lost => ValuesAfter(Pristine, file.lines) = TextsOf(Calculated(Given))
           /\ ~file.lost /\ ~file.min =>
                Elements(ConfigContents(Calculated(Given))) \subseteq Elements(file.lines)
============================================================================

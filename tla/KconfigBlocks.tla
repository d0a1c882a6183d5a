--------------------------- MODULE KconfigBlocks ---------------------------
(* Parsing Kconfig files (kconfiglib.py): blocks, properties, sourced files *)
(* and the places that nodes remember.  Lines come one by one; a line is a  *)
(* record with its kind t and what the kind has (see MCKconfigLanguage).    *)
(* What its text means comes with it, as h: ok, is it well formed?; cond,   *)
(* its expression; defaults, the values that it gives.  KconfigParser reads *)
(* that from the text.                                                      *)
(* Nodes are numbered as they are made; 1 is the top node and 0 none.       *)
EXTENDS KconfigTerms, TLC

CONSTANTS
    Vocabularies,  \* [lines, most]: files of a behaviour are made of the lines
                   \* of one of them; bound: with no more than most lines
    None

\* What the lines of a help text and the files of a source line are, and that
\* no token is None.
ASSUME LinesAreLines ==
    /\ None \notin {"endif", "endmenu", "endchoice"}
    /\ \A v \in Vocabularies : \A l \in v.lines : l.t = "help" => l.texts \in Nat

VARIABLES
    vocabulary,  \* the one of Vocabularies
    phase,       \* "parse", "parsed", "error", or what comes after parsing
    nodes,       \* the menu nodes
    frames,      \* the calls of _parse_block(), the innermost last
    pending,     \* the node in _parse_props(), or 0
    files,       \* [name, line] of the open files, the current one last
    peeked,      \* was the next line fetched already, after a help text?
    types,       \* item -> orig_type
    optional,    \* the choices with is_optional
    read         \* history: the lines, with the ends of files

blockVars == <<vocabulary, phase, nodes, frames, pending, files, peeked, types,
               optional, read>>

\* end and parent of _parse_block(), prev, and the files that the source
\* statement goes on with.
Frame(end, parent, prev, rest) == [end |-> end, parent |-> parent, prev |-> prev, rest |-> rest]

\* The place of the line that was just fetched; the one after a help text was
\* counted with it.
Fetched(texts) == [files EXCEPT ![Len(files)].line = @ + (IF peeked THEN 0 ELSE 1) + texts]

Node(item, parent, prompt) ==
    [item |-> item, parent |-> parent, prompt |-> prompt, dep |-> Y, visibility |-> Y,
     defaults |-> <<>>, ranges |-> <<>>, selects |-> <<>>, implies |-> <<>>,
     next |-> 0, list |-> 0, at |-> Fetched(0)]

Kind(n) == nodes[n].item[1]
EndOf == [k \in {"menu", "choice", "if"} |->
            CASE k = "menu" -> "endmenu" [] k = "choice" -> "endchoice" [] k = "if" -> "endif"]

\* prev.next = prev = n, in the innermost call.
Linked(b, n) ==
    LET k == Len(b.frames)
        prev == b.frames[k].prev
    IN [b EXCEPT !.nodes[prev].next = n, !.frames[k].prev = n]

Pushed(b, f) == [b EXCEPT !.frames = Append(@, f)]
Popped(b) == [b EXCEPT !.frames = SubSeq(@, 1, Len(@) - 1)]

\* The state when _parse_props() has returned: menus and choices go on with
\* their blocks, other nodes are in the list.
Settled ==
    LET b == [nodes |-> nodes, frames |-> frames]
    IN IF pending = 0 THEN b
       ELSE IF Kind(pending) \in {"menu", "choice"}
            THEN Pushed(b, Frame(EndOf[Kind(pending)], pending, pending, <<>>))
       ELSE Linked(b, pending)

Take(b) == nodes' = b.nodes /\ frames' = b.frames

\* A block that ends: its list hangs from its node, which the outer block takes.
Closed(b) ==
    LET f == b.frames[Len(b.frames)]
        ended == [b EXCEPT !.nodes[f.prev].next = 0]
    IN Linked(Popped([ended EXCEPT !.nodes[f.parent].list = ended.nodes[f.parent].next]), f.parent)

Fail == phase' = "error" /\ UNCHANGED <<nodes, frames, pending, types, optional>>

Starts == {"config", "menu", "comment", "choice"}

\* A definition; its properties follow.
Define(l) ==
    LET b == Settled
        named == l.t \in {"menu", "comment"}
        item == CASE l.t = "config" -> l.sym
                  [] l.t = "choice" -> <<"choice", IF l.name = None THEN ToString(Len(nodes) + 1) ELSE l.name>>
                  [] OTHER -> <<l.t>>
    IN IF l.t = "config" /\ l.sym[1] # "sym" THEN Fail
       ELSE /\ nodes' = Append(b.nodes, Node(item, b.frames[Len(b.frames)].parent,
                                             IF named THEN <<Y>> ELSE <<>>))
            /\ frames' = b.frames
            /\ pending' = Len(nodes) + 1
            /\ UNCHANGED <<phase, types, optional>>

\* if: a node that is taken out again when the tree is finalized.
If(h) ==
    LET b == Settled
        n == Len(nodes) + 1
        node == [Node(<<"if">>, b.frames[Len(b.frames)].parent, <<>>) EXCEPT !.dep = h.cond]
    IN IF ~h.ok THEN Fail
       ELSE /\ Take(Pushed([b EXCEPT !.nodes = Append(@, node)], Frame("endif", n, n, <<>>)))
            /\ pending' = 0
            /\ UNCHANGED <<phase, types, optional>>

EndBlock(l) ==
    LET b == Settled
    IN IF b.frames[Len(b.frames)].end # l.t THEN Fail
       ELSE /\ Take(Closed(b))
            /\ pending' = 0
            /\ UNCHANGED <<phase, types, optional>>

\* source: the files that match, sorted, in a call each with the same parent.
Source(l) ==
    LET b == Settled
        f == b.frames[Len(b.frames)]
        recursive == \E k \in DOMAIN files : files[k].name = l.files[1]
    IN IF l.files = <<>> /\ ~l.obligatory
       THEN Take(b) /\ pending' = 0 /\ UNCHANGED <<phase, types, optional>>
       ELSE IF l.files = <<>> \/ recursive THEN Fail
       ELSE /\ Take(Pushed(b, Frame(None, f.parent, f.prev, Tail(l.files))))
            /\ pending' = 0
            /\ UNCHANGED <<phase, types, optional>>

\* Every other line outside of _parse_props().
Other(l) ==
    IF l.t = "mainmenu"
    THEN /\ Take([Settled EXCEPT !.nodes[1].prompt = <<Y>>])
         /\ pending' = 0
         /\ UNCHANGED <<phase, types, optional>>
    ELSE Fail

----------------------------------------------------------------------------
IsItem(n) == Kind(n) \in {"sym", "choice"}

\* Is the property right for the node, and well formed?
Proper(l, h, n) ==
    /\ h.ok
    /\ CASE l.t \in {"type", "env"} -> IsItem(n)
         [] l.t = "visible" -> Kind(n) = "menu"
         [] l.t = "default" -> l.type # None => IsItem(n)
         [] l.t \in {"select", "imply"} -> Kind(n) = "sym" /\ l.sym[1] = "sym"
         [] l.t = "range" -> IsLeaf(l.low) /\ IsLeaf(l.high)
         [] l.t = "optional" -> Kind(n) = "choice"
         [] OTHER -> TRUE

WithProperty(l, h, node) ==
    CASE l.t \in {"type", "prompt"} ->
           IF l.t = "prompt" \/ l.prompt THEN [node EXCEPT !.prompt = <<h.cond>>] ELSE node
      [] l.t = "depends" -> [node EXCEPT !.dep = MakeAnd(@, h.cond)]
      [] l.t = "visible" -> [node EXCEPT !.visibility = MakeAnd(@, h.cond)]
      [] l.t \in {"default", "string", "env"} ->
           [node EXCEPT !.defaults = @ \o [k \in DOMAIN h.defaults |-> [value |-> h.defaults[k], cond |-> h.cond]]]
      [] l.t = "select" -> [node EXCEPT !.selects = Append(@, [sym |-> l.sym[2], cond |-> h.cond])]
      [] l.t = "imply" -> [node EXCEPT !.implies = Append(@, [sym |-> l.sym[2], cond |-> h.cond])]
      [] l.t = "range" ->
           [node EXCEPT !.ranges = Append(@, [low |-> l.low, high |-> l.high, cond |-> h.cond])]
      [] OTHER -> node

Properties == {"type", "prompt", "depends", "visible", "default", "string", "select", "imply",
               "range", "env", "optional", "help"}

\* The last type counts.
Property(l, h) ==
    LET typed == l.t = "type" \/ (l.t = "default" /\ l.type # None)
    IN IF ~Proper(l, h, pending) THEN Fail
       ELSE /\ nodes' = [nodes EXCEPT ![pending] = WithProperty(l, h, @)]
            /\ types' = IF typed THEN [i \in DOMAIN types \cup {nodes[pending].item} |->
                                         IF i = nodes[pending].item THEN l.type ELSE types[i]]
                        ELSE types
            /\ optional' = IF l.t = "optional" THEN optional \cup {nodes[pending].item[2]} ELSE optional
            /\ UNCHANGED <<phase, frames, pending>>

\* Blank lines, and assignments, which leave nothing of the line.
Blank(h) ==
    IF h.ok THEN UNCHANGED <<phase, nodes, frames, pending, types, optional>> ELSE Fail

----------------------------------------------------------------------------
\* Mutant: the line that ends a help text is not counted.
PlaceAfterUncounted(l) ==
    CASE l.t = "help" -> Fetched(l.texts)
      [] l.t = "source" /\ l.files # <<>> /\ phase' = phase -> Append(Fetched(0), [name |-> l.files[1], line |-> 0])
      [] OTHER -> Fetched(0)

PlaceAfter(l) ==
    CASE l.t = "help" -> Fetched(l.texts + 1)
      [] l.t = "source" /\ l.files # <<>> /\ phase' = phase ->
           Append(Fetched(0), [name |-> l.files[1], line |-> 0])
      [] OTHER -> Fetched(0)

\* _next_line() and what is done with the line.
ReadLine(l, h) ==
    /\ phase = "parse" /\ Len(read) < vocabulary.most
    /\ CASE l.t \in {"blank", "assign"} -> Blank(h)
         [] l.t \in Properties /\ pending # 0 -> Property(l, h)
         [] l.t \in Starts -> Define(l)
         [] l.t = "if" -> If(h)
         [] l.t \in {"endif", "endmenu", "endchoice"} -> EndBlock(l)
         [] l.t = "source" -> Source(l)
         [] OTHER -> Other(l)
    /\ files' = PlaceAfter(l)
    /\ peeked' = (l.t = "help")
    /\ read' = Append(read, l)
    /\ UNCHANGED vocabulary

\* The end of a file returns the last node to the source statement, which goes
\* on with its next file, or ends the parsing.
EndFile ==
    LET b == Settled
        f == b.frames[Len(b.frames)]
        outer == SubSeq(files, 1, Len(files) - 1)
        returned == [Popped(b) EXCEPT !.frames[Len(frames) - 1].prev = f.prev]
        ended == [b.nodes EXCEPT ![f.prev].next = 0]
    IN /\ phase = "parse"
       /\ CASE f.end # None -> Fail /\ UNCHANGED files
            [] f.end = None /\ Len(b.frames) = 1 ->
                 /\ nodes' = [ended EXCEPT ![1].list = ended[1].next, ![1].next = 0]
                 /\ phase' = "parsed"
                 /\ UNCHANGED <<frames, pending, files, types, optional>>
            [] f.end = None /\ Len(b.frames) > 1 /\ f.rest = <<>> ->
                 /\ Take(returned)
                 /\ files' = outer
                 /\ pending' = 0
                 /\ UNCHANGED <<phase, types, optional>>
            [] f.end = None /\ Len(b.frames) > 1 /\ f.rest # <<>> ->
                 IF \E k \in DOMAIN outer : outer[k].name = f.rest[1] THEN Fail /\ UNCHANGED files
                 ELSE /\ Take([b EXCEPT !.frames[Len(b.frames)].rest = Tail(@)])
                      /\ files' = Append(outer, [name |-> f.rest[1], line |-> 0])
                      /\ pending' = 0
                      /\ UNCHANGED <<phase, types, optional>>
       /\ peeked' = FALSE
       /\ read' = Append(read, [t |-> "eof", more |-> f.rest])
       /\ UNCHANGED vocabulary

BlocksInit ==
    /\ vocabulary \in Vocabularies
    /\ phase = "parse"
    /\ files = <<[name |-> "Kconfig", line |-> 0]>>
    /\ peeked = FALSE /\ pending = 0
    /\ nodes = <<[Node(<<"menu">>, 0, <<Y>>) EXCEPT !.at = <<>>]>>
    /\ frames = <<Frame(None, 1, 1, <<>>)>>
    /\ types = [i \in {} |-> 0] /\ optional = {}
    /\ read = <<>>

\* What is done with the nodes once they are parsed.
AfterParsing == phase # "parse" /\ phase' \notin {"parse", "parsed"}

\* With lines of any meaning: what the parser of a language does, whatever its
\* expressions and macros are.
BlocksNext == EndFile \/ (\E h : \E l \in vocabulary.lines : ReadLine(l, h)) \/ AfterParsing
BlocksSpec == BlocksInit /\ [][BlocksNext]_blockVars

----------------------------------------------------------------------------
\* Reading the lines once more, with nothing but the blocks that are open and
\* the place: made has <<parent, place>> of every node.
Unread == [open |-> <<1>>, place |-> <<0>>, made |-> <<<<0, <<>>>>>>]

Replayed(o, l) ==
    LET deep == Len(o.place)
        here == [o.place EXCEPT ![deep] = @ + 1]
        makes == l.t \in Starts \cup {"if"}
        opens == l.t \in {"if", "menu", "choice"}
        closes == l.t \in {"endif", "endmenu", "endchoice"}
    IN [open |-> CASE opens -> Append(o.open, Len(o.made) + 1)
                   [] closes -> SubSeq(o.open, 1, Len(o.open) - 1)
                   [] OTHER -> o.open,
        place |-> CASE l.t = "eof" /\ l.more = <<>> -> SubSeq(o.place, 1, deep - 1)
                    [] l.t = "eof" /\ l.more # <<>> -> [o.place EXCEPT ![deep] = 0]
                    [] l.t = "source" /\ l.files # <<>> -> Append(here, 0)
                    [] l.t = "help" -> [here EXCEPT ![deep] = @ + l.texts]
                    [] OTHER -> here,
        made |-> IF makes THEN Append(o.made, <<o.open[Len(o.open)], here>>) ELSE o.made]

Replay(lines) ==
    LET o[k \in 0..Len(lines)] == IF k = 0 THEN Unread ELSE Replayed(o[k - 1], lines[k])
    IN o[Len(lines)]

LinesOf(at) == [k \in DOMAIN at |-> at[k].line]

\* Is n the first of the nodes S, or 0 if there are none?
IsFirst(n, S) == IF S = {} THEN n = 0 ELSE n \in S /\ \A m \in S : n <= m

ListOf(n) == {m \in DOMAIN nodes : nodes[m].parent = n}

\* When the files are parsed, every node hangs once in the list of the innermost
\* block that was open at its line, in the order of the lines through all files,
\* and knows the line and the source statements that led to it.
NodesInPlace ==
    phase = "parsed" =>
        LET made == Replay(read).made
        IN /\ DOMAIN made = DOMAIN nodes
           /\ \A n \in DOMAIN nodes :
                /\ nodes[n].parent = made[n][1]
                /\ LinesOf(nodes[n].at) = made[n][2]
                /\ IsFirst(nodes[n].list, ListOf(n))
                /\ IsFirst(nodes[n].next, {m \in ListOf(nodes[n].parent) : m > n})
============================================================================

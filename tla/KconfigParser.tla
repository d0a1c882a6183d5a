--------------------------- MODULE KconfigParser ---------------------------
(* Parsing Kconfig files (kconfiglib.py): what the lines of KconfigBlocks   *)
(* mean, their expressions in tokens, their values and assignments in texts *)
(* that are expanded as the line is read.                                   *)
EXTENDS KconfigBlocks, KconfigSyntax, Preprocessor

CONSTANTS
    Texts          \* that are expanded to see what the variables do to them

parserVars == <<blockVars, variables>>

\* The expression of a line, Y for a property without a condition.
Cond(l) ==
    CASE l.t \in {"if", "depends", "visible"} -> Parsed(l.toks, TRUE)
      [] l.t \in {"type", "prompt", "default", "string", "select", "imply", "range"} /\ l.cond # <<>> ->
           Parsed(l.cond, TRUE)
      [] OTHER -> [e |-> Y, next |-> 1]

\* The default of a line, if it is well formed or the environment has it.
DefaultsOf(l) ==
    CASE l.t = "default" -> LET p == Parsed(l.value, FALSE) IN IF p.next = 0 THEN <<>> ELSE <<p.e>>
      [] l.t = "string" -> LET q == ExpandStr(l.text, 1, "\"")
                           IN IF q.ok THEN <<<<"str", SubSeq(q.s, 1, q.i - 2)>>>> ELSE <<>>
      [] l.t = "env" -> IF l.name \in DOMAIN Environment THEN <<<<"str", Environment[l.name]>>>> ELSE <<>>
      [] OTHER -> <<>>

Meant(l) ==
    [ok |-> /\ Cond(l).next # 0
            /\ l.t \in {"default", "string"} => DefaultsOf(l) # <<>>
            /\ l.t = "assign" => Assigned(l.text).ok,
     cond |-> Cond(l).e,
     defaults |-> DefaultsOf(l)]

Read(l) ==
    /\ ReadLine(l, Meant(l))
    /\ variables' = IF l.t = "assign" /\ Assigned(l.text).ok THEN Assigned(l.text).variables ELSE variables

ParserInit == BlocksInit /\ PreprocessorInit
ParserNext == (EndFile /\ UNCHANGED variables) \/ \E l \in vocabulary.lines : Read(l)

----------------------------------------------------------------------------
\* After every assignment, every text expands to what it means: macros in
\* macros, with arguments that are expanded once, and no text that was put in
\* is expanded or taken apart again.
TextsExpand ==
    read # <<>> /\ read[Len(read)].t = "assign" =>
        \A t \in Texts :
            LET meant == MeaningOf(NoneOpen, t, <<>>)
            IN /\ Expanded(t).ok = meant.ok
               /\ Expanded(t).s = meant.s
============================================================================

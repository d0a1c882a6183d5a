--------------------------- MODULE KconfigSystems ---------------------------
(* What the configuration systems of the runs are made of.                  *)
EXTENDS ConfigFiles, TLC

Symbol(type) ==
    [type |-> type, choice |-> None, prompts |-> <<Y>>, defaults |-> <<>>,
     ranges |-> <<>>, rev |-> N, weak |-> N, dep |-> Y, env |-> FALSE]
Dflt(v, c) == [value |-> v, cond |-> c]
Str(t) == <<"str", t>>
Limits(lo, hi, cond) == [low |-> lo, high |-> hi, cond |-> cond]

Choice(syms, prompts, defaults) ==
    [type |-> "tristate", optional |-> TRUE, prompts |-> prompts, syms |-> syms,
     defaults |-> defaults]
Member(type, ch, dep) ==
    [Symbol(type) EXCEPT !.choice = ch, !.prompts = <<MakeAnd(<<"choice", ch>>, dep)>>,
                         !.dep = MakeAnd(<<"choice", ch>>, dep)]

\* A symbol, or a symbol with a prompt, that depends on dep.
Under(p, dep) == [p EXCEPT !.prompts = <<dep>>, !.dep = dep]

\* A system for the library alone, and what an interface has besides.
System(order, choices, tree, modules, offered, readable) ==
    [symbols |-> Elements(order), choices |-> choices, tree |-> tree, modules |-> modules,
     offered |-> offered, readable |-> readable, order |-> order, inputs |-> <<>>,
     syncs |-> FALSE, nodes |-> <<>>, searches |-> {}, files |-> {}, found |-> {[config |-> 0]},
     terminals |-> {0}]

\* Every string in use, in the order of strcmp(), and the numerals among them.
Strings == <<"", "0x5", "0xc", "12", "3", "5", "7", "a">>
NumberOf ==
    LET decimal == "12" :> 12 @@ "3" :> 3 @@ "5" :> 5 @@ "7" :> 7
        hex == "0x5" :> 5 @@ "0xc" :> 12 @@ "12" :> 18 @@ "3" :> 3 @@ "5" :> 5
               @@ "7" :> 7 @@ "a" :> 10
        c == "0x5" :> 5 @@ "0xc" :> 12 @@ decimal
    IN "int" :> decimal @@ "hex" :> hex @@ "string" :> c @@ "unknown" :> c
============================================================================

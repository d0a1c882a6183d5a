---------------------------- MODULE Invalidation ----------------------------
(* What a change takes out of the caches of the Kconfig library.            *)
(* A cache c has entries <<item, attribute>>, of which "vis" is calculated *)
(* on the way to all others.                                               *)
EXTENDS Integers, FiniteSets

CONSTANT Uncached

\* The items that are to be invalidated with those of is: their dependents, as
\* far as these have a cached visibility.  From MODULES there is no need to go on.
Follow(dependents, modules, c, is) ==
    is \cup {j \in UNION {dependents[i] : i \in is \ {modules}} : c[<<j, "vis">>] # Uncached}

\* All that is reached from is: after as many steps as there are items, nothing
\* is added any more.
Reached(items, dependents, modules, c, is) ==
    LET after[n \in 0..Cardinality(items)] ==
          IF n = 0 THEN is ELSE Follow(dependents, modules, c, after[n - 1])
    IN after[Cardinality(items)]

\* MODULES takes everything with it.
Wiped(modules, c, gone) ==
    [e \in DOMAIN c |-> IF modules \in gone \/ e[1] \in gone THEN Uncached ELSE c[e]]
=============================================================================

-------------------------- MODULE IncrementalBuild --------------------------
(* What Kconfig.sync_deps() promises to a build: whoever compiles again only *)
(* what depends on touched names misses no change, although the            *)
(* configuration changes and syncs are cut off between one build and the   *)
(* next.  Nothing here says how values are calculated, in which order they *)
(* are compared, or what a file looks like.                                *)
CONSTANTS
    Names,   \* the symbols that ever were
    Texts,   \* their values
    None     \* no value: the build is told nothing

VARIABLES
    config,       \* what the build after the sync under way will be told of each name
    remembered,   \* what auto.conf says of the sync before
    touched,      \* the names touched since the last build
    built,        \* history: what the last build was told
    stage,        \* "idle", "compare", "fill" (remembered is being written) or "done"
    cut           \* history: <<was a sync or build cut off, was a sync while it
                  \* wrote>> since the last build

vars == <<config, remembered, touched, built, stage, cut>>

Told == [Names -> Texts \cup {None}]
Differs(a, b) == {n \in Names : a[n] # b[n]}

Init ==
    /\ remembered \in Told
    /\ built = remembered /\ config = remembered
    /\ touched = {} /\ stage = "idle" /\ cut = <<FALSE, FALSE>>

\* A sync starts, after any change of the configuration.
Start ==
    /\ stage = "idle"
    /\ stage' = "compare"
    /\ config' \in Told
    /\ \E some \in SUBSET Differs(remembered, config') : touched' = touched \cup some
    /\ UNCHANGED <<remembered, built, cut>>

\* Names may be touched in any order, and nothing else is.
Touch ==
    /\ stage = "compare"
    /\ \E some \in SUBSET Differs(remembered, config) : touched' = touched \cup some
    /\ UNCHANGED <<config, remembered, built, stage, cut>>

\* What is remembered already stays, anything else is emptied and filled.
Record ==
    /\ stage = "compare"
    /\ Differs(remembered, config) \subseteq touched
    /\ \/ remembered = config /\ stage' = "done" /\ UNCHANGED remembered
       \/ stage' = "fill" /\ remembered' = [n \in Names |-> None]
    /\ UNCHANGED <<config, touched, built, cut>>

Fill ==
    /\ stage = "fill"
    /\ stage' = "done"
    /\ remembered' = config
    /\ UNCHANGED <<config, touched, built, cut>>

Build ==
    /\ stage = "done"
    /\ stage' = "idle"
    /\ built' = config /\ touched' = {} /\ cut' = <<FALSE, FALSE>>
    /\ UNCHANGED <<config, remembered>>

CutOff ==
    /\ stage # "idle"
    /\ stage' = "idle"
    /\ config' = built
    /\ cut' = <<TRUE, cut[2] \/ stage = "fill">>
    /\ UNCHANGED <<remembered, touched, built>>

Next == Start \/ Touch \/ Record \/ Fill \/ Build \/ CutOff

Spec == Init /\ [][Next]_vars

----------------------------------------------------------------------------
TypeOK ==
    /\ config \in Told /\ remembered \in Told /\ built \in Told
    /\ touched \in SUBSET Names
    /\ stage \in {"idle", "compare", "fill", "done"}
    /\ cut \in BOOLEAN \X BOOLEAN

\* A build that comes after a sync finds everything touched that it is told
\* anew, whatever syncs and builds were cut off since the one before, unless one
\* was while it wrote ("_sync_deps() can be safely rerun if it fails before
\* this point").
TouchesChanges == stage = "done" /\ ~cut[2] => Differs(built, config) \subseteq touched

\* The first sync after a build touches nothing else, so that nothing is
\* compiled again for no reason.
TouchesOnlyChanges == stage = "done" /\ ~cut[1] => touched \subseteq Differs(built, config)
============================================================================

------------------------------ MODULE SyncDeps ------------------------------
(* Kconfig.sync_deps(): the files that are touched for a build when symbols *)
(* have changed since the last one, and auto.conf, which remembers what    *)
(* they were.  A sync may be cut off between any two of its steps, and the *)
(* user changes the configuration between syncs.                           *)
(*                                                                         *)
(* How values are calculated is left to the library (see KconfigLibrary):   *)
(* they may be any when a sync starts, and are the same all through it.    *)
EXTENDS Integers, Sequences

CONSTANTS
    Names,  \* all names that are defined, or were when auto.conf was written
    Texts,  \* the values as text, among them those of bools and tristates
    Absent  \* no text, and no file

VARIABLES
    order,    \* unique_defined_syms
    tris,     \* those that are bool or tristate
    values,   \* symbol -> its value in the sync under way, [text, write]; or Absent
    auto,     \* <path>/auto.conf: Absent or what is in it for one symbol after the
              \* other, [name, val]; a val of Absent is a symbol without a line
    old,      \* symbol -> _old_val: Absent or text
    touched,  \* names whose file was touched since the last build
    stage,    \* "idle", "compare", "fill" (auto.conf is empty) or "done"
    at,       \* "compare": how many symbols were compared
    built,    \* history: what the last build was told of each name
    cut       \* history: <<was a sync or build cut off, was a sync while it wrote
              \* auto.conf>> since the last build

symbolVars == <<order, tris>>
syncVars == <<symbolVars, values, auto, old, touched, stage, at, built, cut>>

Files == Seq([name : Names, val : Texts \cup {Absent}])

TriTexts == {"n", "m", "y"}

ASSUME AbsentIsNothing == Absent \notin Texts \cup TriTexts /\ Absent \notin Files

Defined == {order[k] : k \in DOMAIN order}

\* What may be calculated: a bool or tristate is n, m or y.
Values == {v \in [Defined -> [text : Texts, write : BOOLEAN]] :
             \A s \in tris : v[s].text \in TriTexts}

\* _autoconf_contents(): what the header tells of each name.  (The 0x that it puts
\* before some hex values is left out.)
Header ==
    [n \in Names |->
       IF n \in Defined /\ values[n].write /\ (n \in tris => values[n].text \in {"y", "m"})
       THEN values[n].text ELSE Absent]

\* _old_vals_contents(): symbols that are n or not written have no line.
AutoContents ==
    [k \in DOMAIN order |->
       LET s == order[k] IN
       [name |-> s,
        val |-> IF (s \in tris /\ values[s].text = "n") \/ ~values[s].write THEN Absent
                ELSE values[s].text]]

\* The lines of a file with a value for the name n.
LinesOf(file, n) ==
    {k \in IF file = Absent THEN {} ELSE DOMAIN file : file[k].name = n /\ file[k].val # Absent}

\* What a file says of each name: the last assignment counts.
ReadIn(file) ==
    [n \in Names |->
       LET lines == LinesOf(file, n)
       IN IF lines = {} THEN Absent ELSE file[CHOOSE k \in lines : \A j \in lines : j <= k].val]
Remembered == ReadIn(auto)

\* Names without a symbol.  (A symbol that is still mentioned is not among them
\* when its definition is gone; every symbol here is defined.)
Gone == {n \in Names : LinesOf(auto, n) # {}} \ Defined

\* Mutant: symbols that are no longer written are not compared.
ChangedWritten(s) == values[s].write /\ old[s] # values[s].text

\* A symbol that is not written and was not, a bool that was n and is, and an
\* old value that is the new one are no changes.
Changed(s) ==
    IF values[s].write
    THEN /\ ~(old[s] = Absent /\ s \in tris /\ values[s].text = "n")
         /\ old[s] # values[s].text
    ELSE old[s] # Absent

\* An auto.conf that was there before was written by a sync too, which has no
\* line for a bool or a tristate that is n.
WrittenBefore ==
    \/ auto = Absent
    \/ auto \in Files /\ \A k \in DOMAIN auto : auto[k].name \in tris => auto[k].val # "n"

\* Nothing has been done yet.
SyncStarts ==
    /\ values = Absent
    /\ old = [s \in Defined |-> Absent]
    /\ touched = {} /\ stage = "idle" /\ at = 0
    /\ built = Remembered
    /\ cut = <<FALSE, FALSE>>

SyncInit ==
    /\ order \in Seq(Names) /\ tris \subseteq Defined
    /\ WrittenBefore
    /\ SyncStarts

\* _load_old_vals(); symbols that exist no longer are touched at once.
Start ==
    /\ stage = "idle"
    /\ stage' = "compare" /\ at' = 0
    /\ values' \in Values
    /\ old' = [s \in Defined |-> Remembered[s]]
    /\ touched' = touched \cup Gone
    /\ UNCHANGED <<symbolVars, auto, built, cut>>

Compare ==
    /\ stage = "compare" /\ at < Len(order)
    /\ at' = at + 1
    /\ touched' = touched \cup IF Changed(order[at + 1]) THEN {order[at + 1]} ELSE {}
    /\ UNCHANGED <<symbolVars, values, auto, old, stage, built, cut>>

\* _write_old_vals(): a file with the same contents is left alone, another is
\* opened, which empties it, and filled.
Record ==
    /\ stage = "compare" /\ at = Len(order)
    /\ IF auto = AutoContents THEN stage' = "done" /\ UNCHANGED auto
       ELSE stage' = "fill" /\ auto' = <<>>
    /\ UNCHANGED <<symbolVars, values, old, touched, at, built, cut>>

Fill ==
    /\ stage = "fill"
    /\ stage' = "done"
    /\ auto' = AutoContents
    /\ UNCHANGED <<symbolVars, values, old, touched, at, built, cut>>

\* The build compiles what depends on touched files, with the new header.
Build ==
    /\ stage = "done"
    /\ stage' = "idle"
    /\ built' = Header /\ touched' = {} /\ cut' = <<FALSE, FALSE>>
    /\ values' = Absent
    /\ UNCHANGED <<symbolVars, auto, old, at>>

\* A sync is cut off, or the build after it.
CutOff ==
    /\ stage # "idle"
    /\ stage' = "idle"
    /\ cut' = <<TRUE, cut[2] \/ stage = "fill">>
    /\ values' = Absent
    /\ UNCHANGED <<symbolVars, auto, old, touched, at, built>>

SyncNext == Start \/ Compare \/ Record \/ Fill \/ Build \/ CutOff

SyncSpec == SyncInit /\ [][SyncNext]_syncVars

----------------------------------------------------------------------------
\* The steps of a sync keep the promise of IncrementalBuild, that no build misses
\* a change, whatever was cut off: values are compared symbol by symbol, and
\* Record comes only after all that changed has been touched.
Promised == INSTANCE IncrementalBuild WITH
    config <- IF stage = "idle" THEN built ELSE Header,
    remembered <- Remembered,
    None <- Absent

ImplementsBuild == Promised!Spec
============================================================================

--------------------------- MODULE KconfigLibrary ---------------------------
(* The Kconfig library as the tools use it: values that are set, unset and *)
(* read, configuration files that are loaded and written, and builds that  *)
(* sync what the library calculates.                                       *)
EXTENDS ConfigFiles, SyncDeps

\* Does a build use sync_deps()?  (A field of Kconfigs.)
Syncs == kconf.syncs

\* What a sync finds as it reads the values one by one.
ValuesNow ==
    LET full == Calculated(Given)
    IN [s \in Symbols |-> [text |-> TextOf(full, s), write |-> Written(full, s)]]

libVars == <<fileVars, syncVars>>

LibraryInit ==
    /\ FilesInit
    /\ order = Order /\ tris = {s \in Symbols : IsTri(s)}
    /\ auto \in {Absent} \cup IF Syncs THEN {<<[name |-> "GONE", val |-> "y"]>>} ELSE {}
    /\ SyncStarts

Syncing(step) == Syncs /\ UNCHANGED fileVars /\ step

\* Between syncs, values are set, files are loaded and so on.  Bound: where
\* there are syncs, values are only set and unset.
Between(step) ==
    /\ stage = "idle"
    /\ step
    /\ UNCHANGED syncVars

LibraryNext ==
    \/ Syncing(values' = ValuesNow /\ Start) \/ Syncing(Compare) \/ Syncing(Record) \/ Syncing(Fill)
    \/ Syncing(Build) \/ Syncing(CutOff)
    \/ \E i \in Items : \E v \in Offered[i] : Between(Set(i, v) /\ UNCHANGED missing)
    \/ \E i \in Items : Between(Unset(i) /\ UNCHANGED missing)
    \/ ~Syncs /\ Between(UnsetAll /\ UNCHANGED missing)
    \/ \E e \in kconf.readable : Between(Read(e) /\ UNCHANGED missing)
    \/ \E k \in DOMAIN Inputs, replace \in BOOLEAN : Between(Load(k, replace))
    \/ ~Syncs /\ Between(Write)

LibrarySpec == LibraryInit /\ [][LibraryNext]_libVars
============================================================================

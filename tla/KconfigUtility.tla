---------------------------- MODULE KconfigUtility ----------------------------
(***************************************************************************)
(* extra/utils/kconfig.py and what CMake makes of it. A run remembers the  *)
(* settings in .config.json, lets a tool edit .config, loads .config and   *)
(* writes its settings to .config.json unless they are those it remembers. *)
(* Runs share a directory and may overlap, since an editor stays open for  *)
(* as long as its user likes, and a run may be cut off anywhere. CMake     *)
(* copies its inputs over, runs the utility, does not look at its result,  *)
(* and takes the settings from whatever .config.json is there.             *)
(***************************************************************************)
EXTENDS FiniteSets

CONSTANTS
  Run,       \* processes of the utility
  Scheme,    \* contents of KConfig
  Plain,     \* a scheme without symbols, as KConfig.in is
  Config,    \* choices that a .config may hold
  Default,   \* those of an empty .config
  Absent,    \* there is no such file
  Cut        \* content that is no JSON: the file is empty or half written

ASSUME KconfigAssumption ==
  /\ Plain \in Scheme
  /\ Default \in Config
  /\ Absent \notin Config

(* {c.name: c.str_value for c in defined_syms}                              *)
Values(kconfig, config) == IF kconfig = Plain THEN {} ELSE {<<kconfig, config>>}

(* What a tool keeps of a .config: it writes no symbol the scheme lacks.    *)
Choices(kconfig, config) == IF kconfig = Plain THEN Default ELSE config

Settings == {Values(s, c) : s \in Scheme, c \in Config}

ASSUME FileAssumption == {Absent, Cut} \cap Settings = {} /\ Absent # Cut

VARIABLES
  scheme,      \* KConfig
  native,      \* .config
  writers,     \* the runs whose tool has this very .config open for writing
  json,        \* .config.json
  pc,          \* where each run is
  build,       \* was the run started by CMake?
  previous,    \* _config.json.previous
  parsed,      \* the scheme that the run has parsed
  held,        \* the choices in the memory of the tool, then of the run
  disturbed,   \* history: has another written a file since the run started?
  settings     \* the settings that CMake took last

files == <<scheme, native, writers, json>>
memory == <<build, previous, parsed, held>>
vars == <<files, pc, memory, disturbed, settings>>

Stage == {"idle", "started", "parsed", "editing", "saving", "created", "saved",
          "loaded", "printing", "done", "failed"}
Ended == {"idle", "done", "failed"}

KconfigTypeOK ==
  /\ scheme \in Scheme
  /\ native \in Config \cup {Absent}
  /\ writers \subseteq Run
  /\ json \in Settings \cup {Absent, Cut}
  /\ pc \in [Run -> Stage]
  /\ {build, disturbed} \subseteq [Run -> BOOLEAN]
  /\ previous \in [Run -> Settings]
  /\ parsed \in [Run -> Scheme]
  /\ held \in [Run -> Config]
  /\ settings \in Settings

Init ==
  /\ scheme \in Scheme
  /\ native \in Config \cup {Absent}
  /\ writers = {}
  /\ json = Absent
  /\ pc = [r \in Run |-> "idle"]
  /\ build = [r \in Run |-> FALSE]
  /\ previous = [r \in Run |-> {}]
  /\ parsed = [r \in Run |-> Plain]
  /\ held = [r \in Run |-> Default]
  /\ disturbed = [r \in Run |-> FALSE]
  /\ settings = {}

At(r, stage) == pc[r] = stage
Goto(r, stage) == pc' = [pc EXCEPT ![r] = stage]
Others(r) == [q \in Run |-> disturbed[q] \/ q # r]

(* The process is gone, and with it what it had in memory.                  *)
Forget(r) ==
  /\ build' = [build EXCEPT ![r] = FALSE]
  /\ previous' = [previous EXCEPT ![r] = {}]
  /\ parsed' = [parsed EXCEPT ![r] = Plain]
  /\ held' = [held EXCEPT ![r] = Default]

-----------------------------------------------------------------------------
(* Mutants: a file that is no JSON is taken for an absent one; an absent    *)
(* one is remembered as such.                                               *)
RememberAny(r) ==
  /\ previous' = [previous EXCEPT ![r] = IF json \in {Absent, Cut} THEN {} ELSE json]
  /\ Goto(r, "started")
RememberAbsent(r) ==
  IF json = Cut
  THEN Goto(r, "failed") /\ UNCHANGED previous
  ELSE previous' = [previous EXCEPT ![r] = json] /\ Goto(r, "started")

(* _load_json raises for a file that is no JSON.                            *)
Remember(r) ==
  IF json = Cut
  THEN Goto(r, "failed") /\ UNCHANGED previous
  ELSE /\ previous' = [previous EXCEPT ![r] = IF json = Absent THEN {} ELSE json]
       /\ Goto(r, "started")

(* A user starts the utility, by make or by hand.                           *)
Start(r) ==
  /\ At(r, "idle")
  /\ Remember(r)
  /\ build' = [build EXCEPT ![r] = FALSE]
  /\ disturbed' = [disturbed EXCEPT ![r] = FALSE]
  /\ UNCHANGED <<files, parsed, held, settings>>

(* CMake copies KConfig.in, and the .kconfig of the sources if there is     *)
(* one, and starts the utility to set the configuration.                    *)
Configure(r) ==
  /\ At(r, "idle")
  /\ scheme' \in Scheme
  /\ \/ UNCHANGED <<native, writers>>
     \/ native' \in Config /\ writers' = {}
  /\ Remember(r)
  /\ build' = [build EXCEPT ![r] = TRUE]
  /\ disturbed' = [Others(r) EXCEPT ![r] = FALSE]
  /\ UNCHANGED <<json, parsed, held, settings>>

Parse(r) ==
  /\ At(r, "started")
  /\ parsed' = [parsed EXCEPT ![r] = scheme]
  /\ Goto(r, "parsed")
  /\ UNCHANGED <<files, build, previous, held, disturbed, settings>>

(* The tool loads .config. An editor then has what its user likes, if there *)
(* is anything to choose.                                                   *)
Open(r) ==
  /\ At(r, "parsed")
  /\ \E config \in Config :
       /\ build[r] => config = IF native = Absent THEN Default ELSE native
       /\ held' = [held EXCEPT ![r] = Choices(scheme, config)]
  /\ Goto(r, "editing")
  /\ UNCHANGED <<files, build, previous, parsed, disturbed, settings>>

(* The tool keeps the old file by another name before it writes.            *)
Rename(r) ==
  /\ At(r, "editing")
  /\ native' = Absent
  /\ writers' = {}
  /\ disturbed' = Others(r)
  /\ Goto(r, "saving")
  /\ UNCHANGED <<scheme, json, memory, settings>>

(* The tool leaves .config as it is: its content would be the same, or the  *)
(* user of an editor does not save.                                         *)
Leave(r) ==
  /\ At(r, "editing")
  /\ build[r] => native = held[r]
  /\ Goto(r, "saved")
  /\ UNCHANGED <<files, memory, disturbed, settings>>

(* open(".config", "w"), which makes the file or empties the one there.     *)
Create(r) ==
  /\ At(r, "saving")
  /\ native' = Default
  /\ writers' = writers \cup {r}
  /\ disturbed' = Others(r)
  /\ Goto(r, "created")
  /\ UNCHANGED <<scheme, json, memory, settings>>

(* The content reaches the file that was opened, which may have another     *)
(* name by now, or hold what another tool wrote, of which a rest may stay.  *)
Fill(r) ==
  /\ At(r, "created")
  /\ IF r \in writers
     THEN native' = held[r] \/ (native # Default /\ native' \in Config)
     ELSE UNCHANGED native
  /\ writers' = writers \ {r}
  /\ disturbed' = Others(r)
  /\ Goto(r, "saved")
  /\ UNCHANGED <<scheme, json, memory, settings>>

(* An editor that has saved may stay open, its choices be changed again.    *)
Reconsider(r) ==
  /\ At(r, "saved") /\ ~build[r]
  /\ \E config \in Config : held' = [held EXCEPT ![r] = Choices(parsed[r], config)]
  /\ Goto(r, "editing")
  /\ UNCHANGED <<files, build, previous, parsed, disturbed, settings>>

(* Mutant: the run goes on with the choices it held before the tool ran.    *)
LoadNothing(r) ==
  /\ At(r, "saved")
  /\ Goto(r, IF native = Absent THEN "failed" ELSE "loaded")
  /\ held' = [held EXCEPT ![r] = Default]
  /\ UNCHANGED <<files, build, previous, parsed, disturbed, settings>>

Load(r) ==
  /\ At(r, "saved")
  /\ IF native = Absent
     THEN Goto(r, "failed") /\ UNCHANGED held
     ELSE Goto(r, "loaded") /\ held' = [held EXCEPT ![r] = native]
  /\ UNCHANGED <<files, build, previous, parsed, disturbed, settings>>

(* The settings are compared with those remembered; open(path, "w").        *)
Compare(r) ==
  /\ At(r, "loaded")
  /\ IF Values(parsed[r], held[r]) = previous[r]
     THEN Goto(r, "done") /\ UNCHANGED <<json, disturbed>>
     ELSE Goto(r, "printing") /\ json' = Cut /\ disturbed' = Others(r)
  /\ UNCHANGED <<scheme, native, writers, memory, settings>>

(* Over what another run printed to the file since, a rest of it may stay.  *)
WriteJson(r) ==
  /\ At(r, "printing")
  /\ \/ json' = Values(parsed[r], held[r])
     \/ json # Cut /\ json' = Cut
  /\ disturbed' = Others(r)
  /\ Goto(r, "done")
  /\ UNCHANGED <<scheme, native, writers, memory, settings>>

(* The run is cut off, or fails on an error of the system.                  *)
Stop(r) ==
  /\ pc[r] \notin Ended
  /\ Goto(r, "failed")
  /\ writers' = writers \ {r}
  /\ UNCHANGED <<scheme, native, json, memory, disturbed, settings>>

End(r) ==
  /\ pc[r] \in {"done", "failed"}
  /\ Goto(r, "idle")
  /\ Forget(r)
  /\ UNCHANGED <<files, disturbed, settings>>

(* Mutant: CMake keeps the settings of an earlier configuration.            *)
TakeOnce(r) ==
  /\ pc[r] \in {"done", "failed"} /\ build[r]
  /\ settings' = IF settings # {} \/ json \in {Absent, Cut} THEN settings ELSE json
  /\ Goto(r, "idle")
  /\ Forget(r)
  /\ UNCHANGED <<files, disturbed>>

(* CMake goes on, however the run ended. It stops when half a file is       *)
(* there; without a file, or with an empty one, there are no settings.      *)
Take(r) ==
  /\ pc[r] \in {"done", "failed"} /\ build[r]
  /\ settings' = IF json \in {Absent, Cut} THEN {} ELSE json
  /\ Goto(r, "idle")
  /\ Forget(r)
  /\ UNCHANGED <<files, disturbed>>

Edit(r) ==
  \/ Open(r)
  \/ Rename(r)
  \/ Leave(r)
  \/ Create(r)
  \/ Fill(r)
  \/ Reconsider(r)

Step(r) ==
  \/ Start(r) \/ Configure(r)
  \/ Parse(r) \/ Edit(r) \/ Load(r) \/ Compare(r) \/ WriteJson(r)
  \/ Stop(r) \/ End(r) \/ Take(r)

Next == \E r \in Run : Step(r)

Spec == Init /\ [][Next]_vars

-----------------------------------------------------------------------------
(* .config.json, an absent one as an empty one, has the settings that       *)
(* .config means under KConfig.                                             *)
Describes ==
  (IF json = Absent THEN {} ELSE json) = Values(scheme, native)

(* A run that ends well, and during which no other wrote, leaves a JSON     *)
(* that describes the configuration beside it: whatever was cut off before  *)
(* it, and although it writes nothing when the settings seem unchanged.     *)
RunDescribes ==
  \A r \in Run : pc[r] = "done" /\ ~disturbed[r] => native # Absent /\ Describes

(* A build whose run ended well and undisturbed takes the settings that its *)
(* own configuration means, not those of an earlier one.                    *)
BuildTakesConfig ==
  [][\A r \in Run :
       Take(r) /\ pc[r] = "done" /\ ~disturbed[r] => settings' = Values(scheme, native)]_vars

(* Once the JSON was cut off with no run under way, no run will mend it:    *)
(* each fails where it loads what it is to replace.                         *)
CutStays ==
  [][json = Cut /\ (\A r \in Run : pc[r] \in Ended)
     => json' = Cut /\ (\A r \in Run : pc'[r] \in Ended)]_vars
=============================================================================

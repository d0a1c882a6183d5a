# Verification of refrigerator.goldsrc

The repository builds a metamod plugin for GoldSrc servers. The plugin keeps
body parts ("gibs") from fading out while the server's edict table has room for
them. This directory holds TLA+ models of the plugin, the TLC configurations
that check them on small instances, and theorems about them with proofs checked
by TLAPS. Paths below are relative to the root of the repository.

## The system

| component | source | state | operations | calls |
|---|---|---|---|---|
| life cycle | `meta/src/root_.cxx`, `export.cxx` | the tables in `singleton.api` | `inject` (GiveFnptrsToDll), `query`, `attach`, `detach` | fills the tables all others read; `query` collects the container |
| singleton, container | `singleton.cxx`, `api.cxx` | `api`, `log`, `bindings`, `container_` | construction, `container()` | built by the first `instance()` during static initialisation |
| hook tables | `bindings.cxx` (`inject_`, `apply`, `api`, `initialize_`) | `private_` | subscribe an action; fill a table of hooks | metamod asks for the tables; hooks call the dispatch |
| hook dispatch | `bindings.cxx` (`action_handler`, `target_handler`), `bindings.hxx` | per call: `meta`, `result`, `temporary` | dispatch one hooked call to the injected actions, fold the responses | calls the actions of the features; writes `current` of the metamod globals |
| trusted entities | `features/trusted_entities.cxx` | `state`, `queue`, `entered` | handlers of CreateEntity, CreateNamedEntity, RemoveEntity, Init, Spawn, Frame, Shutdown | dispatches `on_enter` and `on_exit` |
| butchering | `features/butchering.cxx` | `gibses` | `on_enter`, `on_exit`, `on_think`, `on_frame` | subscribes to the trusted entities, Think and Frame; writes edicts |
| report | `features/report.cxx` | none | `handle_client_command_`, `trace_target_` | reads the engine's tables |
| log | `log.cxx` | none of its own | `write_` | reads the tables of metamod and the engine |
| configuration utility | `extra/utils/kconfig.py`, `kconfig/_class.py` | `.config`, `.config.json` | read, edit, write | runs the vendored library |
| lazy attributes | `common/lazy_attributes.py` | cached values, recursion protector | `getter`, `__dir__` | module attribute access |
| Kconfig library: values | `kconfig/_lib/kconfiglib.py` (`Symbol`, `Choice`) | user values, selections, caches, `_dependents` | read, set and unset values; invalidate | read by all that follows |
| Kconfig library: files | `kconfiglib.py` (`load_config`, `write_config`, `write_min_config`, `sync_deps`) | `.config`, `auto.conf`, touched files, `missing_syms` | load, merge, write, sync | sets values; a build reads header and touched files |
| Kconfig library: language | `kconfiglib.py` (`_parse_block` and below, `_finalize_node`) | stack of files, menu nodes, variables | read a line, expand macros, finalize the menu tree, search loops | yields the symbols and choices |
| menuconfig | `kconfig/_lib/menuconfig.py` | menu, shown nodes, selected row, scroll, `_conf_changed`, dialogs | one per key, resizes, load, save, search, quit | reads and sets values, loads and writes files |
| guiconfig, setconfig | `kconfig/_lib/guiconfig.py`, `setconfig.py` | Tk's widgets; none | - | the same library |
| build scripts, workflow, map | `CMakeLists.txt`, `extra/lib/cmake`, `.github`, `maps` | none | - | - |

The plugin and the configuration tools meet only in the settings that a build
takes. The plugin first. The server is single-threaded: hooks run one at a time on the engine's thread.
What makes the plugin hard is the order in which they come and the state that
changes between them. Edicts belong to the engine, which frees and reuses them
at moments the plugin does not see; a hook only *queues* an edict, and the
frame that follows judges it by a flag read then; several subscribers, of this
plugin and of others, answer the same call; and a table at its limit is tested
at one think and filled up before the next one.

What makes each component correct:

- **dispatch**: the rank told to metamod and the value returned do not depend
  on the order in which subscribers come, beyond "the first of the strongest".
- **trusted entities**: what is announced as entered is in use; what is in use
  is not lost; nothing survives a shutdown; a subscriber that follows the
  announcements agrees with `state()`; who waits is announced in the end.
- **butchering**: the reserve of the edict table is never eaten by frozen
  parts; a frozen part is opaque and can be woken again; only live gibs are
  touched; a table that stays full thaws.
- **life cycle**: a failed step leaves nothing half done, and every hook finds
  the tables it uses.
- **log**: every message reaches the sink of its level.
- **configuration utility**: the JSON that the build reads describes the
  configuration beside it, whatever was cut off before.
- **Kconfig values**: a cached value is what a calculation from nothing gives;
  values agree with ranges, choices and dependencies; what `assignable` offers
  is what setting it gives.
- **Kconfig files**: what is written loads back; a load that replaces leaves
  nothing of what was; no build misses a change, whatever sync was cut off.
- **Kconfig language**: a node is in the block of its line, with the dependencies
  of all blocks around it; a macro means what its definition says; no accepted
  tree loops.
- **menuconfig**: the selected row is on the screen and shows a node that is
  there; no change is lost without a question.
- **report**: the target is the nearest entity that the line of sight hits.
- **lazy attributes**: an attribute that needs itself is refused, and no reader
  is refused because of another.

## Modules

| module | models | extends |
|---|---|---|
| `HookDispatch` | one hooked call through `target_handler` | - |
| `Lists` | `std::list::remove(_if)`, `std::remove_if` by the positions kept | - |
| `EntityRegistry` | what the trusted entities promise, as sets (abstract) | - |
| `TrustedEntities` | `features/trusted_entities.cxx` and the engine's free flags | `Lists`, an instance of `EntityRegistry` |
| `Butchering` | `features/butchering.cxx`, the engine's edicts, composed with the registry | `TrustedEntities` |
| `Lifecycle` | `root_.cxx`, `export.cxx`, `singleton.cxx`, the tables of `bindings.cxx`, with metamod and a game around them | - |
| `KconfigUtility` | `extra/utils/kconfig.py`, `kconfig.cmake`, the files the vendored tools load and write | - |
| `KconfigTerms`, `KconfigExpressions`, `KconfigDependents` | expressions and what is in them; `_dependents` and the search for dependency loops | - |
| `Invalidation` | what a change takes out of the caches | - |
| `UserSettings` | what the user has set: setting, unsetting, and loading the lines of a file | - |
| `SymbolValues` | the values of symbols and choices, with their caches | `KconfigExpressions`, `KconfigDependents`, `Invalidation`, an instance of `UserSettings` |
| `ConfigFiles` | loading and writing of configurations and minimal configurations | `SymbolValues` |
| `IncrementalBuild` | what `sync_deps` promises a build (abstract) | - |
| `SyncDeps` | `sync_deps` step by step, for any list of symbols and values, with cuts and builds between | an instance of `IncrementalBuild` |
| `KconfigLibrary` | the library as it is used: settings, files and syncs composed | `ConfigFiles`, `SyncDeps` |
| `KconfigSyntax`, `Preprocessor` | expressions as tokens; variables and macros | `KconfigExpressions` |
| `KconfigBlocks` | lines of any meaning in nested blocks and files | `KconfigTerms` |
| `KconfigParser` | the parser: those lines with the meaning of their text | `KconfigBlocks`, `KconfigSyntax`, `Preprocessor` |
| `MenuTree` | dependencies propagated and the menu tree finalized | `KconfigParser`, `KconfigDependents` |
| `Scrolling` | the selected line, the top line and the window of a list | - |
| `Menuconfig` | `menuconfig.py` | `ConfigFiles`, `Scrolling` |
| `KconfigSystems`, `MCSyncDeps`, `MCKconfigLanguage`, `MCMenuconfig` | the configurations, lines and screens of the runs | the above |
| `HookDispatchProofs`, `TrustedEntitiesProofs`, `ButcheringProofs`, `LifecycleProofs`, `KconfigProofs`, `IncrementalBuildProofs`, `KconfigLibraryProofs`, `KconfigBlocksProofs` | the theorems and their proofs | the above, `TLAPS` |

### HookDispatch

A step is the visit of one subscriber. `meta`, `result`, `temporary` are the
members of `state_`; `current` is the field of the metamod globals, written only if they are
known (`globals`); `answers` and `visits` are history. `Skip` and `Throw` are the early returns and the
`catch` of `action_handler`; `Outrank` and `Yield` are the two branches of
`response_`, with the cell `temporary` that an action's value is written to
(`Written`) and that the branch may or may not empty; `Return` is the end of
`target_handler`. What a subscriber answers is chosen freely among all ranks of
the phase and all values. A hook without output is the special case in which no
answer carries a value. `Unset`, which `transform` gives only for a value
outside its enumeration, is not an answer.

### TrustedEntities

`free` is the engine's; `state`, `queue`, `entered` are the members of
`Context_`; `view` is a history variable, the set a subscriber of `on_enter`
and `on_exit` would keep. One action per hook; `Queued`, `Created`, `Remove`
are the functions the hooks call, `Gone`, `Stay` and `Admitted` the three
lists `on_frame` computes, which drops what is free by then. The engine's part of a call belongs to the action:
`OnCreateEntity` is an After hook, so an edict that the engine made is no longer free when it
runs, but a plugin that supersedes the call may return any edict. `OnSpawn` is an
After hook too, and queues the edict of the call as it is: the game may have removed it
inside its own Spawn, through the hooked call, and then a freed edict waits.
`OnCreateNamedEntity` and `OnRemove` are Before hooks, so that the engine
creates or frees afterwards, unless another plugin supersedes the call
(`KeptRemovals`). `OnShutdown` leaves the edicts or releases them all.
`SilentFree` is an edict freed without the hooked call (`SilentFrees`): the game
does that for killed entities. `on_frame` runs to its end
in one action: nothing else of the server runs meanwhile, the frame's
two announcements included, whose subscribers (butchering) make no engine call.

The two lists of `on_frame` are modelled by what the standard says of
`std::remove_if` (`Lists`): the kept elements move to the front; the range behind
keeps what it held (a pointer that is moved from is unchanged); and nothing is
erased. Out-of-memory in `push_back` is left out, as are the log lines.

### EntityRegistry and its refinement

The abstract registry has four sets and five actions: entities arrive and wait, also
some that are gone by then, a frame trusts those that wait and are in use and forgets
the others, an entity that leaves stops waiting and being
trusted in the step in which it leaves, and a close empties both. It knows no
list, no order, no duplicates and no flag that is read late. `Registry` in
`TrustedEntities` maps `live` to the edicts in use, `waiting` to the range of
the queue and `trusted` to the subscriber's `view`; `ImplementsRegistry` is the
abstract specification with its fairness, checked for hooked frees. With silent
frees the mapping fails, as it must: an entity leaves without the call that
tells the registry.

### Butchering

Extends the registry: each action conjoins the registry's action with what this
component and the game do at it. `class`, `nextthink` and `renderamt` are the
fields of the edict the code reads or writes, with the values it tells apart;
`inFrame` separates the Before and After hooks of Frame, between which the game
runs: creations, removals and silent frees happen inside a frame as well. The
fade of a body part is the game's (`GameThink`), taken from how `on_think`
lets it run: a step less of `renderamt`, or the removal. `solid`, which is
raised together with `renderamt`, is left out.

`MaxEntities` is the size of the engine's table, `Residents` the edicts in use
that are of no interest (world, players). `Capacity` follows
`fadeout_freezer_capacity_` with its early returns for a table no larger than
the reserve. An edict given anew may be of any class, which matters from then on; `class` and
`renderamt` of an edict that is free are not read, and are kept at one value so that states which
differ in nothing else are one. `FrameBefore` tells exits
before entries, as `on_frame` of the registry does.

### Lifecycle

`stage` is metamod's view of the plugin, `hooks` the tables of hooks it has
got from it. `Inject`, `Query`, `Attach` and `Detach` are the four exported
calls, each with a flag or a version for its arguments (`given` is false when
some pointer is null), `GetTable` the four endpoints of `apply` in both phases.
A call that throws before it changes anything is `Refuse`; a later failure leaves
what was done before it, in the order of the code. metamod calls `attach`
only after a query that succeeded, takes tables only once attached, and may
repeat a refused call; after a detach the library may stay loaded, with its
features subscribed and the engine's functions known, and be opened again. A
game may be running at any of these moments; `GameInit` and `GameShutdown` reach
the trusted entities only through the hooks in place (`Reaches`), and `missed`
remembers a start or an end that did not.

`private_` may have failed to be made, and the container to be made or to be given
`api` (`container`); all three failures are logged by the code, which goes on.
`collect()` is not in the repository: from its use in
`root_.cxx` it is taken to run the features' injections and to do so once. The
members of a table that no feature of the plugin hooks are left out.

### KconfigUtility

A run goes through the statements of `_run`: `Remember` (the previous JSON),
`Parse` (KConfig), the tool's `Open`, `Rename`, `Create`, `Fill` or `Leave` of
`.config`, and `Load`, `Compare`, `WriteJson`. Files are contents: `.config` a set of
choices or `Absent`, `.config.json` the settings (a set of pairs, empty when
KConfig has no symbols, as `KConfig.in` is), `Absent` or `Cut`. A file opened for
writing is empty until its content is flushed, which happens at once as it is
smaller than the buffer. `writers` tells whether the file that a tool has open is still
`.config`: another tool may have renamed it away or emptied it, and what both
write may mix. An editor's choices are made when it opens or is used again.

`Configure` is CMake: it copies KConfig and, if the sources have one, `.kconfig`,
starts the utility and afterwards takes what JSON is there (`Take`), however the
run ended. Copying and starting are one action, and the end of CMake is that of
the run. `Stop` cuts a run off anywhere; a failed assertion is the stage
`failed`. `disturbed` is history: another process has written a file since the
run started. A disturbed run promises nothing: the JSON is remembered before the editor
opens, so that a run that brings back the settings it remembers leaves the JSON of
another run beside them. Nothing in the repository says that runs may overlap.

### The values of symbols: KconfigExpressions, KconfigDependents, Invalidation, UserSettings, SymbolValues

A configuration system is a record: its symbols and choices with the properties
that they have after finalization, and what a user may set and read. Each
behaviour is about one of `Kconfigs`. `Evaluate` is the properties of `Symbol`
and `Choice` (`visibility`, `tri_value`, `str_value`, `assignable`,
`selection`, ...): it takes the state, returns the value, and the state with
everything cached that was read on the way, with the short circuits of the code,
since what they leave uncached is what the invalidation stops at. `SetValue`,
`SetMode` and `UnsetEach` are steps of such a record, as a load does many
of them. They read of the values only what the user has set, and of the system only
types, choices and prompts; so they stand in `UserSettings`, with the lines of a load, apart
from the evaluation. `Reached` follows dependents as `_rec_invalidate` does, in
as many steps as there are items.
Strings are a few texts with their order and the numerals among them.

`CachesFresh` compares the whole cache with one that is calculated from nothing,
after every sequence of settings and readings. `AssignableRespected` sets, in each
state, each value that is offered. `ChoiceSymbolsNotSelected` is assumed, as in the
library, which warns of anything else (`_check_choice_sanity`).

### ConfigFiles, IncrementalBuild, SyncDeps, KconfigLibrary

A file is a sequence of lines; menus' comments are lines that say nothing.
`LoadConfig` follows the order of `load_config`: lines first, then what was not set
is unset. `was` is the items with `_was_set`. A load that replaces takes it from all of them
(`LoadStart`) and a load that merges from none; nor does unsetting a value. So a merging load may
assign a bool or tristate that was set once and unset since, and there the code raises a KeyError (see below): the
load stops at that line, after the mode of a choice has been set, and leaves the lines before it done.
Only loads read `was`, and of it only whether a bool or tristate is of that kind; the run's
`VIEW` takes states that differ in the rest of it for one. `RoundTrip` loads what each state would write into a library that has just
started. It leaves out two cases that are no property of the code: a default above what
may be set, and minimal configurations of a tristate choice of which a
bool is the selection (see below).

`SyncDeps` splits `sync_deps` where it may be cut off: old values loaded, each symbol
compared and touched, `auto.conf` emptied, filled; a build follows, or is cut
off as well. It knows values only as texts that are written or not, of any symbols, and
an `auto.conf` that may hold anything an earlier sync left; what `Start` finds is any
of `Values`. `KconfigLibrary` gives it the symbols of a configuration (`order` and `tris`) and the
values that these have at that moment (`ValuesNow`), and lets them be set between two syncs. The
`0x` that the header puts before a hex value without one is left out, and so are
symbols that are still mentioned but no longer defined (see below). `IncrementalBuild` is the promise: the names a build is told anew are
touched, in any order, before anything is remembered. It has no symbols, lines
or comparisons. `ImplementsBuild` maps `config` to what the sync has calculated
and `remembered` to what `auto.conf` says; TLC checks it of the
composition as a property. `SyncImplements` proves it of `SyncDeps` by itself; the
composition's steps are those of `SyncDeps` or leave its variables alone, except that
settings change `ValuesNow`, which is not one of them.

### KconfigSyntax, Preprocessor, KconfigBlocks, KconfigParser, MenuTree

The parser takes one line per step, as `_parse_block`, `_parse_props` and
`_parse_help` do, with the stack of files that `source` makes and the line after a help text
that was read too far. The lines come from a vocabulary, in every order: a line
that has no place there ends the behaviour in `error`. A `Frame` is a call of
`_parse_block`. `Replay` in `NodesInPlace` is the reference: it goes through
the lines that were read and knows nothing of frames or of links between nodes.

`KconfigBlocks` has all that the parser does with a line except for what the text of
the line means. That comes as a record `h`: is the text well formed, what is its
condition, which values does it give. `KconfigParser` calculates it (`Meant`) with the
expressions of `KconfigSyntax` and the expansions of `Preprocessor`. Every step of
`ParserNext` is `EndFile` or `ReadLine(l, Meant(l))`, and so one of `BlocksNext`, where
`h` may be anything: a line may have another condition, or be malformed, each time it is read.
This is what the theorems on the parser are about; what they say holds of `KconfigParser`, and
of `MenuTree`, whose own step leaves the phase `parsed` (`AfterParsing`).

Texts are sequences of atoms. `ExpandWhole`, `ExpandMacro` and `Scan` follow the
code's text surgery with its index; `MeaningOf` is the reference, which expands
from the inside and never looks at text that was put in. `MaxExpansions` is how deep
a function may call itself, 100 in the code.

When the top file ends, `Finalize` does what `_init` does then: propagate
dependencies, make submenus, flatten ifs, finalize choices, build `_dependents` and
search loops. The search is the code's, with its marks: symbols in the order of their
definitions, the symbols of a choice in their order, and the dependents of a symbol, a Python set, in
any order (`LoopAnswers` is the set of answers it may give). `TreeFinalized` compares meanings (`SameMeaning`, all
values of all leaves), not expressions, and also that an expression that is
written and parsed again means the same. `LoopsFound` says that whatever is
accepted, in whatever order, is well-founded: what visibilities, values and selections read
of each other (`Reads`) has no loop. Its exceptions are those of `WellFounded`: loops through
what an open choice selects, and through a choice in a choice (see below).

### Menuconfig, Scrolling

`screen` holds the globals of the interface. One action per key; the dialogs
that float above the menu (an input, a file name, a question) are part of the
step that opens them, since only a resize can come between, while the search and the
information screen have steps of their own. `Listed` is `_shown_nodes`, with
menus in place, implicit submenus, show-all mode and the choices' symbols. A key that
the code answers with an exception leads to `lost` (the node to select is not shown)
or `raised`, where the interface ends.
`LoadDialog` and `SaveDialog` may fail before or after the old file was renamed.
`Scrolling` has the arithmetic of the selected and the top line, which the menu and the
matches of the search share; the screen and the search are windows in its sense, with more fields.
The symbols and values are those of `ConfigFiles`; caches
are emptied after each step, as they do not matter (`CachesFresh`).

## Runs

| run | cfg | what it shows | bounds |
|---|---|---|---|
| `hook_dispatch` | `HookDispatch.cfg` | rank and value of the fold | 3 values, 4 visits |
| `trusted_entities_silent` | `TrustedEntitiesSilent.cfg` | what holds whatever the engine and other plugins do | 3 edicts, 5 tracked |
| `trusted_entities_hooked` | `TrustedEntitiesHooked.cfg` | what holds when frees are hooked; liveness of the queue; the refinement of `EntityRegistry` | 3 edicts, 5 tracked |
| `trusted_entities_exits` | `TrustedEntitiesExits.cfg` | the counterexample to the exits announced | 3 edicts, 4 tracked |
| `butchering_silent` | `ButcheringSilent.cfg` | the reserve, opacity, the tracked set | 3 edicts, 4 tracked, 3 creations |
| `butchering_hooked` | `ButcheringHooked.cfg` | wakeable and live gibs; a full table thaws | 4 edicts, 2 tracked, 4 creations |
| `lifecycle` | `Lifecycle.cfg` | refusals, retries and detaches around games | 2 versions and none, 3 table versions |
| `lifecycle_null` | `LifecycleNull.cfg` | the counterexample of a null dispatcher | as above |
| `kconfig_utility` | `KconfigUtility.cfg` | overlapping and cut-off runs, and the build's settings | 2 runs, 2 schemes, 2 choices |
| `kconfig_library` | `KconfigLibrary.cfg` | caches, values, files and syncs of the Kconfig library | 5 systems of 4 to 7 symbols, `MaxMissing` 1 |
| `kconfig_language` | `KconfigLanguage.cfg` | nodes, dependencies, loops and macros of every sequence of lines | 8 vocabularies, 3 to 7 lines, `MaxExpansions` 2, texts of 3 to 5 atoms |
| `menuconfig` | `Menuconfig.cfg` | cursor, screen and saving of the terminal interface | 5 configurations, windows of two heights, `MaxStray` 2 |

Deadlock is not checked where a bound stops the model: after `Return`, with
every bound used up, after a crash, after an error in a line, or when the interface has
quit. Symmetry is not used: butchering orders the edicts.

Why the bounds are enough. Four answers give a winner, a stronger one, a tie and a
weaker one after it, with a stale cell between any two. Three edicts give one to
stay, one freed before it and one that enters in the same frame. `MaxTracked`
lets `entered` hold duplicates, which silent frees produce. `MaxEntities` is 131
so that the limit is 131 - 128 = 3: the capacity takes
every value from 3 to 0. In `butchering_silent` that is the number of edicts, and a fade of one step
(`FullRender` = 1) has an opaque part and a faded one. `butchering_hooked` has four edicts, so that
two of them may be frozen while the table is full and remain full after the first of them is gone: a part
behind the first has to be woken as well. There a part goes as soon as it thinks
(`FullRender` = 0); how it fades is in the other run. `Lifecycle` has no counters: its state space is
complete, with a table version below, at and above the plugin's. `KconfigUtility` has
none either: two runs overlap in every way, each started again and again.

The systems of `kconfig_library` each have what makes one part of the library hard:
modules with selects and implies that loop through conditions (`Deps`), a tristate
choice with a bool and a conditional symbol (`Choice`), numbers whose
range ends at another symbol and whose default is one (`Number`), files with
wrong lines (`File`), and syncs (`Sync`). Files are loaded and written only
in `File`; where there are syncs, values are only set and unset. In
`kconfig_language` a vocabulary has only the lines of one part of the language, so that
six lines are enough for two blocks within each other, an item in them and the
ends; two choices defined within each other, each in the other, need more. Seven lines are
enough for a choice with two symbols and a loop that goes through its selection and a
symbol outside (`Choices`).
`ScrollOffset` 1 and `PageJump` 2 stand for 5 and 6 (`_SCROLL_OFFSET`, `_PG_JUMP`) in a window of one
row or of a few, with more nodes than rows; the help is toggled only where there are
several heights of the terminal. `MaxStray` bounds how far the
cursor strays in an empty list of matches, where the code does not stop it.

### Fairness

`FairSpec` (and that of `EntityRegistry`, whose only fair action is the frame) and `ButcheringFairSpec` assume that the engine goes on calling
Frame (weak fairness of the frame's actions): the server's main loop does
nothing else. `ButcheringFairSpec` also assumes that the physics runs every
think that is due, between two frames (strong fairness: a think is disabled
inside of each frame). The plugin itself has no scheduling. `FullTableThaws` holds
with the creations of a behaviour bounded (`MaxCreations`): the frame wakes only the first
part in the order of addresses, so that an endless supply of new parts at
lower addresses starves the others. Parts behind the first are woken when those before them
are gone. It is stated for hooked frees only: a part
that is freed silently may stay first in `gibses`, and then no part behind it is woken.

## Where the code disagrees with itself

`trusted_entities_exits`: `on_frame` treats the range behind the result of
`std::remove_if` as the removed elements. That range holds whatever the shift
left; and since nothing erases it, `entered` keeps its length. With `entered` =
<<e1, e2>> and e1 freed, the frame announces the exit of e2, which is in use,
keeps <<e2, e2>>, and never announces the exit of e1. The predicate
(`trusted_entities.cxx:140`) and the name of the list (`removed_`, line 136)
say that freed edicts are meant. `FrameTrustsInUse` is what still holds: the
duplicates are harmless to those in use, which stay in the list.

Found while modelling, and left without a run of their own, as the properties of
the runs are stated beside them:

- A symbol that the search for loops has marked with 2 is to be "visited, not part of a dependency loop"
  (`kconfiglib.py:6575-6579`), and is not searched again. That is not so for the symbols of a
  choice that is left and entered again in one search. With
  `W`, a choice with a prompt if `W` and the symbols `A`, with a prompt if `C`, and `B`, and `C`, with the
  default y if `B`, the search comes from `W` to the choice and from there to `A` and `B` without their way
  back into it (6640-6651): `A` is done before `B` leads to `C` and `C` to `A`. The tree
  is accepted, and reading a value recurses without end: what `A` is depends on `C`, `C` on `B`, and `B` on
  what is selected, that is on the visibility of `A`. So it is without the prompt's condition when `W` is the
  first of three symbols of the choice. `LoopsFound` excepts loops through the
  selection of a choice that the search may enter so (`OpenChoice`); with two symbols and no other way into the
  choice such loops are found.
- From a choice the search goes to its symbols only, not to what else depends on it (6634-6665), which is the
  prompts and defaults of a choice within it. A named choice that is defined again within itself, with
  a prompt, depends on itself, and the loop is not found; nor is that of a choice with a prompt if `C` around one that
  `C` is in. `LoopsFound` excepts choices in choices (`NestedChoice`).
- A bool or tristate that was set and unset again still has `_was_set`
  (`Symbol.unset_value`, 4647-4654), although unsetting is to be "as if the symbol had never gotten a
  user value". A load that merges does not clear it either (1251-1262), so that a line for the symbol
  counts as a second one, `_assigned_twice` asks for the text of the user value None (1382), and the load
  ends with a KeyError and the lines before it done. `MergeRaisesNothing` says that nothing
  else raises; loads that replace never do (`LoadForgets`), and the tools of the repository make no others.
- A symbol whose definition is gone but which is still mentioned is in `syms`, so that
  `_load_old_vals` takes it for a symbol (1871) and touches nothing for it,
  against "in case something still depends on it" (1880-1881). No symbol of the
  runs is like that.
- "All existing user values will be cleared" before a load that replaces
  (1192-1194), but a choice symbol set to m leaves `user_selection`, and
  setting the choice's mode protects it from being unset. `LoadReplaces` excepts files
  that set a choice symbol to m.
- A minimal configuration of a tristate choice in which a bool is the selection
  leaves the bool out (1717-1726) although the choice may have another mode without
  it, and then loads back to other values. `RoundTrip` excepts it.
- `_expr_depends_on` takes `A != y` for a dependency on A (6439-6464), while the
  comment above it names only those that make the expression n if A is n.
  `TreeFinalized` excepts it (`DependsOnNotY`).
- `V := $(V)` for a new variable raises an AttributeError, as the variable exists
  without a value while it is expanded.
- Leaving a menu of the terminal interface looks for it among the shown nodes of the parent
  (`menuconfig.py:1190-1218`). When it has become invisible in the meantime, since
  a condition of it changed and a comment keeps it shown, it is not there, and the
  interface ends with a ValueError; so it does when a key asks for the value after
  one that `assignable` no longer lists (1603-1612), or a number is entered for a
  range that ends at a symbol without a value (3098). `SelectionOnScreen` says where the
  first can happen at all (`PlainTree`).
- A save that fails after the old file has been renamed (`kconfiglib.py:1575`, `_save_old`)
  leaves no configuration under its name, and `_conf_changed` says nothing of it.
  `NoChangesLost` excepts files whose save failed.

`lifecycle_null`: if `private_` could not be made, the code logs it and goes on,
and every user of `private_` asks for it first (`bindings.cxx` 214, 250, 281,
359, 399), except `inject_` of the After phase (line 223). The first query runs
the features, whose first injection is of that phase.

## Proofs

The theorems hold for every value of the constants under the assumptions named
in the modules (`DispatchAssumption`, `EntityAssumption`,
`ButcheringAssumption`, `LifecycleAssumption`, `KconfigAssumption`, `FileAssumption`,
`OffsetAssumption`, `AbsentIsNothing`, `LinesAreLines`). `LinesAreLines` says that a help text has
a number of lines, and that a token that ends a block is not None.

- `HookDispatchProofs`. The inductive invariant `IInv` adds to the checked ones
  that the cell `temporary` only ever holds a value if the result does, and where its value came
  from. Without it a step that outranks could adopt a value nobody gave, and
  `Yield` could drop the only one.
- `TrustedEntitiesProofs`. `Keep` and `Shift` of `Lists` are defined by choosing the i-th kept
  position; the lemmas on lists say that it exists (`NthIsIth`), that every kept
  position is reached (`NthReaches`), and what range the results have. `IInv` is the conjunction of the type, the distinct
  queue, the idle registry, and, for hooked frees, `TrustedInUse` and
  `ViewIsState`, each preserved action by action. What waits may be free: that a frame
  admits only what is in use is what `TrustedInUse` rests on, and that a removal looks
  through both lists. The two action properties
  follow from the lemmas on lists alone. `RefinesRegistry` proves the safety
  part of the refinement, one lemma per abstract action.
- `LifecycleProofs`. `AttachedIsReady` is not inductive: an attach asks for
  the engine's functions only, so that the invariant adds what a successful
  query leaves until the attach comes. `RefusalIsHarmless` needs the type of
  `container`; `WholeGamesWatched` is inductive by itself.
- `KconfigProofs`. `Alone` states for each stage what a run relies on while
  undisturbed: the JSON is the one remembered, the scheme the one parsed, and
  `.config` the one its tool wrote into the file it created. A step of another
  run either disturbs or leaves the files (`StepElsewhere`).
- `ButcheringProofs`. `ImplementsEntities` shows that every step of the
  composition is a step of the registry or a stutter, so that the registry's
  theorems carry over, and `SeesRegistry` that it implements the abstract registry.
  The invariant adds that a frozen part has been counted:
  the reserve holds because a freeze requires capacity for all edicts in use,
  and what is frozen later is among those in use then.

- `IncrementalBuildProofs`. `ChangesAreKept` says what a sync that is cut off
  leaves: what the last build and `auto.conf` disagree about has been touched. It
  is the strengthening that makes `TouchesChanges` inductive, as a sync compares
  with `auto.conf`, never with the build. `NothingElseTouched` is its counterpart for syncs that
  nothing cut off.
- `KconfigLibraryProofs`, sync_deps. The invariant says what is known at each stage: the old values are those
  of `auto.conf` until it is opened (`Record`), and every changed symbol up to `at` has been
  touched. With it each step maps to one of `IncrementalBuild`, whose theorems then carry over to the
  header and `auto.conf` of the code (`SyncTouchesChanges`, `SyncTouchesOnlyChanges`). The lemmas
  they need are about files: that what is read back from a file that a sync has
  written is what the header says, for bools that are n and have no line too.
  This is where `WrittenBefore` is used: an `auto.conf` written by something else, with a
  line that gives n, would make the sync touch what has not changed.
- `KconfigLibraryProofs`, the invalidation. A cache is `Determined` if each cached value follows from the
  other cached ones, whatever the rest would be: short circuits leave entries
  uncached and do not break it. `ReadingKeeps` and `InvalidationKeeps` show that
  reading and invalidation preserve it, the latter for every set from which `Follow`
  leads nowhere else. `ReachedIsClosed` shows that `Reached` is such a set, since each step
  that adds anything adds one of finitely many items, and `ChangesKeep` puts the two together;
  `CachedIsCalculated` takes
  the value that differs and needs none that differs, and finds none. The assumptions
  (dependents known, visibility first, no loops) are what `_build_dep`, the properties'
  first line and `_check_dep_loop_sym` are for; that the model has
  them is left to `CachesFresh`.
- `KconfigLibraryProofs`, the settings. `Settings` says that user values are valid for their
  types, `System` that choices are bools or tristates, as the library makes them.
  `LoadForgets` compares two loads of one file into two libraries, line by line: what
  has been set since the load began is the same in both (`Alike`), and the rest is unset at the
  end. The relation has to allow for the moment between the two settings of a line for a choice
  symbol, when the mode is set and the selection is still that of before. It needs that
  `y` always selects: m does not, and files that set a choice symbol to m are excepted, as they
  are in `LoadReplaces` (see above). Nor may a line raise an error: none does as long as
  what was set has a value (`NothingUnset`), which a load that replaces starts with.
  `MergeKeepsRest` follows a load that merges in the same way, also past a line that raises,
  and `MergeRaisesNothing` says when there is none.
- `KconfigLibraryProofs`, the scrolling. `OnScreen` is preserved by lines on and back, pages,
  ends, jumps, rows and resizes, for lists and windows of any size and every scroll offset.
  A row has to be one of the window, which `RowsStayInWindow` gives where the row is that of the
  selected line, and the code's `min` where it is one of a window of another height.

- `KconfigBlocksProofs`. While files are parsed no list is complete: the nodes of an open block
  hang in a chain from the `next` of its own node, whose end is `prev` of an open call, and the
  node in `_parse_props` is in no chain yet. `NodesInPlace` speaks of the end only, and `InTree`
  is what has to hold before: calls are nested (`FramesRight`); `prev` is the last of the chain
  of its block, or the block's node (`ListsOpen`); what is in a chain leads to what comes after
  it, up to the last, whose `next` only the end of the block sets (`ListsLinked`). The call for a sourced file
  takes over `prev`, and the one that waits for it has an old one until the file
  ends, which is why `ListsOpen` speaks of those calls only that add to their block (`Adds`). One lemma
  per change of the tree: a node is made or linked, a block or a file begins or ends
  (`NodeIsLinked`, `BlockEnds`, `FileEnds`), and all files end (`AllEnds`). `Agrees` relates this to the
  lines read once more: the calls that went into a block are the blocks that are open
  (`Follows`), the other ones went into a file, and the line of each file, with the one
  that was read too far after a help text, is the one counted (`PlacesRight`). `BlocksInv`, the
  conjunction, has been checked with TLC over the lines of `kconfig_language` too. The theorems hold for
  files of any length and depth and lines of any kind and meaning, those that end in an error among them.

What a recursive function computes is proved here from its least counterexample
(`Inductive`, `WFMin`): such a function exists up to each number, and so is what its definition says.
This works for functions of numbers, such as lines, steps and pages.

Model-checked only:

- the liveness properties `QueuedEnters` and `FullTableThaws` and the fairness part of
  `ImplementsRegistry`: fairness is beyond the prover; and the violated `FrameExitsFreed`
  and `NoNullDispatcher`;
- `CachesFresh`, `ValuesConsistent`, `AssignableRespected`, `LoadReplaces` and `RoundTrip`: the
  evaluation of a configuration is a recursion through expressions, symbols and choices by a
  RECURSIVE operator, which the prover does not take. The theorems above state
  what the first and the fourth rest on, and not that the evaluation meets their assumptions;
- `TreeFinalized`, `LoopsFound` and `TextsExpand`: what becomes of the tree once it is parsed and what
  texts expand to are recursive in the same way;
- `NoChangesLost` and the rest of `SelectionOnScreen`, that the selected node is
  one that is shown and the same as before: they depend on what is visible, and so on the values.

## Not modelled

- The report: a text for one client, made from tables that nothing else of it
  changes. The log: output, to the first sink that is there. The lazy attributes:
  import machinery of scripts with one thread.
- `guiconfig.py`: windows, trees and events are Tk's; what it asks of the library
  is what `Menuconfig` asks. Of `setconfig.py`, its arguments.
- Of the Kconfig library: the tokenizer's regular expressions, warnings, the
  shell and Python functions of the preprocessor, encodings, names of files and the
  search for them, allconfig and the like, and `write_autoconf` beyond what it
  tells of a symbol.
- Of the terminal interface: drawing, styles, fonts of the terminal, and the
  editing of a line of text.
- The build scripts and the map, which are declarations and an asset; formatting and
  wording everywhere; out-of-memory inside a handler.

## Plan

1. Done: dispatch, trusted entities with the abstract registry, butchering, the
   life cycle and the configuration utility, with their theorems.
2. Done: the Kconfig library - values and caches, files and syncs, language and
   menu tree - and its terminal interface, with the abstract incremental build
   and the theorems on it, on sync_deps, on the invalidation, on loads, on the scrolling and on the blocks
   of the parser.
3. Left: what the theorems on the invalidation assume, for the evaluation of the
   model; `trace_target_` of the report as a function over bounded scenes with free
   slots, against the nearest hit; the dispatch as the call of the life cycle, for a
   plugin that is attached late.

------------------------------ MODULE Lifecycle ------------------------------
(***************************************************************************)
(* The life of the plugin between the loader and metamod: root_.cxx,       *)
(* singleton.cxx and the tables of bindings.cxx. The engine gives its      *)
(* functions (inject), metamod asks who the plugin is (query), attaches    *)
(* it, takes its tables of hooks, and detaches it; every call may be made  *)
(* with a null pointer or with another interface version and be refused,   *)
(* and metamod may then try again. Meanwhile a game starts and ends, which *)
(* the trusted entities notice only through the hooks in place.            *)
(***************************************************************************)
EXTENDS Integers

CONSTANTS
  Version,         \* interface versions of metamod
  PluginVersion,   \* info.interface_version
  NoVersion,       \* a null or empty version string
  TableVersions,   \* versions of a hook table that metamod may ask for
  TableVersion     \* api::version of the table

ASSUME LifecycleAssumption ==
  /\ PluginVersion \in Version
  /\ NoVersion \notin Version
  /\ TableVersions \subseteq Int
  /\ TableVersion \in Int

(* The functions apply() puts in the table of endpoints. get_entity_api and *)
(* get_entity_api2 fill the same table.                                     *)
Endpoint == {"get_entity_api", "get_entity_api2", "get_new_dll_functions",
             "get_engine_functions"}

(* Mutant: each endpoint fills a table of its own.                          *)
TablePerEndpoint(endpoint) == endpoint

Table(endpoint) ==
  IF endpoint = "get_new_dll_functions" THEN "extension"
  ELSE IF endpoint = "get_engine_functions" THEN "engine"
  ELSE "standard"

Phase == {"Before", "After"}
Hooks == {"standard", "extension", "engine"} \X Phase

VARIABLES
  private_,    \* is bindings.private_ set?
  container,   \* container_: an exception, or a container without or with api
  engine,      \* are api.engine.globals and its functions set?
  utilities,   \* version of the metamod whose functions are in api.meta
  features,    \* are the actions of the features injected?
  globals,     \* is api.meta.globals set?
  game,        \* are api.game.functions set?
  stage,       \* metamod: has the plugin been opened, queried, attached?
  hooks,       \* metamod: the tables of hooks filled by the plugin
  running,     \* is a game running?
  watching,    \* `state' of the trusted entities
  missed,      \* history: did a game start or end without the hook?
  answer,      \* what the last call returned, "none" for a step of the game
  crashed      \* was a null private_ dereferenced?

api == <<engine, utilities, globals, game>>
world == <<running, watching, missed>>
vars == <<private_, container, api, features, stage, hooks, world, answer, crashed>>

LifecycleTypeOK ==
  /\ {private_, engine, features, globals, game} \subseteq BOOLEAN
  /\ container \in {"error", "unassigned", "assigned"}
  /\ {running, watching, missed, crashed} \subseteq BOOLEAN
  /\ utilities \in Version \cup {NoVersion}
  /\ stage \in {"opened", "queried", "attached"}
  /\ hooks \subseteq Hooks
  /\ answer \in {"none", "false", "true"}

Init ==
  /\ private_ \in BOOLEAN
  /\ container \in {"error", "unassigned", "assigned"}
  /\ engine = FALSE
  /\ utilities = NoVersion
  /\ features = FALSE
  /\ globals = FALSE
  /\ game = FALSE
  /\ stage = "opened"
  /\ hooks = {}
  /\ running \in BOOLEAN
  /\ missed = running
  /\ watching = FALSE
  /\ answer = "none"
  /\ crashed = FALSE

-----------------------------------------------------------------------------
(* A call that returns at once: nothing but the answer changes.             *)
Refuse ==
  /\ answer' = "false"
  /\ UNCHANGED <<private_, container, api, features, stage, hooks, world, crashed>>

(* GiveFnptrsToDll, before metamod queries; void, a failure is only logged. *)
Inject(given) ==
  /\ stage = "opened"
  /\ engine' = (engine \/ given)
  /\ answer' = "none"
  /\ UNCHANGED <<private_, container, utilities, globals, game, features, stage,
                 hooks, world, crashed>>

(* container(), collect() and what it makes the features do: their first    *)
(* injection is one of the After phase, which uses private_ unasked. The    *)
(* container is asked for api last, when the features are subscribed.       *)
Collect ==
  IF container = "error"
  THEN answer' = "false" /\ UNCHANGED <<features, stage, crashed>>
  ELSE IF ~private_
  THEN crashed' = TRUE /\ answer' = "none" /\ UNCHANGED <<features, stage>>
  ELSE /\ features' = TRUE
       /\ IF container = "assigned"
          THEN stage' = "queried" /\ answer' = "true"
          ELSE answer' = "false" /\ UNCHANGED stage
       /\ UNCHANGED crashed

(* Mutants: the version is not compared; the functions are copied before    *)
(* the version is compared.                                                 *)
QueryAnyVersion(version, given) ==
  /\ stage = "opened"
  /\ IF version = NoVersion \/ ~given \/ ~engine
     THEN Refuse
     ELSE /\ utilities' = version
          /\ Collect
          /\ UNCHANGED <<private_, container, engine, globals, game, hooks, world>>
QueryCopiesFirst(version, given) ==
  /\ stage = "opened"
  /\ IF version = NoVersion \/ ~given
     THEN Refuse
     ELSE /\ utilities' = version
          /\ IF version # PluginVersion \/ ~engine
             THEN answer' = "false" /\ UNCHANGED <<features, stage, crashed>>
             ELSE Collect
          /\ UNCHANGED <<private_, container, engine, globals, game, hooks, world>>

(* Meta_Query. The plugin's info is handed out even when the version then   *)
(* turns out to be another one.                                             *)
Query(version, given) ==
  /\ stage = "opened"
  /\ IF version = NoVersion \/ ~given \/ version # PluginVersion \/ ~engine
     THEN Refuse
     ELSE /\ utilities' = version
          /\ Collect
          /\ UNCHANGED <<private_, container, engine, globals, game, hooks, world>>

(* Meta_Attach.                                                             *)
Attach(given) ==
  /\ stage = "queried"
  /\ IF ~given \/ ~engine
     THEN Refuse
     ELSE /\ globals' = TRUE
          /\ game' = TRUE
          /\ stage' = "attached"
          /\ answer' = "true"
          /\ UNCHANGED <<private_, container, engine, utilities, features, hooks,
                         world, crashed>>

(* The interface version of a table: by value it must be the plugin's, by   *)
(* pointer it may be newer, and the caller is then told the plugin's.       *)
Accepts(endpoint, version) ==
  IF endpoint = "get_entity_api"
  THEN version = TableVersion
  ELSE version >= TableVersion

(* api<phase>(), by which metamod takes a table of hooks once attached.     *)
GetTable(endpoint, phase, version, given) ==
  /\ stage = "attached"
  /\ IF ~given \/ ~Accepts(endpoint, version) \/ ~private_
     THEN Refuse
     ELSE /\ hooks' = hooks \cup {<<Table(endpoint), phase>>}
          /\ answer' = "true"
          /\ UNCHANGED <<private_, container, api, features, stage, world, crashed>>

(* Meta_Detach; metamod drops the hooks. The library may stay loaded, with  *)
(* the features subscribed, and be opened again.                            *)
Detach ==
  /\ stage = "attached"
  /\ globals' = FALSE
  /\ game' = FALSE
  /\ stage' = "opened"
  /\ hooks' = {}
  /\ answer' = "true"
  /\ UNCHANGED <<private_, container, engine, utilities, features, world, crashed>>

(* A hooked call reaches the features: Executor_::execute.                  *)
Reaches(table, phase) == <<table, phase>> \in hooks /\ private_ /\ features

(* Game Init, heard After.                                                  *)
GameInit ==
  /\ ~running
  /\ running' = TRUE
  /\ watching' = (watching \/ Reaches("standard", "After"))
  /\ missed' = (missed \/ ~Reaches("standard", "After"))
  /\ answer' = "none"
  /\ UNCHANGED <<private_, container, api, features, stage, hooks, crashed>>

(* Mutant: on_shutdown leaves the state raised.                             *)
GameShutdownQuiet ==
  /\ running
  /\ running' = FALSE
  /\ missed' = (missed \/ ~Reaches("extension", "Before"))
  /\ answer' = "none"
  /\ UNCHANGED <<private_, container, api, features, stage, hooks, watching, crashed>>

(* Game Shutdown, heard Before.                                             *)
GameShutdown ==
  /\ running
  /\ running' = FALSE
  /\ watching' = (watching /\ ~Reaches("extension", "Before"))
  /\ missed' = (missed \/ ~Reaches("extension", "Before"))
  /\ answer' = "none"
  /\ UNCHANGED <<private_, container, api, features, stage, hooks, crashed>>

Call ==
  \/ \E given \in BOOLEAN : Inject(given)
  \/ \E version \in Version \cup {NoVersion}, given \in BOOLEAN : Query(version, given)
  \/ \E given \in BOOLEAN : Attach(given)
  \/ \E endpoint \in Endpoint, phase \in Phase, version \in TableVersions, given \in BOOLEAN :
       GetTable(endpoint, phase, version, given)
  \/ Detach

Next == ~crashed /\ (Call \/ GameInit \/ GameShutdown)

Spec == Init /\ [][Next]_vars

-----------------------------------------------------------------------------
(* Whatever was refused and tried again before, an attached plugin, and so  *)
(* every table of hooks that it filled, has all that the hooks use: the     *)
(* engine's functions, those of a metamod of its version, the features and  *)
(* a dispatcher; and metamod's globals and the game's functions are there   *)
(* exactly while it is attached.                                            *)
AttachedIsReady ==
  /\ stage = "attached" => engine /\ features /\ private_ /\ utilities = PluginVersion
  /\ globals = (stage = "attached")
  /\ game = (stage = "attached")
  /\ hooks # {} => stage = "attached"

(* A call that is refused leaves the tables of the engine, of metamod and   *)
(* of the game, and the hooks in place, as they were; only when the         *)
(* container could not be made, or not be filled, metamod's functions may   *)
(* be there already, and in the latter case the features be subscribed.     *)
RefusalKeepsTables ==
  [][answer' = "false" =>
       /\ UNCHANGED <<engine, globals, game, hooks>>
       /\ UNCHANGED utilities \/ container # "assigned"
       /\ UNCHANGED features \/ container = "unassigned"]_vars

(* A plugin that heard every start and end of a game, through whatever      *)
(* detaches, retries and refused tables between them, watches exactly while *)
(* a game runs. One that comes while a game runs has missed its start.      *)
WatchesWholeGames == ~missed => watching = running

(* No injection uses private_ while it is null: inject_ throws instead.     *)
NoNullDispatcher == ~crashed
=============================================================================

--------------------------- MODULE LifecycleProofs ---------------------------
(***************************************************************************)
(* Proofs about Lifecycle, for any versions of metamod and of its tables.  *)
(***************************************************************************)
EXTENDS Lifecycle, TLAPS

(* The inductive invariant. An attach asks for the engine only; that it     *)
(* finds the rest is due to the query that metamod made before, which has   *)
(* to hold on to what it found until the attach comes.                      *)
IInv ==
  /\ LifecycleTypeOK
  /\ AttachedIsReady
  /\ stage = "queried" => engine /\ features /\ private_ /\ utilities = PluginVersion

LEMMA InitIInv == Init => IInv
BY DEF Init, IInv, LifecycleTypeOK, AttachedIsReady, Hooks

LEMMA RefuseIInv == IInv /\ Refuse => IInv'
BY DEF Refuse, IInv, LifecycleTypeOK, AttachedIsReady, api, world

LEMMA InjectIInv ==
  ASSUME IInv, NEW given \in BOOLEAN, Inject(given)
  PROVE  IInv'
BY DEF Inject, IInv, LifecycleTypeOK, AttachedIsReady, world

LEMMA QueryIInv ==
  ASSUME IInv, NEW version \in Version \cup {NoVersion}, NEW given \in BOOLEAN,
         Query(version, given)
  PROVE  IInv'
<1>1. CASE Refuse
  BY <1>1, RefuseIInv
<1>2. CASE ~Refuse
  <2>1. /\ stage = "opened" /\ engine /\ version = PluginVersion
        /\ utilities' = version
        /\ Collect
        /\ UNCHANGED <<private_, container, engine, globals, game, hooks, world>>
    BY <1>2 DEF Query
  <2>2. \/ stage' = stage /\ features' = features
        \/ stage' \in {stage, "queried"} /\ features' = TRUE /\ private_
    BY <2>1 DEF Collect
  <2>3. /\ crashed' \in BOOLEAN /\ answer' \in {"none", "false", "true"}
        /\ stage' \in {"opened", "queried"} /\ features' \in BOOLEAN
    BY <2>1 DEF Collect, IInv, LifecycleTypeOK
  <2> QED
    BY <2>1, <2>2, <2>3, LifecycleAssumption DEF IInv, LifecycleTypeOK, AttachedIsReady, world
<1> QED
  BY <1>1, <1>2

LEMMA AttachIInv ==
  ASSUME IInv, NEW given \in BOOLEAN, Attach(given)
  PROVE  IInv'
<1>1. CASE Refuse
  BY <1>1, RefuseIInv
<1>2. CASE ~Refuse
  BY <1>2 DEF Attach, IInv, LifecycleTypeOK, AttachedIsReady, world
<1> QED
  BY <1>1, <1>2

LEMMA GetTableIInv ==
  ASSUME IInv, NEW endpoint \in Endpoint, NEW phase \in Phase,
         NEW version \in TableVersions, NEW given \in BOOLEAN,
         GetTable(endpoint, phase, version, given)
  PROVE  IInv'
<1>1. CASE Refuse
  BY <1>1, RefuseIInv
<1>2. CASE ~Refuse
  <2>1. <<Table(endpoint), phase>> \in Hooks
    BY DEF Table, Hooks
  <2> QED
    BY <1>2, <2>1 DEF GetTable, IInv, LifecycleTypeOK, AttachedIsReady, api, world
<1> QED
  BY <1>1, <1>2

LEMMA DetachIInv == IInv /\ Detach => IInv'
BY DEF Detach, IInv, LifecycleTypeOK, AttachedIsReady, world

LEMMA GameIInv == IInv /\ (GameInit \/ GameShutdown) => IInv'
<1> SUFFICES ASSUME IInv, GameInit \/ GameShutdown PROVE IInv'
  OBVIOUS
<1>1. \A table, phase : Reaches(table, phase) \in BOOLEAN
  BY DEF Reaches, IInv, LifecycleTypeOK
<1>2. {running', watching', missed'} \subseteq BOOLEAN /\ answer' = "none"
  BY <1>1 DEF GameInit, GameShutdown, IInv, LifecycleTypeOK
<1>3. UNCHANGED <<private_, container, api, features, stage, hooks, crashed>>
  BY DEF GameInit, GameShutdown
<1> QED
  BY <1>2, <1>3 DEF IInv, LifecycleTypeOK, AttachedIsReady, api

LEMMA StepIInv == IInv /\ [Next]_vars => IInv'
<1> SUFFICES ASSUME IInv, [Next]_vars PROVE IInv'
  OBVIOUS
<1>1. CASE UNCHANGED vars
  BY <1>1 DEF vars, api, world, IInv, LifecycleTypeOK, AttachedIsReady
<1> QED
  BY <1>1, InjectIInv, QueryIInv, AttachIInv, GetTableIInv, DetachIInv, GameIInv
     DEF Next, Call

(* The inductive invariant holds in every reachable state.                  *)
THEOREM IInvHolds == Spec => []IInv
BY InitIInv, StepIInv, PTL DEF Spec

(* The tables and flags have their types.                                   *)
THEOREM TypeCorrect == Spec => []LifecycleTypeOK
BY IInvHolds, PTL DEF IInv

(* An attached plugin has all that its hooks use.                           *)
THEOREM ReadyWhenAttached == Spec => []AttachedIsReady
BY IInvHolds, PTL DEF IInv

(* A plugin that heard all starts and ends watches while a game runs.       *)
THEOREM WholeGamesWatched == Spec => []WatchesWholeGames
<1>1. Init => WatchesWholeGames
  <2> SUFFICES ASSUME Init, ~missed PROVE watching = running
    BY DEF WatchesWholeGames
  <2>1. running \in BOOLEAN /\ ~running /\ watching = FALSE
    BY DEF Init
  <2> QED
    BY <2>1
<1>2. IInv /\ WatchesWholeGames /\ [Next]_vars => WatchesWholeGames'
  <2> SUFFICES ASSUME IInv, WatchesWholeGames, [Next]_vars PROVE WatchesWholeGames'
    OBVIOUS
  <2>1. CASE GameInit
    BY <2>1 DEF GameInit, WatchesWholeGames, IInv, LifecycleTypeOK
  <2>2. CASE GameShutdown
    BY <2>2 DEF GameShutdown, WatchesWholeGames, IInv, LifecycleTypeOK
  <2>3. CASE UNCHANGED world
    BY <2>3 DEF world, WatchesWholeGames
  <2>4. Call \/ UNCHANGED vars => UNCHANGED world
    BY DEF Call, Inject, Query, Attach, GetTable, Detach, Refuse, vars
  <2> QED
    BY <2>1, <2>2, <2>3, <2>4 DEF Next
<1> QED
  BY <1>1, <1>2, IInvHolds, PTL DEF Spec

(* A refused call leaves what the hooks read as it was.                     *)
THEOREM RefusalIsHarmless == Spec => RefusalKeepsTables
<1> DEFINE A == answer' = "false" =>
      /\ UNCHANGED <<engine, globals, game, hooks>>
      /\ UNCHANGED utilities \/ container # "assigned"
      /\ UNCHANGED features \/ container = "unassigned"
<1>1. IInv /\ [Next]_vars => [A]_vars
  <2> SUFFICES ASSUME IInv, Next, answer' = "false" PROVE A
    OBVIOUS
  <2>1. CASE Refuse
    BY <2>1 DEF Refuse, api
  <2>2. CASE ~Refuse
    <3>1. PICK version, given : Query(version, given)
      BY <2>2 DEF Next, Call, Inject, Attach, GetTable, Detach, GameInit, GameShutdown
    <3>2. Collect /\ UNCHANGED <<engine, globals, game, hooks>>
      BY <2>2, <3>1 DEF Query
    <3>3. /\ container # "assigned"
          /\ UNCHANGED features \/ container = "unassigned"
      BY <3>2 DEF Collect, IInv, LifecycleTypeOK
    <3> QED
      BY <3>2, <3>3
  <2> QED
    BY <2>1, <2>2
<1> QED
  BY <1>1, IInvHolds, PTL DEF Spec, RefusalKeepsTables
=============================================================================

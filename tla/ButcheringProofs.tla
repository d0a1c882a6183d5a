--------------------------- MODULE ButcheringProofs ---------------------------
(***************************************************************************)
(* Proofs about Butchering, for any set of edicts and any size of the      *)
(* engine's table.                                                         *)
(***************************************************************************)
EXTENDS Butchering, TrustedEntitiesProofs

(* The composition is a subscriber of the registry: each of its steps is a  *)
(* step of the registry or leaves it alone.                                 *)
LEMMA StepMaps == [ButcheringNext]_allVars => [Next]_vars
<1>1. ASSUME NEW e \in Entity, RemoveEdict(e)
      PROVE  Next
  BY <1>1 DEF RemoveEdict, Next, OnRemove
<1>2. ASSUME NEW e \in Entity, GameThink(e)
      PROVE  [Next]_vars
  BY <1>1, <1>2 DEF GameThink
<1> QED
  BY <1>1, <1>2 DEF ButcheringNext, GameInit, GameSpawn, Create, EngineRemove,
     GameShutdown, EngineFree, FrameBefore, FrameAfter, Freeze, Next, vars, allVars

(* The composition implements the registry, so that what is proved of the   *)
(* registry holds of it.                                                    *)
THEOREM ImplementsEntities == ButcheringSpec => Spec
<1>1. ButcheringInit => Init
  BY DEF ButcheringInit
<1> QED
  BY <1>1, StepMaps, PTL DEF ButcheringSpec, Spec

(* What the component subscribes to is the abstract registry, then, where   *)
(* all frees are hooked.                                                    *)
THEOREM SeesRegistry ==
  ASSUME ~SilentFrees
  PROVE  ButcheringSpec => Registry!Spec
BY ImplementsEntities, RefinesRegistry, PTL

-----------------------------------------------------------------------------
(* The inductive invariant: what the registry guarantees, and the parts     *)
(* that lean on each other. A gib is tracked while it is announced, what is *)
(* announced is in use when all frees are hooked, so that an edict leaves   *)
(* `gibses' no later than it is freed and no earlier.                       *)
ButcheringIInv ==
  /\ IInv
  /\ ButcheringTypeOK
  /\ ReserveKept
  /\ FrozenIsOpaque
  /\ GibsesInView
  /\ FrozenIsTracked
  /\ TracksLiveGibs

(* No step but a freeze adds to the frozen edicts; then the reserve stays.  *)
LEMMA FewerFrozen ==
  ASSUME ButcheringTypeOK, ReserveKept, Frozen' \subseteq Frozen
  PROVE  ReserveKept'
<1>1. IsFiniteSet(Frozen)
  BY ButcheringAssumption, FS_Subset DEF Frozen
<1>2. IsFiniteSet(Frozen') /\ Cardinality(Frozen') <= Cardinality(Frozen)
  BY <1>1, FS_Subset
<1>3. Cardinality(Frozen) \in Nat /\ Cardinality(Frozen') \in Nat
  BY <1>1, <1>2, FS_CardinalityType
<1> QED
  BY <1>2, <1>3, ButcheringAssumption DEF ReserveKept

(* A think with capacity left counts every frozen edict among those in use. *)
LEMMA FreezeKeepsReserve ==
  ASSUME ButcheringTypeOK, NEW e \in Entity, Freeze(e)
  PROVE  ReserveKept'
<1>1. Frozen' \in SUBSET (Entity \ free) /\ IsFiniteSet(Entity \ free)
  BY ButcheringAssumption, FS_Subset DEF Frozen, Freeze, vars
<1>2. /\ IsFiniteSet(Frozen')
      /\ Cardinality(Frozen') <= Cardinality(Entity \ free)
  BY <1>1, FS_Subset
<1>3. Cardinality(Frozen') \in Nat /\ Cardinality(Entity \ free) \in Nat
  BY <1>1, <1>2, FS_CardinalityType
<1>4. MaxEntities \div 4 \in Int /\ Residents \in Nat /\ MaxEntities \in Int
  BY ButcheringAssumption
<1>5. Cardinality(Entity \ free) + Residents < Limit
  BY <1>3, <1>4 DEF Freeze, Capacity, CapacityFor, Total, Limit, Reserved
<1>6. \A reserve \in {128, MaxEntities \div 4} : reserve <= Reserved
  BY <1>4 DEF Reserved
<1>7. Reserved \in Int
  BY <1>4 DEF Reserved
<1> QED
  BY <1>2, <1>3, <1>4, <1>5, <1>6, <1>7 DEF ReserveKept, Limit

LEMMA InitButchering == ButcheringInit => ButcheringIInv
<1> SUFFICES ASSUME ButcheringInit PROVE ButcheringIInv
  OBVIOUS
<1>1. IInv
  BY InitIInv DEF ButcheringInit
<1>2. Frozen = {}
  BY DEF ButcheringInit, Init, Frozen
<1>3. ButcheringTypeOK
  <2>1. TypeOK
    BY <1>1 DEF IInv
  <2>2. 0 \in 0..MaxCreations /\ FullRender \in 0..FullRender
    BY ButcheringAssumption
  <2> QED
    BY <2>1, <2>2 DEF ButcheringInit, ButcheringTypeOK, Class, NextThink
<1> QED
  BY <1>1, <1>2, <1>3 DEF ButcheringInit, ButcheringIInv, ReserveKept,
     FrozenIsOpaque, GibsesInView, FrozenIsTracked, TracksLiveGibs

(* A creation: only edicts that were free change.                           *)
LEMMA CreateButchering ==
  ASSUME ButcheringIInv, IInv', Create
  PROVE  ButcheringIInv'
<1> USE DEF ButcheringIInv
<1>1. free' \subseteq free /\ view' = view /\ gibses' = gibses
  BY DEF Create, OnCreateEntity, OnCreateNamedEntity
<1>2. /\ class' \in [Entity -> Class]
      /\ \A e \in Entity : e \notin Given => class'[e] = class[e]
      /\ nextthink' = [e \in Entity |-> IF e \in Given THEN "due" ELSE nextthink[e]]
      /\ renderamt' = [e \in Entity |-> IF e \in Given THEN FullRender ELSE renderamt[e]]
  BY DEF Create, EdictsGiven, ButcheringTypeOK
<1>3. Frozen' \subseteq Frozen /\ \A e \in Frozen' : renderamt'[e] = renderamt[e]
  BY <1>1, <1>2 DEF Frozen, Given
<1>4. created' \in 0..MaxCreations
  <2>1. \E original : free' = free \ {original}
    BY DEF Create, OnCreateEntity, OnCreateNamedEntity
  <2>2. PICK original : Given \in SUBSET {original}
    BY <2>1 DEF Given
  <2>3. Given = {} \/ Given = {original}
    BY <2>2
  <2>4. Cardinality(Given) = 0 \/ Cardinality(Given) = 1
    <3>1. Cardinality({}) = 0
      BY FS_EmptySet
    <3>2. Cardinality({original}) = 1
      BY FS_Singleton
    <3> QED
      BY <2>3, <3>1, <3>2
  <2> QED
    BY <2>4, ButcheringAssumption DEF Create, ButcheringTypeOK
<1>5. ButcheringTypeOK'
  BY <1>1, <1>2, <1>4, ButcheringAssumption DEF ButcheringTypeOK, IInv, Create, NextThink
<1>6. ReserveKept'
  BY <1>3, FewerFrozen
<1>7. FrozenIsOpaque' /\ FrozenIsTracked' /\ GibsesInView'
  BY <1>1, <1>3 DEF FrozenIsOpaque, FrozenIsTracked, GibsesInView
<1>8. TracksLiveGibs'
  BY <1>1, <1>2 DEF TracksLiveGibs, Given, ButcheringTypeOK
<1> QED
  BY <1>5, <1>6, <1>7, <1>8

(* What an edict that the engine frees takes with it.                       *)
LEMMA ReleaseFacts ==
  ASSUME ButcheringTypeOK, free \subseteq free', EdictsReleased
  PROVE  /\ Frozen' \subseteq Frozen
         /\ \A e \in Entity \ free' : class'[e] = class[e] /\ renderamt'[e] = renderamt[e]
         /\ class' \in [Entity -> Class]
         /\ renderamt' \in [Entity -> 0..FullRender]
         /\ nextthink' \in [Entity -> NextThink]
<1>1. FullRender \in 0..FullRender
  BY ButcheringAssumption
<1> QED
  BY <1>1 DEF EdictsReleased, Released, Frozen, ButcheringTypeOK, NextThink, Class

(* A removal: an edict that had entered leaves the gibs as it is announced, *)
(* and, unless the removal is superseded, as it is freed.                   *)
LEMMA RemoveButchering ==
  ASSUME ButcheringIInv, IInv', NEW e \in Entity, RemoveEdict(e)
  PROVE  ButcheringIInv'
<1> USE DEF ButcheringIInv
<1>1. /\ free' = free \cup {e} \/ (KeptRemovals /\ free' = free)
      /\ view' = IF e \in Range(entered) THEN view \ {e} ELSE view
      /\ gibses' = IF e \in Range(entered) THEN gibses \ {e} ELSE gibses
      /\ EdictsReleased /\ UNCHANGED <<inFrame, created>>
  BY DEF RemoveEdict, Remove
<1>2. /\ Frozen' \subseteq Frozen
      /\ \A f \in Entity \ free' : class'[f] = class[f] /\ renderamt'[f] = renderamt[f]
      /\ class' \in [Entity -> Class]
      /\ renderamt' \in [Entity -> 0..FullRender]
      /\ nextthink' \in [Entity -> NextThink]
  BY <1>1, ReleaseFacts
<1>3. ButcheringTypeOK'
  BY <1>1, <1>2 DEF ButcheringTypeOK, IInv
<1>4. ReserveKept'
  BY <1>2, FewerFrozen
<1>5. FrozenIsOpaque' /\ GibsesInView'
  BY <1>1, <1>2 DEF FrozenIsOpaque, GibsesInView, Frozen
<1>6. FrozenIsTracked'
  BY <1>1, <1>2 DEF FrozenIsTracked, Frozen
<1>7. TracksLiveGibs'
  <2>1. ~SilentFrees => e \notin gibses'
    BY <1>1 DEF GibsesInView, ViewIsState, IInv
  <2> QED
    BY <1>1, <1>2, <2>1 DEF TracksLiveGibs, ButcheringTypeOK
<1> QED
  BY <1>3, <1>4, <1>5, <1>6, <1>7

LEMMA ShutdownButchering ==
  ASSUME ButcheringIInv, IInv', GameShutdown
  PROVE  ButcheringIInv'
<1> USE DEF ButcheringIInv
<1>1. /\ free' = Entity /\ view' = view \ Range(entered)
      /\ gibses' = gibses \ Range(entered)
      /\ EdictsReleased /\ UNCHANGED <<inFrame, created>>
  BY DEF GameShutdown, OnShutdown
<1>2. Frozen' = {}
  BY <1>1 DEF Frozen
<1>3. /\ class' \in [Entity -> Class] /\ renderamt' \in [Entity -> 0..FullRender]
      /\ nextthink' \in [Entity -> NextThink]
  BY <1>1, ReleaseFacts DEF ButcheringTypeOK, TypeOK
<1>4. ButcheringTypeOK'
  BY <1>1, <1>3 DEF ButcheringTypeOK, IInv
<1>5. ~SilentFrees => gibses' = {}
  BY <1>1 DEF GibsesInView, ViewIsState, IInv
<1> QED
  BY <1>1, <1>2, <1>4, <1>5 DEF ReserveKept, FrozenIsOpaque, GibsesInView,
     FrozenIsTracked, TracksLiveGibs

LEMMA EngineFreeButchering ==
  ASSUME ButcheringIInv, IInv', EngineFree
  PROVE  ButcheringIInv'
<1> USE DEF ButcheringIInv
<1>1. /\ SilentFrees /\ free \subseteq free' /\ view' = view /\ EdictsReleased
      /\ UNCHANGED <<gibses, inFrame, created>>
  BY DEF EngineFree, SilentFree
<1>2. /\ Frozen' \subseteq Frozen
      /\ \A f \in Entity \ free' : class'[f] = class[f] /\ renderamt'[f] = renderamt[f]
      /\ class' \in [Entity -> Class]
      /\ renderamt' \in [Entity -> 0..FullRender]
      /\ nextthink' \in [Entity -> NextThink]
  BY <1>1, ReleaseFacts
<1>3. ReserveKept'
  BY <1>2, FewerFrozen
<1>4. FrozenIsOpaque'
  BY <1>2 DEF FrozenIsOpaque, Frozen
<1> QED
  BY <1>1, <1>2, <1>3, <1>4 DEF ButcheringTypeOK, IInv, GibsesInView,
     FrozenIsTracked, TracksLiveGibs

(* The start of a frame: exits are told before entries. With hooked frees   *)
(* only, no exit is told, so that no frozen gib is forgotten.               *)
LEMMA FrameBeforeButchering ==
  ASSUME ButcheringIInv, IInv', FrameBefore
  PROVE  ButcheringIInv'
<1> USE DEF ButcheringIInv
<1>1. free' = free /\ UNCHANGED <<edicts, created>> /\ inFrame' = TRUE
  BY DEF FrameBefore, OnFrame, vars
<1>2. Frozen' = Frozen
  BY <1>1 DEF Frozen, edicts
<1>3. ReserveKept' /\ FrozenIsOpaque'
  BY <1>1, <1>2, FewerFrozen DEF FrozenIsOpaque, edicts
<1>4. CASE OnFrame /\ gibses' = GibsesAfter(Gone, Admitted)
  <2>1. /\ Range(Admitted) = Range(queue) \ free
        /\ Range(entered) \cap free = {} => Range(Gone) = {}
    BY AdmittedProperties, StayProperties DEF IInv
  <2>2. /\ gibses' = (gibses \ Range(Gone)) \cup {e \in Range(Admitted) : class[e] = "gib"}
        /\ view' = (view \ Range(Gone)) \cup Range(Admitted)
    BY <1>4 DEF GibsesAfter, OnFrame
  <2>3. GibsesInView'
    BY <2>2 DEF GibsesInView
  <2>4. ButcheringTypeOK'
    BY <1>1, <2>3 DEF ButcheringTypeOK, IInv, TypeOK, GibsesInView, edicts
  <2>5. ~SilentFrees => Range(Gone) = {}
    BY <2>1 DEF IInv, TrustedInUse
  <2>6. FrozenIsTracked' /\ TracksLiveGibs'
    BY <1>1, <1>2, <2>1, <2>2, <2>5 DEF FrozenIsTracked, TracksLiveGibs, edicts
  <2> QED
    BY <1>3, <2>3, <2>4, <2>6
<1>5. CASE UNCHANGED <<vars, gibses>>
  BY <1>1, <1>2, <1>3, <1>5 DEF ButcheringTypeOK, IInv, GibsesInView,
     FrozenIsTracked, TracksLiveGibs, edicts, vars
<1> QED
  BY <1>4, <1>5 DEF FrameBefore

LEMMA FrameAfterButchering ==
  ASSUME ButcheringIInv, IInv', FrameAfter
  PROVE  ButcheringIInv'
<1> USE DEF ButcheringIInv
<1>1. /\ UNCHANGED <<vars, class, renderamt, gibses, created>> /\ inFrame' = FALSE
      /\ nextthink' = nextthink \/ nextthink' = [nextthink EXCEPT ![FirstGib] = "due"]
  BY DEF FrameAfter
<1>2. nextthink' \in [Entity -> NextThink] /\ Frozen' \subseteq Frozen
  BY <1>1 DEF ButcheringTypeOK, NextThink, Frozen, vars
<1>3. ReserveKept'
  BY <1>2, FewerFrozen
<1> QED
  BY <1>1, <1>2, <1>3 DEF ButcheringTypeOK, IInv, FrozenIsOpaque, GibsesInView,
     FrozenIsTracked, TracksLiveGibs, vars

LEMMA FreezeButchering ==
  ASSUME ButcheringIInv, IInv', NEW e \in Entity, Freeze(e)
  PROVE  ButcheringIInv'
<1> USE DEF ButcheringIInv
<1>1. /\ UNCHANGED <<vars, class, gibses, inFrame, created>> /\ e \in gibses
      /\ nextthink' = [nextthink EXCEPT ![e] = "never"]
      /\ renderamt' = [renderamt EXCEPT ![e] = FullRender]
  BY DEF Freeze
<1>2. Frozen' \subseteq Frozen \cup {e}
  BY <1>1 DEF Frozen, ButcheringTypeOK, vars
<1>3. ButcheringTypeOK'
  BY <1>1, ButcheringAssumption DEF ButcheringTypeOK, NextThink, IInv
<1>4. ReserveKept'
  BY FreezeKeepsReserve
<1>5. FrozenIsOpaque'
  BY <1>1, <1>2 DEF FrozenIsOpaque, ButcheringTypeOK, Frozen
<1> QED
  BY <1>1, <1>2, <1>3, <1>4, <1>5 DEF GibsesInView, FrozenIsTracked,
     TracksLiveGibs, vars

LEMMA FadeButchering ==
  ASSUME ButcheringIInv, IInv', NEW e \in Entity, GameThink(e), ~RemoveEdict(e)
  PROVE  ButcheringIInv'
<1> USE DEF ButcheringIInv
<1>1. /\ UNCHANGED <<vars, class, nextthink, gibses, inFrame, created>>
      /\ nextthink[e] = "due" /\ 0 < renderamt[e]
      /\ renderamt' = [renderamt EXCEPT ![e] = renderamt[e] - 1]
  BY DEF GameThink, Thinks
<1>2. Frozen' = Frozen /\ e \notin Frozen
  BY <1>1 DEF Frozen, vars
<1>3. renderamt' \in [Entity -> 0..FullRender]
  BY <1>1, ButcheringAssumption DEF ButcheringTypeOK
<1>4. ReserveKept'
  BY <1>2, FewerFrozen
<1>5. FrozenIsOpaque'
  BY <1>1, <1>2 DEF FrozenIsOpaque, ButcheringTypeOK, Frozen
<1> QED
  BY <1>1, <1>2, <1>3, <1>4, <1>5 DEF ButcheringTypeOK, IInv, GibsesInView,
     FrozenIsTracked, TracksLiveGibs, vars

LEMMA StepButchering == ButcheringIInv /\ [ButcheringNext]_allVars => ButcheringIInv'
<1> SUFFICES ASSUME ButcheringIInv, [ButcheringNext]_allVars
             PROVE  ButcheringIInv'
  OBVIOUS
<1>1. IInv'
  BY StepMaps, StepIInv DEF ButcheringIInv
<1>2. CASE GameInit \/ GameSpawn
  <2>1. UNCHANGED <<free, view, edicts, gibses, inFrame, created>>
    BY <1>2 DEF GameInit, GameSpawn, OnInit, OnSpawn
  <2> QED
    BY <1>1, <2>1 DEF ButcheringIInv, ButcheringTypeOK, IInv, ReserveKept,
       FrozenIsOpaque, GibsesInView, FrozenIsTracked, TracksLiveGibs, Frozen, edicts
<1>3. CASE UNCHANGED allVars
  BY <1>1, <1>3 DEF ButcheringIInv, ButcheringTypeOK, IInv, ReserveKept,
     FrozenIsOpaque, GibsesInView, FrozenIsTracked, TracksLiveGibs, Frozen,
     edicts, vars, allVars
<1>4. CASE \E e \in Entity : GameThink(e)
  BY <1>1, <1>4, RemoveButchering, FadeButchering
<1>5. CASE EngineRemove
  BY <1>1, <1>5, RemoveButchering DEF EngineRemove
<1>6. CASE \E e \in Entity : Freeze(e)
  BY <1>1, <1>6, FreezeButchering
<1> QED
  BY <1>1, <1>2, <1>3, <1>4, <1>5, <1>6, CreateButchering, ShutdownButchering,
     EngineFreeButchering, FrameBeforeButchering, FrameAfterButchering
     DEF ButcheringNext

(* The inductive invariant holds in every reachable state.                  *)
THEOREM ButcheringIInvHolds == ButcheringSpec => []ButcheringIInv
BY InitButchering, StepButchering, PTL DEF ButcheringSpec

-----------------------------------------------------------------------------
(* The composition keeps its types.                                         *)
THEOREM ButcheringTypeCorrect == ButcheringSpec => []ButcheringTypeOK
BY ButcheringIInvHolds, PTL DEF ButcheringIInv

(* The freezer never takes the reserved edicts, whoever frees what.         *)
THEOREM ReserveIsKept == ButcheringSpec => []ReserveKept
BY ButcheringIInvHolds, PTL DEF ButcheringIInv

(* What is frozen is opaque.                                                *)
THEOREM FrozenStaysOpaque == ButcheringSpec => []FrozenIsOpaque
BY ButcheringIInvHolds, PTL DEF ButcheringIInv

(* The component tracks announced entities only.                            *)
THEOREM GibsesStayInView == ButcheringSpec => []GibsesInView
BY ButcheringIInvHolds, PTL DEF ButcheringIInv

(* With hooked frees that are not superseded, what is frozen can be thawed. *)
THEOREM FrozenStaysTracked == ButcheringSpec => []FrozenIsTracked
BY ButcheringIInvHolds, PTL DEF ButcheringIInv

(* With hooked frees, only gibs in use are tracked.                         *)
THEOREM OnlyLiveGibsTracked == ButcheringSpec => []TracksLiveGibs
BY ButcheringIInvHolds, PTL DEF ButcheringIInv
=============================================================================

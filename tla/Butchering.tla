----------------------------- MODULE Butchering -----------------------------
(***************************************************************************)
(* features/butchering.cxx on top of the trusted entities. A gib is a body *)
(* part that the game fades out and removes. While the edict table is far  *)
(* from full the plugin supersedes the think of a gib and makes its next   *)
(* think infinite, so that the part stays; once the table fills up, each   *)
(* frame lets the first of them think again, and the game goes on fading.  *)
(*                                                                         *)
(* The composition adds to the registry what the engine and the game keep  *)
(* in an edict, and makes the component the subscriber of its events.      *)
(***************************************************************************)
EXTENDS TrustedEntities

CONSTANTS
  MaxEntities,   \* engine globals' maxEntities
  Residents,     \* edicts in use beside Entity: the world, the players
  FullRender,    \* renderamt of an opaque body part (255)
  MaxCreations   \* bound: edicts created in a behaviour

ASSUME ButcheringAssumption ==
  /\ Entity \subseteq Nat        \* ordered, as the addresses in the std::set
  /\ IsFiniteSet(Entity)
  /\ MaxEntities \in Int
  /\ Residents \in Nat
  /\ FullRender \in Nat
  /\ MaxCreations \in Nat

Class == {"gib", "other"}

(* v.nextthink, as the code tells its values apart: no think asked for, a   *)
(* finite time that comes, infinity.                                        *)
NextThink == {"none", "due", "never"}

VARIABLES
  class,         \* v.classname
  nextthink,     \* v.nextthink
  renderamt,     \* v.renderamt, in steps of the game's fade
  gibses,        \* Context_::gibses
  inFrame,       \* is the engine inside game Frame?
  created        \* edicts created so far

edicts == <<class, nextthink, renderamt>>
allVars == <<vars, edicts, gibses, inFrame, created>>

ButcheringTypeOK ==
  /\ TypeOK
  /\ class \in [Entity -> Class]
  /\ nextthink \in [Entity -> NextThink]
  /\ renderamt \in [Entity -> 0..FullRender]
  /\ gibses \subseteq Entity
  /\ inFrame \in BOOLEAN
  /\ created \in 0..MaxCreations

ButcheringInit ==
  /\ Init
  /\ class = [e \in Entity |-> "other"]
  /\ nextthink = [e \in Entity |-> "none"]
  /\ renderamt = [e \in Entity |-> FullRender]
  /\ gibses = {}
  /\ inFrame = FALSE
  /\ created = 0

-----------------------------------------------------------------------------
(* fadeout_freezer_capacity_ for `total' edicts in use: the room left below *)
(* the part of the table that is kept for everything else.                  *)
Reserved == IF 128 < MaxEntities \div 4 THEN MaxEntities \div 4 ELSE 128
Limit    == MaxEntities - Reserved

CapacityFor(total) ==
  IF 0 < MaxEntities /\ Reserved < MaxEntities /\ total < Limit
  THEN Limit - total
  ELSE 0

Total    == Cardinality(Entity \ free) + Residents
Capacity == CapacityFor(Total)

(* Mutants: the exits are not erased; the class of an entry is not asked.   *)
GibsesAfterNoExit(gone, admitted) ==
  gibses \cup {e \in Range(admitted) : class[e] = "gib"}
GibsesAfterAnyClass(gone, admitted) ==
  (gibses \ Range(gone)) \cup Range(admitted)

(* on_exit and on_enter, for the lists of two events told one after another.*)
GibsesAfter(gone, admitted) ==
  (gibses \ Range(gone)) \cup {e \in Range(admitted) : class[e] = "gib"}

(* The std::set begins at the lowest address.                               *)
FirstGib == CHOOSE e \in gibses : \A f \in gibses : e <= f

-----------------------------------------------------------------------------
(* What the engine does to an edict that it frees, and the game to one that *)
(* it was given. Nobody reads the class and the rendering of an edict while *)
(* it is free, and it is given with new ones: they are kept in one form, so *)
(* that states which differ in them alone are one.                          *)

Released == free' \ free
Given    == free \ free'

EdictsReleased ==
  /\ nextthink' = [e \in Entity |-> IF e \in Released THEN "none" ELSE nextthink[e]]
  /\ class' = [e \in Entity |-> IF e \in Released THEN "other" ELSE class[e]]
  /\ renderamt' = [e \in Entity |-> IF e \in Released THEN FullRender ELSE renderamt[e]]

EdictsGiven ==
  /\ \E c \in Class : class' = [e \in Entity |-> IF e \in Given THEN c ELSE class[e]]
  /\ nextthink' = [e \in Entity |-> IF e \in Given THEN "due" ELSE nextthink[e]]
  /\ renderamt' = [e \in Entity |-> IF e \in Given THEN FullRender ELSE renderamt[e]]

-----------------------------------------------------------------------------
(* The hooks. Game code runs inside Frame as well as between frames.        *)

GameInit ==
  /\ OnInit
  /\ UNCHANGED <<edicts, gibses, inFrame, created>>

GameSpawn ==
  /\ OnSpawn
  /\ UNCHANGED <<edicts, gibses, inFrame, created>>

Create ==
  /\ created < MaxCreations
  /\ OnCreateEntity \/ OnCreateNamedEntity
  /\ EdictsGiven
  /\ created' = created + Cardinality(Given)
  /\ UNCHANGED <<gibses, inFrame>>

(* The removal of e, by the game or by its think; an exit is announced when *)
(* the edict had entered.                                                   *)
RemoveEdict(e) ==
  /\ Remove(e)
  /\ gibses' = IF e \in Range(entered) THEN gibses \ {e} ELSE gibses
  /\ EdictsReleased
  /\ UNCHANGED <<inFrame, created>>

EngineRemove == \E e \in Entity \ free : RemoveEdict(e)

GameShutdown ==
  /\ ~inFrame
  /\ OnShutdown
  /\ free' = Entity
  /\ gibses' = gibses \ Range(entered)
  /\ EdictsReleased
  /\ UNCHANGED <<inFrame, created>>

EngineFree ==
  /\ SilentFree
  /\ EdictsReleased
  /\ UNCHANGED <<gibses, inFrame, created>>

(* Before Frame: the registry's on_frame, and the events it dispatches.     *)
FrameBefore ==
  /\ ~inFrame
  /\ inFrame' = TRUE
  /\ \/ OnFrame /\ gibses' = GibsesAfter(Gone, Admitted)
     \/ ~state /\ UNCHANGED <<vars, gibses>>
  /\ UNCHANGED <<edicts, created>>

(* Mutant: the test for a finite think time is negated.                     *)
FrameAfterAwake ==
  /\ inFrame
  /\ inFrame' = FALSE
  /\ IF Capacity = 0 /\ gibses # {} /\ nextthink[FirstGib] # "never"
     THEN nextthink' = [nextthink EXCEPT ![FirstGib] = "due"]
     ELSE UNCHANGED nextthink
  /\ UNCHANGED <<vars, class, renderamt, gibses, created>>

(* After Frame: on_frame of this component. Without capacity, the first gib *)
(* is made to think as soon as possible, when it was not going to.          *)
FrameAfter ==
  /\ inFrame
  /\ inFrame' = FALSE
  /\ IF Capacity = 0 /\ gibses # {} /\ nextthink[FirstGib] = "never"
     THEN nextthink' = [nextthink EXCEPT ![FirstGib] = "due"]
     ELSE UNCHANGED nextthink
  /\ UNCHANGED <<vars, class, renderamt, gibses, created>>

(* Before Think, in the engine's physics between two frames.                *)
Thinks(e) ==
  /\ ~inFrame
  /\ e \notin free
  /\ nextthink[e] = "due"

(* Mutants: any edict is frozen; the room is not asked for; the part stays  *)
(* as faded as it was; the renderamt is one too many.                       *)
FreezeWith(e, tracked, room, amount) ==
  /\ Thinks(e)
  /\ tracked
  /\ room
  /\ nextthink' = [nextthink EXCEPT ![e] = "never"]
  /\ renderamt' = [renderamt EXCEPT ![e] = amount]
  /\ UNCHANGED <<vars, class, gibses, inFrame, created>>

FreezeUntracked(e) == FreezeWith(e, TRUE, 0 < Capacity, FullRender)
FreezeFull(e)      == FreezeWith(e, e \in gibses, TRUE, FullRender)
FreezeFaded(e)     == FreezeWith(e, e \in gibses, 0 < Capacity, renderamt[e])
FreezeBrighter(e)  == FreezeWith(e, e \in gibses, 0 < Capacity, FullRender + 1)

(* on_think of a tracked gib with capacity: opaque, asleep, superseded.     *)
Freeze(e) ==
  /\ Thinks(e)
  /\ e \in gibses
  /\ 0 < Capacity
  /\ nextthink' = [nextthink EXCEPT ![e] = "never"]
  /\ renderamt' = [renderamt EXCEPT ![e] = FullRender]
  /\ UNCHANGED <<vars, class, gibses, inFrame, created>>

(* on_think otherwise: the game's own think of a gib, which fades it by a   *)
(* step and thinks again, or removes it.                                    *)
GameThink(e) ==
  /\ Thinks(e)
  /\ class[e] = "gib"
  /\ e \in gibses => Capacity = 0
  /\ \/ /\ 0 < renderamt[e]
        /\ renderamt' = [renderamt EXCEPT ![e] = @ - 1]
        /\ UNCHANGED <<vars, class, nextthink, gibses, inFrame, created>>
     \/ RemoveEdict(e)

Think(e) == Freeze(e) \/ GameThink(e)

ButcheringNext ==
  \/ GameInit
  \/ GameSpawn
  \/ Create
  \/ EngineRemove
  \/ GameShutdown
  \/ EngineFree
  \/ FrameBefore
  \/ FrameAfter
  \/ \E e \in Entity : Freeze(e)
  \/ \E e \in Entity : GameThink(e)

ButcheringSpec == ButcheringInit /\ [][ButcheringNext]_allVars

(* The engine's loop goes on, and its physics runs every think that is due. *)
ButcheringFairSpec ==
  /\ ButcheringSpec
  /\ WF_allVars(FrameBefore)
  /\ WF_allVars(FrameAfter)
  /\ \A e \in Entity : SF_allVars(Think(e))

-----------------------------------------------------------------------------
Frozen == {e \in Entity \ free : nextthink[e] = "never"}

(* However creations, frees and thinks interleave, the frozen parts and the *)
(* residents leave 128 edicts, and a quarter of the table, to everything    *)
(* else: fadeout_freezer_capacity_ tests the room at each think, and the    *)
(* table fills up between two thinks.                                       *)
ReserveKept ==
  Frozen # {} =>
    \A reserve \in {128, MaxEntities \div 4} :
      Cardinality(Frozen) + Residents + reserve < MaxEntities

(* A frozen part is opaque: it was made so when it froze, and no fade of    *)
(* the game that was under way reaches it while it is asleep.               *)
FrozenIsOpaque == \A e \in Frozen : renderamt[e] = FullRender

(* Where every free passes through the hooked removal and is not            *)
(* superseded, a frozen edict is one that a frame can wake up again ...     *)
FrozenIsTracked == ~SilentFrees /\ ~KeptRemovals => Frozen \subseteq gibses

(* ... and the component touches nothing but gibs that are in use: no edict *)
(* freed or reused for something else stays in `gibses'.                    *)
TracksLiveGibs ==
  ~SilentFrees => \A e \in gibses : e \notin free /\ class[e] = "gib"

(* `gibses' follows the announced entities, whoever frees edicts.           *)
GibsesInView == gibses \subseteq view

(* When the table stays full, every frozen part thinks again in the end,    *)
(* those behind the first of the set included: a frame wakes the first part *)
(* alone, and only while it sleeps, so that the others wait until the game  *)
(* has faded it and removed it. (The creations are bounded. With new parts  *)
(* at lower addresses for ever, one behind them might never be the first.)  *)
FullTableThaws ==
  \A e \in Entity : e \in Frozen /\ Capacity = 0 ~> e \notin Frozen \/ Capacity > 0
=============================================================================

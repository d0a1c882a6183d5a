-------------------------- MODULE TrustedEntities --------------------------
(***************************************************************************)
(* features/trusted_entities.cxx: the plugin's registry of the edicts that *)
(* are safe to touch. An edict seen by a creation or a spawn hook waits in *)
(* `queue'; the next server frame moves the waiting edicts that are still  *)
(* in use to `entered' and tells the on_enter subscribers; an edict leaves *)
(* when its removal is hooked, when a frame finds it freed, or when the    *)
(* game shuts down, and the on_exit subscribers are told.                  *)
(*                                                                         *)
(* The engine owns the edicts: it frees and reuses them, and not every     *)
(* free passes through the hooked removal.                                 *)
(***************************************************************************)
EXTENDS Lists

CONSTANTS
  Entity,        \* the engine's edicts, as the pointers the plugin keeps
  NoEntity,      \* a null edict pointer
  Unset,         \* a null override or original pointer of metamod's globals
  SilentFrees,   \* may the engine free an edict without the hooked removal?
  KeptRemovals,  \* may another plugin supersede a removal?
  MaxTracked     \* bound: edicts in `queue' and `entered' together

ASSUME EntityAssumption ==
  /\ NoEntity \notin Entity
  /\ Unset \notin Entity \cup {NoEntity}
  /\ SilentFrees \in BOOLEAN
  /\ KeptRemovals \in BOOLEAN
  /\ MaxTracked \in Nat

VARIABLES
  free,          \* the edicts whose `free' flag the engine has raised
  state,         \* Context_::state, is a game running?
  queue,         \* Context_::queue, in order of arrival
  entered,       \* Context_::entered
  view           \* what a subscriber of on_enter and on_exit believes

vars == <<free, state, queue, entered, view>>

TypeOK ==
  /\ free \subseteq Entity
  /\ state \in BOOLEAN
  /\ queue \in Seq(Entity)
  /\ entered \in Seq(Entity)
  /\ view \subseteq Entity

Init ==
  /\ free = Entity
  /\ state = FALSE
  /\ queue = <<>>
  /\ entered = <<>>
  /\ view = {}

-----------------------------------------------------------------------------
(* Positions in a list: the edicts in use, and those other than e.          *)
InUse(s)     == {i \in DOMAIN s : s[i] \notin free}
Others(s, e) == {i \in DOMAIN s : s[i] # e}

-----------------------------------------------------------------------------
(* The functions of namespace private_.                                     *)

HasRoom(list) == Len(list) + Len(entered) <= MaxTracked

(* Mutants: the null pointer, or an edict that waits, is queued as well.    *)
QueuedNull(e)  == IF e \in Range(queue) THEN queue ELSE Append(queue, e)
QueuedTwice(e) == IF e = NoEntity THEN queue ELSE Append(queue, e)

(* on_spawn: queue an edict, once.                                          *)
Queued(e) ==
  IF e = NoEntity \/ e \in Range(queue) THEN queue ELSE Append(queue, e)

(* on_create: the pointer to the created edict, another plugin's first.     *)
Created(override, original) ==
  IF override # Unset THEN override
  ELSE IF original # Unset THEN original
  ELSE NoEntity

(* Mutants: the condition of remove_if negated; freed edicts enter, or only *)
(* the first edict that waits does.                                         *)
StayFreed     == Shift(entered, DOMAIN entered \ InUse(entered))
AdmittedAll   == queue
AdmittedFirst == Keep(queue, InUse(queue) \cap {1})

(* on_frame: the edicts announced as gone, the list left behind, and the    *)
(* queued edicts that enter.                                                *)
Gone     == Rest(entered, InUse(entered))
Stay     == Shift(entered, InUse(entered))
Admitted == Keep(queue, InUse(queue))

-----------------------------------------------------------------------------
(* The hooks.                                                               *)

(* After game Init.                                                         *)
OnInit ==
  /\ state' = TRUE
  /\ UNCHANGED <<free, queue, entered, view>>

(* After game Spawn: the hook queues the edict that the call was for and    *)
(* does not look at it. The game may have removed it inside its own Spawn,  *)
(* so that it may be free by now.                                           *)
OnSpawn ==
  \E e \in Entity :
    /\ queue' = Queued(e)
    /\ HasRoom(queue')
    /\ UNCHANGED <<free, state, entered, view>>

(* After engine CreateEntity. The engine took a free edict, or gave none,   *)
(* or was superseded by a plugin that returns an edict of its own choice,   *)
(* which nothing obliges to be in use.                                      *)
OnCreateEntity ==
  \E original \in free \cup {NoEntity, Unset} :
  \E override \in Entity \cup {NoEntity, Unset} :
    /\ queue' = Queued(Created(override, original))
    /\ HasRoom(queue')
    /\ free' = free \ {original}
    /\ UNCHANGED <<state, entered, view>>

(* Before engine CreateNamedEntity: nothing is created yet, so only an      *)
(* edict given by a plugin asked earlier is seen. The engine creates one    *)
(* after the hook, unless it was superseded.                                *)
OnCreateNamedEntity ==
  \E override \in Entity \cup {NoEntity, Unset} :
  \E original \in free \cup {NoEntity} :
    /\ override # Unset => original = NoEntity
    /\ queue' = Queued(Created(override, Unset))
    /\ HasRoom(queue')
    /\ free' = free \ {original}
    /\ UNCHANGED <<state, entered, view>>

(* Mutant: a removal that found the edict in the queue looks no further.    *)
RemoveOnce(e) ==
  /\ queue' = Keep(queue, Others(queue, e))
  /\ entered' = IF e \in Range(queue) THEN entered ELSE Keep(entered, Others(entered, e))
  /\ view' = IF e \in Range(entered) /\ e \notin Range(queue) THEN view \ {e} ELSE view
  /\ free' = free \cup {e}
  /\ UNCHANGED state

(* Before engine RemoveEntity. on_remove announces an exit only when the    *)
(* edict had entered; the engine then frees it, unless it is superseded.    *)
Remove(e) ==
  /\ queue' = Keep(queue, Others(queue, e))
  /\ entered' = Keep(entered, Others(entered, e))
  /\ view' = IF e \in Range(entered) THEN view \ {e} ELSE view
  /\ \/ free' = free \cup {e}
     \/ KeptRemovals /\ UNCHANGED free
  /\ UNCHANGED state

OnRemove == \E e \in Entity : Remove(e)

(* Mutant: a frame between two games works like any other.                  *)
OnFrameAlways ==
  /\ entered' = Stay \o Admitted
  /\ queue' = <<>>
  /\ view' = (view \ Range(Gone)) \cup Range(Admitted)
  /\ UNCHANGED <<free, state>>

(* Mutant: the queue that a frame moved to entered is not left empty.       *)
OnFrameAgain ==
  /\ state
  /\ entered' = Stay \o Admitted
  /\ view' = (view \ Range(Gone)) \cup Range(Admitted)
  /\ UNCHANGED <<free, state, queue>>

(* Before game Frame. Exits are told before entries.                        *)
OnFrame ==
  /\ state
  /\ entered' = Stay \o Admitted
  /\ queue' = <<>>
  /\ view' = (view \ Range(Gone)) \cup Range(Admitted)
  /\ UNCHANGED <<free, state>>

(* Mutant: the shutdown announces no exit.                                  *)
OnShutdownQuiet ==
  /\ state' = FALSE
  /\ queue' = <<>>
  /\ entered' = <<>>
  /\ free' \in {free, Entity}
  /\ UNCHANGED view

(* Before game Shutdown; the engine may release the edicts on the way out.  *)
OnShutdown ==
  /\ state' = FALSE
  /\ queue' = <<>>
  /\ entered' = <<>>
  /\ view' = view \ Range(entered)
  /\ free' \in {free, Entity}

(* The engine frees an edict by itself: a killed entity, a map change.      *)
SilentFree ==
  /\ SilentFrees
  /\ \E e \in Entity \ free : free' = free \cup {e}
  /\ UNCHANGED <<state, queue, entered, view>>

Next ==
  \/ OnInit
  \/ OnSpawn
  \/ OnCreateEntity
  \/ OnCreateNamedEntity
  \/ OnRemove
  \/ OnFrame
  \/ OnShutdown
  \/ SilentFree

Spec == Init /\ [][Next]_vars

(* The engine's main loop never stops calling Frame.                        *)
FairSpec == Spec /\ WF_vars(OnFrame)

-----------------------------------------------------------------------------
(* on_spawn, on_remove and on_frame keep the queue free of duplicates, so   *)
(* that a frame announces an edict at most once.                            *)
QueueDistinct == IsInjective(queue)

(* Between a shutdown and the next init, however edicts come and go, the    *)
(* registry trusts nothing: no pointer of an old game is in state().        *)
NothingTrustedWhenIdle == ~state => entered = <<>>

(* A frame only announces the entry of an edict that is in use, even when   *)
(* it was queued, freed and reused before the frame.                        *)
EntersInUse == [][\A e \in view' \ view : e \notin free]_vars

(* However many freed edicts stand around it, an edict in use that waited   *)
(* or was trusted before a frame is trusted after it: the shift over freed  *)
(* edicts and the move of the queue lose none.                              *)
FrameTrustsInUse ==
  [][OnFrame =>
       (Range(entered) \cup Range(queue)) \ free \subseteq Range(entered')]_vars

(* While every free passes through the hooked removal, no freed edict is    *)
(* trusted, though one may wait: an edict that was removed inside its own   *)
(* Spawn is queued by the hook after it, and has to be dropped by a frame,  *)
(* and an edict that has entered may wait again when it is removed ...      *)
TrustedInUse == ~SilentFrees => Range(entered) \cap free = {}

(* ... and a subscriber that follows on_enter and on_exit agrees with       *)
(* state() at all times, through respawns, removals, frames and shutdowns.  *)
ViewIsState == ~SilentFrees => view = Range(entered)

(* When the engine frees edicts by itself, the next frame announces the     *)
(* exit of edicts that it found freed, and of no other: the condition of    *)
(* the std::remove_if of on_frame.                                          *)
FrameExitsFreed == [][OnFrame => Range(Gone) \subseteq free]_vars

(* An edict that waits while a game runs is announced, unless it is freed   *)
(* or the game shuts down first: no frame drops it from the queue unseen.   *)
(* A removal that another plugin supersedes takes it out and keeps it.      *)
QueuedEnters ==
  ~KeptRemovals =>
    \A e \in Entity :
      state /\ e \in Range(queue) ~> e \in view \/ e \in free \/ ~state

-----------------------------------------------------------------------------
(* The registry as a subscriber knows it. An edict that waits need not be   *)
(* live.                                                                    *)
Registry == INSTANCE EntityRegistry WITH
  running <- state,
  live    <- Entity \ free,
  waiting <- Range(queue),
  trusted <- view

(* Where every free passes through the hooked removal, the two lists and    *)
(* the announcements made from them implement the abstract registry, its    *)
(* promise that whoever waits is announced included.                        *)
ImplementsRegistry == Registry!FairSpec
=============================================================================

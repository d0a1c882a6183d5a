--------------------------- MODULE EntityRegistry ---------------------------
(***************************************************************************)
(* What the trusted entities promise, as sets: an entity that is brought   *)
(* to attention waits for the next frame, is trusted from then on if it is *)
(* in use by then, and stops being trusted in the very step in which it    *)
(* leaves or the game is closed. Nothing here says how the entities are    *)
(* kept, or in which order.                                                *)
(***************************************************************************)
CONSTANT Entity

VARIABLES
  running,     \* is a game running?
  live,        \* the entities in use
  waiting,     \* those that the next frame will look at
  trusted      \* those announced, and not yet announced as gone

vars == <<running, live, waiting, trusted>>

Init ==
  /\ running = FALSE
  /\ live = {}
  /\ waiting = {}
  /\ trusted = {}

Open ==
  /\ running' = TRUE
  /\ UNCHANGED <<live, waiting, trusted>>

(* Entities come to life, and entities are brought to attention, one that   *)
(* is gone by now perhaps.                                                  *)
Arrive ==
  \E born \in SUBSET (Entity \ live) : \E come \in SUBSET Entity :
    /\ live' = live \cup born
    /\ waiting' = waiting \cup come
    /\ UNCHANGED <<running, trusted>>

(* The removal of an entity; another plugin may keep it in use.             *)
Leave ==
  \E e \in Entity :
    /\ live' \in {live, live \ {e}}
    /\ waiting' = waiting \ {e}
    /\ trusted' = trusted \ {e}
    /\ UNCHANGED running

(* Those that wait are trusted if they are in use, and forgotten otherwise. *)
Frame ==
  /\ running
  /\ waiting' = {}
  /\ trusted' = trusted \cup (waiting \cap live)
  /\ UNCHANGED <<running, live>>

Close ==
  /\ running' = FALSE
  /\ live' \in {live, {}}
  /\ waiting' = {}
  /\ trusted' = {}

Next == Open \/ Arrive \/ Leave \/ Frame \/ Close

Spec == Init /\ [][Next]_vars

FairSpec == Spec /\ WF_vars(Frame)
=============================================================================

---------------------------- MODULE HookDispatch ----------------------------
(***************************************************************************)
(* One hooked call of the bindings component: target_handler (bindings.cxx)*)
(* dispatches an Event to every injected action and folds their responses  *)
(* into the hook result told to metamod and the value returned to it.      *)
(*                                                                         *)
(* A step of this module is the visit of one subscriber by the dispatcher. *)
(* What the subscriber does is chosen freely: it is bound to another       *)
(* target, it throws, or it answers with a rank and perhaps a value.       *)
(***************************************************************************)
EXTENDS Integers, Sequences, FiniteSets

CONSTANTS
  Value,        \* what a target with an output may return
  NoValue,      \* std::nullopt
  MaxVisits     \* bound: subscribers visited in one dispatch

ASSUME DispatchAssumption ==
  /\ NoValue \notin Value
  /\ MaxVisits \in Nat

(* p5::lambda::metamod::plugin::HookResult, ordered as the code compares it *)
Unset     == 0
Ignored   == 1
Handled   == 2
Override  == 3
Supercede == 4

Phase == {"Before", "After"}

(* The ranks an action of a phase can answer with: phase::Traits<>::Meta    *)
(* through transform(); only a Before action may supercede the original.    *)
Rank(p) == IF p = "Before" THEN Ignored..Supercede ELSE Ignored..Override

(* What the lambda of Type::inject leaves behind once an action returned:   *)
(* its rank, and the value it wrote through `output' (NoValue: none).       *)
Answer(p) == [rank : Rank(p), value : Value \cup {NoValue}]

VARIABLES
  phase,        \* Event::phase of this dispatch
  globals,      \* are the metamod globals known, that is, is it attached?
  meta,         \* state_.meta
  result,       \* state_.result
  temporary,    \* state_.temporary, the cell Event::output points to
  current,      \* meta globals' current, Unset until the dispatch is over
  answers,      \* history: the answers given so far, in order of dispatch
  visits,       \* history: subscribers visited so far
  returned      \* has target_handler returned?

vars ==
  <<phase, globals, meta, result, temporary, current, answers, visits, returned>>

TypeOK ==
  /\ phase \in Phase
  /\ globals \in BOOLEAN
  /\ meta \in Rank(phase)
  /\ result \in Value \cup {NoValue}
  /\ temporary \in Value \cup {NoValue}
  /\ current \in {Unset} \cup Rank(phase)
  /\ answers \in Seq(Answer(phase))
  /\ visits \in 0..MaxVisits
  /\ returned \in BOOLEAN

Init ==
  /\ phase \in Phase
  /\ globals \in BOOLEAN
  /\ meta = Ignored
  /\ result = NoValue
  /\ temporary = NoValue
  /\ current = Unset
  /\ answers = <<>>
  /\ visits = 0
  /\ returned = FALSE

Visit ==
  /\ ~returned
  /\ visits < MaxVisits
  /\ visits' = visits + 1

(* action_handler: the key or the phase of the subscriber is another one.   *)
Skip ==
  /\ Visit
  /\ UNCHANGED <<phase, globals, meta, result, temporary, current, answers, returned>>

(* Mutant: the exception takes back the rank held so far.                   *)
ThrowResets ==
  /\ Visit
  /\ meta' = Unset
  /\ UNCHANGED <<phase, globals, result, temporary, current, answers, returned>>

(* action_handler: the action throws. The response is the exception, which  *)
(* is only logged, and the rank stays Unset, so nothing else is responded.  *)
Throw ==
  /\ Visit
  /\ UNCHANGED <<phase, globals, meta, result, temporary, current, answers, returned>>

(* The cell after an action wrote its value, if it has one, through output. *)
Written(a) == IF a.value = NoValue THEN temporary ELSE a.value

(* Mutant: the last answer wins, whatever its rank.                         *)
OutrankAlways(a) ==
  /\ meta' = a.rank
  /\ IF Written(a) = NoValue
     THEN UNCHANGED <<result, temporary>>
     ELSE result' = Written(a) /\ temporary' = NoValue

(* response_ with a rank above the one held: the rank is adopted, and       *)
(* whatever the cell holds becomes the result.                              *)
Outrank(a) ==
  /\ meta < a.rank
  /\ meta' = a.rank
  /\ IF Written(a) = NoValue
     THEN UNCHANGED <<result, temporary>>
     ELSE result' = Written(a) /\ temporary' = NoValue

(* Mutant: an answer that does not outrank leaves the result alone.         *)
YieldDrops(a) ==
  /\ meta >= a.rank
  /\ result' = result
  /\ temporary' = Written(a)
  /\ UNCHANGED meta

(* Mutant: an answer that does not outrank still replaces the result.       *)
YieldReplaces(a) ==
  /\ meta >= a.rank
  /\ UNCHANGED meta
  /\ IF Written(a) # NoValue
     THEN result' = Written(a) /\ temporary' = NoValue
     ELSE UNCHANGED <<result, temporary>>

(* response_ with a rank that is not above: the rank is dropped, the cell   *)
(* fills an empty result and is otherwise left as it is.                    *)
Yield(a) ==
  /\ meta >= a.rank
  /\ UNCHANGED meta
  /\ IF Written(a) # NoValue /\ result = NoValue
     THEN result' = Written(a) /\ temporary' = NoValue
     ELSE result' = result /\ temporary' = Written(a)

Respond(a) ==
  /\ Visit
  /\ Outrank(a) \/ Yield(a)
  /\ answers' = Append(answers, a)
  /\ UNCHANGED <<phase, globals, current, returned>>

(* The end of target_handler: the rank goes to the metamod globals, if they *)
(* are known, the result (or a default) to the caller.                      *)
Return ==
  /\ ~returned
  /\ returned' = TRUE
  /\ current' = IF globals THEN meta ELSE current
  /\ UNCHANGED <<phase, globals, meta, result, temporary, answers, visits>>

Next ==
  \/ Skip
  \/ Throw
  \/ \E a \in Answer(phase) : Respond(a)
  \/ Return

Spec == Init /\ [][Next]_vars

-----------------------------------------------------------------------------
(* Position i holds the first answer of the strongest rank given so far.    *)
IsWinner(i) ==
  /\ i \in DOMAIN answers
  /\ \A j \in DOMAIN answers : answers[j].rank <= answers[i].rank
  /\ \A j \in DOMAIN answers : j < i => answers[j].rank < answers[i].rank

(* The rank told to metamod is the strongest any subscriber answered with,  *)
(* whatever the order of dispatch, and never weaker than Ignored.           *)
RankIsStrongest ==
  /\ \A i \in DOMAIN answers : answers[i].rank <= meta
  /\ meta = Ignored \/ \E i \in DOMAIN answers : answers[i].rank = meta
  /\ returned /\ globals => current = meta

(* A value reaches the caller exactly when some subscriber supplied one,    *)
(* and it is one of those supplied: no response loses the only value.       *)
ValueIsSupplied ==
  /\ result # NoValue => \E i \in DOMAIN answers : answers[i].value = result
  /\ result = NoValue => \A i \in DOMAIN answers : answers[i].value = NoValue

(* When the first answer of the strongest rank carries a value, that value  *)
(* is the result: a later or a weaker answer cannot replace it.             *)
WinnerKeepsValue ==
  \A i \in DOMAIN answers :
    IsWinner(i) /\ answers[i].value # NoValue => result = answers[i].value
=============================================================================

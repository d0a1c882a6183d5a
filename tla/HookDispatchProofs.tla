-------------------------- MODULE HookDispatchProofs --------------------------
(***************************************************************************)
(* Proofs about HookDispatch, for any set of values, any number of         *)
(* subscribers and any order of dispatch.                                  *)
(***************************************************************************)
EXTENDS HookDispatch, TLAPS

(* What the cell holds was supplied, and waits only behind a result.        *)
CellIsSupplied ==
  /\ temporary # NoValue => \E i \in DOMAIN answers : answers[i].value = temporary
  /\ result = NoValue => temporary = NoValue

(* The inductive invariant: the cell is what a later answer may adopt, so   *)
(* nothing can be said of `result' without saying where the cell came from. *)
IInv ==
  /\ TypeOK
  /\ RankIsStrongest
  /\ ValueIsSupplied
  /\ CellIsSupplied
  /\ WinnerKeepsValue

(* The answers after one more, position by position.                        *)
LEMMA AnswersAfter ==
  ASSUME TypeOK, NEW a \in Answer(phase), answers' = Append(answers, a)
  PROVE  /\ DOMAIN answers = 1..Len(answers)
         /\ Len(answers) \in Nat
         /\ answers' \in Seq(Answer(phase))
         /\ DOMAIN answers' = 1..(Len(answers) + 1)
         /\ \A i \in DOMAIN answers : i \in DOMAIN answers' /\ answers'[i] = answers[i]
         /\ answers'[Len(answers) + 1] = a
         /\ Len(answers) + 1 \in DOMAIN answers'
BY DEF TypeOK

(* Every answer given so far has a rank from Ignored to Supercede.          *)
LEMMA RanksAreRanks ==
  ASSUME TypeOK, NEW i \in DOMAIN answers
  PROVE  /\ answers[i].rank \in Ignored..Supercede
         /\ meta \in Ignored..Supercede
<1>1. answers[i] \in Answer(phase)
  BY DEF TypeOK
<1> QED
  BY <1>1 DEF TypeOK, Answer, Rank, Ignored, Override, Supercede

LEMMA InitIInv == Init => IInv
<1> SUFFICES ASSUME Init PROVE IInv
  OBVIOUS
<1>1. answers \in Seq(Answer(phase)) /\ DOMAIN answers = {}
  BY DEF Init
<1>2. meta \in Rank(phase) /\ 0 \in 0..MaxVisits
  BY DispatchAssumption DEF Init, Rank, Ignored, Override, Supercede
<1> QED
  BY <1>1, <1>2 DEF Init, IInv, TypeOK, RankIsStrongest, ValueIsSupplied,
     CellIsSupplied, WinnerKeepsValue

LEMMA RespondTypeOK ==
  ASSUME TypeOK, NEW a \in Answer(phase), Respond(a)
  PROVE  TypeOK'
<1>1. a.rank \in Rank(phase) /\ a.value \in Value \cup {NoValue}
  BY DEF Answer
<1>2. answers' \in Seq(Answer(phase))
  BY DEF TypeOK, Respond
<1>3. meta' \in Rank(phase)
  BY <1>1 DEF TypeOK, Respond, Outrank, Yield
<1>4. Written(a) \in Value \cup {NoValue}
  BY <1>1 DEF TypeOK, Written
<1>5. result' \in Value \cup {NoValue} /\ temporary' \in Value \cup {NoValue}
  BY <1>4 DEF TypeOK, Respond, Outrank, Yield
<1>6. visits' \in 0..MaxVisits
  BY DispatchAssumption DEF TypeOK, Respond, Visit
<1> QED
  BY <1>2, <1>3, <1>5, <1>6 DEF TypeOK, Respond

LEMMA RespondRank ==
  ASSUME IInv, NEW a \in Answer(phase), Respond(a)
  PROVE  RankIsStrongest'
<1> USE DEF IInv
<1>1. answers' = Append(answers, a) /\ ~returned /\ returned' = returned
  BY DEF Respond, Visit
<1>2. a.rank \in Int /\ meta \in Int
  BY DEF TypeOK, Answer, Rank, Ignored, Supercede, Override
<1>3. \A i \in DOMAIN answers : answers[i].rank \in Int
  BY RanksAreRanks DEF Ignored, Supercede
<1>4. meta' = IF meta < a.rank THEN a.rank ELSE meta
  BY <1>2 DEF Respond, Outrank, Yield
<1>5. \A i \in DOMAIN answers' : answers'[i].rank <= meta'
  BY <1>1, <1>2, <1>3, <1>4, AnswersAfter DEF RankIsStrongest
<1>6. meta' = Ignored \/ \E i \in DOMAIN answers' : answers'[i].rank = meta'
  BY <1>1, <1>4, AnswersAfter DEF RankIsStrongest
<1> QED
  BY <1>1, <1>5, <1>6 DEF RankIsStrongest

(* Whatever a response leaves in `result' and in the cell was supplied.     *)
LEMMA RespondValue ==
  ASSUME IInv, NEW a \in Answer(phase), Respond(a)
  PROVE  ValueIsSupplied' /\ CellIsSupplied'
<1> USE DEF IInv
<1>1. answers' = Append(answers, a)
  BY DEF Respond
<1>2. DEFINE Supplied(v) == \E i \in DOMAIN answers' : answers'[i].value = v
<1>3. /\ Written(a) # NoValue => Supplied(Written(a))
      /\ result # NoValue => Supplied(result)
      /\ temporary # NoValue => Supplied(temporary)
  BY <1>1, AnswersAfter DEF Written, ValueIsSupplied, CellIsSupplied
<1>4. /\ result' \in {result, Written(a)}
      /\ temporary' \in {NoValue, temporary, Written(a)}
  BY DEF Respond, Outrank, Yield
<1>5. result' = NoValue =>
        result = NoValue /\ Written(a) = NoValue /\ temporary' = NoValue
  BY DEF Respond, Outrank, Yield, CellIsSupplied, Written
<1>6. Written(a) = NoValue => a.value = NoValue
  BY DEF Written
<1>7. result' = NoValue => \A i \in DOMAIN answers' : answers'[i].value = NoValue
  BY <1>1, <1>5, <1>6, AnswersAfter DEF ValueIsSupplied
<1> QED
  BY <1>3, <1>4, <1>5, <1>7 DEF ValueIsSupplied, CellIsSupplied

(* A new winner is either the answer just given, with its value adopted, or *)
(* the old one, with its value kept.                                        *)
LEMMA RespondWinner ==
  ASSUME IInv, NEW a \in Answer(phase), Respond(a)
  PROVE  WinnerKeepsValue'
<1> USE DEF IInv
<1>1. answers' = Append(answers, a)
  BY DEF Respond
<1>2. a.rank \in Ignored..Supercede /\ meta \in Ignored..Supercede
  BY DEF TypeOK, Answer, Rank, Ignored, Supercede, Override
<1>3. \A i \in DOMAIN answers : answers[i].rank \in Ignored..Supercede
  BY RanksAreRanks
<1>4. SUFFICES ASSUME NEW i \in DOMAIN answers', IsWinner(i)',
                      answers'[i].value # NoValue
               PROVE  result' = answers'[i].value
  BY DEF WinnerKeepsValue
<1>5. /\ \A j \in DOMAIN answers' : answers'[j].rank <= answers'[i].rank
      /\ \A j \in DOMAIN answers' : j < i => answers'[j].rank < answers'[i].rank
  BY <1>4 DEF IsWinner
<1>6. CASE i = Len(answers) + 1
  <2>1. answers'[i] = a /\ a.value = Written(a)
    BY <1>1, <1>4, <1>6, AnswersAfter DEF Written
  <2>2. \A j \in DOMAIN answers : answers[j].rank < a.rank
    BY <1>1, <1>5, <1>6, <2>1, AnswersAfter
  <2>3. CASE meta < a.rank
    BY <1>2, <1>4, <2>1, <2>3 DEF Respond, Outrank, Yield
  <2>4. CASE ~(meta < a.rank)
    <3>1. meta = Ignored /\ answers = <<>>
      BY <1>2, <1>3, <2>2, <2>4 DEF RankIsStrongest, Ignored, Supercede, TypeOK
    <3>2. result = NoValue
      BY <3>1 DEF ValueIsSupplied
    <3> QED
      BY <1>2, <1>4, <2>1, <2>4, <3>2 DEF Respond, Outrank, Yield
  <2> QED
    BY <2>3, <2>4
<1>7. CASE i # Len(answers) + 1
  <2>1. i \in DOMAIN answers /\ answers'[i] = answers[i]
    BY <1>1, <1>4, <1>7, AnswersAfter
  <2>2. IsWinner(i)
    BY <1>1, <1>5, <2>1, AnswersAfter DEF IsWinner
  <2>3. result = answers[i].value /\ result # NoValue
    BY <1>4, <2>1, <2>2 DEF WinnerKeepsValue
  <2>4. a.rank <= answers[i].rank /\ answers[i].rank <= meta
    BY <1>1, <1>5, <2>1, AnswersAfter DEF RankIsStrongest
  <2>5. ~(meta < a.rank)
    BY <1>2, <1>3, <2>1, <2>4 DEF Ignored, Supercede
  <2> QED
    BY <2>1, <2>3, <2>5 DEF Respond, Outrank, Yield
<1> QED
  BY <1>6, <1>7

LEMMA StepIInv == IInv /\ [Next]_vars => IInv'
<1> SUFFICES ASSUME IInv, [Next]_vars PROVE IInv'
  OBVIOUS
<1>1. CASE Skip \/ Throw
  BY <1>1, DispatchAssumption DEF IInv, TypeOK, RankIsStrongest, ValueIsSupplied,
     CellIsSupplied, WinnerKeepsValue, IsWinner, Skip, Throw, Visit
<1>2. CASE \E a \in Answer(phase) : Respond(a)
  BY <1>2, RespondTypeOK, RespondRank, RespondValue, RespondWinner DEF IInv
<1>3. CASE Return
  BY <1>3 DEF IInv, TypeOK, RankIsStrongest, ValueIsSupplied,
     CellIsSupplied, WinnerKeepsValue, IsWinner, Return
<1>4. CASE UNCHANGED vars
  BY <1>4 DEF IInv, TypeOK, RankIsStrongest, ValueIsSupplied,
     CellIsSupplied, WinnerKeepsValue, IsWinner, vars
<1> QED
  BY <1>1, <1>2, <1>3, <1>4 DEF Next

(* The inductive invariant holds in every reachable state.                  *)
THEOREM IInvHolds == Spec => []IInv
BY InitIInv, StepIInv, PTL DEF Spec

(* Every variable of the dispatch keeps its type.                           *)
THEOREM TypeCorrect == Spec => []TypeOK
BY IInvHolds, PTL DEF IInv

(* metamod is told the strongest rank answered, in any order of dispatch.   *)
THEOREM StrongestRank == Spec => []RankIsStrongest
BY IInvHolds, PTL DEF IInv

(* The value returned was supplied, and none is lost when one was supplied. *)
THEOREM SuppliedValue == Spec => []ValueIsSupplied
BY IInvHolds, PTL DEF IInv

(* The first answer of the strongest rank decides the value, if it has one. *)
THEOREM WinnersValue == Spec => []WinnerKeepsValue
BY IInvHolds, PTL DEF IInv
=============================================================================

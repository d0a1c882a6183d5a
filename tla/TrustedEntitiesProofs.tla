----------------------- MODULE TrustedEntitiesProofs -----------------------
(***************************************************************************)
(* Proofs about TrustedEntities, for any set of edicts, any bound, and     *)
(* either behaviour of the engine and of the other plugins.                *)
(***************************************************************************)
EXTENDS TrustedEntities, FiniteSetTheorems, SequenceTheorems, WellFoundedInduction, TLAPS

-----------------------------------------------------------------------------
(* What the list algorithms of Lists return, for lists of any length.       *)

(* A nonempty set of natural numbers has a least element.                   *)
LEMMA NatMin ==
  ASSUME NEW T, T \subseteq Nat, T # {}
  PROVE  \E m \in T : \A k \in T : m <= k
<1>1. \E x \in T : \A y \in T : ~ (<<y, x>> \in OpToRel(<, Nat))
  BY WFMin, NatLessThanWellFounded, Zenon
<1>2. PICK x \in T : \A y \in T : ~ (<<y, x>> \in OpToRel(<, Nat))
  BY <1>1
<1>3. \A y \in T : ~(y < x)
  BY <1>2 DEF OpToRel
<1> QED
  BY <1>3

(* The positions of a list of n elements.                                   *)
LEMMA Positions ==
  ASSUME NEW n \in Nat
  PROVE  IsFiniteSet(1..n) /\ Cardinality(1..n) = n
<1>1. 1 \in Int /\ n \in Int
  OBVIOUS
<1>2. IsFiniteSet(1..n) /\ Cardinality(1..n) = IF 1 > n THEN 0 ELSE n - 1 + 1
  BY <1>1, FS_Interval, Zenon
<1> QED
  BY <1>2

UpTo(K, m) == {k \in K : k <= m}

(* How many positions of K lie up to m, as m grows.                         *)
LEMMA CountSteps ==
  ASSUME NEW n \in Nat, NEW K \in SUBSET (1..n), NEW m \in Nat
  PROVE  /\ IsFiniteSet(K)
         /\ Cardinality(UpTo(K, m)) \in 0..Cardinality(K)
         /\ IsFiniteSet(UpTo(K, m))
         /\ UpTo(K, 0) = {}
         /\ UpTo(K, n) = K
         /\ IF m \in K
            THEN Cardinality(UpTo(K, m)) = Cardinality(UpTo(K, m - 1)) + 1
            ELSE Cardinality(UpTo(K, m)) = Cardinality(UpTo(K, m - 1))
<1>0. \A k \in K : k \in Int /\ 1 <= k /\ k <= n
  OBVIOUS
<1>1. IsFiniteSet(K)
  <2>1. IsFiniteSet(1..n)
    BY Positions
  <2> QED
    BY <2>1, FS_Subset
<1>2. UpTo(K, m) \in SUBSET K /\ UpTo(K, m - 1) \in SUBSET K
  BY DEF UpTo
<1>3. /\ IsFiniteSet(UpTo(K, m)) /\ IsFiniteSet(UpTo(K, m - 1))
      /\ Cardinality(UpTo(K, m)) <= Cardinality(K)
  BY <1>1, <1>2, FS_Subset
<1>4. Cardinality(UpTo(K, m)) \in 0..Cardinality(K)
  BY <1>1, <1>3, FS_CardinalityType
<1>9. \A k \in K : (k <= m <=> k <= m - 1 \/ k = m) /\ ~(m <= m - 1)
  BY <1>0
<1>5. m \in K => UpTo(K, m) = UpTo(K, m - 1) \cup {m} /\ m \notin UpTo(K, m - 1)
  BY <1>9, Zenon DEF UpTo
<1>6. m \in K => Cardinality(UpTo(K, m)) = Cardinality(UpTo(K, m - 1)) + 1
  BY <1>3, <1>5, FS_AddElement
<1>7. m \notin K => UpTo(K, m) = UpTo(K, m - 1)
  BY <1>9, Zenon DEF UpTo
<1>10. \A k \in K : ~(k <= 0) /\ k <= n
  BY <1>0
<1>8. UpTo(K, 0) = {} /\ UpTo(K, n) = K
  BY <1>10, Zenon DEF UpTo
<1> QED
  BY <1>1, <1>3, <1>4, <1>6, <1>7, <1>8

(* There is an i-th smallest position, and Nth finds it.                    *)
LEMMA NthIsIth ==
  ASSUME NEW n \in Nat, NEW K \in SUBSET (1..n), NEW i \in 1..Cardinality(K)
  PROVE  Nth(K, i) \in K /\ Cardinality(UpTo(K, Nth(K, i))) = i
<1>0. IsFiniteSet(K) /\ Cardinality(K) \in Nat
  BY CountSteps, FS_CardinalityType
<1> DEFINE T == {m \in 0..n : i <= Cardinality(UpTo(K, m))}
<1>1. T \subseteq Nat /\ n \in T
  BY <1>0, CountSteps
<1>2. PICK m \in T : \A k \in T : m <= k
  BY <1>1, NatMin
<1>3. m \in Nat /\ m <= n /\ i <= Cardinality(UpTo(K, m))
  BY <1>2
<1>4. m # 0
  <2>1. UpTo(K, 0) = {}
    BY CountSteps
  <2>2. Cardinality(UpTo(K, 0)) = 0
    BY <2>1, FS_EmptySet
  <2> QED
    BY <1>0, <1>3, <2>2
<1>5. m - 1 \in Nat /\ m - 1 \notin T
  BY <1>2, <1>3, <1>4
<1>6. Cardinality(UpTo(K, m - 1)) < i
  <2>1. Cardinality(UpTo(K, m - 1)) \in 0..Cardinality(K)
    BY <1>5, CountSteps
  <2> QED
    BY <1>0, <1>3, <1>5, <2>1
<1>7. m \in K /\ Cardinality(UpTo(K, m)) = i
  <2>1. /\ Cardinality(UpTo(K, m - 1)) \in 0..Cardinality(K)
        /\ Cardinality(UpTo(K, m)) \in 0..Cardinality(K)
    <3>1. \A h \in Nat : Cardinality(UpTo(K, h)) \in 0..Cardinality(K)
      BY CountSteps
    <3> QED
      BY <1>3, <1>5, <3>1
  <2>2. IF m \in K
        THEN Cardinality(UpTo(K, m)) = Cardinality(UpTo(K, m - 1)) + 1
        ELSE Cardinality(UpTo(K, m)) = Cardinality(UpTo(K, m - 1))
    BY <1>3, CountSteps, Zenon
  <2> HIDE DEF T
  <2> QED
    BY <1>0, <1>3, <1>6, <2>1, <2>2
<1>8. \E j \in K : Cardinality({k \in K : k <= j}) = i
  BY <1>7 DEF UpTo
<1> QED
  BY <1>8 DEF Nth, UpTo

(* Every position of K is the i-th smallest for one i.                      *)
LEMMA NthReaches ==
  ASSUME NEW n \in Nat, NEW K \in SUBSET (1..n), NEW j \in K
  PROVE  \E i \in 1..Cardinality(K) : Nth(K, i) = j
<1> DEFINE i == Cardinality(UpTo(K, j))
<1>0. \A k \in K : k \in Nat
  OBVIOUS
<1>1. j \in Nat /\ IsFiniteSet(K) /\ IsFiniteSet(UpTo(K, j))
  BY <1>0, CountSteps
<1>2. i \in 0..Cardinality(K) /\ Cardinality(K) \in Nat
  BY <1>1, CountSteps, FS_CardinalityType
<1>3. j \in UpTo(K, j)
  BY <1>1 DEF UpTo
<1>4. i # 0
  BY <1>1, <1>3, FS_EmptySet
<1>5. i \in 1..Cardinality(K)
  BY <1>2, <1>4
<1>6. Nth(K, i) \in K /\ Cardinality(UpTo(K, Nth(K, i))) = i
  BY <1>5, NthIsIth
<1>7. Nth(K, i) = j
  <2> DEFINE h == Nth(K, i)
  <2>1. h \in K /\ h \in Nat
    BY <1>0, <1>6
  <2> HIDE DEF h
  <2>2. CASE h < j
    <3>1. ~(j <= h) /\ \A k \in K : k <= h => k <= j
      BY <1>0, <1>1, <2>1, <2>2
    <3>2. UpTo(K, h) \in SUBSET UpTo(K, j) /\ j \notin UpTo(K, h)
      BY <3>1, Zenon DEF UpTo
    <3>3. Cardinality(UpTo(K, h)) # Cardinality(UpTo(K, j))
      BY <1>1, <1>3, <3>2, FS_Subset, Zenon
    <3> QED
      BY <1>6, <3>3 DEF h
  <2>3. CASE j < h
    <3>1. ~(h <= j) /\ h <= h /\ \A k \in K : k <= j => k <= h
      BY <1>0, <1>1, <2>1, <2>3
    <3>2. UpTo(K, j) \in SUBSET UpTo(K, h) /\ h \notin UpTo(K, j) /\ h \in UpTo(K, h)
      BY <2>1, <3>1, Zenon DEF UpTo
    <3>3. IsFiniteSet(UpTo(K, h))
      BY <2>1, CountSteps, Zenon
    <3>4. Cardinality(UpTo(K, h)) # Cardinality(UpTo(K, j))
      BY <3>2, <3>3, FS_Subset, Zenon
    <3> QED
      BY <1>6, <3>4 DEF h
  <2>4. CASE h = j
    BY <2>4 DEF h
  <2> QED
    BY <1>1, <2>1, <2>2, <2>3, <2>4
<1> QED
  BY <1>5, <1>7

(* Keep returns a list of the elements at K, each position once.            *)
LEMMA KeepProperties ==
  ASSUME NEW S, NEW s \in Seq(S), NEW K \in SUBSET (DOMAIN s)
  PROVE  /\ Keep(s, K) \in Seq(S)
         /\ Range(Keep(s, K)) = {s[k] : k \in K}
         /\ IsInjective(s) => IsInjective(Keep(s, K))
<1>1. Len(s) \in Nat /\ K \in SUBSET (1..Len(s)) /\ \A k \in K : s[k] \in S
  OBVIOUS
<1>2. Cardinality(K) \in Nat
  BY <1>1, CountSteps, FS_CardinalityType
<1>3. \A i \in 1..Cardinality(K) :
        Nth(K, i) \in K /\ Cardinality(UpTo(K, Nth(K, i))) = i
  BY <1>1, NthIsIth
<1>4. Keep(s, K) \in Seq(S) /\ DOMAIN Keep(s, K) = 1..Cardinality(K)
  BY <1>1, <1>2, <1>3 DEF Keep
<1>5. \A j \in K : \E i \in 1..Cardinality(K) : Nth(K, i) = j
  BY <1>1, NthReaches
<1>6. Range(Keep(s, K)) = {s[k] : k \in K}
  BY <1>3, <1>5 DEF Keep, Range
<1>7. ASSUME IsInjective(s), NEW a \in 1..Cardinality(K), NEW b \in 1..Cardinality(K),
             Keep(s, K)[a] = Keep(s, K)[b]
      PROVE  a = b
  <2>1. s[Nth(K, a)] = s[Nth(K, b)]
    BY <1>7 DEF Keep
  <2>2. Nth(K, a) = Nth(K, b)
    BY <1>1, <1>3, <1>7, <2>1 DEF IsInjective
  <2> QED
    BY <1>3, <2>2
<1> QED
  BY <1>4, <1>6, <1>7 DEF IsInjective

(* Shift loses no element at K, brings in none, and keeps the length.       *)
LEMMA ShiftProperties ==
  ASSUME NEW S, NEW s \in Seq(S), NEW K \in SUBSET (DOMAIN s)
  PROVE  /\ Shift(s, K) \in Seq(S)
         /\ Len(Shift(s, K)) = Len(s)
         /\ {s[k] : k \in K} \subseteq Range(Shift(s, K))
         /\ Range(Shift(s, K)) \subseteq Range(s)
<1>1. Len(s) \in Nat /\ K \in SUBSET (1..Len(s)) /\ DOMAIN s = 1..Len(s)
  OBVIOUS
<1>2. Cardinality(K) \in Nat /\ Cardinality(K) <= Len(s)
  <2>1. IsFiniteSet(1..Len(s)) /\ Cardinality(1..Len(s)) = Len(s)
    BY <1>1, Positions
  <2>2. IsFiniteSet(K) /\ Cardinality(K) <= Cardinality(1..Len(s))
    BY <1>1, <2>1, FS_Subset, Zenon
  <2> QED
    BY <1>1, <2>1, <2>2, FS_CardinalityType
<1>3. \A i \in 1..Cardinality(K) : Nth(K, i) \in K
  BY <1>1, NthIsIth
<1>4. \A i \in 1..Len(s) : Shift(s, K)[i] \in Range(s)
  BY <1>1, <1>3 DEF Shift, Range
<1>5. Range(s) \subseteq S
  BY RangeOfSeq
<1>6. Shift(s, K) \in Seq(S) /\ DOMAIN Shift(s, K) = 1..Len(s)
  BY <1>1, <1>4, <1>5 DEF Shift
<1>7. ASSUME NEW k \in K
      PROVE  s[k] \in Range(Shift(s, K))
  <2>1. PICK i \in 1..Cardinality(K) : Nth(K, i) = k
    BY <1>1, NthReaches
  <2>2. i \in 1..Len(s) /\ Shift(s, K)[i] = s[k]
    BY <1>2, <2>1 DEF Shift
  <2> QED
    BY <1>6, <2>2 DEF Range
<1>8. Len(Shift(s, K)) = Len(s)
  BY <1>1, <1>6
<1> QED
  BY <1>4, <1>6, <1>7, <1>8 DEF Range

(* The list announced by std::remove_if's return value is part of the list. *)
LEMMA RestProperties ==
  ASSUME NEW S, NEW s \in Seq(S), NEW K \in SUBSET (DOMAIN s)
  PROVE  /\ Rest(s, K) \in Seq(S)
         /\ Range(Rest(s, K)) \subseteq Range(s)
         /\ K = DOMAIN s => Rest(s, K) = <<>>
<1>1. Len(s) \in Nat /\ K \in SUBSET (1..Len(s)) /\ DOMAIN s = 1..Len(s)
  OBVIOUS
<1>2. Cardinality(K) \in Nat
  BY <1>1, CountSteps, FS_CardinalityType
<1>3. \A i \in (Cardinality(K) + 1)..Len(s) : s[i] \in Range(s)
  BY <1>1, <1>2 DEF Range
<1>4. Rest(s, K) \in Seq(Range(s))
  BY <1>1, <1>2, <1>3, SubSeqProperties DEF Rest
<1>5. Range(s) \subseteq S /\ Range(Rest(s, K)) \subseteq Range(s)
  BY <1>4, RangeOfSeq
<1>6. K = DOMAIN s => Rest(s, K) = <<>>
  <2>1. Cardinality(1..Len(s)) = Len(s)
    BY <1>1, Positions
  <2> QED
    BY <1>1, <2>1, SubSeqEmpty DEF Rest
<1> QED
  BY <1>4, <1>5, <1>6, SeqMonotonic

-----------------------------------------------------------------------------

(* The inductive invariant. A frame keeps `view' and `entered' together     *)
(* only because nothing trusted is free: it announces no exit then. Of the  *)
(* edicts that wait nothing is known; the frame itself sorts them.          *)
IInv ==
  /\ TypeOK
  /\ QueueDistinct
  /\ NothingTrustedWhenIdle
  /\ TrustedInUse
  /\ ViewIsState

-----------------------------------------------------------------------------
(* The operators of the component.                                          *)

(* Queueing adds the edict to those that wait, once.                        *)
LEMMA QueuedProperties ==
  ASSUME TypeOK, QueueDistinct, NEW e \in Entity \cup {NoEntity}
  PROVE  /\ Queued(e) \in Seq(Entity)
         /\ IsInjective(Queued(e))
         /\ Range(Queued(e)) = Range(queue) \cup ({e} \ {NoEntity})
<1>1. queue \in Seq(Entity) /\ IsInjective(queue)
  BY DEF TypeOK, QueueDistinct
<1>2. CASE e = NoEntity \/ e \in Range(queue)
  BY <1>1, <1>2 DEF Queued
<1>3. CASE e \in Entity /\ e # NoEntity /\ e \notin Range(queue)
  <2>1. Queued(e) = Append(queue, e)
    BY <1>3 DEF Queued
  <2>2. /\ Append(queue, e) \in Seq(Entity)
        /\ DOMAIN Append(queue, e) = 1..(Len(queue) + 1)
        /\ \A i \in 1..Len(queue) : Append(queue, e)[i] = queue[i]
        /\ Append(queue, e)[Len(queue) + 1] = e
        /\ Len(queue) \in Nat
        /\ DOMAIN queue = 1..Len(queue)
    BY <1>1, <1>3
  <2>3. \A i \in DOMAIN Append(queue, e) : i \in DOMAIN queue \/ i = Len(queue) + 1
    BY <2>2
  <2>4. \A i \in DOMAIN queue : i # Len(queue) + 1 /\ i \in DOMAIN Append(queue, e)
    BY <2>2
  <2>5. Len(queue) + 1 \in DOMAIN Append(queue, e)
    BY <2>2
  <2>6. IsInjective(Append(queue, e))
    BY <1>1, <1>3, <2>2, <2>3 DEF IsInjective, Range
  <2>7. Range(Append(queue, e)) = Range(queue) \cup {e}
    BY <2>2, <2>3, <2>4, <2>5 DEF Range
  <2> QED
    BY <1>3, <2>1, <2>2, <2>6, <2>7
<1> QED
  BY <1>2, <1>3

(* list::remove takes an edict out of a list, and nothing else.             *)
LEMMA OthersProperties ==
  ASSUME NEW s \in Seq(Entity), NEW e
  PROVE  /\ Keep(s, Others(s, e)) \in Seq(Entity)
         /\ Range(Keep(s, Others(s, e))) = Range(s) \ {e}
         /\ IsInjective(s) => IsInjective(Keep(s, Others(s, e)))
<1>1. Others(s, e) \in SUBSET (DOMAIN s)
  BY DEF Others
<1>2. {s[k] : k \in Others(s, e)} = Range(s) \ {e}
  BY DEF Others, Range
<1> QED
  BY <1>1, <1>2, KeepProperties

(* The edicts that a frame admits are those waiting that are in use.        *)
LEMMA AdmittedProperties ==
  ASSUME TypeOK
  PROVE  /\ Admitted \in Seq(Entity)
         /\ Range(Admitted) = Range(queue) \ free
<1>1. queue \in Seq(Entity) /\ InUse(queue) \in SUBSET (DOMAIN queue)
  BY DEF TypeOK, InUse
<1>2. {queue[k] : k \in InUse(queue)} = Range(queue) \ free
  BY DEF InUse, Range
<1> QED
  BY <1>1, <1>2, KeepProperties DEF Admitted

(* The list that a frame leaves has lost no edict in use; without a freed   *)
(* edict in it, none is announced as gone.                                  *)
LEMMA StayProperties ==
  ASSUME TypeOK
  PROVE  /\ Stay \in Seq(Entity)
         /\ Range(entered) \ free \subseteq Range(Stay)
         /\ Range(Stay) \subseteq Range(entered)
         /\ Range(entered) \cap free = {} => Range(Gone) = {}
<1>1. entered \in Seq(Entity) /\ InUse(entered) \in SUBSET (DOMAIN entered)
  BY DEF TypeOK, InUse
<1>2. {entered[k] : k \in InUse(entered)} = Range(entered) \ free
  BY DEF InUse, Range
<1>3. Range(entered) \cap free = {} => InUse(entered) = DOMAIN entered
  BY DEF InUse, Range
<1>4. Range(entered) \cap free = {} => Gone = <<>>
  BY <1>1, <1>3, RestProperties DEF Gone
<1>5. Range(<<>>) = {}
  BY DEF Range
<1> QED
  BY <1>1, <1>2, <1>4, <1>5, ShiftProperties DEF Stay

(* What a frame leaves in state().                                          *)
LEMMA FrameProperties ==
  ASSUME TypeOK, OnFrame
  PROVE  /\ entered' \in Seq(Entity)
         /\ Range(entered') = Range(Stay) \cup Range(Admitted)
BY AdmittedProperties, StayProperties, ConcatProperties, RangeConcatenation DEF OnFrame

-----------------------------------------------------------------------------
(* The inductive invariant, action by action.                               *)

LEMMA InitIInv == Init => IInv
<1> SUFFICES ASSUME Init PROVE IInv
  OBVIOUS
<1>1. queue \in Seq(Entity) /\ entered \in Seq(Entity)
  BY DEF Init
<1>2. IsInjective(queue) /\ Range(queue) = {} /\ Range(entered) = {}
  BY DEF Init, IsInjective, Range
<1> QED
  BY <1>1, <1>2 DEF Init, IInv, TypeOK, QueueDistinct, NothingTrustedWhenIdle,
     TrustedInUse, ViewIsState

(* The hooks that only queue an edict, in use after them or not.            *)
LEMMA QueueingIInv ==
  ASSUME IInv, NEW e \in Entity \cup {NoEntity}, queue' = Queued(e),
         free' \subseteq free, UNCHANGED <<state, entered, view>>
  PROVE  IInv'
<1>1. /\ queue' \in Seq(Entity) /\ IsInjective(queue')
      /\ Range(queue') = Range(queue) \cup ({e} \ {NoEntity})
  BY QueuedProperties DEF IInv
<1>2. TypeOK'
  BY <1>1 DEF IInv, TypeOK
<1>3. TrustedInUse'
  BY <1>1 DEF IInv, TrustedInUse
<1> QED
  BY <1>1, <1>2, <1>3 DEF IInv, QueueDistinct, NothingTrustedWhenIdle, ViewIsState

LEMMA SpawnIInv == IInv /\ OnSpawn => IInv'
BY QueueingIInv DEF OnSpawn, IInv, TypeOK

LEMMA CreateIInv == IInv /\ OnCreateEntity => IInv'
<1> SUFFICES ASSUME IInv, OnCreateEntity PROVE IInv'
  OBVIOUS
<1>1. PICK original \in free \cup {NoEntity, Unset} :
        \E override \in Entity \cup {NoEntity, Unset} :
          /\ queue' = Queued(Created(override, original))
          /\ free' = free \ {original}
          /\ UNCHANGED <<state, entered, view>>
  BY DEF OnCreateEntity
<1>2. PICK override \in Entity \cup {NoEntity, Unset} :
        queue' = Queued(Created(override, original))
  BY <1>1
<1> DEFINE e == Created(override, original)
<1>3. e \in Entity \cup {NoEntity}
  BY <1>1, EntityAssumption DEF Created, IInv, TypeOK
<1> HIDE DEF e
<1>4. queue' = Queued(e)
  BY <1>2 DEF e
<1> QED
  BY <1>1, <1>3, <1>4, QueueingIInv

LEMMA CreateNamedIInv == IInv /\ OnCreateNamedEntity => IInv'
<1> SUFFICES ASSUME IInv, OnCreateNamedEntity PROVE IInv'
  OBVIOUS
<1>1. PICK override \in Entity \cup {NoEntity, Unset},
           original \in free \cup {NoEntity} :
        /\ queue' = Queued(Created(override, Unset))
        /\ free' = free \ {original}
        /\ UNCHANGED <<state, entered, view>>
  BY DEF OnCreateNamedEntity
<1> DEFINE e == Created(override, Unset)
<1>2. e \in Entity \cup {NoEntity}
  BY <1>1, EntityAssumption DEF Created, IInv, TypeOK
<1> HIDE DEF e
<1>3. queue' = Queued(e)
  BY <1>1 DEF e
<1> QED
  BY <1>1, <1>2, <1>3, QueueingIInv

LEMMA RemoveIInv == IInv /\ OnRemove => IInv'
<1> SUFFICES ASSUME IInv, NEW e \in Entity, Remove(e) PROVE IInv'
  BY DEF OnRemove
<1>1. queue \in Seq(Entity) /\ entered \in Seq(Entity)
  BY DEF IInv, TypeOK
<1>2. /\ queue' \in Seq(Entity) /\ entered' \in Seq(Entity)
      /\ Range(queue') = Range(queue) \ {e}
      /\ Range(entered') = Range(entered) \ {e}
      /\ IsInjective(queue')
  BY <1>1, OthersProperties DEF Remove, IInv, QueueDistinct
<1>3. free' \in {free, free \cup {e}} /\ state' = state
  BY DEF Remove
<1>4. TypeOK'
  BY <1>2, <1>3 DEF IInv, TypeOK, Remove
<1>5. TrustedInUse'
  BY <1>2, <1>3 DEF IInv, TrustedInUse
<1>6. ViewIsState'
  BY <1>2 DEF IInv, ViewIsState, Remove
<1>7. entered = <<>> => entered' = <<>>
  <2>1. entered = <<>> => Range(entered') = {}
    BY <1>2 DEF Range
  <2>2. Range(entered') = {} => entered' = <<>>
    BY <1>2 DEF Range
  <2> QED
    BY <2>1, <2>2
<1> QED
  BY <1>2, <1>3, <1>4, <1>5, <1>6, <1>7 DEF IInv, QueueDistinct, NothingTrustedWhenIdle

LEMMA FrameIInv == IInv /\ OnFrame => IInv'
<1> SUFFICES ASSUME IInv, OnFrame PROVE IInv'
  OBVIOUS
<1> USE DEF IInv
<1>1. /\ entered' \in Seq(Entity)
      /\ Range(entered') = Range(Stay) \cup Range(Admitted)
  BY FrameProperties
<1>2. /\ Range(Admitted) = Range(queue) \ free
      /\ Range(entered) \ free \subseteq Range(Stay)
      /\ Range(Stay) \subseteq Range(entered)
      /\ Range(entered) \cap free = {} => Range(Gone) = {}
  BY AdmittedProperties, StayProperties
<1>3. queue' \in Seq(Entity) /\ IsInjective(queue') /\ Range(queue') = {}
  BY DEF OnFrame, IsInjective, Range
<1>4. Range(queue) \subseteq Entity
  BY RangeOfSeq DEF TypeOK
<1>5. TypeOK'
  BY <1>1, <1>2, <1>3, <1>4 DEF TypeOK, OnFrame
<1>6. TrustedInUse'
  BY <1>1, <1>2, <1>3 DEF TrustedInUse, OnFrame
<1>7. ViewIsState'
  BY <1>1, <1>2 DEF ViewIsState, TrustedInUse, OnFrame
<1> QED
  BY <1>3, <1>5, <1>6, <1>7 DEF QueueDistinct, NothingTrustedWhenIdle, OnFrame

LEMMA ShutdownIInv == IInv /\ OnShutdown => IInv'
<1> SUFFICES ASSUME IInv, OnShutdown PROVE IInv'
  OBVIOUS
<1>1. queue' \in Seq(Entity) /\ entered' \in Seq(Entity)
  BY DEF OnShutdown
<1>2. IsInjective(queue') /\ Range(queue') = {} /\ Range(entered') = {}
  BY DEF OnShutdown, IsInjective, Range
<1> QED
  BY <1>1, <1>2 DEF OnShutdown, IInv, TypeOK, QueueDistinct, NothingTrustedWhenIdle,
     TrustedInUse, ViewIsState

LEMMA StepIInv == IInv /\ [Next]_vars => IInv'
<1> SUFFICES ASSUME IInv, [Next]_vars PROVE IInv'
  OBVIOUS
<1>1. CASE OnInit
  BY <1>1 DEF OnInit, IInv, TypeOK, QueueDistinct, NothingTrustedWhenIdle,
     TrustedInUse, ViewIsState
<1>2. CASE SilentFree
  BY <1>2 DEF SilentFree, IInv, TypeOK, QueueDistinct, NothingTrustedWhenIdle,
     TrustedInUse, ViewIsState
<1>3. CASE UNCHANGED vars
  BY <1>3 DEF vars, IInv, TypeOK, QueueDistinct, NothingTrustedWhenIdle,
     TrustedInUse, ViewIsState
<1> QED
  BY <1>1, <1>2, <1>3, SpawnIInv, CreateIInv, CreateNamedIInv, RemoveIInv,
     FrameIInv, ShutdownIInv DEF Next

(* The inductive invariant holds in every reachable state.                  *)
THEOREM IInvHolds == Spec => []IInv
BY InitIInv, StepIInv, PTL DEF Spec

-----------------------------------------------------------------------------
(* The lists hold edicts only, whatever std::remove_if leaves behind.       *)
THEOREM TypeCorrect == Spec => []TypeOK
BY IInvHolds, PTL DEF IInv

(* No edict waits twice.                                                    *)
THEOREM QueueIsDistinct == Spec => []QueueDistinct
BY IInvHolds, PTL DEF IInv

(* No edict of an old game is trusted before the next one starts.           *)
THEOREM IdleTrustsNothing == Spec => []NothingTrustedWhenIdle
BY IInvHolds, PTL DEF IInv

(* With hooked frees only, what is trusted is in use, whatever waits.       *)
THEOREM TrustedAreInUse == Spec => []TrustedInUse
BY IInvHolds, PTL DEF IInv

(* With hooked frees only, the subscribers agree with state().              *)
THEOREM ViewFollowsState == Spec => []ViewIsState
BY IInvHolds, PTL DEF IInv

(* No step announces the entry of a freed edict, hooked or not.             *)
THEOREM OnlyInUseEnters == Spec => EntersInUse
<1> DEFINE A == \A e \in view' \ view : e \notin free
<1>1. IInv /\ [Next]_vars => [A]_vars
  <2> SUFFICES ASSUME IInv, Next PROVE A
    OBVIOUS
  <2>1. CASE OnFrame
    <3>1. Range(Admitted) = Range(queue) \ free
      BY AdmittedProperties DEF IInv
    <3> QED
      BY <2>1, <3>1 DEF OnFrame
  <2>2. CASE OnRemove
    BY <2>2 DEF OnRemove, Remove
  <2>3. CASE OnShutdown
    BY <2>3 DEF OnShutdown
  <2> QED
    BY <2>1, <2>2, <2>3 DEF Next, OnInit, OnSpawn, OnCreateEntity,
       OnCreateNamedEntity, SilentFree
<1> QED
  BY <1>1, IInvHolds, PTL DEF Spec, EntersInUse

(* A frame loses no edict in use, however many freed ones it shifts over.   *)
THEOREM FrameLosesNone == Spec => FrameTrustsInUse
<1> DEFINE A == OnFrame =>
      (Range(entered) \cup Range(queue)) \ free \subseteq Range(entered')
<1>1. IInv => A
  BY AdmittedProperties, StayProperties, FrameProperties DEF IInv
<1> QED
  BY <1>1, IInvHolds, PTL DEF Spec, FrameTrustsInUse

-----------------------------------------------------------------------------
(* The abstract registry, step by step, where all frees are hooked.         *)

LEMMA ArriveRefines ==
  ASSUME IInv, NEW e \in Entity \cup {NoEntity}, queue' = Queued(e),
         free' \subseteq free, UNCHANGED <<state, entered, view>>
  PROVE  Registry!Arrive
<1> DEFINE born == free \ free'
           come == {e} \ {NoEntity}
<1>1. Range(queue') = Range(queue) \cup come
  BY QueuedProperties DEF IInv
<1>2. born \in SUBSET (Entity \ (Entity \ free))
  BY DEF IInv, TypeOK
<1>3. come \in SUBSET Entity
  OBVIOUS
<1>4. Entity \ free' = (Entity \ free) \cup born
  BY DEF IInv, TypeOK
<1> HIDE DEF born, come
<1> QED
  BY <1>1, <1>2, <1>3, <1>4 DEF Registry!Arrive

LEMMA CreateRefines == IInv /\ (OnSpawn \/ OnCreateEntity \/ OnCreateNamedEntity) => Registry!Arrive
<1> SUFFICES ASSUME IInv, OnSpawn \/ OnCreateEntity \/ OnCreateNamedEntity
             PROVE Registry!Arrive
  OBVIOUS
<1> DEFINE Arrival(e) ==
      /\ queue' = Queued(e)
      /\ free' \subseteq free
      /\ UNCHANGED <<state, entered, view>>
<1>1. \E e \in Entity \cup {NoEntity} : Arrival(e)
  <2>1. CASE OnSpawn
    BY <2>1 DEF OnSpawn
  <2>2. CASE OnCreateEntity
    <3>1. PICK original \in free \cup {NoEntity, Unset} :
            \E override \in Entity \cup {NoEntity, Unset} :
              /\ queue' = Queued(Created(override, original))
              /\ free' = free \ {original}
              /\ UNCHANGED <<state, entered, view>>
      BY <2>2 DEF OnCreateEntity
    <3>2. PICK override \in Entity \cup {NoEntity, Unset} :
            queue' = Queued(Created(override, original))
      BY <3>1
    <3>3. Created(override, original) \in Entity \cup {NoEntity}
      BY <3>1, EntityAssumption DEF Created, IInv, TypeOK
    <3> QED
      BY <3>1, <3>2, <3>3
  <2>3. CASE OnCreateNamedEntity
    <3>1. PICK override \in Entity \cup {NoEntity, Unset},
               original \in free \cup {NoEntity} :
            /\ queue' = Queued(Created(override, Unset))
            /\ free' = free \ {original}
            /\ UNCHANGED <<state, entered, view>>
      BY <2>3 DEF OnCreateNamedEntity
    <3>2. Created(override, Unset) \in Entity \cup {NoEntity}
      BY <3>1, EntityAssumption DEF Created, IInv, TypeOK
    <3> QED
      BY <3>1, <3>2
  <2> QED
    BY <2>1, <2>2, <2>3
<1> QED
  BY <1>1, ArriveRefines

LEMMA LeaveRefines == ~SilentFrees /\ IInv /\ OnRemove => Registry!Leave
<1> SUFFICES ASSUME ~SilentFrees, IInv, NEW e \in Entity, Remove(e)
             PROVE Registry!Leave
  BY DEF OnRemove
<1>1. queue \in Seq(Entity) /\ entered \in Seq(Entity)
  BY DEF IInv, TypeOK
<1>2. Range(queue') = Range(queue) \ {e}
  BY <1>1, OthersProperties DEF Remove
<1>3. view' = view \ {e}
  BY DEF Remove, IInv, ViewIsState
<1>4. Entity \ free' \in {Entity \ free, (Entity \ free) \ {e}}
  BY DEF Remove
<1>5. state' = state
  BY DEF Remove
<1> QED
  BY <1>2, <1>3, <1>4, <1>5 DEF Registry!Leave

LEMMA FrameRefines == ~SilentFrees /\ IInv /\ OnFrame => Registry!Frame
<1> SUFFICES ASSUME ~SilentFrees, IInv, OnFrame PROVE Registry!Frame
  OBVIOUS
<1>1. Range(Admitted) = Range(queue) \ free /\ Range(Gone) = {}
  BY AdmittedProperties, StayProperties DEF IInv, TrustedInUse
<1>2. Range(queue') = {}
  BY DEF OnFrame, Range
<1>3. state /\ state' = state /\ free' = free /\ view' = view \cup (Range(queue) \ free)
  BY <1>1 DEF OnFrame
<1>4. Range(queue) \ free = Range(queue) \cap (Entity \ free)
  <2>1. Range(queue) \subseteq Entity
    BY RangeOfSeq DEF IInv, TypeOK
  <2> QED
    BY <2>1
<1> QED
  BY <1>2, <1>3, <1>4 DEF Registry!Frame

LEMMA CloseRefines == ~SilentFrees /\ IInv /\ OnShutdown => Registry!Close
<1> SUFFICES ASSUME ~SilentFrees, IInv, OnShutdown PROVE Registry!Close
  OBVIOUS
<1>1. Range(queue') = {} /\ view' = {}
  BY DEF OnShutdown, Range, IInv, ViewIsState
<1>2. Entity \ free' \in {Entity \ free, {}} /\ state' = FALSE
  BY DEF OnShutdown
<1> QED
  BY <1>1, <1>2 DEF Registry!Close

(* Where all frees are hooked, every step of the registry is a step of the  *)
(* abstract one or a stutter of it: the safety part of ImplementsRegistry.  *)
THEOREM RefinesRegistry ==
  ASSUME ~SilentFrees
  PROVE  Spec => Registry!Spec
<1>1. Init => Registry!Init
  <2> SUFFICES ASSUME Init PROVE Registry!Init
    OBVIOUS
  <2>1. Range(queue) = {} /\ Entity \ free = {} /\ view = {} /\ state = FALSE
    BY DEF Init, Range
  <2> QED
    BY <2>1 DEF Registry!Init
<1>2. IInv /\ [Next]_vars => [Registry!Next]_(Registry!vars)
  <2> SUFFICES ASSUME IInv, [Next]_vars PROVE [Registry!Next]_(Registry!vars)
    OBVIOUS
  <2>1. CASE OnInit
    BY <2>1 DEF OnInit, Registry!Next, Registry!Open
  <2>2. CASE SilentFree
    BY <2>2 DEF SilentFree
  <2>3. CASE UNCHANGED vars
    BY <2>3 DEF vars, Registry!vars
  <2> QED
    BY <2>1, <2>2, <2>3, CreateRefines, LeaveRefines, FrameRefines, CloseRefines
       DEF Next, Registry!Next
<1> QED
  BY <1>1, <1>2, IInvHolds, PTL DEF Spec, Registry!Spec
=============================================================================

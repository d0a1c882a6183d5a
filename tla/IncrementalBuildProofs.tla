----------------------- MODULE IncrementalBuildProofs -----------------------
(* The promises of IncrementalBuild hold for all names and values.          *)
EXTENDS IncrementalBuild, TLAPS

\* What a sync that is cut off leaves, other than while it writes: the names
\* that the last build and auto.conf disagree about have been touched.  A sync
\* that is over, or writing, has touched all changes.
ChangesAreKept ==
    ~cut[2] => /\ stage # "fill" => Differs(built, remembered) \subseteq touched
               /\ stage = "fill" => Differs(built, config) \subseteq touched

\* After a build that nothing has cut off, auto.conf remembers what the build was
\* told, until a sync that touches only what differs from it writes anew.
NothingElseTouched ==
    ~cut[1] => /\ stage = "idle" => remembered = built /\ touched = {}
               /\ stage = "compare" => remembered = built
               /\ touched \subseteq Differs(built, config)

DoneRemembers == stage = "done" => remembered = config

IInv == TypeOK /\ ChangesAreKept /\ NothingElseTouched /\ DoneRemembers

----------------------------------------------------------------------------
\* Differences that are bridged by a third configuration.
LEMMA DiffersThrough ==
    ASSUME NEW a, NEW b, NEW c PROVE Differs(a, c) \subseteq Differs(a, b) \cup Differs(b, c)
BY DEF Differs

LEMMA InitInvariant == Init => IInv
<1> SUFFICES ASSUME Init PROVE IInv OBVIOUS
<1>1. TypeOK
  <2>1. cut \in BOOLEAN \X BOOLEAN BY DEF Init
  <2>2. QED BY <2>1 DEF Init, TypeOK
<1>2. Differs(built, remembered) = {} BY DEF Init, Differs
<1>3. ChangesAreKept BY <1>2 DEF Init, ChangesAreKept
<1>4. NothingElseTouched BY DEF Init, NothingElseTouched
<1>5. QED BY <1>1, <1>3, <1>4 DEF Init, IInv, DoneRemembers

LEMMA TypeStep == TypeOK /\ [Next]_vars => TypeOK'
<1> SUFFICES ASSUME TypeOK, [Next]_vars PROVE TypeOK' OBVIOUS
<1> USE DEF TypeOK
<1>1. CASE Start BY <1>1 DEF Start, Differs
<1>2. CASE Touch BY <1>2 DEF Touch, Differs
<1>3. CASE Record BY <1>3 DEF Record, Told
<1>4. CASE Fill BY <1>4 DEF Fill
<1>5. CASE Build BY <1>5 DEF Build
<1>6. CASE CutOff
  <2>1. cut' \in BOOLEAN \X BOOLEAN BY <1>6 DEF CutOff
  <2>2. QED BY <1>6, <2>1 DEF CutOff
<1>7. CASE UNCHANGED vars BY <1>7 DEF vars
<1>8. QED BY <1>1, <1>2, <1>3, <1>4, <1>5, <1>6, <1>7 DEF Next

\* What was touched before a cut stays so until the build comes.
LEMMA ChangesStep == IInv /\ [Next]_vars => ChangesAreKept'
<1> SUFFICES ASSUME IInv, [Next]_vars, ~cut[2]' PROVE
      /\ stage' # "fill" => Differs(built, remembered)' \subseteq touched'
      /\ stage' = "fill" => Differs(built, config)' \subseteq touched'
    BY DEF ChangesAreKept
<1> USE DEF IInv, ChangesAreKept
<1>1. CASE Start BY <1>1 DEF Start, Differs
<1>2. CASE Touch BY <1>2 DEF Touch, Differs
<1>3. CASE Record
  <2>1. Differs(built, remembered) \subseteq touched /\ Differs(remembered, config) \subseteq touched
    BY <1>3 DEF Record
  <2>2. Differs(built, config) \subseteq touched BY <2>1, DiffersThrough
  <2>3. QED BY <1>3, <2>1, <2>2 DEF Record, Differs
<1>4. CASE Fill BY <1>4 DEF Fill, Differs
<1>5. CASE Build BY <1>5 DEF Build, Differs, DoneRemembers
<1>6. CASE CutOff
  <2>1. stage # "fill" /\ ~cut[2] BY <1>6 DEF CutOff
  <2>2. QED BY <1>6, <2>1 DEF CutOff, Differs
<1>7. CASE UNCHANGED vars BY <1>7 DEF vars, Differs
<1>8. QED BY <1>1, <1>2, <1>3, <1>4, <1>5, <1>6, <1>7 DEF Next

\* As long as nothing is cut off, syncs and builds alternate.
LEMMA NothingElseStep == IInv /\ [Next]_vars => NothingElseTouched'
<1> SUFFICES ASSUME IInv, [Next]_vars, ~cut[1]' PROVE
      /\ stage' = "idle" => remembered' = built' /\ touched' = {}
      /\ stage' = "compare" => remembered' = built'
      /\ touched' \subseteq Differs(built, config)'
    BY DEF NothingElseTouched
<1> USE DEF IInv, NothingElseTouched
<1>1. CASE Start BY <1>1 DEF Start, Differs
<1>2. CASE Touch BY <1>2 DEF Touch, Differs
<1>3. CASE Record BY <1>3 DEF Record, Differs
<1>4. CASE Fill BY <1>4 DEF Fill, Differs
<1>5. CASE Build BY <1>5 DEF Build, Differs, DoneRemembers
<1>6. CASE CutOff BY <1>6 DEF CutOff
<1>7. CASE UNCHANGED vars BY <1>7 DEF vars, Differs
<1>8. QED BY <1>1, <1>2, <1>3, <1>4, <1>5, <1>6, <1>7 DEF Next

LEMMA DoneStep == IInv /\ [Next]_vars => DoneRemembers'
BY DEF IInv, DoneRemembers, Next, Start, Touch, Record, Fill, Build, CutOff, vars

LEMMA Invariant == Spec => []IInv
<1>1. IInv /\ [Next]_vars => IInv'
  BY TypeStep, ChangesStep, NothingElseStep, DoneStep DEF IInv
<1>2. QED BY InitInvariant, <1>1, PTL DEF Spec

----------------------------------------------------------------------------
\* What is remembered, touched and built are what sync_deps() keeps them as.
THEOREM TypeCorrect == Spec => []TypeOK
<1>1. IInv => TypeOK BY DEF IInv
<1>2. QED BY <1>1, Invariant, PTL

\* No change escapes a build, however many syncs were cut off before it
\* (Kconfig.sync_deps).
THEOREM AllChangesTouched == Spec => []TouchesChanges
<1>1. IInv => TouchesChanges
  BY DEF IInv, ChangesAreKept, DoneRemembers, TouchesChanges
<1>2. QED BY <1>1, Invariant, PTL

\* A sync that nothing disturbed has nothing compiled again in vain
\* (Kconfig.sync_deps).
THEOREM OnlyChangesTouched == Spec => []TouchesOnlyChanges
<1>1. IInv => TouchesOnlyChanges
  BY DEF IInv, NothingElseTouched, TouchesOnlyChanges
<1>2. QED BY <1>1, Invariant, PTL
=============================================================================

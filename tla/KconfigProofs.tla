---------------------------- MODULE KconfigProofs ----------------------------
(***************************************************************************)
(* Proofs about KconfigUtility, for any number of runs, any schemes and    *)
(* any choices.                                                            *)
(***************************************************************************)
EXTENDS KconfigUtility, TLAPS

Read == IF json = Absent THEN {} ELSE json

(* What a run may rely on at each of its stages while no other writes: the  *)
(* JSON is still the one remembered, the scheme the one parsed, and .config *)
(* the one its tool has left and it has loaded.                             *)
Alone(r) ==
  ~disturbed[r] =>
    /\ pc[r] \in {"started", "parsed", "editing", "saving", "created", "saved", "loaded"}
         => json # Cut /\ previous[r] = Read
    /\ pc[r] \in {"parsed", "editing", "saving", "created", "saved", "loaded", "printing"}
         => parsed[r] = scheme
    /\ pc[r] = "created" => r \in writers /\ native = Default
    /\ pc[r] \in {"loaded", "printing"} => native # Absent /\ held[r] = native
    /\ pc[r] = "printing" => json = Cut
    /\ pc[r] = "done" => native # Absent /\ Describes

IInv == KconfigTypeOK /\ \A r \in Run : Alone(r)

LEMMA ValuesType ==
  /\ {} \in Settings
  /\ \A s \in Scheme, c \in Config : Values(s, c) \in Settings /\ Choices(s, c) \in Config
<1>1. Values(Plain, Default) = {}
  BY DEF Values
<1> QED
  BY <1>1, KconfigAssumption DEF Settings, Choices

LEMMA InitIInv == Init => IInv
<1> SUFFICES ASSUME Init PROVE IInv
  OBVIOUS
<1>1. KconfigTypeOK
  BY ValuesType, KconfigAssumption DEF Init, KconfigTypeOK, Stage
<1>2. \A r \in Run : pc[r] = "idle"
  BY DEF Init
<1> QED
  BY <1>1, <1>2 DEF IInv, Alone

-----------------------------------------------------------------------------
LEMMA RememberType ==
  ASSUME KconfigTypeOK, NEW r \in Run, Remember(r)
  PROVE  pc' \in [Run -> Stage] /\ previous' \in [Run -> Settings]
BY ValuesType DEF Remember, KconfigTypeOK, Goto, Stage

LEMMA StepType ==
  ASSUME KconfigTypeOK, NEW r \in Run, Step(r)
  PROVE  KconfigTypeOK'
<1> USE DEF KconfigTypeOK, Goto, Stage, files, memory
<1>1. CASE Start(r)
  BY <1>1, RememberType DEF Start
<1>2. CASE Configure(r)
  BY <1>2, RememberType DEF Configure, Others
<1>3. CASE Parse(r)
  BY <1>3 DEF Parse
<1>4. CASE Open(r)
  <2>1. PICK config \in Config : held' = [held EXCEPT ![r] = Choices(scheme, config)]
    BY <1>4 DEF Open
  <2>2. Choices(scheme, config) \in Config
    BY ValuesType
  <2> QED
    BY <1>4, <2>1, <2>2 DEF Open
<1>5. CASE Rename(r)
  BY <1>5 DEF Rename, Others
<1>6. CASE Leave(r)
  BY <1>6 DEF Leave
<1>7. CASE Create(r)
  BY <1>7, KconfigAssumption DEF Create, Others
<1>8. CASE Fill(r)
  BY <1>8 DEF Fill, Others
<1>9. CASE Load(r)
  BY <1>9 DEF Load
<1>10. CASE Compare(r)
  <2>1. pc' \in [Run -> Stage]
    BY <1>10 DEF Compare
  <2>2. disturbed' \in [Run -> BOOLEAN]
    BY <1>10 DEF Compare, Others
  <2>3. json' = json \/ json' = Cut
    BY <1>10 DEF Compare
  <2> QED
    BY <1>10, <2>1, <2>2, <2>3 DEF Compare
<1>11. CASE WriteJson(r)
  <2>1. Values(parsed[r], held[r]) \in Settings
    BY ValuesType
  <2> QED
    BY <1>11, <2>1 DEF WriteJson, Others
<1>12. CASE Stop(r)
  BY <1>12 DEF Stop
<1>13. CASE End(r)
  BY <1>13, ValuesType, KconfigAssumption DEF End, Forget
<1>14. CASE Take(r)
  BY <1>14, ValuesType, KconfigAssumption DEF Take, Forget
<1>15. CASE Reconsider(r)
  <2>1. PICK config \in Config : held' = [held EXCEPT ![r] = Choices(parsed[r], config)]
    BY <1>15 DEF Reconsider
  <2>2. Choices(parsed[r], config) \in Config
    BY ValuesType
  <2> QED
    BY <1>15, <2>1, <2>2 DEF Reconsider
<1> QED
  BY <1>1, <1>2, <1>3, <1>4, <1>5, <1>6, <1>7, <1>8, <1>9, <1>10, <1>11, <1>12,
     <1>13, <1>14, <1>15 DEF Step, Edit

-----------------------------------------------------------------------------
(* A step of another run either disturbs this one or leaves the files.      *)
LEMMA StepElsewhere ==
  ASSUME KconfigTypeOK, NEW q \in Run, NEW r \in Run \ {q}, Step(q)
  PROVE  /\ pc'[r] = pc[r] /\ previous'[r] = previous[r]
         /\ parsed'[r] = parsed[r] /\ held'[r] = held[r]
         /\ \/ disturbed'[r]
            \/ /\ disturbed'[r] = disturbed[r]
               /\ UNCHANGED <<scheme, native, json>>
               /\ writers \ {q} \subseteq writers'
<1> USE DEF KconfigTypeOK, Goto, files, memory
<1>1. CASE Start(q)
  BY <1>1 DEF Start, Remember
<1>2. CASE Configure(q)
  BY <1>2 DEF Configure, Remember, Others
<1>3. CASE Parse(q)
  BY <1>3 DEF Parse
<1>4. CASE Edit(q)
  BY <1>4 DEF Edit, Open, Rename, Leave, Create, Fill, Reconsider, Others
<1>5. CASE Load(q)
  BY <1>5 DEF Load
<1>6. CASE Compare(q)
  BY <1>6 DEF Compare, Others
<1>7. CASE WriteJson(q)
  BY <1>7 DEF WriteJson, Others
<1>8. CASE Stop(q) \/ End(q) \/ Take(q)
  BY <1>8 DEF Stop, End, Take, Forget
<1> QED
  BY <1>1, <1>2, <1>3, <1>4, <1>5, <1>6, <1>7, <1>8 DEF Step

LEMMA AloneElsewhere ==
  ASSUME KconfigTypeOK, NEW q \in Run, NEW r \in Run \ {q}, Step(q), Alone(r)
  PROVE  Alone(r)'
<1>1. CASE disturbed'[r]
  BY <1>1 DEF Alone
<1>2. CASE ~disturbed'[r]
  BY <1>2, StepElsewhere DEF Alone, Read, Describes
<1> QED
  BY <1>1, <1>2

(* What a run itself does keeps to what it relies on.                       *)
LEMMA AloneHere ==
  ASSUME IInv, NEW r \in Run, Step(r)
  PROVE  Alone(r)'
<1> USE DEF IInv, KconfigTypeOK, Goto, At, files, memory
<1>1. CASE Start(r)
  BY <1>1 DEF Start, Remember, Alone, Read
<1>2. CASE Configure(r)
  BY <1>2 DEF Configure, Remember, Alone, Read
<1>3. CASE Parse(r)
  BY <1>3 DEF Parse, Alone, Read
<1>4. CASE Open(r)
  BY <1>4 DEF Open, Alone, Read
<1>5. CASE Rename(r)
  BY <1>5 DEF Rename, Others, Alone, Read
<1>6. CASE Leave(r)
  BY <1>6 DEF Leave, Alone, Read
<1>7. CASE Create(r)
  BY <1>7 DEF Create, Others, Alone, Read
<1>8. CASE Fill(r)
  BY <1>8 DEF Fill, Others, Alone, Read
<1>9. CASE Load(r)
  BY <1>9 DEF Load, Alone, Read
<1>10. CASE Compare(r)
  BY <1>10 DEF Compare, Others, Alone, Read, Describes
<1>11. CASE WriteJson(r)
  <2>1. Values(parsed[r], held[r]) # Absent
    BY ValuesType, FileAssumption
  <2> QED
    BY <1>11, <2>1 DEF WriteJson, Others, Alone, Describes
<1>12. CASE Stop(r) \/ End(r) \/ Take(r)
  BY <1>12 DEF Stop, End, Take, Alone
<1>13. CASE Reconsider(r)
  BY <1>13 DEF Reconsider, Alone, Read
<1> QED
  BY <1>1, <1>2, <1>3, <1>4, <1>5, <1>6, <1>7, <1>8, <1>9, <1>10, <1>11, <1>12,
     <1>13 DEF Step, Edit

LEMMA StepIInv == IInv /\ [Next]_vars => IInv'
<1>1. ASSUME IInv, Next PROVE IInv'
  <2>1. PICK q \in Run : Step(q)
    BY <1>1 DEF Next
  <2>2. KconfigTypeOK'
    BY <1>1, <2>1, StepType DEF IInv
  <2>3. ASSUME NEW r \in Run PROVE Alone(r)'
    <3>1. CASE r = q
      BY <1>1, <2>1, <3>1, AloneHere
    <3>2. CASE r # q
      BY <1>1, <2>1, <3>2, AloneElsewhere DEF IInv
    <3> QED
      BY <3>1, <3>2
  <2> QED
    BY <2>2, <2>3 DEF IInv
<1>2. ASSUME IInv, UNCHANGED vars PROVE IInv'
  BY <1>2 DEF IInv, vars, files, memory, KconfigTypeOK, Alone, Read, Describes
<1> QED
  BY <1>1, <1>2

(* The inductive invariant holds in every reachable state.                  *)
THEOREM IInvHolds == Spec => []IInv
BY InitIInv, StepIInv, PTL DEF Spec

(* The files and the memory of the runs have their types.                   *)
THEOREM TypeCorrect == Spec => []KconfigTypeOK
BY IInvHolds, PTL DEF IInv

(* An undisturbed run that ends well leaves a JSON of its configuration.    *)
THEOREM DescribedWhenDone == Spec => []RunDescribes
<1>1. IInv => RunDescribes
  BY DEF IInv, Alone, RunDescribes
<1> QED
  BY <1>1, IInvHolds, PTL

(* CMake takes the settings of the configuration that its own run has set.  *)
THEOREM BuildsTakeConfig == Spec => BuildTakesConfig
<1> DEFINE A == \A r \in Run :
      Take(r) /\ pc[r] = "done" /\ ~disturbed[r] => settings' = Values(scheme, native)
<1>1. IInv /\ [Next]_vars => [A]_vars
  <2> SUFFICES ASSUME IInv, NEW r \in Run, Take(r), pc[r] = "done", ~disturbed[r]
               PROVE  settings' = Values(scheme, native)
    OBVIOUS
  <2>1. Describes /\ native # Absent
    BY DEF IInv, Alone
  <2>2. Values(scheme, native) # Cut
    BY <2>1, ValuesType, FileAssumption DEF IInv, KconfigTypeOK
  <2> QED
    BY <2>1, <2>2, FileAssumption DEF Take, Describes
<1> QED
  BY <1>1, IInvHolds, PTL DEF Spec, BuildTakesConfig

(* A JSON cut off with no run under way stays so.                           *)
THEOREM CutIsFinal == Spec => CutStays
<1> DEFINE A == json = Cut /\ (\A r \in Run : pc[r] \in Ended)
                  => json' = Cut /\ (\A r \in Run : pc'[r] \in Ended)
<1>1. IInv /\ [Next]_vars => [A]_vars
  <2> SUFFICES ASSUME IInv, Next, json = Cut, \A r \in Run : pc[r] \in Ended
               PROVE  json' = Cut /\ \A r \in Run : pc'[r] \in Ended
    OBVIOUS
  <2>1. PICK q \in Run : Step(q)
    BY DEF Next
  <2>2. Start(q) \/ Configure(q) \/ End(q) \/ Take(q)
    BY <2>1 DEF Step, Parse, Edit, Open, Rename, Leave, Create, Fill, Reconsider, Load, Compare,
                WriteJson, Stop, At, Ended
  <2>3. json' = json /\ \E stage \in {"idle", "failed"} : pc' = [pc EXCEPT ![q] = stage]
    BY <2>2 DEF Start, Configure, Remember, End, Take, Goto, files
  <2> QED
    BY <2>3 DEF IInv, KconfigTypeOK, Ended
<1> QED
  BY <1>1, IInvHolds, PTL DEF Spec, CutStays
=============================================================================

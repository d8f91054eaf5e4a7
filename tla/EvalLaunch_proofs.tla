-------------------------- MODULE EvalLaunch_proofs --------------------------
(***************************************************************************)
(* Proofs about EvalLaunch, for any launches, trials, command lines and    *)
(* sources.                                                                *)
(*                                                                         *)
(* No image and no manifest ever disappears, so what a launch has found    *)
(* when it starts Pier is still there for its trials (InputsInv).  And as  *)
(* long as the sources stand still while a launch prepares, an image holds *)
(* the sources its fingerprint names, whoever built it (SourcesInv).       *)
(***************************************************************************)
EXTENDS EvalLaunch, TLAPS

\* What is there behind each point of a launch.
InputsInv ==
  /\ \A l \in Launchers :
       /\ pc[l] \in {"built", "ready", "running"} => images[spec[l].ref] # None
       /\ pc[l] = "running" => manifests[opt[l].job] # None
       /\ \A t \in Trials : trial[l][t] # "none" => pc[l] = "running"
  /\ TrialsFindTheirInputs

Whole(image) == image # None => image.holds = image.digest

\* Where the fingerprint, the build context and the images agree.
SourcesInv ==
  /\ \A l \in Launchers :
       /\ pc[l] \in {"resolved", "building"} => spec[l].digest.code = tree.code
       /\ pc[l] = "sent" => spec[l].digest.code = context[l].code
       /\ \A t \in Trials :
            /\ Whole(box[l][t])
            /\ trial[l][t] = "mounted" => box[l][t] # None
            /\ trial[l][t] \in {"set", "ran", "finished"} =>
                 box[l][t] # None /\ box[l][t].digest = spec[l].digest
  /\ \A r \in Refs : Whole(images[r])

LaunchStep(l) ==
  \/ ReadManifest(l) \/ ReadSources(l) \/ Inspect(l) \/ SendContext(l)
  \/ FinishBuild(l) \/ FinalInspect(l) \/ WriteRunManifest(l)
TrialStep(l, t) ==
  StartTrial(l, t) \/ Mount(l, t) \/ Setup(l, t) \/ RunAgent(l, t) \/ Stop(l, t)

LEMMA NextCases ==
  Next => \/ \E l \in Launchers : LaunchStep(l)
          \/ \E l \in Launchers, t \in Trials : TrialStep(l, t)
          \/ Edit \/ UNCHANGED vars
BY DEF Next, LaunchStep, TrialStep, Idle

-----------------------------------------------------------------------------
LEMMA InitType == Init => TypeOK
BY MaxEditsAssumption DEF Init, TypeOK, Refs, Trees

LEMMA LaunchType ==
  ASSUME TypeOK, NEW l \in Launchers, LaunchStep(l)
  PROVE  TypeOK'
<1> USE DEF TypeOK, Goto
<1>1. CASE ReadManifest(l)
  BY <1>1 DEF ReadManifest, Trees
<1>2. CASE ReadSources(l)
  <2> DEFINE d == [spec[l].digest EXCEPT !.code = DigestCode(l)]
  <2>1. d \in Trees
    <3>1. spec[l].digest \in Trees /\ tree.code \in Versions
      BY DEF Trees
    <3> QED
      BY <3>1 DEF DigestCode, Trees
  <2>2. ReferenceOf(l, d) \in Refs
    BY <2>1 DEF ReferenceOf, Refs
  <2>3. spec' = [spec EXCEPT ![l] = [digest |-> d, ref |-> ReferenceOf(l, d)]]
    BY <1>2 DEF ReadSources
  <2> HIDE DEF d
  <2>4. spec' \in [Launchers -> [digest : Trees, ref : Refs]]
    <3>1. [digest |-> d, ref |-> ReferenceOf(l, d)] \in [digest : Trees, ref : Refs]
      BY <2>1, <2>2
    <3> QED
      BY <2>3, <3>1
  <2>5. pc' = [pc EXCEPT ![l] = "resolved"]
        /\ UNCHANGED <<tree, edits, images, manifests, opt, context, trial, box>>
    BY <1>2 DEF ReadSources
  <2> QED
    BY <2>4, <2>5
<1>3. CASE Inspect(l)
  BY <1>3 DEF Inspect
<1>4. CASE SendContext(l)
  BY <1>4 DEF SendContext
<1>5. CASE FinishBuild(l)
  <2>1. Built(l) \in Images
    BY DEF Built, Images, Trees, Platforms
  <2>2. images' \in [Refs -> Images \union {None}]
    BY <1>5, <2>1 DEF FinishBuild
  <2> QED
    BY <1>5, <2>2 DEF FinishBuild
<1>6. CASE FinalInspect(l)
  BY <1>6 DEF FinalInspect
<1>7. CASE WriteRunManifest(l)
  BY <1>7, OptionsAssumption DEF WriteRunManifest, Written
<1> QED
  BY <1>1, <1>2, <1>3, <1>4, <1>5, <1>6, <1>7 DEF LaunchStep

LEMMA TrialType ==
  ASSUME TypeOK, NEW l \in Launchers, NEW t \in Trials, TrialStep(l, t)
  PROVE  TypeOK'
<1> USE DEF TypeOK, Phase
<1>1. CASE StartTrial(l, t)
  BY <1>1 DEF StartTrial
<1>2. CASE Mount(l, t)
  BY <1>2 DEF Mount
<1>3. CASE Setup(l, t)
  BY <1>3 DEF Setup
<1>4. CASE RunAgent(l, t)
  BY <1>4 DEF RunAgent
<1>5. CASE Stop(l, t)
  BY <1>5 DEF Stop, AfterStop
<1> QED
  BY <1>1, <1>2, <1>3, <1>4, <1>5 DEF TrialStep

\* Every step keeps the types.
LEMMA StepType == TypeOK /\ [Next]_vars => TypeOK'
<1> SUFFICES ASSUME TypeOK, [Next]_vars PROVE TypeOK'
  OBVIOUS
<1>1. CASE Edit
  BY <1>1, MaxEditsAssumption DEF Edit, TypeOK, Trees
<1>2. CASE UNCHANGED vars
  BY <1>2 DEF vars, TypeOK
<1> QED
  BY <1>1, <1>2, NextCases, LaunchType, TrialType

-----------------------------------------------------------------------------
LEMMA InitInputs == Init => InputsInv
BY DEF Init, InputsInv, TrialsFindTheirInputs

LEMMA BuiltIsImage == ASSUME TypeOK, NEW l \in Launchers PROVE Built(l) \in Images
BY DEF TypeOK, Built, Images, Trees, Platforms

LEMMA ImageIsSome == ASSUME NEW i \in Images PROVE i # None
BY NoneAssumption DEF Images, Trees, Platforms

LEMMA LaunchInputs ==
  ASSUME TypeOK, InputsInv, NEW l \in Launchers, LaunchStep(l)
  PROVE  InputsInv'
<1> USE DEF TypeOK, InputsInv, TrialsFindTheirInputs, Goto
<1>1. CASE ReadManifest(l)
  BY <1>1 DEF ReadManifest
<1>2. CASE ReadSources(l)
  BY <1>2 DEF ReadSources
<1>3. CASE Inspect(l)
  BY <1>3 DEF Inspect, Matches, Exists
<1>4. CASE SendContext(l)
  BY <1>4 DEF SendContext
<1>5. CASE FinishBuild(l)
  <2>1. Built(l) # None
    BY BuiltIsImage, ImageIsSome
  <2> QED
    BY <1>5, <2>1 DEF FinishBuild
<1>6. CASE FinalInspect(l)
  BY <1>6 DEF FinalInspect, Matches, Exists
<1>7. CASE WriteRunManifest(l)
  BY <1>7, OptionsAssumption, NoneAssumption DEF WriteRunManifest, Written
<1> QED
  BY <1>1, <1>2, <1>3, <1>4, <1>5, <1>6, <1>7 DEF LaunchStep

LEMMA TrialInputs ==
  ASSUME TypeOK, InputsInv, NEW l \in Launchers, NEW t \in Trials, TrialStep(l, t)
  PROVE  InputsInv'
<1> USE DEF TypeOK, InputsInv, TrialsFindTheirInputs, Phase
<1>1. CASE StartTrial(l, t)
  BY <1>1 DEF StartTrial, Exists
<1>2. CASE Mount(l, t)
  BY <1>2 DEF Mount, Exists
<1>3. CASE Setup(l, t)
  BY <1>3 DEF Setup
<1>4. CASE RunAgent(l, t)
  BY <1>4 DEF RunAgent
<1>5. CASE Stop(l, t)
  BY <1>5 DEF Stop, AfterStop
<1> QED
  BY <1>1, <1>2, <1>3, <1>4, <1>5 DEF TrialStep

\* Nothing a trial needs is taken away.
LEMMA StepInputs == TypeOK /\ InputsInv /\ [Next]_vars => InputsInv'
<1> SUFFICES ASSUME TypeOK, InputsInv, [Next]_vars PROVE InputsInv'
  OBVIOUS
<1>1. CASE Edit
  BY <1>1 DEF Edit, InputsInv, TrialsFindTheirInputs
<1>2. CASE UNCHANGED vars
  BY <1>2 DEF vars, InputsInv, TrialsFindTheirInputs
<1> QED
  BY <1>1, <1>2, NextCases, LaunchInputs, TrialInputs

-----------------------------------------------------------------------------
LEMMA InitSources == Init => SourcesInv
BY DEF Init, SourcesInv, Whole

LEMMA LaunchSources ==
  ASSUME TypeOK, InputsInv, SourcesInv, NEW l \in Launchers, LaunchStep(l)
  PROVE  SourcesInv'
<1> USE DEF TypeOK, InputsInv, SourcesInv, Whole, Goto
<1>0. ASSUME NEW where, pc' = [pc EXCEPT ![l] = where], pc[l] \in {"idle", "hashing"},
             \A k \in Launchers \ {l} : spec'[k] = spec[k],
             where = "resolved" => spec'[l].digest.code = tree.code,
             where \in {"hashing", "resolved"},
             UNCHANGED <<tree, images, context, trial, box>>
      PROVE  SourcesInv'
  BY <1>0
<1>1. CASE ReadManifest(l)
  <2>1. \A k \in Launchers \ {l} : spec'[k] = spec[k]
    BY <1>1 DEF ReadManifest
  <2> QED
    BY <1>0, <1>1, <2>1 DEF ReadManifest
<1>2. CASE ReadSources(l)
  <2>1. \A k \in Launchers \ {l} : spec'[k] = spec[k]
    BY <1>2 DEF ReadSources
  <2>2. spec[l].digest \in Trees
    OBVIOUS
  <2>3. spec'[l].digest.code = tree.code
    BY <1>2, <2>2 DEF ReadSources, DigestCode, Trees
  <2> QED
    BY <1>0, <1>2, <2>1, <2>3 DEF ReadSources
<1>3. CASE Inspect(l)
  BY <1>3 DEF Inspect
<1>4. CASE SendContext(l)
  BY <1>4 DEF SendContext
<1>5. CASE FinishBuild(l)
  <2>1. spec[l].digest \in [pkg : Versions, code : Versions]
    BY DEF Trees
  <2>2. spec[l].digest = [pkg |-> spec[l].digest.pkg, code |-> spec[l].digest.code]
    BY <2>1
  <2>3. spec[l].digest.code = context[l].code
    BY <1>5 DEF FinishBuild
  <2>4. Built(l).holds = Built(l).digest
    BY <2>2, <2>3 DEF Built
  <2>5. \A r \in Refs : Whole(images'[r])
    BY <1>5, <2>4 DEF FinishBuild
  <2>6. /\ \E where \in {"built", "failed"} : pc' = [pc EXCEPT ![l] = where]
        /\ UNCHANGED <<tree, spec, context, trial, box>>
    BY <1>5 DEF FinishBuild
  <2> QED
    BY <2>5, <2>6
<1>6. CASE FinalInspect(l)
  BY <1>6 DEF FinalInspect
<1>7. CASE WriteRunManifest(l)
  BY <1>7 DEF WriteRunManifest
<1> QED
  BY <1>1, <1>2, <1>3, <1>4, <1>5, <1>6, <1>7 DEF LaunchStep

LEMMA TrialSources ==
  ASSUME TypeOK, InputsInv, SourcesInv, NEW l \in Launchers, NEW t \in Trials, TrialStep(l, t)
  PROVE  SourcesInv'
<1> USE DEF TypeOK, InputsInv, SourcesInv, Whole, Phase
<1>1. CASE StartTrial(l, t)
  BY <1>1 DEF StartTrial
<1>2. CASE Mount(l, t)
  BY <1>2 DEF Mount, Exists
<1>3. CASE Setup(l, t)
  BY <1>3 DEF Setup, SetupAccepts
<1>4. CASE RunAgent(l, t)
  BY <1>4 DEF RunAgent
<1>5. CASE Stop(l, t)
  BY <1>5 DEF Stop, AfterStop
<1> QED
  BY <1>1, <1>2, <1>3, <1>4, <1>5 DEF TrialStep

\* Sources that stand still while a launch prepares are the sources built.
LEMMA StepSources ==
  ~EditsDuringPrepare /\ TypeOK /\ InputsInv /\ SourcesInv /\ [Next]_vars => SourcesInv'
<1> SUFFICES ASSUME ~EditsDuringPrepare, TypeOK, InputsInv, SourcesInv, [Next]_vars
             PROVE  SourcesInv'
  OBVIOUS
<1>1. CASE Edit
  BY <1>1 DEF Edit, Preparing, SourcesInv, Whole
<1>2. CASE UNCHANGED vars
  BY <1>2 DEF vars, SourcesInv, Whole
<1> QED
  BY <1>1, <1>2, NextCases, LaunchSources, TrialSources

-----------------------------------------------------------------------------
\* Types and InputsInv hold however many launches share sources, images and a job.
THEOREM LaunchInvariance == Spec => [](TypeOK /\ InputsInv)
<1>1. Init => TypeOK /\ InputsInv
  BY InitType, InitInputs
<1>2. TypeOK /\ InputsInv /\ [Next]_vars => (TypeOK /\ InputsInv)'
  BY StepType, StepInputs
<1> QED
  BY <1>1, <1>2, PTL DEF Spec

\* Every variable has its type in every reachable state.
THEOREM LaunchTypeOK == Spec => []TypeOK
BY LaunchInvariance, PTL

\* No trial of a launch that reached Pier misses its image or its manifest.
THEOREM TrialsFindTheirInputsHolds == Spec => []TrialsFindTheirInputs
<1>1. InputsInv => TrialsFindTheirInputs
  BY DEF InputsInv
<1> QED
  BY LaunchInvariance, <1>1, PTL

\* While nobody edits the sources during a preparation, an agent that is
\* allowed to start runs the sources of its plan.
THEOREM TrialRunsPlannedSourcesHolds ==
  ~EditsDuringPrepare => (Spec => []TrialRunsPlannedSources)
<1> DEFINE Inv == TypeOK /\ InputsInv /\ SourcesInv
<1>1. Init => Inv
  BY InitType, InitInputs, InitSources
<1>2. ~EditsDuringPrepare /\ Inv /\ [Next]_vars => Inv'
  BY StepType, StepInputs, StepSources
<1>3. Inv => TrialRunsPlannedSources
  BY DEF SourcesInv, Whole, TrialRunsPlannedSources
<1> SUFFICES ASSUME ~EditsDuringPrepare PROVE Spec => []TrialRunsPlannedSources
  OBVIOUS
<1>4. Inv /\ [Next]_vars => Inv'
  BY <1>2
<1> QED
  BY <1>1, <1>3, <1>4, PTL DEF Spec

=============================================================================

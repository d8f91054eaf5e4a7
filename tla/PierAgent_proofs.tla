-------------------------- MODULE PierAgent_proofs ---------------------------
(***************************************************************************)
(* Proofs about PierAgent, for any plans, credentials and bounds.          *)
(*                                                                         *)
(* What the runtime finds when it starts was put there file by file, so    *)
(* the invariant speaks of the files before, at and behind the one being   *)
(* copied (CopyInv); that each adapter in use has its credential follows   *)
(* from the check at the beginning, which a login file lost meanwhile may  *)
(* undo (CheckInv).                                                        *)
(***************************************************************************)
EXTENDS PierAgent, TLAPS

Copying == pc \in {"copy", "own", "mode", "stage", "running"}

\* Before the first directory is made there is nothing in the container.
BeforeInv ==
    /\ pc \in {"new", "rejected", "setup", "require", "mkdir"} =>
         junk = FALSE /\ \A f \in Files : remote[f] = "absent"
    /\ children => pc \in {"running", "cleanup", "wait", "cleanup again", "done"}

CopyInv ==
    /\ Copying =>
         \A i \in 1..FileCount :
           /\ i < copying => remote[CopyOrder[i]] \in {"absent", "private"}
           /\ i < copying /\ ToCopy(CopyOrder[i]) => remote[CopyOrder[i]] = "private"
           /\ i > copying => remote[CopyOrder[i]] = "absent"
           /\ i = copying /\ pc = "copy" => remote[CopyOrder[i]] = "absent"
    /\ pc \in {"stage", "running"} => copying > FileCount
    /\ pc \in {"new", "setup", "require", "mkdir"} => copying = 1

CheckInv ==
    /\ pc \in {"setup", "require", "mkdir"} \/ Copying => PlanAccepted(plan)
    /\ pc = "mkdir" \/ Copying =>
         \A a \in AdaptersIn(plan) :
           a \in login \union lostLogin \/ hostEnv \intersect CredentialEnv(a) # {}

IInv == TypeOK /\ BeforeInv /\ CopyInv /\ CheckInv /\ NoCredentialLeft

-----------------------------------------------------------------------------
\* Every file has its place in the order of copying, and one only.
LEMMA CopyOrderFacts ==
    /\ FileCount = 5
    /\ \A i \in 1..5 : CopyOrder[i] \in Files
    /\ \A i, j \in 1..5 : CopyOrder[i] = CopyOrder[j] => i = j
    /\ \A f \in Files : \E i \in 1..5 : CopyOrder[i] = f
    /\ LoginFiles \subseteq Files
BY DEF CopyOrder, FileCount, Files, LoginFiles

LEMMA InitHolds == Init => IInv
<1> SUFFICES ASSUME Init PROVE IInv
  OBVIOUS
<1>1. TypeOK
  <2>1. remote \in [Files -> FileStates]
    BY DEF Init, FileStates
  <2>2. copying \in 1..(FileCount + 1)
    BY CopyOrderFacts DEF Init
  <2>3. login \subseteq LoginFiles /\ lostLogin \subseteq LoginFiles /\ plan \in Plans
    BY DEF Init
  <2>4. pc = "new" /\ ending = "none" /\ cancels \in 0..MaxCancels
    BY BoundsAssumption DEF Init
  <2>5. /\ junk = FALSE /\ children = FALSE /\ rewritten = FALSE
        /\ warned = FALSE /\ cutShort = FALSE
    BY DEF Init
  <2> QED
    BY <2>1, <2>2, <2>3, <2>4, <2>5 DEF TypeOK, Points
<1>2. BeforeInv /\ CopyInv /\ CheckInv /\ NoCredentialLeft
  BY DEF Init, BeforeInv, CopyInv, CheckInv, NoCredentialLeft, Copying
<1> QED
  BY <1>1, <1>2 DEF IInv

\* Each await throws or is cancelled the same way.
LEMMA CancelCases ==
    ASSUME Cancel
    PROVE  \/ InTry /\ pc' = "cleanup" /\ UNCHANGED <<cutShort, remote, junk, rewritten>>
           \/ /\ pc \in {"cleanup", "wait", "cleanup again"}
              /\ pc' = "done" /\ cutShort' = TRUE
              /\ PartlyRemoved
BY DEF Cancel, AfterThrow

\* A partial removal leaves each file as it was or takes it away.
LEMMA PartlyRemovedFiles ==
    ASSUME TypeOK, PartlyRemoved
    PROVE  remote' \in [Files -> FileStates] /\ UNCHANGED <<junk, rewritten>>
BY DEF TypeOK, PartlyRemoved, FileStates

\* A counter below its bound may be raised by one.
LEMMA OneMore == \A m \in Nat : \A c \in 0..m : c < m => c + 1 \in 0..m
OBVIOUS

\* Every step keeps the types.
LEMMA StepType == TypeOK /\ [Next]_vars => TypeOK'
<1> SUFFICES ASSUME TypeOK, [Next]_vars PROVE TypeOK'
  OBVIOUS
<1> USE DEF hostVars, containerVars, outcomeVars, TypeOK, Points, FileStates
<1> USE BoundsAssumption, CopyOrderFacts
<1>1. CASE Construct
  BY <1>1 DEF Construct
<1>2. CASE Setup
  BY <1>2 DEF Setup
<1>3. CASE RequireCredentials
  BY <1>3 DEF RequireCredentials
<1>4. CASE MakeDirectories
  BY <1>4 DEF MakeDirectories
<1>5. CASE Copy
  <2>1. copying \in 1..5 /\ CopyOrder[copying] \in Files
    BY <1>5 DEF Copy
  <2>2. remote' \in [Files -> FileStates]
    BY <1>5, <2>1 DEF Copy
  <2>3. /\ copying' \in 1..(FileCount + 1)
        /\ pc' \in {"own", "mode"} => copying' <= FileCount
    BY <1>5, <2>1 DEF Copy
  <2>4. pc' \in {"copy", "own", "mode"}
    BY <1>5 DEF Copy
  <2>5. UNCHANGED <<hostVars, junk, children, rewritten, outcomeVars>>
    BY <1>5 DEF Copy
  <2> QED
    BY <2>2, <2>3, <2>4, <2>5, Zenon
<1>6. CASE Own
  <2>1. copying \in 1..5 /\ CopyOrder[copying] \in Files
    BY <1>6 DEF Own
  <2>2. remote' \in [Files -> FileStates]
    BY <1>6, <2>1 DEF Own
  <2>3. /\ copying' \in 1..(FileCount + 1)
        /\ pc' \in {"own", "mode"} => copying' <= FileCount
    BY <1>6, <2>1 DEF Own
  <2>4. pc' \in {"copy", "own", "mode"}
    BY <1>6 DEF Own
  <2>5. UNCHANGED <<hostVars, junk, children, rewritten, outcomeVars>>
    BY <1>6 DEF Own
  <2> QED
    BY <2>2, <2>3, <2>4, <2>5, Zenon
<1>7. CASE Restrict
  <2>1. copying \in 1..5 /\ CopyOrder[copying] \in Files
    BY <1>7 DEF Restrict
  <2>2. remote' \in [Files -> FileStates]
    BY <1>7, <2>1 DEF Restrict, Restricted
  <2>3. /\ copying' \in 1..(FileCount + 1)
        /\ pc' \in {"own", "mode"} => copying' <= FileCount
    BY <1>7, <2>1 DEF Restrict
  <2>4. pc' \in {"copy", "own", "mode"}
    BY <1>7 DEF Restrict
  <2>5. UNCHANGED <<hostVars, junk, children, rewritten, outcomeVars>>
    BY <1>7 DEF Restrict
  <2> QED
    BY <2>2, <2>3, <2>4, <2>5, Zenon
<1>8. CASE Staging
  BY <1>8 DEF Staging
<1>9. CASE StartRuntime
  BY <1>9 DEF StartRuntime
<1>10. CASE RuntimeEnds
  BY <1>10 DEF RuntimeEnds
<1>11. CASE Throw
  BY <1>11 DEF Throw, InTry, AfterThrow
<1>12. CASE Cleanup
  BY <1>12, PartlyRemovedFiles DEF Cleanup, Removed
<1>13. CASE Wait
  BY <1>13 DEF Wait
<1>14. CASE CleanupAgain
  BY <1>14, PartlyRemovedFiles DEF CleanupAgain, AfterSecondFailure, Removed
<1>15. CASE Cancel
  <2>1. remote' \in [Files -> FileStates] /\ junk' \in BOOLEAN /\ rewritten' \in BOOLEAN
    BY <1>15, CancelCases, PartlyRemovedFiles
  <2>2. pc' \in {"cleanup", "done"} /\ cutShort' \in BOOLEAN
    BY <1>15, CancelCases
  <2>3. cancels < MaxCancels /\ cancels' = cancels + 1 /\ ending' = "cancelled"
    BY <1>15, Zenon DEF Cancel
  <2>4. cancels' \in 0..MaxCancels
    BY <2>3, OneMore, Zenon
  <2>5. UNCHANGED <<hostVars, copying, children, warned>>
    BY <1>15 DEF Cancel
  <2> QED
    BY <2>1, <2>2, <2>3, <2>4, <2>5
<1>16. CASE ChildWrites
  BY <1>16 DEF ChildWrites
<1>17. CASE ChildrenExit
  BY <1>17 DEF ChildrenExit
<1>18. CASE LoginLost
  BY <1>18 DEF LoginLost
<1>19. CASE UNCHANGED vars
  BY <1>19 DEF vars, hostVars, containerVars, outcomeVars
<1> QED
  BY <1>1, <1>2, <1>3, <1>4, <1>5, <1>6, <1>7, <1>8, <1>9,
     <1>10, <1>11, <1>12, <1>13, <1>14, <1>15, <1>16, <1>17, <1>18, <1>19 DEF Next, Agent

\* Nothing comes into the container before run() puts it there.
LEMMA StepBefore == TypeOK /\ BeforeInv /\ [Next]_vars => BeforeInv'
<1> SUFFICES ASSUME TypeOK /\ BeforeInv, [Next]_vars PROVE BeforeInv'
  OBVIOUS
<1> USE DEF hostVars, containerVars, outcomeVars, TypeOK, BeforeInv
<1>1. CASE Construct
  BY <1>1 DEF Construct
<1>2. CASE Setup
  BY <1>2 DEF Setup
<1>3. CASE RequireCredentials
  BY <1>3 DEF RequireCredentials
<1>4. CASE MakeDirectories
  BY <1>4 DEF MakeDirectories
<1>5. CASE Copy
  BY <1>5 DEF Copy
<1>6. CASE Own
  BY <1>6 DEF Own
<1>7. CASE Restrict
  BY <1>7 DEF Restrict, Restricted
<1>8. CASE Staging
  BY <1>8 DEF Staging
<1>9. CASE StartRuntime
  BY <1>9 DEF StartRuntime
<1>10. CASE RuntimeEnds
  BY <1>10 DEF RuntimeEnds
<1>11. CASE Throw
  BY <1>11 DEF Throw, InTry, AfterThrow
<1>12. CASE Cleanup
  BY <1>12, PartlyRemovedFiles DEF Cleanup, Removed
<1>13. CASE Wait
  BY <1>13 DEF Wait
<1>14. CASE CleanupAgain
  BY <1>14, PartlyRemovedFiles DEF CleanupAgain, AfterSecondFailure, Removed
<1>15. CASE Cancel
  BY <1>15, CancelCases, PartlyRemovedFiles DEF Cancel, InTry
<1>16. CASE ChildWrites
  BY <1>16 DEF ChildWrites
<1>17. CASE ChildrenExit
  BY <1>17 DEF ChildrenExit
<1>18. CASE LoginLost
  BY <1>18 DEF LoginLost
<1>19. CASE UNCHANGED vars
  BY <1>19 DEF vars, hostVars, containerVars, outcomeVars
<1> QED
  BY <1>1, <1>2, <1>3, <1>4, <1>5, <1>6, <1>7, <1>8, <1>9,
     <1>10, <1>11, <1>12, <1>13, <1>14, <1>15, <1>16, <1>17, <1>18, <1>19 DEF Next, Agent

\* What is to be copied can only become less: login files are lost, never found.
LEMMA ToCopyShrinks ==
    ASSUME [Next]_vars, NEW f
    PROVE  ToCopy(f)' => ToCopy(f)
<1>1. plan' = plan /\ login' \subseteq login
  BY DEF vars, hostVars, Next, Agent, Construct, Setup, RequireCredentials, MakeDirectories,
         Copy, Own, Restrict, Staging, StartRuntime, RuntimeEnds, Throw, Cleanup, Wait,
         CleanupAgain, Cancel, ChildWrites, ChildrenExit, LoginLost
<1> QED
  BY <1>1 DEF ToCopy, AdaptersIn, RolesOf

\* The files are copied one after another.
LEMMA StepCopy == TypeOK /\ BeforeInv /\ CopyInv /\ [Next]_vars => CopyInv'
<1> SUFFICES ASSUME TypeOK /\ BeforeInv /\ CopyInv, [Next]_vars PROVE CopyInv'
  OBVIOUS
<1> USE DEF hostVars, containerVars, outcomeVars, TypeOK, BeforeInv, CopyInv, Copying
<1> USE CopyOrderFacts, ToCopyShrinks
<1>1. CASE Construct
  BY <1>1 DEF Construct
<1>2. CASE Setup
  BY <1>2 DEF Setup
<1>3. CASE RequireCredentials
  BY <1>3 DEF RequireCredentials
<1>4. CASE MakeDirectories
  BY <1>4 DEF MakeDirectories
<1>5. CASE Copy
  <2>1. copying \in 1..5 /\ CopyOrder[copying] \in Files
    BY <1>5 DEF Copy
  <2>2. UNCHANGED <<plan, login>> /\ pc = "copy"
    BY <1>5 DEF Copy
  <2>3. CASE ToCopy(CopyOrder[copying])
    <3>1. /\ remote' = [remote EXCEPT ![CopyOrder[copying]] = "copied"]
          /\ pc' = "own" /\ copying' = copying
      BY <1>5, <2>3 DEF Copy
    <3>2. \A i \in 1..5 : i # copying => remote'[CopyOrder[i]] = remote[CopyOrder[i]]
      BY <2>1, <3>1
    <3> QED
      BY <2>1, <2>2, <3>1, <3>2
  <2>4. CASE ~ToCopy(CopyOrder[copying])
    <3>1. remote' = remote /\ pc' = "copy" /\ copying' = copying + 1
      BY <1>5, <2>2, <2>4 DEF Copy
    <3> QED
      BY <2>1, <2>2, <2>4, <3>1
  <2> QED
    BY <2>3, <2>4
<1>6. CASE Own
  <2>1. copying \in 1..5 /\ CopyOrder[copying] \in Files
    BY <1>6 DEF Own
  <2>2. /\ UNCHANGED <<plan, login, copying>> /\ pc = "own" /\ pc' = "mode"
        /\ remote' = [remote EXCEPT ![CopyOrder[copying]] = "owned"]
    BY <1>6 DEF Own
  <2>3. \A i \in 1..5 : i # copying => remote'[CopyOrder[i]] = remote[CopyOrder[i]]
    BY <2>1, <2>2
  <2> QED
    BY <2>1, <2>2, <2>3
<1>7. CASE Restrict
  <2>1. copying \in 1..5 /\ CopyOrder[copying] \in Files
    BY <1>7 DEF Restrict
  <2>2. /\ UNCHANGED <<plan, login>> /\ pc = "mode" /\ pc' = "copy"
        /\ copying' = copying + 1
        /\ remote' = [remote EXCEPT ![CopyOrder[copying]] = "private"]
    BY <1>7 DEF Restrict, Restricted
  <2>3. \A i \in 1..5 : i # copying => remote'[CopyOrder[i]] = remote[CopyOrder[i]]
    BY <2>1, <2>2
  <2>4. remote'[CopyOrder[copying]] = "private"
    BY <2>1, <2>2
  <2> QED
    BY <2>1, <2>2, <2>3, <2>4
<1>8. CASE Staging
  BY <1>8 DEF Staging
<1>9. CASE StartRuntime
  BY <1>9 DEF StartRuntime
<1>10. CASE RuntimeEnds
  BY <1>10 DEF RuntimeEnds
<1>11. CASE Throw
  BY <1>11 DEF Throw, InTry, AfterThrow
<1>12. CASE Cleanup
  BY <1>12, PartlyRemovedFiles DEF Cleanup, Removed
<1>13. CASE Wait
  BY <1>13 DEF Wait
<1>14. CASE CleanupAgain
  BY <1>14, PartlyRemovedFiles DEF CleanupAgain, AfterSecondFailure, Removed
<1>15. CASE Cancel
  BY <1>15, CancelCases, PartlyRemovedFiles DEF Cancel, InTry
<1>16. CASE ChildWrites
  BY <1>16 DEF ChildWrites
<1>17. CASE ChildrenExit
  BY <1>17 DEF ChildrenExit
<1>18. CASE LoginLost
  BY <1>18 DEF LoginLost
<1>19. CASE UNCHANGED vars
  BY <1>19 DEF vars, hostVars, containerVars, outcomeVars
<1> QED
  BY <1>1, <1>2, <1>3, <1>4, <1>5, <1>6, <1>7, <1>8, <1>9,
     <1>10, <1>11, <1>12, <1>13, <1>14, <1>15, <1>16, <1>17, <1>18, <1>19 DEF Next, Agent

\* What was checked stays true but for a login file that is lost.
LEMMA StepCheck == TypeOK /\ CheckInv /\ [Next]_vars => CheckInv'
<1> SUFFICES ASSUME TypeOK /\ CheckInv, [Next]_vars PROVE CheckInv'
  OBVIOUS
<1> USE DEF hostVars, containerVars, outcomeVars, TypeOK, CheckInv, Copying
<1>1. CASE Construct
  BY <1>1 DEF Construct
<1>2. CASE Setup
  BY <1>2 DEF Setup
<1>3. CASE RequireCredentials
  <2>1. pc' = "mkdir" => CredentialsComplete
    BY <1>3 DEF RequireCredentials
  <2>2. UNCHANGED <<plan, login, hostEnv, lostLogin>> /\ pc = "require" /\ pc' \in {"mkdir", "done"}
    BY <1>3 DEF RequireCredentials
  <2>3. CredentialsComplete => \A a \in AdaptersIn(plan) :
            a \in login \union lostLogin \/ hostEnv \intersect CredentialEnv(a) # {}
    BY DEF CredentialsComplete, HasCredential
  <2> QED
    BY <2>1, <2>2, <2>3
<1>4. CASE MakeDirectories
  BY <1>4 DEF MakeDirectories
<1>5. CASE Copy
  BY <1>5 DEF Copy
<1>6. CASE Own
  BY <1>6 DEF Own
<1>7. CASE Restrict
  BY <1>7 DEF Restrict, Restricted
<1>8. CASE Staging
  BY <1>8 DEF Staging
<1>9. CASE StartRuntime
  BY <1>9 DEF StartRuntime
<1>10. CASE RuntimeEnds
  BY <1>10 DEF RuntimeEnds
<1>11. CASE Throw
  BY <1>11 DEF Throw, InTry, AfterThrow
<1>12. CASE Cleanup
  BY <1>12, PartlyRemovedFiles DEF Cleanup, Removed
<1>13. CASE Wait
  BY <1>13 DEF Wait
<1>14. CASE CleanupAgain
  BY <1>14, PartlyRemovedFiles DEF CleanupAgain, AfterSecondFailure, Removed
<1>15. CASE Cancel
  BY <1>15, CancelCases, PartlyRemovedFiles DEF Cancel, InTry
<1>16. CASE ChildWrites
  BY <1>16 DEF ChildWrites
<1>17. CASE ChildrenExit
  BY <1>17 DEF ChildrenExit
<1>18. CASE LoginLost
  BY <1>18 DEF LoginLost
<1>19. CASE UNCHANGED vars
  BY <1>19 DEF vars, hostVars, containerVars, outcomeVars
<1> QED
  BY <1>1, <1>2, <1>3, <1>4, <1>5, <1>6, <1>7, <1>8, <1>9,
     <1>10, <1>11, <1>12, <1>13, <1>14, <1>15, <1>16, <1>17, <1>18, <1>19 DEF Next, Agent

\* run() ends with the container clean or says that it is not.
LEMMA StepLeft == TypeOK /\ BeforeInv /\ NoCredentialLeft /\ [Next]_vars => NoCredentialLeft'
<1> SUFFICES ASSUME TypeOK /\ BeforeInv /\ NoCredentialLeft, [Next]_vars PROVE NoCredentialLeft'
  OBVIOUS
<1> USE DEF hostVars, containerVars, outcomeVars, TypeOK, BeforeInv, NoCredentialLeft
<1>1. CASE Construct
  BY <1>1 DEF Construct
<1>2. CASE Setup
  BY <1>2 DEF Setup
<1>3. CASE RequireCredentials
  BY <1>3 DEF RequireCredentials
<1>4. CASE MakeDirectories
  BY <1>4 DEF MakeDirectories
<1>5. CASE Copy
  BY <1>5 DEF Copy
<1>6. CASE Own
  BY <1>6 DEF Own
<1>7. CASE Restrict
  BY <1>7 DEF Restrict, Restricted
<1>8. CASE Staging
  BY <1>8 DEF Staging
<1>9. CASE StartRuntime
  BY <1>9 DEF StartRuntime
<1>10. CASE RuntimeEnds
  BY <1>10 DEF RuntimeEnds
<1>11. CASE Throw
  BY <1>11 DEF Throw, InTry, AfterThrow
<1>12. CASE Cleanup
  BY <1>12, PartlyRemovedFiles DEF Cleanup, Removed
<1>13. CASE Wait
  BY <1>13 DEF Wait
<1>14. CASE CleanupAgain
  BY <1>14, PartlyRemovedFiles DEF CleanupAgain, AfterSecondFailure, Removed
<1>15. CASE Cancel
  BY <1>15, CancelCases, PartlyRemovedFiles DEF Cancel, InTry
<1>16. CASE ChildWrites
  BY <1>16 DEF ChildWrites
<1>17. CASE ChildrenExit
  BY <1>17 DEF ChildrenExit
<1>18. CASE LoginLost
  BY <1>18 DEF LoginLost
<1>19. CASE UNCHANGED vars
  BY <1>19 DEF vars, hostVars, containerVars, outcomeVars
<1> QED
  BY <1>1, <1>2, <1>3, <1>4, <1>5, <1>6, <1>7, <1>8, <1>9,
     <1>10, <1>11, <1>12, <1>13, <1>14, <1>15, <1>16, <1>17, <1>18, <1>19 DEF Next, Agent

-----------------------------------------------------------------------------
\* The inductive invariant holds for any plan, credentials and interruption.
THEOREM PierInvariance == Spec => []IInv
<1>1. IInv /\ [Next]_vars => IInv'
  BY StepType, StepBefore, StepCopy, StepCheck, StepLeft DEF IInv
<1> QED
  BY InitHolds, <1>1, PTL DEF Spec

\* What the invariant says of the files when the runtime is running.
LEMMA RunningFiles ==
    ASSUME IInv, pc = "running", NEW f \in Files
    PROVE  remote[f] \in {"absent", "private"} /\ (ToCopy(f) => remote[f] = "private")
<1>1. PICK i \in 1..5 : CopyOrder[i] = f
  BY CopyOrderFacts
<1>2. i < copying
  BY CopyOrderFacts DEF IInv, TypeOK, CopyInv
<1> QED
  BY <1>1, <1>2, CopyOrderFacts DEF IInv, CopyInv, Copying

\* Every variable has its type in every reachable state.
THEOREM PierTypeOK == Spec => []TypeOK
<1>1. IInv => TypeOK
  BY DEF IInv
<1> QED
  BY PierInvariance, <1>1, PTL

\* Credentials are readable by the agent alone while the runtime runs, and gone
\* when run() is over, unless that is logged or was cancelled.
THEOREM CredentialsContainedHolds == Spec => []CredentialsContained
<1>1. IInv => CredentialsContained
  BY RunningFiles DEF CredentialsContained, CopiedFilesPrivate, IInv
<1> QED
  BY PierInvariance, <1>1, PTL

LEMMA ServedWhenRunning == IInv => RuntimeIsServed
<1> SUFFICES ASSUME IInv, pc = "running" PROVE RuntimeIsServed
  BY DEF RuntimeIsServed, CredentialsReachRuntime, KimiRolesRegistered, EndpointsAllowed
<1>1. CredentialsReachRuntime
  <2> SUFFICES ASSUME NEW a \in AdaptersIn(plan) \ lostLogin,
                      hostEnv \intersect CredentialEnv(a) \intersect KeysForwarded(a) = {}
               PROVE  a \in LoginFiles /\ remote[a] = "private"
    BY DEF CredentialsReachRuntime
  <2>1. CredentialEnv(a) \subseteq KeysForwarded(a)
    BY DEF CredentialEnv, KeysForwarded
  <2>2. a \in login
    BY <2>1 DEF IInv, CheckInv, Copying
  <2>3. a \in LoginFiles /\ a \in Files /\ a # "kimi config"
    BY <2>2 DEF IInv, TypeOK, LoginFiles, Files
  <2>4. ToCopy(a)
    BY <2>2, <2>3 DEF ToCopy
  <2> QED
    BY <2>3, <2>4, RunningFiles
<1>2. KimiRolesRegistered
  <2>1. NoConflict(plan)
    BY DEF IInv, CheckInv, Copying, PlanAccepted
  <2>2. ASSUME KimiRoles(plan) # {} PROVE remote["kimi config"] = "private"
    <3>1. ToCopy("kimi config")
      BY <2>2 DEF ToCopy, KimiRoles, AdaptersIn
    <3>2. "kimi config" \in Files
      BY DEF Files
    <3> QED
      BY <3>1, <3>2, RunningFiles
  <2>3. ASSUME NEW r \in KimiRoles(plan) PROVE KimiModels(plan)[r.model] = r.config
    <3>1. KimiModels(plan)[r.model] =
            IF plan.reviewer \in KimiRoles(plan) /\ plan.reviewer.model = r.model
              THEN plan.reviewer.config ELSE plan.modifier.config
      BY <2>3 DEF KimiModels
    <3>2. r = plan.modifier \/ r = plan.reviewer
      BY <2>3 DEF KimiRoles, RolesOf
    <3> QED
      BY <2>1, <2>3, <3>1, <3>2 DEF NoConflict
  <2> QED
    BY <2>2, <2>3 DEF KimiRolesRegistered
<1>3. EndpointsAllowed
  <2> SUFFICES ASSUME NEW r \in RolesOf(plan)
               PROVE  /\ UrlsForwarded(r.adapter) \intersect hostEnv \subseteq Allowlist(plan)
                      /\ r.adapter = "opencode" /\ r.model \in Providers =>
                           r.model \in Allowlist(plan)
    BY DEF EndpointsAllowed
  <2>1. r.adapter \in AdaptersIn(plan)
    BY DEF AdaptersIn
  <2>2. UrlsForwarded(r.adapter) \intersect hostEnv \subseteq Allowlist(plan)
    <3> DEFINE H == {OwnHosts(a) \union (UrlsForwarded(a) \intersect hostEnv) :
                       a \in AdaptersIn(plan)}
    <3>1. OwnHosts(r.adapter) \union (UrlsForwarded(r.adapter) \intersect hostEnv) \in H
      BY <2>1
    <3>2. UNION H \subseteq Allowlist(plan)
      BY DEF Allowlist
    <3> HIDE DEF H
    <3> QED
      BY <3>1, <3>2
  <2>3. ASSUME r.adapter = "opencode", r.model \in Providers PROVE r.model \in Allowlist(plan)
    <3>1. r.model \in OpenCodeHosts(plan)
      BY <2>3 DEF OpenCodeHosts
    <3> QED
      BY <3>1, Zenon DEF Allowlist
  <2> QED
    BY <2>2, <2>3
<1> QED
  BY <1>1, <1>2, <1>3 DEF RuntimeIsServed

\* A runtime that starts has a credential for every adapter whose login was not lost,
\* a registration for every Kimi role and a reachable endpoint.
THEOREM RuntimeIsServedHolds == Spec => []RuntimeIsServed
BY PierInvariance, ServedWhenRunning, PTL

=============================================================================

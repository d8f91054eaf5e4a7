------------------------ MODULE DirectEngine_proofs ------------------------
(***************************************************************************)
(* Proofs about the review loop, for every configuration: its types, its   *)
(* inductive invariant and the safety properties, that it implements the   *)
(* contract of Delivery, and, composed with discovery, that what scoring   *)
(* reads of a run is the run.                                              *)
(***************************************************************************)
EXTENDS EngineDiscovery, GitWorkspace_proofs, FiniteSetTheorems

(***************************************************************************)
(* Type correctness                                                        *)
(***************************************************************************)

\* Changing the last round's record keeps the round list well typed.
LEMMA LastRoundType ==
    ASSUME NEW s \in Seq(RoundRecord), NEW p \in SUBSET Tree,
           NEW m \in {"none", "unattempted", "success", "error"}, NEW k \in TimeoutKinds
    PROVE  /\ [s EXCEPT ![Len(s)].patch = p] \in Seq(RoundRecord)
           /\ [s EXCEPT ![Len(s)].meta = m, ![Len(s)].timeoutKind = k] \in Seq(RoundRecord)
<1>1. s \in [1 .. Len(s) -> RoundRecord] /\ Len(s) \in Nat
  OBVIOUS
<1>2. \A q \in RoundRecord : /\ [q EXCEPT !.patch = p] \in RoundRecord
                             /\ [q EXCEPT !.meta = m] \in RoundRecord
                             /\ [q EXCEPT !.timeoutKind = k] \in RoundRecord
  BY DEF RoundRecord
<1>3. [s EXCEPT ![Len(s)].patch = p] \in [1 .. Len(s) -> RoundRecord]
  BY <1>1, <1>2
<1>4. [s EXCEPT ![Len(s)].meta = m] \in [1 .. Len(s) -> RoundRecord]
  BY <1>1, <1>2
<1>5. [s EXCEPT ![Len(s)].meta = m, ![Len(s)].timeoutKind = k]
        \in [1 .. Len(s) -> RoundRecord]
  BY <1>1, <1>2, <1>4
<1>6. \A f \in [1 .. Len(s) -> RoundRecord] : f \in Seq(RoundRecord)
  BY <1>1
<1>7. QED
  BY <1>3, <1>5, <1>6

LEMMA InitType == Init => TypeOK
<1> SUFFICES ASSUME Init PROVE TypeOK
  OBVIOUS
<1>1. repo \in Repository /\ left \in Nat
  BY ConfigAssumption, CleanCheckoutsType DEF Init
<1>2. rounds \in Seq(RoundRecord)
  BY DEF Init
<1>3. review \in ReviewRecord
  BY DEF Init, ReviewRecord
<1>4. result \in ResultRecord
  BY DEF Init, Outcomes, FailKinds, ResultRecord
<1>5. QED
  BY <1>1, <1>2, <1>3, <1>4
     DEF Init, TypeOK, ExecutePoints, Stages, ModifierStages, TimeoutKinds, FailKinds

\* Concluding, with any outcome and reason, gives a result.
LEMMA ConcludeType ==
    ASSUME TypeOK, NEW o \in Outcomes, NEW d \in FailKinds \union DegradedReasons,
           Conclude(o, d)
    PROVE  pc' = "finalize" /\ result' \in ResultRecord
  BY DEF TypeOK, Conclude, ResultRecord

\* The outcomes and reasons the code concludes with.
LEMMA Conclusions ==
    /\ {"approved", "max_reviews_reached", "degraded", "checkpoint_failed"} \subseteq Outcomes
    /\ InitialOutcome \in Outcomes
    /\ {"none", "timeout", "revision_failed", "infrastructure"}
         \subseteq FailKinds \union DegradedReasons
  BY DEF Outcomes, InitialOutcome, FailKinds, DegradedReasons

\* Every step keeps the types: one case per action.
LEMMA NextType == TypeOK /\ [Next]_vars => TypeOK'
<1> SUFFICES ASSUME TypeOK, [Next]_vars PROVE TypeOK'
  OBVIOUS
<1> USE DEF TypeOK
<1>1. CASE Start
  BY <1>1, ConfigAssumption DEF Start, ExecutePoints, repoVars, turnVars, loopVars,
       agentVars, Repository
<1>2. CASE OpenTurn
  <2>1. rounds' \in Seq(RoundRecord)
    BY <1>2 DEF OpenTurn, RoundRecord, TimeoutKinds
  <2> QED
    BY <1>2, <2>1 DEF OpenTurn, ExecutePoints, repoVars, trustVars, clockVars, loopVars,
         agentVars, FailKinds, TimeoutKinds
<1>3. CASE SnapshotPatch
  <2>1. repo.head \in Commit /\ {repo.head.tree} \in SUBSET Tree
    BY DEF Repository, Commit
  <2>2. rounds' \in Seq(RoundRecord)
    BY <1>3, <2>1, LastRoundType DEF SnapshotPatch
  <2>3. review' \in ReviewRecord
    BY <1>3, <2>1 DEF SnapshotPatch, ReviewRecord
  <2> QED
    BY <1>3, <2>2, <2>3 DEF SnapshotPatch, ExecutePoints, repoVars, trustVars, clockVars,
         turnVars, agentVars
<1>4. CASE AdmitAttempt \/ StartReview
  BY <1>4, ConfigAssumption DEF AdmitAttempt, StartReview, StartTimer, StageTimeout,
       ExecutePoints, repoVars, trustVars,
       turnVars, loopVars, agentVars, TimeoutKinds, Stages
<1>5. CASE SkipAttempt
  BY <1>5 DEF SkipAttempt, ExecutePoints, repoVars, trustVars, clockVars, turnVars,
       loopVars, agentVars,
       TimeoutKinds, FailKinds
<1>6. CASE AttemptsExhausted
  BY <1>6 DEF AttemptsExhausted, ExecutePoints, repoVars, trustVars, clockVars, turnVars,
       loopVars,
       agentVars, FailKinds
<1>7. ASSUME NEW e \in TurnEndings, NEW leavesProcess \in BOOLEAN,
             NEW r \in AgentEffects(repo, turns + 1), EndModifierTurn(e, r, leavesProcess)
      PROVE TypeOK'
  <2>1. r \in Repository
    BY AgentEffectsType
  <2>2. e[1] \in {"success", "error"} /\ e[2] \in TimeoutKinds
    BY DEF TurnEndings, TimeoutKinds
  <2>3. /\ pc' \in ExecutePoints \ {"start"} /\ pc \in ExecutePoints \ {"start"}
        /\ failKind' \in FailKinds /\ timeoutKind' \in TimeoutKinds
        /\ lastStatus' \in {"unattempted", "success", "error"}
    BY <1>7, <2>2 DEF EndModifierTurn, ExecutePoints, FailKinds
  <2>4. /\ turns' \in Nat /\ loose' \subseteq Nat /\ tracked' \in BOOLEAN
        /\ limit' \in Nat /\ limitKind' \in TimeoutKinds
    BY <1>7 DEF EndModifierTurn, TimeoutKinds
  <2> QED
    BY <1>7, <2>1, <2>3, <2>4 DEF EndModifierTurn, trustVars, loopVars
<1>8. CASE Reset
  <2>1. ResetCommit \in Commit
    BY <1>8 DEF Reset, ResetCommit, ExecutePoints
  <2>2. repo' \in Repository
    BY <1>8, <2>1, WorkspaceTypes DEF Reset
  <2> QED
    BY <1>8, <2>2 DEF Reset, ExecutePoints, trustVars, clockVars, turnVars, loopVars,
         agentVars
<1>9. CASE Clean
  BY <1>9, WorkspaceTypes DEF Clean, ExecutePoints, trustVars, clockVars, turnVars,
       loopVars, agentVars
<1>10. CASE InspectHead
  BY <1>10 DEF InspectHead, ExecutePoints, repoVars, trustVars, clockVars, turnVars,
       loopVars, agentVars
<1>11. CASE StageChanges
  BY <1>11, WorkspaceTypes DEF StageChanges, ExecutePoints, trustVars, clockVars, turnVars,
       loopVars, agentVars
<1>12. CASE Decide
  <2>1. /\ pc' \in {"admit", "record"} /\ pc = "decide"
        /\ failKind' \in FailKinds /\ attempt' \in Nat
        /\ turnOk' \in BOOLEAN /\ changed' \in BOOLEAN
        /\ accepted' \subseteq Nat
    <3>1. PICK hasStaged \in BOOLEAN :
            LET didChange == hasStaged \/ HeadMoved IN
            IF RequireChange /\ ~didChange
              THEN /\ pc' = "admit"
                   /\ failKind' = "empty"
                   /\ attempt' = attempt + 1
                   /\ UNCHANGED <<turnOk, changed, accepted>>
              ELSE /\ pc' = "record"
                   /\ turnOk' = TRUE
                   /\ changed' = didChange
                   /\ accepted' = accepted \union {turns}
                   /\ UNCHANGED <<failKind, attempt>>
      BY <1>12 DEF Decide, HasStagedChanges
    <3>2. changed' \in BOOLEAN /\ turnOk' \in BOOLEAN
      BY <3>1, Zenon
    <3>3. pc = "decide"
      BY <1>12 DEF Decide
    <3>4. CASE RequireChange /\ ~(hasStaged \/ HeadMoved)
      <4>1. /\ pc' = "admit" /\ failKind' = "empty"
            /\ attempt' = attempt + 1 /\ accepted' = accepted
        BY <3>1, <3>4, Zenon
      <4> QED
        BY <3>2, <3>3, <4>1 DEF FailKinds
    <3>5. CASE ~(RequireChange /\ ~(hasStaged \/ HeadMoved))
      <4>1. /\ pc' = "record" /\ failKind' = failKind
            /\ attempt' = attempt /\ accepted' = accepted \union {turns}
        BY <3>1, <3>5, Zenon
      <4> QED
        BY <3>2, <3>3, <4>1
    <3> QED
      BY <3>4, <3>5
  <2> QED
    BY <1>12, <2>1 DEF Decide, ExecutePoints, repoVars, trustVars, clockVars, loopVars
<1>13. CASE RecordModifierTurn
  <2>1. rounds' \in Seq(RoundRecord)
    <3>1. IF failKind = "timeout" THEN timeoutKind \in TimeoutKinds ELSE "none" \in TimeoutKinds
      BY DEF TimeoutKinds
    <3> QED
      BY <1>13, <3>1, LastRoundType DEF RecordModifierTurn, WithMetadata
  <2>2. CASE turnOk
    BY <1>13, <2>1, <2>2 DEF RecordModifierTurn, CountsAsRevision, ExecutePoints, repoVars,
         trustVars, clockVars, turnVars, agentVars
  <2>3. CASE ~turnOk
    <3>1. PICK o \in Outcomes, d \in FailKinds \union DegradedReasons : Conclude(o, d)
      BY <1>13, <2>3, Conclusions DEF RecordModifierTurn
    <3> QED
      BY <1>13, <2>1, <2>3, <3>1, ConcludeType DEF RecordModifierTurn, ExecutePoints,
           repoVars,
         trustVars, clockVars, turnVars, agentVars
  <2> QED
    BY <2>2, <2>3
<1>14. CASE CommitCheckpoint
  <2>1. repo' \in Repository
    BY <1>14, WorkspaceTypes DEF CommitCheckpoint
  <2> QED
    BY <1>14, <2>1 DEF CommitCheckpoint, ExecutePoints, trustVars, clockVars, turnVars,
         loopVars, agentVars
<1>15. CASE MarkCheckpoint
  <2>1. repo.head \in Commit /\ checkpoints' \subseteq Commit
    BY <1>15 DEF MarkCheckpoint, Repository
  <2>2. /\ pc' \in {"loop", "finalize"}
        /\ round' \in Nat /\ noChangeRevision' \in BOOLEAN
        /\ result' \in ResultRecord
    <3>1. CASE stage = "modify"
      BY <1>15, <3>1 DEF MarkCheckpoint
    <3>2. CASE stage \in {"revise", "final-revision"} /\ ~changed
      BY <1>15, <3>2, ConcludeType, Conclusions DEF MarkCheckpoint
    <3>3. CASE stage = "final-revision" /\ changed
      BY <1>15, <3>3, ConcludeType, Conclusions DEF MarkCheckpoint
    <3>4. CASE stage = "review" \/ (stage = "revise" /\ changed)
      BY <1>15, <3>4 DEF MarkCheckpoint
    <3> QED
      BY <3>1, <3>2, <3>3, <3>4 DEF Stages, ModifierStages
  <2> QED
    BY <1>15, <2>1, <2>2 DEF MarkCheckpoint, ExecutePoints, repoVars, clockVars, turnVars,
         agentVars
<1>16. CASE BeginRound
  <2>1. /\ pc' \in {"open", "finalize"}
        /\ stage' \in Stages
        /\ result' \in ResultRecord
    BY <1>16, ConcludeType, Conclusions DEF BeginRound, Stages
  <2> QED
    BY <1>16, <2>1 DEF BeginRound, ExecutePoints, repoVars, trustVars, clockVars, loopVars,
         agentVars
<1>17. ASSUME NEW e \in TurnEndings, NEW verdict \in {"invalid", "blocking", "clean"},
              EndReviewTurn(e, verdict)
       PROVE TypeOK'
  <2>1. e[1] \in {"success", "error"} /\ e[2] \in TimeoutKinds
    BY DEF TurnEndings, TimeoutKinds
  <2>2. /\ pc' \in {"admit", "record"}
        /\ review' \in ReviewRecord
        /\ failKind' \in FailKinds /\ timeoutKind' \in TimeoutKinds
        /\ turnOk' \in BOOLEAN /\ attempt' \in Nat
    <3>1. /\ [review EXCEPT !.blocking = (verdict = "blocking")] \in ReviewRecord
          /\ "timeout" \in FailKinds /\ "reviewer_failed" \in FailKinds
          /\ "invalid_review_output" \in FailKinds
      BY DEF ReviewRecord, FailKinds
    <3>2. CASE ~TurnSucceeded(e)
      BY <1>17, <2>1, <3>1, <3>2 DEF EndReviewTurn
    <3>3. CASE TurnSucceeded(e) /\ verdict = "invalid"
      BY <1>17, <2>1, <3>1, <3>3 DEF EndReviewTurn
    <3>4. CASE TurnSucceeded(e) /\ verdict # "invalid"
      BY <1>17, <2>1, <3>1, <3>4 DEF EndReviewTurn
    <3> QED
      BY <3>2, <3>3, <3>4
  <2> QED
    BY <1>17, <2>1, <2>2 DEF EndReviewTurn, ExecutePoints, repoVars, trustVars, agentVars,
         TimeoutKinds
<1>18. CASE RecordReviewTurn
  <2>1. rounds' \in Seq(RoundRecord)
    <3>1. IF failKind = "timeout" THEN timeoutKind \in TimeoutKinds ELSE "none" \in TimeoutKinds
      BY DEF TimeoutKinds
    <3> QED
      BY <1>18, <3>1, LastRoundType DEF RecordReviewTurn, WithMetadata
  <2>2. /\ pc' \in {"open", "finalize"}
        /\ stage' \in Stages /\ reviewCount' \in Nat
        /\ result' \in ResultRecord
    BY <1>18, ConcludeType, Conclusions DEF RecordReviewTurn, Stages, ModifierStages
  <2> QED
    BY <1>18, <2>1, <2>2 DEF RecordReviewTurn, ExecutePoints, repoVars, trustVars,
         clockVars,
         agentVars
<1>19. CASE InfrastructureFailure
  <2>1. PICK o \in Outcomes, d \in FailKinds \union DegradedReasons : Conclude(o, d)
    BY <1>19, Conclusions DEF InfrastructureFailure
  <2> QED
    BY <1>19, <2>1, ConcludeType DEF InfrastructureFailure, ExecutePoints, repoVars,
         trustVars,
         clockVars, turnVars, loopVars, agentVars
<1>20. CASE Finalize
  <2>1. repo.head \in Commit
    BY DEF Repository
  <2>2. result' \in ResultRecord
    BY <1>20, <2>1 DEF Finalize, isDeliverable, DELIVERABLE_OUTCOMES, Outcomes, ResultRecord
  <2> QED
    BY <1>20, <2>2 DEF Finalize, ExecutePoints, repoVars, trustVars, clockVars, turnVars,
         loopVars, agentVars
<1>21. CASE FinalizeFails
  <2>1. repo.head \in Commit
    BY DEF Repository
  <2>2. result' \in ResultRecord
    BY <1>21, <2>1 DEF FinalizeFails, Outcomes, ResultRecord
  <2> QED
    BY <1>21, <2>2 DEF FinalizeFails, ExecutePoints, repoVars, trustVars, clockVars,
         turnVars,
         loopVars, agentVars
<1>22. CASE Elapse
  BY <1>22 DEF Elapse, repoVars, trustVars, turnVars, loopVars, agentVars
<1>23. CASE Stray
  <2>1. repo' \in Repository
    <3>1. PICK t \in loose : repo' = StrayWrite(repo, t)
      BY <1>23 DEF Stray
    <3> QED
      BY <3>1, WorkspaceTypes, RootCommitType
  <2> QED
    BY <1>23, <2>1 DEF Stray, trustVars, clockVars, turnVars, loopVars, agentVars
<1>24. CASE UNCHANGED vars
  BY <1>24 DEF vars, repoVars, trustVars, clockVars, turnVars, loopVars, agentVars
<1>25. QED
  BY <1>1, <1>2, <1>3, <1>4, <1>5, <1>6, <1>7, <1>8, <1>9, <1>10, <1>11, <1>12, <1>13,
       <1>14,
     <1>15, <1>16, <1>17, <1>18, <1>19, <1>20, <1>21, <1>22, <1>23, <1>24 DEF Next, Engine, Progress

\* Every variable keeps its type, for every configuration.
THEOREM TypeCorrect == Spec => []TypeOK
  BY InitType, NextType, PTL DEF Spec

(***************************************************************************)
(* The inductive invariant IInv, part by part: one lemma says that a step  *)
(* keeps one part, given the parts it leans on.                            *)
(***************************************************************************)

LEMMA ControlStep == TypeOK /\ ControlInv /\ [Next]_vars => ControlInv'
<1> SUFFICES ASSUME TypeOK, ControlInv, [Next]_vars PROVE ControlInv'
  OBVIOUS
<1> USE DEF ControlInv, InJudgement, ModifierStages
<1>1. CASE Start
  BY <1>1 DEF Start, repoVars, turnVars, agentVars, trustVars
<1>2. CASE OpenTurn \/ SnapshotPatch \/ AdmitAttempt \/ StartReview \/ SkipAttempt \/ AttemptsExhausted
  BY <1>2 DEF TypeOK, Stages, OpenTurn, SnapshotPatch, AdmitAttempt, StartReview,
       SkipAttempt, AttemptsExhausted,
       trustVars, turnVars
<1>3. ASSUME NEW e, NEW r, NEW p, EndModifierTurn(e, r, p) PROVE ControlInv'
  BY <1>3 DEF EndModifierTurn, trustVars
<1>4. CASE Reset \/ Clean \/ InspectHead \/ StageChanges
  BY <1>4 DEF Reset, Clean, InspectHead, StageChanges, trustVars, turnVars
<1>5. CASE Decide
  BY <1>5 DEF Decide, trustVars
<1>6. CASE RecordModifierTurn
  BY <1>6 DEF RecordModifierTurn, Conclude, trustVars, turnVars
<1>7. CASE CommitCheckpoint \/ MarkCheckpoint
  BY <1>7 DEF CommitCheckpoint, MarkCheckpoint, Conclude, trustVars, turnVars
<1>8. CASE BeginRound
  BY <1>8 DEF BeginRound, Conclude, trustVars
<1>9. ASSUME NEW e, NEW v, EndReviewTurn(e, v) PROVE ControlInv'
  BY <1>9 DEF EndReviewTurn, trustVars
<1>10. CASE RecordReviewTurn
  BY <1>10 DEF RecordReviewTurn, Conclude, trustVars
<1>11. CASE InfrastructureFailure
  BY <1>11 DEF InfrastructureFailure, Conclude, trustVars, turnVars
<1>12. CASE Finalize \/ FinalizeFails
  BY <1>12 DEF Finalize, FinalizeFails, trustVars, turnVars
<1>13. CASE Elapse \/ UNCHANGED vars
  BY <1>13 DEF Elapse, vars, repoVars, trustVars, turnVars, agentVars
<1>14. CASE Stray
  BY <1>14 DEF Stray, trustVars, turnVars, agentVars
<1> QED
  BY <1>1, <1>2, <1>3, <1>4, <1>5, <1>6, <1>7, <1>8, <1>9, <1>10, <1>11, <1>12, <1>13, <1>14
     DEF Next, Engine, Progress

LEMMA HeadStep == TypeOK /\ ControlInv /\ HeadInv /\ [Next]_vars => HeadInv'
<1> SUFFICES ASSUME TypeOK, ControlInv, HeadInv, [Next]_vars PROVE HeadInv'
  OBVIOUS
<1> USE DEF HeadInv, AtCheckpoint, Reviewing, GivenUp
<1>1. CASE Start
  BY <1>1 DEF Start, ControlInv, repoVars, RootCommit
<1>2. CASE OpenTurn \/ SnapshotPatch \/ AdmitAttempt \/ StartReview
  BY <1>2 DEF ControlInv, OpenTurn, SnapshotPatch, AdmitAttempt, StartReview, repoVars,
       trustVars, agentVars
<1>3. CASE SkipAttempt \/ AttemptsExhausted
  BY <1>3 DEF TypeOK, Stages, ControlInv, SkipAttempt, AttemptsExhausted, repoVars,
       trustVars, agentVars
<1>4. ASSUME NEW e \in TurnEndings, NEW p \in BOOLEAN,
             NEW r \in AgentEffects(repo, turns + 1), EndModifierTurn(e, r, p)
      PROVE HeadInv'
  <2>1. r.head \in {repo.head, RootCommit} \/ r.head.turn = turns + 1
    BY AgentTouches DEF TypeOK
  <2> QED
    BY <1>4, <2>1 DEF EndModifierTurn, trustVars
<1>5. CASE Reset
  BY <1>5 DEF Reset, HardReset, ResetCommit, ControlInv, ModifierStages, trustVars,
       agentVars
<1>6. CASE Clean
  BY <1>6 DEF Clean, RemoveFresh, TypeOK, Repository, trustVars, agentVars
<1>7. CASE InspectHead
  BY <1>7 DEF InspectHead, repoVars, agentVars
<1>8. CASE StageChanges
  BY <1>8 DEF StageChanges, StageAllExcept, TypeOK, Repository, trustVars, agentVars
<1>9. CASE Decide
  <2>1. CASE pc' = "record"
    BY <1>9, <2>1 DEF Decide, repoVars, trustVars, ControlInv, InJudgement, ModifierStages
  <2>2. CASE pc' # "record"
    <3>1. /\ pc' = "admit" /\ stage = "modify"
          /\ repo.index = repo.head.tree /\ repo.head = baseCommit
      BY <1>9, <2>2 DEF Decide, RequireChange, HeadMoved, HasStagedChanges, ResetCommit
    <3> QED
      BY <1>9, <3>1 DEF Decide, ControlInv, repoVars, trustVars
  <2> QED
    BY <2>1, <2>2
<1>10. CASE RecordModifierTurn
  BY <1>10 DEF RecordModifierTurn, Conclude, repoVars, trustVars, agentVars
<1>11. CASE CommitCheckpoint
  BY <1>11 DEF CommitCheckpoint, CommitIndex, HasStagedChanges, TypeOK, Repository,
       trustVars, agentVars
<1>12. CASE MarkCheckpoint
  BY <1>12 DEF MarkCheckpoint, Conclude, repoVars, agentVars
<1>13. CASE BeginRound
  BY <1>13 DEF BeginRound, Conclude, repoVars, trustVars, agentVars
<1>14. ASSUME NEW e, NEW v, EndReviewTurn(e, v) PROVE HeadInv'
  BY <1>14 DEF EndReviewTurn, repoVars, trustVars, agentVars
<1>15. CASE RecordReviewTurn
  BY <1>15 DEF RecordReviewTurn, Conclude, repoVars, trustVars, agentVars
<1>16. CASE InfrastructureFailure
  BY <1>16 DEF InfrastructureFailure, Conclude, repoVars, trustVars, agentVars
<1>17. CASE Finalize \/ FinalizeFails
  BY <1>17 DEF Finalize, FinalizeFails, repoVars, trustVars, agentVars
<1>18. CASE Elapse \/ UNCHANGED vars
  BY <1>18 DEF Elapse, vars, repoVars, trustVars, turnVars, agentVars
<1>19. CASE Stray
  BY <1>19 DEF Stray, StrayWrite, TypeOK, Repository, trustVars, turnVars, agentVars
<1> QED
  BY <1>1, <1>2, <1>3, <1>4, <1>5, <1>6, <1>7, <1>8, <1>9, <1>10, <1>11, <1>12, <1>13,
       <1>14,
     <1>15, <1>16, <1>17, <1>18, <1>19 DEF Next, Engine, Progress

LEMMA WorkStep ==
    TypeOK /\ ControlInv /\ HeadInv /\ WorkInv /\ [Next]_vars => WorkInv'
<1> SUFFICES ASSUME TypeOK, ControlInv, HeadInv, WorkInv, [Next]_vars PROVE WorkInv'
  OBVIOUS
<1> USE DEF WorkInv, AtCheckpoint, Reviewing, GivenUp, InJudgement, AcceptedTurn,
Committing,
            Known
<1>1. CASE Start
  BY <1>1 DEF Start, ControlInv, HeadInv, repoVars, agentVars, RootCommit
<1>2. CASE OpenTurn \/ SnapshotPatch \/ AdmitAttempt \/ StartReview
  BY <1>2 DEF OpenTurn, SnapshotPatch, AdmitAttempt, StartReview, repoVars, trustVars,
       agentVars
<1>3. CASE SkipAttempt \/ AttemptsExhausted
  BY <1>3 DEF TypeOK, Stages, ControlInv, SkipAttempt, AttemptsExhausted, repoVars,
       trustVars, agentVars
<1>4. ASSUME NEW e \in TurnEndings, NEW p \in BOOLEAN,
             NEW r \in AgentEffects(repo, turns + 1), EndModifierTurn(e, r, p)
      PROVE WorkInv'
  <2>1. r.head.tree \union r.index \union r.work
          \subseteq repo.head.tree \union repo.index \union repo.work \union {turns + 1}
    BY AgentTouches DEF TypeOK
  <2>2. repo.head.tree \union repo.index \union repo.work \subseteq Known
    BY <1>4 DEF EndModifierTurn, HeadInv
  <2> QED
    BY <1>4, <2>1, <2>2 DEF EndModifierTurn, trustVars
<1>5. CASE Reset
  <2>1. ResetCommit = lastCheckpoint
    BY <1>5 DEF Reset, ResetCommit, ControlInv
  <2> QED
    BY <1>5, <2>1 DEF Reset, HardReset, trustVars, agentVars
<1>6. CASE Clean
  BY <1>6 DEF Clean, RemoveFresh, HeadInv, TypeOK, Repository, trustVars, agentVars
<1>7. CASE InspectHead
  BY <1>7 DEF InspectHead, repoVars, agentVars
<1>8. CASE StageChanges
  BY <1>8 DEF StageChanges, StageAllExcept, TypeOK, Repository, trustVars, agentVars
<1>9. CASE Decide
  <2>1. CASE pc' = "record"
    BY <1>9, <2>1 DEF Decide, repoVars, trustVars, RequireChange, ControlInv
  <2>2. CASE pc' # "record"
    <3>1. /\ pc' = "admit" /\ stage = "modify" /\ accepted' = accepted
          /\ repo.index = repo.head.tree /\ repo.head = baseCommit
      BY <1>9, <2>2 DEF Decide, RequireChange, HeadMoved, HasStagedChanges, ResetCommit
    <3> QED
      BY <1>9, <3>1 DEF Decide, ControlInv, repoVars, trustVars
  <2> QED
    BY <2>1, <2>2
<1>10. CASE RecordModifierTurn
  BY <1>10 DEF RecordModifierTurn, Conclude, repoVars, trustVars, turnVars, agentVars
<1>11. CASE CommitCheckpoint
  BY <1>11 DEF CommitCheckpoint, CommitIndex, TypeOK, Repository, trustVars, agentVars
<1>12. CASE MarkCheckpoint
  BY <1>12 DEF MarkCheckpoint, Conclude, repoVars, agentVars
<1>13. CASE BeginRound
  BY <1>13 DEF BeginRound, Conclude, repoVars, trustVars, agentVars
<1>14. ASSUME NEW e, NEW v, EndReviewTurn(e, v) PROVE WorkInv'
  BY <1>14 DEF EndReviewTurn, ModifierStages, repoVars, trustVars, agentVars
<1>15. CASE RecordReviewTurn
  BY <1>15 DEF RecordReviewTurn, Conclude, repoVars, trustVars, agentVars
<1>16. CASE InfrastructureFailure
  BY <1>16 DEF InfrastructureFailure, Conclude, repoVars, trustVars, agentVars
<1>17. CASE Finalize \/ FinalizeFails
  BY <1>17 DEF Finalize, FinalizeFails, repoVars, trustVars, agentVars
<1>18. CASE Elapse \/ UNCHANGED vars
  BY <1>18 DEF Elapse, vars, repoVars, trustVars, turnVars, agentVars
<1>19. CASE Stray
  BY <1>19 DEF Stray, StrayWrite, TypeOK, Repository, trustVars, turnVars, agentVars
<1> QED
  BY <1>1, <1>2, <1>3, <1>4, <1>5, <1>6, <1>7, <1>8, <1>9, <1>10, <1>11, <1>12, <1>13,
       <1>14,
     <1>15, <1>16, <1>17, <1>18, <1>19 DEF Next, Engine, Progress

LEMMA OriginStep ==
    TypeOK /\ ControlInv /\ HeadInv /\ OriginInv /\ [Next]_vars => OriginInv'
<1> SUFFICES ASSUME TypeOK, ControlInv, HeadInv, OriginInv, [Next]_vars PROVE OriginInv'
  OBVIOUS
<1> USE DEF OriginInv, AcceptedTurn, Committing
<1>1. CASE Start
  BY <1>1 DEF Start, ControlInv, repoVars, agentVars, RootCommit
<1>2. CASE OpenTurn \/ SnapshotPatch \/ AdmitAttempt \/ StartReview \/ SkipAttempt \/ AttemptsExhausted
  BY <1>2 DEF OpenTurn, SnapshotPatch, AdmitAttempt, StartReview, SkipAttempt,
       AttemptsExhausted,
       ControlInv, repoVars, trustVars, agentVars
<1>3. ASSUME NEW e \in TurnEndings, NEW p \in BOOLEAN,
             NEW r \in AgentEffects(repo, turns + 1), EndModifierTurn(e, r, p)
      PROVE OriginInv'
  <2>1. r.head \in {repo.head, RootCommit} \/ (r.head.by = "modifier" /\ r.head.turn = turns + 1)
    BY AgentTouches DEF TypeOK
  <2>2. repo.head = lastCheckpoint /\ tracked' = (tracked \/ BaseFile \in r.index \union r.head.tree)
    BY <1>3 DEF EndModifierTurn, HeadInv, AtCheckpoint
  <2>3. BaseFile \in r.head.tree \union r.index \union lastCheckpoint.tree => tracked'
    BY <2>2
  <2> QED
    BY <1>3, <2>1, <2>2, <2>3 DEF EndModifierTurn, trustVars, RootCommit
<1>4. CASE Reset
  BY <1>4 DEF Reset, HardReset, ResetCommit, ControlInv, trustVars, agentVars
<1>5. CASE Clean
  BY <1>5 DEF Clean, RemoveFresh, TypeOK, Repository, trustVars, agentVars
<1>6. CASE InspectHead
  BY <1>6 DEF InspectHead, HeadMoved, ResetCommit, ControlInv, repoVars, agentVars
<1>7. CASE StageChanges
  BY <1>7 DEF StageChanges, StageAllExcept, TypeOK, Repository, trustVars, agentVars
<1>8. CASE Decide
  BY <1>8 DEF Decide, repoVars, trustVars
<1>9. CASE RecordModifierTurn
  BY <1>9 DEF RecordModifierTurn, Conclude, repoVars, trustVars, turnVars, agentVars
<1>10. CASE CommitCheckpoint
  BY <1>10 DEF CommitCheckpoint, CommitIndex, TypeOK, Repository, trustVars, agentVars
<1>11. CASE MarkCheckpoint
  BY <1>11 DEF MarkCheckpoint, Conclude, repoVars, agentVars
<1>12. CASE BeginRound
  BY <1>12 DEF BeginRound, Conclude, repoVars, trustVars, agentVars
<1>13. ASSUME NEW e, NEW v, EndReviewTurn(e, v) PROVE OriginInv'
  BY <1>13 DEF EndReviewTurn, ModifierStages, repoVars, trustVars, agentVars
<1>14. CASE RecordReviewTurn
  BY <1>14 DEF RecordReviewTurn, Conclude, repoVars, trustVars, agentVars
<1>15. CASE InfrastructureFailure \/ Finalize \/ FinalizeFails
  BY <1>15 DEF InfrastructureFailure, Finalize, FinalizeFails, Conclude, repoVars,
       trustVars,
       agentVars
<1>16. CASE Elapse \/ UNCHANGED vars
  BY <1>16 DEF Elapse, vars, repoVars, trustVars, turnVars, agentVars
<1>17. CASE Stray
  BY <1>17 DEF Stray, StrayWrite, TypeOK, Repository, trustVars, turnVars, agentVars
<1> QED
  BY <1>1, <1>2, <1>3, <1>4, <1>5, <1>6, <1>7, <1>8, <1>9, <1>10, <1>11, <1>12, <1>13,
       <1>14,
     <1>15, <1>16, <1>17 DEF Next, Engine, Progress


LEMMA ReviewStep == TypeOK /\ ControlInv /\ HeadInv /\ ReviewInv /\ [Next]_vars => ReviewInv'
<1> SUFFICES ASSUME TypeOK, ControlInv, HeadInv, ReviewInv, [Next]_vars PROVE ReviewInv'
  OBVIOUS
<1> USE DEF ReviewInv
<1>1. CASE Start
  BY <1>1 DEF Start, ControlInv, turnVars, loopVars
<1>2. CASE OpenTurn \/ SnapshotPatch
  BY <1>2 DEF OpenTurn, SnapshotPatch, HeadInv, AtCheckpoint, ControlInv, TypeOK,
       ReviewRecord,
       trustVars, turnVars, loopVars
<1>3. CASE AdmitAttempt \/ StartReview \/ SkipAttempt \/ AttemptsExhausted
  BY <1>3 DEF AdmitAttempt, StartReview, SkipAttempt, AttemptsExhausted, trustVars,
       turnVars, loopVars
<1>4. ASSUME NEW e, NEW r, NEW p, EndModifierTurn(e, r, p) PROVE ReviewInv'
  BY <1>4 DEF EndModifierTurn, ModifierStages, trustVars, loopVars
<1>5. CASE Reset \/ Clean \/ InspectHead \/ StageChanges \/ Decide
  BY <1>5 DEF Reset, Clean, InspectHead, StageChanges, Decide, ControlInv, ModifierStages,
       trustVars, turnVars, loopVars
<1>6. CASE RecordModifierTurn \/ CommitCheckpoint
  BY <1>6 DEF RecordModifierTurn, CommitCheckpoint, Conclude, trustVars, turnVars, loopVars
<1>7. CASE MarkCheckpoint
  BY <1>7 DEF MarkCheckpoint, Conclude, turnVars
<1>8. CASE BeginRound
  BY <1>8 DEF BeginRound, Conclude, trustVars, loopVars
<1>9. ASSUME NEW e, NEW v, EndReviewTurn(e, v) PROVE ReviewInv'
  BY <1>9 DEF EndReviewTurn, trustVars, TypeOK, ReviewRecord
<1>10. CASE RecordReviewTurn
  BY <1>10 DEF RecordReviewTurn, Approves, Conclude, trustVars
<1>11. CASE InfrastructureFailure \/ Finalize \/ FinalizeFails
  BY <1>11 DEF InfrastructureFailure, Finalize, FinalizeFails, Conclude, trustVars,
       turnVars,
       loopVars
<1>12. CASE Elapse \/ Stray \/ UNCHANGED vars
  BY <1>12 DEF Elapse, Stray, vars, trustVars, turnVars, loopVars
<1> QED
  BY <1>1, <1>2, <1>3, <1>4, <1>5, <1>6, <1>7, <1>8, <1>9, <1>10, <1>11, <1>12 DEF Next,
       Engine, Progress

LEMMA CountStep == TypeOK /\ ControlInv /\ CountInv /\ [Next]_vars => CountInv'
<1> SUFFICES ASSUME TypeOK, ControlInv, CountInv, [Next]_vars PROVE CountInv'
  OBVIOUS
<1> USE ConfigAssumption DEF TypeOK, CountInv, Over
<1>1. CASE Start
  BY <1>1 DEF Start, ControlInv, turnVars, loopVars
<1>2. CASE OpenTurn \/ SnapshotPatch \/ AdmitAttempt \/ StartReview \/ SkipAttempt \/ AttemptsExhausted
  <2>1. /\ pc \in {"open", "snapshot", "admit", "copy"}
        /\ pc' \in {"snapshot", "admit", "copy", "running", "record"}
        /\ UNCHANGED <<stage, round, reviewCount, revisionCount, noChangeRevision>>
    BY <1>2 DEF OpenTurn, SnapshotPatch, AdmitAttempt, StartReview, SkipAttempt,
         AttemptsExhausted,
         turnVars, loopVars
  <2> QED
    BY <2>1
<1>3. ASSUME NEW e, NEW r, NEW p, EndModifierTurn(e, r, p) PROVE CountInv'
  BY <1>3 DEF EndModifierTurn, ModifierStages, loopVars
<1>4. CASE Reset \/ Clean \/ InspectHead \/ StageChanges \/ Decide
  BY <1>4 DEF Reset, Clean, InspectHead, StageChanges, Decide, turnVars, loopVars
<1>5. CASE RecordModifierTurn
  BY <1>5 DEF RecordModifierTurn, CountsAsRevision, Conclude, ModifierStages, turnVars
<1>6. CASE CommitCheckpoint
  BY <1>6 DEF CommitCheckpoint, turnVars, loopVars
<1>7. CASE MarkCheckpoint
  BY <1>7 DEF MarkCheckpoint, Conclude, ControlInv, ModifierStages, turnVars
<1>8. CASE BeginRound
  BY <1>8 DEF BeginRound, Conclude, loopVars
<1>9. ASSUME NEW e, NEW v, EndReviewTurn(e, v) PROVE CountInv'
  BY <1>9 DEF EndReviewTurn
<1>10. CASE RecordReviewTurn
  BY <1>10 DEF RecordReviewTurn, Conclude
<1>11. CASE InfrastructureFailure \/ Finalize \/ FinalizeFails
  BY <1>11 DEF InfrastructureFailure, Finalize, FinalizeFails, Conclude, turnVars, loopVars
<1>12. CASE Elapse \/ Stray \/ UNCHANGED vars
  BY <1>12 DEF Elapse, Stray, vars, turnVars, loopVars
<1> QED
  BY <1>1, <1>2, <1>3, <1>4, <1>5, <1>6, <1>7, <1>8, <1>9, <1>10, <1>11, <1>12 DEF Next,
       Engine, Progress


\* What Conclude leaves in the result.
LEMMA Concluded ==
    ASSUME TypeOK, NEW o, NEW d, Conclude(o, d)
    PROVE  /\ pc' = "finalize"
           /\ result'.outcome = o /\ result'.degradedReason = d
           /\ result'.deliverable = result.deliverable
           /\ result'.finalCommit = result.finalCommit
  BY DEF TypeOK, ResultRecord, Conclude

LEMMA ResultStep == TypeOK /\ ControlInv /\ HeadInv /\ ReviewInv /\ CountInv /\ ResultInv /\ [Next]_vars
                      => ResultInv'
<1> SUFFICES ASSUME TypeOK, ControlInv, HeadInv, ReviewInv, CountInv, ResultInv, [Next]_vars
             PROVE  ResultInv'
  OBVIOUS
<1> USE DEF ResultInv, Over, Done, Infrastructure
<1>0. pc \notin {"finalize", "done"} => ~noChangeRevision /\ ~result.deliverable
  BY DEF CountInv
<1>1. CASE \/ Start \/ OpenTurn \/ SnapshotPatch \/ AdmitAttempt \/ StartReview \/ SkipAttempt
           \/ AttemptsExhausted \/ Reset \/ Clean \/ InspectHead \/ StageChanges \/ Decide
           \/ CommitCheckpoint
  <2>1. ~Over /\ ~Over' /\ result' = result
    BY <1>1 DEF Start, OpenTurn, SnapshotPatch, AdmitAttempt, StartReview, SkipAttempt,
         AttemptsExhausted,
         Reset, Clean, InspectHead, StageChanges, Decide, CommitCheckpoint
  <2> QED
    BY <2>1
<1>2. ASSUME NEW e, NEW r, NEW p, EndModifierTurn(e, r, p) PROVE ResultInv'
  BY <1>2 DEF EndModifierTurn
<1>3. ASSUME NEW e, NEW v, EndReviewTurn(e, v) PROVE ResultInv'
  BY <1>3 DEF EndReviewTurn
<1>4. CASE RecordModifierTurn
  <2>1. CASE turnOk
    BY <1>4, <2>1 DEF RecordModifierTurn
  <2>2. CASE ~turnOk /\ stage = "modify"
    <3>1. Conclude(InitialOutcome, "none")
      BY <1>4, <2>2 DEF RecordModifierTurn
    <3>2. InitialOutcome \in {"timeout", "empty_patch", "modifier_failed"}
      BY DEF InitialOutcome
    <3> QED
      BY <1>4, <1>0, <3>1, <3>2, Concluded DEF RecordModifierTurn, DELIVERABLE_OUTCOMES
  <2>3. CASE ~turnOk /\ stage # "modify"
    <3>1. \E d \in {"timeout", "revision_failed"} : Conclude("degraded", d)
      BY <1>4, <2>3 DEF RecordModifierTurn
    <3>2. repo'.head = lastCheckpoint'
      BY <1>4, <2>3 DEF RecordModifierTurn, HeadInv, AtCheckpoint, GivenUp, repoVars,
           trustVars
    <3> QED
      BY <1>4, <1>0, <3>1, <3>2, Concluded DEF RecordModifierTurn
  <2> QED
    BY <2>1, <2>2, <2>3
<1>5. CASE MarkCheckpoint
  <2>1. CASE pc' = "loop"
    BY <1>5, <2>1 DEF MarkCheckpoint, Conclude
  <2>2. CASE pc' # "loop"
    <3>1. stage \in {"revise", "final-revision"} /\ Conclude("max_reviews_reached", "none")
      BY <1>5, <2>2 DEF MarkCheckpoint, ControlInv, ModifierStages
    <3>2. reviewCount' = revisionCount' /\ lastCheckpoint' = repo'.head
      BY <1>5, <3>1 DEF MarkCheckpoint, CountInv, repoVars
    <3> QED
      BY <1>5, <1>0, <3>1, <3>2, Concluded DEF MarkCheckpoint
  <2> QED
    BY <2>1, <2>2
<1>6. CASE BeginRound
  <2>1. CASE pc' = "open"
    BY <1>6, <2>1 DEF BeginRound, Conclude
  <2>2. CASE pc' # "open"
    <3>1. /\ repo'.head = lastCheckpoint' /\ reviewCount' = revisionCount'
          /\ noChangeRevision' = noChangeRevision
      BY <1>6 DEF BeginRound, HeadInv, AtCheckpoint, CountInv, repoVars, trustVars, loopVars
    <3>2. Conclude("max_reviews_reached", "none") \/ Conclude("degraded", "timeout")
      BY <1>6, <2>2 DEF BeginRound
    <3> QED
      BY <1>6, <1>0, <3>1, <3>2, Concluded DEF BeginRound
  <2> QED
    BY <2>1, <2>2
<1>7. CASE RecordReviewTurn
  <2>1. /\ repo'.head = lastCheckpoint' /\ review'.commit = lastCheckpoint'
        /\ review' = review /\ noChangeRevision' = noChangeRevision
    BY <1>7 DEF RecordReviewTurn, HeadInv, AtCheckpoint, Reviewing, ReviewInv, repoVars,
         trustVars
  <2>2. CASE turnOk /\ Approves
    <3>1. ~review.blocking /\ Conclude("approved", "none") /\ reviewCount' = reviewCount + 1
      BY <1>7, <2>2 DEF RecordReviewTurn, Approves
    <3>2. reviewCount' = revisionCount' + 1
      BY <1>7, <3>1 DEF RecordReviewTurn, CountInv, TypeOK
    <3> QED
      BY <1>7, <1>0, <2>1, <3>1, <3>2, Concluded DEF RecordReviewTurn
  <2>3. CASE ~turnOk
    <3>1. Conclude("degraded", failKind)
      BY <1>7, <2>3 DEF RecordReviewTurn, Approves
    <3> QED
      BY <1>7, <1>0, <2>1, <3>1, Concluded DEF RecordReviewTurn
  <2>4. CASE turnOk /\ ~Approves
    <3>1. pc' = "open" \/ Conclude("degraded", "timeout")
      BY <1>7, <2>4 DEF RecordReviewTurn
    <3> QED
      BY <1>7, <1>0, <2>1, <3>1, Concluded DEF RecordReviewTurn
  <2> QED
    BY <2>2, <2>3, <2>4
<1>8. CASE InfrastructureFailure
  <2>1. Conclude("degraded", "infrastructure") \/ Conclude("checkpoint_failed", "none")
    BY <1>8 DEF InfrastructureFailure
  <2>2. pc \notin {"finalize", "done"} /\ noChangeRevision' = noChangeRevision
    BY <1>8 DEF InfrastructureFailure, ExecutePoints, loopVars
  <2> QED
    BY <1>0, <2>1, <2>2, Concluded DEF DELIVERABLE_OUTCOMES
<1>9. CASE Finalize
  BY <1>9 DEF Finalize, isDeliverable, DELIVERABLE_OUTCOMES, TypeOK, ResultRecord, repoVars,
       trustVars, loopVars
<1>10. CASE FinalizeFails
  BY <1>10 DEF FinalizeFails, DELIVERABLE_OUTCOMES, TypeOK, ResultRecord, repoVars,
       trustVars, loopVars
<1>11. CASE Elapse \/ UNCHANGED vars
  BY <1>11 DEF Elapse, vars, repoVars, trustVars, loopVars
<1>12. CASE Stray
  BY <1>12 DEF Stray, StrayWrite, TypeOK, Repository, trustVars, loopVars
<1> QED
  BY <1>1, <1>2, <1>3, <1>4, <1>5, <1>6, <1>7, <1>8, <1>9, <1>10, <1>11, <1>12 DEF Next,
       Engine, Progress


(***************************************************************************)
(* The inductive invariant                                                 *)
(***************************************************************************)

LEMMA InitIInv == Init => IInv
<1> SUFFICES ASSUME Init PROVE IInv
  OBVIOUS
<1>1. TypeOK
  BY InitType
<1>2. repo.head = RootCommit /\ repo.index = {} /\ repo.work \subseteq {BaseFile}
  BY DEF Init, CleanCheckouts
<1>3. ControlInv /\ HeadInv /\ WorkInv /\ OriginInv
  BY <1>2 DEF Init, ControlInv, HeadInv, WorkInv, OriginInv, AtCheckpoint, Reviewing,
       GivenUp,
       InJudgement, AcceptedTurn, Committing, Known, ModifierStages, RootCommit, NoCommit
<1>4. ReviewInv /\ CountInv /\ ResultInv
  BY ConfigAssumption DEF Init, ReviewInv, CountInv, ResultInv, Over, Done
<1> QED
  BY <1>1, <1>3, <1>4 DEF IInv

LEMMA StepIInv == IInv /\ [Next]_vars => IInv'
  BY NextType, ControlStep, HeadStep, WorkStep, OriginStep, ReviewStep, CountStep,
       ResultStep
     DEF IInv

\* The inductive invariant holds in every configuration.
THEOREM Invariance == Spec => []IInv
  BY InitIInv, StepIInv, PTL DEF Spec

(***************************************************************************)
(* Safety                                                                  *)
(***************************************************************************)

\* What is approved is what was reviewed, with no blocking finding (finalize against
\* reviewTurn).
THEOREM ApprovedWasReviewedHolds == Spec => []ApprovedWasReviewed
<1>1. IInv => ApprovedWasReviewed
  BY DEF IInv, ResultInv, ApprovedWasReviewed, Over, Done
<1> QED
  BY <1>1, Invariance, PTL

\* A delivery without an infrastructure failure is the trusted checkpoint and holds
\* accepted work only (modifierTurn's rollback, finalize).
THEOREM OnlyAcceptedWorkHolds == Spec => []OnlyAcceptedWork
<1>1. IInv => OnlyAcceptedWork
  BY DEF IInv, ResultInv, WorkInv, OnlyAcceptedWork, Over, Done, Known
<1> QED
  BY <1>1, Invariance, PTL

\* Every modifier attempt starts from the commit it would be rolled back to (resetTo).
THEOREM RollbackCompleteHolds == Spec => []RollbackComplete
<1>1. IInv => RollbackComplete
  BY DEF IInv, ControlInv, HeadInv, WorkInv, AtCheckpoint, RollbackComplete, ResetCommit
<1> QED
  BY <1>1, Invariance, PTL

\* After an infrastructure failure the delivery is the trusted checkpoint, a commit of
\* the interrupted turn, or the root (run's catch, finalize).
THEOREM InfrastructureExposureHolds == Spec => []InfrastructureExposure
<1>1. IInv => InfrastructureExposure
  BY DEF IInv, HeadInv, ResultInv, InfrastructureExposure, Done
<1> QED
  BY <1>1, Invariance, PTL

\* The counters of a delivered result agree with its outcome (execute).
THEOREM RoundAccountingHolds == Spec => []RoundAccounting
<1>1. IInv => RoundAccounting
  BY DEF IInv, CountInv, ResultInv, RoundAccounting, Over, Done, DELIVERABLE_OUTCOMES
<1> QED
  BY <1>1, Invariance, PTL

\* A revision answers a blocking review of the checkpoint it starts from (execute).
THEOREM RevisionAnswersReviewHolds == Spec => []RevisionAnswersReview
<1>1. IInv => RevisionAnswersReview
  BY DEF IInv, ReviewInv, RevisionAnswersReview
<1> QED
  BY <1>1, Invariance, PTL

\* The harness never commits a file that was untracked at the start (stageAllExcept).
THEOREM BaselineNotSweptHolds == Spec => []BaselineNotSwept
<1>1. IInv => BaselineNotSwept
  BY DEF IInv, OriginInv, BaselineNotSwept
<1> QED
  BY <1>1, Invariance, PTL

\* A delivered commit of the modifier's own is on record as a protocol violation
\* (modifierTurn's look at HEAD).
THEOREM HeadMovesRecordedHolds == Spec => []HeadMovesRecorded
<1>1. IInv => HeadMovesRecorded
  BY DEF IInv, OriginInv, ResultInv, HeadMovesRecorded, Over, Done
<1> QED
  BY <1>1, Invariance, PTL

\* Baseline files and the modifier's own commits are delivered on record only.
THEOREM OriginsOnRecordHolds == Spec => []OriginsOnRecord
<1>1. BaselineNotSwept /\ HeadMovesRecorded => OriginsOnRecord
  BY DEF OriginsOnRecord
<1> QED
  BY <1>1, BaselineNotSweptHolds, HeadMovesRecordedHolds, PTL

\* An approval and a revision are about the commit the reviewer judged.
THEOREM VerdictsApplyHolds == Spec => []VerdictsApply
<1>1. ApprovedWasReviewed /\ RevisionAnswersReview => VerdictsApply
  BY DEF VerdictsApply
<1> QED
  BY <1>1, ApprovedWasReviewedHolds, RevisionAnswersReviewHolds, PTL

\* The trusted checkpoint is replaced by accepted work only, in answer to a blocking
\* review of it (checkpoint, execute).
THEOREM CheckpointMovesHolds == Spec => CheckpointMoves
<1>1. ASSUME IInv, [Next]_vars, lastCheckpoint \notin {lastCheckpoint', NoCommit}
      PROVE  /\ turns \in accepted
             /\ reviewCount > 0 => review = [commit |-> lastCheckpoint, blocking |-> TRUE]
  <2>1. MarkCheckpoint
    BY <1>1 DEF IInv, ControlInv, Next, Engine, Progress, vars, repoVars, trustVars, Start, OpenTurn,
         SnapshotPatch, AdmitAttempt, StartReview, SkipAttempt, AttemptsExhausted,
         EndModifierTurn, Reset,
         Clean, InspectHead, StageChanges, Decide, RecordModifierTurn, CommitCheckpoint,
         BeginRound, EndReviewTurn, RecordReviewTurn, InfrastructureFailure, Finalize,
         FinalizeFails, Elapse, Stray
  <2>2. turns \in accepted
    BY <1>1, <2>1 DEF MarkCheckpoint, IInv, WorkInv, Committing
  <2>3. ASSUME reviewCount > 0
        PROVE  review = [commit |-> lastCheckpoint, blocking |-> TRUE]
    <3>1. stage \in {"revise", "final-revision"}
      BY <1>1, <2>1, <2>3 DEF MarkCheckpoint, IInv, ControlInv, CountInv, ModifierStages
    <3>2. review.blocking /\ review.commit = lastCheckpoint
      BY <1>1, <2>1, <3>1 DEF MarkCheckpoint, IInv, ReviewInv
    <3> QED
      BY <1>1, <3>2 DEF IInv, TypeOK, ReviewRecord
  <2> QED
    BY <2>2, <2>3
<1> QED
  BY <1>1, Invariance, PTL DEF Spec, CheckpointMoves


(***************************************************************************)
(* Turns and timers                                                        *)
(***************************************************************************)

LEMMA BudgetStep == TypeOK /\ ControlInv /\ CountInv /\ BudgetInv /\ [Next]_vars => BudgetInv'
<1> SUFFICES ASSUME TypeOK, ControlInv, CountInv, BudgetInv, [Next]_vars PROVE BudgetInv'
  OBVIOUS
<1>1. MaxAgentAttempts \in Nat \ {0} /\ attempt \in Nat /\ turns \in Nat /\ Spent \in Nat
  BY ConfigAssumption DEF TypeOK, Spent
<1>2. Spent' = Spent \/ Spent' = Spent + MaxAgentAttempts
  <2>1. reviewCount' \in {reviewCount, reviewCount + 1}
    BY DEF Next, Engine, Progress, vars, loopVars, Start, OpenTurn, SnapshotPatch, AdmitAttempt,
         StartReview,
       SkipAttempt, AttemptsExhausted, EndModifierTurn, Reset, Clean, InspectHead,
       StageChanges, Decide, RecordModifierTurn, CommitCheckpoint, MarkCheckpoint,
       BeginRound,
       EndReviewTurn, RecordReviewTurn, InfrastructureFailure, Finalize, FinalizeFails,
       Elapse, Stray
  <2>2. /\ MaxAgentAttempts * (reviewCount + 1) = MaxAgentAttempts * reviewCount + MaxAgentAttempts
        /\ reviewCount \in Nat
    BY ConfigAssumption DEF TypeOK
  <2> QED
    BY <2>1, <2>2 DEF Spent
<1>3. UNCHANGED reviewCount => Spent' = Spent
  BY DEF Spent
<1> USE <1>1 DEF BudgetInv, InJudgement
<1>4. CASE Start
  BY <1>4, <1>3 DEF Start, turnVars, loopVars, agentVars
<1>5. CASE OpenTurn \/ SnapshotPatch
  BY <1>5, <1>3 DEF OpenTurn, SnapshotPatch, ControlInv, ModifierStages, turnVars,
       loopVars, agentVars
<1>6. CASE AdmitAttempt \/ StartReview \/ SkipAttempt \/ AttemptsExhausted
  <2>1. UNCHANGED <<reviewCount, stage, attempt, turns>> /\ pc' # "open"
    BY <1>6 DEF AdmitAttempt, StartReview, SkipAttempt, AttemptsExhausted, turnVars,
         loopVars, agentVars
  <2>2. CASE AdmitAttempt \/ StartReview
    BY <1>3, <2>1, <2>2 DEF AdmitAttempt, StartReview, AttemptsLeft, ControlInv, ModifierStages
  <2>3. CASE SkipAttempt \/ AttemptsExhausted
    BY <1>3, <2>1, <2>3 DEF SkipAttempt, AttemptsExhausted
  <2> QED
    BY <1>6, <2>2, <2>3
<1>7. ASSUME NEW e, NEW r, NEW p, EndModifierTurn(e, r, p) PROVE BudgetInv'
  BY <1>7, <1>3 DEF EndModifierTurn, ModifierStages, loopVars
<1>8. CASE Reset \/ InspectHead \/ StageChanges
  BY <1>8, <1>3 DEF Reset, InspectHead, StageChanges, turnVars, loopVars, agentVars
<1>9. CASE Clean
  BY <1>9, <1>3 DEF Clean, ControlInv, loopVars, agentVars
<1>10. CASE Decide
  BY <1>10, <1>3 DEF Decide, RequireChange, ModifierStages, loopVars
<1>11. CASE RecordModifierTurn \/ CommitCheckpoint \/ MarkCheckpoint \/ BeginRound
  BY <1>11, <1>3 DEF RecordModifierTurn, CommitCheckpoint, MarkCheckpoint, BeginRound,
       Conclude,
       ModifierStages, turnVars, loopVars, agentVars
<1>12. ASSUME NEW e, NEW v, EndReviewTurn(e, v) PROVE BudgetInv'
  BY <1>12, <1>3 DEF EndReviewTurn, ModifierStages, agentVars
<1>13. CASE RecordReviewTurn
  <2>1. turnOk => Spent' = Spent + MaxAgentAttempts
    BY <1>13, ConfigAssumption DEF RecordReviewTurn, TypeOK, Spent
  <2>2. UNCHANGED <<attempt, turns>>
    BY <1>13 DEF RecordReviewTurn, agentVars
  <2>3. pc' = "finalize" \/ (pc' = "open" /\ turnOk)
    BY <1>13 DEF RecordReviewTurn, Approves, Conclude
  <2>4. CASE pc' = "finalize"
    BY <1>2, <2>2, <2>4
  <2>5. CASE pc' = "open" /\ Spent' = Spent + MaxAgentAttempts
    BY <2>2, <2>5
  <2> QED
    BY <2>1, <2>3, <2>4, <2>5
<1>14. CASE InfrastructureFailure \/ Finalize \/ FinalizeFails \/ Elapse \/ Stray \/ UNCHANGED vars
  BY <1>14, <1>3 DEF InfrastructureFailure, Finalize, FinalizeFails, Elapse, Stray, vars,
       Conclude,
       turnVars, loopVars, agentVars
<1> QED
  BY <1>4, <1>5, <1>6, <1>7, <1>8, <1>9, <1>10, <1>11, <1>12, <1>13, <1>14 DEF Next, Engine, Progress

\* Retries are bounded: no more than MaxAgentAttempts modifier turns per review and
\* before the first (the attempt loop of modifierTurn).
THEOREM TurnBudgetHolds == Spec => []TurnBudget
<1>1. Init => BudgetInv
  BY ConfigAssumption DEF Init, BudgetInv, Spent, InJudgement
<1>2. IInv /\ BudgetInv /\ [Next]_vars => BudgetInv'
  BY BudgetStep DEF IInv
<1>3. IInv /\ BudgetInv => TurnBudget
  <2> SUFFICES ASSUME IInv, BudgetInv PROVE TurnBudget
    OBVIOUS
  <2>1. MaxAgentAttempts * (1 + reviewCount) = Spent + MaxAgentAttempts
    BY ConfigAssumption DEF IInv, TypeOK, Spent
  <2> QED
    BY <2>1 DEF BudgetInv, TurnBudget
<1> QED
  BY <1>1, <1>2, <1>3, Invariance, PTL DEF Spec

\* Counters, outcome and turns agree.
THEOREM CountsAgreeHolds == Spec => []CountsAgree
<1>1. RoundAccounting /\ TurnBudget => CountsAgree
  BY DEF CountsAgree
<1> QED
  BY <1>1, RoundAccountingHolds, TurnBudgetHolds, PTL


LEMMA TimerStep == TypeOK /\ ControlInv /\ ResultInv /\ TimerInv /\ [Next]_vars => TimerInv'
<1> SUFFICES ASSUME TypeOK, ControlInv, ResultInv, TimerInv, [Next]_vars PROVE TimerInv'
  OBVIOUS
<1> USE DEF TimerInv, InJudgement, Over, Done
<1>1. CASE Start
  BY <1>1 DEF Start, turnVars
<1>2. CASE OpenTurn
  BY <1>2 DEF OpenTurn, TypeOK
<1>3. CASE SnapshotPatch
  BY <1>3 DEF SnapshotPatch, TypeOK, turnVars
<1>4. CASE AdmitAttempt \/ StartReview \/ SkipAttempt \/ AttemptsExhausted
  BY <1>4 DEF AdmitAttempt, StartReview, SkipAttempt, AttemptsExhausted, turnVars
<1>5. ASSUME NEW e, NEW r, NEW p, EndModifierTurn(e, r, p) PROVE TimerInv'
  BY <1>5 DEF EndModifierTurn
<1>6. CASE Reset \/ Clean \/ InspectHead \/ StageChanges \/ Decide
  BY <1>6 DEF Reset, Clean, InspectHead, StageChanges, Decide, turnVars
<1>7. CASE CommitCheckpoint
  BY <1>7 DEF CommitCheckpoint, turnVars
\* The two places where a failed turn becomes the result.
<1>8. ASSUME pc = "record", rounds' = WithMetadata, UNCHANGED <<failKind, timeoutKind,
left>>,
             pc' \in {"open", "commit", "finalize"},
             pc' = "finalize" /\ "timeout" \in {result'.outcome, result'.degradedReason}
               => failKind = "timeout" \/ left = 0
      PROVE  TimerInv'
  <2>1. /\ rounds \in Seq(RoundRecord) /\ Len(rounds) \in 1 .. Len(rounds)
        /\ rounds[Len(rounds)] \in RoundRecord
    BY <1>8 DEF TypeOK
  <2>2. Len(rounds') = Len(rounds)
    BY <1>8, <2>1 DEF WithMetadata
  <2>3. failKind = "timeout" => rounds'[Len(rounds)].timeoutKind = timeoutKind
    BY <1>8, <2>1 DEF WithMetadata, RoundRecord
  <2> QED
    BY <1>8, <2>1, <2>2, <2>3
<1>9. CASE RecordModifierTurn
  <2>1. UNCHANGED <<failKind, timeoutKind, left>> /\ rounds' = WithMetadata /\ pc = "record"
    BY <1>9 DEF RecordModifierTurn, turnVars, clockVars
  <2>2. CASE turnOk
    BY <1>8, <1>9, <2>1, <2>2 DEF RecordModifierTurn
  <2>3. CASE ~turnOk /\ stage = "modify"
    <3>1. Conclude(InitialOutcome, "none")
      BY <1>9, <2>3 DEF RecordModifierTurn
    <3>2. InitialOutcome = "timeout" => failKind = "timeout"
      BY DEF InitialOutcome
    <3> QED
      BY <1>8, <2>1, <3>1, <3>2, Concluded
  <2>4. CASE ~turnOk /\ stage # "modify"
    <3>1. \/ failKind = "timeout" /\ Conclude("degraded", "timeout")
          \/ Conclude("degraded", "revision_failed")
      BY <1>9, <2>4 DEF RecordModifierTurn
    <3> QED
      BY <1>8, <2>1, <3>1, Concluded
  <2> QED
    BY <2>2, <2>3, <2>4
<1>10. CASE RecordReviewTurn
  <2>1. UNCHANGED <<failKind, timeoutKind, left>> /\ rounds' = WithMetadata /\ pc = "record"
    BY <1>10 DEF RecordReviewTurn, clockVars
  <2>2. \/ pc' = "open"
        \/ Conclude("degraded", failKind)
        \/ Conclude("approved", "none")
        \/ left = 0 /\ Conclude("degraded", "timeout")
    BY <1>10 DEF RecordReviewTurn
  <2> QED
    BY <1>8, <2>1, <2>2, Concluded
<1>11. CASE MarkCheckpoint
  <2>1. pc' = "loop" \/ Conclude("max_reviews_reached", "none")
    BY <1>11 DEF MarkCheckpoint
  <2> QED
    BY <1>11, <2>1, Concluded DEF MarkCheckpoint, turnVars
<1>12. CASE BeginRound
  <2>1. \/ pc' = "open"
        \/ Conclude("max_reviews_reached", "none")
        \/ left = 0 /\ Conclude("degraded", "timeout")
    BY <1>12 DEF BeginRound
  <2> QED
    BY <1>12, <2>1, Concluded DEF BeginRound, clockVars
<1>13. ASSUME NEW e, NEW v, EndReviewTurn(e, v) PROVE TimerInv'
  BY <1>13 DEF EndReviewTurn
<1>14. CASE InfrastructureFailure
  <2>1. Conclude("degraded", "infrastructure") \/ Conclude("checkpoint_failed", "none")
    BY <1>14 DEF InfrastructureFailure
  <2> QED
    BY <1>14, <2>1, Concluded DEF InfrastructureFailure, turnVars
<1>15. CASE Finalize \/ FinalizeFails
  <2>1. /\ pc = "finalize" /\ pc' = "done"
        /\ UNCHANGED <<failKind, timeoutKind, left, rounds>>
        /\ result'.outcome \in {result.outcome, "empty_patch", "checkpoint_failed"}
        /\ result'.degradedReason = result.degradedReason
    BY <1>15 DEF Finalize, FinalizeFails, TypeOK, ResultRecord, turnVars, clockVars
  <2> QED
    BY <2>1
<1>16. CASE Elapse \/ Stray \/ UNCHANGED vars
  BY <1>16 DEF Elapse, Stray, vars, TypeOK, turnVars, clockVars
<1> QED
  BY <1>1, <1>2, <1>3, <1>4, <1>5, <1>6, <1>7, <1>9, <1>10, <1>11, <1>12, <1>13, <1>14,
       <1>15,
     <1>16 DEF Next, Engine, Progress

\* A result that blames a timeout has the timer in its last metadata, or the deadline
\* has passed (modifierTurn, reviewTurn, execute).
THEOREM TimeoutExplainedHolds == Spec => []TimeoutExplained
<1>1. Init => TimerInv
  BY DEF Init, TimerInv, InJudgement, Over, Done
<1>2. IInv /\ TimerInv /\ [Next]_vars => TimerInv'
  BY TimerStep DEF IInv
<1>3. TimerInv => TimeoutExplained
  BY DEF TimerInv, Over, Done, TimeoutExplained
<1> QED
  BY <1>1, <1>2, <1>3, Invariance, PTL DEF Spec

(***************************************************************************)
(* The review loop implements the contract Delivery: every step of the     *)
(* engine is a step of the contract, or leaves the four variables of the   *)
(* contract as they are.                                                   *)
(***************************************************************************)

\* A verdict is clean only once the run is over: while it goes on, the last review
\* either judged another commit or an earlier round, or was blocking.
LEMMA NeverCleanBefore ==
    ASSUME IInv, ~Over
    PROVE  Verdict # "clean"
  BY DEF IInv, TypeOK, ControlInv, ReviewInv, CountInv, Verdict, Over, Stages,
       ModifierStages

\* The steps the contract does not see.
LEMMA InnerSteps ==
    ASSUME IInv,
           \/ OpenTurn \/ SnapshotPatch \/ AdmitAttempt \/ StartReview \/ SkipAttempt \/ AttemptsExhausted
           \/ Reset \/ Clean \/ InspectHead \/ StageChanges \/ Decide \/ RecordModifierTurn
           \/ CommitCheckpoint \/ BeginRound \/ InfrastructureFailure
           \/ Elapse \/ Stray \/ UNCHANGED vars
    PROVE  UNCHANGED <<lastCheckpoint, Verdict, reviewCount, Shipped>>
<1>1. UNCHANGED <<lastCheckpoint, reviewCount, round>>
  BY DEF OpenTurn, SnapshotPatch, AdmitAttempt, StartReview, SkipAttempt,
       AttemptsExhausted, Reset, Clean,
     InspectHead, StageChanges, Decide, RecordModifierTurn, CommitCheckpoint, BeginRound,
     InfrastructureFailure, Elapse, Stray, vars, loopVars, trustVars
<1>2. Verdict' = Verdict
  <2>1. CASE SnapshotPatch
    <3>1. stage = "review" /\ ~Over
      BY <2>1 DEF SnapshotPatch, IInv, ControlInv, Over
    <3>2. reviewCount < round
      BY <3>1 DEF IInv, TypeOK, CountInv
    <3> QED
      BY <1>1, <3>2 DEF Verdict
  <2>2. CASE ~SnapshotPatch
    <3>1. review' = review
      BY <2>2 DEF OpenTurn, AdmitAttempt, StartReview, SkipAttempt, AttemptsExhausted,
           Reset, Clean,
         InspectHead, StageChanges, Decide, RecordModifierTurn, CommitCheckpoint,
         BeginRound,
         InfrastructureFailure, Elapse, Stray, vars, loopVars
    <3> QED
      BY <1>1, <3>1 DEF Verdict
  <2> QED
    BY <2>1, <2>2
<1>3. Shipped' = Shipped
  <2>1. CASE Elapse \/ Stray \/ UNCHANGED vars
    BY <2>1 DEF Elapse, Stray, vars, Shipped, Done, Infrastructure
  <2>2. CASE ~(Elapse \/ Stray \/ UNCHANGED vars)
    <3>1. pc # "done" /\ pc' # "done"
      BY <2>2 DEF OpenTurn, SnapshotPatch, AdmitAttempt, StartReview, SkipAttempt,
           AttemptsExhausted, Reset,
         Clean, InspectHead, StageChanges, Decide, RecordModifierTurn, CommitCheckpoint,
         BeginRound, InfrastructureFailure, Conclude, ExecutePoints
    <3> QED
      BY <3>1 DEF Shipped, Done
  <2> QED
    BY <2>1, <2>2
<1> QED
  BY <1>1, <1>2, <1>3

LEMMA VerdictStep == IInv /\ VerdictInv /\ [Next]_vars => VerdictInv'
<1> SUFFICES ASSUME IInv, VerdictInv, [Next]_vars PROVE VerdictInv'
  OBVIOUS
<1> USE DEF VerdictInv
<1>1. CASE ~Over'
  BY <1>1 DEF Over
<1>2. CASE Over /\ Over'
  <2>1. CASE Finalize \/ FinalizeFails
    <3>1. /\ pc' = "done" /\ Verdict' = Verdict /\ lastCheckpoint' = lastCheckpoint
          /\ result'.outcome \in {result.outcome, "empty_patch", "checkpoint_failed"}
          /\ result'.degradedReason = result.degradedReason
      BY <2>1 DEF Finalize, FinalizeFails, Verdict, IInv, TypeOK, ResultRecord, loopVars,
           trustVars
    <3> QED
      BY <1>2, <3>1 DEF Done, Over, Infrastructure
  <2>2. CASE ~(Finalize \/ FinalizeFails)
    <3>1. Elapse \/ Stray \/ UNCHANGED vars
      BY <1>2, <2>2 DEF Next, Engine, Progress, Over, Start, OpenTurn, SnapshotPatch, AdmitAttempt,
           StartReview,
         SkipAttempt, AttemptsExhausted, EndModifierTurn, Reset, Clean, InspectHead,
         StageChanges, Decide, RecordModifierTurn, CommitCheckpoint, MarkCheckpoint,
         BeginRound,
         EndReviewTurn, RecordReviewTurn, InfrastructureFailure, ExecutePoints
    <3>2. UNCHANGED <<pc, result, lastCheckpoint, Verdict>>
      BY <3>1 DEF Elapse, Stray, vars, Verdict, loopVars, trustVars
    <3> QED
      BY <1>2, <3>2 DEF Over, Done, Infrastructure
  <2> QED
    BY <2>1, <2>2
<1>3. CASE ~Over /\ Over'
  <2>1. Verdict # "clean"
    BY <1>3, NeverCleanBefore
  <2>2. \/ RecordModifierTurn \/ MarkCheckpoint \/ BeginRound \/ RecordReviewTurn
        \/ InfrastructureFailure
    BY <1>3 DEF Next, Engine, Progress, vars, Over, Start, OpenTurn, SnapshotPatch, AdmitAttempt,
         StartReview,
       SkipAttempt, AttemptsExhausted, EndModifierTurn, Reset, Clean, InspectHead,
       StageChanges, Decide, CommitCheckpoint, EndReviewTurn, Finalize, FinalizeFails,
       Elapse, Stray
  <2>3. CASE RecordModifierTurn
    <3>1. \E o \in {"timeout", "empty_patch", "modifier_failed", "degraded"},
             d \in {"none", "timeout", "revision_failed"} : Conclude(o, d)
      BY <1>3, <2>3 DEF RecordModifierTurn, InitialOutcome, Over
    <3>2. Verdict' = Verdict
      BY <2>3, InnerSteps
    <3> QED
      BY <2>1, <3>1, <3>2, Concluded DEF IInv, Infrastructure
  <2>4. CASE MarkCheckpoint
    <3>1. /\ stage \in {"revise", "final-revision"} /\ Conclude("max_reviews_reached", "none")
          /\ review' = review /\ review.blocking
      BY <1>3, <2>4 DEF MarkCheckpoint, IInv, ControlInv, ReviewInv, Over, ModifierStages
    <3>2. Verdict' # "clean"
      BY <3>1 DEF Verdict
    <3> QED
      BY <3>1, <3>2, Concluded DEF IInv, Infrastructure
  <2>5. CASE BeginRound
    <3>1. Conclude("max_reviews_reached", "none") \/ Conclude("degraded", "timeout")
      BY <1>3, <2>5 DEF BeginRound, Over
    <3>2. Verdict' = Verdict
      BY <2>5, InnerSteps
    <3> QED
      BY <2>1, <3>1, <3>2, Concluded DEF IInv, Infrastructure
  <2>6. CASE RecordReviewTurn
    <3>1. /\ UNCHANGED <<review, lastCheckpoint, round>>
          /\ review.commit = lastCheckpoint
          /\ round = reviewCount + 1 /\ reviewCount \in Nat
      BY <2>6 DEF RecordReviewTurn, IInv, TypeOK, ReviewInv, CountInv, Over, trustVars
    <3>2. CASE turnOk /\ Approves
      <4>1. ~review.blocking /\ Conclude("approved", "none") /\ reviewCount' = reviewCount + 1
        BY <2>6, <3>2 DEF RecordReviewTurn, Approves
      <4>2. Verdict' = "clean"
        BY <3>1, <4>1 DEF Verdict
      <4>3. result'.outcome = "approved" /\ result'.degradedReason = "none"
        BY <4>1, Concluded DEF IInv
      <4> QED
        BY <4>2, <4>3 DEF Infrastructure
    <3>3. CASE ~turnOk
      <4>1. Conclude("degraded", failKind) /\ reviewCount' = reviewCount
        BY <2>6, <3>3 DEF RecordReviewTurn, Approves
      <4>2. Verdict' = "none" /\ failKind # "infrastructure"
        BY <3>1, <4>1 DEF Verdict, IInv, TypeOK, FailKinds
      <4> QED
        BY <4>1, <4>2, Concluded DEF IInv, Infrastructure
    <3>4. CASE turnOk /\ ~Approves
      <4>1. review.blocking /\ Conclude("degraded", "timeout")
        BY <1>3, <2>6, <3>4 DEF RecordReviewTurn, Approves, Over
      <4>2. Verdict' # "clean"
        BY <3>1, <4>1 DEF Verdict
      <4> QED
        BY <4>1, <4>2, Concluded DEF IInv, Infrastructure
    <3> QED
      BY <3>2, <3>3, <3>4
  <2>7. CASE InfrastructureFailure
    <3>1. Verdict' = Verdict /\ lastCheckpoint' = lastCheckpoint
      BY <2>7, InnerSteps
    <3>2. \/ Conclude("checkpoint_failed", "none")
          \/ /\ Conclude("degraded", "infrastructure")
             /\ lastCheckpoint \notin {NoCommit, baseCommit}
      BY <2>7 DEF InfrastructureFailure
    <3>3. lastCheckpoint # NoCommit => baseCommit = RootCommit
      BY <1>3 DEF IInv, ControlInv, Over
    <3> QED
      BY <2>1, <3>1, <3>2, <3>3, Concluded DEF IInv, Infrastructure
  <2> QED
    BY <2>2, <2>3, <2>4, <2>5, <2>6, <2>7
<1> QED
  BY <1>1, <1>2, <1>3

LEMMA ContractInit == Init => Contract!DeliveryInit
  BY DEF Init, Verdict, Shipped, Done, Contract!DeliveryInit, Contract!Nothing

\* While the run goes on nothing is shipped.
LEMMA NothingShipped ==
    ASSUME ~Done
    PROVE  Shipped = Contract!Nothing
  BY DEF Shipped, Contract!Nothing

LEMMA ContractStep ==
    ASSUME IInv, VerdictInv, [Next]_vars
    PROVE  [Contract!DeliveryNext]_(Contract!deliveryVars)
<1> USE DEF Contract!deliveryVars
<1>1. CASE \/ OpenTurn \/ SnapshotPatch \/ AdmitAttempt \/ StartReview \/ SkipAttempt \/ AttemptsExhausted
           \/ Reset \/ Clean \/ InspectHead \/ StageChanges \/ Decide \/ RecordModifierTurn
           \/ CommitCheckpoint \/ BeginRound \/ InfrastructureFailure
           \/ Elapse \/ Stray \/ UNCHANGED vars
  BY <1>1, InnerSteps
<1>2. CASE Start
  <2>1. /\ reviewCount = 0 /\ reviewCount' = 0 /\ round' = 1
        /\ repo.head \in Commit /\ lastCheckpoint' = repo.head
        /\ ~Done /\ ~Done'
    BY <1>2 DEF Start, IInv, TypeOK, Repository, ControlInv, CountInv, Over, Done, loopVars
  <2>2. Verdict' = "none" /\ Shipped = Contract!Nothing /\ Shipped' = Shipped
    BY <2>1, NothingShipped DEF Verdict, Shipped
  <2>3. Contract!Adopt
    BY <2>1, <2>2 DEF Contract!Adopt, Contract!Open
  <2> QED
    BY <2>3 DEF Contract!DeliveryNext
<1>3. ASSUME NEW e, NEW r, NEW p, EndModifierTurn(e, r, p)
      PROVE  UNCHANGED <<lastCheckpoint, Verdict, reviewCount, Shipped>>
  BY <1>3 DEF EndModifierTurn, Verdict, Shipped, Done, trustVars, loopVars
<1>4. ASSUME NEW e, NEW v, EndReviewTurn(e, v)
      PROVE  UNCHANGED <<lastCheckpoint, Verdict, reviewCount, Shipped>>
  <2>1. UNCHANGED <<lastCheckpoint, reviewCount, round>> /\ pc # "done" /\ pc' # "done"
    BY <1>4 DEF EndReviewTurn, trustVars
  <2>2. stage = "review" /\ ~Over
    BY <1>4 DEF EndReviewTurn, Over
  <2>3. reviewCount < round
    BY <2>2 DEF IInv, TypeOK, CountInv
  <2> QED
    BY <2>1, <2>3 DEF Verdict, Shipped, Done
<1>5. CASE MarkCheckpoint
  <2>1. /\ repo.head \in Commit /\ lastCheckpoint' = repo.head /\ UNCHANGED reviewCount
        /\ ~Done /\ ~Done'
    BY <1>5 DEF MarkCheckpoint, Conclude, IInv, TypeOK, Repository, Done
  <2>2. Shipped = Contract!Nothing /\ Shipped' = Shipped
    BY <2>1, NothingShipped DEF Shipped
  <2>3. reviewCount = 0 \/ Verdict = "blocking"
    <3>1. CASE stage = "modify"
      BY <3>1 DEF IInv, CountInv
    <3>2. CASE stage # "modify"
      <4>1. stage \in {"revise", "final-revision"}
        BY <1>5, <3>2 DEF MarkCheckpoint, IInv, ControlInv, ModifierStages
      <4>2. reviewCount = round /\ round \in Nat
        BY <1>5, <4>1 DEF MarkCheckpoint, IInv, TypeOK, CountInv, Over
      <4>3. review.blocking /\ review.commit = lastCheckpoint
        BY <1>5, <4>1 DEF MarkCheckpoint, IInv, ReviewInv
      <4> QED
        BY <4>2, <4>3 DEF Verdict
    <3> QED
      BY <3>1, <3>2
  <2>4. CASE Verdict' = "none"
    <3>1. Contract!Adopt
      BY <2>1, <2>2, <2>3, <2>4 DEF Contract!Adopt, Contract!Open
    <3> QED
      BY <3>1 DEF Contract!DeliveryNext
  <2>5. CASE Verdict' # "none"
    <3>1. review' = review /\ round' \in {round, round + 1} /\ round \in Nat
      BY <1>5 DEF MarkCheckpoint, IInv, TypeOK
    <3>2. ~(reviewCount < round') /\ review.commit = repo.head
      BY <2>1, <2>5, <3>1 DEF Verdict
    <3>3. stage # "modify" /\ ~(stage = "review")
      BY <1>5, <3>1, <3>2 DEF MarkCheckpoint, IInv, TypeOK, ControlInv, CountInv,
           ModifierStages
    <3>4. /\ review.commit = lastCheckpoint /\ reviewCount = round
      BY <1>5, <3>3 DEF MarkCheckpoint, IInv, TypeOK, Stages, ModifierStages, ReviewInv,
           CountInv, Over
    <3>5. Verdict' = Verdict /\ lastCheckpoint' = lastCheckpoint
      BY <2>1, <3>1, <3>2, <3>4 DEF Verdict
    <3> QED
      BY <2>1, <2>2, <3>5
  <2> QED
    BY <2>4, <2>5
<1>6. CASE RecordReviewTurn
  <2>1. /\ UNCHANGED <<lastCheckpoint, round, review>> /\ ~Done /\ ~Done'
        /\ review.commit = lastCheckpoint
        /\ round = reviewCount + 1 /\ reviewCount \in Nat /\ round <= MaxReviews
    BY <1>6 DEF RecordReviewTurn, Conclude, IInv, TypeOK, ReviewInv, CountInv, Over, Done,
         trustVars
  <2>2. Shipped = Contract!Nothing /\ Shipped' = Shipped
    BY <2>1, NothingShipped DEF Shipped
  <2>3. Verdict = "none"
    BY <2>1 DEF Verdict
  <2>4. CASE turnOk
    <3>1. reviewCount' = reviewCount + 1
      BY <1>6, <2>4 DEF RecordReviewTurn
    <3>2. Verdict' \in {"blocking", "clean"}
      BY <2>1, <3>1 DEF Verdict
    <3>3. Contract!Judge(Verdict')
      BY <2>1, <2>2, <2>3, <3>1, ConfigAssumption DEF Contract!Judge, Contract!Open
    <3> QED
      BY <3>2, <3>3 DEF Contract!DeliveryNext
  <2>5. CASE ~turnOk
    <3>1. reviewCount' = reviewCount
      BY <1>6, <2>5 DEF RecordReviewTurn
    <3> QED
      BY <2>1, <2>2, <3>1 DEF Verdict
  <2> QED
    BY <2>4, <2>5
<1>7. CASE Finalize
  <2>1. /\ UNCHANGED <<repo, lastCheckpoint, Verdict, reviewCount>>
        /\ ~Done /\ Done' /\ Over
        /\ result'.degradedReason = result.degradedReason
        /\ result'.finalCommit = repo.head
        /\ result'.outcome \in {result.outcome, "empty_patch"}
    BY <1>7 DEF Finalize, IInv, TypeOK, ResultRecord, Verdict, Done, Over, repoVars,
         trustVars, loopVars
  <2>2. Shipped = Contract!Nothing
    BY <2>1, NothingShipped
  <2>3. CASE ~result'.deliverable
    <3>1. Shipped' = [how |-> "withheld", commit |-> NoCommit]
      BY <2>1, <2>3 DEF Shipped, Done
    <3>2. Contract!Withhold
      BY <2>1, <2>2, <3>1 DEF Contract!Withhold, Contract!Open
    <3> QED
      BY <3>2 DEF Contract!DeliveryNext
  <2>4. CASE result'.deliverable
    <3>1. Shipped' = [how |-> IF Infrastructure THEN "infrastructure" ELSE result'.outcome,
                      commit |-> repo.head]
      BY <2>1, <2>4 DEF Shipped, Done, Infrastructure
    <3>2. result'.outcome = result.outcome /\ result.outcome \in DELIVERABLE_OUTCOMES
      BY <1>7, <2>4 DEF Finalize, isDeliverable, DELIVERABLE_OUTCOMES, IInv, TypeOK,
           ResultRecord
    <3>3. CASE Infrastructure
      <4>1. lastCheckpoint \notin {NoCommit, RootCommit} /\ repo.head \in Commit
        BY <2>1, <3>3 DEF VerdictInv, IInv, TypeOK, Repository
      <4>2. Shipped' \in [how : {"infrastructure"}, commit : Commit]
        BY <3>1, <3>3, <4>1
      <4>3. Contract!Breakdown
        BY <2>1, <2>2, <4>1, <4>2 DEF Contract!Breakdown, Contract!Open
      <4> QED
        BY <4>3 DEF Contract!DeliveryNext
    <3>4. CASE ~Infrastructure
      <4>1. repo.head = lastCheckpoint
        BY <2>1, <3>2, <3>4 DEF IInv, ResultInv
      <4>2. result.outcome = "approved" <=> Verdict = "clean"
        BY <2>1 DEF VerdictInv
      <4>3. Contract!Ship(result.outcome)
        BY <2>1, <2>2, <3>1, <3>2, <3>4, <4>1, <4>2 DEF Contract!Ship, Contract!Open
      <4> QED
        BY <3>2, <4>3 DEF Contract!DeliveryNext, DELIVERABLE_OUTCOMES
    <3> QED
      BY <3>3, <3>4
  <2> QED
    BY <2>3, <2>4
<1>8. CASE FinalizeFails
  <2>1. /\ UNCHANGED <<lastCheckpoint, Verdict, reviewCount>>
        /\ ~Done /\ Done' /\ ~result'.deliverable
    BY <1>8 DEF FinalizeFails, IInv, TypeOK, ResultRecord, Verdict, Done, trustVars,
         loopVars
  <2>2. Shipped = Contract!Nothing /\ Shipped' = [how |-> "withheld", commit |-> NoCommit]
    BY <2>1, NothingShipped DEF Shipped, Done
  <2>3. Contract!Withhold
    BY <2>1, <2>2 DEF Contract!Withhold, Contract!Open
  <2> QED
    BY <2>3 DEF Contract!DeliveryNext
<1> QED
  BY <1>1, <1>2, <1>3, <1>4, <1>5, <1>6, <1>7, <1>8 DEF Next, Engine, Progress

\* The review loop implements Delivery: verdicts are about the trusted checkpoint, it
\* moves only when it may, and what is shipped is the trusted checkpoint.
THEOREM Refinement == Spec => ContractSpec
<1>1. Init => VerdictInv
  BY DEF Init, VerdictInv, Over
<1>2. IInv /\ VerdictInv /\ [Next]_vars => VerdictInv'
  BY VerdictStep
<1>3. IInv /\ VerdictInv /\ [Next]_vars => [Contract!DeliveryNext]_(Contract!deliveryVars)
  BY ContractStep
<1> QED
  BY <1>1, <1>2, <1>3, ContractInit, Invariance, PTL DEF Spec, ContractSpec,
       Contract!DeliverySpec

(***************************************************************************)
(* The loop and discovery (EngineDiscovery): what the trial directory says *)
(* of the run, at every point of it                                        *)
(***************************************************************************)

N == Len(rounds)
Revising == stage \in {"revise", "final-revision"}

\* The rounds alternate: the initial turn, then reviews and revisions in turn.
KindInv ==
    \A k \in Nat :
        /\ 2 * k \in DOMAIN rounds => rounds[2 * k].kind = "review"
        /\ 2 * k + 1 \in DOMAIN rounds =>
             rounds[2 * k + 1].kind \in
                 IF k = 0 THEN {"modify"} ELSE {"revise", "final-revision"}

\* How many rounds were opened before the current one.
Before == CASE stage = "modify" -> 0
            [] stage = "review" -> 2 * round - 1
            [] OTHER -> 2 * round

PositionInv ==
    /\ round >= 1
    /\ pc \in {"start", "open"} => N = Before
    /\ pc = "loop" => N = 2 * round - 1 /\ (Revising => round >= 2)
    /\ ~Over /\ pc \notin {"start", "open", "loop"} => N = Before + 1
    /\ Over /\ ~torn => N > 0

\* What the round directories say of the turns.
MetaInv ==
    /\ \A i \in DOMAIN rounds : i < N => rounds[i].meta = "success"
    /\ pc \in {"start", "open", "commit", "mark", "loop"} =>
         \A i \in DOMAIN rounds : rounds[i].meta = "success"
    /\ pc \in {"commit", "mark", "loop"} => turnOk
    /\ pc \in {"inspect", "stage", "decide"} \/ (pc = "record" /\ turnOk) => lastStatus = "success"
    /\ stage = "review" /\ pc \in {"snapshot", "admit", "copy", "running", "record"} =>
         failKind # "none"
    /\ Revising /\ pc \in {"reset", "clean", "admit", "running", "record"}
         /\ ~turnOk /\ lastStatus = "success" => failKind = "timeout" /\ timeoutKind # "none"

\* What the end says of the last turn.
EndingInv ==
    /\ Over /\ result.outcome \in {"approved", "max_reviews_reached"} =>
         /\ turnOk /\ result.degradedReason = "none"
         /\ \A i \in DOMAIN rounds : rounds[i].meta = "success"
    /\ Over /\ result.outcome = "degraded" => result.degradedReason # "none"
    /\ Over /\ Infrastructure => torn
    /\ Over /\ ~torn =>
         /\ \A i \in DOMAIN rounds : rounds[i].meta # "none"
         /\ turnOk => \A i \in DOMAIN rounds : rounds[i].meta = "success"
         /\ ~turnOk /\ Revising /\ rounds[N].meta = "success" => rounds[N].timeoutKind # "none"
    /\ Done /\ result.outcome \in DELIVERABLE_OUTCOMES => result.finalCommit = repo.head
    /\ ~Over => ~torn

\* How far the run came, by the counters.
ReachedInv ==
    Over /\ ~torn =>
        /\ stage = "modify" => N = 1
        /\ stage = "review" => /\ N = 2 * round /\ revisionCount = round - 1
                               /\ reviewCount = IF turnOk THEN round ELSE round - 1
        /\ Revising => /\ N = 2 * reviewCount + 1 /\ reviewCount >= 1
                       /\ revisionCount = IF turnOk THEN reviewCount ELSE reviewCount - 1

\* The review is about the trusted checkpoint, from the snapshot to the next checkpoint.
Settled ==
    \/ stage = "review" /\ pc \in {"admit", "copy", "running", "record"}
    \/ Revising /\ ~Over /\ pc # "loop"

Stopped == Over /\ ~torn /\ (stage = "review" \/ (Revising /\ ~turnOk))

\* The last round with a patch, while the checkpoint is the one in it.
ReviewedRound == IF Over /\ Revising THEN 2 * reviewCount ELSE 2 * round

PatchInv ==
    /\ \A k \in Nat \ {0} : 2 * k \in DOMAIN rounds =>
         \/ \E tree \in Tree : rounds[2 * k].patch = {tree}
         \/ rounds[2 * k].patch = {} /\ 2 * k = N /\ (pc = "snapshot" \/ torn)
    /\ Settled \/ Stopped => rounds[ReviewedRound].patch = {lastCheckpoint.tree}

\* Without a recorded checkpoint and a violation there is nothing to deliver.
RecordedInv ==
    /\ IsFiniteSet(checkpoints)
    /\ \A c \in {repo.head, lastCheckpoint} : c.by = "base" => c = RootCommit
    /\ checkpoints = {} /\ violations = {} =>
         /\ lastCheckpoint \in {NoCommit, RootCommit}
         /\ \A i \in DOMAIN rounds : rounds[i].patch \subseteq {RootCommit.tree}

\* What is delivered is not empty.
DeliveredInv == Done /\ result.deliverable => repo.head.tree # RootCommit.tree

\* The reviews so far, of patches that were not empty, retell the checkpoints so far.
Retold(m) ==
    \E at \in [1..m -> 1..Len(trail)] :
        /\ m >= 1 => at[1] = 1 /\ Len(trail) \in {at[m], at[m] + 1}
        /\ m >= 1 /\ (Settled \/ Stopped) => at[m] = Len(trail)
        /\ \A k \in 1..(m - 1) : at[k + 1] \in {at[k], at[k] + 1}
        /\ \A k \in 1..m : rounds[2 * k].patch = {trail[at[k]]}

Snapped(m) == IF pc = "snapshot" THEN N = 2 * m + 2 ELSE N \in {2 * m, 2 * m + 1}
NoneEmpty(m) == \A k \in 1..m : rounds[2 * k].patch \notin {{}, {RootCommit.tree}}

TrailInv ==
    /\ trail \in Seq(Tree)
    /\ trail # <<>> => trail[Len(trail)] = lastCheckpoint.tree
    /\ trail = <<>> => lastCheckpoint \in {NoCommit, RootCommit}
    /\ stage = "modify" /\ pc \notin {"loop", "finalize", "done"} => trail = <<>>
    /\ N <= 1 => Len(trail) <= 1
    /\ pc \in {"open", "snapshot"} /\ stage = "review" /\ round = 1 => Len(trail) <= 1

RetoldInv ==
    ~(Over /\ torn) => \A m \in Nat : Snapped(m) /\ NoneEmpty(m) => Retold(m)

ScanInv ==
    /\ torn \in BOOLEAN
    /\ found # NotScanned =>
         /\ Done
         /\ \E finalWritten \in {TRUE} \union (IF result.finalCommit = NoCommit THEN {FALSE} ELSE {}) :
              found = Discovery!Discover(Trial(lost, finalWritten))

-----------------------------------------------------------------------------

LEMMA RoundsType ==
    ASSUME TypeOK
    PROVE  /\ N \in Nat /\ DOMAIN rounds = 1..N
           /\ \A i \in 1..N : rounds[i] \in RoundRecord
  BY DEF TypeOK, N

\* The actions that write to the round directories, and what they write.
LEMMA OpenRounds ==
    ASSUME TypeOK, OpenTurn
    PROVE  /\ N' = N + 1 /\ DOMAIN rounds' = 1..(N + 1)
           /\ \A i \in 1..N : rounds'[i] = rounds[i]
           /\ rounds'[N + 1] = [kind |-> stage, patch |-> {}, meta |-> "none",
                                timeoutKind |-> "none"]
<1>1. [kind |-> stage, patch |-> {}, meta |-> "none", timeoutKind |-> "none"] \in RoundRecord
  BY DEF TypeOK, RoundRecord, TimeoutKinds
<1> QED
  BY <1>1 DEF TypeOK, OpenTurn, N

LEMMA SnapshotRounds ==
    ASSUME TypeOK, N > 0, SnapshotPatch
    PROVE  /\ N' = N /\ DOMAIN rounds' = 1..N
           /\ \A i \in 1..N : /\ rounds'[i].kind = rounds[i].kind
                              /\ rounds'[i].meta = rounds[i].meta
                              /\ rounds'[i].timeoutKind = rounds[i].timeoutKind
           /\ \A i \in 1..(N - 1) : rounds'[i] = rounds[i]
           /\ rounds'[N].patch = {repo.head.tree}
  BY RoundsType DEF TypeOK, SnapshotPatch, N, RoundRecord

LEMMA RecordRounds ==
    ASSUME TypeOK, N > 0, RecordModifierTurn \/ RecordReviewTurn
    PROVE  /\ N' = N /\ DOMAIN rounds' = 1..N
           /\ \A i \in 1..N : /\ rounds'[i].kind = rounds[i].kind
                              /\ rounds'[i].patch = rounds[i].patch
           /\ \A i \in 1..(N - 1) : rounds'[i] = rounds[i]
           /\ rounds'[N].meta = lastStatus
           /\ rounds'[N].timeoutKind = IF failKind = "timeout" THEN timeoutKind ELSE "none"
<1>1. rounds' = WithMetadata
  BY DEF RecordModifierTurn, RecordReviewTurn
<1>2. rounds \in [1..N -> RoundRecord] /\ N \in 1..N
  BY RoundsType DEF TypeOK
<1>3. DOMAIN rounds' = 1..N /\ N' = N
  BY <1>1, <1>2 DEF WithMetadata, N, TypeOK
<1> QED
  BY <1>1, <1>2, <1>3 DEF WithMetadata, N, RoundRecord

\* The actions that do not.
Quiet == Next /\ ~(OpenTurn \/ SnapshotPatch \/ RecordModifierTurn \/ RecordReviewTurn)

LEMMA QuietRounds == Quiet => rounds' = rounds /\ N' = N
  BY DEF Quiet, Next, Engine, Progress, Start, AdmitAttempt, StartReview, SkipAttempt,
         AttemptsExhausted, EndModifierTurn, Reset, Clean, InspectHead, StageChanges, Decide,
         CommitCheckpoint, MarkCheckpoint, BeginRound, EndReviewTurn, InfrastructureFailure,
         Finalize, FinalizeFails, Elapse, Stray, N

LEMMA OpenPosition ==
    ASSUME TypeOK, CountInv, PositionInv, OpenTurn
    PROVE  /\ round \in Nat \ {0} /\ N = Before
           /\ \/ stage = "modify" /\ N = 0
              \/ stage = "review" /\ N = 2 * round - 1
              \/ Revising /\ N = 2 * round
  BY DEF OpenTurn, PositionInv, Before, TypeOK, Stages, ModifierStages, Revising, CountInv

\* A turn under way has its directory.
LEMMA Opened ==
    ASSUME TypeOK, PositionInv, ~Over, pc \notin {"start", "open", "loop"}
    PROVE  N > 0
  BY DEF PositionInv, Before, TypeOK, Stages, ModifierStages, Over

LEMMA KindStep ==
    ASSUME TypeOK, CountInv, PositionInv, KindInv, Next
    PROVE  KindInv'
<1>1. CASE OpenTurn
  <2> USE RoundsType, OpenRounds, OpenPosition DEF KindInv
  <2>1. ASSUME NEW k \in Nat, 2 * k \in DOMAIN rounds'
        PROVE  rounds'[2 * k].kind = "review"
    BY <1>1, <2>1 DEF Revising
  <2>2. ASSUME NEW k \in Nat, 2 * k + 1 \in DOMAIN rounds'
        PROVE  rounds'[2 * k + 1].kind \in
                   IF k = 0 THEN {"modify"} ELSE {"revise", "final-revision"}
    BY <1>1, <2>2 DEF Revising
  <2> QED
    BY <2>1, <2>2
<1>2. CASE SnapshotPatch \/ RecordModifierTurn \/ RecordReviewTurn
  <2>1. N > 0
    BY <1>2, Opened DEF SnapshotPatch, RecordModifierTurn, RecordReviewTurn, Over
  <2> QED
    BY <1>2, <2>1, SnapshotRounds, RecordRounds, RoundsType DEF KindInv
<1>3. CASE Quiet
  BY <1>3, QuietRounds DEF KindInv
<1> QED
  BY <1>1, <1>2, <1>3 DEF Quiet

\* What a step of the loop says of torn.
LEMMA WorkTorn ==
    ASSUME torn \in BOOLEAN, Work
    PROVE  /\ Next /\ torn' \in BOOLEAN
           /\ torn => torn'
           /\ InfrastructureFailure => torn'
           /\ FinalizeFails => torn' \/ result'.outcome # "checkpoint_failed"
           /\ torn' => torn \/ InfrastructureFailure \/ FinalizeFails
<1> DEFINE ends == FinalizeFails /\ result'.outcome = "checkpoint_failed"
<1>1. torn' = (torn \/ InfrastructureFailure \/ ends)
  BY DEF Work
<1>2. (torn \/ InfrastructureFailure \/ ends) \in BOOLEAN
  OBVIOUS
<1>3. Next
  BY DEF Work
<1> QED
  BY <1>1, <1>2, <1>3

LEMMA PositionStep ==
    ASSUME TypeOK, ControlInv, CountInv, PositionInv, Next,
           ~torn' => ~torn /\ ~InfrastructureFailure
    PROVE  PositionInv'
<1> USE DEF PositionInv, Before, TypeOK, Over, Revising
<1>1. CASE OpenTurn
  <2>1. N' = N + 1
    BY <1>1, OpenRounds
  <2> QED
    BY <1>1, <2>1 DEF OpenTurn, loopVars
<1>2. CASE SnapshotPatch
  <2>1. N' = N
    BY <1>2, Opened, SnapshotRounds DEF SnapshotPatch
  <2> QED
    BY <1>2, <2>1 DEF SnapshotPatch, turnVars
<1>3. CASE RecordModifierTurn \/ RecordReviewTurn
  <2>1. N' = N /\ N > 0 /\ N = Before + 1
    BY <1>3, Opened, RecordRounds DEF RecordModifierTurn, RecordReviewTurn
  <2>2. CASE RecordModifierTurn
    BY <2>1, <2>2 DEF RecordModifierTurn, Conclude, turnVars
  <2>3. CASE RecordReviewTurn
    BY <2>1, <2>3 DEF RecordReviewTurn, Conclude, ModifierStages
  <2> QED
    BY <1>3, <2>2, <2>3
<1>4. CASE Quiet
  <2>1. N' = N
    BY <1>4, QuietRounds
  <2>2. CASE MarkCheckpoint
    BY <2>1, <2>2 DEF MarkCheckpoint, Conclude, turnVars, ControlInv, CountInv, Stages,
         ModifierStages, Revising
  <2>3. CASE BeginRound
    BY <2>1, <2>3 DEF BeginRound, Conclude, loopVars
  <2>4. CASE Start
    BY <2>1, <2>4 DEF Start, turnVars, loopVars
  <2>5. CASE InfrastructureFailure \/ Finalize \/ FinalizeFails
    BY <2>1, <2>5 DEF InfrastructureFailure, Finalize, FinalizeFails, Conclude, turnVars, loopVars
  <2>6. CASE Elapse \/ Stray
    BY <2>1, <2>6 DEF Elapse, Stray, turnVars, loopVars
  <2>7. CASE ~(MarkCheckpoint \/ BeginRound \/ Start \/ InfrastructureFailure \/ Finalize
                 \/ FinalizeFails \/ Elapse \/ Stray)
    <3>1. /\ UNCHANGED <<stage, round>>
          /\ pc \notin {"start", "open", "loop", "finalize", "done"}
          /\ pc' \notin {"start", "open", "loop", "finalize", "done"}
      BY <1>4, <2>7 DEF Quiet, Next, Engine, Progress, AdmitAttempt, StartReview, SkipAttempt,
           AttemptsExhausted, EndModifierTurn, Reset, Clean, InspectHead, StageChanges,
           Decide, CommitCheckpoint, EndReviewTurn, turnVars, loopVars
    <3> QED
      BY <2>1, <3>1
  <2> QED
    BY <2>2, <2>3, <2>4, <2>5, <2>6, <2>7
<1> QED
  BY <1>1, <1>2, <1>3, <1>4 DEF Quiet

LEMMA MetaStep ==
    ASSUME TypeOK, ControlInv, CountInv, PositionInv, MetaInv, Next
    PROVE  MetaInv'
<1> USE RoundsType DEF MetaInv, Revising
<1>1. CASE OpenTurn
  <2>1. \A i \in DOMAIN rounds : rounds[i].meta = "success"
    BY <1>1 DEF OpenTurn
  <2>2. \A i \in DOMAIN rounds' : i < N' => rounds'[i].meta = "success"
    BY <1>1, <2>1, OpenRounds
  <2> QED
    BY <1>1, <2>2 DEF OpenTurn
<1>2. CASE SnapshotPatch
  <2>1. /\ N' = N /\ DOMAIN rounds' = DOMAIN rounds
        /\ \A i \in DOMAIN rounds : rounds'[i].meta = rounds[i].meta
    BY <1>2, Opened, SnapshotRounds DEF SnapshotPatch, Over
  <2> QED
    BY <1>2, <2>1 DEF SnapshotPatch, turnVars, ControlInv
<1>3. CASE RecordModifierTurn \/ RecordReviewTurn
  <2>0. pc = "record"
    BY <1>3 DEF RecordModifierTurn, RecordReviewTurn
  <2>1. /\ N' = N /\ DOMAIN rounds' = DOMAIN rounds
        /\ \A i \in 1..(N - 1) : rounds'[i].meta = rounds[i].meta
        /\ rounds'[N].meta = lastStatus
    BY <1>3, Opened, RecordRounds DEF RecordModifierTurn, RecordReviewTurn, Over
  <2>2. \A i \in DOMAIN rounds' : i < N' => rounds'[i].meta = "success"
    BY <2>1
  <2>3. turnOk => \A i \in DOMAIN rounds' : rounds'[i].meta = "success"
    BY <2>0, <2>1, <2>2
  <2>4. pc' \in {"open", "commit", "finalize"} /\ (pc' # "finalize" => turnOk) /\ turnOk' = turnOk
    BY <1>3 DEF RecordModifierTurn, RecordReviewTurn, Conclude, Approves, turnVars
  <2> QED
    BY <2>2, <2>3, <2>4
<1>4. CASE Quiet
  <2>1. N' = N /\ rounds' = rounds
    BY <1>4, QuietRounds
  <2>2. ASSUME NEW e \in TurnEndings, NEW p, NEW r, EndModifierTurn(e, r, p) PROVE MetaInv'
    <3>1. e[1] \in {"success", "error"}
      BY DEF TurnEndings
    <3> QED
      BY <2>1, <2>2, <3>1 DEF EndModifierTurn, TurnSucceeded, ModifierStages, ControlInv
  <2>3. ASSUME NEW e \in TurnEndings, NEW v, EndReviewTurn(e, v) PROVE MetaInv'
    BY <2>1, <2>3 DEF EndReviewTurn, TurnSucceeded, ControlInv
  <2>4. CASE Decide
    <3>1. \/ pc' = "admit" /\ stage = "modify"
          \/ pc' = "record" /\ turnOk'
      BY <2>4 DEF Decide, RequireChange
    <3>2. UNCHANGED <<stage, lastStatus>> /\ lastStatus = "success" /\ stage # "review"
      BY <2>4 DEF Decide, ControlInv, ModifierStages
    <3> QED
      BY <2>1, <3>1, <3>2
  <2>5. CASE SkipAttempt \/ AttemptsExhausted
    BY <2>1, <2>5 DEF SkipAttempt, AttemptsExhausted, ControlInv
  <2>6. CASE MarkCheckpoint \/ BeginRound
    BY <2>1, <2>6 DEF MarkCheckpoint, BeginRound, Conclude, turnVars
  <2>7. CASE InfrastructureFailure \/ Finalize \/ FinalizeFails
    BY <2>1, <2>7 DEF InfrastructureFailure, Finalize, FinalizeFails, Conclude
  <2>8. CASE Elapse \/ Stray
    BY <2>1, <2>8 DEF Elapse, Stray, turnVars
  <2>9. CASE Start \/ AdmitAttempt \/ StartReview \/ Reset \/ Clean \/ InspectHead
               \/ StageChanges \/ CommitCheckpoint
    BY <2>1, <2>9 DEF Start, AdmitAttempt, StartReview, Reset, Clean, InspectHead,
         StageChanges, CommitCheckpoint, turnVars, ControlInv, ModifierStages
  <2> QED
    BY <1>4, <2>2, <2>3, <2>4, <2>5, <2>6, <2>7, <2>8, <2>9 DEF Quiet, Next, Engine, Progress
<1> QED
  BY <1>1, <1>2, <1>3, <1>4 DEF Quiet

LEMMA EndingStep ==
    ASSUME IInv, PositionInv, MetaInv, EndingInv, torn \in BOOLEAN, Work
    PROVE  EndingInv'
<1> USE RoundsType DEF EndingInv, Over, Done, Infrastructure, Revising
<1>1. Next /\ TypeOK /\ ControlInv
  BY DEF Work, IInv
<1>2. /\ torn => torn'
      /\ InfrastructureFailure => torn'
      /\ torn' => torn \/ InfrastructureFailure \/ FinalizeFails
  BY WorkTorn
<1>3. InfrastructureFailure \/ FinalizeFails => Over'
  BY DEF InfrastructureFailure, FinalizeFails, Conclude
<1>4. CASE ~Over'
  <2>1. ~Over
    BY <1>1, <1>4 DEF Next, Engine, Progress, Start, OpenTurn, SnapshotPatch, AdmitAttempt,
         StartReview, SkipAttempt, AttemptsExhausted, EndModifierTurn, Reset, Clean,
         InspectHead, StageChanges, Decide, RecordModifierTurn, CommitCheckpoint,
         MarkCheckpoint, BeginRound, EndReviewTurn, RecordReviewTurn, InfrastructureFailure,
         ExecutePoints, Finalize, FinalizeFails, Elapse, Stray
  <2>2. ~torn'
    BY <1>2, <1>3, <1>4, <2>1
  <2> QED
    BY <1>4, <2>2
<1>5. CASE RecordModifierTurn /\ Over'
  <2>1. ~turnOk /\ stage \in ModifierStages /\ pc = "record" /\ pc' = "finalize"
        /\ UNCHANGED <<turnOk, stage>>
    BY <1>5 DEF RecordModifierTurn, Conclude, turnVars
  <2>2. /\ N' = N /\ N > 0 /\ DOMAIN rounds' = 1..N
        /\ \A i \in 1..(N - 1) : rounds'[i].meta = rounds[i].meta
        /\ rounds'[N].meta = lastStatus
        /\ rounds'[N].timeoutKind = IF failKind = "timeout" THEN timeoutKind ELSE "none"
    BY <1>1, <1>5, <2>1, Opened, RecordRounds
  <2>3. \/ stage = "modify" /\ result'.outcome \in {"timeout", "empty_patch", "modifier_failed"}
        \/ result'.outcome = "degraded" /\ result'.degradedReason \in {"timeout", "revision_failed"}
    BY <1>1, <1>5, <2>1, Concluded DEF RecordModifierTurn, InitialOutcome
  <2>4. \A i \in DOMAIN rounds' : rounds'[i].meta # "none"
    BY <1>1, <2>2 DEF MetaInv, TypeOK
  <2>5. Revising /\ rounds'[N].meta = "success" => rounds'[N].timeoutKind # "none"
    BY <2>1, <2>2 DEF MetaInv
  <2>6. ~Infrastructure'
    BY <1>1, <1>5, <2>1, <2>3, Concluded DEF RecordModifierTurn
  <2> QED
    BY <2>1, <2>2, <2>3, <2>4, <2>5, <2>6
<1>6. CASE RecordReviewTurn /\ Over'
  <2>1. stage = "review" /\ pc = "record" /\ pc' = "finalize" /\ UNCHANGED <<turnOk, stage>>
    BY <1>6 DEF RecordReviewTurn, Conclude
  <2>2. /\ N' = N /\ N > 0 /\ DOMAIN rounds' = 1..N
        /\ \A i \in 1..(N - 1) : rounds'[i].meta = rounds[i].meta
        /\ rounds'[N].meta = lastStatus
    BY <1>1, <1>6, <2>1, Opened, RecordRounds
  <2>3. \/ turnOk /\ result'.outcome = "approved" /\ result'.degradedReason = "none"
        \/ turnOk /\ result'.outcome = "degraded" /\ result'.degradedReason = "timeout"
        \/ ~turnOk /\ result'.outcome = "degraded" /\ result'.degradedReason = failKind
    BY <1>1, <1>6, <2>1, Concluded DEF RecordReviewTurn, Approves
  <2>4. failKind # "none" /\ failKind # "infrastructure"
    BY <1>1, <2>1 DEF MetaInv, TypeOK, FailKinds
  <2>5. \A i \in DOMAIN rounds' : rounds'[i].meta # "none"
    BY <1>1, <2>2 DEF MetaInv, TypeOK
  <2>6. turnOk => \A i \in DOMAIN rounds' : rounds'[i].meta = "success"
    BY <1>1, <2>1, <2>2 DEF MetaInv
  <2> QED
    BY <2>1, <2>2, <2>3, <2>4, <2>5, <2>6
<1>7. CASE MarkCheckpoint /\ Over'
  <2>1. pc' = "finalize" /\ pc = "mark" /\ UNCHANGED <<rounds, turnOk, stage, N>>
    BY <1>7 DEF MarkCheckpoint, Conclude, turnVars, N
  <2>2. result'.outcome = "max_reviews_reached" /\ result'.degradedReason = "none"
    BY <1>1, <1>7, <2>1, Concluded DEF MarkCheckpoint
  <2> QED
    BY <2>1, <2>2 DEF MetaInv
<1>8. CASE BeginRound /\ Over'
  <2>1. pc' = "finalize" /\ pc = "loop" /\ UNCHANGED <<rounds, turnOk, stage, N>>
    BY <1>8 DEF BeginRound, Conclude, N
  <2>2. \/ result'.outcome = "max_reviews_reached" /\ result'.degradedReason = "none"
        \/ result'.outcome = "degraded" /\ result'.degradedReason = "timeout"
    BY <1>1, <1>8, <2>1, Concluded DEF BeginRound
  <2> QED
    BY <2>1, <2>2 DEF MetaInv
<1>9. CASE InfrastructureFailure
  <2>1. pc' = "finalize" /\ torn'
    BY <1>2, <1>9 DEF InfrastructureFailure, Conclude
  <2>2. \/ result'.outcome = "degraded" /\ result'.degradedReason = "infrastructure"
        \/ result'.outcome = "checkpoint_failed" /\ result'.degradedReason = "none"
    BY <1>1, <1>9, Concluded DEF InfrastructureFailure
  <2> QED
    BY <2>1, <2>2
<1>10. CASE Finalize
  <2>1. /\ pc = "finalize" /\ pc' = "done" /\ UNCHANGED <<rounds, turnOk, stage, repo, N>>
        /\ result'.outcome \in {result.outcome, "empty_patch"}
        /\ result'.degradedReason = result.degradedReason
        /\ result'.finalCommit = repo.head
    BY <1>1, <1>10 DEF Finalize, TypeOK, ResultRecord, turnVars, repoVars, N
  <2> QED
    BY <1>2, <2>1
<1>11. CASE FinalizeFails
  <2>1. /\ pc = "finalize" /\ pc' = "done" /\ UNCHANGED <<rounds, turnOk, stage, repo, N>>
        /\ result'.outcome = "checkpoint_failed"
        /\ result'.degradedReason = result.degradedReason
    BY <1>1, <1>11 DEF FinalizeFails, TypeOK, ResultRecord, turnVars, repoVars, N
  <2>2. torn'
    BY <1>11, <2>1, WorkTorn
  <2> QED
    BY <2>1, <2>2 DEF DELIVERABLE_OUTCOMES
<1>12. CASE Elapse \/ Stray
  <2>1. /\ UNCHANGED <<pc, rounds, turnOk, stage, result, N>> /\ pc # "done"
    BY <1>12 DEF Elapse, Stray, turnVars, N
  <2>2. ~Over' => ~torn'
    BY <1>2, <1>3, <2>1
  <2> QED
    BY <1>2, <2>1, <2>2
<1> QED
  BY <1>1, <1>4, <1>5, <1>6, <1>7, <1>8, <1>9, <1>10, <1>11, <1>12
     DEF Next, Engine, Progress, Start, OpenTurn, SnapshotPatch, AdmitAttempt,
         StartReview, SkipAttempt, AttemptsExhausted, EndModifierTurn, Reset, Clean,
         InspectHead, StageChanges, Decide, CommitCheckpoint, EndReviewTurn

LEMMA ReachedStep ==
    ASSUME IInv, PositionInv, MetaInv, ReachedInv, torn \in BOOLEAN, Work
    PROVE  ReachedInv'
<1> SUFFICES ASSUME Over', ~torn'
             PROVE  /\ stage' = "modify" => N' = 1
                    /\ stage' = "review" =>
                         /\ N' = 2 * round' /\ revisionCount' = round' - 1
                         /\ reviewCount' = IF turnOk' THEN round' ELSE round' - 1
                    /\ Revising' =>
                         /\ N' = 2 * reviewCount' + 1 /\ reviewCount' >= 1
                         /\ revisionCount' = IF turnOk' THEN reviewCount' ELSE reviewCount' - 1
  BY DEF ReachedInv
<1> USE RoundsType DEF Over, Revising, CountInv, PositionInv, Before
<1>1. Next /\ TypeOK /\ ControlInv /\ CountInv
  BY DEF Work, IInv
<1>2. ~torn /\ ~InfrastructureFailure /\ (FinalizeFails => result'.outcome # "checkpoint_failed")
  BY WorkTorn
<1>3. round \in Nat /\ round >= 1 /\ reviewCount \in Nat /\ revisionCount \in Nat /\ N \in Nat
  BY <1>1 DEF TypeOK
<1>4. CASE RecordModifierTurn
  <2>1. /\ pc = "record" /\ ~turnOk /\ stage \in ModifierStages
        /\ UNCHANGED <<stage, turnOk, round, reviewCount, revisionCount>>
    BY <1>4 DEF RecordModifierTurn, turnVars
  <2>2. N' = N /\ N = Before + 1
    BY <1>1, <1>4, <2>1, Opened, RecordRounds
  <2> QED
    BY <1>1, <1>3, <2>1, <2>2 DEF ModifierStages
<1>5. CASE RecordReviewTurn
  <2>1. /\ pc = "record" /\ stage = "review"
        /\ reviewCount' = IF turnOk THEN reviewCount + 1 ELSE reviewCount
        /\ UNCHANGED <<stage, turnOk, round, revisionCount>>
    BY <1>5 DEF RecordReviewTurn, Conclude
  <2>2. N' = N /\ N = Before + 1
    BY <1>1, <1>5, <2>1, Opened, RecordRounds
  <2> QED
    BY <1>1, <1>3, <2>1, <2>2
<1>6. CASE MarkCheckpoint
  <2>1. /\ pc = "mark" /\ Revising
        /\ UNCHANGED <<stage, turnOk, round, reviewCount, revisionCount, rounds, N>>
    BY <1>1, <1>6 DEF MarkCheckpoint, Conclude, turnVars, N, ControlInv, ModifierStages
  <2> QED
    BY <1>1, <1>3, <2>1 DEF MetaInv
<1>7. CASE BeginRound
  <2>1. /\ pc = "loop" /\ turnOk
        /\ UNCHANGED <<stage, turnOk, round, reviewCount, revisionCount, rounds, N>>
    BY <1>7 DEF BeginRound, Conclude, loopVars, N, MetaInv
  <2> QED
    BY <1>1, <1>3, <2>1 DEF ControlInv
<1>8. CASE Finalize \/ FinalizeFails \/ Elapse \/ Stray
  <2>1. /\ Over
        /\ UNCHANGED <<stage, turnOk, round, reviewCount, revisionCount, rounds, N>>
    BY <1>8 DEF Finalize, FinalizeFails, Elapse, Stray, turnVars, loopVars, N
  <2> QED
    BY <1>2, <2>1 DEF ReachedInv
<1> QED
  BY <1>1, <1>2, <1>4, <1>5, <1>6, <1>7, <1>8
     DEF Next, Engine, Progress, Start, OpenTurn, SnapshotPatch, AdmitAttempt,
         StartReview, SkipAttempt, AttemptsExhausted, EndModifierTurn, Reset, Clean,
         InspectHead, StageChanges, Decide, CommitCheckpoint, EndReviewTurn

LEMMA OverStays ==
    ASSUME Over, Next
    PROVE  /\ Finalize \/ FinalizeFails \/ Elapse \/ Stray
           /\ Over'
           /\ UNCHANGED <<stage, turnOk, round, reviewCount, rounds, N, lastCheckpoint, checkpoints, violations>>
<1>1. Finalize \/ FinalizeFails \/ Elapse \/ Stray
  BY DEF Over, Next, Engine, Progress, Start, OpenTurn, SnapshotPatch, AdmitAttempt,
         StartReview, SkipAttempt, AttemptsExhausted, EndModifierTurn, Reset, Clean,
         InspectHead, StageChanges, Decide, RecordModifierTurn, CommitCheckpoint,
         MarkCheckpoint, BeginRound, EndReviewTurn, RecordReviewTurn, InfrastructureFailure,
         ExecutePoints
<1> QED
  BY <1>1 DEF Over, Finalize, FinalizeFails, Elapse, Stray, turnVars, loopVars, trustVars, N

LEMMA PatchStep ==
    ASSUME IInv, PositionInv, MetaInv, EndingInv, PatchInv, torn \in BOOLEAN, Work
    PROVE  PatchInv'
<1> USE RoundsType DEF Over, Revising, CountInv, PositionInv, Before
<1>1. Next /\ TypeOK /\ ControlInv /\ CountInv /\ HeadInv
  BY DEF Work, IInv
<1>2. torn => torn' /\ (InfrastructureFailure => torn')
  BY WorkTorn
<1>3. round \in Nat /\ round >= 1 /\ reviewCount \in Nat /\ N \in Nat
  BY <1>1 DEF TypeOK
<1>4. /\ ~Over => ~torn
      /\ InfrastructureFailure => torn'
  BY WorkTorn DEF EndingInv
<1> DEFINE Kept == /\ UNCHANGED <<rounds, N, lastCheckpoint>>
                   /\ pc = "snapshot" => pc' = "snapshot"
<1>5. ASSUME Kept, Settled' \/ Stopped' => (Settled \/ Stopped) /\ ReviewedRound' = ReviewedRound
      PROVE  PatchInv'
  BY <1>2, <1>5 DEF PatchInv
<1>6. CASE OpenTurn
  <2>1. /\ N' = N + 1 /\ DOMAIN rounds' = 1..(N + 1)
        /\ \A i \in 1..N : rounds'[i] = rounds[i]
        /\ rounds'[N + 1].patch = {}
    BY <1>1, <1>6, OpenRounds
  <2>2. pc = "open" /\ UNCHANGED <<stage, round, lastCheckpoint>> /\ ~torn
    BY <1>4, <1>6 DEF OpenTurn, loopVars, trustVars
  <2>3. pc' = IF stage = "review" THEN "snapshot" ELSE "admit"
    BY <1>6 DEF OpenTurn
  <2>4. ASSUME NEW k \in Nat \ {0}, 2 * k \in DOMAIN rounds'
        PROVE  \/ \E tree \in Tree : rounds'[2 * k].patch = {tree}
               \/ rounds'[2 * k].patch = {} /\ 2 * k = N' /\ pc' = "snapshot"
    <3>1. CASE 2 * k \in 1..N
      BY <1>1, <2>1, <2>2, <3>1 DEF PatchInv
    <3>2. CASE 2 * k = N + 1
      <4>1. stage = "review"
        BY <1>1, <1>6, <3>2, OpenPosition DEF Revising
      <4> QED
        BY <2>1, <2>3, <3>2, <4>1
    <3> QED
      BY <1>3, <2>1, <2>4, <3>1, <3>2
  <2>5. ASSUME Settled' \/ Stopped' PROVE rounds'[ReviewedRound'].patch = {lastCheckpoint'.tree}
    <3>1. Revising /\ ReviewedRound' = 2 * round /\ ReviewedRound = 2 * round /\ Settled
      BY <2>2, <2>3, <2>5 DEF Settled, Stopped, ReviewedRound
    <3>2. 2 * round = N
      BY <1>1, <2>2, <3>1
    <3> QED
      BY <1>3, <2>1, <2>2, <3>1, <3>2 DEF PatchInv
  <2> QED
    BY <2>4, <2>5 DEF PatchInv
<1>7. CASE SnapshotPatch
  <2>1. pc = "snapshot" /\ pc' = "admit" /\ UNCHANGED <<stage, round, lastCheckpoint>>
    BY <1>7 DEF SnapshotPatch, turnVars, trustVars
  <2>2. stage = "review" /\ N = 2 * round /\ repo.head = lastCheckpoint
    BY <1>1, <1>3, <2>1 DEF ControlInv, HeadInv, AtCheckpoint
  <2>3. /\ N' = N /\ DOMAIN rounds' = 1..N
        /\ \A i \in 1..(N - 1) : rounds'[i] = rounds[i]
        /\ rounds'[N].patch = {repo.head.tree}
    BY <1>1, <1>3, <1>7, <2>2, SnapshotRounds
  <2>4. repo.head.tree \in Tree
    BY <1>1 DEF TypeOK, Repository, Commit
  <2>5. ASSUME NEW k \in Nat \ {0}, 2 * k \in DOMAIN rounds'
        PROVE  \E tree \in Tree : rounds'[2 * k].patch = {tree}
    <3>1. CASE 2 * k = N
      BY <2>3, <2>4, <3>1
    <3>2. CASE 2 * k # N
      BY <1>1, <2>3, <2>5, <3>2 DEF PatchInv
    <3> QED
      BY <3>1, <3>2
  <2>6. rounds'[ReviewedRound'].patch = {lastCheckpoint'.tree}
    BY <2>1, <2>2, <2>3 DEF ReviewedRound
  <2> QED
    BY <2>5, <2>6 DEF PatchInv
<1>8. CASE RecordModifierTurn \/ RecordReviewTurn
  <2>1. pc = "record" /\ ~torn /\ UNCHANGED <<round, lastCheckpoint, turnOk>>
    BY <1>4, <1>8 DEF RecordModifierTurn, RecordReviewTurn, Conclude, turnVars, trustVars
  <2>2. /\ N' = N /\ DOMAIN rounds' = 1..N
        /\ \A i \in 1..N : rounds'[i].patch = rounds[i].patch
        /\ N = Before + 1
    BY <1>1, <1>8, <2>1, Opened, RecordRounds
  <2>3. ASSUME Settled' \/ Stopped'
        PROVE  Settled /\ ReviewedRound = 2 * round /\ ReviewedRound' = 2 * round
    <3>1. CASE RecordReviewTurn
      <4>1. /\ stage = "review" /\ pc' \in {"open", "finalize"}
            /\ pc' = "finalize" => stage' = stage
        BY <3>1 DEF RecordReviewTurn, Conclude
      <4> QED
        BY <2>1, <4>1 DEF Settled, Stopped, ReviewedRound
    <3>2. CASE RecordModifierTurn
      <4>1. stage' = stage /\ stage \in ModifierStages /\ reviewCount' = reviewCount
            /\ pc' \in {"commit", "finalize"}
        BY <3>2 DEF RecordModifierTurn, Conclude, turnVars
      <4>2. stage # "modify"
        BY <2>3, <4>1 DEF Settled, Stopped
      <4> QED
        BY <1>1, <2>1, <4>1, <4>2 DEF Settled, Stopped, ReviewedRound, ModifierStages
    <3> QED
      BY <1>8, <3>1, <3>2
  <2>4. ASSUME Settled' \/ Stopped' PROVE rounds'[ReviewedRound'].patch = {lastCheckpoint'.tree}
    <3>1. Settled /\ ReviewedRound = 2 * round /\ ReviewedRound' = 2 * round
      BY <2>3, <2>4
    <3>2. stage = "review" \/ Revising
      BY <3>1 DEF Settled
    <3>3. 2 * round \in 1..N
      BY <1>3, <2>2, <3>2
    <3> QED
      BY <2>1, <2>2, <3>1, <3>3 DEF PatchInv
  <2>5. \A k \in Nat \ {0} : 2 * k \in DOMAIN rounds' =>
          \E tree \in Tree : rounds'[2 * k].patch = {tree}
    BY <1>1, <2>1, <2>2 DEF PatchInv
  <2> QED
    BY <2>4, <2>5 DEF PatchInv
<1>9. CASE Quiet
  <2>1. rounds' = rounds /\ N' = N
    BY <1>9, QuietRounds
  <2>2. CASE Over
    <3>1. /\ Over'
          /\ UNCHANGED <<stage, turnOk, round, reviewCount, lastCheckpoint>>
      BY <1>1, <2>2, OverStays
    <3> QED
      BY <1>2, <1>5, <2>1, <2>2, <3>1 DEF Settled, Stopped, ReviewedRound
  <2>3. CASE MarkCheckpoint
    <3>1. ~(Settled' \/ Stopped') /\ pc = "mark"
      BY <1>1, <2>3 DEF MarkCheckpoint, Conclude, turnVars, ControlInv, ModifierStages,
           Settled, Stopped, MetaInv
    <3> QED
      BY <1>2, <1>4, <2>1, <3>1 DEF PatchInv
  <2>4. CASE BeginRound
    <3>1. ~(Settled' \/ Stopped') /\ pc = "loop"
      BY <1>1, <2>4 DEF BeginRound, Conclude, ControlInv, Settled, Stopped, MetaInv
    <3> QED
      BY <1>2, <1>4, <2>1, <3>1 DEF PatchInv
  <2>5. CASE InfrastructureFailure
    <3>1. ~(Settled' \/ Stopped') /\ torn'
      BY <1>4, <2>5 DEF InfrastructureFailure, Conclude, Settled, Stopped
    <3> QED
      BY <2>1, <3>1 DEF PatchInv
  <2>6. CASE Start
    <3>1. ~(Settled' \/ Stopped') /\ pc = "start"
      BY <1>1, <2>6 DEF Start, turnVars, ControlInv, Settled, Stopped
    <3> QED
      BY <1>2, <1>4, <2>1, <3>1 DEF PatchInv
  <2>7. CASE ~Over /\ ~(MarkCheckpoint \/ BeginRound \/ InfrastructureFailure \/ Start)
    <3>1. /\ UNCHANGED <<stage, round, lastCheckpoint>>
          /\ pc # "loop" \/ pc' = pc
          /\ pc = "snapshot" => pc' = "snapshot"
          /\ pc' \notin {"finalize", "done"}
          /\ pc \notin {"open", "snapshot", "loop"} \/ pc' = pc
      BY <1>9, <2>7 DEF Quiet, Next, Engine, Progress, AdmitAttempt, StartReview, SkipAttempt,
           AttemptsExhausted, EndModifierTurn, Reset, Clean, InspectHead, StageChanges,
           Decide, CommitCheckpoint, EndReviewTurn, Finalize, FinalizeFails, Elapse, Stray,
           turnVars, loopVars, trustVars
    <3>2. stage = "review" => pc \notin {"reset", "clean", "inspect", "stage", "decide", "commit",
                                         "mark", "loop", "start"}
      BY <1>1 DEF ControlInv, ModifierStages
    <3>3. Settled' => Settled
      BY <1>1, <2>7, <3>1, <3>2 DEF Settled, TypeOK, ExecutePoints
    <3> QED
      BY <1>5, <2>1, <2>7, <3>1, <3>3 DEF Stopped, ReviewedRound
  <2> QED
    BY <2>2, <2>3, <2>4, <2>5, <2>6, <2>7
<1> QED
  BY <1>1, <1>6, <1>7, <1>8, <1>9 DEF Quiet

LEMMA BaseStep ==
    ASSUME IInv, Next, \A c \in {repo.head, lastCheckpoint} : c.by = "base" => c = RootCommit
    PROVE  \A c \in {repo'.head, lastCheckpoint'} : c.by = "base" => c = RootCommit
<1> USE DEF RootCommit
<1>1. TypeOK /\ ControlInv
  BY DEF IInv
<1>2. CASE UNCHANGED <<repo, lastCheckpoint>>
  BY <1>2
<1>3. ASSUME NEW e \in TurnEndings, NEW p \in BOOLEAN,
             NEW r \in AgentEffects(repo, turns + 1), EndModifierTurn(e, r, p)
      PROVE  /\ repo'.head \in {repo.head, RootCommit} \/ repo'.head.by = "modifier"
             /\ lastCheckpoint' = lastCheckpoint
  BY <1>1, <1>3, AgentTouches DEF TypeOK, EndModifierTurn, trustVars
<1>4. CASE Reset
  BY <1>1, <1>4 DEF Reset, HardReset, ResetCommit, ControlInv, trustVars
<1>5. CASE Clean \/ StageChanges \/ Stray
  BY <1>1, <1>5 DEF Clean, RemoveFresh, StageChanges, StageAllExcept, Stray, StrayWrite,
       TypeOK, Repository, trustVars
<1>6. CASE CommitCheckpoint
  BY <1>1, <1>6 DEF CommitCheckpoint, CommitIndex, TypeOK, Repository, trustVars
<1>7. CASE MarkCheckpoint \/ Start
  BY <1>7 DEF MarkCheckpoint, Start, repoVars
<1>8. \/ UNCHANGED <<repo, lastCheckpoint>>
      \/ \E e \in TurnEndings, p \in BOOLEAN, r \in AgentEffects(repo, turns + 1) :
           EndModifierTurn(e, r, p)
      \/ Reset \/ Clean \/ StageChanges \/ Stray \/ CommitCheckpoint \/ MarkCheckpoint \/ Start
  BY DEF Next, Engine, Progress, OpenTurn, SnapshotPatch, AdmitAttempt, StartReview, SkipAttempt,
         AttemptsExhausted, InspectHead, Decide, RecordModifierTurn, BeginRound, EndReviewTurn,
         RecordReviewTurn, InfrastructureFailure, Finalize, FinalizeFails, Elapse,
         repoVars, trustVars
<1> QED
  BY <1>2, <1>3, <1>4, <1>5, <1>6, <1>7, <1>8

LEMMA RecordedStep ==
    ASSUME IInv, PositionInv, RecordedInv, Next
    PROVE  RecordedInv'
<1>1. TypeOK /\ ControlInv /\ HeadInv /\ OriginInv
  BY DEF IInv
<1>2. \A c \in {repo'.head, lastCheckpoint'} : c.by = "base" => c = RootCommit
  BY BaseStep DEF RecordedInv
<1>3. /\ IsFiniteSet(checkpoints')
      /\ checkpoints \subseteq checkpoints' /\ violations \subseteq violations'
  <2>1. CASE MarkCheckpoint
    BY <2>1, FS_AddElement DEF MarkCheckpoint, RecordedInv
  <2>2. CASE InspectHead
    BY <2>2 DEF InspectHead, RecordedInv
  <2>3. MarkCheckpoint \/ InspectHead \/ UNCHANGED <<checkpoints, violations>>
    BY DEF Next, Engine, Progress, Start, OpenTurn, SnapshotPatch, AdmitAttempt, StartReview,
           SkipAttempt, AttemptsExhausted, EndModifierTurn, Reset, Clean, StageChanges, Decide,
           RecordModifierTurn, CommitCheckpoint, BeginRound, EndReviewTurn, RecordReviewTurn,
           InfrastructureFailure, Finalize, FinalizeFails, Elapse, Stray, trustVars
  <2> QED
    BY <2>1, <2>2, <2>3 DEF RecordedInv
<1>4. ASSUME checkpoints' = {}, violations' = {}
      PROVE  lastCheckpoint' \in {NoCommit, RootCommit}
  <2>1. lastCheckpoint \in {NoCommit, RootCommit} /\ violations = {}
    BY <1>3, <1>4 DEF RecordedInv
  <2>2. CASE MarkCheckpoint
    <3>1. /\ lastCheckpoint' = repo.head /\ repo.head \in Commit /\ pc = "mark"
          /\ ~(repo.head.by = "harness" /\ repo.head.turn = turns)
      BY <1>1, <1>4, <2>2 DEF MarkCheckpoint, TypeOK, Repository
    <3>2. repo.head.by # "modifier"
      BY <1>1, <2>1, <3>1 DEF OriginInv, Committing
    <3>3. repo.head \in {lastCheckpoint, RootCommit} \/ repo.head.turn = turns
      BY <1>1 DEF HeadInv
    <3> QED
      BY <2>1, <3>1, <3>2, <3>3 DEF RecordedInv, Commit
  <2>3. CASE Start
    BY <1>1, <2>3 DEF Start, ControlInv
  <2>4. MarkCheckpoint \/ Start \/ UNCHANGED lastCheckpoint
    BY DEF Next, Engine, Progress, OpenTurn, SnapshotPatch, AdmitAttempt, StartReview,
           SkipAttempt, AttemptsExhausted, EndModifierTurn, Reset, Clean, StageChanges, Decide,
           RecordModifierTurn, CommitCheckpoint, BeginRound, EndReviewTurn, RecordReviewTurn,
           InspectHead, InfrastructureFailure, Finalize, FinalizeFails, Elapse, Stray, trustVars
  <2> QED
    BY <2>1, <2>2, <2>3, <2>4
<1>5. ASSUME checkpoints' = {}, violations' = {}
      PROVE  \A i \in DOMAIN rounds' : rounds'[i].patch \subseteq {RootCommit.tree}
  <2>1. /\ lastCheckpoint \in {NoCommit, RootCommit}
        /\ \A i \in DOMAIN rounds : rounds[i].patch \subseteq {RootCommit.tree}
    BY <1>3, <1>5 DEF RecordedInv
  <2>2. CASE OpenTurn
    BY <1>1, <2>1, <2>2, RoundsType, OpenRounds
  <2>3. CASE SnapshotPatch
    <3>1. N > 0 /\ repo.head = lastCheckpoint
      BY <1>1, <2>3, Opened DEF SnapshotPatch, Over, HeadInv, AtCheckpoint
    <3>2. repo.head.tree = RootCommit.tree
      BY <2>1, <3>1 DEF NoCommit, RootCommit
    <3> QED
      BY <1>1, <2>1, <2>3, <3>1, <3>2, RoundsType, SnapshotRounds
  <2>4. CASE RecordModifierTurn \/ RecordReviewTurn
    <3>1. N > 0
      BY <1>1, <2>4, Opened DEF RecordModifierTurn, RecordReviewTurn, Over
    <3> QED
      BY <1>1, <2>1, <2>4, <3>1, RoundsType, RecordRounds
  <2>5. CASE Quiet
    BY <2>1, <2>5, QuietRounds
  <2> QED
    BY <2>2, <2>3, <2>4, <2>5 DEF Quiet
<1> QED
  BY <1>2, <1>3, <1>4, <1>5 DEF RecordedInv

LEMMA DeliveredStep ==
    ASSUME IInv, DeliveredInv, Next
    PROVE  DeliveredInv'
<1>1. ~Done => ~result.deliverable
  BY DEF IInv, ResultInv
<1>2. baseCommit \in {NoCommit, RootCommit} /\ result \in ResultRecord
  BY DEF IInv, ControlInv, TypeOK
<1>3. CASE Finalize
  BY <1>2, <1>3 DEF Finalize, DeliveredInv, isDeliverable, DELIVERABLE_OUTCOMES, repoVars, ResultRecord
<1>4. CASE FinalizeFails
  BY <1>2, <1>4 DEF FinalizeFails, DeliveredInv, ResultRecord
<1>5. CASE ~(Finalize \/ FinalizeFails)
  <2>1. pc # "done"
    BY <1>5 DEF Next, Engine, Progress, Start, OpenTurn, SnapshotPatch, AdmitAttempt, StartReview,
           SkipAttempt, AttemptsExhausted, EndModifierTurn, Reset, Clean, StageChanges, Decide,
           RecordModifierTurn, CommitCheckpoint, BeginRound, EndReviewTurn, RecordReviewTurn,
           InspectHead, MarkCheckpoint, InfrastructureFailure, Elapse, Stray, ExecutePoints
  <2>2. pc' # "done"
    BY <1>5, <2>1 DEF Next, Engine, Progress, Start, OpenTurn, SnapshotPatch, AdmitAttempt, StartReview,
           SkipAttempt, AttemptsExhausted, EndModifierTurn, Reset, Clean, StageChanges, Decide,
           RecordModifierTurn, CommitCheckpoint, BeginRound, EndReviewTurn, RecordReviewTurn,
           InspectHead, MarkCheckpoint, InfrastructureFailure, Elapse, Stray, Conclude
  <2> QED
    BY <2>2 DEF DeliveredInv, Done
<1> QED
  BY <1>3, <1>4, <1>5

\* Nothing but a snapshot makes the round's patch the trusted checkpoint again.
LEMMA SettledStep ==
    ASSUME IInv, PositionInv, MetaInv, EndingInv, torn \in BOOLEAN, Work,
           ~OpenTurn, ~SnapshotPatch, Settled' \/ Stopped'
    PROVE  Settled \/ Stopped
<1> USE DEF Over, Revising
<1>1. Next /\ TypeOK /\ ControlInv
  BY DEF Work, IInv
<1>2. torn => torn' /\ (InfrastructureFailure => torn')
  BY WorkTorn
<1>3. InfrastructureFailure => torn'
  BY WorkTorn
<1>4. CASE Over
  BY <1>1, <1>2, <1>4, OverStays DEF Settled, Stopped
<1>5. CASE RecordReviewTurn
  <2>1. /\ pc = "record" /\ stage = "review" /\ pc' \in {"open", "finalize"}
    BY <1>5 DEF RecordReviewTurn, Conclude
  <2> QED
    BY <2>1 DEF Settled
<1>6. CASE RecordModifierTurn
  <2>1. /\ pc = "record" /\ stage' = stage /\ stage \in ModifierStages
        /\ pc' \in {"commit", "finalize"}
    BY <1>6 DEF RecordModifierTurn, Conclude, turnVars
  <2> QED
    BY <2>1 DEF Settled, Stopped, ModifierStages
<1>7. CASE MarkCheckpoint \/ BeginRound \/ InfrastructureFailure \/ Start
  <2>1. ~(Settled' \/ Stopped')
    <3>1. CASE MarkCheckpoint
      BY <1>1, <3>1 DEF MarkCheckpoint, Conclude, turnVars, ControlInv, ModifierStages,
         Settled, Stopped, MetaInv
    <3>2. CASE BeginRound
      BY <1>1, <3>2 DEF BeginRound, Conclude, ControlInv, Settled, Stopped, MetaInv
    <3>3. CASE InfrastructureFailure
      BY <1>3, <3>3 DEF InfrastructureFailure, Conclude, Settled, Stopped
    <3>4. CASE Start
      BY <1>1, <3>4 DEF Start, turnVars, ControlInv, Settled, Stopped
    <3> QED
      BY <1>7, <3>1, <3>2, <3>3, <3>4
  <2> QED
    BY <2>1
<1>8. CASE ~Over /\ ~(MarkCheckpoint \/ BeginRound \/ InfrastructureFailure \/ Start
                        \/ RecordReviewTurn \/ RecordModifierTurn)
  <2>1. /\ UNCHANGED stage
        /\ pc # "loop" \/ pc' = pc
        /\ pc' \notin {"finalize", "done"}
        /\ pc \notin {"open", "snapshot", "loop"} \/ pc' = pc
    BY <1>1, <1>8 DEF Next, Engine, Progress, AdmitAttempt, StartReview, SkipAttempt,
         AttemptsExhausted, EndModifierTurn, Reset, Clean, InspectHead, StageChanges,
         Decide, CommitCheckpoint, EndReviewTurn, Finalize, FinalizeFails, Elapse, Stray,
         turnVars
  <2>2. stage = "review" => pc \notin {"reset", "clean", "inspect", "stage", "decide", "commit",
                                       "mark", "loop", "start"}
    BY <1>1 DEF ControlInv, ModifierStages
  <2> QED
    BY <1>1, <1>8, <2>1, <2>2 DEF Settled, Stopped, TypeOK, ExecutePoints
<1> QED
  BY <1>4, <1>5, <1>6, <1>7, <1>8

\* Where the snapshot is taken, and what a step does to the trail.
LEMMA WorkFrame ==
    ASSUME IInv, EndingInv, torn \in BOOLEAN, Work
    PROVE  /\ ~OpenTurn /\ pc' = "snapshot" => pc = "snapshot"
           /\ pc = "snapshot" => \/ SnapshotPatch \/ pc' = "snapshot"
                                 \/ Over' /\ torn'
           /\ \/ MarkCheckpoint
              \/ Start /\ trail' = trail
              \/ UNCHANGED <<lastCheckpoint, trail>>
           /\ Over => Over' /\ (torn => torn')
           /\ Over' /\ ~torn' => ~torn
           /\ ~Over => ~torn
<1>1. Next
  BY DEF Work
<1>2. ~OpenTurn /\ pc' = "snapshot" => pc = "snapshot"
  BY <1>1 DEF Next, Engine, Progress, Start, SnapshotPatch, AdmitAttempt, StartReview,
         SkipAttempt, AttemptsExhausted, EndModifierTurn, Reset, Clean, StageChanges, Decide,
         RecordModifierTurn, CommitCheckpoint, BeginRound, EndReviewTurn, RecordReviewTurn,
         InspectHead, MarkCheckpoint, InfrastructureFailure, Finalize, FinalizeFails, Elapse,
         Stray, Conclude
<1>3. pc = "snapshot" => SnapshotPatch \/ pc' = "snapshot" \/ InfrastructureFailure
  BY <1>1 DEF Next, Engine, Progress, Start, OpenTurn, AdmitAttempt, StartReview,
         SkipAttempt, AttemptsExhausted, EndModifierTurn, Reset, Clean, StageChanges, Decide,
         RecordModifierTurn, CommitCheckpoint, BeginRound, EndReviewTurn, RecordReviewTurn,
         InspectHead, MarkCheckpoint, Finalize, FinalizeFails, Elapse, Stray
<1>4. InfrastructureFailure => Over' /\ torn'
  BY WorkTorn DEF InfrastructureFailure, Conclude, Over
<1>5. MarkCheckpoint \/ Start \/ UNCHANGED lastCheckpoint
  BY <1>1 DEF Next, Engine, Progress, OpenTurn, SnapshotPatch, AdmitAttempt, StartReview,
         SkipAttempt, AttemptsExhausted, EndModifierTurn, Reset, Clean, StageChanges, Decide,
         RecordModifierTurn, CommitCheckpoint, BeginRound, EndReviewTurn, RecordReviewTurn,
         InspectHead, InfrastructureFailure, Finalize, FinalizeFails, Elapse, Stray, trustVars
<1>6. UNCHANGED lastCheckpoint => trail' = trail
  BY DEF Work
<1>7. Start => trail' = trail
  BY DEF Work, Start
<1> QED
  BY <1>1, <1>2, <1>3, <1>4, <1>5, <1>6, <1>7, WorkTorn, OverStays DEF EndingInv

LEMMA TrailStep ==
    ASSUME IInv, PositionInv, EndingInv, TrailInv, torn \in BOOLEAN, Work
    PROVE  TrailInv'
<1> USE DEF Over, Before
<1>1. Next /\ TypeOK /\ ControlInv /\ CountInv
  BY DEF Work, IInv
<1>2. N \in Nat /\ round \in Nat /\ Len(trail) \in Nat /\ trail \in Seq(Tree)
  BY <1>1 DEF TypeOK, N, TrailInv
<1>3. CASE MarkCheckpoint
  <2>1. /\ pc = "mark" /\ lastCheckpoint' = repo.head /\ UNCHANGED <<stage, rounds, N>>
        /\ stage \in ModifierStages /\ pc' \in {"loop", "finalize"}
        /\ pc' = "finalize" => stage # "modify"
    BY <1>1, <1>3 DEF MarkCheckpoint, Conclude, turnVars, ControlInv, N
  <2>2. repo.head.tree \in Tree
    BY <1>1 DEF TypeOK, Repository, Commit
  <2>3. stage = "modify" => trail = <<>>
    BY <2>1 DEF TrailInv
  <2>4. stage # "modify" => N > 1
    BY <1>1, <1>2, <2>1 DEF PositionInv, ModifierStages
  <2>5. CASE lastCheckpoint' # lastCheckpoint
    <3>1. trail' = Append(trail, repo.head.tree)
      BY <2>1, <2>5 DEF Work
    <3>2. /\ trail' \in Seq(Tree) /\ trail' # <<>> /\ Len(trail') = Len(trail) + 1
          /\ trail'[Len(trail')] = repo.head.tree
      BY <1>2, <2>2, <3>1
    <3>3. trail = <<>> => Len(trail') = 1
      BY <3>2
    <3> QED
      BY <1>2, <2>1, <2>3, <2>4, <3>2, <3>3 DEF TrailInv
  <2>6. CASE lastCheckpoint' = lastCheckpoint
    <3>1. trail' = trail
      BY <2>6 DEF Work
    <3> QED
      BY <2>1, <2>6, <3>1 DEF TrailInv
  <2> QED
    BY <2>5, <2>6
<1>4. CASE Start
  <2>1. trail' = trail /\ pc = "start" /\ pc' = "open" /\ N' = N /\ UNCHANGED stage
        /\ stage = "modify" /\ lastCheckpoint' = RootCommit
    BY <1>1, <1>4 DEF Start, ControlInv, turnVars, N, Work
  <2>2. trail = <<>>
    BY <2>1 DEF TrailInv
  <2> QED
    BY <1>2, <2>1, <2>2 DEF TrailInv
<1>5. CASE ~MarkCheckpoint /\ ~Start
  <2>1. UNCHANGED <<lastCheckpoint, trail>>
    BY <1>5, WorkFrame
  <2>2. stage' = "modify" /\ pc' \notin {"loop", "finalize", "done"} =>
          stage = "modify" /\ pc \notin {"loop", "finalize", "done"}
    BY <1>1, <1>5 DEF Next, Engine, Progress, OpenTurn, SnapshotPatch, AdmitAttempt, StartReview,
         SkipAttempt, AttemptsExhausted, EndModifierTurn, Reset, Clean, StageChanges, Decide,
         RecordModifierTurn, CommitCheckpoint, BeginRound, EndReviewTurn, RecordReviewTurn,
         InspectHead, InfrastructureFailure, Finalize, FinalizeFails, Elapse, Stray, turnVars,
         Conclude
  <2>3. N' \in {N, N + 1} /\ (N' = N + 1 => OpenTurn)
    <3>1. CASE OpenTurn
      BY <1>1, <3>1, OpenRounds
    <3>2. CASE SnapshotPatch \/ RecordModifierTurn \/ RecordReviewTurn
      <4>1. N > 0
        BY <1>1, <3>2, Opened DEF SnapshotPatch, RecordModifierTurn, RecordReviewTurn
      <4> QED
        BY <1>1, <1>2, <3>2, <4>1, SnapshotRounds, RecordRounds
    <3>3. CASE Quiet
      BY <1>2, <3>3, QuietRounds
    <3> QED
      BY <1>1, <3>1, <3>2, <3>3 DEF Quiet
  <2>4. N' <= 1 => Len(trail) <= 1
    <3>1. CASE OpenTurn /\ N = 0
      <4>1. stage = "modify"
        BY <1>1, <1>2, <3>1, OpenPosition
      <4>2. pc = "open"
        BY <3>1 DEF OpenTurn
      <4> QED
        BY <4>1, <4>2 DEF TrailInv
    <3>2. CASE ~(OpenTurn /\ N = 0)
      BY <1>2, <2>3, <3>2 DEF TrailInv
    <3> QED
      BY <3>1, <3>2
  <2>5. pc' \in {"open", "snapshot"} /\ stage' = "review" /\ round' = 1 =>
          \/ BeginRound
          \/ pc \in {"open", "snapshot"} /\ stage = "review" /\ round = 1
    BY <1>1, <1>5 DEF Next, Engine, Progress, OpenTurn, SnapshotPatch, AdmitAttempt, StartReview,
         SkipAttempt, AttemptsExhausted, EndModifierTurn, Reset, Clean, StageChanges, Decide,
         RecordModifierTurn, CommitCheckpoint, EndReviewTurn, RecordReviewTurn,
         InspectHead, InfrastructureFailure, Finalize, FinalizeFails, Elapse, Stray, turnVars,
         loopVars, Conclude
  <2>6. BeginRound /\ round' = 1 => N = 1
    BY <1>2 DEF BeginRound, PositionInv, loopVars
  <2> QED
    BY <1>2, <2>1, <2>2, <2>4, <2>5, <2>6 DEF TrailInv
<1> QED
  BY <1>3, <1>4, <1>5

LEMMA RetoldKept ==
    ASSUME NEW m \in Nat, Retold(m), UNCHANGED trail,
           \A k \in 1..m : rounds'[2 * k].patch = rounds[2 * k].patch,
           Settled' \/ Stopped' => Settled \/ Stopped
    PROVE  Retold(m)'
  BY DEF Retold

LEMMA RetoldStep ==
    ASSUME IInv, PositionInv, MetaInv, EndingInv, TrailInv, RetoldInv, torn \in BOOLEAN, Work
    PROVE  RetoldInv'
<1> USE DEF Over, Before
<1>1. Next /\ TypeOK /\ ControlInv /\ CountInv /\ HeadInv
  BY DEF Work, IInv
<1>2. N \in Nat /\ round \in Nat /\ round >= 1 /\ Len(trail) \in Nat /\ trail \in Seq(Tree)
  BY <1>1 DEF TypeOK, N, TrailInv, PositionInv
<1> SUFFICES ASSUME ~(Over' /\ torn'), NEW m \in Nat, Snapped(m)', NoneEmpty(m)'
             PROVE  Retold(m)'
  BY DEF RetoldInv
<1>3. ASSUME NEW j \in Nat, Snapped(j), NoneEmpty(j) PROVE Retold(j)
  BY <1>3, WorkFrame DEF RetoldInv
<1>4. CASE OpenTurn
  <2>1. /\ N' = N + 1
        /\ \A i \in 1..N : rounds'[i] = rounds[i]
    BY <1>1, <1>4, OpenRounds
  <2>2. /\ pc = "open" /\ UNCHANGED <<stage, trail>>
        /\ pc' = IF stage = "review" THEN "snapshot" ELSE "admit"
    BY <1>4 DEF OpenTurn, Work
  <2>3. \/ stage = "modify" /\ N = 0
        \/ stage = "review" /\ N = 2 * round - 1
        \/ Revising /\ N = 2 * round
    BY <1>1, <1>4, OpenPosition
  <2>4. Snapped(m) /\ 2 * m <= N
    BY <1>2, <2>1, <2>2, <2>3 DEF Snapped, Revising
  <2>5. \A k \in 1..m : rounds'[2 * k] = rounds[2 * k]
    BY <1>2, <2>1, <2>4
  <2>6. Retold(m)
    BY <1>3, <2>4, <2>5 DEF NoneEmpty
  <2>7. Settled' \/ Stopped' => Settled \/ Stopped
    BY <2>2 DEF Settled, Stopped, Revising
  <2> QED
    BY <2>2, <2>5, <2>6, <2>7, RetoldKept
<1>5. CASE SnapshotPatch
  <2>1. /\ pc = "snapshot" /\ pc' = "admit" /\ stage = "review" /\ UNCHANGED stage
        /\ UNCHANGED trail /\ repo.head = lastCheckpoint
    BY <1>1, <1>5 DEF SnapshotPatch, ControlInv, HeadInv, AtCheckpoint, Work, turnVars
  <2>2. N = 2 * round
    BY <1>2, <2>1 DEF PositionInv
  <2>3. /\ N' = N
        /\ \A i \in 1..(N - 1) : rounds'[i] = rounds[i]
        /\ rounds'[N].patch = {lastCheckpoint.tree}
    BY <1>1, <1>2, <1>5, <2>1, <2>2, SnapshotRounds
  <2>4. m = round /\ m - 1 \in Nat
    BY <1>2, <2>1, <2>2, <2>3 DEF Snapped
  <2>5. \A k \in 1..(m - 1) : rounds'[2 * k] = rounds[2 * k]
    BY <1>2, <2>2, <2>3, <2>4
  <2>6. Snapped(m - 1) /\ NoneEmpty(m - 1)
    BY <2>1, <2>2, <2>4, <2>5 DEF Snapped, NoneEmpty
  <2>7. trail # <<>> /\ Len(trail) >= 1 /\ trail[Len(trail)] = lastCheckpoint.tree
    <3>1. rounds'[N].patch \notin {{}, {RootCommit.tree}}
      BY <2>2, <2>4 DEF NoneEmpty
    <3>2. NoCommit.tree = RootCommit.tree
      BY DEF NoCommit, RootCommit
    <3>3. lastCheckpoint \notin {NoCommit, RootCommit}
      BY <2>3, <3>1, <3>2
    <3> QED
      BY <1>2, <3>3 DEF TrailInv
  <2>8. m = 1 => Len(trail) = 1
    <3>1. m = 1 => Len(trail) <= 1
      BY <2>1, <2>4 DEF TrailInv
    <3>2. Len(trail) \in Nat /\ Len(trail) >= 1
      BY <1>2, <2>7
    <3>3. \A n \in Nat : n <= 1 /\ n >= 1 => n = 1
      OBVIOUS
    <3> QED
      BY <3>1, <3>2, <3>3
  <2>9. PICK at \in [1..(m - 1) -> 1..Len(trail)] :
           /\ m - 1 >= 1 => at[1] = 1 /\ Len(trail) \in {at[m - 1], at[m - 1] + 1}
           /\ \A k \in 1..(m - 2) : at[k + 1] \in {at[k], at[k] + 1}
           /\ \A k \in 1..(m - 1) : rounds[2 * k].patch = {trail[at[k]]}
    <3>1. Retold(m - 1)
      BY <1>3, <2>4, <2>6
    <3>2. m - 1 - 1 = m - 2
      BY <2>4
    <3> QED
      BY <3>1, <3>2 DEF Retold
  <2> DEFINE new == [k \in 1..m |-> IF k = m THEN Len(trail) ELSE at[k]]
  <2>10. /\ new \in [1..m -> 1..Len(trail)]
         /\ new[1] = 1 /\ new[m] = Len(trail)
    BY <1>2, <2>4, <2>9, <2>7, <2>8
  <2>11. ASSUME NEW k \in 1..(m - 1) PROVE new[k + 1] \in {new[k], new[k] + 1}
    <3>1. CASE k = m - 1
      BY <2>4, <2>9, <2>10, <3>1
    <3>2. CASE k # m - 1
      <4>1. k \in 1..(m - 2) /\ k + 1 \in 1..(m - 1)
        BY <2>4, <3>2
      <4>2. new[k + 1] = at[k + 1] /\ new[k] = at[k]
        BY <2>4, <4>1
      <4> QED
        BY <2>9, <4>1, <4>2
    <3> QED
      BY <3>1, <3>2
  <2>12. ASSUME NEW k \in 1..m PROVE rounds'[2 * k].patch = {trail[new[k]]}
    <3>1. CASE k = m
      BY <2>2, <2>3, <2>4, <2>7, <2>10, <3>1
    <3>2. CASE k # m
      <4>1. k \in 1..(m - 1) /\ new[k] = at[k]
        BY <2>4, <3>2
      <4> QED
        BY <2>5, <2>9, <4>1
    <3> QED
      BY <3>1, <3>2
  <2> HIDE DEF new
  <2>13. Len(trail) \in {new[m], new[m] + 1}
    BY <2>10
  <2> QED
    BY <2>1, <2>10, <2>11, <2>12, <2>13 DEF Retold
<1>6. CASE MarkCheckpoint
  <2>1. /\ pc = "mark" /\ pc' \in {"loop", "finalize"} /\ UNCHANGED <<stage, rounds, N, turnOk>>
        /\ stage \in ModifierStages /\ turnOk
        /\ pc' = "finalize" => stage # "modify"
    BY <1>1, <1>6 DEF MarkCheckpoint, Conclude, turnVars, ControlInv, MetaInv, N
  <2>2. ~(Settled' \/ Stopped')
    BY <2>1 DEF Settled, Stopped, Revising, ModifierStages
  <2>3. Snapped(m) /\ NoneEmpty(m) /\ Retold(m)
    <3>1. Snapped(m) /\ NoneEmpty(m)
      BY <2>1 DEF Snapped, NoneEmpty
    <3> QED
      BY <1>3, <3>1
  <2>4. m >= 1 => Settled
    <3>1. stage = "modify" => N = 1
      BY <1>2, <2>1 DEF PositionInv
    <3> QED
      BY <2>1, <2>3, <3>1 DEF Settled, Snapped, Revising, ModifierStages
  <2>5. PICK at \in [1..m -> 1..Len(trail)] :
           /\ m >= 1 => at[1] = 1 /\ at[m] = Len(trail)
           /\ \A k \in 1..(m - 1) : at[k + 1] \in {at[k], at[k] + 1}
           /\ \A k \in 1..m : rounds[2 * k].patch = {trail[at[k]]}
    BY <2>3, <2>4 DEF Retold
  <2>6. /\ Len(trail') \in {Len(trail), Len(trail) + 1}
        /\ \A i \in 1..Len(trail) : trail'[i] = trail[i]
    <3>1. CASE trail' = trail
      BY <1>2, <3>1
    <3>2. CASE trail' = Append(trail, lastCheckpoint'.tree)
      BY <1>2, <3>2
    <3> QED
      BY <3>1, <3>2 DEF Work
  <2>7. at \in [1..m -> 1..Len(trail')]
    BY <1>2, <2>5, <2>6
  <2>8. /\ m >= 1 => at[1] = 1 /\ Len(trail') \in {at[m], at[m] + 1}
        /\ \A k \in 1..m : rounds'[2 * k].patch = {trail'[at[k]]}
    BY <2>1, <2>5, <2>6
  <2> QED
    BY <2>2, <2>5, <2>7, <2>8 DEF Retold
<1>7. CASE Start
  <2>1. pc = "start" /\ pc' = "open" /\ N' = N /\ stage = "modify" /\ trail' = trail
    BY <1>1, <1>7 DEF Start, ControlInv, N, Work
  <2>2. m = 0
    BY <1>2, <2>1 DEF Snapped, PositionInv
  <2>3. 1..m = {}
    BY <2>2
  <2>4. [k \in 1..m |-> 1] \in [1..m -> 1..Len(trail')]
    BY <2>3
  <2>5. m - 1 < 1 /\ ~(m >= 1)
    BY <2>2
  <2>6. /\ \A k \in 1..(m - 1) : FALSE
        /\ \A k \in 1..m : FALSE
    BY <2>2
  <2> QED
    BY <2>4, <2>5, <2>6 DEF Retold
<1>8. CASE ~(OpenTurn \/ SnapshotPatch \/ MarkCheckpoint \/ Start)
  <2>1. trail' = trail /\ (pc' = "snapshot" <=> pc = "snapshot")
    BY <1>8, WorkFrame
  <2>2. N' = N /\ DOMAIN rounds' = DOMAIN rounds /\ \A i \in DOMAIN rounds : rounds'[i].patch = rounds[i].patch
    <3>1. CASE RecordModifierTurn \/ RecordReviewTurn
      <4>1. N > 0
        BY <1>1, <3>1, Opened DEF RecordModifierTurn, RecordReviewTurn
      <4> QED
        BY <1>1, <3>1, <4>1, RecordRounds, RoundsType
    <3>2. CASE Quiet
      BY <3>2, QuietRounds
    <3> QED
      BY <1>1, <1>8, <3>1, <3>2 DEF Quiet
  <2>3. Snapped(m)
    BY <2>1, <2>2 DEF Snapped
  <2>4. \A k \in 1..m : 2 * k \in DOMAIN rounds
    BY <1>1, <1>2, <2>3, RoundsType DEF Snapped
  <2>5. NoneEmpty(m)
    BY <2>2, <2>4 DEF NoneEmpty
  <2>6. Retold(m)
    BY <1>3, <2>3, <2>5
  <2> QED
    BY <1>8, <2>1, <2>2, <2>4, <2>6, SettledStep, RetoldKept
<1> QED
  BY <1>4, <1>5, <1>6, <1>7, <1>8

-----------------------------------------------------------------------------

\* The history of one run: everything but what scoring finds.
RunInv ==
    /\ IInv
    /\ KindInv /\ PositionInv /\ MetaInv /\ EndingInv /\ ReachedInv
    /\ PatchInv /\ RecordedInv /\ DeliveredInv
    /\ TrailInv /\ RetoldInv

DInv == RunInv /\ ScanInv

LEMMA InitDInv == DInit => DInv
<1> SUFFICES ASSUME DInit PROVE DInv
  OBVIOUS
<1>1. Init /\ IInv
  BY InitIInv DEF DInit
<1>2. rounds = <<>> /\ N = 0 /\ DOMAIN rounds = {}
  BY <1>1 DEF Init, N
<1>3. KindInv /\ PositionInv /\ MetaInv /\ EndingInv /\ ReachedInv
  BY <1>1, <1>2 DEF Init, DInit, KindInv, PositionInv, MetaInv, EndingInv, ReachedInv, Before,
       Revising, Over, Done
<1>4. PatchInv
  BY <1>1, <1>2 DEF Init, PatchInv, Settled, Stopped, Revising, Over
<1>5. RecordedInv /\ DeliveredInv
  <2>1. repo.head = RootCommit
    BY <1>1 DEF Init, CleanCheckouts
  <2>2. NoCommit.by # "base"
    BY DEF NoCommit
  <2> QED
    BY <1>1, <1>2, <2>1, <2>2, FS_EmptySet DEF Init, RecordedInv, DeliveredInv, Done
<1>6. TrailInv
  BY <1>1, <1>2 DEF Init, DInit, TrailInv
<1>7. RetoldInv
  <2> SUFFICES ASSUME NEW m \in Nat, Snapped(m) PROVE Retold(m)
    BY DEF RetoldInv
  <2>1. m = 0
    BY <1>1, <1>2 DEF Snapped, Init
  <2>2. /\ 1..m = {} /\ ~(m >= 1)
        /\ \A k \in 1..(m - 1) : FALSE
    BY <2>1
  <2>3. [k \in 1..m |-> 1] \in [1..m -> 1..Len(trail)]
    BY <2>2
  <2> QED
    BY <2>2, <2>3 DEF Retold
<1>8. ScanInv
  BY DEF DInit, ScanInv
<1> QED
  BY <1>1, <1>3, <1>4, <1>5, <1>6, <1>7, <1>8 DEF DInv, RunInv

LEMMA RunStep ==
    ASSUME RunInv, torn \in BOOLEAN, Work
    PROVE  RunInv'
<1>1. Next /\ TypeOK /\ ControlInv /\ CountInv
  BY DEF Work, RunInv, IInv
<1>2. ~torn' => ~torn /\ ~InfrastructureFailure
  BY WorkTorn
<1>3. IInv'
  BY <1>1, StepIInv DEF RunInv
<1>4. KindInv' /\ PositionInv' /\ MetaInv'
  BY <1>1, <1>2, KindStep, PositionStep, MetaStep DEF RunInv
<1>5. EndingInv' /\ ReachedInv' /\ PatchInv'
  BY EndingStep, ReachedStep, PatchStep DEF RunInv
<1>6. RecordedInv' /\ DeliveredInv'
  BY <1>1, RecordedStep, DeliveredStep DEF RunInv
<1>7. TrailInv' /\ RetoldInv'
  BY TrailStep, RetoldStep DEF RunInv
<1> QED
  BY <1>3, <1>4, <1>5, <1>6, <1>7 DEF RunInv

LEMMA RunStays ==
    ASSUME RunInv, UNCHANGED <<vars, trail, torn>>
    PROVE  RunInv'
<1>1. IInv'
  BY StepIInv DEF RunInv
<1>2. /\ UNCHANGED <<pc, repo, baseCommit, lastCheckpoint, checkpoints, violations>>
      /\ UNCHANGED <<stage, failKind, timeoutKind, lastStatus, turnOk, rounds, N>>
      /\ UNCHANGED <<round, reviewCount, revisionCount, result, trail, torn>>
  BY DEF vars, repoVars, trustVars, turnVars, loopVars, N
<1>3. KindInv' /\ PositionInv' /\ MetaInv' /\ ReachedInv'
  BY <1>2 DEF RunInv, KindInv, PositionInv, MetaInv, ReachedInv, Before, Revising, Over
<1>4. EndingInv'
  BY <1>2 DEF RunInv, EndingInv, Revising, Over, Done, Infrastructure
<1>5. PatchInv' /\ RecordedInv' /\ DeliveredInv'
  BY <1>2 DEF RunInv, PatchInv, Settled, Stopped, ReviewedRound, Revising, Over, RecordedInv,
       DeliveredInv, Done
<1>6. TrailInv'
  BY <1>2 DEF RunInv, TrailInv
<1>7. RetoldInv'
  <2> SUFFICES ASSUME ~(Over' /\ torn'), NEW m \in Nat, Snapped(m)', NoneEmpty(m)'
               PROVE  Retold(m)'
    BY DEF RetoldInv
  <2>1. Snapped(m) /\ NoneEmpty(m) /\ ~(Over /\ torn)
    BY <1>2 DEF Snapped, NoneEmpty, Over
  <2>2. Retold(m)
    BY <2>1 DEF RunInv, RetoldInv
  <2>3. Settled' \/ Stopped' => Settled \/ Stopped
    BY <1>2 DEF Settled, Stopped, Revising, Over
  <2> QED
    BY <1>2, <2>2, <2>3, RetoldKept
<1> QED
  BY <1>1, <1>3, <1>4, <1>5, <1>6, <1>7 DEF RunInv

LEMMA ScanStep ==
    ASSUME RunInv, ScanInv, [DNext]_allVars
    PROVE  ScanInv'
<1>1. CASE Work
  <2>1. ~Done
    BY <1>1 DEF Work, Done, Next, Engine, Progress, Start, OpenTurn, SnapshotPatch, AdmitAttempt,
       StartReview, SkipAttempt, AttemptsExhausted, EndModifierTurn, Reset, Clean, InspectHead,
       StageChanges, Decide, RecordModifierTurn, CommitCheckpoint, MarkCheckpoint, BeginRound,
       EndReviewTurn, RecordReviewTurn, InfrastructureFailure, ExecutePoints, Finalize,
       FinalizeFails, Elapse, Stray
  <2>2. found' = NotScanned
    BY <1>1, <2>1 DEF Work, ScanInv, NotScanned
  <2>3. torn' \in BOOLEAN
    BY <1>1, WorkTorn DEF ScanInv
  <2> QED
    BY <2>2, <2>3 DEF ScanInv, NotScanned
<1>2. CASE Scan
  <2>1. UNCHANGED vars /\ torn' = torn /\ pc = "done"
    BY <1>2 DEF Scan
  <2>2. /\ UNCHANGED <<pc, repo, checkpoints, rounds, reviewCount, revisionCount, result>>
    BY <2>1 DEF vars, repoVars, trustVars, loopVars
  <2>3. PICK fw \in {TRUE} \union (IF result.finalCommit = NoCommit THEN {FALSE} ELSE {}) :
          found' = Discovery!Discover(Trial(lost', fw))
    BY <1>2 DEF Scan
  <2>4. Trial(lost, fw)' = Trial(lost', fw)
    BY <2>2 DEF Trial, RoundDir
  <2> QED
    BY <2>1, <2>2, <2>3, <2>4 DEF ScanInv, Done
<1>3. CASE UNCHANGED allVars
  <2>1. /\ UNCHANGED <<pc, repo, checkpoints, rounds, reviewCount, revisionCount, result>>
        /\ UNCHANGED <<torn, lost, found>>
    BY <1>3 DEF allVars, discoveryVars, vars, repoVars, trustVars, loopVars
  <2> QED
    BY <2>1 DEF ScanInv, Trial, RoundDir, Done
<1> QED
  BY <1>1, <1>2, <1>3 DEF DNext

LEMMA StepDInv == DInv /\ [DNext]_allVars => DInv'
<1> SUFFICES ASSUME DInv, [DNext]_allVars PROVE DInv'
  OBVIOUS
<1>1. ScanInv'
  BY ScanStep DEF DInv
<1>2. CASE Work
  BY <1>1, <1>2, RunStep DEF DInv, ScanInv
<1>3. CASE Scan \/ UNCHANGED allVars
  <2>1. UNCHANGED <<vars, trail, torn>>
    BY <1>3 DEF Scan, allVars, discoveryVars
  <2> QED
    BY <1>1, <2>1, RunStays DEF DInv
<1> QED
  BY <1>2, <1>3 DEF DNext

\* What a trial directory says is what the run was: the composed system's inductive
\* invariant, in every configuration.
THEOREM DiscoveryInvariance == DSpec => []DInv
  BY InitDInv, StepDInv, PTL DEF DSpec

\* The loop that is composed with scoring is the loop: whatever holds of every run of
\* the engine holds of every run that is scored afterwards.
THEOREM ScoredRunIsARun == DSpec => Spec
<1>1. DInit => Init
  BY DEF DInit
<1>2. [DNext]_allVars => [Next]_vars
  BY DEF DNext, Work, Scan, allVars
<1> QED
  BY <1>1, <1>2, PTL DEF DSpec, Spec

-----------------------------------------------------------------------------

\* The counting of discovery is the counting of the library's facts.
LEMMA SameCount == \A S : Discovery!Cardinality(S) = Cardinality(S)
  BY DEF Discovery!Cardinality, Cardinality, Discovery!IsFiniteSet, IsFiniteSet

\* The reviews are at the even positions, the revisions at the odd ones.
LEMMA EvenCount ==
    ASSUME NEW m \in Nat
    PROVE  Cardinality({2 * k : k \in 1..m}) = m
<1> DEFINE E == {2 * k : k \in 1..m}
           f == [k \in 1..m |-> 2 * k]
<1>1. f \in [1..m -> E] /\ \A i, j \in 1..m : f[i] = f[j] => i = j
  OBVIOUS
<1>2. \A e \in E : \E i \in 1..m : f[i] = e
  OBVIOUS
<1>3. f \in Bijection(1..m, E)
  BY <1>1, <1>2 DEF Bijection, Injection, IsInjective, Surjection
<1> QED
  BY <1>3, FS_CountingElements DEF ExistsBijection

LEMMA OddCount ==
    ASSUME NEW m \in Nat
    PROVE  Cardinality({2 * k + 1 : k \in 1..m}) = m
<1> DEFINE E == {2 * k + 1 : k \in 1..m}
           f == [k \in 1..m |-> 2 * k + 1]
<1>1. f \in [1..m -> E] /\ \A i, j \in 1..m : f[i] = f[j] => i = j
  OBVIOUS
<1>2. \A e \in E : \E i \in 1..m : f[i] = e
  OBVIOUS
<1>3. f \in Bijection(1..m, E)
  BY <1>1, <1>2 DEF Bijection, Injection, IsInjective, Surjection
<1> QED
  BY <1>3, FS_CountingElements DEF ExistsBijection

LEMMA NthEven ==
    ASSUME NEW m \in Nat, NEW n \in 1..m
    PROVE  Discovery!Nth({2 * k : k \in 1..m}, n) = 2 * n
<1> DEFINE E == {2 * k : k \in 1..m}
<1>1. ASSUME NEW l \in 1..m PROVE Discovery!Cardinality({j \in E : j <= 2 * l}) = l
  <2>1. {j \in E : j <= 2 * l} = {2 * k : k \in 1..l}
    OBVIOUS
  <2> QED
    BY <2>1, EvenCount, SameCount
<1>2. 2 * n \in E
  OBVIOUS
<1>3. ASSUME NEW i \in E, Discovery!Cardinality({j \in E : j <= i}) = n PROVE i = 2 * n
  <2>1. PICK l \in 1..m : i = 2 * l
    OBVIOUS
  <2> QED
    BY <1>1, <1>3, <2>1
<1> HIDE DEF E
<1>4. Discovery!Nth(E, n) = 2 * n
  BY <1>1, <1>2, <1>3 DEF Discovery!Nth
<1> QED
  BY <1>4 DEF E

\* The case split of discovery.
LEMMA Verdicts ==
    ASSUME NEW t
    PROVE  /\ Discovery!Discover(t).verdict = "ineligible" => Discovery!NothingProduced(t)
           /\ Discovery!Discover(t).verdict = "eligible" =>
                /\ Discovery!Consistent(t)
                /\ Discovery!Discover(t).stages = Discovery!Stages(t)
                /\ Discovery!Discover(t).completed = Discovery!Completed(t)
           /\ t.missing = {} /\ Discovery!RoundEntries(t) /\ t.checkpoints # 0
                /\ Discovery!Consistent(t) /\ Discovery!ChangedAfterInitial(t) <= t.revisionCount
                => Discovery!Discover(t).verdict = "eligible"
  BY DEF Discovery!Discover, Discovery!Refused

LEMMA TrialFields ==
    ASSUME TypeOK, NEW missing, NEW fw \in BOOLEAN, NEW t, t = Trial(missing, fw)
    PROVE  /\ t.missing = missing
           /\ t.outcome = result.outcome
           /\ t.degraded = (result.degradedReason # "none")
           /\ t.reviewCount = reviewCount /\ t.revisionCount = revisionCount
           /\ t.checkpoints = Cardinality(checkpoints)
           /\ t.final \in {{}, {repo.head.tree}} /\ (fw => t.final = {repo.head.tree})
           /\ t.model = {repo.head.tree}
           /\ DOMAIN t.rounds = 1..N /\ Len(t.rounds) = N
           /\ \A i \in 1..N :
                /\ t.rounds[i].number = i - 1
                /\ t.rounds[i].kind = rounds[i].kind
                /\ t.rounds[i].patch = rounds[i].patch
                /\ t.rounds[i].last = rounds[i].meta
                /\ t.rounds[i].role = CASE rounds[i].meta = "none" -> "none"
                     [] rounds[i].meta # "none" /\ rounds[i].kind = "review" -> "reviewer"
                     [] OTHER -> "modifier"
  BY RoundsType DEF Trial, RoundDir

\* A trial left out of the pairs delivered nothing.
THEOREM IneligibleDeliveredNothingHolds == DSpec => []IneligibleDeliveredNothing
<1>1. DInv => IneligibleDeliveredNothing
  <2> SUFFICES ASSUME DInv, Scanned, found.verdict = "ineligible"
               PROVE  ~result.deliverable /\ repo.head.tree = RootCommit.tree
    BY DEF IneligibleDeliveredNothing
  <2>1. PICK fw \in BOOLEAN : found = Discovery!Discover(Trial(lost, fw))
    BY DEF DInv, ScanInv, Scanned
  <2>2. Done /\ TypeOK
    BY DEF DInv, ScanInv, Scanned, RunInv, IInv
  <2>3. Discovery!NothingProduced(Trial(lost, fw))
    BY <2>1, Verdicts
  <2>4. repo.head.tree = RootCommit.tree
    <3>1. Trial(lost, fw).model = {repo.head.tree}
      BY <2>2, TrialFields
    <3> QED
      BY <2>3, <3>1 DEF Discovery!NothingProduced, Discovery!IsEmpty
  <2>5. ~result.deliverable
    BY <2>2, <2>4 DEF DInv, RunInv, DeliveredInv, TypeOK, ResultRecord
  <2> QED
    BY <2>4, <2>5
<1> QED
  BY <1>1, DiscoveryInvariance, PTL

LEMMA ScannedTrial ==
    ASSUME DInv, Scanned
    PROVE  \E fw, t :
              /\ fw \in BOOLEAN /\ t = Trial(lost, fw) /\ found = Discovery!Discover(t)
              /\ fw = TRUE \/ result.finalCommit = NoCommit
              /\ Done /\ TypeOK /\ lost = {}
  BY DEF DInv, ScanInv, Scanned, RunInv, IInv

LEMMA RegularEnd == DInv => CompletedIsRegularEnd
<1> SUFFICES ASSUME DInv, Accepted
             PROVE  found.completed <=> result.degradedReason = "none" /\ turnOk
  BY DEF CompletedIsRegularEnd
<1>1. PICK fw, t : /\ fw \in BOOLEAN /\ t = Trial(lost, fw) /\ found = Discovery!Discover(t)
                   /\ Done /\ TypeOK
  BY ScannedTrial DEF Accepted
<1>2. Discovery!Consistent(t) /\ found.completed = Discovery!Completed(t)
  BY <1>1, Verdicts DEF Accepted
<1>3. /\ t.outcome = result.outcome
      /\ DOMAIN t.rounds = 1..N
      /\ \A i \in 1..N : t.rounds[i].last = rounds[i].meta
  BY <1>1, TrialFields
<1>4. EndingInv /\ DOMAIN rounds = 1..N
  BY <1>1, RoundsType DEF DInv, RunInv
<1>5. result.outcome \in {"approved", "max_reviews_reached", "degraded"}
  BY <1>2, <1>3 DEF Discovery!Consistent, Discovery!DeliverableOutcomes
<1>6. CASE result.outcome \in {"approved", "max_reviews_reached"}
  <2>1. /\ turnOk /\ result.degradedReason = "none"
        /\ \A i \in DOMAIN rounds : rounds[i].meta = "success"
    BY <1>1, <1>4, <1>6 DEF EndingInv, Over, Done
  <2>2. Discovery!Completed(t)
    BY <1>3, <1>4, <1>6, <2>1 DEF Discovery!Completed, Discovery!CompletedProtocolOutcomes,
       Discovery!Reviews, Discovery!Revisions, Discovery!Of, Discovery!RoundSucceeded
  <2> QED
    BY <1>2, <2>1, <2>2
<1>7. CASE result.outcome = "degraded"
  <2>1. result.degradedReason # "none"
    BY <1>1, <1>4, <1>7 DEF EndingInv, Over, Done
  <2>2. ~Discovery!Completed(t)
    BY <1>3, <1>7 DEF Discovery!Completed, Discovery!CompletedProtocolOutcomes
  <2> QED
    BY <1>2, <2>1, <2>2
<1> QED
  BY <1>5, <1>6, <1>7

LEMMA Halves ==
    ASSUME NEW i \in Nat
    PROVE  \E k \in Nat : i = 2 * k \/ i = 2 * k + 1
<1>1. i \div 2 \in Nat /\ (i = 2 * (i \div 2) \/ i = 2 * (i \div 2) + 1)
  OBVIOUS
<1> QED
  BY <1>1

\* The rounds of a directory by their kinds, and how many there are.
LEMMA RoundsByKind ==
    ASSUME TypeOK, KindInv, NEW missing, NEW fw \in BOOLEAN, NEW t, t = Trial(missing, fw), N > 0
    PROVE  \E m \in Nat :
             /\ N \in {2 * m, 2 * m + 1}
             /\ Discovery!Reviews(t) = {2 * k : k \in 1..m}
             /\ Discovery!Revisions(t) =
                  {2 * k + 1 : k \in 1..(IF N = 2 * m THEN m - 1 ELSE m)}
             /\ Discovery!RoundEntries(t)
<1>1. /\ DOMAIN t.rounds = 1..N /\ N \in Nat
      /\ \A i \in 1..N : t.rounds[i].kind = rounds[i].kind /\ t.rounds[i].number = i - 1
      /\ DOMAIN rounds = 1..N
  BY TrialFields, RoundsType
<1>2. \A i \in 1..N : \E k \in Nat : i = 2 * k \/ i = 2 * k + 1
  <2>1. \A i \in 1..N : i \in Nat
    BY <1>1
  <2>2. \A i \in Nat : \E k \in Nat : i = 2 * k \/ i = 2 * k + 1
    BY Halves
  <2> QED
    BY <2>1, <2>2
<1>3. PICK m \in Nat : N \in {2 * m, 2 * m + 1}
  BY <1>1, Halves
<1>4. \A k \in Nat : /\ 2 * k \in 1..N => t.rounds[2 * k].kind = "review"
                     /\ 2 * k + 1 \in 1..N =>
                          t.rounds[2 * k + 1].kind \in
                             IF k = 0 THEN {"modify"} ELSE {"revise", "final-revision"}
  BY <1>1 DEF KindInv
<1>5. Discovery!Reviews(t) = {2 * k : k \in 1..m}
  <2>1. ASSUME NEW i \in 1..N, t.rounds[i].kind = "review" PROVE i \in {2 * k : k \in 1..m}
    <3>1. PICK k \in Nat : i = 2 * k \/ i = 2 * k + 1
      BY <1>2
    <3>2. i = 2 * k
      BY <1>4, <2>1, <3>1
    <3>3. k \in 1..m
      BY <1>1, <1>3, <3>2
    <3> QED
      BY <3>2, <3>3
  <2>2. ASSUME NEW k \in 1..m PROVE 2 * k \in 1..N /\ t.rounds[2 * k].kind = "review"
    BY <1>3, <1>4
  <2> QED
    BY <1>1, <2>1, <2>2 DEF Discovery!Reviews, Discovery!Of
<1> DEFINE l == IF N = 2 * m THEN m - 1 ELSE m
<1>6. Discovery!Revisions(t) = {2 * k + 1 : k \in 1..l}
  <2>1. ASSUME NEW i \in 1..N, t.rounds[i].kind \in {"revise", "final-revision"}
        PROVE  i \in {2 * k + 1 : k \in 1..l}
    <3>1. PICK k \in Nat : i = 2 * k \/ i = 2 * k + 1
      BY <1>2
    <3>2. i = 2 * k + 1 /\ k # 0
      BY <1>4, <2>1, <3>1
    <3>3. k \in 1..l
      BY <1>1, <1>3, <3>2
    <3> QED
      BY <3>2, <3>3
  <2>2. ASSUME NEW k \in 1..l
        PROVE  2 * k + 1 \in 1..N /\ t.rounds[2 * k + 1].kind \in {"revise", "final-revision"}
    BY <1>3, <1>4
  <2> QED
    BY <1>1, <2>1, <2>2 DEF Discovery!Revisions, Discovery!Of
<1>7. Discovery!RoundEntries(t)
  <2>1. \A i \in 1..N : t.rounds[i].kind \in {"modify", "review", "revise", "final-revision"}
    BY <1>2, <1>4
  <2>2. t.rounds[1].number = 0 /\ t.rounds[1].kind = "modify"
    BY <1>1, <1>4
  <2> QED
    BY <1>1, <2>1, <2>2 DEF Discovery!RoundEntries
<1> QED
  BY <1>3, <1>5, <1>6, <1>7

\* The stages of a trial whose reviews all have a patch: one per review, and the end.
LEMMA StagesOf ==
    ASSUME NEW t, NEW m \in Nat, Discovery!Patched(t) = {2 * k : k \in 1..m}
    PROVE  /\ DOMAIN Discovery!Stages(t) = 1..(m + 1)
           /\ \A n \in 1..m : Discovery!Stages(t)[n].patch = t.rounds[2 * n].patch
           /\ Discovery!Stages(t)[m + 1].patch = t.final
           /\ \A i \in 1..(m + 1) : i > 1 =>
                (Discovery!Stages(t)[i].changed <=>
                   Discovery!Stages(t)[i].patch # Discovery!Stages(t)[i - 1].patch)
<1> DEFINE q == [n \in 1..m |-> t.rounds[2 * n].patch]
           p == Discovery!StagePatches(t)
           V == {q[n] : n \in 1..m} \union {t.final}
<1>1. Discovery!Cardinality(Discovery!Patched(t)) = m
  BY EvenCount, SameCount
<1>2. p = q \o <<t.final>>
  BY <1>1, NthEven DEF Discovery!StagePatches
<1>3. q \in Seq(V) /\ Len(q) = m /\ <<t.final>> \in Seq(V)
  <2>1. q \in [1..m -> V] /\ t.final \in V
    OBVIOUS
  <2> HIDE DEF q, V
  <2> QED
    BY <2>1
<1>4. /\ DOMAIN p = 1..(m + 1)
      /\ \A n \in 1..m : p[n] = t.rounds[2 * n].patch
      /\ p[m + 1] = t.final
  <2> HIDE DEF V
  <2>1. /\ Len(q \o <<t.final>>) = m + 1
        /\ \A n \in 1..m : (q \o <<t.final>>)[n] = q[n]
        /\ (q \o <<t.final>>)[m + 1] = t.final
        /\ q \o <<t.final>> \in Seq(V)
    <3> HIDE DEF q
    <3> QED
      BY <1>3
  <2> QED
    BY <1>2, <2>1
<1> HIDE DEF q, p
<1>5. /\ DOMAIN Discovery!Stages(t) = DOMAIN p
      /\ \A i \in DOMAIN p :
           /\ Discovery!Stages(t)[i].patch = p[i]
           /\ Discovery!Stages(t)[i].changed = (i = 1 \/ p[i] # p[i - 1])
  BY DEF Discovery!Stages, p
<1>6. ASSUME NEW i \in 1..(m + 1), i > 1
      PROVE  Discovery!Stages(t)[i].changed <=>
               Discovery!Stages(t)[i].patch # Discovery!Stages(t)[i - 1].patch
  <2>1. i \in DOMAIN p /\ i - 1 \in DOMAIN p /\ i # 1
    BY <1>4, <1>6
  <2> QED
    BY <1>5, <2>1
<1>7. m + 1 \in DOMAIN p /\ \A n \in 1..m : n \in DOMAIN p
  BY <1>4
<1> QED
  BY <1>4, <1>5, <1>6, <1>7

\* Every review of a consistent trial has a patch to score.
LEMMA AllPatched ==
    ASSUME NEW t, \A i \in Discovery!Reviews(t) : Discovery!ReviewRoundSound(t, t.rounds[i])
    PROVE  Discovery!Patched(t) = Discovery!Reviews(t)
  BY DEF Discovery!Patched, Discovery!ReviewRoundSound

\* A regular run ends on its trusted checkpoint.
LEMMA EndsAtCheckpoint ==
    ASSUME DInv, Done, ~torn, result.outcome \in DELIVERABLE_OUTCOMES
    PROVE  repo.head = lastCheckpoint
  BY DEF DInv, RunInv, IInv, EndingInv, ResultInv, Over, Done

LEMMA StagesFollow == DInv => StagesFollowCheckpoints
<1> DEFINE s == [i \in DOMAIN found.stages |-> found.stages[i].patch]
<1> SUFFICES ASSUME DInv, Accepted, ~torn PROVE Retells(s, trail)
  BY DEF StagesFollowCheckpoints
<1>1. PICK fw, t : /\ fw \in BOOLEAN /\ t = Trial(lost, fw) /\ found = Discovery!Discover(t)
                   /\ Done /\ TypeOK
  BY ScannedTrial DEF Accepted
<1>2. Discovery!Consistent(t) /\ found.stages = Discovery!Stages(t)
  BY <1>1, Verdicts DEF Accepted
<1>3. /\ t.outcome = result.outcome
      /\ t.final \in {{}, {repo.head.tree}}
      /\ \A i \in 1..N : t.rounds[i].patch = rounds[i].patch
  BY <1>1, TrialFields
<1>4. N > 0 /\ N \in Nat /\ KindInv /\ RetoldInv /\ TrailInv
  BY <1>1, RoundsType DEF DInv, RunInv, PositionInv, Over, Done
<1>5. PICK m \in Nat : /\ N \in {2 * m, 2 * m + 1}
                       /\ Discovery!Reviews(t) = {2 * k : k \in 1..m}
  BY <1>1, <1>4, RoundsByKind
<1>6. /\ Discovery!Reviews(t) # {} /\ t.final # {}
      /\ t.outcome \in Discovery!DeliverableOutcomes
      /\ \A i \in Discovery!Reviews(t) : Discovery!ReviewRoundSound(t, t.rounds[i])
  BY <1>2 DEF Discovery!Consistent
<1>7. Discovery!Patched(t) = {2 * k : k \in 1..m} /\ m >= 1
  BY <1>5, <1>6, AllPatched
<1>8. NoneEmpty(m)
  <2> SUFFICES ASSUME NEW k \in 1..m PROVE rounds[2 * k].patch \notin {{}, {RootCommit.tree}}
    BY DEF NoneEmpty
  <2>1. 2 * k \in Discovery!Reviews(t) /\ 2 * k \in 1..N
    BY <1>4, <1>5
  <2> QED
    BY <1>3, <1>6, <2>1 DEF Discovery!ReviewRoundSound, Discovery!IsEmpty
<1>9. PICK at \in [1..m -> 1..Len(trail)] :
         /\ at[1] = 1 /\ Len(trail) \in {at[m], at[m] + 1}
         /\ \A k \in 1..(m - 1) : at[k + 1] \in {at[k], at[k] + 1}
         /\ \A k \in 1..m : rounds[2 * k].patch = {trail[at[k]]}
  <2>1. Snapped(m)
    BY <1>1, <1>5 DEF Snapped, Done
  <2>2. Retold(m)
    BY <1>4, <1>8, <2>1 DEF RetoldInv
  <2> QED
    BY <1>7, <2>2 DEF Retold
<1>10. t.final = {lastCheckpoint.tree}
  <2>1. repo.head = lastCheckpoint
    BY <1>1, <1>3, <1>6, EndsAtCheckpoint DEF Discovery!DeliverableOutcomes, DELIVERABLE_OUTCOMES
  <2> QED
    BY <1>3, <1>6, <2>1
<1>11. /\ trail \in Seq(Tree) /\ Len(trail) \in Nat /\ DOMAIN trail = 1..Len(trail)
       /\ trail # <<>> => trail[Len(trail)] = lastCheckpoint.tree
  BY <1>4 DEF TrailInv
<1>12. Len(trail) >= 1 /\ trail[Len(trail)] = lastCheckpoint.tree
  <2>1. at[1] \in 1..Len(trail)
    BY <1>7, <1>9
  <2> QED
    BY <1>11, <2>1
<1>13. /\ s = [i \in 1..(m + 1) |-> Discovery!Stages(t)[i].patch]
       /\ \A n \in 1..m : Discovery!Stages(t)[n].patch = t.rounds[2 * n].patch
       /\ Discovery!Stages(t)[m + 1].patch = t.final
  <2>1. /\ DOMAIN Discovery!Stages(t) = 1..(m + 1)
        /\ \A n \in 1..m : Discovery!Stages(t)[n].patch = t.rounds[2 * n].patch
        /\ Discovery!Stages(t)[m + 1].patch = t.final
    BY <1>7, StagesOf
  <2> QED
    BY <1>2, <2>1
<1>14. /\ DOMAIN s = 1..(m + 1) /\ Len(s) = m + 1
       /\ \A n \in 1..m : s[n] = {trail[at[n]]}
       /\ s[m + 1] = {trail[Len(trail)]}
  <2>1. DOMAIN s = 1..(m + 1) /\ Len(s) = m + 1
    BY <1>13
  <2>2. ASSUME NEW n \in 1..m PROVE s[n] = {trail[at[n]]}
    <3>1. 2 * n \in 1..N /\ n \in 1..(m + 1)
      BY <1>4, <1>5
    <3> QED
      BY <1>3, <1>9, <1>13, <3>1
  <2>3. s[m + 1] = {trail[Len(trail)]}
    BY <1>10, <1>12, <1>13
  <2> QED
    BY <2>1, <2>2, <2>3
<1> HIDE DEF s
<1> DEFINE new == [i \in 1..(m + 1) |-> IF i = m + 1 THEN Len(trail) ELSE at[i]]
<1>15. new \in [DOMAIN s -> DOMAIN trail] /\ new[1] = 1 /\ new[Len(s)] = Len(trail)
  BY <1>7, <1>9, <1>11, <1>12, <1>14
<1>16. ASSUME NEW i \in 1..(Len(s) - 1) PROVE new[i + 1] \in {new[i], new[i] + 1}
  <2>1. i \in 1..m /\ new[i] = at[i]
    BY <1>14
  <2>2. CASE i = m
    BY <1>9, <2>1, <2>2
  <2>3. CASE i # m
    <3>1. i \in 1..(m - 1) /\ new[i + 1] = at[i + 1]
      BY <2>1, <2>3
    <3> QED
      BY <1>9, <2>1, <3>1
  <2> QED
    BY <2>2, <2>3
<1>17. ASSUME NEW i \in DOMAIN s PROVE s[i] = {trail[new[i]]}
  BY <1>14, <1>17
<1> HIDE DEF new
<1> QED
  BY <1>15, <1>16, <1>17 DEF Retells

\* The review loop's counters, read by discovery as what the directories must show.
LEMMA CountersFit ==
    ASSUME TypeOK, CountInv, KindInv, MetaInv, EndingInv, ReachedInv, Done, ~torn,
           NEW missing, NEW fw \in BOOLEAN, NEW t, t = Trial(missing, fw),
           NEW m \in Nat, m >= 1, N \in {2 * m, 2 * m + 1},
           Discovery!Revisions(t) = {2 * k + 1 : k \in 1..(IF N = 2 * m THEN m - 1 ELSE m)},
           Discovery!Patched(t) = {2 * k : k \in 1..m},
           ~(rounds[N].timeoutKind # "none" /\ rounds[N].meta = "success")
    PROVE  /\ Discovery!ReviewsCounted(t) /\ Discovery!RevisionsCounted(t)
           /\ revisionCount = IF Stopped THEN m - 1 ELSE m
           /\ Stopped => ReviewedRound = 2 * m
<1>1. /\ t.reviewCount = reviewCount /\ t.revisionCount = revisionCount
      /\ DOMAIN t.rounds = 1..N /\ Len(t.rounds) = N /\ DOMAIN rounds = 1..N
      /\ \A i \in 1..N : t.rounds[i].last = rounds[i].meta
  BY TrialFields, RoundsType
<1>2. \/ stage = "review" /\ N = 2 * m /\ round = m /\ revisionCount = m - 1
           /\ reviewCount = IF turnOk THEN m ELSE m - 1
      \/ Revising /\ N = 2 * m + 1 /\ reviewCount = m
           /\ revisionCount = IF turnOk THEN m ELSE m - 1
  BY DEF ReachedInv, Over, Done, TypeOK, Stages, ModifierStages, Revising
<1>3. Discovery!ReviewsCounted(t)
  <2>1. Discovery!Cardinality(Discovery!Patched(t)) = m
    BY EvenCount, SameCount
  <2>2. m \in reviewCount .. reviewCount + 1
    BY <1>2
  <2> QED
    BY <1>1, <2>1, <2>2 DEF Discovery!ReviewsCounted
<1>4. /\ revisionCount = IF Stopped THEN m - 1 ELSE m
      /\ Stopped => ReviewedRound = 2 * m
  BY <1>2 DEF Stopped, Over, Done, ReviewedRound, Revising
<1> DEFINE cut == {i \in Discovery!Revisions(t) : ~Discovery!RoundSucceeded(t.rounds[i])}
           l == IF N = 2 * m THEN m - 1 ELSE m
<1>5. Discovery!Revisions(t) \subseteq 1..N
  OBVIOUS
<1>6. cut = IF Revising /\ ~turnOk THEN {N} ELSE {}
  <2>1. \A i \in 1..N : i < N => rounds[i].meta = "success"
    BY <1>1 DEF MetaInv
  <2>2. /\ turnOk => \A i \in 1..N : rounds[i].meta = "success"
        /\ ~turnOk /\ Revising => rounds[N].meta # "success"
    BY <1>1 DEF EndingInv, Over, Done
  <2>3. \A i \in 1..N : Discovery!RoundSucceeded(t.rounds[i]) <=> rounds[i].meta = "success"
    BY <1>1 DEF Discovery!RoundSucceeded
  <2>4. CASE turnOk
    BY <1>5, <2>2, <2>3, <2>4
  <2>5. CASE ~turnOk /\ Revising
    <3>1. N \in Discovery!Revisions(t)
      BY <1>2, <2>5 DEF Revising
    <3> QED
      BY <1>5, <2>1, <2>2, <2>3, <2>5, <3>1
  <2>6. CASE stage = "review"
    <3>1. N \notin Discovery!Revisions(t)
      BY <1>2, <2>6 DEF Revising
    <3> QED
      BY <1>5, <2>1, <2>3, <2>6, <3>1 DEF Revising
  <2> QED
    BY <1>2, <2>4, <2>5, <2>6
<1>7. Discovery!Cardinality(Discovery!Revisions(t) \ cut) = revisionCount
  <2>1. CASE Revising /\ ~turnOk
    <3>1. Discovery!Revisions(t) \ cut = {2 * k + 1 : k \in 1..(m - 1)}
      BY <1>2, <1>6, <2>1 DEF Revising
    <3> QED
      BY <1>2, <2>1, <3>1, OddCount, SameCount DEF Revising
  <2>2. CASE ~(Revising /\ ~turnOk)
    <3>1. Discovery!Revisions(t) \ cut = {2 * k + 1 : k \in 1..revisionCount} /\ revisionCount \in Nat
      BY <1>2, <1>6, <2>2 DEF Revising
    <3> QED
      BY <3>1, OddCount, SameCount
  <2> QED
    BY <2>1, <2>2
<1>8. Discovery!Cardinality(cut) <= 1
  <2>1. Cardinality({}) = 0 /\ Cardinality({N}) = 1
    BY FS_EmptySet, FS_Singleton
  <2>2. Discovery!Cardinality({}) = 0 /\ Discovery!Cardinality({N}) = 1
    BY <2>1, SameCount
  <2>3. cut = {} \/ cut = {N}
    BY <1>6
  <2> HIDE DEF cut
  <2> QED
    BY <2>2, <2>3
<1>9. \A i \in cut : Discovery!Terminal(t, t.rounds[i])
  BY <1>1, <1>6 DEF Discovery!Terminal, Discovery!LastNumber
<1> QED
  BY <1>1, <1>3, <1>4, <1>7, <1>8, <1>9 DEF Discovery!RevisionsCounted

\* A stage changes only where a counted revision made it: the end of a stopped run is
\* what its last review saw.
LEMMA ChangesFit ==
    ASSUME NEW t, NEW m \in Nat, m >= 1, Discovery!Patched(t) = {2 * k : k \in 1..m},
           NEW same \in BOOLEAN, same => t.rounds[2 * m].patch = t.final
    PROVE  Discovery!ChangedAfterInitial(t) <= IF same THEN m - 1 ELSE m
<1> DEFINE C == {i \in DOMAIN Discovery!Stages(t) : i > 1 /\ Discovery!Stages(t)[i].changed}
           top == IF same THEN m ELSE m + 1
<1>1. C \subseteq 2..top
  <2>1. /\ DOMAIN Discovery!Stages(t) = 1..(m + 1)
        /\ Discovery!Stages(t)[m].patch = t.rounds[2 * m].patch
        /\ Discovery!Stages(t)[m + 1].patch = t.final
        /\ \A i \in 1..(m + 1) : i > 1 =>
             (Discovery!Stages(t)[i].changed <=>
                Discovery!Stages(t)[i].patch # Discovery!Stages(t)[i - 1].patch)
    <3>1. m \in 1..m
      OBVIOUS
    <3> QED
      BY <3>1, StagesOf
  <2>2. same => m + 1 \notin C
    <3>1. m + 1 \in 1..(m + 1) /\ m + 1 > 1 /\ m + 1 - 1 = m
      OBVIOUS
    <3> QED
      BY <2>1, <3>1
  <2>3. C \subseteq 2..(m + 1)
    BY <2>1
  <2> HIDE DEF C
  <2> QED
    BY <2>2, <2>3
<1>2. IsFiniteSet(2..top) /\ Cardinality(2..top) = IF 2 > top THEN 0 ELSE top - 2 + 1
  BY FS_Interval
<1>3. Cardinality(C) <= Cardinality(2..top)
  BY <1>1, <1>2, FS_Subset
<1>4. Cardinality(2..top) = top - 1 /\ top - 1 = IF same THEN m - 1 ELSE m
  BY <1>2
<1>5. Discovery!ChangedAfterInitial(t) = Cardinality(C)
  BY SameCount DEF Discovery!ChangedAfterInitial
<1> HIDE DEF C, top
<1> QED
  BY <1>3, <1>4, <1>5

LEMMA RegularAccepted == DInv => RegularRunAccepted
<1> SUFFICES ASSUME DInv, Scanned, ~torn, violations = {},
                    result.outcome \in DELIVERABLE_OUTCOMES, repo.head.tree # RootCommit.tree,
                    NEW review0 \in DOMAIN rounds, rounds[review0].kind = "review",
                    \A i \in DOMAIN rounds : rounds[i].patch # {RootCommit.tree},
                    ~(rounds[N].timeoutKind # "none" /\ rounds[N].meta = "success")
             PROVE  found.verdict = "eligible"
  BY DEF RegularRunAccepted, N
<1>1. PICK fw, t : /\ fw \in BOOLEAN /\ t = Trial(lost, fw) /\ found = Discovery!Discover(t)
                   /\ fw = TRUE \/ result.finalCommit = NoCommit
                   /\ Done /\ TypeOK /\ lost = {}
  BY ScannedTrial
<1>2. /\ CountInv /\ KindInv /\ MetaInv /\ EndingInv /\ ReachedInv /\ PatchInv /\ RecordedInv
      /\ PositionInv
  BY DEF DInv, RunInv, IInv
<1>3. fw = TRUE
  <2>1. result.finalCommit = repo.head
    BY <1>1, <1>2 DEF EndingInv
  <2>2. repo.head \in Commit
    BY <1>1 DEF TypeOK, Repository
  <2>3. NoCommit \notin Commit
    BY DEF NoCommit, Commit
  <2> QED
    BY <1>1, <2>1, <2>2, <2>3
<1>4. /\ t.missing = {} /\ t.outcome = result.outcome
      /\ t.revisionCount = revisionCount
      /\ t.checkpoints = Cardinality(checkpoints)
      /\ t.final = {repo.head.tree} /\ t.model = {repo.head.tree}
  <2>1. /\ t.missing = lost /\ t.outcome = result.outcome
        /\ t.revisionCount = revisionCount
        /\ t.checkpoints = Cardinality(checkpoints)
        /\ t.model = {repo.head.tree}
        /\ fw => t.final = {repo.head.tree}
    BY <1>1, TrialFields
  <2> QED
    BY <1>1, <1>3, <2>1
<1>5. /\ DOMAIN t.rounds = 1..N /\ DOMAIN rounds = 1..N /\ N \in Nat /\ N > 0
      /\ \A i \in 1..N :
           /\ t.rounds[i].kind = rounds[i].kind
           /\ t.rounds[i].patch = rounds[i].patch
           /\ t.rounds[i].role = CASE rounds[i].meta = "none" -> "none"
                [] rounds[i].meta # "none" /\ rounds[i].kind = "review" -> "reviewer"
                [] OTHER -> "modifier"
  BY <1>1, TrialFields, RoundsType
<1>6. PICK m \in Nat :
        /\ N \in {2 * m, 2 * m + 1}
        /\ Discovery!Reviews(t) = {2 * k : k \in 1..m}
        /\ Discovery!Revisions(t) = {2 * k + 1 : k \in 1..(IF N = 2 * m THEN m - 1 ELSE m)}
        /\ Discovery!RoundEntries(t)
  BY <1>1, <1>2, <1>5, RoundsByKind
<1>7. Discovery!Reviews(t) # {} /\ m >= 1
  <2>1. review0 \in Discovery!Reviews(t)
    BY <1>5 DEF Discovery!Reviews, Discovery!Of
  <2> QED
    BY <1>6, <2>1
<1>8. \A i \in 1..N : rounds[i].meta # "none"
  BY <1>1, <1>2, <1>5 DEF EndingInv, Over, Done
<1>9. ASSUME NEW i \in Discovery!Reviews(t)
      PROVE  Discovery!ReviewRoundSound(t, t.rounds[i]) /\ rounds[i].patch # {}
  <2>1. PICK k \in 1..m : i = 2 * k
    BY <1>6
  <2>2. i \in 1..N /\ t.rounds[i].kind = "review"
    BY <1>5, <1>6, <2>1 DEF Discovery!Reviews, Discovery!Of
  <2>3. \E tree \in Tree : rounds[i].patch = {tree}
    <3>1. k \in Nat \ {0} /\ 2 * k \in DOMAIN rounds /\ pc # "snapshot"
      BY <1>1, <1>5, <2>1, <2>2 DEF Done
    <3> QED
      BY <1>2, <2>1, <3>1 DEF PatchInv
  <2>4. t.rounds[i].role = "reviewer" /\ t.rounds[i].patch \notin {{}, {RootCommit.tree}}
    BY <1>5, <1>8, <2>2, <2>3
  <2> QED
    BY <2>3, <2>4 DEF Discovery!ReviewRoundSound, Discovery!IsEmpty
<1>10. \A i \in Discovery!Revisions(t) : t.rounds[i].role = "modifier"
  BY <1>5, <1>8 DEF Discovery!Revisions, Discovery!Of
<1>11. Discovery!Patched(t) = {2 * k : k \in 1..m}
  BY <1>6, <1>9, AllPatched
<1>12. /\ Discovery!ReviewsCounted(t) /\ Discovery!RevisionsCounted(t)
       /\ revisionCount = IF Stopped THEN m - 1 ELSE m
       /\ Stopped => ReviewedRound = 2 * m
  BY <1>1, <1>2, <1>6, <1>7, <1>11, CountersFit
<1>13. t.checkpoints # 0
  <2>1. 2 \in Discovery!Reviews(t)
    BY <1>6, <1>7
  <2>2. 2 \in DOMAIN rounds
    BY <1>5, <2>1 DEF Discovery!Reviews, Discovery!Of
  <2>3. rounds[2].patch # {} /\ rounds[2].patch # {RootCommit.tree}
    BY <1>9, <2>1, <2>2
  <2>4. checkpoints # {}
    BY <1>2, <2>2, <2>3 DEF RecordedInv
  <2> QED
    BY <1>2, <1>4, <2>4, FS_EmptySet DEF RecordedInv
<1>14. Discovery!Consistent(t)
  <2>1. t.outcome \in Discovery!DeliverableOutcomes
    BY <1>4 DEF Discovery!DeliverableOutcomes, DELIVERABLE_OUTCOMES
  <2>2. t.final # {} /\ t.model # {} /\ Discovery!FinalIsGraded(t) /\ ~Discovery!IsEmpty(t.final)
    BY <1>4 DEF Discovery!FinalIsGraded, Discovery!IsEmpty
  <2> QED
    BY <1>7, <1>9, <1>10, <1>12, <2>1, <2>2 DEF Discovery!Consistent
<1>15. Stopped => t.rounds[2 * m].patch = t.final
  <2>1. repo.head = lastCheckpoint
    BY <1>1, EndsAtCheckpoint
  <2>2. Stopped => rounds[2 * m].patch = {lastCheckpoint.tree}
    BY <1>2, <1>12 DEF PatchInv
  <2>3. 2 * m \in 1..N
    BY <1>5, <1>6, <1>7
  <2> QED
    BY <1>4, <1>5, <2>1, <2>2, <2>3
<1>16. Discovery!ChangedAfterInitial(t) <= t.revisionCount
  <2>1. Stopped \in BOOLEAN
    BY <1>1 DEF Stopped, Over, Done, Revising, TypeOK
  <2>2. Discovery!ChangedAfterInitial(t) <= IF Stopped THEN m - 1 ELSE m
    BY <1>7, <1>11, <1>15, <2>1, ChangesFit
  <2> QED
    BY <1>4, <1>12, <2>2
<1> QED
  BY <1>1, <1>4, <1>6, <1>13, <1>14, <1>16, Verdicts

\* Scoring reads what the loop left as what it was (discover_trial_patches against the
\* review loop's writes): a regular run is accepted, its stages are its trusted
\* checkpoints in order, and it counts as completed exactly if it ended regularly.
THEOREM ScanIsFaithfulHolds == DSpec => []ScanIsFaithful
<1>1. DInv => ScanIsFaithful
  BY RegularAccepted, StagesFollow, RegularEnd DEF ScanIsFaithful
<1> QED
  BY <1>1, DiscoveryInvariance, PTL

=============================================================================

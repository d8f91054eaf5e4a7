---------------------------- MODULE DirectEngine ----------------------------
(***************************************************************************)
(* The review loop of direct-engine.ts: a modifier agent implements a task *)
(* in the repository, the engine commits a checkpoint, a reviewer judges   *)
(* it in a copy, blocking findings send the modifier back, and at the end  *)
(* HEAD is delivered.  Turns fail, time out and are retried; the shared    *)
(* deadline runs; every git or file operation can throw; a process a turn  *)
(* left behind can still write to the tree.                                *)
(*                                                                         *)
(* The engine is one sequential program, so pc names the await it is at,   *)
(* and one action is what it does up to the next one.  Agents, time and    *)
(* stray processes act in between.                                         *)
(*                                                                         *)
(* An operator named ...Mutant is a deliberately wrong variant of the one  *)
(* below it; the properties are tested by putting it in the other's place. *)
(***************************************************************************)
EXTENDS GitWorkspace, Integers, Sequences, FiniteSets

CONSTANTS
    MaxReviews,         \* config.maxReviews
    MaxAgentAttempts,   \* config.maxAgentAttempts: attempts per turn
    TotalTimeout,       \* config.totalTimeoutSec, in ticks
    MinTurn,            \* config.minTurnSec, in ticks
    ReviewerTimeout,    \* config.reviewerTimeoutSec, 0 for none
    RevisionTimeout,    \* config.revisionTimeoutSec, 0 for none
    Strict,             \* config.strict: a degraded result is not delivered
    MaxLoose            \* bound: turns that leave a process behind

ASSUME ConfigAssumption ==
    /\ MaxReviews \in Nat
    /\ MaxAgentAttempts \in Nat \ {0}
    /\ TotalTimeout \in Nat \ {0}
    /\ MinTurn \in Nat \ {0}
    /\ ReviewerTimeout = 0 \/ (ReviewerTimeout \in Nat /\ ReviewerTimeout >= MinTurn)
    /\ RevisionTimeout = 0 \/ (RevisionTimeout \in Nat /\ RevisionTimeout >= MinTurn)
    /\ Strict \in BOOLEAN
    /\ MaxLoose \in Nat

VARIABLES
    pc,             \* where the engine is
    repo,           \* the repository
    baseCommit, lastCheckpoint,
    checkpoints,    \* commits the engine recorded
    violations,     \* turns that moved HEAD (protocolViolations)
    left, limit, limitKind,         \* ticks to the deadline; to the turn's own timer
    stage, attempt, failKind, timeoutKind, lastStatus, turnOk, changed,  \* one turn
    rounds,         \* the round directories, in order
    round, reviewCount, revisionCount, noChangeRevision,
    review,         \* the last valid review: [commit, blocking]
    result,         \* what finalize is given and what it returns
    \* History, read by the properties only:
    turns,          \* modifier turns run so far; the last one's number
    accepted,       \* modifier turns whose work the engine accepted
    tracked,        \* an agent put baseline files under version control
    \* The environment:
    loose           \* turns that left a process behind

repoVars   == <<repo, tracked>>
trustVars  == <<baseCommit, lastCheckpoint, checkpoints, violations>>
clockVars  == <<left, limit, limitKind>>
turnVars   == <<stage, attempt, failKind, timeoutKind, lastStatus, turnOk, changed>>
loopVars   == <<round, reviewCount, revisionCount, noChangeRevision, review>>
agentVars  == <<turns, accepted, loose>>
vars == <<pc, repoVars, trustVars, clockVars, turnVars, rounds, loopVars, result, agentVars>>

ModifierStages == {"modify", "revise", "final-revision"}
Stages == ModifierStages \union {"review"}
TimeoutKinds == {"none", "total_deadline", "stage_timeout", "event_silence"}
FailKinds == {"none", "timeout", "process", "empty", "reviewer_failed", "invalid_review_output"}
DegradedReasons == {"none", "reviewer_failed", "invalid_review_output", "revision_failed",
                    "timeout", "infrastructure"}
Outcomes == {"none", "approved", "max_reviews_reached", "degraded", "modifier_failed",
             "timeout", "empty_patch", "checkpoint_failed"}

DELIVERABLE_OUTCOMES == {"approved", "max_reviews_reached", "degraded"}

\* The lines of execute() and of the two turns, between awaits.
ExecutePoints == {"start", "open", "snapshot", "admit", "copy", "running", "reset", "clean",
                  "inspect", "stage", "decide", "record", "commit", "mark", "loop"}

isDeliverable(outcome) ==
    outcome \in DELIVERABLE_OUTCOMES /\ ~(Strict /\ outcome = "degraded")

\* The commit a failed turn is rolled back to, and whether it must change anything.
ResetCommit == IF stage = "modify" THEN baseCommit ELSE lastCheckpoint
RequireChange == stage = "modify"

\* The cap of the current stage; 0 where it has none.
StageTimeout ==
    CASE stage = "review" -> ReviewerTimeout
      [] stage \in {"revise", "final-revision"} -> RevisionTimeout
      [] OTHER -> 0

Conclude(outcome, reason) ==
    /\ pc' = "finalize"
    /\ result' = [result EXCEPT !.outcome = outcome, !.degradedReason = reason]

Init ==
    /\ pc = "start"
    /\ repo \in CleanCheckouts
    /\ baseCommit = NoCommit /\ lastCheckpoint = NoCommit
    /\ checkpoints = {} /\ violations = {}
    /\ left = TotalTimeout /\ limit = 0 /\ limitKind = "none"
    /\ stage = "modify" /\ attempt = 1
    /\ failKind = "none" /\ timeoutKind = "none" /\ lastStatus = "unattempted"
    /\ turnOk = FALSE /\ changed = FALSE
    /\ rounds = <<>>
    /\ round = 1 /\ reviewCount = 0 /\ revisionCount = 0 /\ noChangeRevision = FALSE
    /\ review = [commit |-> NoCommit, blocking |-> FALSE]
    /\ result = [outcome |-> "none", degradedReason |-> "none",
                 deliverable |-> FALSE, finalCommit |-> NoCommit]
    /\ turns = 0 /\ accepted = {} /\ loose = {} /\ tracked = FALSE

(***************************************************************************)
(* Opening a turn                                                          *)
(***************************************************************************)

\* execute(): remember the base commit and start the clock.
Start ==
    /\ pc = "start"
    /\ pc' = "open"
    /\ baseCommit' = repo.head
    /\ lastCheckpoint' = repo.head
    /\ left' = TotalTimeout
    /\ UNCHANGED <<repoVars, checkpoints, violations, limit, limitKind, turnVars, rounds,
                   loopVars, result, agentVars>>

\* newRoundDir, and the local variables of modifierTurn or reviewTurn.
OpenTurn ==
    /\ pc = "open"
    /\ pc' = IF stage = "review" THEN "snapshot" ELSE "admit"
    /\ rounds' = Append(rounds, [kind |-> stage, patch |-> {}, meta |-> "none",
                                 timeoutKind |-> "none"])
    /\ attempt' = 1
    /\ failKind' = IF stage = "review" THEN "reviewer_failed" ELSE "none"
    /\ timeoutKind' = "none"
    /\ lastStatus' = "unattempted"
    /\ turnOk' = FALSE /\ changed' = FALSE
    /\ UNCHANGED <<stage, repoVars, trustVars, clockVars, loopVars, result, agentVars>>

\* reviewTurn: the patch from base to HEAD is what the reviewer is shown.
SnapshotPatch ==
    /\ pc = "snapshot"
    /\ pc' = "admit"
    /\ rounds' = [rounds EXCEPT ![Len(rounds)].patch = {repo.head.tree}]
    /\ review' = [review EXCEPT !.commit = repo.head]
    /\ UNCHANGED <<repoVars, trustVars, clockVars, turnVars, round, reviewCount,
                   revisionCount, noChangeRevision, result, agentVars>>

AttemptsLeft == attempt <= MaxAgentAttempts

\* turnTimeout: the turn's own timer is the stage's cap or what is left before the
\* deadline, whichever comes first.
StartTimer ==
    LET stageLimited == StageTimeout # 0 /\ StageTimeout <= left IN
    /\ limit' = IF stageLimited THEN StageTimeout ELSE left
    /\ limitKind' = IF stageLimited THEN "stage_timeout" ELSE "total_deadline"

\* An attempt is admitted only while MinTurn remains.
AdmitAttempt ==
    /\ pc = "admit"
    /\ AttemptsLeft
    /\ left >= MinTurn
    /\ IF stage = "review"
         THEN pc' = "copy" /\ UNCHANGED <<limit, limitKind>>
         ELSE pc' = "running" /\ StartTimer
    /\ UNCHANGED <<repoVars, trustVars, left, turnVars, rounds, loopVars, result, agentVars>>

\* The reviewer's timer starts only after the working tree is copied, which takes time:
\* the turn may start with less than MinTurn left.
StartReview ==
    /\ pc = "copy"
    /\ pc' = "running"
    /\ StartTimer
    /\ UNCHANGED <<repoVars, trustVars, left, turnVars, rounds, loopVars, result, agentVars>>

SkipAttemptMutant ==
    /\ pc = "admit"
    /\ AttemptsLeft
    /\ left < MinTurn
    /\ pc' = "admit"
    /\ failKind' = "timeout"
    /\ timeoutKind' = "total_deadline"
    /\ UNCHANGED <<stage, attempt, lastStatus, turnOk, changed, repoVars, trustVars,
                   clockVars, rounds, loopVars, result, agentVars>>

SkipAttempt ==
    /\ pc = "admit"
    /\ AttemptsLeft
    /\ left < MinTurn
    /\ pc' = "record"
    /\ failKind' = "timeout"
    /\ timeoutKind' = "total_deadline"
    /\ UNCHANGED <<stage, attempt, lastStatus, turnOk, changed, repoVars, trustVars,
                   clockVars, rounds, loopVars, result, agentVars>>

AttemptsExhausted ==
    /\ pc = "admit"
    /\ ~AttemptsLeft
    /\ pc' = "record"
    /\ failKind' = IF failKind = "none" THEN "process" ELSE failKind
    /\ UNCHANGED <<stage, attempt, timeoutKind, lastStatus, turnOk, changed, repoVars,
                   trustVars, clockVars, rounds, loopVars, result, agentVars>>

\* How runTurn can end: the adapter's own status, and the timer that aborted the
\* turn, if one did.  The wall-clock timer fires when its time is up.
TurnEndings ==
    {"success", "error"} \X
        ({"none", "event_silence"} \union (IF limit = 0 THEN {limitKind} ELSE {}))

TurnSucceeded(e) == e[1] = "success" /\ e[2] = "none"

(***************************************************************************)
(* A modifier turn                                                         *)
(***************************************************************************)

EndModifierTurn(e, r, leavesProcess) ==
    LET t == turns + 1 IN
    /\ pc = "running"
    /\ stage \in ModifierStages
    /\ repo' = r
    /\ turns' = t
    /\ tracked' = (tracked \/ BaseFile \in r.index \union r.head.tree)
    /\ loose' = IF leavesProcess THEN loose \union {t} ELSE loose
    /\ lastStatus' = e[1]
    /\ IF TurnSucceeded(e)
         THEN pc' = "inspect" /\ UNCHANGED <<failKind, timeoutKind>>
         ELSE /\ pc' = "reset"
              /\ failKind' = IF e[2] = "none" THEN "process" ELSE "timeout"
              /\ timeoutKind' = e[2]
    /\ limit' = 0 /\ limitKind' = "none"
    /\ UNCHANGED <<stage, attempt, turnOk, changed, left, trustVars, rounds, loopVars,
                   result, accepted>>

\* resetTo, first half.
Reset ==
    /\ pc = "reset"
    /\ pc' = "clean"
    /\ repo' = HardReset(repo, ResetCommit)
    /\ UNCHANGED <<tracked, trustVars, clockVars, turnVars, rounds, loopVars, result, agentVars>>

\* resetTo, second half, and on to the next attempt.
Clean ==
    /\ pc = "clean"
    /\ pc' = "admit"
    /\ repo' = RemoveFresh(repo)
    /\ attempt' = attempt + 1
    /\ UNCHANGED <<stage, failKind, timeoutKind, lastStatus, turnOk, changed, tracked,
                   trustVars, clockVars, rounds, loopVars, result, agentVars>>

HeadMovedMutant == stage = "modify" /\ repo.head # ResetCommit
HeadMoved == repo.head # ResetCommit

\* A moved HEAD is recorded and tolerated.
InspectHead ==
    /\ pc = "inspect"
    /\ pc' = "stage"
    /\ violations' = IF HeadMoved THEN violations \union {turns} ELSE violations
    /\ UNCHANGED <<repoVars, baseCommit, lastCheckpoint, checkpoints, clockVars, turnVars,
                   rounds, loopVars, result, agentVars>>

StageChanges ==
    /\ pc = "stage"
    /\ pc' = "decide"
    /\ repo' = StageAllExcept(repo)
    /\ UNCHANGED <<tracked, trustVars, clockVars, turnVars, rounds, loopVars, result, agentVars>>

\* Did the turn change anything?  (`git diff --cached` failing counts as a change.)
\* An empty initial turn is retried, without a reset; anything else is accepted.
Decide ==
    /\ pc = "decide"
    /\ \E hasStaged \in {HasStagedChanges(repo), TRUE} :
         LET didChange == hasStaged \/ HeadMoved IN
         IF RequireChange /\ ~didChange
           THEN /\ pc' = "admit"
                /\ failKind' = "empty"
                /\ attempt' = attempt + 1
                /\ UNCHANGED <<turnOk, changed, accepted>>
           ELSE /\ pc' = "record"
                /\ turnOk' = TRUE
                /\ changed' = didChange
                /\ accepted' = accepted \union {turns}
                /\ UNCHANGED <<failKind, attempt>>
    /\ UNCHANGED <<stage, timeoutKind, lastStatus, repoVars, trustVars, clockVars, rounds,
                   loopVars, result, turns, loose>>

WithMetadataMutant ==
    [rounds EXCEPT ![Len(rounds)].meta = lastStatus,
                   ![Len(rounds)].timeoutKind =
                       IF lastStatus = "error" THEN timeoutKind ELSE "none"]
\* metadata.json of the round.
WithMetadata ==
    [rounds EXCEPT ![Len(rounds)].meta = lastStatus,
                   ![Len(rounds)].timeoutKind =
                       IF failKind = "timeout" THEN timeoutKind ELSE "none"]

InitialOutcome ==
    CASE failKind = "timeout" -> "timeout"
      [] failKind = "empty" -> "empty_patch"
      [] OTHER -> "modifier_failed"

CountsAsRevisionMutant == TRUE
CountsAsRevision == stage # "modify"

\* Back in execute() after modifierTurn.
RecordModifierTurn ==
    /\ pc = "record"
    /\ stage \in ModifierStages
    /\ rounds' = WithMetadata
    /\ \/ /\ turnOk
          /\ pc' = "commit"
          /\ revisionCount' = IF CountsAsRevision THEN revisionCount + 1 ELSE revisionCount
          /\ UNCHANGED result
       \/ /\ ~turnOk
          /\ IF stage = "modify"
               THEN Conclude(InitialOutcome, "none")
               ELSE Conclude("degraded",
                             IF failKind = "timeout" THEN "timeout" ELSE "revision_failed")
          /\ UNCHANGED revisionCount
    /\ UNCHANGED <<repoVars, trustVars, clockVars, turnVars, round, reviewCount,
                   noChangeRevision, review, agentVars>>

(***************************************************************************)
(* Checkpoints and the loop                                                *)
(***************************************************************************)

\* commitCheckpoint: nothing staged, no commit.
CommitCheckpoint ==
    /\ pc = "commit"
    /\ pc' = "mark"
    /\ repo' = IF HasStagedChanges(repo) THEN CommitIndex(repo, turns) ELSE repo
    /\ UNCHANGED <<tracked, trustVars, clockVars, turnVars, rounds, loopVars, result, agentVars>>

\* HEAD becomes the trusted checkpoint; it is listed only if the harness made it.
\* Then the first review, the end of the loop, or the next round.
MarkCheckpoint ==
    /\ pc = "mark"
    /\ lastCheckpoint' = repo.head
    /\ checkpoints' = IF repo.head.by = "harness" /\ repo.head.turn = turns
                        THEN checkpoints \union {repo.head} ELSE checkpoints
    /\ CASE stage = "modify" ->
              pc' = "loop" /\ UNCHANGED <<round, noChangeRevision, result>>
         [] stage \in {"revise", "final-revision"} /\ ~changed ->
              /\ noChangeRevision' = TRUE
              /\ Conclude("max_reviews_reached", "none")
              /\ UNCHANGED round
         [] stage = "final-revision" /\ changed ->
              Conclude("max_reviews_reached", "none") /\ UNCHANGED <<round, noChangeRevision>>
         [] OTHER ->
              /\ pc' = "loop"
              /\ round' = round + 1
              /\ UNCHANGED <<noChangeRevision, result>>
    /\ UNCHANGED <<repoVars, baseCommit, violations, clockVars, turnVars, rounds,
                   reviewCount, revisionCount, review, agentVars>>

BeginRound ==
    /\ pc = "loop"
    /\ CASE round > MaxReviews ->
              Conclude("max_reviews_reached", "none") /\ UNCHANGED stage
         [] round <= MaxReviews /\ left = 0 ->
              Conclude("degraded", "timeout") /\ UNCHANGED stage
         [] OTHER -> pc' = "open" /\ stage' = "review" /\ UNCHANGED result
    /\ UNCHANGED <<attempt, failKind, timeoutKind, lastStatus, turnOk, changed, repoVars,
                   trustVars, clockVars, rounds, loopVars, agentVars>>

(***************************************************************************)
(* A review turn: the reviewer works in a copy, so the repository stays    *)
(***************************************************************************)

EndReviewTurn(e, verdict) ==
    /\ pc = "running"
    /\ stage = "review"
    /\ lastStatus' = e[1]
    /\ limit' = 0 /\ limitKind' = "none"
    /\ CASE ~TurnSucceeded(e) ->
              /\ failKind' = IF e[2] = "none" THEN "reviewer_failed" ELSE "timeout"
              /\ timeoutKind' = e[2]
              /\ pc' = "admit" /\ attempt' = attempt + 1
              /\ UNCHANGED <<turnOk, review>>
         [] TurnSucceeded(e) /\ verdict = "invalid" ->
              /\ failKind' = "invalid_review_output"
              /\ pc' = "admit" /\ attempt' = attempt + 1
              /\ UNCHANGED <<timeoutKind, turnOk, review>>
         [] OTHER ->
              /\ pc' = "record"
              /\ turnOk' = TRUE
              /\ review' = [review EXCEPT !.blocking = (verdict = "blocking")]
              /\ UNCHANGED <<failKind, timeoutKind, attempt>>
    /\ UNCHANGED <<stage, changed, left, repoVars, trustVars, rounds, round, reviewCount,
                   revisionCount, noChangeRevision, result, agentVars>>

ApprovesLastRoundMutant == turnOk /\ (~review.blocking \/ round = MaxReviews)
Approves == turnOk /\ ~review.blocking

\* Back in execute() after reviewTurn: approve, give up, or send it back.
RecordReviewTurn ==
    /\ pc = "record"
    /\ stage = "review"
    /\ rounds' = WithMetadata
    /\ reviewCount' = IF turnOk THEN reviewCount + 1 ELSE reviewCount
    /\ CASE ~turnOk -> Conclude("degraded", failKind) /\ UNCHANGED stage
         [] Approves -> Conclude("approved", "none") /\ UNCHANGED stage
         [] turnOk /\ ~Approves /\ left = 0 ->
              Conclude("degraded", "timeout") /\ UNCHANGED stage
         [] OTHER ->
              /\ pc' = "open"
              /\ stage' = IF round = MaxReviews THEN "final-revision" ELSE "revise"
              /\ UNCHANGED result
    /\ UNCHANGED <<attempt, failKind, timeoutKind, lastStatus, turnOk, changed, repoVars,
                   trustVars, clockVars, round, revisionCount, noChangeRevision, review,
                   agentVars>>

(***************************************************************************)
(* The end                                                                 *)
(***************************************************************************)

\* run(): any exception of execute() lands here.
InfrastructureFailure ==
    /\ pc \in ExecutePoints
    /\ IF lastCheckpoint # NoCommit /\ lastCheckpoint # baseCommit
         THEN Conclude("degraded", "infrastructure")
         ELSE Conclude("checkpoint_failed", "none")
    /\ UNCHANGED <<repoVars, trustVars, clockVars, turnVars, rounds, loopVars, agentVars>>

\* finalize: whatever HEAD is, its diff against base is the patch.
Finalize ==
    LET outcome == IF isDeliverable(result.outcome) /\ repo.head.tree = baseCommit.tree
                     THEN "empty_patch" ELSE result.outcome IN
    /\ pc = "finalize"
    /\ baseCommit # NoCommit
    /\ pc' = "done"
    /\ result' = [result EXCEPT !.outcome = outcome,
                                !.deliverable = isDeliverable(outcome),
                                !.finalCommit = repo.head]
    /\ UNCHANGED <<repoVars, trustVars, clockVars, turnVars, rounds, loopVars, agentVars>>

\* finalize throws, or the patch does not apply to a clean base.
FinalizeFails ==
    /\ pc = "finalize"
    /\ pc' = "done"
    /\ \E c \in {NoCommit, repo.head} :
         result' = [result EXCEPT !.outcome = "checkpoint_failed",
                                  !.deliverable = FALSE, !.finalCommit = c]
    /\ UNCHANGED <<repoVars, trustVars, clockVars, turnVars, rounds, loopVars, agentVars>>

(***************************************************************************)
(* Time and leftover processes                                             *)
(***************************************************************************)

\* One tick.  While a turn runs, its own timer runs with the deadline.
Elapse ==
    /\ pc # "done"
    /\ left > 0
    /\ pc = "running" => limit > 0
    /\ left' = left - 1
    /\ limit' = IF pc = "running" THEN limit - 1 ELSE limit
    /\ UNCHANGED <<pc, limitKind, repoVars, trustVars, turnVars, rounds, loopVars, result,
                   agentVars>>

Stray ==
    /\ pc # "done"
    /\ \E t \in loose : repo' = StrayWrite(repo, t)
    /\ UNCHANGED <<pc, tracked, trustVars, clockVars, turnVars, rounds, loopVars, result,
                   agentVars>>

Progress ==
    \/ Start \/ OpenTurn \/ SnapshotPatch
    \/ AdmitAttempt \/ StartReview \/ SkipAttempt \/ AttemptsExhausted
    \/ \E e \in TurnEndings, leavesProcess \in BOOLEAN :
         /\ leavesProcess => Cardinality(loose) < MaxLoose
         /\ \E r \in AgentEffects(repo, turns + 1) : EndModifierTurn(e, r, leavesProcess)
    \/ Reset \/ Clean \/ InspectHead \/ StageChanges \/ Decide \/ RecordModifierTurn
    \/ CommitCheckpoint \/ MarkCheckpoint \/ BeginRound
    \/ \E e \in TurnEndings, verdict \in {"invalid", "blocking", "clean"} :
         EndReviewTurn(e, verdict)
    \/ RecordReviewTurn
    \/ Finalize \/ FinalizeFails

Engine == Progress \/ InfrastructureFailure

Next == Engine \/ Elapse \/ Stray

Spec == Init /\ [][Next]_vars

\* The engine is a running program, and runTurn comes back: its timers see to that.
\* No exception is needed for the loop to end.
FairSpec == Spec /\ WF_vars(Progress)

(***************************************************************************)
(* Properties                                                              *)
(***************************************************************************)

RoundRecord == [kind : Stages, patch : SUBSET Tree,
                meta : {"none", "unattempted", "success", "error"},
                timeoutKind : TimeoutKinds]

ReviewRecord == [commit : Commit \union {NoCommit}, blocking : BOOLEAN]
ResultRecord == [outcome : Outcomes, degradedReason : FailKinds \union DegradedReasons,
                 deliverable : BOOLEAN, finalCommit : Commit \union {NoCommit}]

\* The type invariant: what every variable ranges over.
TypeOK ==
    /\ pc \in ExecutePoints \union {"finalize", "done"}
    /\ repo \in Repository
    /\ baseCommit \in Commit \union {NoCommit}
    /\ lastCheckpoint \in Commit \union {NoCommit}
    /\ pc \in ExecutePoints \ {"start"} => baseCommit \in Commit /\ lastCheckpoint \in Commit
    /\ checkpoints \subseteq Commit
    /\ violations \subseteq Nat
    /\ left \in Nat /\ limit \in Nat /\ limitKind \in TimeoutKinds
    /\ stage \in Stages /\ attempt \in Nat
    /\ failKind \in FailKinds /\ timeoutKind \in TimeoutKinds
    /\ lastStatus \in {"unattempted", "success", "error"}
    /\ turnOk \in BOOLEAN /\ changed \in BOOLEAN
    /\ rounds \in Seq(RoundRecord)
    /\ round \in Nat /\ reviewCount \in Nat /\ revisionCount \in Nat
    /\ noChangeRevision \in BOOLEAN
    /\ review \in ReviewRecord /\ result \in ResultRecord
    /\ turns \in Nat /\ accepted \subseteq Nat /\ loose \subseteq Nat
    /\ tracked \in BOOLEAN

Done == pc = "done"
Infrastructure == result.degradedReason = "infrastructure"

\* An approved delivery is exactly the commit the last review judged, that review
\* found nothing blocking, and it is the trusted checkpoint: no attempt, retry or
\* leftover process gets between the reviewer's look (reviewTurn's diff) and the
\* delivery (finalize's diff), which read HEAD at different times.
ApprovedWasReviewed ==
    Done /\ result.outcome = "approved" =>
        /\ result.finalCommit = review.commit
        /\ ~review.blocking
        /\ result.finalCommit = lastCheckpoint

\* Unless an exception cut the run short, what is delivered is the last trusted
\* checkpoint and holds only work of accepted turns, or what a leftover process
\* wrote: a failed or timed-out attempt leaves nothing behind (modifierTurn's reset).
OnlyAcceptedWork ==
    Done /\ result.deliverable /\ ~Infrastructure =>
        /\ result.finalCommit = lastCheckpoint
        /\ result.finalCommit.tree \subseteq accepted \union loose \union {BaseFile}

\* Every attempt starts from the commit the turn rolls back to, nothing staged and
\* nothing on disk beside baseline files, however the attempt before it failed
\* (a process may have been left writing; then only HEAD and the index are sure).
RollbackComplete ==
    pc = "admit" /\ stage \in ModifierStages =>
        /\ repo.head = ResetCommit
        /\ repo.index = repo.head.tree
        /\ loose = {} => repo.work \ {BaseFile} = repo.index \ {BaseFile}

\* An exception can expose at most the turn it interrupted: HEAD is then the trusted
\* checkpoint, or a commit of the very last modifier turn, or the root it reset to.
InfrastructureExposure ==
    Done /\ result.deliverable /\ Infrastructure =>
        \/ result.finalCommit = lastCheckpoint
        \/ result.finalCommit.turn = turns
        \/ result.finalCommit = RootCommit

\* The counters of summary.json agree with the outcome: an approval is one review
\* ahead of the revisions, every revision answers a review, and no run has more
\* reviews than configured.
RoundAccounting ==
    Done /\ result.deliverable =>
        /\ revisionCount <= reviewCount /\ reviewCount <= revisionCount + 1
        /\ reviewCount <= MaxReviews
        /\ result.outcome = "approved" => reviewCount = revisionCount + 1
        /\ result.outcome = "max_reviews_reached" => reviewCount = revisionCount
        /\ noChangeRevision => result.outcome = "max_reviews_reached"

\* A revision runs only against the checkpoint the last review judged and only if
\* that review was blocking: findings are never applied to another tree.
RevisionAnswersReview ==
    pc \in {"admit", "running"} /\ stage \in {"revise", "final-revision"} =>
        review.blocking /\ review.commit = lastCheckpoint

\* The harness never sweeps baseline files into a commit: one is in the patch only if
\* an agent put it under version control itself (stageAllExcept).
BaselineNotSwept == BaseFile \in repo.head.tree => tracked

\* A delivered commit the modifier made itself is on record as a protocol violation,
\* unless an exception came first.
HeadMovesRecorded ==
    Done /\ result.deliverable /\ ~Infrastructure /\ result.finalCommit.by = "modifier" =>
        result.finalCommit.turn \in violations

\* Whose commit and whose files are delivered is on record: the origins of both.
OriginsOnRecord == BaselineNotSwept /\ HeadMovesRecorded

\* A timeout is explained: the last round's metadata names the timer, or the deadline
\* has passed.
TimeoutExplained ==
    Done /\ "timeout" \in {result.outcome, result.degradedReason} =>
        left = 0 \/ rounds[Len(rounds)].timeoutKind # "none"

\* Retries are bounded: at most MaxAgentAttempts modifier turns per review and before
\* the first.
TurnBudget == turns <= MaxAgentAttempts * (1 + reviewCount)

\* What the engine says of its verdicts is true of the commits they were about: the one
\* that is delivered as approved and the one a revision starts from.
VerdictsApply == ApprovedWasReviewed /\ RevisionAnswersReview

\* The four counters agree with the outcome and with the turns that were really run.
CountsAgree == RoundAccounting /\ TurnBudget

\* The trusted checkpoint is replaced only by accepted work, and after the first one
\* only in answer to a blocking review of that very checkpoint.
CheckpointMoves ==
    [][lastCheckpoint \notin {lastCheckpoint', NoCommit} =>
         /\ turns \in accepted
         /\ reviewCount > 0 => review = [commit |-> lastCheckpoint, blocking |-> TRUE]]_vars

\* The run always comes to an end with a result.
Termination == <>Done

\* The engine implements the abstract contract.  The verdict is about the trusted
\* checkpoint: known once this round's review is counted, and lost with the commit.
Verdict ==
    IF reviewCount < round \/ review.commit # lastCheckpoint
      THEN "none"
      ELSE IF review.blocking THEN "blocking" ELSE "clean"

Shipped ==
    CASE ~Done -> [how |-> "nothing", commit |-> NoCommit]
      [] Done /\ ~result.deliverable -> [how |-> "withheld", commit |-> NoCommit]
      [] OTHER -> [how |-> IF Infrastructure THEN "infrastructure" ELSE result.outcome,
                   commit |-> result.finalCommit]

Contract == INSTANCE Delivery WITH
    Commits <- Commit, trusted <- lastCheckpoint, verdict <- Verdict,
    reviews <- reviewCount, shipped <- Shipped

\* DirectEngine => Delivery, the contract as a property of the engine.
ContractSpec == Contract!DeliverySpec

(***************************************************************************)
(* Claims of the repository the code does not keep                         *)
(***************************************************************************)

\* The comment above run(): an infrastructure exception after a trusted checkpoint
\* "degrades to delivering that checkpoint".
TrustedDelivery == Done /\ result.deliverable => result.finalCommit = lastCheckpoint

\* docs/collab-timeout-policy.md: the three timeout kinds all map to
\* degradedReason = "timeout", and the kind is kept in the round's metadata.
TimeoutKindMeansTimeout ==
    Done /\ result.deliverable /\ ~Infrastructure /\ rounds[Len(rounds)].timeoutKind # "none" =>
        result.degradedReason = "timeout"

(***************************************************************************)
(* The inductive invariant the proofs use, one part per concern            *)
(***************************************************************************)

\* Items that may be in the tree outside the turn being judged.
Known == accepted \union loose \union {BaseFile}

\* The engine is between the agents' work: HEAD is the trusted checkpoint.
Reviewing == pc = "record" /\ stage = "review"
GivenUp == pc = "record" /\ stage \in ModifierStages /\ ~turnOk
AcceptedTurn == pc = "record" /\ stage \in ModifierStages /\ turnOk
AtCheckpoint ==
    pc \in {"open", "snapshot", "admit", "copy", "running", "clean", "loop"} \/ Reviewing \/ GivenUp
\* The last modifier turn is neither accepted nor rolled back.
InJudgement == pc \in {"reset", "inspect", "stage", "decide"}
\* It is accepted and not yet the trusted checkpoint.
Committing == AcceptedTurn \/ pc \in {"commit", "mark"}
Over == pc \in {"finalize", "done"}

\* Which stages each point belongs to, and what the engine knows there.
ControlInv ==
    /\ pc = "start" => /\ repo.head = RootCommit /\ repo.index = {}
                       /\ repo.work \subseteq {BaseFile} /\ stage = "modify"
                       /\ baseCommit = NoCommit /\ lastCheckpoint = NoCommit
                       /\ loose = {}
    /\ pc \notin {"start", "finalize", "done"} => baseCommit = RootCommit
    /\ baseCommit \in {NoCommit, RootCommit}
    /\ pc \in {"reset", "clean", "inspect", "stage", "decide", "commit", "mark"}
         => stage \in ModifierStages
    /\ pc \in {"snapshot", "admit", "copy", "running", "clean"} \/ InJudgement => ~turnOk
    /\ pc \in {"snapshot", "copy"} => stage = "review"
    /\ pc = "loop" => stage \in {"modify", "revise"}
    /\ stage = "modify" /\ pc \notin {"loop", "finalize", "done"} => lastCheckpoint = baseCommit

\* HEAD and the index against the trusted checkpoint.
HeadInv ==
    /\ AtCheckpoint => repo.head = lastCheckpoint /\ repo.index = repo.head.tree
    /\ pc = "mark" => repo.index = repo.head.tree
    /\ pc = "clean" => repo.index \subseteq repo.work
    /\ repo.head \in {lastCheckpoint, RootCommit} \/ repo.head.turn = turns

\* Whose work is where.
WorkInv ==
    /\ lastCheckpoint.tree \subseteq Known
    /\ AtCheckpoint /\ pc # "clean" => repo.work \subseteq Known
    /\ (InJudgement \/ pc = "clean") =>
         repo.head.tree \union repo.index \union repo.work \subseteq Known \union {turns}
    /\ pc = "decide" => repo.work \subseteq repo.index \union loose \union {BaseFile}
    /\ Committing => /\ repo.head.tree \union repo.index \union repo.work \subseteq Known
                     /\ turns \in accepted
    /\ loose = {} /\ ((AtCheckpoint /\ pc # "clean") \/ pc = "decide" \/ Committing) =>
         repo.work \ {BaseFile} = repo.index \ {BaseFile}

\* Who made the commits, and who put baseline files under version control.
OriginInv ==
    /\ lastCheckpoint.by = "modifier" => lastCheckpoint.turn \in violations
    /\ repo.head.by = "modifier" => repo.head = lastCheckpoint \/ repo.head.turn = turns
    /\ repo.head.by = "modifier" /\ (pc \in {"stage", "decide"} \/ Committing) =>
         repo.head.turn \in violations
    /\ BaseFile \in repo.head.tree \union repo.index \union lastCheckpoint.tree => tracked

\* What the last review is about.
ReviewInv ==
    /\ stage = "review" /\ pc \in {"admit", "copy", "running", "record"} => review.commit = lastCheckpoint
    /\ stage \in {"revise", "final-revision"} /\ pc \notin {"loop", "finalize", "done"} =>
         review.blocking /\ review.commit = lastCheckpoint

\* The counters against the round.
CountInv ==
    /\ stage = "modify" => reviewCount = 0 /\ revisionCount = 0 /\ round = 1
    /\ pc = "loop" => reviewCount = revisionCount /\ round = reviewCount + 1
    /\ stage = "review" /\ ~Over =>
         reviewCount = revisionCount /\ round = reviewCount + 1 /\ round <= MaxReviews
    /\ stage \in {"revise", "final-revision"} /\ ~Over /\ pc # "loop" =>
         /\ reviewCount = round /\ round <= MaxReviews
         /\ revisionCount = IF pc \in {"commit", "mark"} THEN round ELSE round - 1
    /\ revisionCount <= reviewCount /\ reviewCount <= revisionCount + 1
    /\ reviewCount <= MaxReviews
    /\ ~Over => ~noChangeRevision

\* What the result says, from the moment it is concluded.
ResultInv ==
    /\ ~Over => result.degradedReason = "none"
    /\ ~Done => ~result.deliverable
    /\ Over /\ ~Infrastructure /\ result.outcome \in DELIVERABLE_OUTCOMES =>
         repo.head = lastCheckpoint
    /\ Over /\ result.outcome = "approved" =>
         /\ review.commit = lastCheckpoint /\ ~review.blocking
         /\ repo.head = lastCheckpoint /\ reviewCount = revisionCount + 1
    /\ Over /\ result.outcome = "max_reviews_reached" => reviewCount = revisionCount
    /\ Over /\ noChangeRevision =>
         result.outcome \in {"max_reviews_reached", "empty_patch", "checkpoint_failed"}
    /\ Done /\ result.deliverable =>
         result.finalCommit = repo.head /\ result.outcome \in DELIVERABLE_OUTCOMES
    /\ Done /\ result.outcome = "approved" => result.finalCommit = repo.head

\* How many turns the reviews so far, and this round's attempts, account for.
Spent == MaxAgentAttempts * reviewCount

BudgetInv ==
    /\ attempt \in 1 .. MaxAgentAttempts + 1
    /\ pc \in {"copy", "running"} \/ InJudgement \/ pc = "clean" => attempt <= MaxAgentAttempts
    /\ stage \in ModifierStages /\ pc \in {"start", "open"} => turns <= Spent
    /\ stage \in ModifierStages /\ pc \in {"admit", "running"} => turns <= Spent + attempt - 1
    /\ InJudgement \/ pc = "clean" => turns <= Spent + attempt
    /\ turns <= Spent + MaxAgentAttempts

\* A timeout among the causes of failure comes with the timer that fired.
TimerInv ==
    /\ failKind = "timeout" => timeoutKind # "none"
    /\ pc = "record" => Len(rounds) > 0
    /\ pc \in {"snapshot", "admit", "copy", "running", "clean"} \/ InJudgement => Len(rounds) > 0
    /\ Over /\ "timeout" \in {result.outcome, result.degradedReason} =>
         left = 0 \/ rounds[Len(rounds)].timeoutKind # "none"

\* What is known at the end about the verdict and the trusted checkpoint.
VerdictInv ==
    /\ Over /\ result.outcome = "approved" => Verdict = "clean"
    /\ Over /\ ~Done /\ Verdict = "clean" => result.outcome = "approved"
    /\ Over /\ Infrastructure => lastCheckpoint \notin {NoCommit, RootCommit}

IInv == TypeOK /\ ControlInv /\ HeadInv /\ WorkInv /\ OriginInv /\ ReviewInv
               /\ CountInv /\ ResultInv

=============================================================================

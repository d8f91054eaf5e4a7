---------------------------- MODULE SingleEngine -----------------------------
(***************************************************************************)
(* The workflow of one agent alone (single-engine.ts): one modifier turn   *)
(* with retries over the same workspace as the review loop, in code of its *)
(* own.  Every attempt goes back to the base commit, nothing is delivered  *)
(* after an exception, and HEAD is what is collected in any case.          *)
(*                                                                         *)
(* As in DirectEngine, pc names the await the program is at.               *)
(***************************************************************************)
EXTENDS GitWorkspace, FiniteSets

CONSTANTS
    MaxAgentAttempts, TotalTimeout, MinTurn,   \* of the configuration
    MaxLoose                                   \* bound: turns that leave a process behind

ASSUME SingleAssumption == MaxAgentAttempts \in Nat /\ TotalTimeout \in Nat

VARIABLES
    pc, repo,
    baseCommit, lastCheckpoint,
    violations,            \* turns that moved HEAD
    left,                  \* ticks to the deadline, which is also the turn's timer
    attempt, failure, terminalTimeoutKind,
    metadata,              \* the timeout kind in metadata.json, {} before it is written
    outcome, deliverable, finalCommit,
    \* History:
    accepted,              \* the turn whose work was accepted
    loose                  \* turns that left a process behind

clock == <<left, attempt, failure, terminalTimeoutKind>>
trust == <<baseCommit, lastCheckpoint, violations, accepted>>
final == <<outcome, deliverable, finalCommit>>
vars == <<pc, repo, trust, clock, metadata, final, loose>>

TimeoutKinds == {"none", "total_deadline", "event_silence"}
Failures == {"modifier_failed", "timeout", "empty_patch"}
ExecutePoints == {"start", "admit", "running", "reset", "clean", "inspect", "stage",
                  "decide", "commit", "mark", "record"}

Init ==
    /\ pc = "start"
    /\ repo \in CleanCheckouts
    /\ baseCommit = NoCommit /\ lastCheckpoint = NoCommit
    /\ violations = {} /\ accepted = {} /\ loose = {}
    /\ left = TotalTimeout
    /\ attempt = 1 /\ failure = "modifier_failed" /\ terminalTimeoutKind = "none"
    /\ metadata = {}
    /\ outcome = "none" /\ deliverable = FALSE /\ finalCommit = NoCommit

Start ==
    /\ pc = "start"
    /\ pc' = "admit"
    /\ baseCommit' = repo.head /\ lastCheckpoint' = repo.head
    /\ left' = TotalTimeout
    /\ UNCHANGED <<repo, violations, accepted, attempt, failure, terminalTimeoutKind,
                   metadata, final, loose>>

\* The head of the loop: no attempt left, no time left, or a turn.
Admit ==
    /\ pc = "admit"
    /\ IF attempt > MaxAgentAttempts
         THEN pc' = "record" /\ UNCHANGED <<failure, terminalTimeoutKind>>
       ELSE IF left < MinTurn
         THEN /\ pc' = "record"
              /\ failure' = "timeout" /\ terminalTimeoutKind' = "total_deadline"
       ELSE pc' = "running" /\ UNCHANGED <<failure, terminalTimeoutKind>>
    /\ UNCHANGED <<repo, trust, left, attempt, metadata, final, loose>>

\* runTurn: the adapter's status and the timer that aborted the turn, if one did.
TurnEndings ==
    {"success", "error"} \X
        ({"none", "event_silence"} \union (IF left = 0 THEN {"total_deadline"} ELSE {}))

EndTurn(ending, r, leavesProcess) ==
    /\ pc = "running"
    /\ repo' = r
    /\ loose' = IF leavesProcess THEN loose \union {attempt} ELSE loose
    /\ IF ending = <<"success", "none">>
         THEN pc' = "inspect" /\ UNCHANGED <<failure, terminalTimeoutKind>>
         ELSE /\ pc' = "reset"
              /\ failure' = IF ending[2] = "none" THEN "modifier_failed" ELSE "timeout"
              /\ terminalTimeoutKind' = ending[2]
    /\ UNCHANGED <<trust, left, attempt, metadata, final>>

ResetCommitMutant == repo.head
\* The commit a failed attempt goes back to.
ResetCommit == baseCommit

Reset ==
    /\ pc = "reset"
    /\ pc' = "clean"
    /\ repo' = HardReset(repo, ResetCommit)
    /\ UNCHANGED <<trust, clock, metadata, final, loose>>

Clean ==
    /\ pc = "clean"
    /\ pc' = "admit"
    /\ repo' = RemoveFresh(repo)
    /\ attempt' = attempt + 1
    /\ UNCHANGED <<trust, left, failure, terminalTimeoutKind, metadata, final, loose>>

HeadMoved == repo.head # baseCommit

InspectHead ==
    /\ pc = "inspect"
    /\ pc' = "stage"
    /\ violations' = IF HeadMoved THEN violations \union {attempt} ELSE violations
    /\ UNCHANGED <<repo, baseCommit, lastCheckpoint, accepted, clock, metadata, final, loose>>

StageChanges ==
    /\ pc = "stage"
    /\ pc' = "decide"
    /\ repo' = StageAllExcept(repo)
    /\ UNCHANGED <<trust, clock, metadata, final, loose>>

\* An attempt without a change is repeated, and not rolled back; a diff that fails
\* counts as a change.  HEAD is not read again: what was seen at the inspection counts.
Decide ==
    /\ pc = "decide"
    /\ \/ /\ ~HasStagedChanges(repo) /\ attempt \notin violations
          /\ pc' = "admit"
          /\ failure' = "empty_patch"
          /\ attempt' = attempt + 1
          /\ UNCHANGED accepted
       \/ /\ pc' = "commit"
          /\ accepted' = {attempt}
          /\ UNCHANGED <<failure, attempt>>
    /\ UNCHANGED <<repo, baseCommit, lastCheckpoint, violations, left, terminalTimeoutKind,
                   metadata, final, loose>>

CommitCheckpoint ==
    /\ pc = "commit"
    /\ pc' = "mark"
    /\ repo' = IF HasStagedChanges(repo) THEN CommitIndex(repo, attempt) ELSE repo
    /\ UNCHANGED <<trust, clock, metadata, final, loose>>

MarkCheckpoint ==
    /\ pc = "mark"
    /\ pc' = "record"
    /\ lastCheckpoint' = repo.head
    /\ UNCHANGED <<repo, baseCommit, violations, accepted, clock, metadata, final, loose>>

Succeeded == accepted # {}

\* metadata.json, then finalize is given its outcome.
Record ==
    /\ pc = "record"
    /\ pc' = "finalize"
    /\ metadata' = {IF ~Succeeded /\ failure = "timeout" THEN terminalTimeoutKind ELSE "none"}
    /\ outcome' = IF Succeeded THEN "completed" ELSE failure
    /\ UNCHANGED <<repo, trust, clock, deliverable, finalCommit, loose>>

\* run(): an exception of execute().
InfrastructureFailure ==
    /\ pc \in ExecutePoints
    /\ pc' = "finalize"
    /\ outcome' = "infrastructure_failed"
    /\ UNCHANGED <<repo, trust, clock, metadata, deliverable, finalCommit, loose>>

\* finalize: before the base is known there is no commit and no patch.
Finalize ==
    /\ pc = "finalize"
    /\ pc' = "done"
    /\ finalCommit' = IF baseCommit = NoCommit THEN NoCommit ELSE repo.head
    /\ outcome' = IF outcome = "completed" /\ repo.head.tree = baseCommit.tree
                    THEN "empty_patch" ELSE outcome
    /\ deliverable' = (outcome' = "completed")
    /\ UNCHANGED <<repo, trust, clock, metadata, loose>>

\* It throws, or the patch does not apply to a clean base.
FinalizeFails ==
    /\ pc = "finalize"
    /\ pc' = "done"
    /\ finalCommit' \in {NoCommit, repo.head}
    /\ outcome' = "checkpoint_failed"
    /\ deliverable' = FALSE
    /\ UNCHANGED <<repo, trust, clock, metadata, loose>>

Elapse ==
    /\ pc # "done"
    /\ left > 0
    /\ left' = left - 1
    /\ UNCHANGED <<pc, repo, trust, attempt, failure, terminalTimeoutKind, metadata, final, loose>>

Stray ==
    /\ pc # "done"
    /\ \E t \in loose : repo' = StrayWrite(repo, t)
    /\ UNCHANGED <<pc, trust, clock, metadata, final, loose>>

Next ==
    \/ Start \/ Admit
    \/ \E ending \in TurnEndings, leavesProcess \in BOOLEAN :
         /\ leavesProcess => Cardinality(loose) < MaxLoose
         /\ \E r \in AgentEffects(repo, attempt) : EndTurn(ending, r, leavesProcess)
    \/ Reset \/ Clean \/ InspectHead \/ StageChanges \/ Decide
    \/ CommitCheckpoint \/ MarkCheckpoint \/ Record
    \/ Finalize \/ FinalizeFails
    \/ InfrastructureFailure
    \/ Elapse \/ Stray

Spec == Init /\ [][Next]_vars

-----------------------------------------------------------------------------
Done == pc = "done"

\* Every variable keeps its type.
TypeOK ==
    /\ pc \in ExecutePoints \union {"finalize", "done"}
    /\ repo \in Repository
    /\ {baseCommit, lastCheckpoint, finalCommit} \subseteq Commit \union {NoCommit}
    /\ left \in 0..TotalTimeout
    /\ attempt \in 1..(MaxAgentAttempts + 1)
    /\ violations \union accepted \union loose \subseteq 1..MaxAgentAttempts
    /\ failure \in Failures /\ terminalTimeoutKind \in TimeoutKinds
    /\ metadata \subseteq TimeoutKinds
    /\ outcome \in Failures \union {"none", "completed", "infrastructure_failed", "checkpoint_failed"}
    /\ deliverable \in BOOLEAN

\* What is delivered is the checkpoint, not empty, of the accepted attempt alone, and on
\* record if the agent made the commit.
DeliveryIsAccepted ==
    Done /\ deliverable =>
        /\ finalCommit = lastCheckpoint
        /\ finalCommit.tree # baseCommit.tree
        /\ finalCommit.tree \subseteq accepted \union loose \union {BaseFile}
        /\ finalCommit.by = "modifier" => finalCommit.turn \in violations

\* HEAD is collected whatever the outcome: of a run that failed by its agent it holds
\* nothing, however many attempts came to nothing in whatever way.
FailureExposesNothing ==
    Done /\ outcome \in Failures => finalCommit.tree = baseCommit.tree

\* The metadata names a timer just when the run ended by one.
TimeoutOfTheEnd ==
    Done /\ outcome \in Failures \union {"completed"} =>
        (metadata # {"none"} <=> outcome = "timeout")

\* What a single run says of itself is so.
SingleRunIsHonest == DeliveryIsAccepted /\ FailureExposesNothing /\ TimeoutOfTheEnd

=============================================================================

------------------------------ MODULE AgentTurn ------------------------------
(***************************************************************************)
(* One turn of an agent: CligentRunner.runTurn of agent-runner.ts and the  *)
(* process cleanup of turn-process-cleanup.ts.                             *)
(*                                                                         *)
(* runTurn consumes the adapter's event stream.  Four things can end it:   *)
(* the stream, the wall-clock timer, the silence timer, and a permission   *)
(* request nobody can answer.  The last three claim the abort; the first   *)
(* claim counts.  A claim leads to the capture of the turn's processes, an *)
(* abort signal to the adapter and a cleanup that runs beside the stream.  *)
(* The silence timer takes diagnostics first, which takes time.            *)
(*                                                                         *)
(* Node runs one callback at a time, so an action is what happens between  *)
(* two awaits; pc is the await of runTurn itself, watchdog and cleanup are *)
(* the two promises it started.  Processes fork and exit at any time.      *)
(* A pid is not used twice in a turn.                                      *)
(***************************************************************************)
EXTENDS Naturals, FiniteSets

CONSTANTS
    Pids,           \* the process ids of the container, the runtime's own aside
    Root,           \* the runtime, parent of what the adapter starts
    Reaper,         \* pid 1, the parent of orphans
    NoParent,       \* the parent of a pid that does not run
    WallKind,       \* request.wallClockTimeoutKind
    Opencode        \* the adapter is opencode: permission requests end the turn

ASSUME PidsAssumption ==
    /\ IsFiniteSet(Pids)
    /\ NoParent \notin {Root, Reaper}
    /\ {Root, Reaper, NoParent} \cap Pids = {}
ASSUME RequestAssumption ==
    WallKind \in {"total_deadline", "stage_timeout"} /\ Opencode \in BOOLEAN

VARIABLES
    pc,             \* where runTurn is
    abortReason, timeoutKind,   \* the claim
    aborted,        \* controller.abort() was called
    errorMessage,   \* whose message, "none" for null
    doneStatus,     \* of the last done event, "none" for null
    thrown,         \* the loop is being left by an exception of its body
    watchdog,       \* diagnosticPromise: idle, diagnosing or done
    earlierScope,   \* what the silence timer captured before the diagnostics
    cleanup,        \* processCleanupPromise
    baselinePids,   \* descendants when the turn began, not this turn's
    parent,         \* the process table
    fresh,          \* pids not used yet
    watched,        \* history: the turn's processes when the abort was claimed
    signalled       \* history: processes that were sent a signal

claimVars   == <<abortReason, timeoutKind, watched>>
reportVars  == <<errorMessage, doneStatus, thrown>>
processVars == <<parent, fresh>>
vars == <<pc, claimVars, aborted, reportVars, watchdog, earlierScope, cleanup, baselinePids,
          processVars, signalled>>

TimerKinds == {"event_silence", WallKind}
NoScope == [pids |-> {}, failed |-> FALSE]
IdleCleanup == [stage |-> "idle", captured |-> {}, survivors |-> {}, errors |-> FALSE]

(***************************************************************************)
(* Processes                                                               *)
(***************************************************************************)

Running == {p \in Pids : parent[p] # NoParent}

\* selectTurnDescendants: the least set of running processes that holds the
\* children of the runtime and the children of its members.
Descendants ==
    LET closed(S) == \A p \in Running : parent[p] \in S \union {Root} => p \in S
    IN  {p \in Running : \A S \in SUBSET Running : closed(S) => p \in S}

\* captureTurnProcessScope: `ps` may fail, and then nothing is captured.
Capture(excluded) ==
    {[pids |-> Descendants \ excluded, failed |-> FALSE], [pids |-> {}, failed |-> TRUE]}

MergeScopesMutant(first, second) == second
MergeScopes(first, second) ==
    [pids |-> first.pids \union second.pids, failed |-> first.failed \/ second.failed]

\* A process that exits leaves its children to the reaper.
WithoutProcesses(gone) ==
    [p \in Pids |-> IF p \in gone THEN NoParent
                    ELSE IF parent[p] \in gone THEN Reaper ELSE parent[p]]

Init ==
    /\ pc = "start"
    /\ abortReason = "none" /\ timeoutKind = "none" /\ aborted = FALSE
    /\ errorMessage = "none" /\ doneStatus = "none" /\ thrown = FALSE
    /\ watchdog = "idle" /\ earlierScope = NoScope /\ cleanup = IdleCleanup
    /\ baselinePids = {}
    /\ \E leftover \in SUBSET Pids :
         /\ Cardinality(leftover) <= 1
         /\ parent = [p \in Pids |-> IF p \in leftover THEN Root ELSE NoParent]
         /\ fresh = Pids \ leftover
    /\ watched = {} /\ signalled = {}

\* What runs when the turn begins is not its own.
Start ==
    /\ pc = "start"
    /\ pc' = "streaming"
    /\ \E scope \in Capture({}) : baselinePids' = scope.pids
    /\ UNCHANGED <<claimVars, aborted, reportVars, watchdog, earlierScope, cleanup,
                   processVars, signalled>>

(***************************************************************************)
(* Claiming and aborting                                                   *)
(***************************************************************************)

\* The first claim wins.
ClaimAbort(reason, kind) ==
    /\ abortReason = "none"
    /\ abortReason' = reason
    /\ timeoutKind' = kind
    /\ watched' = Descendants \ baselinePids

\* cleanupTurnProcessScope is over at once if none of the captured processes runs.
CleanupOf(scope) ==
    [stage |-> IF scope.pids \cap Running = {} THEN "finished" ELSE "grace",
     captured |-> scope.pids, survivors |-> {}, errors |-> scope.failed]

BeginAbortCleanupMutant(earlier) ==
    /\ aborted' = aborted
    /\ IF cleanup.stage # "idle"
         THEN UNCHANGED cleanup
         ELSE \E latest \in Capture(baselinePids) :
                cleanup' = CleanupOf(MergeScopes(earlier, latest))

\* Capture again, signal the adapter, and start the cleanup, once.
BeginAbortCleanup(earlier) ==
    /\ aborted' = TRUE
    /\ IF cleanup.stage # "idle"
         THEN UNCHANGED cleanup
         ELSE \E latest \in Capture(baselinePids) :
                cleanup' = CleanupOf(MergeScopes(earlier, latest))

\* The timers are armed until the stream is left.
TimersArmed == pc \in {"streaming", "closing"}

WallTimer ==
    /\ TimersArmed
    /\ ClaimAbort(WallKind, WallKind)
    /\ errorMessage' = WallKind
    /\ BeginAbortCleanup(NoScope)
    /\ UNCHANGED <<pc, doneStatus, thrown, watchdog, earlierScope, baselinePids, processVars,
                   signalled>>

\* Claim and capture, then take diagnostics; the abort comes after them.
SilenceTimer ==
    /\ TimersArmed
    /\ ClaimAbort("event_silence", "event_silence")
    /\ earlierScope' \in Capture(baselinePids)
    /\ watchdog' = "diagnosing"
    /\ UNCHANGED <<pc, aborted, reportVars, cleanup, baselinePids, processVars, signalled>>

\* The diagnostics are taken or have failed, which is the same for the turn.
DiagnosticsDone ==
    /\ watchdog = "diagnosing"
    /\ watchdog' = "done"
    /\ errorMessage' = "event_silence"
    /\ BeginAbortCleanup(earlierScope)
    /\ UNCHANGED <<pc, claimVars, doneStatus, thrown, earlierScope, baselinePids, processVars,
                   signalled>>

(***************************************************************************)
(* The event stream                                                        *)
(***************************************************************************)

\* An event is written to the sink, which may throw: the loop is then left, and the
\* stream closed, before the exception reaches the catch.
SinkThrows ==
    /\ pc = "streaming"
    /\ pc' = "closing"
    /\ thrown' = TRUE
    /\ UNCHANGED <<claimVars, aborted, errorMessage, doneStatus, watchdog, earlierScope,
                   cleanup, baselinePids, processVars, signalled>>

ErrorEventMutant ==
    /\ pc = "streaming"
    /\ errorMessage' = "adapter"
    /\ UNCHANGED <<pc, claimVars, aborted, doneStatus, thrown, watchdog, earlierScope, cleanup,
                   baselinePids, processVars, signalled>>

\* An adapter's error counts only while nobody has claimed the abort.
ErrorEvent ==
    /\ pc = "streaming"
    /\ abortReason = "none"
    /\ errorMessage' = "adapter"
    /\ UNCHANGED <<pc, claimVars, aborted, doneStatus, thrown, watchdog, earlierScope, cleanup,
                   baselinePids, processVars, signalled>>

DoneEvent(status) ==
    /\ pc = "streaming"
    /\ doneStatus' = status
    /\ UNCHANGED <<pc, claimVars, aborted, errorMessage, thrown, watchdog, earlierScope,
                   cleanup, baselinePids, processVars, signalled>>

PermissionStatus == "error"

\* startAbortCleanup: claim if nobody has, then abort and clean up; then break.
PermissionRequest ==
    /\ pc = "streaming"
    /\ Opencode
    /\ pc' = "closing"
    /\ errorMessage' = "permission"
    /\ doneStatus' = PermissionStatus
    /\ \/ ClaimAbort("permission_request", "none") /\ BeginAbortCleanup(NoScope)
       \/ abortReason # "none" /\ aborted' = TRUE /\ UNCHANGED <<claimVars, cleanup>>
    /\ UNCHANGED <<thrown, watchdog, earlierScope, baselinePids, processVars, signalled>>

\* The stream ends, or throws: only the first exception without a message before it
\* leaves one.
StreamEnds ==
    /\ pc = "streaming"
    /\ pc' = "finally"
    /\ errorMessage' \in {errorMessage, IF errorMessage = "none" THEN "exception" ELSE errorMessage}
    /\ UNCHANGED <<claimVars, aborted, doneStatus, thrown, watchdog, earlierScope, cleanup,
                   baselinePids, processVars, signalled>>

\* The stream is closed after a break (closing may throw) or an exception.
StreamCloses ==
    /\ pc = "closing"
    /\ pc' = "finally"
    /\ \E throws \in {thrown, TRUE} :
         errorMessage' = IF throws /\ errorMessage = "none" THEN "exception" ELSE errorMessage
    /\ UNCHANGED <<claimVars, aborted, doneStatus, thrown, watchdog, earlierScope, cleanup,
                   baselinePids, processVars, signalled>>

AwaitDiagnosticsMutant ==
    /\ pc = "finally"
    /\ pc' = "cleanup"
    /\ UNCHANGED <<claimVars, aborted, reportVars, watchdog, earlierScope, cleanup,
                   baselinePids, processVars, signalled>>

\* finally: clear the timers, wait for the diagnostics, then for the cleanup.
AwaitDiagnostics ==
    /\ pc = "finally"
    /\ watchdog # "diagnosing"
    /\ pc' = "cleanup"
    /\ UNCHANGED <<claimVars, aborted, reportVars, watchdog, earlierScope, cleanup,
                   baselinePids, processVars, signalled>>

Return ==
    /\ pc = "cleanup"
    /\ cleanup.stage \in {"idle", "finished"}
    /\ pc' = "returned"
    /\ UNCHANGED <<claimVars, aborted, reportVars, watchdog, earlierScope, cleanup,
                   baselinePids, processVars, signalled>>

\* What runTurn returns.
status == IF doneStatus = "none" THEN "error" ELSE doneStatus
ok == status = "success" /\ abortReason = "none"

(***************************************************************************)
(* cleanupTurnProcessScope                                                 *)
(***************************************************************************)

\* Send a signal to the captured processes that still run.  Some of them end; some
\* ignore it, or may not be signalled, which is recorded as an error or not.
Signal(stage, next) ==
    /\ cleanup.stage = stage
    /\ \E gone \in SUBSET (cleanup.captured \cap Running), failed \in {cleanup.errors, TRUE} :
         /\ parent' = WithoutProcesses(gone)
         /\ cleanup' = [cleanup EXCEPT !.stage = next, !.errors = failed]
    /\ signalled' = signalled \union (cleanup.captured \cap Running)
    /\ UNCHANGED <<pc, claimVars, aborted, reportVars, watchdog, earlierScope, baselinePids,
                   fresh>>

Term == Signal("grace", "kill")
Kill == Signal("kill", "reap")

\* What still runs is reported.
Reap ==
    /\ cleanup.stage = "reap"
    /\ cleanup' = [cleanup EXCEPT !.stage = "finished",
                                  !.survivors = cleanup.captured \cap Running]
    /\ UNCHANGED <<pc, claimVars, aborted, reportVars, watchdog, earlierScope, baselinePids,
                   processVars, signalled>>

(***************************************************************************)
(* The agent's processes                                                   *)
(***************************************************************************)

Fork(p) ==
    /\ pc # "returned"
    /\ p \in fresh
    /\ \E q \in Running \union (IF TimersArmed THEN {Root} ELSE {}) :
         parent' = [parent EXCEPT ![p] = q]
    /\ fresh' = fresh \ {p}
    /\ UNCHANGED <<pc, claimVars, aborted, reportVars, watchdog, earlierScope, cleanup,
                   baselinePids, signalled>>

Exit(p) ==
    /\ pc # "returned"
    /\ p \in Running
    /\ parent' = WithoutProcesses({p})
    /\ UNCHANGED <<pc, claimVars, aborted, reportVars, watchdog, earlierScope, cleanup,
                   baselinePids, fresh, signalled>>

Stream == SinkThrows \/ ErrorEvent \/ (\E s \in {"success", "error"} : DoneEvent(s))
              \/ PermissionRequest \/ StreamEnds \/ StreamCloses
Runtime == Start \/ WallTimer \/ SilenceTimer \/ DiagnosticsDone \/ AwaitDiagnostics \/ Return
               \/ Term \/ Kill \/ Reap
Processes == \E p \in Pids : Fork(p) \/ Exit(p)

Next == Stream \/ Runtime \/ Processes

Spec == Init /\ [][Next]_vars

\* Timers fire, diagnostics and cleanup run on timeouts of their own, and an adapter
\* that was told to abort ends its stream.
FairSpec ==
    /\ Spec
    /\ WF_vars(Start) /\ WF_vars(WallTimer) /\ WF_vars(DiagnosticsDone)
    /\ WF_vars(AwaitDiagnostics) /\ WF_vars(Return)
    /\ WF_vars(Term) /\ WF_vars(Kill) /\ WF_vars(Reap)
    /\ WF_vars(aborted /\ StreamEnds) /\ WF_vars(aborted /\ StreamCloses)

(***************************************************************************)
(* Properties                                                              *)
(***************************************************************************)

Scope == [pids : SUBSET Pids, failed : BOOLEAN]

\* The type invariant of the turn.
TypeOK ==
    /\ pc \in {"start", "streaming", "closing", "finally", "cleanup", "returned"}
    /\ abortReason \in {"none", "permission_request"} \union TimerKinds
    /\ timeoutKind \in {"none"} \union TimerKinds
    /\ aborted \in BOOLEAN /\ thrown \in BOOLEAN
    /\ errorMessage \in {"none", "adapter", "exception", "permission"} \union TimerKinds
    /\ doneStatus \in {"none", "success", "error"}
    /\ watchdog \in {"idle", "diagnosing", "done"}
    /\ earlierScope \in Scope
    /\ cleanup \in [stage : {"idle", "grace", "kill", "reap", "finished"},
                    captured : SUBSET Pids, survivors : SUBSET Pids, errors : BOOLEAN]
    /\ baselinePids \subseteq Pids
    /\ parent \in [Pids -> Pids \union {Root, Reaper, NoParent}]
    /\ fresh \subseteq Pids /\ watched \subseteq Pids /\ signalled \subseteq Pids

Returned == pc = "returned"

\* A turn that was aborted leaves none of the processes it had when the abort was
\* claimed, but for those the cleanup reports as survivors and unless it reports an
\* error: also the ones that were orphaned while the diagnostics were taken.
NothingForgotten ==
    Returned /\ abortReason # "none" =>
        cleanup.errors \/ watched \cap Running \subseteq cleanup.survivors

\* When runTurn has returned nothing it started still runs: the engine may reset the
\* working tree without the cleanup or the diagnostics racing it.
QuietAfterReturn ==
    Returned => watchdog # "diagnosing" /\ cleanup.stage \in {"idle", "finished"}

\* The engine reads ok, timedOut and timeoutKind as one ending: a turn is good exactly
\* when the adapter says success and no timer cut it short.  An adapter's success can
\* neither hide an abort, nor a permission request look like a success.
EndingIsConsistent ==
    Returned => (ok <=> status = "success" /\ timeoutKind = "none")

\* The message of a turn that a timer cut short is the timer's: what the adapter says
\* when it is aborted never takes its place (a permission request may).
TimeoutIsNamed ==
    Returned /\ timeoutKind # "none" =>
        errorMessage = timeoutKind \/ (errorMessage = "permission" /\ Opencode)

\* The cleanup signals no process that was there before the turn.
BaselineSpared == signalled \cap baselinePids = {}

\* The cleanup reaches exactly what the turn started: none of it is forgotten, nothing
\* older is signalled.
CleanupIsExact == NothingForgotten /\ BaselineSpared

\* What the engine is told about the end of a turn is one story.
EndIsReported == EndingIsConsistent /\ TimeoutIsNamed

\* The first claim stands, whatever fires after it.
FirstClaimStands ==
    [][abortReason # "none" => UNCHANGED <<abortReason, timeoutKind>>]_vars

\* A turn returns: by its stream, or by its wall-clock timer.
TurnReturns == <>Returned

(***************************************************************************)
(* The inductive invariant the proofs use                                  *)
(***************************************************************************)

\* Where the three promises are with respect to each other.
PromiseInv ==
    /\ abortReason = "none" =>
         timeoutKind = "none" /\ watchdog = "idle" /\ cleanup.stage = "idle"
    /\ abortReason # "none" => watchdog = "diagnosing" \/ cleanup.stage # "idle"
    /\ watchdog = "diagnosing" => cleanup.stage = "idle" /\ timeoutKind = "event_silence"
    /\ pc \in {"cleanup", "returned"} => watchdog # "diagnosing"
    /\ Returned => cleanup.stage \in {"idle", "finished"}
    /\ pc = "start" => abortReason = "none"

\* What the claim means for what is returned.
ClaimInv ==
    /\ abortReason \in TimerKinds => timeoutKind = abortReason
    /\ abortReason = "permission_request" =>
         timeoutKind = "none" /\ doneStatus = "error" /\ pc # "streaming"
    /\ timeoutKind # "none" /\ watchdog # "diagnosing" =>
         errorMessage = timeoutKind \/ (errorMessage = "permission" /\ Opencode)

\* The processes of the moment of the claim are captured, or gone for good.
WatchInv ==
    /\ \A p \in fresh : parent[p] = NoParent
    /\ watched \cap fresh = {}
    /\ watchdog = "diagnosing" /\ ~earlierScope.failed => watched \subseteq earlierScope.pids
    /\ cleanup.stage \in {"grace", "kill", "reap"} /\ ~cleanup.errors =>
         watched \cap Running \subseteq cleanup.captured
    /\ cleanup.stage = "finished" /\ ~cleanup.errors =>
         watched \cap Running \subseteq cleanup.survivors

\* Nothing of the baseline is ever captured.
BaselineInv ==
    /\ pc = "start" => earlierScope.pids = {} /\ cleanup.captured = {} /\ signalled = {}
    /\ earlierScope.pids \cap baselinePids = {}
    /\ cleanup.captured \cap baselinePids = {}
    /\ BaselineSpared

TurnInv == TypeOK /\ PromiseInv /\ ClaimInv /\ WatchInv /\ BaselineInv

=============================================================================

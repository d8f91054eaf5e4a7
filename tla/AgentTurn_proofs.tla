-------------------------- MODULE AgentTurn_proofs --------------------------
(***************************************************************************)
(* The safety of one agent turn, for any set of processes: TurnInv is      *)
(* inductive, and the properties of AgentTurn follow from it.              *)
(***************************************************************************)
EXTENDS AgentTurn, TLAPS

(***************************************************************************)
(* Operators                                                               *)
(***************************************************************************)

\* Descendants are running processes, and so is all that a capture returns.
LEMMA CaptureRuns ==
    ASSUME NEW excluded, NEW scope \in Capture(excluded)
    PROVE  /\ scope \in [pids : SUBSET Running, failed : BOOLEAN]
           /\ scope.pids \cap excluded = {}
           /\ ~scope.failed => scope.pids = Descendants \ excluded
           /\ Descendants \subseteq Running
<1>1. Descendants \subseteq Running
  BY DEF Descendants
<1>2. CASE scope = [pids |-> Descendants \ excluded, failed |-> FALSE]
  <2>1. scope.pids = Descendants \ excluded /\ scope.failed = FALSE
    BY <1>2
  <2>2. scope \in [pids : SUBSET Running, failed : BOOLEAN]
    BY <1>1, <1>2
  <2>. QED
    BY <1>1, <2>1, <2>2
<1>3. CASE scope = [pids |-> {}, failed |-> TRUE]
  BY <1>1, <1>3
<1>. QED
  BY <1>2, <1>3 DEF Capture

\* Processes that go leave every other process running.
LEMMA WithoutRuns ==
    ASSUME TypeOK, NEW gone \in SUBSET Pids
    PROVE  /\ WithoutProcesses(gone) \in [Pids -> Pids \union {Root, Reaper, NoParent}]
           /\ \A p \in Pids : parent[p] = NoParent => WithoutProcesses(gone)[p] = NoParent
BY PidsAssumption DEF WithoutProcesses, TypeOK

\* What a cleanup is when it begins.
LEMMA CleanupBegins ==
    ASSUME TypeOK, NEW earlier \in Scope, BeginAbortCleanup(earlier), cleanup.stage = "idle"
    PROVE  /\ cleanup'.stage \in {"grace", "finished"}
           /\ cleanup'.captured \in SUBSET Pids
           /\ cleanup' = [stage |-> cleanup'.stage, captured |-> cleanup'.captured,
                          survivors |-> {}, errors |-> cleanup'.errors]
           /\ cleanup'.errors \in BOOLEAN
           /\ cleanup'.stage = "finished" => cleanup'.captured \cap Running = {}
           /\ ~cleanup'.errors =>
                /\ ~earlier.failed
                /\ earlier.pids \subseteq cleanup'.captured
                /\ Descendants \ baselinePids \subseteq cleanup'.captured
           /\ earlier.pids \cap baselinePids = {} => cleanup'.captured \cap baselinePids = {}
           /\ aborted' = TRUE
<1>1. PICK latest \in Capture(baselinePids) : cleanup' = CleanupOf(MergeScopes(earlier, latest))
  BY DEF BeginAbortCleanup
<1>2. /\ latest \in [pids : SUBSET Running, failed : BOOLEAN]
      /\ latest.pids \cap baselinePids = {}
      /\ ~latest.failed => latest.pids = Descendants \ baselinePids
  BY CaptureRuns
<1>3. Running \subseteq Pids
  BY DEF Running
<1>. QED
  BY <1>1, <1>2, <1>3 DEF CleanupOf, MergeScopes, Scope, BeginAbortCleanup

(***************************************************************************)
(* The initial state                                                       *)
(***************************************************************************)

LEMMA InitTurnInv == Init => TurnInv
<1>. SUFFICES ASSUME Init PROVE TurnInv
  OBVIOUS
<1>1. PICK leftover \in SUBSET Pids :
        /\ parent = [p \in Pids |-> IF p \in leftover THEN Root ELSE NoParent]
        /\ fresh = Pids \ leftover
  BY DEF Init
<1>2. TypeOK
  BY <1>1 DEF Init, TypeOK, Scope, NoScope, IdleCleanup
<1>3. WatchInv
  BY <1>1 DEF Init, WatchInv, IdleCleanup
<1>4. PromiseInv /\ ClaimInv /\ BaselineInv
  BY RequestAssumption DEF Init, PromiseInv, ClaimInv, BaselineInv, BaselineSpared, IdleCleanup,
     NoScope, TimerKinds, Returned
<1>. QED
  BY <1>2, <1>3, <1>4 DEF TurnInv

(***************************************************************************)
(* The steps, one group of actions at a time                               *)
(***************************************************************************)

LEMMA StartStep == TurnInv /\ Start => TurnInv'
<1>. SUFFICES ASSUME TurnInv, Start PROVE TurnInv'
  OBVIOUS
<1>1. PICK scope \in Capture({}) : baselinePids' = scope.pids
  BY DEF Start
<1>2. scope.pids \subseteq Pids
  BY <1>1, CaptureRuns DEF Running
<1>3. TypeOK'
  BY <1>1, <1>2 DEF Start, TurnInv, TypeOK, claimVars, reportVars, processVars
<1>4. WatchInv'
  BY DEF Start, TurnInv, WatchInv, Running, claimVars, reportVars, processVars
<1>5. PromiseInv' /\ ClaimInv'
  BY RequestAssumption
  DEF Start, TurnInv, PromiseInv, ClaimInv, Returned, TimerKinds, claimVars, reportVars
<1>6. BaselineInv'
  BY DEF Start, TurnInv, BaselineInv, BaselineSpared
<1>. QED
  BY <1>3, <1>4, <1>5, <1>6 DEF TurnInv

\* The wall-clock timer, or a permission request that claims the abort: claim and
\* capture in one step.
LEMMA ClaimAndCaptureStep ==
    ASSUME TurnInv, NEW reason, NEW kind,
           \/ reason = WallKind /\ kind = WallKind /\ errorMessage' = WallKind
                /\ UNCHANGED <<pc, doneStatus>> /\ TimersArmed
           \/ reason = "permission_request" /\ kind = "none" /\ errorMessage' = "permission"
                /\ pc = "streaming" /\ pc' = "closing" /\ doneStatus' = "error",
           ClaimAbort(reason, kind), BeginAbortCleanup(NoScope),
           UNCHANGED <<thrown, watchdog, earlierScope, baselinePids, processVars, signalled>>
    PROVE  TurnInv'
<1>. USE DEF TurnInv
<1>0. cleanup.stage = "idle" /\ watchdog = "idle" /\ abortReason = "none" /\ pc # "start"
  BY DEF PromiseInv, ClaimAbort, TimersArmed
<1>1. NoScope \in Scope
  BY DEF NoScope, Scope
<1>2. /\ cleanup'.stage \in {"grace", "finished"}
      /\ cleanup'.captured \in SUBSET Pids
      /\ cleanup' = [stage |-> cleanup'.stage, captured |-> cleanup'.captured,
                     survivors |-> {}, errors |-> cleanup'.errors]
      /\ cleanup'.errors \in BOOLEAN
      /\ cleanup'.stage = "finished" => cleanup'.captured \cap Running = {}
      /\ ~cleanup'.errors => Descendants \ baselinePids \subseteq cleanup'.captured
      /\ cleanup'.captured \cap baselinePids = {}
      /\ aborted' = TRUE
  BY <1>0, <1>1, CleanupBegins DEF NoScope
<1>3. Descendants \subseteq Running /\ Running \subseteq Pids
  BY DEF Descendants, Running
<1>4. TypeOK'
  BY <1>2, <1>3, RequestAssumption
  DEF TypeOK, ClaimAbort, TimerKinds, TimersArmed, processVars
<1>5. PromiseInv'
  BY <1>0, <1>2, RequestAssumption DEF PromiseInv, ClaimAbort, Returned, TimersArmed
<1>6. ClaimInv'
  BY <1>0, RequestAssumption DEF ClaimInv, ClaimAbort, TimerKinds, TimersArmed, TypeOK
<1>7. WatchInv'
  <2>1. watched' = Descendants \ baselinePids
    BY DEF ClaimAbort
  <2>2. Running' = Running /\ \A p \in Running : p \notin fresh
    BY DEF Running, WatchInv, processVars
  <2>. QED
    BY <1>0, <1>2, <1>3, <2>1, <2>2 DEF WatchInv, processVars
<1>8. BaselineInv'
  BY <1>0, <1>2 DEF BaselineInv, BaselineSpared, TimersArmed
<1>. QED
  BY <1>4, <1>5, <1>6, <1>7, <1>8

LEMMA SilenceStep == TurnInv /\ SilenceTimer => TurnInv'
<1>. SUFFICES ASSUME TurnInv, SilenceTimer PROVE TurnInv'
  OBVIOUS
<1>. USE DEF TurnInv, SilenceTimer
<1>0. cleanup.stage = "idle" /\ watchdog = "idle" /\ abortReason = "none" /\ pc # "start"
  BY DEF PromiseInv, ClaimAbort, TimersArmed
<1>1. /\ earlierScope' \in [pids : SUBSET Running, failed : BOOLEAN]
      /\ earlierScope'.pids \cap baselinePids = {}
      /\ ~earlierScope'.failed => earlierScope'.pids = Descendants \ baselinePids
      /\ Descendants \subseteq Running
  BY CaptureRuns
<1>2. Running \subseteq Pids
  BY DEF Running
<1>3. TypeOK'
  BY <1>1, <1>2 DEF TypeOK, Scope, ClaimAbort, TimerKinds, reportVars, processVars
<1>4. PromiseInv'
  BY <1>0 DEF PromiseInv, ClaimAbort, Returned, TimersArmed
<1>5. ClaimInv'
  BY RequestAssumption DEF ClaimInv, ClaimAbort, TimerKinds
<1>6. WatchInv'
  BY <1>0, <1>1 DEF WatchInv, ClaimAbort, Running, processVars
<1>7. BaselineInv'
  BY <1>0, <1>1 DEF BaselineInv, BaselineSpared
<1>. QED
  BY <1>3, <1>4, <1>5, <1>6, <1>7

LEMMA DiagnosticsStep == TurnInv /\ DiagnosticsDone => TurnInv'
<1>. SUFFICES ASSUME TurnInv, DiagnosticsDone PROVE TurnInv'
  OBVIOUS
<1>. USE DEF TurnInv, DiagnosticsDone
<1>0. cleanup.stage = "idle" /\ timeoutKind = "event_silence" /\ abortReason # "none"
  BY DEF PromiseInv
<1>1. earlierScope \in Scope /\ earlierScope.pids \cap baselinePids = {}
  BY DEF TypeOK, BaselineInv
<1>2. /\ cleanup'.stage \in {"grace", "finished"}
      /\ cleanup'.captured \in SUBSET Pids
      /\ cleanup' = [stage |-> cleanup'.stage, captured |-> cleanup'.captured,
                     survivors |-> {}, errors |-> cleanup'.errors]
      /\ cleanup'.errors \in BOOLEAN
      /\ cleanup'.stage = "finished" => cleanup'.captured \cap Running = {}
      /\ ~cleanup'.errors => ~earlierScope.failed /\ earlierScope.pids \subseteq cleanup'.captured
      /\ cleanup'.captured \cap baselinePids = {}
      /\ aborted' = TRUE
  BY <1>0, <1>1, CleanupBegins
<1>3. TypeOK'
  BY <1>2 DEF TypeOK, TimerKinds, claimVars, processVars
<1>4. PromiseInv'
  BY <1>0, <1>2 DEF PromiseInv, Returned, claimVars
<1>5. ClaimInv'
  BY <1>0 DEF ClaimInv, claimVars
<1>6. WatchInv'
  BY <1>2 DEF WatchInv, Running, claimVars, processVars
<1>7. BaselineInv'
  BY <1>0, <1>2 DEF BaselineInv, BaselineSpared, PromiseInv
<1>. QED
  BY <1>3, <1>4, <1>5, <1>6, <1>7

\* The steps that only move the stream or report.
QuietStep ==
    \/ SinkThrows \/ ErrorEvent \/ (\E s \in {"success", "error"} : DoneEvent(s))
    \/ StreamEnds \/ StreamCloses \/ AwaitDiagnostics \/ Return
    \/ /\ PermissionRequest
       /\ abortReason # "none" /\ aborted' = TRUE /\ UNCHANGED <<claimVars, cleanup>>

LEMMA QuietSteps == TurnInv /\ QuietStep => TurnInv'
<1>. SUFFICES ASSUME TurnInv, QuietStep PROVE TurnInv'
  OBVIOUS
<1>. USE DEF TurnInv, QuietStep, SinkThrows, ErrorEvent, DoneEvent, StreamEnds, StreamCloses,
             AwaitDiagnostics, Return, PermissionRequest, PermissionStatus
<1>1. UNCHANGED <<claimVars, watchdog, earlierScope, cleanup, baselinePids, processVars, signalled>>
  OBVIOUS
<1>2. TypeOK'
  <2>1. /\ errorMessage' \in {"none", "adapter", "exception", "permission"} \union TimerKinds
        /\ pc' \in {"start", "streaming", "closing", "finally", "cleanup", "returned"}
        /\ doneStatus' \in {"none", "success", "error"}
        /\ aborted' \in BOOLEAN /\ thrown' \in BOOLEAN
    BY DEF TypeOK, reportVars
  <2>. QED
    BY <1>1, <2>1 DEF TypeOK, claimVars, processVars
<1>3. PromiseInv'
  BY <1>1 DEF PromiseInv, Returned, claimVars
<1>4. ClaimInv'
  BY <1>1, RequestAssumption DEF ClaimInv, PromiseInv, TypeOK, TimerKinds, claimVars, reportVars
<1>5. WatchInv'
  BY <1>1 DEF WatchInv, Running, claimVars, processVars
<1>6. BaselineInv'
  BY <1>1 DEF BaselineInv, BaselineSpared
<1>. QED
  BY <1>2, <1>3, <1>4, <1>5, <1>6

LEMMA PermissionStep == TurnInv /\ PermissionRequest => TurnInv'
<1>. SUFFICES ASSUME TurnInv, PermissionRequest PROVE TurnInv'
  OBVIOUS
<1>1. CASE ClaimAbort("permission_request", "none") /\ BeginAbortCleanup(NoScope)
  BY <1>1, ClaimAndCaptureStep DEF PermissionRequest, PermissionStatus
<1>2. CASE abortReason # "none" /\ aborted' = TRUE /\ UNCHANGED <<claimVars, cleanup>>
  BY <1>2, QuietSteps DEF QuietStep
<1>. QED
  BY <1>1, <1>2 DEF PermissionRequest

LEMMA SignalStep == TurnInv /\ (Term \/ Kill) => TurnInv'
<1>. SUFFICES ASSUME TurnInv, NEW stage \in {"grace", "kill"}, NEW next \in {"kill", "reap"},
                     Signal(stage, next)
              PROVE  TurnInv'
  BY DEF Term, Kill
<1>. USE DEF TurnInv
<1>1. PICK gone \in SUBSET (cleanup.captured \cap Running), failed \in {cleanup.errors, TRUE} :
        /\ parent' = WithoutProcesses(gone)
        /\ cleanup' = [cleanup EXCEPT !.stage = next, !.errors = failed]
  BY DEF Signal
<1>2. gone \in SUBSET Pids
  BY <1>1 DEF Running
<1>3. /\ parent' \in [Pids -> Pids \union {Root, Reaper, NoParent}]
      /\ \A p \in Pids : parent[p] = NoParent => parent'[p] = NoParent
  BY <1>1, <1>2, WithoutRuns
<1>4. Running' \subseteq Running
  BY <1>3 DEF Running
<1>5. /\ cleanup.stage = stage
      /\ cleanup'.stage = next /\ cleanup'.captured = cleanup.captured
      /\ cleanup'.survivors = cleanup.survivors
      /\ cleanup'.errors = failed
      /\ cleanup' \in [stage : {"idle", "grace", "kill", "reap", "finished"},
                       captured : SUBSET Pids, survivors : SUBSET Pids, errors : BOOLEAN]
  BY <1>1 DEF Signal, TypeOK
<1>6. UNCHANGED <<pc, claimVars, aborted, reportVars, watchdog, earlierScope, baselinePids, fresh>>
  BY DEF Signal
<1>7. signalled' = signalled \union (cleanup.captured \cap Running)
  BY DEF Signal
<1>8. TypeOK'
  BY <1>3, <1>5, <1>6, <1>7 DEF TypeOK, Running, claimVars, reportVars
<1>9. PromiseInv'
  BY <1>5, <1>6 DEF PromiseInv, Returned, claimVars
<1>10. ClaimInv'
  BY <1>6 DEF ClaimInv, claimVars, reportVars
<1>11. WatchInv'
  BY <1>3, <1>4, <1>5, <1>6 DEF WatchInv, TypeOK, claimVars
<1>12. BaselineInv'
  BY <1>5, <1>6, <1>7 DEF BaselineInv, BaselineSpared, PromiseInv
<1>. QED
  BY <1>8, <1>9, <1>10, <1>11, <1>12

LEMMA ReapStep == TurnInv /\ Reap => TurnInv'
<1>. SUFFICES ASSUME TurnInv, Reap PROVE TurnInv'
  OBVIOUS
<1>. USE DEF TurnInv, Reap
<1>1. /\ cleanup'.stage = "finished" /\ cleanup'.captured = cleanup.captured
      /\ cleanup'.survivors = cleanup.captured \cap Running
      /\ cleanup'.errors = cleanup.errors
      /\ cleanup' \in [stage : {"idle", "grace", "kill", "reap", "finished"},
                       captured : SUBSET Pids, survivors : SUBSET Pids, errors : BOOLEAN]
  BY DEF TypeOK, Running
<1>2. TypeOK'
  BY <1>1 DEF TypeOK, claimVars, reportVars, processVars
<1>3. PromiseInv' /\ ClaimInv'
  BY <1>1 DEF PromiseInv, ClaimInv, Returned, claimVars, reportVars
<1>4. WatchInv'
  BY <1>1 DEF WatchInv, Running, claimVars, processVars
<1>5. BaselineInv'
  BY <1>1 DEF BaselineInv, BaselineSpared
<1>. QED
  BY <1>2, <1>3, <1>4, <1>5

LEMMA ProcessStep == TurnInv /\ Processes => TurnInv'
<1>. SUFFICES ASSUME TurnInv, NEW p \in Pids, Fork(p) \/ Exit(p) PROVE TurnInv'
  BY DEF Processes
<1>. USE DEF TurnInv
<1>1. UNCHANGED <<pc, claimVars, aborted, reportVars, watchdog, earlierScope, cleanup,
                  baselinePids, signalled>>
  BY DEF Fork, Exit
<1>2. /\ parent' \in [Pids -> Pids \union {Root, Reaper, NoParent}]
      /\ fresh' \subseteq fresh
      /\ \A q \in fresh' : parent'[q] = NoParent
      /\ Running' \cap watched \subseteq Running
  <2>1. CASE Fork(p)
    <3>1. PICK q \in Running \union {Root} : parent' = [parent EXCEPT ![p] = q]
      BY <2>1 DEF Fork
    <3>. QED
      BY <2>1, <3>1 DEF Fork, TypeOK, WatchInv, Running
  <2>2. CASE Exit(p)
    <3>1. /\ parent' \in [Pids -> Pids \union {Root, Reaper, NoParent}]
          /\ \A q \in Pids : parent[q] = NoParent => parent'[q] = NoParent
      BY <2>2, WithoutRuns DEF Exit
    <3>. QED
      BY <2>2, <3>1 DEF Exit, TypeOK, WatchInv, Running
  <2>. QED
    BY <2>1, <2>2
<1>3. TypeOK'
  BY <1>1, <1>2 DEF TypeOK, claimVars, reportVars
<1>4. PromiseInv' /\ ClaimInv'
  BY <1>1 DEF PromiseInv, ClaimInv, Returned, claimVars, reportVars
<1>5. WatchInv'
  BY <1>1, <1>2 DEF WatchInv, claimVars
<1>6. BaselineInv'
  BY <1>1 DEF BaselineInv, BaselineSpared
<1>. QED
  BY <1>3, <1>4, <1>5, <1>6

LEMMA TurnStep == TurnInv /\ [Next]_vars => TurnInv'
<1>. SUFFICES ASSUME TurnInv, [Next]_vars PROVE TurnInv'
  OBVIOUS
<1>1. CASE WallTimer
  BY <1>1, ClaimAndCaptureStep DEF WallTimer
<1>2. CASE QuietStep
  BY <1>2, QuietSteps
<1>3. CASE UNCHANGED vars
  BY <1>3 DEF vars, TurnInv, TypeOK, PromiseInv, ClaimInv, WatchInv, BaselineInv, BaselineSpared,
     Running, Returned, claimVars, reportVars, processVars
<1>. QED
  BY <1>1, <1>2, <1>3, StartStep, SilenceStep, DiagnosticsStep, PermissionStep, SignalStep,
     ReapStep, ProcessStep
  DEF Next, Stream, Runtime, QuietStep

(***************************************************************************)
(* Theorems                                                                *)
(***************************************************************************)

\* The inductive invariant holds in every turn.
THEOREM TurnInvariance == Spec => []TurnInv
BY InitTurnInv, TurnStep, PTL DEF Spec

\* Every variable keeps its type.
THEOREM TurnTypeCorrect == Spec => []TypeOK
<1>1. TurnInv => TypeOK
  BY DEF TurnInv
<1>. QED
  BY <1>1, TurnInvariance, PTL

\* An aborted turn forgets none of its processes (agent-runner.ts 212-334 and the
\* cleanup), whatever forks, exits and becomes an orphan meanwhile.
THEOREM NothingForgottenHolds == Spec => []NothingForgotten
<1>1. TurnInv => NothingForgotten
  BY DEF TurnInv, PromiseInv, WatchInv, NothingForgotten, Returned
<1>. QED
  BY <1>1, TurnInvariance, PTL

\* runTurn returns after its diagnostics and its cleanup (the finally block).
THEOREM QuietAfterReturnHolds == Spec => []QuietAfterReturn
<1>1. TurnInv => QuietAfterReturn
  BY DEF TurnInv, PromiseInv, QuietAfterReturn, Returned
<1>. QED
  BY <1>1, TurnInvariance, PTL

\* ok, status and timeoutKind of the returned record agree.
THEOREM EndingIsConsistentHolds == Spec => []EndingIsConsistent
<1>1. TurnInv => EndingIsConsistent
  BY RequestAssumption
  DEF TurnInv, TypeOK, PromiseInv, ClaimInv, EndingIsConsistent, Returned, ok, status, TimerKinds
<1>. QED
  BY <1>1, TurnInvariance, PTL

\* The message of a timed-out turn is the timer's.
THEOREM TimeoutIsNamedHolds == Spec => []TimeoutIsNamed
<1>1. TurnInv => TimeoutIsNamed
  BY DEF TurnInv, PromiseInv, ClaimInv, TimeoutIsNamed, Returned
<1>. QED
  BY <1>1, TurnInvariance, PTL

\* No process from before the turn is signalled.
THEOREM BaselineSparedHolds == Spec => []BaselineSpared
<1>1. TurnInv => BaselineSpared
  BY DEF TurnInv, BaselineInv
<1>. QED
  BY <1>1, TurnInvariance, PTL

\* The cleanup signals and accounts for what the turn started, and nothing else.
THEOREM CleanupIsExactHolds == Spec => []CleanupIsExact
<1>1. NothingForgotten /\ BaselineSpared => CleanupIsExact
  BY DEF CleanupIsExact
<1>. QED
  BY <1>1, NothingForgottenHolds, BaselineSparedHolds, PTL

\* The returned record tells one ending.
THEOREM EndIsReportedHolds == Spec => []EndIsReported
<1>1. EndingIsConsistent /\ TimeoutIsNamed => EndIsReported
  BY DEF EndIsReported
<1>. QED
  BY <1>1, EndingIsConsistentHolds, TimeoutIsNamedHolds, PTL

\* The first claim is never replaced.
THEOREM FirstClaimStandsHolds == Spec => FirstClaimStands
<1>1. [Next]_vars => [abortReason # "none" => UNCHANGED <<abortReason, timeoutKind>>]_vars
  BY DEF Next, Stream, Runtime, Processes, Start, WallTimer, SilenceTimer, DiagnosticsDone,
     AwaitDiagnostics, Return, Term, Kill, Signal, Reap, SinkThrows, ErrorEvent, DoneEvent,
     PermissionRequest, StreamEnds, StreamCloses, Fork, Exit, ClaimAbort, claimVars
<1>. QED
  BY <1>1, PTL DEF Spec, FirstClaimStands
=============================================================================

-------------------------- MODULE EngineDiscovery ---------------------------
(***************************************************************************)
(* The review loop writes a trial directory, and scoring reads it later,   *)
(* in another program: DirectEngine composed with PatchDiscovery.  Scan is *)
(* discover_trial_patches on what the loop left; Pier collected HEAD as    *)
(* artifacts/model.patch in between.                                       *)
(***************************************************************************)
EXTENDS DirectEngine

CONSTANT Vanishing   \* what may have gone when a trial is scored

VARIABLES
    trail,   \* history: the trees of the successive trusted checkpoints
    torn,    \* history: an exception ended the run, or its finalize failed
    lost,    \* what is missing from the directory when it is scanned
    found    \* what discovery made of it

Discovery == INSTANCE PatchDiscovery WITH EmptyPatch <- RootCommit.tree

ASSUME VanishingAssumption == Vanishing \subseteq Discovery!Fields

discoveryVars == <<trail, torn, lost, found>>
allVars == <<vars, discoveryVars>>

NotScanned == [verdict |-> "not scanned", stages |-> <<>>, completed |-> FALSE]

DInit ==
    /\ Init
    /\ trail = <<>> /\ torn = FALSE
    /\ lost = {} /\ found = NotScanned

\* A round directory: its number, its kind, its metadata and the reviewer's patch.
RoundDir(i) ==
    LET r == rounds[i] IN
    [number |-> i - 1, kind |-> r.kind, patch |-> r.patch, last |-> r.meta,
     role |-> CASE r.meta = "none" -> "none"
                [] r.meta # "none" /\ r.kind = "review" -> "reviewer"
                [] OTHER -> "modifier"]

\* The diff of HEAD against the base: what Pier collects, and what finalize wrote
\* unless it failed first.
Trial(missing, finalWritten) ==
    [missing |-> missing,
     outcome |-> result.outcome, degraded |-> result.degradedReason # "none",
     reviewCount |-> reviewCount, revisionCount |-> revisionCount,
     checkpoints |-> Cardinality(checkpoints),
     rounds |-> [i \in DOMAIN rounds |-> RoundDir(i)],
     final |-> IF finalWritten THEN {repo.head.tree} ELSE {},
     model |-> {repo.head.tree}]

\* The loop goes on, and the history with it.
Work ==
    /\ Next
    /\ trail' = IF pc = "mark" /\ lastCheckpoint' # lastCheckpoint
                  THEN Append(trail, lastCheckpoint'.tree) ELSE trail
    /\ torn' = (torn \/ InfrastructureFailure \/ (FinalizeFails /\ result'.outcome = "checkpoint_failed"))
    /\ UNCHANGED <<lost, found>>

\* The task directory, say, may have gone since.
Scan ==
    /\ pc = "done"
    /\ found = NotScanned
    /\ lost' \in SUBSET Vanishing
    /\ \E finalWritten \in {TRUE} \union (IF result.finalCommit = NoCommit THEN {FALSE} ELSE {}) :
         found' = Discovery!Discover(Trial(lost', finalWritten))
    /\ UNCHANGED <<vars, trail, torn>>

DNext == Work \/ Scan

DSpec == DInit /\ [][DNext]_allVars

\* The loop is as fair as alone; nothing obliges anyone to score a trial.
DFairSpec == DSpec /\ WF_vars(Progress)

(***************************************************************************)
(* Properties                                                              *)
(***************************************************************************)

Scanned == found # NotScanned /\ lost = {}
Accepted == Scanned /\ found.verdict = "eligible"

\* s is t told with repetitions: every element of t, in order, each one or more times.
Retells(s, t) ==
    \E at \in [DOMAIN s -> DOMAIN t] :
        /\ at[1] = 1 /\ at[Len(s)] = Len(t)
        /\ \A i \in 1..(Len(s) - 1) : at[i + 1] \in {at[i], at[i] + 1}
        /\ \A i \in DOMAIN s : s[i] = {t[at[i]]}

\* The stages that are scored are the trusted checkpoints in the order the loop made
\* them, whether the loop ended with a review, with a revision, with a revision that
\* changed nothing or with a failed turn: no stage is skipped or swapped, and one that is
\* repeated is a checkpoint that stayed.
StagesFollowCheckpoints ==
    Accepted /\ ~torn =>
        Retells([i \in DOMAIN found.stages |-> found.stages[i].patch], trail)

\* A run that comes to a deliverable end with something to deliver (a strict run may have
\* degraded with nothing) is accepted, whatever failed, was retried or timed out in it,
\* if a review began on a patch that was not empty, no exception was thrown, the agents
\* left HEAD alone, and no adapter claimed success for a turn a timer had cut short.
RegularRunAccepted ==
    Scanned /\ ~torn /\ violations = {}
      /\ result.outcome \in DELIVERABLE_OUTCOMES /\ repo.head.tree # RootCommit.tree =>
        \/ found.verdict = "eligible"
        \/ \A i \in DOMAIN rounds : rounds[i].kind # "review"
        \/ \E i \in DOMAIN rounds : rounds[i].patch = {RootCommit.tree}
        \/ rounds[Len(rounds)].timeoutKind # "none" /\ rounds[Len(rounds)].meta = "success"

\* A trial left out of the pairs delivered nothing.
IneligibleDeliveredNothing ==
    Scanned /\ found.verdict = "ineligible" =>
        /\ ~result.deliverable
        /\ repo.head.tree = RootCommit.tree

\* An accepted trial counts as a completed protocol exactly if the loop came to a
\* regular end: the last review it needed was valid and no revision was cut short.
CompletedIsRegularEnd ==
    Accepted => (found.completed <=> result.degradedReason = "none" /\ turnOk)

\* Scoring reads what the loop left as what it was: the run is taken for a run, its
\* checkpoints for its stages, its end for its end.
ScanIsFaithful == RegularRunAccepted /\ StagesFollowCheckpoints /\ CompletedIsRegularEnd
=============================================================================

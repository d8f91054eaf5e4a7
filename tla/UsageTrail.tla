----------------------------- MODULE UsageTrail -----------------------------
(***************************************************************************)
(* The two trails one trial leaves of what its turns used.  The engine     *)
(* adds every turn to a bucket of its role and writes the buckets into     *)
(* summary.json at the end; the turns' events go into events.jsonl as they *)
(* come.  After the run the Pier agent fills the trial's context from the  *)
(* summary, converts the events into a trajectory, and lets the            *)
(* trajectory's totals stand (direct-engine.ts, agent-runner.ts, atif.py,  *)
(* populate_context_post_run).                                             *)
(***************************************************************************)
EXTENDS Accounting

CONSTANTS
  LastReview, LastAttempt,  \* of the workflow
  MostTurns,                \* bound of the model: turns until the deadline passes
  Reports,                  \* what the done event of a turn may report
  SilentTurns,              \* whether a turn may end before its first event
  KeepsSession              \* answers of the adapter to a resume: the session's id is kept

ASSUME ReportsAssumption == Reports \subseteq TurnReport
\* A plan with reviews has at least one (planning.py), and a turn is tried at least once.
ASSUME WorkflowAssumption == LastReview \in Nat \ {0} /\ LastAttempt \in Nat \ {0}

VARIABLES
  stage, round, try,        \* where the workflow is
  turns,                    \* history: [role, report] of every turn that ended
  buckets,                  \* role -> bucket
  session, sessions,        \* the modifier's session; sessions opened so far
  log,                      \* events.jsonl: [label, session, done, report]
  summary,                  \* summary.json: the buckets, or Missing
  context,                  \* what the trial reports: [input, steps, coverage]
  at                        \* "working", "finished", "summary read", "done"

trailVars == <<stage, round, try, turns, buckets, session, sessions, log, summary, context, at>>

TurnRoles == {"modifier", "reviewer"}
TurnRole(s) == IF s = "review" THEN "reviewer" ELSE "modifier"

\* The label of a turn: the kind or the review's round, and the attempt.
Label(s, r, a) == <<s, IF s = "review" THEN r ELSE 0, a>>

Unfilled == [input |-> Missing, steps |-> 0, coverage |-> "unavailable"]

TrailInit ==
  /\ stage = "modify" /\ round = 0 /\ try = 1
  /\ turns = <<>>
  /\ buckets = [r \in TurnRoles |-> EmptyBucket]
  /\ session = 0 /\ sessions = 0
  /\ log = <<>>
  /\ summary = Missing
  /\ context = Unfilled
  /\ at = "working"

-----------------------------------------------------------------------------
\* Where the workflow goes after a turn that was accepted, and the end.
AfterOk ==
  CASE stage = "modify" -> {<<"review", 1>>}
    [] stage = "review" -> {<<IF round = LastReview THEN "final-revision" ELSE "revise", round>>}
    [] stage = "revise" -> {<<"review", round + 1>>}
    [] OTHER -> {}

\* A turn of the stage ends: with the events it logged (none, some but no done
\* event, or a done event with a report) and in the session it ran in.  A
\* modifier's turn resumes the session, a reviewer's opens one.
RecordTurn(logged, report, s) ==
  LET label == Label(stage, round, try)
  IN /\ turns' = Append(turns, [role |-> TurnRole(stage), report |-> report])
     /\ buckets' = [buckets EXCEPT ![TurnRole(stage)] = AddTurn(@, report)]
     /\ log' = IF logged = "nothing" THEN log
               ELSE Append(log, [label |-> label, session |-> s,
                                 done |-> logged = "done", report |-> report])
     /\ session' = IF stage = "review" THEN session ELSE s
     /\ sessions' = IF s > sessions THEN s ELSE sessions

EndSomeTurn ==
  /\ at = "working" /\ stage # "end"
  /\ \E logged \in {"done", "opened", "nothing"} :
     \E report \in IF logged = "done" THEN Reports ELSE {NoReport} :
     \E kept \in IF stage = "review" \/ session = 0 THEN {FALSE} ELSE KeepsSession :
       /\ logged = "nothing" => SilentTurns
       /\ RecordTurn(logged, report, IF kept THEN session ELSE sessions + 1)
  /\ \/ /\ Len(turns) + 1 < MostTurns
        /\ \E next \in AfterOk : stage' = next[1] /\ round' = next[2] /\ try' = 1
     \/ /\ Len(turns) + 1 < MostTurns /\ try < LastAttempt
        /\ try' = try + 1 /\ UNCHANGED <<stage, round>>
     \/ stage' = "end" /\ UNCHANGED <<round, try>>
  /\ UNCHANGED <<summary, context, at>>

\* The runtime writes the summary; or Pier's timeout or a crash ends it first,
\* in the middle of the workflow.
WriteSummary ==
  /\ at = "working" /\ stage = "end"
  /\ summary' = buckets
  /\ at' = "finished"
  /\ UNCHANGED <<stage, round, try, turns, buckets, session, sessions, log, context>>

Killed ==
  /\ at = "working"
  /\ at' = "finished"
  /\ UNCHANGED <<stage, round, try, turns, buckets, session, sessions, log, summary, context>>

-----------------------------------------------------------------------------
(* populate_context_post_run, first half.                                   *)

\* Roles that had no turn do not count.
ActiveRoles == {r \in TurnRoles : summary[r].turns > 0}

SummaryComplete == \A r \in ActiveRoles : CompleteTokens(summary[r])
SummaryInput ==
  IF summary = Missing THEN Missing
  ELSE IF ActiveRoles = {} \/ ~SummaryComplete THEN Missing
  ELSE SumFunctionOnSet([r \in TurnRoles |-> summary[r].input], ActiveRoles)

ReadSummary ==
  /\ at = "finished"
  /\ at' = "summary read"
  /\ context' = [context EXCEPT !.input = SummaryInput]
  /\ UNCHANGED <<stage, round, try, turns, buckets, session, sessions, log, summary>>

-----------------------------------------------------------------------------
(* events_to_trajectory.                                                    *)

\* _turns: events with one label and one session are one turn; its metrics are those
\* of the last done event.
KeyOf(i) == <<log[i].label, log[i].session>>
TurnKeys == {KeyOf(i) : i \in DOMAIN log}
EventsOfSessionMutant(key) == {i \in DOMAIN log : log[i].session = key[2]}
EventsOf(key) == {i \in DOMAIN log : KeyOf(i) = key}
LastDone(key) ==
  LET done == {i \in EventsOf(key) : log[i].done}
  IN CHOOSE i \in done : \A j \in done : j <= i
StepMetrics ==
  [key \in TurnKeys |->
     IF \E i \in EventsOf(key) : log[i].done THEN log[LastDone(key)].report ELSE NoReport]

\* The final metrics; a total only when every step is complete.
TrajectoryTotal ==
  IF AllComplete(StepMetrics, TurnKeys) THEN SumFunction(Tokens(StepMetrics)) ELSE Missing
TrajectoryObserved == SumKnown(Tokens(StepMetrics))

\* Second half: without events the summary's numbers stay.
ReadEvents ==
  /\ at = "summary read"
  /\ at' = "done"
  /\ context' = IF log = <<>> THEN context
                ELSE [input |-> TrajectoryTotal, steps |-> Cardinality(TurnKeys),
                      coverage |-> ReportsCoverage(StepMetrics)]
  /\ UNCHANGED <<stage, round, try, turns, buckets, session, sessions, log, summary>>

TrailDone == at = "done" /\ UNCHANGED trailVars

TrailNext == EndSomeTurn \/ WriteSummary \/ Killed \/ ReadSummary \/ ReadEvents \/ TrailDone

TrailSpec == TrailInit /\ [][TrailNext]_trailVars

-----------------------------------------------------------------------------
(* What was really used.                                                    *)
AllReports == Each(turns, LAMBDA t : t.report)
ReallyComplete == AllComplete(AllReports, DOMAIN turns)
\* Of the turns that reported it.
ReallyUsed == SumFunctionOnSet(Tokens(AllReports), Known(Tokens(AllReports)))

\* Every variable keeps its type.
TrailTypeOK ==
  /\ stage \in {"modify", "review", "revise", "final-revision", "end"}
  /\ round \in 0..LastReview /\ try \in 1..LastAttempt
  /\ \A i \in DOMAIN turns : turns[i].role \in TurnRoles /\ turns[i].report \in TurnReport
  /\ \A r \in TurnRoles : buckets[r].turns = Cardinality({i \in DOMAIN turns : turns[i].role = r})
  /\ session \in 0..sessions /\ sessions \in 0..Len(turns)
  /\ Len(log) <= Len(turns)
  /\ summary = Missing \/ summary = buckets
  /\ at \in {"working", "finished", "summary read", "done"}

\* Two programs in two languages add up the same turns: whenever token_usage.py finds
\* a role's reports complete, its total is the one the runtime accumulated, and both
\* find the same coverage and the same reported cost.
RuntimeAgreesWithReport ==
  \A r \in TurnRoles :
    LET again == Account(buckets[r].reports, Each(buckets[r].reports, NativeResolution))
    IN /\ again.tokenCoverage = buckets[r].coverage
       /\ again.input # Missing => again.input = buckets[r].input
       /\ again.reported = buckets[r].cost
       /\ again.costCoverage = buckets[r].costCoverage

\* A total read from the summary is the whole: every turn of the trial reported all its
\* tokens, and they are all in it.
SummaryTotalIsWhole ==
  at = "summary read" /\ context.input # Missing =>
    ReallyComplete /\ context.input = ReallyUsed

\* The total the trial reports in the end is the whole: "without treating partial totals
\* as complete" (usage.py).
ContextTotalIsWhole ==
  at = "done" /\ context.input # Missing => ReallyComplete /\ context.input = ReallyUsed

\* The turns of two rounds may carry one label, and a resumed session makes them one
\* turn to the trajectory; a turn that logged nothing is none.
TurnsAreToldApart ==
  \A i, j \in DOMAIN log :
    log[i].label = log[j].label /\ log[i].session = log[j].session => i = j
EveryTurnIsLogged == Len(log) = Len(turns)

\* The trajectory never has tokens that no turn reported, and counts none twice.
TrajectoryIsWithinUse == TrajectoryObserved = Missing \/ TrajectoryObserved <= ReallyUsed

\* What the runtime, the Pier agent and the trajectory call the total of a trial is the
\* whole of it, in every one of the places that add it up (usage.ts, usage.py, atif.py);
\* the last one only while it sees all turns and can tell them apart.
TrialTotalsAreWhole ==
  /\ RuntimeAgreesWithReport
  /\ SummaryTotalIsWhole
  /\ TurnsAreToldApart /\ EveryTurnIsLogged => ContextTotalIsWhole
  /\ TrajectoryIsWithinUse
=============================================================================

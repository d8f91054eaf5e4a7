----------------------------- MODULE MCSequential -----------------------------
(***************************************************************************)
(* The smaller programs: the plan of an evaluation, a trial of one agent   *)
(* alone, the token trail of one trial, the token report of a job, the     *)
(* pair statistics of a scored job, the selection of tasks from public     *)
(* results.  They share no state, so a behaviour is one of them, and the   *)
(* variables of the others stand still.                                    *)
(***************************************************************************)
EXTENDS EvalInputs, SingleEngine, TaskSelection, UsageTrail, UsageReport, PairStats

CONSTANT Parts   \* the programs looked at

VARIABLE part   \* whose behaviour it is

allVars == <<part, vars, planVars, trailVars, reportVars, pairVars, selectVars>>

-----------------------------------------------------------------------------
\* One agent that may do anything to git.

AllHabits == {"edit", "add", "commit", "commit-fresh", "rewind"}

-----------------------------------------------------------------------------
\* One trial: reports that are complete, partial and without cost, without tokens.

SomeReports ==
  {[tokens |-> 1, coverage |-> "complete", cost |-> 0],
   [tokens |-> 2, coverage |-> "partial", cost |-> Missing],
   [tokens |-> Missing, coverage |-> "unavailable", cost |-> 1]}

-----------------------------------------------------------------------------
\* Jobs of up to two trials with two roles: trials without a result, without usage,
\* without a turn, with a slot too few; turns that report their tokens in full, in part
\* or not at all, with and without a cost.

Silent == [tokens |-> Missing, coverage |-> "unavailable", cost |-> Missing]
RolePrice == [r \in {"modifier", "reviewer"} |-> IF r = "modifier" THEN 1 ELSE 10]

Turns ==
  {[tokens |-> 1, coverage |-> "complete", cost |-> 0],
   [tokens |-> 2, coverage |-> "complete", cost |-> Missing],
   [tokens |-> 3, coverage |-> "partial", cost |-> Missing],
   Silent}
Reported(reports) == [turns |-> Len(reports), reports |-> reports]
Specs ==
  {Reported(<<>>)} \union {Reported(<<a>>) : a \in Turns} \union {Reported(<<a, b>>) : a, b \in Turns}

Sounds ==
  {[result |-> TRUE, roles |-> [r \in {"modifier", "reviewer"} |-> IF r = "modifier" THEN m ELSE v]]
     : m \in Specs, v \in {Reported(<<>>)} \union {Reported(<<a>>) : a \in Turns}}
Others ==
  {[result |-> TRUE, roles |-> Missing],
   [result |-> FALSE, roles |-> [r \in {"modifier"} |-> Reported(<<Silent>>)]],
   [result |-> TRUE, roles |-> [r \in {"modifier"} |->
      [turns |-> 2, reports |-> <<[tokens |-> 1, coverage |-> "complete", cost |-> 0]>>]]]}

\* (TLC evaluates a definition once, but what a CONSTANT is replaced by at every use.)
JobsOfUsage == {<<>>} \union {<<a>> : a \in Sounds \union Others}
               \union {<<a, b>> : a, b \in Sounds \union Others}
UsageJobs == JobsOfUsage

-----------------------------------------------------------------------------
Scored(r) == [known |-> TRUE, reward |-> r]
Unscored == [known |-> FALSE, reward |-> 0]
Stage == {Scored(0), Scored(1), Unscored}
Outcome(stages, changed) == [stages |-> stages, changed |-> changed]

\* Two stages in all combinations, and trials with a revision in between: one undone,
\* one that only helped later, one without a score, one that changed nothing, and a final
\* patch whose score is the evaluation's own and another than that of its equal.
MixedOutcomes ==
    {Outcome(<<a, b>>, <<TRUE, TRUE>>) : a \in Stage, b \in Stage}
    \union {Outcome(<<a, a>>, <<TRUE, FALSE>>) : a \in Stage}
    \union {Outcome(<<Scored(0), m, z>>, <<TRUE, TRUE, TRUE>>) : m \in Stage, z \in {Scored(0), Scored(1)}}
    \union {Outcome(<<Scored(0), Scored(0), Scored(1)>>, <<TRUE, FALSE, TRUE>>),
            Outcome(<<Scored(0), Scored(1), Scored(1)>>, <<TRUE, TRUE, FALSE>>),
            Outcome(<<Scored(1), Scored(0)>>, <<TRUE, FALSE>>)}

TrialOf(task, found, conformance, completed) ==
    [task |-> task, stages |-> found.stages, changed |-> found.changed,
     conformance |-> conformance, completed |-> completed]
MixedTrials ==
    {TrialOf(k, o, c, b) : k \in {"k1", "k2"}, o \in MixedOutcomes,
                           c \in {"matched", "mismatched"}, b \in BOOLEAN}

\* Pairs that count for or against the review.
Discordant ==
    {TrialOf("k1", Outcome(s, <<TRUE, TRUE>>), "skipped", TRUE) :
       s \in {<<Scored(0), Scored(1)>>, <<Scored(1), Scored(0)>>}}

\* Up to two trials of two tasks; up to five trials of one whose reward changed.
JobsOfPairs ==
    {<<>>} \union {<<a>> : a \in MixedTrials} \union {<<a, b>> : a, b \in MixedTrials}
    \union UNION {[1..n -> Discordant] : n \in 3..5}
PairJobs == JobsOfPairs

-----------------------------------------------------------------------------
\* Four configurations of three models; five tasks.
PublicConfigs == {"c1", "c2", "c3", "c4"}
PublicModelOf ==
  [c \in PublicConfigs |-> IF c = "c1" THEN "m1" ELSE IF c = "c4" THEN "m3" ELSE "m2"]
PublicTasks == 1..5
RunThresholds ==
  [coverage |-> 17, allModels |-> 18, repeats |-> 2, errorRate |-> 34, timeouts |-> 1,
   broad |-> <<20, 80>>, core |-> <<30, 70>>, lowMax |-> 25, highMin |-> 75,
   broadLow |-> 1, broadHigh |-> 1, coreLow |-> 1, coreHigh |-> 1]

CellOf(n, p, o, v) == [counted |-> n, passed |-> p, others |-> o, timeouts |-> v]
AllPassed == CellOf(2, 2, 0, 0)
NonePassed == CellOf(3, 0, 0, 0)
Cells == {AllPassed, NonePassed, CellOf(2, 1, 1, 0), CellOf(1, 1, 2, 2), CellOf(0, 0, 0, 0)}

\* Layers: the results of one task vary, the others are too easy.
EasyRow == [c \in PublicConfigs |-> IF c = "c1" THEN NonePassed ELSE AllPassed]
LayersTables ==
  {[t \in PublicTasks |-> IF t = 1 THEN row ELSE EasyRow] : row \in [PublicConfigs -> Cells]}
Plain == [language |-> 1, repository |-> 1, patch |-> 1, rank |-> 0, correlated |-> TRUE]
LayersPortfolios ==
  {[t \in PublicTasks |-> [Plain EXCEPT !.correlated = t = 1 => yes]] : yes \in BOOLEAN}

\* Samples: all five tasks are in the core, hard or medium by their number.
CoreRow(t) ==
  [c \in PublicConfigs |->
     IF c = "c1" THEN NonePassed
     ELSE IF c = "c4" THEN (IF t % 2 = 0 THEN CellOf(2, 1, 0, 0) ELSE CellOf(9, 1, 0, 0))
     ELSE AllPassed]
CoreTable == [t \in PublicTasks |-> CoreRow(t)]
FirstUses(n) ==
  {f \in [PublicTasks -> 1..n] : \A t \in PublicTasks : f[t] > 1 => \E u \in 1..t-1 : f[u] = f[t] - 1}
CorePortfolios ==
  {[t \in PublicTasks |-> [language |-> ls[t], repository |-> rs[t], patch |-> 1 + (t \div 3),
                          rank |-> IF t <= 2 THEN 1 ELSE 0, correlated |-> TRUE]]
     : ls \in FirstUses(2), rs \in FirstUses(4)}

PublicTables == LayersTables \union {CoreTable}
PublicPortfolios == LayersPortfolios \union CorePortfolios
PublicExclusions == {{}, {"m1"}, {"m2"}}
Forwards == [t \in PublicTasks |-> t]
BothOrders == {Forwards, [t \in PublicTasks |-> Cardinality(PublicTasks) + 1 - t]}

LayersInput == table \in LayersTables /\ portfolio \in LayersPortfolios /\ size = 1 /\ jitter = Forwards
SamplesInput == table = CoreTable /\ portfolio \in CorePortfolios /\ excluded = {}

-----------------------------------------------------------------------------
\* A program that is not looked at stays in an initial state, since the properties are
\* checked in all states.
PlanIdle == request = PlainLine /\ registry = Good /\ login = TRUE
SingleIdle == repo.work = {}
SelectIdle ==
    /\ table = CoreTable /\ portfolio = [t \in PublicTasks |-> Plain] /\ excluded = {}
    /\ size = 1 /\ jitter = Forwards

MCInit ==
    /\ part \in Parts
    /\ Init
    /\ part # "single" => SingleIdle
    /\ PlanInit
    /\ part # "plan" => PlanIdle
    /\ TrailInit
    /\ part # "report" => job = <<>>
    /\ ReportInit
    /\ part # "pairs" => scoredJob = <<>>
    /\ PairsInit
    /\ part = "layers" => LayersInput
    /\ part = "samples" => SamplesInput
    /\ part \notin {"layers", "samples"} => SelectIdle
    /\ SelectInit

MCNext ==
    /\ UNCHANGED part
    /\ \/ part = "plan" /\ PlanNext /\ UNCHANGED <<vars, trailVars, reportVars, pairVars, selectVars>>
       \/ part = "single" /\ Next /\ UNCHANGED <<planVars, trailVars, reportVars, pairVars, selectVars>>
       \/ part = "trail" /\ TrailNext /\ UNCHANGED <<vars, planVars, reportVars, pairVars, selectVars>>
       \/ part = "report" /\ ReportNext /\ UNCHANGED <<vars, planVars, trailVars, pairVars, selectVars>>
       \/ part = "pairs" /\ PairsNext /\ UNCHANGED <<vars, planVars, trailVars, reportVars, selectVars>>
       \/ part \in {"layers", "samples"} /\ SelectNext
            /\ UNCHANGED <<vars, planVars, trailVars, reportVars, pairVars>>

MCSpec == MCInit /\ [][MCNext]_allVars

-----------------------------------------------------------------------------
(***************************************************************************)
(* Properties: those of the modules, each for the part it is about.        *)
(***************************************************************************)

\* Every variable keeps its type.
TypesOK ==
    PlanTypeOK /\ TypeOK /\ TrailTypeOK /\ ReportTypeOK /\ PairsTypeOK /\ SelectTypeOK
=============================================================================

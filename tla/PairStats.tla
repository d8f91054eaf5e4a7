------------------------------ MODULE PairStats ------------------------------
(***************************************************************************)
(* The statistics of patch_scoring.py over the pairs of a job: the rows of *)
(* the pair table are added one trial at a time (the loop of               *)
(* score_patch_job), then _pair_stats tallies them, mcnemar_exact_p tests  *)
(* the discordant pairs, and task_clustered_bootstrap_ci draws its         *)
(* resamples.                                                              *)
(*                                                                         *)
(* A fraction is a record [num, den], NoNumber for None; the rounding to   *)
(* six digits at the very end is left out.                                 *)
(***************************************************************************)
EXTENDS Integers, Sequences, FiniteSets, FiniteSetsExt, Functions

CONSTANTS
    ScoredJobs,   \* the jobs: a sequence of scored trials
    Iterations    \* _BOOTSTRAP_ITERATIONS

\* A stage has a reward of 0 or 1, or none.
StageScore == [known : BOOLEAN, reward : {0, 1}]
\* [task, stages, changed, conformance, completed]; a trial has its initial stage, and a
\* stage says whether its patch differs from the one of the stage before.
IsScored(trial) ==
    /\ trial.stages \in Seq(StageScore) /\ trial.stages # <<>>
    /\ trial.changed \in Seq(BOOLEAN) /\ Len(trial.changed) = Len(trial.stages)
    /\ trial.completed \in BOOLEAN
ASSUME ScoredAssumption ==
    /\ \A j \in ScoredJobs :
         j = [k \in 1..Len(j) |-> j[k]] /\ Len(j) \in Nat /\ \A k \in 1..Len(j) : IsScored(j[k])
    /\ Iterations \in Nat \ {0}

NoNumber == [num |-> 0, den |-> 0]
Fraction(a, b) == IF b = 0 THEN NoNumber ELSE [num |-> a, den |-> b]
FractionAtMost(p, q) == p.num * q.den <= q.num * p.den

VARIABLES
    scoredJob,   \* the trials and their scores, never changed
    pairs,       \* pairs.jsonl: the rows of the pair table
    scoring,     \* "tables", "resampling" or "done"
    means        \* the means drawn so far

pairVars == <<scoredJob, pairs, scoring, means>>

-----------------------------------------------------------------------------
\* One row.

Delta(a, b) == IF a.known /\ b.known THEN [known |-> TRUE, reward |-> b.reward - a.reward]
                                     ELSE [known |-> FALSE, reward |-> 0]

Class(delta) ==
    CASE ~delta.known -> "incomplete"
      [] delta.known /\ delta.reward > 0 -> "improved"
      [] delta.known /\ delta.reward < 0 -> "harmed"
      [] OTHER -> "unchanged"

\* The change each stage made against its parent, where the patch changed and both
\* scores are there.
RevisionDeltas(stages, changed) ==
    [i \in {j \in 2..Len(stages) : changed[j] /\ stages[j].known /\ stages[j - 1].known} |->
       Delta(stages[i - 1], stages[i]).reward]

PairRow(trial) ==
    LET first == trial.stages[1]
        last == trial.stages[Len(trial.stages)]
        delta == Delta(first, last) IN
    [task |-> trial.task, initial |-> first, final |-> last, delta |-> delta,
     class |-> Class(delta),
     itt |-> delta.known /\ trial.conformance \in {"matched", "skipped"},
     completed |-> trial.completed,
     revisions |-> RevisionDeltas(trial.stages, trial.changed)]

\* The primary analysis, and the subset of it whose protocol completed: rows by number.
IntentionToTreat == {i \in DOMAIN pairs : pairs[i].itt}
CompletedProtocol == {i \in IntentionToTreat : pairs[i].completed}

-----------------------------------------------------------------------------
\* _pair_stats

Complete(rows) == {i \in rows : pairs[i].delta.known}
Passed(stage) == stage.reward = 1
InitialPass(rows) == {i \in rows : Passed(pairs[i].initial)}
FinalPass(rows) == {i \in rows : Passed(pairs[i].final)}
Classed(rows, class) == {i \in rows : pairs[i].class = class}
FailedBoth(rows) == {i \in rows : ~Passed(pairs[i].initial) /\ ~Passed(pairs[i].final)}
PassedBoth(rows) == {i \in rows : Passed(pairs[i].initial) /\ Passed(pairs[i].final)}

Deltas == [i \in DOMAIN pairs |-> pairs[i].delta.reward]

TallyOf(rows) ==
    LET complete == Complete(rows) IN
    [pairs |-> Cardinality(rows), complete |-> Cardinality(complete),
     initialPass |-> Cardinality(InitialPass(complete)),
     finalPass |-> Cardinality(FinalPass(complete)),
     improved |-> Cardinality(Classed(complete, "improved")),
     harmed |-> Cardinality(Classed(complete, "harmed")),
     unchanged |-> Cardinality(Classed(complete, "unchanged")),
     failedBoth |-> Cardinality(FailedBoth(complete)),
     passedBoth |-> Cardinality(PassedBoth(complete)),
     meanDelta |-> Fraction(SumFunctionOnSet(Deltas, complete), Cardinality(complete))]

\* math.comb: how many ways there are to choose k of n.
Ways(n, k) == Cardinality(kSubset(k, 1..n))

\* mcnemar_exact_p: twice the smaller tail of the binomial, at most 1.
McNemarExactP(improved, harmed) ==
    LET n == improved + harmed
        tail == Min({improved, harmed})
        doubled == 2 * SumFunction([k \in 0..tail |-> Ways(n, k)])
    IN  IF n = 0 THEN NoNumber ELSE Fraction(Min({2 ^ n, doubled}), 2 ^ n)

-----------------------------------------------------------------------------
\* task_clustered_bootstrap_ci

TasksOf(rows) == {pairs[i].task : i \in Complete(rows)}
OfTask(rows, k) == {i \in Complete(rows) : pairs[i].task = k}

\* One resample draws as many tasks as there are, with replacement, and takes all the
\* pairs of each; drawn[k] says how often task k came up.
Resamples(rows) ==
    LET tasks == TasksOf(rows) IN
    {drawn \in [tasks -> 0..Cardinality(tasks)] : SumFunction(drawn) = Cardinality(tasks)}
ResampleMeanPerTaskMutant(rows, drawn) ==
    Fraction(SumFunction([k \in DOMAIN drawn |-> drawn[k] * Deltas[Min(OfTask(rows, k))]]),
             SumFunction(drawn))
ResampleMean(rows, drawn) ==
    Fraction(SumFunction([k \in DOMAIN drawn |-> drawn[k] * SumFunctionOnSet(Deltas, OfTask(rows, k))]),
             SumFunction([k \in DOMAIN drawn |-> drawn[k] * Cardinality(OfTask(rows, k))]))

\* round() of a/b to the nearest integer, ties to the even one.
Rounded(a, b) ==
    LET q == a \div b
        twice == 2 * (a % b)
    IN  IF twice > b \/ (twice = b /\ q % 2 = 1) THEN q + 1 ELSE q

\* The place, counted from 0, of a quantile of q thousandths in the sorted means.
PlaceOf(q) ==
    LET last == Len(means) - 1
    IN  Min({last, Max({0, Rounded(q * last, 1000)})})

\* The mean at a place of the sorted list: so many are smaller, or at most as large.
Smaller(m) == {i \in DOMAIN means : ~FractionAtMost(m, means[i])}
NotLarger(m) == {i \in DOMAIN means : FractionAtMost(means[i], m)}
IsAt(m, place) == Cardinality(Smaller(m)) <= place /\ place < Cardinality(NotLarger(m))
Percentile(q) == means[CHOOSE i \in DOMAIN means : IsAt(means[i], PlaceOf(q))]
Low == Percentile(25)
High == Percentile(975)

-----------------------------------------------------------------------------
PairsInit ==
    /\ scoredJob \in ScoredJobs
    /\ pairs = <<>> /\ scoring = "tables" /\ means = <<>>

\* The row of the next trial.
AddPair ==
    /\ scoring = "tables" /\ Len(pairs) < Len(scoredJob)
    /\ pairs' = Append(pairs, PairRow(scoredJob[Len(pairs) + 1]))
    /\ UNCHANGED <<scoredJob, scoring, means>>

TablesDone ==
    /\ scoring = "tables" /\ Len(pairs) = Len(scoredJob)
    /\ scoring' = IF TasksOf(IntentionToTreat) = {} THEN "done" ELSE "resampling"
    /\ UNCHANGED <<scoredJob, pairs, means>>

Resample ==
    /\ scoring = "resampling"
    /\ \E drawn \in Resamples(IntentionToTreat) :
         means' = Append(means, ResampleMean(IntentionToTreat, drawn))
    /\ scoring' = IF Len(means') = Iterations THEN "done" ELSE "resampling"
    /\ UNCHANGED <<scoredJob, pairs>>

PairsNext == AddPair \/ TablesDone \/ Resample

PairsSpec == PairsInit /\ [][PairsNext]_pairVars

-----------------------------------------------------------------------------
\* Properties

\* Every variable keeps its type, and no mean is drawn of nothing.
PairsTypeOK ==
    /\ Len(pairs) <= Len(scoredJob)
    /\ scoring \in {"tables", "resampling", "done"}
    /\ Len(means) <= Iterations
    /\ \A i \in DOMAIN means : means[i].den > 0

\* The p-value of the report is that of the sign test: the share of all ways to call
\* the discordant pairs improved or harmed that are at least as uneven as the ones seen.
McNemarIsSignTest ==
    LET t == TallyOf(IntentionToTreat)
        n == t.improved + t.harmed
        uneven(S) == Min({Cardinality(S), n - Cardinality(S)}) <= Min({t.improved, t.harmed})
    IN  n > 0 => McNemarExactP(t.improved, t.harmed)
                   = Fraction(Cardinality({S \in SUBSET (1..n) : uneven(S)}), 2 ^ n)

\* With rewards of 0 and 1 the four cells are a partition of the complete pairs, and the
\* mean delta, the pass rates and the discordant cells tell the same story.
CellsAgree(t) ==
    /\ t.complete = t.failedBoth + t.improved + t.harmed + t.passedBoth
    /\ t.unchanged = t.failedBoth + t.passedBoth
    /\ t.finalPass - t.initialPass = t.improved - t.harmed
    /\ t.complete > 0 => t.meanDelta.num = t.improved - t.harmed
TwoByTwo == CellsAgree(TallyOf(IntentionToTreat)) /\ CellsAgree(TallyOf(CompletedProtocol))

\* What a trial gained or lost is the sum of what its revisions did: the deltas against
\* the parents telescope, if every stage has a score and equal patches have equal ones.
SameScores(trial) ==
    /\ \A i \in DOMAIN trial.stages : trial.stages[i].known
    /\ \A i \in 2..Len(trial.stages) :
         ~trial.changed[i] => trial.stages[i] = trial.stages[i - 1]
RevisionsAddUp ==
    \A i \in DOMAIN pairs :
        SameScores(scoredJob[i]) => pairs[i].delta.reward = SumFunction(pairs[i].revisions)

\* The interval is an interval; with one task there is nothing to resample, and both
\* ends are the mean itself.
IntervalSound ==
    scoring = "done" /\ means # <<>> =>
        /\ FractionAtMost(Low, High)
        /\ Cardinality(TasksOf(IntentionToTreat)) = 1 =>
             LET mean == TallyOf(IntentionToTreat).meanDelta IN
             /\ FractionAtMost(Low, mean) /\ FractionAtMost(mean, Low)
             /\ FractionAtMost(High, mean) /\ FractionAtMost(mean, High)

\* The cells of the pair table are a partition and the means follow from them, what a
\* trial gained is the sum of what its revisions did, the interval is an interval around
\* the mean, and the p-value is that of the exact sign test (_pair_stats).
PairStatisticsSound == TwoByTwo /\ RevisionsAddUp /\ IntervalSound /\ McNemarIsSignTest
=============================================================================

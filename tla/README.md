# A TLA+ verification of the deepswe-eval-lab harness

The repository evaluates coding agents on software tasks: one trial runs one or two
agents in a task container, keeps their work as git commits, delivers the diff of HEAD
against the base commit, and scores that diff in a clean container. This directory holds
TLA+ models of the parts that decide *what is launched, whose work is delivered and under
which label, and what is measured about it*, the TLC runs that check them on small
instances, and TLAPS proofs for every value of the constants.

Paths below are relative to `src/wip/` unless they start with `src/`; the runtime is
`agents/deep_swe_agent/runtime/src/`.

## 1. Inventory

A job goes through the programs in this order: the command line plans an evaluation and
prepares the runtime image; Pier starts the trials; in each, the Pier agent puts
credentials in place and starts the runtime; the runtime's engine runs agent turns over
the git workspace and writes round directories and a summary; after the job, scoring
discovers what each trial left, verifies every patch in a container and writes tables;
scripts report tokens and select tasks.

| Component | State it keeps | Operations | Talks to | What is hard | Status |
|---|---|---|---|---|---|
| Review loop engine (`direct-engine.ts`, `collaboration-engine.ts`) | base commit, trusted checkpoint, checkpoints, violations, counters, deadline, round directories | `run`, `execute`, `modifierTurn`, `reviewTurn`, `checkpoint`, `finalize` | git workspace, two agent runners, review parser | every await can throw; turns fail, time out and are retried; the agent can do anything to git; HEAD is read at distant points | modelled |
| Git workspace (`git-workspace.ts`) | the repository | `head`, `stageAllExcept`, `commitCheckpoint`, `resetTo`, … | git | reset leaves untracked files; `git add -u` follows the index | modelled |
| Single-agent engine (`single-engine.ts`) | as the loop's, one turn | `execute`, `finalize` | git workspace, one runner | its own rollback, attempts without a change are not rolled back | modelled |
| Agent turn runner (`agent-runner.ts`, `turn-diagnostics.ts`) | abort reason and kind, timers, process scope | `runTurn` | adapter, process cleanup, event files | four sources race to end a turn; cleanup must end before the turn returns | modelled |
| Turn process cleanup (`turn-process-cleanup.ts`) | captured scopes | capture, merge, TERM, KILL | `ps` | forks, reparenting, pid reuse | modelled |
| Pier agent (`pier_agent.py`, `atif.py`) | credentials in the container, the trial's context | constructor, `setup`, `run`, cleanup, context after the run | container, runtime | credentials must go whatever happens; two sources of totals | modelled |
| Patch discovery (`agent_eval/patch_discovery.py`) | none: reads a trial's directory | `discover_trial_patches` | the engine's files | must draw the engine's conclusions from its files, in another language | modelled |
| Patch scoring (`agent_eval/patch_scoring.py`) | result files, tables, summary | plan, scan, verify with retries, share, write, statistics | verifier | concurrency, reuse of stale results, crash between writes, repeated runs | modelled |
| Patch verifier (`agent_eval/patch_verifier.py`) | one container, one shared directory | start, clear, upload, test, read, stop | docker | an earlier attempt's container and file; stop under cancellation | modelled |
| Planning and CLI (`agent_eval/cli.py`, `planning.py`, `profiles.py`, `tasks.py`) | job directory, run manifest | plan, prepare, launch | image, Pier | three programs validate one plan | partly |
| Runtime image (`agent_eval/runtime_image.py`) | docker tag | fingerprint, inspect, build, final check | docker | inspect, then build, next to other launches | modelled |
| Container environments (`environments/`) | – | mount, stop | docker | an image replaced between plan and mount | partly |
| Usage accounting (`usage.ts`, `agents/usage.py`, `scripts/token_usage*`) | totals and their coverage | accumulate, convert, report | cligent's prices | one unknown makes a total unknown; positions in a batch | partly |
| Result scripts (`scripts/select_discriminative_tasks.py`, …) | – | metrics, layers, quotas, samples | public results | greedy choice under quotas | partly |
| Runtime entry (`main.ts`, `prompts.ts`) | configuration | `parseConfig`, `main` | engines | – | partly |
| Review parsing (`review-schema.ts`) | none | `parseReview`, `parseResolutions` | – | several JSON candidates in a text | not modelled |
| Mini SWE agent, task image pulling (`pull-task-images.mjs`) | – | thin wrappers | docker | bounded retries | not modelled |
| Benchmark tasks (`src/tasks/`) | data | – | – | third-party | not modelled |

Correctness, component by component:

- *Engines and git workspace*: an approval is about the delivered commit; failed attempts
  leave nothing behind; what an exception exposes is bounded; counters, timeouts and
  outcomes agree; the trusted checkpoint moves only in answer to a blocking review; the
  loop ends.
- *Turn runner and cleanup*: a turn returns only after its processes are cleaned up; none
  is forgotten, none from before the turn is touched; one story of its end.
- *Discovery*: a regular run is accepted, its stages are its checkpoints, and a trial that
  is left out delivered nothing.
- *Scoring and verifier*: nothing finished is verified again or lost; a reused score was
  measured on the definition it is reused for; equal patches get one verdict; the summary
  never runs ahead of the tables; a reward is the attempt's own; no container is forgotten.
- *Pier agent*: credentials are private while needed and gone afterwards, however the run
  ends; the runtime gets what its adapters need.
- *Planning and image*: what is launched can run, as it was asked, from the sources the
  plan names.
- *Accounting and scripts*: a total called complete is the whole; statistics, quotas and
  samples are what they claim to be.

`PROJECT.json` lists the components with their status and every hazard at its line.

## 2. The modules

```
GitWorkspace      the repository: HEAD, index, working tree            <- GitWorkspace_proofs
   ^        ^
   |        SingleEngine              one agent alone                  <- Sequential_proofs
DirectEngine ---- INSTANCE Delivery   the loop, and what it promises
   ^
EngineDiscovery ---- INSTANCE PatchDiscovery   what scoring reads of the loop
   ^
DirectEngine_proofs                   the loop, its contract, and what is read of it

AgentTurn         one turn of an agent and the cleanup of its processes
   ^
AgentTurn_proofs

PierAgent         credentials and runtime in one trial's container  <- PierAgent_proofs
   ^ INSTANCE
EvalPlan          from a command line to a plan, and its validators  <- Sequential_proofs
EvalLaunch        launches that share sources, Docker and a job     <- EvalLaunch_proofs

PatchScoring ---- INSTANCE ScoreLedger      runs over a job, and what scores promise
   ^
PatchScoring_proofs
PatchVerifier     the attempts to verify one patch                  <- PatchVerifier_proofs
PairStats         statistics over the pairs                          <- Sequential_proofs

Accounting        usage reports and their sums
   ^        ^
UsageTrail  UsageReport               one trial's totals; one job's    <- Sequential_proofs
TaskSelection     layers and samples of tasks                        <- Sequential_proofs
```

`MCDirectEngine`, `MCEngineDiscovery`, `MCAgentTurn`, `MCPatchScoring`, `MCPatchVerifier`,
`MCPierAgent` and `MCEvalLaunch` give the constants values for TLC. `MCSequential` holds
the six programs that work alone: it extends SingleEngine, EvalPlan with the inputs of
`EvalInputs`, UsageTrail, UsageReport, PairStats and TaskSelection. A behaviour is one of
them, chosen by `part`, and the variables of the others stand still. `Sequential_proofs` has
the theorems about all six, and extends `MCSequential`, so that a theorem and the run speak
of the same definitions; it uses nothing of the inputs that module chooses.

**GitWorkspace** is the repository as `git-workspace.ts` sees it. A *commit* is
`[by, turn, tree]`: who made it, in which modifier turn, with which tree. A *tree* is a set
of items: the number of a modifier turn stands for that turn's work, `BaseFile` for the
files that were untracked when the trial began (`baseline` in the code). This is the
coarsest data that tells apart whose work is where. `StageAllExcept`, `CommitIndex`,
`HardReset` and `RemoveFresh` are the git command sequences; `resetTo` is split in two
because an exception or a leftover process may come between `git reset --hard` and the
deletion of untracked files. `AgentEffects` is the coding agent: it may leave the tree
alone, add its own work, wipe it, and then stage, commit or rewind. `Habits` selects
which of these a run considers; the proofs hold for every set of habits.

**DirectEngine** is the engine. It is one sequential program, so `pc` names the await the
program is at:

| `pc` | code | action |
|---|---|---|
| `start` | `execute` 437-456 | `Start` |
| `open` | `newRoundDir`, locals of the turn | `OpenTurn` |
| `snapshot` | `reviewTurn` 287-288 | `SnapshotPatch` |
| `admit` | loop head and deadline check, 187-198, 295-306 | `AdmitAttempt`, `SkipAttempt`, `AttemptsExhausted` |
| `copy` | `reviewTurn` 307-324, the timer starts after the copy | `StartReview` |
| `running` | the awaited `runTurn` | `EndModifierTurn`, `EndReviewTurn` |
| `reset`, `clean` | `resetTo` (237) | `Reset`, `Clean` |
| `inspect`, `stage`, `decide` | 241-257 | `InspectHead`, `StageChanges`, `Decide` |
| `record` | metadata.json, back in `execute` | `RecordModifierTurn`, `RecordReviewTurn` |
| `commit`, `mark` | `checkpoint` 584-596 | `CommitCheckpoint`, `MarkCheckpoint` |
| `loop` | 490-501 | `BeginRound` |
| `finalize` | `finalize` 598-664 | `Finalize`, `FinalizeFails` |

`InfrastructureFailure` is the catch of `run`: it is enabled at every await. `Elapse` is
one tick of the clock, `Stray` a write by a process an agent left behind. The fields of
the class keep their names (`baseCommit`, `lastCheckpoint`, `reviewCount`, …); `rounds` is
the sequence of round directories with what discovery later reads in them; `turns`,
`accepted` and `tracked` are history for the properties and no guard reads `accepted` or
`tracked`.

**Delivery** is the abstract contract: one trusted commit, a verdict about it, and one
delivery. `DirectEngine` implements it under the mapping `Contract`: the verdict is the
last valid review as long as it is about `lastCheckpoint` and belongs to this round.

**AgentTurn** is `CligentRunner.runTurn` with `cleanupTurnProcessScope`. Node runs one
callback at a time, so an action is what happens between two awaits. `pc` is the await of
`runTurn` itself (`streaming`: the next event; `closing`: the iterator's `return` after a
`break` or an exception; `finally` and `cleanup`: the two awaits of the finally block);
`watchdog` is `diagnosticPromise`, `cleanup` is `processCleanupPromise` with the stage of
`cleanupTurnProcessScope` it has reached. `ClaimAbort`, `BeginAbortCleanup`, `Capture` and
`MergeScopes` are the functions of those names. `parent` is the process table; processes
fork and exit between any two actions, and the children of a process that exits become
orphans, which a later capture no longer finds. `watched` and `signalled` are history.
What `DirectEngine` takes from a turn, its `TurnEndings` and `TurnSucceeded`, is what
`EndingIsConsistent` says of the returned record, and `QuietAfterReturn` is why the engine
may reset the tree right after the turn. A turn that ends by itself is not cleaned up at
all, and a cleanup may report survivors: these are the processes in `loose`.

**SingleEngine** is `SingleWorkflowEngine` in the same manner: `pc` names the await. It
differs from the loop in what a failed attempt goes back to (always the base), in that an
attempt without a change is repeated without a rollback, and in that every outcome but
`completed` delivers nothing although HEAD is collected in any case.

**PatchDiscovery** is `discover_trial_patches` as a function of a directory; **EngineDiscovery**
builds that directory from the variables of `DirectEngine` at its end (`Trial`), with
`final/patch.diff` missing where `finalize` threw before it, with documents of
`Vanishing` removed, and lets `Scan` read it. `trail` and `torn` are history: the trusted
checkpoints in their order, and whether an exception was thrown. Nothing is assumed of
the two programs but the files between them.

**PatchScoring** is `score_patch_job`, called again and again over one job: `Plan` (with
its refusals), `_scan_cached_results` (`Hits`, `CachedWork`), the workers (`Admit`, `Retry`,
`Finish`, with retries and waits), the result file, the rows, tables and summary in the
order they are written (`Write`), and `Die` at any point; a result file may be torn by a
crash. A fingerprint is the record of the fields that can differ in a job. `verdicts` and
the `under` of a record are history. **ScoreLedger** is its contract: a score on the board
is an answer that was given about exactly that key, or is the evaluation's own, or is
marked missing, and a key has one answer per run.

**PatchVerifier** opens the single step `Finish` takes of an attempt: start the container,
clear the shared directory, upload, test under the time limit, read `reward.json`, stop
under a shield. Each await can throw or be cancelled, the process can be killed, and a
container whose stop failed goes on writing to the directory (`StrayWrites`).

**PierAgent** is `DeepSweAgent` from the constructor to the end of `run`: `copying` walks
through the files in the order of `_configure_credentials`, `remote` is the state of each
in the container (copied, owned, private), and the `finally` block removes them with a
second try and a warning. Cancellation, children that outlive the runtime and a login
lost on the host are actions of the environment.

**EvalPlan** follows one command line through `tasks.py`, `profiles.py`, `planning.py` and
`cli.py` into a plan, then through `_validate_plan_json` (as `PierAgent!PlanAccepted`) and
`parseConfig`; durations may also be `nan` or infinite, which Python's `float` accepts.
**EvalLaunch** is what launches share: sources are hashed file by file, an image is
inspected, built, tagged and inspected again, the run manifest is written, and each trial
mounts whatever the reference names by then and compares the fingerprint inside.

**Accounting** has the sums of `usage.ts` and `agents/usage.py`; **UsageTrail** is one trial
whose engine fills buckets while its events go to a log, and the Pier agent that reads
both; **UsageReport** is `token_usage.py` with its one batch of estimates. **PairStats** and
**TaskSelection** are the statistics and the sampling as programs that add one row, one
resample or one pick at a time; each is checked against a definition of its own (the sign
test by counting subsets, the quotas by their exact shares).

### What the models leave out, and what they assume

Engine and turn:

- Trace files, findings totals, prompts and wording: no property is about them.
- The modifier's `turnTimeout` is computed in the step that admits the attempt (no await
  in between); the reviewer's only after the copy, as in the code.
- `git add -u` and `git add --` of fresh files are one step, `rm` of several files one
  step: an exception between two of them differs only in index and working tree, and what
  is delivered on an exception is HEAD.
- A process left behind writes files, it does not commit (`StrayWrite`). This is an
  assumption about agents; without it no property about commits can hold, and the code
  has no defence against it.
- A git tree is what is not ignored: ignored files are outside the patch in the code too.
- A pid is not used twice within one turn; zombies do not run; the signals of one
  synchronous loop are one step, in which some of the processes end and others do not.
- A timer that fires after the claim does nothing, in the code too, and is no step here.
- The adapter's two other statuses than success are one, `error`: the code tests only
  `ok`, and `status` itself only reaches metadata.

Scoring and launching:

- SHA-256 is injective: a fingerprint is the record it is computed from.
- Task definitions are edited between runs, not while one is on (`EditsDuringRun`), and
  sources not while a launch prepares (`EditsDuringPrepare`). Both are switches; section 6
  says what happens with them on.
- Two scoring runs over one job do not overlap. The code takes no lock either.
- Tables, stages, manifest and summary of a scoring run are each written in one step; only
  a result file, which a later run reads, may be torn by a crash.
- The copies of one adapter's login (Kimi has three files) are one file; hosts are named
  by their provider or by the variable that holds their URL.
- Numbers: rates in percent rounded down, fractions kept as pairs, output tokens and the
  parts of a total handled like the input tokens and left out.

## 3. The runs

Twelve runs; state counts are distinct states. `CHECK_DEADLOCK FALSE` stands where a
program ends (a trial at `done`, a turn at `returned`, a run of scoring when the bound on
runs is reached); `LaunchShared` checks deadlock with an explicit `Idle` step.

| Run | Bounds | Question | Result |
|---|---|---|---|
| `DirectEngineLoop` | 2 reviews, 2 attempts, deadline 3 ticks, `MinTurn` 2, caps 2, agents edit; the task directory may vanish before the scan | what an approval, a round, a timeout and a checkpoint mean; contract; termination; scoring reads it as it was | holds, 1,688,880 states |
| `DirectEngineRollback` | 1 review, 2 attempts, deadline 1, all agent habits, 1 leftover process | whose work can be delivered, also by a trial that scoring leaves out | holds, 3,386,195 |
| `AgentTurnCleanup` | 3 processes, opencode adapter, fair timers | what an aborted turn leaves behind and reports; it returns | holds, 1,258,663 |
| `Scoring` | 2 trials, 4 job shapes, 3 kinds of options, 2 patches, 2 workers, 2 attempts, 2 runs, malformed rewards, an edited task | what is reused, in which order things appear, what exit 0 means, a run ends | holds, 656,902 |
| `ScoringReruns` | 2 trials that share a patch, 3 runs of both trials or of one, forced or not, with or without the evaluation's final scores, 1 attempt | nothing finished is lost or repeated; the ledger; a repeated run changes nothing | holds, 2,550,517 |
| `VerifierAttempts` | 3 attempts in one directory, 4 installations of Pier | no container forgotten, a reward of one's own, an attempt ends | holds, 52,616 |
| `PierTrial` | 6 good and 8 bad plans, 8 sets of variables, 2 cancellations, 1 lost login | credentials contained, the runtime served, `run` returns | holds, 43,746 |
| `LaunchShared` | 2 launches of 2 trials, 7 command lines, 2 versions of each source, 1 edit | trials run planned sources and find their inputs | holds, 737,644 up to symmetry |
| `Sequential` | per part, see below | the six programs that work alone | holds, 1,326,077 |
| `DirectEngineTrusted` | 1 review, 1 attempt, agents edit or commit | "degrades to delivering that checkpoint" | violated, see 6 |
| `DirectEngineTimeoutKind` | 1 review, 2 attempts, reviewer cap | a recorded timeout kind means a timeout | violated, see 6 |
| `TrialTotals` | 3 reviews, 2 attempts, 5 turns | the total a trial reports is the whole | violated, see 6 |

Why the bounds are enough. *Engine*: two reviews give a non-final revision and a final
one, which are different stages of the code; two attempts give one retry, and a third
repeats the second, since only `failKind` and `timeoutKind` survive an attempt. Three
ticks with `MinTurn` 2 let the deadline pass before, in and after a turn and let the
revision cap be both longer and shorter than what is left. One leftover process is enough
to reach every point. *Turn*: three processes give a parent, a child that is orphaned and
one from before the turn. *Scoring*: two trials share or do not share a patch, a task and
a base; two workers run while a third work waits; a third run sees what a forced and a
killed one left (retries are the subject of `Scoring`, so `ScoringReruns` has none). *Verifier*: three attempts give a survivor, an attempt it may disturb,
and one more. *Launch*: two launches are needed for a race about one reference, two
trials for a stop next to a start. *Sequential*: every plan of the finite table of
command lines; two attempts of an agent that may do anything to git; five turns of three
kinds of reports; all jobs of up to two trials with three turns; all pairs of trials of two
tasks, with and without a revision in between, and three to five discordant pairs of one
task, with two resamples; all results of one task next to four fixed ones, and
all assignments of five core tasks to two languages and four repositories. The theorems of
section 4 remove the bounds for the safety properties they name.

Some properties are conjunctions of parts that belong to one question, each defined and
stated in words of its own: `VerdictsApply` (an approval and a revision are about the
commit that was judged), `CountsAgree`, `OriginsOnRecord`, `ScanIsFaithful`,
`CleanupIsExact`, `EndIsReported`, `CredentialsContained`, `RuntimeIsServed`,
`PlanAsAsked`, `TrialTotalsAreWhole`, `JobReportAddsUp`, `PairStatisticsSound`,
`SelectionSound`, `SingleRunIsHonest`.

Every property is tested by a *mutant*: an operator named `...Mutant`, next to the
operator it replaces, with a plausible mistake (a reset that keeps HEAD, an off-by-one in
the attempts, an approval without looking at the round, a summary written before the
tables, a cleanup only after the runtime …). TLC finds the property violated when the
mutant takes the place of the operator; `PROJECT.json` lists the pairs.

### Fairness

- `DirectEngine` (`Termination`): weak fairness of `Progress`, the engine's steps without the
  exceptions, since the loop may not rely on a failure to end. The engine is one running
  program: at every point but `done` the next line is to be executed, and nothing outside
  can disable it. At `running` it says that `runTurn` returns, which is `TurnReturns` of
  `AgentTurn`. Nothing is assumed of the clock: the loop ends by its counters. Composed
  with discovery, `DFairSpec` is as fair; nobody is obliged to score a trial.
- `AgentTurn` (`TurnReturns`): the wall-clock timer fires, diagnostics end (each command
  has a timeout of its own), the sleeps of the cleanup end, and an adapter whose signal was
  aborted ends its stream. The last is an assumption about the adapters
  (`agent-runner.ts:346` waits for them without a bound). Nothing is assumed of the stream
  before the abort: an adapter may stay silent or talk for ever.
- `PatchScoring` (`RunEnds`): weak fairness of a run's own steps. A verification ends by
  its time limit, which is `AttemptEnds` of `PatchVerifier`; there only the calls to the
  container runtime and the timer are fair, not the tests.
- `PierAgent` (`RunReturns`): every command in the container returns or throws.

## 4. The proofs

About DirectEngine, from `ConfigAssumption` (the ranges `parseConfig` enforces),
`BaseFileAssumption` and `HabitsAssumption`:

1. `TypeCorrect` – `Spec => []TypeOK`, with one lemma per group of actions.
2. `Invariance` – `Spec => []IInv`. The properties are not inductive: that HEAD is the
   trusted checkpoint *at delivery* follows only from where HEAD and the index are at each
   line before. `IInv` is a conjunction with one part per concern:
   - `ControlInv`: which stages belong to each `pc`, and that HEAD is the base before the start;
   - `HeadInv`: HEAD is the trusted checkpoint and nothing is staged wherever no turn is
     being judged (`AtCheckpoint`), and a moved HEAD belongs to the current turn;
   - `WorkInv`: whose work is in the tree, the index and HEAD, before, during and after a
     turn is judged;
   - `OriginInv`: who made the commits, and who tracked the baseline files;
   - `ReviewInv`: the last review is about the trusted checkpoint while it is being used;
   - `CountInv`: rounds, reviews and revisions at each `pc`;
   - `ResultInv`: what a concluded result implies until it is delivered.
3. The theorems `...Holds` follow from `IInv`, two of them with another invariant:
   `BudgetInv` (turns against attempts), `TimerInv` (a timeout among the causes comes with
   a timer kind). `VerdictsApplyHolds`, `CountsAgreeHolds` and `OriginsOnRecordHolds` state
   the properties the runs check; the theorems about their parts stand beside them.
4. `CheckpointMovesHolds` is about steps: `IInv /\ [Next]_vars` implies the action.
5. `Refinement` – `Spec => ContractSpec`: the initial state maps to `DeliveryInit`, each
   action to a step of the contract or to a stutter; `VerdictInv` says what is known of
   the verdict after the loop.

About EngineDiscovery, the loop composed with what scoring reads of it, from the same
assumptions and `VanishingAssumption`:

6. `ScoredRunIsARun` – `DSpec => Spec`: a step of the loop is one, a scan is a stutter. So
   every theorem above holds of a run that is scored, and its invariants may be used below.
7. `DiscoveryInvariance` – `DSpec => []DInv`, which says round by round what a trial directory
   must look like at each point of the run:
   - `KindInv`, `PositionInv`: reviews at the even positions, turns of the modifier at the odd
     ones, and how many there are at each `pc`;
   - `MetaInv`, `EndingInv`, `ReachedInv`: only the last round can be without success, and what
     the outcome, the last status and the counters say of each other at the end;
   - `PatchInv`: a review's patch is the trusted checkpoint it was taken of, for as long as
     that is the checkpoint; `RecordedInv`, `DeliveredInv`: what can be empty;
   - `TrailInv`, `RetoldInv`: the patches of the reviews so far retell the checkpoints so far.
     The witness is a map from reviews to checkpoints that climbs by at most one: a revision
     either made a checkpoint or left the old one to be reviewed again;
   - `ScanInv`: what was found is `Discover` of the directory as it is at the end.
8. `IneligibleDeliveredNothingHolds` from `RecordedInv` and `DeliveredInv`. `ScanIsFaithfulHolds`
   shows its three parts from `DInv`: `CountersFit` (the counts discovery compares are the
   engine's counters; `RoundsByKind` counts even and odd positions), `ChangesFit` (stages that
   differ are at most the revisions), `StagesOf` and `NthEven` (the n-th stage is the n-th
   review's patch). A regular run is accepted if what it delivers is not empty. The
   hypothesis is there because a run that degrades while its work amounts to the base tree
   is refused by discovery (an empty `final/patch.diff`, `patch_discovery.py:368-370`),
   though nothing in it is irregular.

About SingleEngine, for any number of attempts and any habits:

9. `SingleRunIsHonestHolds` by `SingleInv`: `CleanInv` says that HEAD and index are the base's
   whenever an attempt may start and that what is being judged is the attempt's own work or
   left over, `AcceptedInv` that HEAD holds what was accepted, `EndInv` carries both to the
   end. `GitWorkspace_proofs` has the facts about the git operators that this and the loop's
   proofs share.

About AgentTurn, for any finite set of processes, under `PidsAssumption` and
`RequestAssumption`:

10. `TurnInvariance` – `Spec => []TurnInv`. `PromiseInv` says where the stream, the
   diagnostics and the cleanup are with respect to each other; `ClaimInv` what the claim
   means for status and message; `WatchInv` that the processes of the moment of the claim
   are in the earlier capture, then in the merged one, then among the survivors, or gone;
   `BaselineInv` that no capture holds a process from before the turn. `CleanupIsExactHolds`,
   `QuietAfterReturnHolds` and `EndIsReportedHolds` follow, and `FirstClaimStandsHolds` is
   about steps.

About PatchVerifier, for any number of attempts (`AttemptsAssumption`):

11. `NoBoxForgottenHolds`: inductive with `TypeInv` (an attempt in progress has a number).
   `RewardIsOwnHolds` needs `FileInv` – behind `ClearDirs` the file in the shared directory
   is nobody's, the attempt's or a known survivor's – and `ReadInv`, which carries that from
   the reading to the answer over the stop.

About EvalLaunch, for any launches, trials, sources and command lines
(`OptionsAssumption`, `MaxEditsAssumption`, `NoneAssumption`):

12. `TrialsFindTheirInputsHolds` by `InputsInv`: what a launch has seen of images and manifests
   is never undone. `TrialRunsPlannedSourcesHolds` by `SourcesInv`: an image holds the sources
   its fingerprint names, whoever built it, because fingerprint and context are read from
   one state of the sources. Its hypothesis `~EditsDuringPrepare` is part of the statement.

About PierAgent, for any plans, variables and bounds (`BoundsAssumption`):

13. `CredentialsContainedHolds` and `RuntimeIsServedHolds` by `CopyInv`, which speaks of the files
   before, at and behind the one being copied; `BeforeInv`, that the container is untouched
   before the first directory; `CheckInv`, that the check of the beginning stays true but
   for a login that is lost.

About PatchScoring, for any job, number of trials, workers, attempts and runs, under
`SizeAssumption`, `NumberAssumption`, `NoneAssumption`, `JobsAssumption` and
`OptionsAssumption`:

14. `ScoringTypeOK` and `NoRepeatedWorkHolds`, with `RunInv`: the works of a run are those its
    plan asks for, and one is pending exactly while it waits or is verified.
15. `SuccessKeptHolds` is about steps. It needs `NoRepeatedWork` (what is verified had no usable
    result in *any* selected trial) and that the owner of a work is selected, since it is
    the first that asks (`FirstOf`, by the well-foundedness of the numbers).
16. `SummaryLastHolds` by `StampInv` (no file is of a later run than the current one, the
    summary only of earlier ones), `ExitZeroMeansCompleteHolds` by `TableInv` (a table
    written is the table the run would write now, so the exit code speaks of what is on disk).
17. `GradedUnderFingerprintHolds` by `VersionInv`, that the tasks are what the plan took
    digests of. Its hypothesis `~EditsDuringRun` is part of the statement; section 6 has the
    case without it.
18. `RerunIsNoOpHolds` by `RerunInv`. What a run holds of a work is what its successor would
    find for it first (`BackedInv`); a complete run leaves its tables so (`LeftInv`); a run
    that repeats it starts from there (`RepeatInv`). The first fails for a run that is both
    forced and takes the evaluation's final scores: it may verify a patch without the
    first trial that has it. That is where the property's exception comes from.
19. `LedgerRefinement` – `Spec => LedgerSpec`: `GivenInv` says that what a file or the run holds
    was answered by a verification of that very work, `PlaceInv` that a file lies with a
    trial that has the patch. Verifications map to answers, tables to rows, all else stutters.

About EvalPlan, for any command lines, profile files and tasks (`ConstantsAssumption`, which is
`NumberAssumption`: `nan`, infinity and a missing option are not integers, and
`InputAssumption`: what argparse and the readers of the files leave to the checks):

20. `LaunchedPlanRunsHolds` and `PlanAsAskedHolds` by `PlanInv`. Each check of the planner
    establishes a fact (`TasksChecked`, `ProfilesChecked`, `RolesChecked`, `BudgetFits`), and it
    stays a fact because nothing it is about changes. From the four, `PlanIsAccepted` shows
    that the Pier agent lets the plan through and `RuntimeRunsPlan` that the runtime does;
    `FailureInv` says that what the runtime still refuses is a duration that is not
    finite. The comparisons are those of IEEE 754, so each is a case analysis.

About TaskSelection, for any public results, portfolios, exclusions, sample sizes and orders
(`SelectionAssumption`: finite tables of numbers, and thresholds of the core at least as
strict as those of the broad layer, as in `DEFAULT_THRESHOLDS`):

21. `SelectionSoundHolds` by `SelectInv`: the layers are what the metrics say, the samples are
    apart and no larger than asked (`SampleInv`), and a repository is used again only when
    no other is left (`SpreadInv`). That a model left out changes no layer is `MetricsIgnore`:
    its results occur in no sum. That the quotas add up, each less than one off its share, is the
    method of largest remainders: the floors are less than one each below the shares, so
    what is missing is less than the number of languages, and each gets at most one more.

    Sums are the difficulty here and below. The library defines `SumFunctionOnSet` by a
    fold, whose recursion no prover unfolds. `SumIsPartialSum` gets from it the two equations of a sum
    (`SumEmpty`, `SumAdd`), by showing with the well-foundedness of the numbers that a
    function with these equations exists on the subsets of a finite set and that the fold is
    its value; sums of equal, split, exchanged, reindexed and scaled terms follow by
    `SubsetInduction`, which is about a set of subsets instead of a predicate.

About UsageTrail, for any number of reviews, attempts and turns and any reports
(`MissingAssumption`, `ReportsAssumption`, `WorkflowAssumption`):

22. `TrialTotalsAreWholeHolds` by `TrailInv`: a role's bucket is `Summed` of the reports of its
    turns, one each, and both buckets together are what was really used (`BucketsInv`); the
    log's reports are some of the turns' own, so they come to no more (`LogInv`); each of
    the two totals is the one its reader would find (`FilledInv`). A step of the
    trajectory is the last event of a label and session, a one-to-one map from steps to
    log entries, so the trajectory's sum is one over a part of the log.

About UsageReport, for any jobs, roles, prices and answers of the estimator (`JobsAssumption`):

23. `JobReportAddsUpHolds` by `ReportInv`: every trial read has a row or was skipped (`ReadInv`,
    `RowsInv`); requests and the places that wait for answers are in step, each place is a
    turn without a cost, and each such turn has one (`BatchInv`); so the answer at a position
    is an answer for the turn at that place (`AnswersInv`, `Resolves`). After the report the
    accounts hold exactly these costs (`UsageInv`), and the job's totals are nested sums over
    rows, roles and turns, which `CostBothWays` exchanges.

About PairStats, for any job of scored trials and any number of resamples
(`ScoredAssumption`):

24. `PairStatisticsSoundHolds` by `PairsInv`: every row is its trial's (`TableInv`), and every
    mean was drawn from the whole table (`MeansInv`). The rest are facts about the operators:
    - the four cells partition the complete pairs, and the sum of the deltas is the number
      of the improved less that of the harmed (`SumOfDeltas`, `TallyAddsUp`);
    - the deltas of the revisions telescope (`ChangesTelescope`, by a least counterexample),
      if equal patches have equal scores. The hypothesis is needed: with
      `--reuse-final-score` the final score is the evaluation's own, and may differ from that
      of the equal patch before it; TLC shows a trial in which the sum is then another;
    - the tail `mcnemar_exact_p` sums counts the small subsets (`WaysAddUp`), the complement
      makes as many large ones (`AsManyLarge`), and together they are the subsets at least
      as uneven as the one seen (`ExactTest`);
    - every place of the sorted means is somebody's (`PlaceTaken`), and an earlier one is no
      larger (`PlacesInOrder`), so the interval's ends are two drawn means in order; with
      one task every mean is the same (`DrawnMean`).

About all six side by side:

25. `TypesOKHolds` – `MCSpec => []TypesOK`. `EachRuns`: what `MCSequential` runs is a behaviour of
    each program, since a step of one is a stutter of the others; so the type theorems of
    the six (`PlanningTypeOK`, `SingleTypes`, `TrailTypes`, `ReportTypes`, `PairTypes`,
    `SelectionTypeOK`) hold of it. `SingleTypes` has the bound that an attempt under way is
    one of those allowed (`BoundInv`), from `SingleAssumption`.

TLC evaluates every assumption named here in a run whose module extends the module that
states it. `TypeOK` of DirectEngine, AgentTurn, PatchVerifier, EvalLaunch and PierAgent is
a theorem and no longer part of a run.

With this every invariant and action property of the runs that hold is a theorem, and so is
each of the two refinements. Only model-checked: liveness (`Termination`, `TurnReturns`,
`RunEnds`, `AttemptEnds`, `RunReturns`), which is out of the prover's reach. What a theorem
says of a program it says of the model: that a definition is the code's is the business of
the map and its reader.

## 5. Not modelled, and what is left

- `review-schema.ts`: a choice among JSON candidates in a text. Its difficulty is in the
  text, which a model would abstract away; the engine's model takes every verdict a
  reviewer can be read to give.
- `pull-task-images.mjs`: one process that calls `docker pull` for each image in turn and
  retries on the text of a rate limit. The Mini SWE agent runs an external program once and
  converts its files.
- Parsing of arguments, listing commands, the layout of tables, ATIF's tool calls, rendering
  of instructions, `official_trials_to_pier_jobs.py`: sequential conversions no property is
  about.
- Statistics whose inputs are data here: correlations, variances, the rank score.
- `src/tasks/`: the data the program is run on.

Worth doing next: the parts of the sources that are listed above, the converters of trial
files first, since a total that is lost in one of them would be lost to every report; and a
proof that `Scan` composed with `PatchScoring` reads stages whose patches are the engine's,
which would join items 8 and 19 to one statement about a job from its first turn to its
tables.

## 6. Disagreements between the code and its documents

With a run each:

- `direct-engine.ts:412-414` promises that an exception after a trusted checkpoint
  "degrades to delivering that checkpoint". `finalize` delivers HEAD, and a revising agent
  that commits by itself moves HEAD before its turn is accepted. Run
  `DirectEngineTrusted`. How far it can go is a theorem: `InfrastructureExposureHolds`.
- `src/docs/collab-timeout-policy.md:83-85` says that every timeout kind maps to
  `degradedReason = "timeout"` and is kept in the round's metadata. The causes of a failed
  attempt outlive a successful retry, so a round that succeeded can name a timeout kind.
  Run `DirectEngineTimeoutKind`.
- `agents/usage.py:1` promises accounting "without treating partial totals as complete".
  The revise turns of two rounds have one label (`direct-engine.ts:212`), a modifier
  resumes its session, and the trajectory takes turns of one label and session for one
  (`atif.py:75-77`): the first one's tokens are in no total, the total is called complete
  and replaces the summary's (`pier_agent.py:672-674`). Run `TrialTotals`.

Met while modelling, without a run of their own (a bound or a hypothesis of the models
names each that matters to a property):

- A task edited while a scoring run is on: the fingerprint is taken once
  (`agent_eval/patch_scoring.py:588`), the container reads the task later, so a result may
  be stored under a definition it was not measured on, against lines 180-184. With
  `EditsDuringRun = TRUE`, `GradedUnderFingerprint` is violated.
- Sources edited between fingerprint and build give an image that holds other sources than
  its name says, although `agent_eval/runtime_image.py:1` calls it content-addressed. With
  `EditsDuringPrepare = TRUE`, `TrialRunsPlannedSources` is violated.
- Two launches that build at the same time: the later tag replaces the earlier image
  without `--rebuild` (`cli.py:63-64` against `runtime_image.py:182`); the trials notice in `setup`.
- `docs/collab-paired-checkpoint-verification-design.md:373-374` and `:619` call a repeated
  run on a complete job an idempotent no-op. A run with `--force` and
  `--reuse-final-score` (allowed together, line 371) stores a new verdict with the first
  trial that asks for the patch *in that run* (`agent_eval/patch_scoring.py:603-622`), an
  older one may lie with an earlier trial, and the next plain run takes that
  (`cache.setdefault`, line 321): a score changes back. `RerunIsNoOp` without its last
  hypothesis is violated so in `ScoringReruns`; with it, it is a theorem.
- A forced run of one trial that ends with another verdict than the shared one changes the
  other trial's score in the next plain run: a repetition in the sense of the document is
  taken to be of the very same request.
- A run that degrades with an emptied patch under strict checks is refused as a layout
  error (`agent_eval/patch_discovery.py:368-370`) rather than named ineligible.
- `docs/collab-paired-checkpoint-verification-design.md:473-476`: an eligible trial whose review never began is not to be
  excluded, while `patch_discovery.py:278-285` refuses a trial without a review round; and
  equal initial and final patches are to have delta 0, while with `--reuse-final-score` the
  final is the evaluation's (`patch_scoring.py:673`) and may differ from the initial's.
- `nan` passes the planner's comparisons (`planning.py:96-118`) and is refused only by the
  runtime, in every trial: `LaunchedPlanRuns` says so.
- `docs/deepswe-discriminative-subset-selection.md:170` allows two tasks per repository;
  `select_discriminative_tasks.py:556-557` drops the limit when nothing else is left.
  `RepositoriesSpread` states what does hold.

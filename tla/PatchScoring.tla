---------------------------- MODULE PatchScoring ----------------------------
(***************************************************************************)
(* score_patch_job of patch_scoring.py, run again and again over one job   *)
(* directory: each run plans one verification per distinct patch, takes    *)
(* what the result files of earlier runs already answer, verifies the rest *)
(* with a bounded number of workers, writes one result file per patch, and *)
(* finally the tables.  A run may die at any point, and the task directory *)
(* is edited by others.                                                    *)
(*                                                                         *)
(* A trial's stages are the sequence of its patches: the first is          *)
(* "initial", the last "final", and the parent of a stage is the one       *)
(* before it, as patch_discovery.py numbers them.  A fingerprint is a      *)
(* record of the fields that can differ inside one job; its SHA-256 id is  *)
(* the fingerprint itself.                                                 *)
(***************************************************************************)
EXTENDS Integers, FiniteSets, Sequences

CONSTANTS
    NumTrials,       \* trial directories of the job, in the order of their names
    Tasks,           \* task directories
    Versions,        \* what a task directory (task.toml and tests) may contain
    Origins,         \* recorded base commit, checksum and verifier configuration
    Patches,         \* contents of patches
    Rewards,         \* what a verifier may report under "reward"
    Numbers,         \* those of them that are numbers
    None,            \* Python's None
    Jobs,            \* jobs to start from: functions from trials to what discovery found
    OptionSets,      \* the command lines a run may be started with
    Concurrency,     \* --concurrency
    MaxAttempts,     \* _MAX_VERIFY_ATTEMPTS
    MaxRuns,         \* bound on the number of runs explored
    EditsDuringRun   \* whether a task may be edited while a run is on

Trials == 1..NumTrials
Missing == "missing"    \* a task directory without tests

ASSUME SizeAssumption ==
    /\ NumTrials \in Nat
    /\ Concurrency \in Nat
    /\ MaxAttempts \in Nat \ {0}
    /\ MaxRuns \in Nat
    /\ EditsDuringRun \in BOOLEAN
ASSUME NumberAssumption == Numbers \subseteq Int /\ Numbers \subseteq Rewards
ASSUME NoneAssumption == None \notin Rewards /\ Missing \notin Versions

Fingerprint ==
    [origin : Origins, task : Tasks, version : Versions, patch : Patches]

\* A verification record; a timeout is an error here, both are retried.
\* "under" is history: the version of the task the container really tested.
Record ==
    [status : {"success", "error"}, reward : Rewards \union {None},
     under : Versions \union {Missing}]

\* A result.json: absent, cut off by a crash, or a record.
Absent == [status |-> "absent"]
Torn == [status |-> "torn"]
ResultFile == {Absent, Torn} \union Record

\* The record of a work that was not verified yet.
Pending == [status |-> "pending"]

Score == [source : {"direct", "eval"},
          status : {"success", "error", "missing"},
          reward : Rewards \union {None}]

TrialInfo ==
    [supported : BOOLEAN, eligible : BOOLEAN, artifacts : BOOLEAN,
     task : Tasks, origin : Origins, stages : Seq(Patches),
     eval : Rewards \union {None}]

Options == [selected : SUBSET Trials, reuse : BOOLEAN, force : BOOLEAN]

ASSUME JobsAssumption ==
    \A j \in Jobs : j \in [Trials -> TrialInfo]
        /\ \A t \in Trials : j[t].eligible => Len(j[t].stages) >= 2
ASSUME OptionsAssumption == OptionSets \subseteq Options

VARIABLES
    job,        \* what discovery finds in each trial directory (never changes)
    content,    \* what each task directory contains
    results,    \* results[t][f]: patch-scores/results/<f>/result.json of trial t
    tables,     \* tables[t]: patch-scores/stages.json of trial t
    files,      \* files[i]: the run that wrote the i-th of JobFiles
    summary,    \* summary.json
    run,        \* how many runs have been started
    pc,         \* "idle", "verifying" or "writing"
    options,    \* the command line of the run
    planned,    \* content at the time the digests were taken
    works,      \* unique_work: the record of each fingerprint, or Pending
    waiting,    \* pending works that have not passed the semaphore
    active,     \* verifications in progress: the attempt of each
    verdicts    \* history: every record that ended a work

disk == <<results, tables, files, summary>>
memory == <<options, planned, works, waiting, active>>
vars == <<job, content, disk, run, pc, memory, verdicts>>

-----------------------------------------------------------------------------
\* Planning.

StagesOf(t) == DOMAIN job[t].stages
FinalOf(t) == Len(job[t].stages)
EligibleOf(o) == {t \in o.selected : job[t].eligible}

FingerprintIgnoresTaskMutant(c, t, s) ==
    [origin |-> job[t].origin, task |-> job[t].task,
     version |-> CHOOSE v \in Versions : TRUE, patch |-> job[t].stages[s]]

FingerprintUnder(c, t, s) ==
    [origin |-> job[t].origin, task |-> job[t].task,
     version |-> c[job[t].task], patch |-> job[t].stages[s]]

\* A final patch the trial has at no other stage is not verified when the
\* score of the evaluation is to be used.
SkipDirect(o, t, s) ==
    /\ o.reuse
    /\ s = FinalOf(t)
    /\ \A u \in StagesOf(t) \ {s} : job[t].stages[u] # job[t].stages[s]

\* The stages that need a verification, and the work this makes.  Of the
\* stages with the same fingerprint the first one in the order of trials and
\* stages lends the work its place in the queue and its result directory.
Asking(o) ==
    UNION {{<<t, s>> : s \in {u \in StagesOf(t) : ~SkipDirect(o, t, u)}} :
           t \in EligibleOf(o)}
UniqueWork(o, c) == {FingerprintUnder(c, a[1], a[2]) : a \in Asking(o)}

Before(a, b) == a[1] < b[1] \/ (a[1] = b[1] /\ a[2] < b[2])
FirstAsker(f) ==
    LET askers == {a \in Asking(options) : FingerprintUnder(planned, a[1], a[2]) = f}
    IN  CHOOSE a \in askers : \A b \in askers \ {a} : Before(a, b)
Owner(f) == FirstAsker(f)[1]

\* A record answers a later run only with a usable reward.
Reusable(r) == r.status = "success" /\ r.reward \in Numbers

\* The selected trials whose result file answers f; the first one is used.
Hits(o, f) == {t \in o.selected : Reusable(results[t][f])}
HitLastMutant(o, f) == CHOOSE t \in Hits(o, f) : \A u \in Hits(o, f) : t >= u
Hit(o, f) == CHOOSE t \in Hits(o, f) : \A u \in Hits(o, f) : t <= u

CachedNothingMutant(o, c) == {}
CachedFirstTrialMutant(o, c) ==
    IF o.force THEN {}
    ELSE {f \in UniqueWork(o, c) : \E t \in Hits(o, f) : \A u \in o.selected : t <= u}
CachedWork(o, c) ==
    IF o.force THEN {} ELSE {f \in UniqueWork(o, c) : Hits(o, f) # {}}

-----------------------------------------------------------------------------
\* Scores and pairs, from the records the run holds.

Missed == [source |-> "direct", status |-> "missing", reward |-> None]

DirectScoreOfOwnFileMutant(t, s) ==
    LET f == FingerprintUnder(planned, t, s)
    IN  IF results[t][f].status \in {"success", "error"}
        THEN [source |-> "direct", status |-> results[t][f].status,
              reward |-> results[t][f].reward]
        ELSE Missed
DirectScore(t, s) ==
    LET f == FingerprintUnder(planned, t, s)
    IN  IF f \in DOMAIN works /\ works[f] # Pending
        THEN [source |-> "direct", status |-> works[f].status,
              reward |-> works[f].reward]
        ELSE Missed

UsesEval(t, s) == options.reuse /\ s = FinalOf(t) /\ job[t].eval # None

StageScore(t, s) ==
    IF UsesEval(t, s)
    THEN [source |-> "eval", status |-> "success", reward |-> job[t].eval]
    ELSE DirectScore(t, s)

Conformance(t) ==
    LET final == StageScore(t, FinalOf(t))
    IN  IF options.reuse THEN "skipped"
        ELSE IF job[t].eval = None \/ final.status # "success" THEN "unavailable"
        ELSE IF job[t].eval = final.reward THEN "matched" ELSE "mismatched"

Classify(delta) ==
    IF delta = None THEN "incomplete"
    ELSE IF delta > 0 THEN "improved" ELSE IF delta < 0 THEN "harmed" ELSE "unchanged"

PairOf(t) ==
    LET initial == StageScore(t, 1).reward
        final == StageScore(t, FinalOf(t)).reward
        delta == IF initial \in Numbers /\ final \in Numbers
                 THEN final - initial ELSE None
    IN  [initial |-> initial, final |-> final, delta |-> delta,
         class |-> Classify(delta),
         source |-> IF options.reuse THEN "eval" ELSE "direct",
         conformance |-> Conformance(t),
         itt |-> delta # None /\ Conformance(t) \in {"matched", "skipped"}]


\* stages.json of a trial, and the exit code of the summary.
TableOf(t) ==
    [run |-> run, pair |-> PairOf(t),
     keys |-> [s \in StagesOf(t) |-> FingerprintUnder(planned, t, s)],
     scores |-> [s \in StagesOf(t) |-> StageScore(t, s)]]

ExitCodeCompleteMutant ==
    IF \E t \in EligibleOf(options) : PairOf(t).delta = None THEN 1 ELSE 0
ExitCode ==
    IF \E t \in EligibleOf(options) :
        \/ PairOf(t).delta = None
        \/ ~options.reuse /\ Conformance(t) \in {"mismatched", "unavailable"}
    THEN 1 ELSE 0

-----------------------------------------------------------------------------
\* The runs.

\* The files of the job's own patch-scores, in the order they are written;
\* summary.json comes after them.
JobFiles == <<"manifest.json", "stages", "pairs">>

NoOptions == [selected |-> {}, reuse |-> FALSE, force |-> FALSE]
NoTable == [run |-> 0]
NothingPlanned == [k \in Tasks |-> Missing]
Empty == [f \in {} |-> None]

MemoryLost ==
    /\ pc' = "idle"
    /\ options' = NoOptions
    /\ planned' = NothingPlanned
    /\ works' = Empty
    /\ waiting' = {}
    /\ active' = Empty

Init ==
    /\ job \in Jobs
    /\ content \in [Tasks -> Versions]
    /\ results = [t \in Trials |-> [f \in Fingerprint |-> Absent]]
    /\ tables = [t \in Trials |-> NoTable]
    /\ files = [i \in DOMAIN JobFiles |-> 0]
    /\ summary = [run |-> 0]
    /\ run = 0
    /\ pc = "idle"
    /\ options = NoOptions
    /\ planned = NothingPlanned
    /\ works = Empty
    /\ waiting = {}
    /\ active = Empty
    /\ verdicts = {}

\* Someone edits task.toml or the tests of a task, or removes the tests.
EditTask(k) ==
    /\ EditsDuringRun \/ pc = "idle"
    /\ \E v \in (Versions \union {Missing}) \ {content[k]} :
        content' = [content EXCEPT ![k] = v]
    /\ UNCHANGED <<job, disk, run, pc, memory, verdicts>>

\* The reasons to refuse a job before anything is verified or written.
Refused(o) ==
    \/ o.selected = {}
    \/ \E t \in o.selected : ~job[t].supported
    \/ \E t \in EligibleOf(o) : job[t].artifacts \/ content[job[t].task] = Missing

Refuse(o) ==
    /\ pc = "idle" /\ run < MaxRuns
    /\ Refused(o)
    /\ run' = run + 1
    /\ UNCHANGED <<job, content, disk, pc, memory, verdicts>>

\* Discovery, planning and the scan of the result files, with no await among
\* them.
Plan(o) ==
    /\ pc = "idle" /\ run < MaxRuns
    /\ ~Refused(o)
    /\ run' = run + 1
    /\ pc' = "verifying"
    /\ options' = o
    /\ planned' = content
    /\ works' = [f \in UniqueWork(o, content) |->
                    IF f \in CachedWork(o, content) THEN results[Hit(o, f)][f] ELSE Pending]
    /\ waiting' = UniqueWork(o, content) \ CachedWork(o, content)
    /\ active' = Empty
    /\ UNCHANGED <<job, content, disk, verdicts>>

Slots == IF Concurrency < 1 THEN 1 ELSE Concurrency

\* A worker passes the semaphore, first come first served, and begins its
\* first attempt.
Admit(f) ==
    /\ pc = "verifying"
    /\ f \in waiting
    /\ \A g \in waiting \ {f} : Before(FirstAsker(f), FirstAsker(g))
    /\ Cardinality(DOMAIN active) < Slots
    /\ waiting' = waiting \ {f}
    /\ active' = [g \in DOMAIN active \union {f} |-> IF g = f THEN 1 ELSE active[g]]
    /\ UNCHANGED <<job, content, disk, run, pc, options, planned, works, verdicts>>

\* What verify_patch may return: with the tests in place any reward or any
\* failure, without them only a failure.
Verdicts(f) ==
    {[status |-> "success", reward |-> r, under |-> content[f.task]] :
        r \in IF content[f.task] = Missing THEN {} ELSE Rewards}
    \union {[status |-> "error", reward |-> None, under |-> content[f.task]]}

RetriesOffByOneMutant(f, r) == r.status # "success" /\ active[f] <= MaxAttempts
Retries(f, r) == r.status # "success" /\ active[f] < MaxAttempts

\* An attempt ends in a failure and is tried once more.
Retry(f) ==
    /\ f \in DOMAIN active
    /\ \E r \in Verdicts(f) : Retries(f, r)
    /\ active' = [active EXCEPT ![f] = @ + 1]
    /\ UNCHANGED <<job, content, disk, run, pc, options, planned, works, waiting, verdicts>>

\* An attempt ends the work: the record is kept and its file is written, with
\* no await in between.
Finish(f) ==
    /\ f \in DOMAIN active
    /\ \E r \in Verdicts(f) :
        /\ ~Retries(f, r)
        /\ verdicts' = verdicts \union {[work |-> f, record |-> r]}
        /\ works' = [works EXCEPT ![f] = r]
        /\ results' = [results EXCEPT ![Owner(f)][f] = r]
    /\ active' = [g \in DOMAIN active \ {f} |-> active[g]]
    /\ UNCHANGED <<job, content, tables, files, summary, run, pc, options, planned, waiting>>

GatheredAllSucceededMutant ==
    /\ pc = "verifying"
    /\ waiting = {} /\ DOMAIN active = {}
    /\ \A f \in DOMAIN works : works[f].status = "success"
    /\ pc' = "writing"
    /\ UNCHANGED <<job, content, disk, run, memory, verdicts>>
\* gather returns; from here on nothing is awaited.
Gathered ==
    /\ pc = "verifying"
    /\ waiting = {} /\ DOMAIN active = {}
    /\ pc' = "writing"
    /\ UNCHANGED <<job, content, disk, run, memory, verdicts>>

Written(t) == tables[t].run = run

WriteTable(t) ==
    /\ pc = "writing"
    /\ t \in EligibleOf(options) /\ ~Written(t)
    /\ \A u \in EligibleOf(options) : u < t => Written(u)
    /\ tables' = [tables EXCEPT ![t] = TableOf(t)]
    /\ UNCHANGED <<job, content, results, files, summary, run, pc, memory, verdicts>>

TablesWritten == \A t \in EligibleOf(options) : Written(t)

WriteJobFile(i) ==
    /\ pc = "writing"
    /\ TablesWritten
    /\ files[i] # run
    /\ \A j \in 1..(i - 1) : files[j] = run
    /\ files' = [files EXCEPT ![i] = run]
    /\ UNCHANGED <<job, content, results, tables, summary, run, pc, memory, verdicts>>

SummaryBeforeFilesMutant == TablesWritten
SummaryReady == TablesWritten /\ \A i \in DOMAIN JobFiles : files[i] = run

\* summary.json is written last, and the run is over.
WriteSummary ==
    /\ pc = "writing"
    /\ SummaryReady
    /\ summary' = [run |-> run, exit |-> ExitCode, options |-> options, planned |-> planned]
    /\ MemoryLost
    /\ UNCHANGED <<job, content, results, tables, files, run, verdicts>>

\* A run that is killed or interrupted, or whose verifier or disk throws, is
\* gone; a result file that was being written is cut off.
Die ==
    /\ pc # "idle"
    /\ \/ UNCHANGED results
       \/ \E f \in DOMAIN active : results' = [results EXCEPT ![Owner(f)][f] = Torn]
    /\ MemoryLost
    /\ UNCHANGED <<job, content, tables, files, summary, run, verdicts>>

Work == \E f \in Fingerprint : Admit(f) \/ Retry(f) \/ Finish(f)
Write ==
    \/ \E t \in Trials : WriteTable(t)
    \/ \E i \in DOMAIN JobFiles : WriteJobFile(i)
    \/ WriteSummary

Progress == Work \/ Gathered \/ Write

Next ==
    \/ \E k \in Tasks : EditTask(k)
    \/ \E o \in OptionSets : Refuse(o) \/ Plan(o)
    \/ Progress
    \/ Die

Spec == Init /\ [][Next]_vars

\* A run is one program, and every verification ends: its test phase has a
\* timeout (_verify), and starting and stopping a container are taken to end.
FairSpec == Spec /\ WF_vars(Progress)

-----------------------------------------------------------------------------
\* Properties.

Table ==
    [run : Nat \ {0}, keys : Seq(Fingerprint), scores : Seq(Score),
     pair : [initial : Rewards \union {None}, final : Rewards \union {None},
             delta : Int \union {None},
             class : {"incomplete", "improved", "harmed", "unchanged"},
             source : {"direct", "eval"}, itt : BOOLEAN,
             conformance : {"matched", "mismatched", "skipped", "unavailable"}]]
Summary ==
    [run : Nat \ {0}, exit : {0, 1}, options : Options,
     planned : [Tasks -> Versions \union {Missing}]]

\* Every variable has its type.
TypeOK ==
    /\ job \in [Trials -> TrialInfo]
    /\ content \in [Tasks -> Versions \union {Missing}]
    /\ results \in [Trials -> [Fingerprint -> ResultFile]]
    /\ tables \in [Trials -> {NoTable} \union Table]
    /\ files \in [DOMAIN JobFiles -> Nat]
    /\ summary \in {[run |-> 0]} \union Summary
    /\ run \in Nat
    /\ pc \in {"idle", "verifying", "writing"}
    /\ options \in Options
    /\ planned \in [Tasks -> Versions \union {Missing}]
    /\ DOMAIN works \subseteq Fingerprint
    /\ \A f \in DOMAIN works : works[f] \in {Pending} \union Record
    /\ waiting \subseteq DOMAIN works
    /\ DOMAIN active \subseteq DOMAIN works
    /\ \A f \in DOMAIN active : active[f] \in 1..MaxAttempts
    /\ verdicts \subseteq [work : Fingerprint, record : Record]

\* Whatever a run was interrupted at, an unforced run spends its verifications
\* only on patches that no result file of the selected trials answers: a crash
\* loses the work in hand and nothing that was finished
\* (_scan_cached_results against the files _run_unique_work left behind).
NoRepeatedWork ==
    pc = "verifying" /\ ~options.force =>
        \A f \in waiting \union DOMAIN active : Hits(options, f) = {}

\* Only --force may replace or damage a result that a later run could reuse,
\* crashes included (the write at the end of _run_unique_work).
SuccessKept ==
    [][\A t \in Trials, f \in Fingerprint :
        Reusable(results[t][f]) /\ results'[t][f] # results[t][f]
            => options.force]_vars

\* A reusable result was measured on the very task definition its fingerprint
\* names (task_config_digest, build_context_digest).
GradedUnderFingerprint ==
    \A t \in Trials, f \in Fingerprint :
        Reusable(results[t][f]) => results[t][f].under = f.version

\* summary.json never tells of a run whose tables are not all on disk: what
\* stands beside it is of its own run or of a later one.
SummaryLast ==
    summary.run > 0 =>
        /\ \A i \in DOMAIN JobFiles : files[i] >= summary.run
        /\ \A t \in EligibleOf(summary.options) : tables[t].run >= summary.run

\* Exit code 0 means that every eligible trial of the run has a pair of two
\* numbers that entered the primary analysis; a failed, malformed or
\* nonconformant score anywhere in a pair is never silent.
ExitZeroMeansComplete ==
    summary.run > 0 /\ summary.exit = 0 =>
        \A t \in EligibleOf(summary.options) :
            tables[t].run = summary.run =>
                /\ tables[t].pair.itt
                /\ {tables[t].pair.initial, tables[t].pair.final} \subseteq Numbers

\* The run in progress repeats, unforced, the complete run before it: the same
\* trials under the same policy, nothing edited in between, and every score of
\* the trial a number.
SameRequest ==
    /\ summary.run > 0
    /\ summary.options.selected = options.selected
    /\ summary.options.reuse = options.reuse
    /\ summary.planned = planned
AllNumbers(table) == \A s \in DOMAIN table.scores : table.scores[s].reward \in Numbers
Repeats(t) ==
    /\ ~options.force /\ SameRequest
    /\ summary.run = run - 1 /\ tables[t].run = run - 1
    /\ AllNumbers(tables[t])

\* Repeating the command on a complete job changes no score
\* (collab-paired-checkpoint-verification-design.md:373-374), unless the complete run was
\* forced while it took the final scores from the evaluation: it may then have verified a
\* patch anew for a later trial than the one whose older result the repetition finds first
\* (_scan_cached_results against the directories UniqueWork assigns).
RerunIsNoOp ==
    [][\A t \in Trials :
        ( /\ tables'[t] # tables[t] /\ Repeats(t)
          /\ ~(summary.options.force /\ summary.options.reuse) )
        => tables'[t].scores = tables[t].scores]_vars

\* Every run ends, whatever the verifications answer.
RunEnds == pc # "idle" ~> pc = "idle"

\* The contract: what the tables show was measured, and one run shows one
\* verdict for equal patches.
Verdict(r) == [status |-> r.status, reward |-> r.reward]
Given == {[key |-> v.work, answer |-> Verdict(v.record)] : v \in verdicts}
Chosen == [f \in {g \in DOMAIN works : works[g] # Pending} |-> Verdict(works[f])]
RowsOf(table) ==
    IF table.run = 0 THEN <<>>
    ELSE [s \in DOMAIN table.scores |-> [key |-> table.keys[s], score |-> table.scores[s]]]
Ledger == INSTANCE ScoreLedger WITH
    Keys <- Fingerprint,
    Answers <- [status : {"success", "error"}, reward : Rewards \union {None}],
    given <- Given,
    chosen <- Chosen,
    board <- [t \in Trials |-> RowsOf(tables[t])]
LedgerSpec == Ledger!LedgerSpec

=============================================================================

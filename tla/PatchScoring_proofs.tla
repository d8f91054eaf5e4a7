------------------------- MODULE PatchScoring_proofs -------------------------
(***************************************************************************)
(* Proofs about PatchScoring, for any job, command lines, bounds and       *)
(* verdicts.                                                               *)
(***************************************************************************)
EXTENDS PatchScoring, TLAPS, WellFoundedInduction, NaturalsInduction

-----------------------------------------------------------------------------
\* Least elements: of trials, and of the stages that ask for the same work.

LEMMA LeastNumber ==
  ASSUME NEW S \in SUBSET Nat, S # {}
  PROVE  \E n \in S : \A m \in S : n <= m
<1>1. IsWellFoundedOn(OpToRel(<, Nat), Nat)
  BY NatLessThanWellFounded
<1>2. PICK n \in S : \A m \in S : ~(<<m, n>> \in OpToRel(<, Nat))
  BY <1>1, WFMin
<1>3. \A m \in S : ~(m < n)
  BY <1>2 DEF OpToRel
<1> QED
  BY <1>3

LEMMA TrialsAreNumbers == Trials \subseteq Nat /\ \A t \in Trials : t > 0
BY SizeAssumption DEF Trials

LEMMA LeastIs ==
  ASSUME NEW S \in SUBSET Trials, NEW t \in S, \A u \in S : t <= u
  PROVE  (CHOOSE x \in S : \A u \in S : x <= u) = t
<1> DEFINE c == CHOOSE x \in S : \A u \in S : x <= u
<1>1. c \in S /\ \A u \in S : c <= u
  OBVIOUS
<1> HIDE DEF c
<1>2. c <= t /\ t <= c
  BY <1>1
<1>3. c = t
  BY <1>1, <1>2, TrialsAreNumbers
<1> QED
  BY <1>3 DEF c

LEMMA LeastIn ==
  ASSUME NEW S \in SUBSET Trials, S # {}
  PROVE  LET c == CHOOSE x \in S : \A u \in S : x <= u
         IN  c \in S /\ \A u \in S : c <= u
BY LeastNumber, TrialsAreNumbers

\* Of a set of stages the first is in it, and no trial in it comes before.
LEMMA FirstOf ==
  ASSUME NEW A \in SUBSET (Trials \X Nat), A # {}
  PROVE  LET c == CHOOSE x \in A : \A b \in A \ {x} : Before(x, b)
         IN  c \in A /\ \A b \in A : c[1] <= b[1]
<1> DEFINE T == {a[1] : a \in A}
<1>1. PICK t \in T : \A u \in T : t <= u
  <2>1. T \in SUBSET Nat /\ T # {}
    BY TrialsAreNumbers
  <2> QED
    BY <2>1, LeastNumber
<1> DEFINE S == {a[2] : a \in {b \in A : b[1] = t}}
<1>2. PICK s \in S : \A u \in S : s <= u
  <2>1. S \in SUBSET Nat /\ S # {}
    BY <1>1
  <2> QED
    BY <2>1, LeastNumber
<1>3. PICK a \in A : a[1] = t /\ a[2] = s
  BY <1>2
<1>4. \A b \in A \ {a} : Before(a, b)
  <2> TAKE b \in A \ {a}
  <2>1. b[1] \in T /\ b[1] \in Nat /\ a[1] \in Nat /\ a[2] \in Nat /\ b[2] \in Nat
    BY TrialsAreNumbers
  <2>2. a[1] <= b[1]
    BY <1>1, <1>3, <2>1
  <2>3. b[1] = a[1] => b[2] \in S
    BY <1>3
  <2>4. b[1] = a[1] => a[2] <= b[2]
    BY <1>2, <1>3, <2>3
  <2>5. a = <<a[1], a[2]>> /\ b = <<b[1], b[2]>>
    OBVIOUS
  <2> QED
    BY <2>1, <2>2, <2>4, <2>5 DEF Before
<1> DEFINE c == CHOOSE x \in A : \A b \in A \ {x} : Before(x, b)
<1>5. c \in A /\ \A b \in A \ {c} : Before(c, b)
  BY <1>4
<1> HIDE DEF c
<1>6. ASSUME NEW b \in A PROVE c[1] <= b[1]
  <2>1. c[1] \in Nat /\ b[1] \in Nat
    BY <1>5, TrialsAreNumbers
  <2>2. b = c \/ Before(c, b)
    BY <1>5
  <2> QED
    BY <2>1, <2>2 DEF Before
<1> QED
  BY <1>5, <1>6 DEF c

-----------------------------------------------------------------------------
\* The run: what it has planned, and where each work stands.

\* No eligible trial of a plan is without its tests.
PlanComplete(o, c) == \A t \in EligibleOf(o) : c[job[t].task] # Missing

RunInv ==
  /\ job \in Jobs
  /\ pc = "idle" => works = Empty /\ waiting = {} /\ active = Empty
  /\ pc # "idle" =>
       run > 0 /\ PlanComplete(options, planned) /\ DOMAIN works = UniqueWork(options, planned)
  /\ waiting \intersect DOMAIN active = {}
  /\ \A f \in DOMAIN works : works[f] = Pending <=> f \in waiting \union DOMAIN active
  /\ pc = "writing" => waiting = {} /\ DOMAIN active = {}

LEMMA NextCases ==
  Next =>
    \/ \E k \in Tasks : EditTask(k)
    \/ \E o \in OptionSets : Refuse(o)
    \/ \E o \in OptionSets : Plan(o)
    \/ \E f \in Fingerprint : Admit(f)
    \/ \E f \in Fingerprint : Retry(f)
    \/ \E f \in Fingerprint : Finish(f)
    \/ Gathered
    \/ \E t \in Trials : WriteTable(t)
    \/ \E i \in DOMAIN JobFiles : WriteJobFile(i)
    \/ WriteSummary
    \/ Die
BY DEF Next, Progress, Work, Write

LEMMA EligibleAreTrials == ASSUME NEW o \in Options PROVE EligibleOf(o) \subseteq Trials
BY DEF EligibleOf, Options

LEMMA FingerprintTyped ==
  ASSUME job \in [Trials -> TrialInfo], NEW c \in [Tasks -> Versions \union {Missing}],
         NEW t \in Trials, NEW s \in StagesOf(t), c[job[t].task] # Missing
  PROVE  FingerprintUnder(c, t, s) \in Fingerprint
<1>1. job[t] \in TrialInfo
  OBVIOUS
<1>2. job[t].origin \in Origins /\ job[t].task \in Tasks /\ job[t].stages[s] \in Patches
  BY <1>1 DEF TrialInfo, StagesOf
<1>3. c[job[t].task] \in Versions
  BY <1>2
<1> QED
  BY <1>2, <1>3 DEF FingerprintUnder, Fingerprint

LEMMA WorkTyped ==
  ASSUME job \in [Trials -> TrialInfo], NEW c \in [Tasks -> Versions \union {Missing}],
         NEW o \in Options, PlanComplete(o, c)
  PROVE  UniqueWork(o, c) \subseteq Fingerprint
<1> SUFFICES ASSUME NEW a \in Asking(o) PROVE FingerprintUnder(c, a[1], a[2]) \in Fingerprint
  BY DEF UniqueWork
<1>1. a[1] \in EligibleOf(o) /\ a[2] \in StagesOf(a[1])
  BY DEF Asking
<1> QED
  BY <1>1, EligibleAreTrials, FingerprintTyped DEF PlanComplete

LEMMA VerdictTyped ==
  ASSUME TypeOK, NEW f \in Fingerprint, NEW r \in Verdicts(f)
  PROVE  r \in Record
<1>1. content[f.task] \in Versions \union {Missing}
  BY DEF TypeOK, Fingerprint
<1> QED
  BY <1>1 DEF Verdicts, Record

LEMMA SortsDiffer ==
  /\ Pending \notin Record /\ Absent \notin Record /\ Torn \notin Record
  /\ Absent # Pending /\ Torn # Pending /\ ~Reusable(Absent) /\ ~Reusable(Torn)
<1>1. \A r \in Record : r.status \in {"success", "error"}
  BY DEF Record
<1>2. Pending.status = "pending" /\ Absent.status = "absent" /\ Torn.status = "torn"
  BY DEF Pending, Absent, Torn
<1> QED
  BY <1>1, <1>2 DEF Reusable

\* What a reusable file holds is a record.
LEMMA ReusableIsRecord ==
  ASSUME NEW r \in ResultFile, Reusable(r)
  PROVE  r \in Record
BY SortsDiffer DEF ResultFile

LEMMA CachedIsRecord ==
  ASSUME TypeOK, NEW o \in OptionSets, NEW c, NEW f \in CachedWork(o, c), f \in Fingerprint
  PROVE  /\ Hit(o, f) \in Hits(o, f) /\ Hit(o, f) \in Trials
         /\ results[Hit(o, f)][f] \in Record
<1>1. Hits(o, f) # {} /\ Hits(o, f) \subseteq Trials
  BY OptionsAssumption DEF CachedWork, Hits, Options
<1>2. Hit(o, f) \in Hits(o, f)
  BY <1>1, LeastIn DEF Hit
<1>3. results[Hit(o, f)][f] \in ResultFile /\ Reusable(results[Hit(o, f)][f])
  BY <1>1, <1>2 DEF TypeOK, Hits
<1> QED
  BY <1>1, <1>2, <1>3, ReusableIsRecord

-----------------------------------------------------------------------------
\* Types.

LEMMA StagesTyped ==
  ASSUME TypeOK, job \in Jobs, NEW t \in Trials
  PROVE  /\ job[t] \in TrialInfo
         /\ FinalOf(t) \in Nat /\ StagesOf(t) = 1..FinalOf(t)
         /\ job[t].eligible => 1 \in StagesOf(t) /\ FinalOf(t) \in StagesOf(t)
<1>1. job[t] \in TrialInfo
  BY DEF TypeOK
<1>2. job[t].stages \in Seq(Patches)
  BY <1>1 DEF TrialInfo
<1>3. Len(job[t].stages) \in Nat /\ DOMAIN job[t].stages = 1..Len(job[t].stages)
  BY <1>2
<1>4. job[t].eligible => Len(job[t].stages) >= 2
  BY JobsAssumption
<1> QED
  BY <1>1, <1>3, <1>4 DEF FinalOf, StagesOf

LEMMA ScoreTyped ==
  ASSUME TypeOK, NEW t \in Trials, NEW s \in StagesOf(t)
  PROVE  StageScore(t, s) \in Score
<1>1. job[t].eval \in Rewards \union {None}
  BY DEF TypeOK, TrialInfo
<1>2. CASE UsesEval(t, s)
  BY <1>1, <1>2 DEF StageScore, UsesEval, Score
<1>3. CASE ~UsesEval(t, s)
  <2> DEFINE f == FingerprintUnder(planned, t, s)
  <2>1. CASE f \in DOMAIN works /\ works[f] # Pending
    <3>1. works[f] \in Record
      BY <2>1 DEF TypeOK
    <3>2. works[f].status \in {"success", "error"} /\ works[f].reward \in Rewards \union {None}
      BY <3>1 DEF Record
    <3> QED
      BY <1>3, <2>1, <3>2 DEF StageScore, DirectScore, Score
  <2>2. CASE ~(f \in DOMAIN works /\ works[f] # Pending)
    BY <1>3, <2>2 DEF StageScore, DirectScore, Score, Missed
  <2> QED
    BY <2>1, <2>2
<1> QED
  BY <1>2, <1>3

LEMMA PairTyped ==
  ASSUME TypeOK, job \in Jobs, NEW t \in Trials, job[t].eligible
  PROVE  PairOf(t) \in
           [initial : Rewards \union {None}, final : Rewards \union {None},
            delta : Int \union {None},
            class : {"incomplete", "improved", "harmed", "unchanged"},
            source : {"direct", "eval"}, itt : BOOLEAN,
            conformance : {"matched", "mismatched", "skipped", "unavailable"}]
<1> DEFINE initial == StageScore(t, 1).reward
           final == StageScore(t, FinalOf(t)).reward
           delta == IF initial \in Numbers /\ final \in Numbers THEN final - initial ELSE None
<1>1. initial \in Rewards \union {None} /\ final \in Rewards \union {None}
  BY StagesTyped, ScoreTyped DEF Score
<1> HIDE DEF initial, final
<1>2. delta \in Int \union {None}
  <2>1. CASE initial \in Numbers /\ final \in Numbers
    <3>1. initial \in Int /\ final \in Int
      BY <2>1, NumberAssumption
    <3> QED
      BY <2>1, <3>1
  <2>2. CASE ~(initial \in Numbers /\ final \in Numbers)
    BY <2>2
  <2> QED
    BY <2>1, <2>2
<1>3. Conformance(t) \in {"matched", "mismatched", "skipped", "unavailable"}
  BY DEF Conformance
<1>4. Classify(delta) \in {"incomplete", "improved", "harmed", "unchanged"}
  BY DEF Classify
<1> HIDE DEF delta
<1>5. PairOf(t) = [initial |-> initial, final |-> final, delta |-> delta,
                   class |-> Classify(delta),
                   source |-> IF options.reuse THEN "eval" ELSE "direct",
                   conformance |-> Conformance(t),
                   itt |-> delta # None /\ Conformance(t) \in {"matched", "skipped"}]
  BY DEF PairOf, initial, final, delta
<1> QED
  BY <1>1, <1>2, <1>3, <1>4, <1>5

LEMMA TableTyped ==
  ASSUME TypeOK, RunInv, pc # "idle", NEW t \in EligibleOf(options)
  PROVE  TableOf(t) \in Table
<1>1. t \in Trials /\ job[t].eligible /\ planned[job[t].task] # Missing
  BY DEF TypeOK, RunInv, EligibleOf, Options, PlanComplete
<1>2. StagesOf(t) = 1..FinalOf(t) /\ FinalOf(t) \in Nat
  BY <1>1, StagesTyped DEF RunInv
<1>3. \A s \in StagesOf(t) : FingerprintUnder(planned, t, s) \in Fingerprint
  BY <1>1, FingerprintTyped DEF TypeOK
<1>4. [s \in StagesOf(t) |-> FingerprintUnder(planned, t, s)] \in Seq(Fingerprint)
  BY <1>2, <1>3
<1>5. [s \in StagesOf(t) |-> StageScore(t, s)] \in Seq(Score)
  BY <1>1, <1>2, ScoreTyped
<1>6. run \in Nat \ {0}
  BY DEF TypeOK, RunInv
<1> QED
  BY <1>1, <1>4, <1>5, <1>6, PairTyped DEF TableOf, Table, RunInv

\* A record of the ledger has the run it belongs to.
LEMMA StampTyped ==
  ASSUME TypeOK
  PROVE  /\ \A t \in Trials : tables[t].run \in Nat
         /\ summary.run \in Nat
         /\ \A i \in DOMAIN JobFiles : files[i] \in Nat
<1>1. \A x \in {NoTable} \union Table : x.run \in Nat
  BY DEF NoTable, Table
<1>2. \A x \in {[run |-> 0]} \union Summary : x.run \in Nat
  BY DEF Summary
<1> QED
  BY <1>1, <1>2 DEF TypeOK

-----------------------------------------------------------------------------
\* TypeOK and RunInv are kept by every step.

CoreInv == TypeOK /\ RunInv

LEMMA InitCore == Init => CoreInv
<1> SUFFICES ASSUME Init PROVE CoreInv
  OBVIOUS
<1>1. job \in [Trials -> TrialInfo]
  BY JobsAssumption DEF Init
<1>2. options \in Options /\ planned \in [Tasks -> Versions \union {Missing}]
  BY DEF Init, NoOptions, NothingPlanned, Options
<1>3. content \in [Tasks -> Versions \union {Missing}]
  BY DEF Init
<1>4. results \in [Trials -> [Fingerprint -> ResultFile]]
  BY DEF Init, ResultFile
<1>5. tables \in [Trials -> {NoTable} \union Table]
  BY DEF Init
<1>6. files \in [DOMAIN JobFiles -> Nat] /\ run \in Nat /\ summary \in {[run |-> 0]} \union Summary
  BY DEF Init
<1>7. works = Empty /\ active = Empty /\ DOMAIN Empty = {} /\ waiting = {} /\ verdicts = {}
  BY DEF Init, Empty
<1> QED
  BY <1>1, <1>2, <1>3, <1>4, <1>5, <1>6, <1>7 DEF Init, CoreInv, TypeOK, RunInv

LEMMA ForgetCore ==
  ASSUME CoreInv, MemoryLost, UNCHANGED <<job, content, tables, files, run, verdicts>>,
         summary' \in {[run |-> 0]} \union Summary,
         results' \in [Trials -> [Fingerprint -> ResultFile]]
  PROVE  CoreInv'
<1>1. options' \in Options /\ planned' \in [Tasks -> Versions \union {Missing}]
  BY DEF MemoryLost, NoOptions, NothingPlanned, Options
<1>2. works' = Empty /\ active' = Empty /\ DOMAIN Empty = {} /\ waiting' = {} /\ pc' = "idle"
  BY DEF MemoryLost, Empty
<1> QED
  BY <1>1, <1>2 DEF CoreInv, TypeOK, RunInv

\* What does not concern the run in progress.
LEMMA RunUndisturbed ==
  ASSUME RunInv, UNCHANGED <<job, run, pc, memory>>
  PROVE  RunInv'
BY DEF RunInv, memory, PlanComplete, EligibleOf, UniqueWork, Asking, FingerprintUnder, SkipDirect,
     StagesOf, FinalOf

LEMMA PlanCore ==
  ASSUME CoreInv, NEW o \in OptionSets, Plan(o)
  PROVE  CoreInv'
<1> DEFINE W == UniqueWork(o, content)
           C == CachedWork(o, content)
<1>1. o \in Options
  BY OptionsAssumption
<1>2. PlanComplete(o, content)
  BY DEF Plan, Refused, PlanComplete
<1>3. W \subseteq Fingerprint
  BY <1>1, <1>2, WorkTyped DEF CoreInv, TypeOK
<1>4. C \subseteq W
  BY DEF CachedWork
<1>5. \A f \in C : results[Hit(o, f)][f] \in Record
  BY <1>3, <1>4, CachedIsRecord DEF CoreInv
<1> HIDE DEF W, C
<1>6. /\ works' = [f \in W |-> IF f \in C THEN results[Hit(o, f)][f] ELSE Pending]
      /\ waiting' = W \ C /\ active' = Empty /\ DOMAIN Empty = {}
      /\ options' = o /\ planned' = content /\ pc' = "verifying" /\ run' = run + 1
      /\ UNCHANGED <<job, content, disk, verdicts>>
  BY DEF Plan, W, C, Empty
<1>7. DOMAIN works' = W
  BY <1>6
<1>8. \A f \in W : works'[f] \in {Pending} \union Record /\ (works'[f] = Pending <=> f \in W \ C)
  BY <1>5, <1>6, SortsDiffer
<1>9. UniqueWork(options, planned)' = W /\ PlanComplete(options, planned)'
  BY <1>2, <1>6 DEF PlanComplete, EligibleOf, UniqueWork, Asking, FingerprintUnder, SkipDirect,
       StagesOf, FinalOf, W
<1>10. RunInv'
  BY <1>6, <1>7, <1>8, <1>9 DEF RunInv, CoreInv, TypeOK
<1>11. TypeOK'
  BY <1>1, <1>3, <1>6, <1>7, <1>8 DEF CoreInv, TypeOK, disk
<1> QED
  BY <1>10, <1>11 DEF CoreInv

\* Verifications are in progress only while the run verifies.
LEMMA WorkingIsVerifying ==
  ASSUME CoreInv, NEW f \in DOMAIN active
  PROVE  pc = "verifying"
BY DEF CoreInv, RunInv, TypeOK, Empty

LEMMA WorkCore ==
  ASSUME CoreInv, NEW f \in Fingerprint, Admit(f) \/ Retry(f) \/ Finish(f)
  PROVE  CoreInv'
<1>0. UniqueWork(options, planned)' = UniqueWork(options, planned)
      /\ (PlanComplete(options, planned) => PlanComplete(options, planned)')
  BY DEF PlanComplete, EligibleOf, UniqueWork, Asking, FingerprintUnder, SkipDirect, StagesOf,
       FinalOf, Admit, Retry, Finish
<1>1. CASE Admit(f)
  <2>1. DOMAIN active' = DOMAIN active \union {f} /\ waiting' = waiting \ {f} /\ f \in waiting
    BY <1>1 DEF Admit
  <2>2. \A g \in DOMAIN active' : active'[g] \in 1..MaxAttempts
    BY <1>1, SizeAssumption DEF Admit, CoreInv, TypeOK
  <2>3. TypeOK'
    BY <1>1, <2>1, <2>2 DEF Admit, CoreInv, TypeOK, disk
  <2>4. RunInv'
    BY <1>0, <1>1, <2>1 DEF Admit, CoreInv, RunInv, disk
  <2> QED
    BY <2>3, <2>4 DEF CoreInv
<1>2. CASE Retry(f)
  <2>1. DOMAIN active' = DOMAIN active
    BY <1>2 DEF Retry
  <2>2. \A g \in DOMAIN active' : active'[g] \in 1..MaxAttempts
    BY <1>2, SizeAssumption DEF Retry, Retries, CoreInv, TypeOK
  <2>3. TypeOK'
    BY <1>2, <2>1, <2>2 DEF Retry, CoreInv, TypeOK, disk
  <2>4. f \in DOMAIN active /\ UNCHANGED <<job, run, pc, options, planned, works, waiting>>
    BY <1>2 DEF Retry
  <2>5. pc = "verifying"
    BY <2>4, WorkingIsVerifying
  <2>6. RunInv'
    BY <1>0, <2>1, <2>4, <2>5 DEF CoreInv, RunInv
  <2> QED
    BY <2>3, <2>6 DEF CoreInv
<1>3. CASE Finish(f)
  <2>1. PICK r \in Verdicts(f) :
          /\ verdicts' = verdicts \union {[work |-> f, record |-> r]}
          /\ works' = [works EXCEPT ![f] = r]
          /\ results' = [results EXCEPT ![Owner(f)][f] = r]
    BY <1>3 DEF Finish
  <2>2. r \in Record
    BY VerdictTyped DEF CoreInv
  <2>3. DOMAIN active' = DOMAIN active \ {f} /\ f \in DOMAIN active
        /\ \A g \in DOMAIN active' : active'[g] = active[g]
    BY <1>3 DEF Finish
  <2>4. DOMAIN works' = DOMAIN works /\ f \in DOMAIN works /\ works'[f] = r
        /\ \A g \in DOMAIN works \ {f} : works'[g] = works[g]
    BY <2>1, <2>3 DEF CoreInv, TypeOK
  <2>5. results' \in [Trials -> [Fingerprint -> ResultFile]]
    BY <2>1, <2>2 DEF CoreInv, TypeOK, ResultFile
  <2>6. verdicts' \subseteq [work : Fingerprint, record : Record]
    BY <2>1, <2>2 DEF CoreInv, TypeOK
  <2>7. TypeOK'
    BY <1>3, <2>2, <2>3, <2>4, <2>5, <2>6 DEF Finish, CoreInv, TypeOK
  <2>8. r # Pending
    BY <2>2, SortsDiffer
  <2>9. UNCHANGED <<job, run, pc, options, planned, waiting>>
    BY <1>3 DEF Finish
  <2>10. pc = "verifying"
    BY <2>3, WorkingIsVerifying
  <2>11. RunInv'
    BY <1>0, <2>3, <2>4, <2>8, <2>9, <2>10 DEF CoreInv, RunInv
  <2> QED
    BY <2>7, <2>11 DEF CoreInv
<1> QED
  BY <1>1, <1>2, <1>3

LEMMA StepCore == CoreInv /\ [Next]_vars => CoreInv'
<1> SUFFICES ASSUME CoreInv, [Next]_vars PROVE CoreInv'
  OBVIOUS
<1>1. CASE \E k \in Tasks : EditTask(k)
  <2>1. content' \in [Tasks -> Versions \union {Missing}]
    BY <1>1 DEF EditTask, CoreInv, TypeOK
  <2>2. UNCHANGED <<job, disk, run, pc, memory, verdicts>>
    BY <1>1 DEF EditTask
  <2> QED
    BY <2>1, <2>2, RunUndisturbed DEF CoreInv, TypeOK, disk, memory
<1>2. CASE \E o \in OptionSets : Refuse(o)
  <2>1. run' \in Nat /\ pc = "idle" /\ UNCHANGED <<job, content, disk, pc, memory, verdicts>>
    BY <1>2 DEF Refuse, CoreInv, TypeOK
  <2>2. RunInv'
    BY <2>1 DEF CoreInv, RunInv, memory
  <2> QED
    BY <2>1, <2>2 DEF CoreInv, TypeOK, disk, memory
<1>3. CASE Gathered
  <2>1. UNCHANGED <<job, content, disk, run, memory, verdicts>> /\ pc' = "writing"
        /\ pc = "verifying" /\ waiting = {} /\ DOMAIN active = {}
    BY <1>3 DEF Gathered
  <2>2. UniqueWork(options, planned)' = UniqueWork(options, planned)
        /\ (PlanComplete(options, planned) => PlanComplete(options, planned)')
    BY <2>1 DEF PlanComplete, EligibleOf, UniqueWork, Asking, FingerprintUnder, SkipDirect,
         StagesOf, FinalOf, memory
  <2>3. RunInv'
    BY <2>1, <2>2 DEF CoreInv, RunInv, memory
  <2> QED
    BY <2>1, <2>3 DEF CoreInv, TypeOK, disk, memory
<1>4. ASSUME NEW t \in Trials, WriteTable(t) PROVE CoreInv'
  <2>1. t \in EligibleOf(options) /\ pc = "writing" /\ tables' = [tables EXCEPT ![t] = TableOf(t)]
        /\ UNCHANGED <<job, content, results, files, summary, run, pc, memory, verdicts>>
    BY <1>4 DEF WriteTable
  <2>2. TableOf(t) \in Table
    BY <2>1, TableTyped DEF CoreInv
  <2>3. tables' \in [Trials -> {NoTable} \union Table]
    BY <2>1, <2>2 DEF CoreInv, TypeOK
  <2> QED
    BY <2>1, <2>3, RunUndisturbed DEF CoreInv, TypeOK, memory
<1>5. ASSUME NEW i \in DOMAIN JobFiles, WriteJobFile(i) PROVE CoreInv'
  <2>1. files' \in [DOMAIN JobFiles -> Nat]
        /\ UNCHANGED <<job, content, results, tables, summary, run, pc, memory, verdicts>>
    BY <1>5 DEF WriteJobFile, CoreInv, TypeOK
  <2> QED
    BY <2>1, RunUndisturbed DEF CoreInv, TypeOK, memory
<1>6. CASE WriteSummary
  <2>1. ExitCode \in {0, 1}
    BY DEF ExitCode
  <2>2. summary' \in Summary
    BY <1>6, <2>1 DEF WriteSummary, Summary, CoreInv, TypeOK, RunInv
  <2> QED
    BY <1>6, <2>2, ForgetCore DEF WriteSummary, CoreInv, TypeOK
<1>7. CASE Die
  <2>1. results \in [Trials -> [Fingerprint -> ResultFile]] /\ Torn \in ResultFile
    BY DEF CoreInv, TypeOK, ResultFile
  <2>2. UNCHANGED results \/ \E f \in DOMAIN active : results' = [results EXCEPT ![Owner(f)][f] = Torn]
    BY <1>7 DEF Die
  <2>3. results' \in [Trials -> [Fingerprint -> ResultFile]]
    BY <2>1, <2>2
  <2> QED
    BY <1>7, <2>3, ForgetCore DEF Die, CoreInv, TypeOK
<1>8. CASE UNCHANGED vars
  BY <1>8, RunUndisturbed DEF vars, disk, memory, CoreInv, TypeOK
<1> QED
  BY <1>1, <1>2, <1>3, <1>4, <1>5, <1>6, <1>7, <1>8, NextCases, PlanCore, WorkCore

\* Types and the bookkeeping of a run (works, waiting, active) hold in every scored job.
THEOREM CoreInvariance == Spec => []CoreInv
BY InitCore, StepCore, PTL DEF Spec

\* Every variable has its type in every reachable state.
THEOREM ScoringTypeOK == Spec => []TypeOK
BY CoreInvariance, PTL DEF CoreInv

-----------------------------------------------------------------------------
\* Whose directory a work writes into, and what it leaves there.

LEMMA AskersAreStages ==
  ASSUME CoreInv
  PROVE  Asking(options) \in SUBSET (Trials \X Nat)
<1> SUFFICES ASSUME NEW a \in Asking(options) PROVE a \in Trials \X Nat
  OBVIOUS
<1>1. PICK t \in EligibleOf(options) : \E s \in StagesOf(t) : a = <<t, s>>
  BY DEF Asking
<1>2. t \in Trials
  BY EligibleAreTrials DEF CoreInv, TypeOK
<1>3. \A s \in StagesOf(t) : s \in Nat
  BY <1>2, StagesTyped DEF CoreInv, RunInv
<1> QED
  BY <1>1, <1>2, <1>3

\* The owner of a work is the first trial that asks for it.
LEMMA OwnerAsks ==
  ASSUME CoreInv, NEW f \in DOMAIN works
  PROVE  /\ pc # "idle"
         /\ \E a \in Asking(options) : a[1] = Owner(f) /\ FingerprintUnder(planned, a[1], a[2]) = f
         /\ \A a \in Asking(options) :
              FingerprintUnder(planned, a[1], a[2]) = f => Owner(f) <= a[1]
         /\ Owner(f) \in Trials /\ Owner(f) \in EligibleOf(options) /\ Owner(f) \in options.selected
<1>1. pc # "idle"
  BY DEF CoreInv, RunInv, Empty
<1> DEFINE A == {a \in Asking(options) : FingerprintUnder(planned, a[1], a[2]) = f}
<1>2. A # {}
  BY <1>1 DEF CoreInv, RunInv, UniqueWork
<1>3. A \in SUBSET (Trials \X Nat)
  BY AskersAreStages
<1> DEFINE c == CHOOSE x \in A : \A b \in A \ {x} : Before(x, b)
<1>4. FirstAsker(f) = c
  BY DEF FirstAsker
<1>5. FirstAsker(f) \in A /\ \A b \in A : FirstAsker(f)[1] <= b[1]
  <2> HIDE DEF A
  <2>1. c \in A /\ \A b \in A : c[1] <= b[1]
    BY ONLY <1>2, <1>3, FirstOf, Zenon
  <2> QED
    BY <1>4, <2>1
<1>6. FirstAsker(f)[1] \in EligibleOf(options)
  BY <1>5 DEF A, Asking
<1>7. FirstAsker(f)[1] \in Trials /\ FirstAsker(f)[1] \in options.selected
  BY <1>6, EligibleAreTrials DEF EligibleOf, CoreInv, TypeOK
<1> QED
  BY <1>1, <1>5, <1>6, <1>7 DEF A, Owner

\* The result file e stands in the place of the work f, everything else as before.
Stored(f, e) ==
  \A t \in Trials, g \in Fingerprint :
    results'[t][g] = IF t = Owner(f) /\ g = f THEN e ELSE results[t][g]

LEMMA StoredBy ==
  ASSUME CoreInv, NEW f \in DOMAIN works, NEW e, results' = [results EXCEPT ![Owner(f)][f] = e]
  PROVE  Stored(f, e)
<1>1. Owner(f) \in Trials
  BY OwnerAsks
<1>2. f \in Fingerprint
  BY DEF CoreInv, TypeOK
<1> QED
  BY <1>1, <1>2 DEF Stored, CoreInv, TypeOK

\* What a verification that ends leaves behind.
LEMMA FinishEffect ==
  ASSUME CoreInv, NEW f \in Fingerprint, Finish(f)
  PROVE  \E r \in Record :
           /\ r \in Verdicts(f)
           /\ verdicts' = verdicts \union {[work |-> f, record |-> r]}
           /\ Stored(f, r)
           /\ DOMAIN works' = DOMAIN works /\ works'[f] = r
           /\ \A g \in DOMAIN works \ {f} : works'[g] = works[g]
<1>1. PICK r \in Verdicts(f) :
        /\ verdicts' = verdicts \union {[work |-> f, record |-> r]}
        /\ works' = [works EXCEPT ![f] = r]
        /\ results' = [results EXCEPT ![Owner(f)][f] = r]
  BY DEF Finish
<1>2. f \in DOMAIN works
  BY DEF Finish, CoreInv, TypeOK
<1> QED
  BY <1>1, <1>2, VerdictTyped, StoredBy DEF CoreInv

LEMMA FinishFrame ==
  ASSUME CoreInv, NEW f \in Fingerprint, Finish(f)
  PROVE  /\ pc = "verifying" /\ f \in DOMAIN active /\ f \in DOMAIN works /\ works[f] = Pending
         /\ f \notin waiting
         /\ DOMAIN active' = DOMAIN active \ {f}
         /\ UNCHANGED <<job, content, tables, files, summary, run, pc, options, planned, waiting>>
<1>1. f \in DOMAIN active
  BY DEF Finish
<1>2. f \in DOMAIN works /\ works[f] = Pending /\ f \notin waiting
  BY <1>1 DEF CoreInv, TypeOK, RunInv
<1> QED
  BY <1>1, <1>2, WorkingIsVerifying DEF Finish

\* A run that dies leaves the files, or cuts off one that was being written.
LEMMA DieEffect ==
  ASSUME CoreInv, Die
  PROVE  UNCHANGED results \/ \E f \in DOMAIN active : f \in DOMAIN works /\ Stored(f, Torn)
BY StoredBy DEF Die, CoreInv, TypeOK

-----------------------------------------------------------------------------
\* Unforced, a run neither repeats nor damages what can be reused.

\* Where neither files nor queue grow, fresh work stays fresh.
LEMMA StillFresh ==
  ASSUME NoRepeatedWork, UNCHANGED <<results, options>>, pc' = pc,
         waiting' \union DOMAIN active' \subseteq waiting \union DOMAIN active
  PROVE  NoRepeatedWork'
BY DEF NoRepeatedWork, Hits

LEMMA StepFresh == CoreInv /\ NoRepeatedWork /\ [Next]_vars => NoRepeatedWork'
<1> SUFFICES ASSUME CoreInv, NoRepeatedWork, [Next]_vars PROVE NoRepeatedWork'
  OBVIOUS
<1>1. ASSUME NEW o \in OptionSets, Plan(o) PROVE NoRepeatedWork'
  <2>1. options' = o /\ results' = results /\ DOMAIN active' = {}
        /\ waiting' = UniqueWork(o, content) \ CachedWork(o, content)
    BY <1>1 DEF Plan, disk, Empty
  <2>2. ~o.force => \A f \in waiting' : Hits(o, f) = {}
    BY <2>1 DEF CachedWork
  <2> QED
    BY <2>1, <2>2 DEF NoRepeatedWork, Hits
<1>2. ASSUME NEW f \in Fingerprint, Finish(f) PROVE NoRepeatedWork'
  <2>1. PICK r \in Record : Stored(f, r)
    BY <1>2, FinishEffect
  <2>2. waiting' \union DOMAIN active' \subseteq (waiting \union DOMAIN active) \ {f}
        /\ options' = options /\ pc' = pc
    BY <1>2, FinishFrame
  <2>3. \A g \in Fingerprint \ {f} : Hits(options, g)' = Hits(options, g)
    BY <2>1, <2>2 DEF Hits, Stored, CoreInv, TypeOK, Options
  <2>4. waiting' \union DOMAIN active' \subseteq Fingerprint \ {f}
    BY <2>2 DEF CoreInv, TypeOK
  <2> QED
    BY <2>2, <2>3, <2>4 DEF NoRepeatedWork
<1>3. ASSUME NEW f \in Fingerprint, Admit(f) \/ Retry(f) PROVE NoRepeatedWork'
  <2>1. waiting' \union DOMAIN active' \subseteq waiting \union DOMAIN active
        /\ UNCHANGED <<results, options, pc>>
    BY <1>3 DEF Admit, Retry, disk
  <2> QED
    BY <2>1, StillFresh
<1>4. CASE \/ \E k \in Tasks : EditTask(k)
           \/ \E o \in OptionSets : Refuse(o)
           \/ \E t \in Trials : WriteTable(t)
           \/ \E i \in DOMAIN JobFiles : WriteJobFile(i)
           \/ UNCHANGED vars
  <2>1. UNCHANGED <<results, options, pc, waiting, active>>
    BY <1>4 DEF EditTask, Refuse, WriteTable, WriteJobFile, vars, disk, memory
  <2> QED
    BY <2>1, StillFresh
<1>5. CASE Gathered \/ WriteSummary \/ Die
  BY <1>5 DEF Gathered, WriteSummary, Die, MemoryLost, NoRepeatedWork
<1> QED
  BY <1>1, <1>2, <1>3, <1>4, <1>5, NextCases

\* Only work in progress touches a file, and only that of its owner.
LEMMA StepKept ==
  ASSUME CoreInv, NoRepeatedWork, [Next]_vars,
         NEW t \in Trials, NEW f \in Fingerprint,
         Reusable(results[t][f]), results'[t][f] # results[t][f]
  PROVE  options.force
<1>1. PICK g \in DOMAIN active : g \in DOMAIN works /\ \E e : Stored(g, e)
  <2>1. CASE \E h \in Fingerprint : Finish(h)
    BY <2>1, FinishEffect, FinishFrame
  <2>2. CASE Die
    BY <2>2, DieEffect
  <2>3. CASE ~((\E h \in Fingerprint : Finish(h)) \/ Die)
    BY <2>3, NextCases DEF EditTask, Refuse, Plan, Admit, Retry, Gathered, WriteTable, WriteJobFile,
         WriteSummary, vars, disk
  <2> QED
    BY <2>1, <2>2, <2>3
<1>2. t = Owner(g) /\ f = g
  BY <1>1 DEF Stored
<1>3. t \in options.selected
  BY <1>1, <1>2, OwnerAsks
<1>4. pc = "verifying"
  BY <1>1, WorkingIsVerifying
<1> QED
  BY <1>1, <1>2, <1>3, <1>4 DEF NoRepeatedWork, Hits

\* However often runs start, die and overlap with edits, an unforced run
\* verifies no patch whose answer lies in a result file of its trials.
THEOREM NoRepeatedWorkHolds == Spec => []NoRepeatedWork
<1>1. Init => NoRepeatedWork
  BY DEF Init, NoRepeatedWork
<1> QED
  BY <1>1, CoreInvariance, StepFresh, PTL DEF Spec

\* Only a forced run may replace or damage a reusable result, whatever dies.
THEOREM SuccessKeptHolds == Spec => SuccessKept
<1>1. CoreInv /\ NoRepeatedWork /\ [Next]_vars =>
        [\A t \in Trials, f \in Fingerprint :
           Reusable(results[t][f]) /\ results'[t][f] # results[t][f] => options.force]_vars
  BY StepKept
<1> QED
  BY <1>1, CoreInvariance, NoRepeatedWorkHolds, PTL DEF Spec, SuccessKept

-----------------------------------------------------------------------------
\* What the files of a run are stamped with, and what its tables hold.

TablesAtMost(n) == \A t \in Trials : tables[t].run <= n
FilesAtMost(n) == \A i \in DOMAIN JobFiles : files[i] <= n

StampInv ==
  /\ TablesAtMost(run) /\ FilesAtMost(run) /\ summary.run <= run
  /\ pc = "verifying" => \A t \in Trials : tables[t].run < run
  /\ pc # "idle" => summary.run < run
  /\ SummaryLast

\* The tables written so far are those the run would write now.
TableInv ==
  /\ pc = "writing" =>
       \A t \in EligibleOf(options) : Written(t) => tables[t] = TableOf(t)
  /\ ExitZeroMeansComplete

\* Steps that write none of the files that carry a stamp and start no run.
LEMMA StampsStay ==
  ASSUME StampInv, UNCHANGED <<job, tables, files, summary, run>>, pc' \in {pc, "idle"}
  PROVE  StampInv'
BY DEF StampInv, TablesAtMost, FilesAtMost, SummaryLast, EligibleOf

LEMMA StepStamp == CoreInv /\ StampInv /\ [Next]_vars => StampInv'
<1> SUFFICES ASSUME CoreInv, StampInv, [Next]_vars PROVE StampInv'
  OBVIOUS
<1>0. /\ \A t \in Trials : tables[t].run \in Nat
      /\ summary.run \in Nat /\ run \in Nat
      /\ \A i \in DOMAIN JobFiles : files[i] \in Nat
  BY StampTyped DEF CoreInv, TypeOK
<1>1. ASSUME NEW o \in OptionSets, Refuse(o) \/ Plan(o) PROVE StampInv'
  <2>1. run' = run + 1 /\ UNCHANGED <<job, tables, files, summary>>
    BY <1>1 DEF Refuse, Plan, disk
  <2> QED
    BY <1>0, <2>1 DEF StampInv, TablesAtMost, FilesAtMost, SummaryLast, EligibleOf
<1>2. CASE Gathered
  <2>1. UNCHANGED <<job, tables, files, summary, run>> /\ pc = "verifying" /\ pc' = "writing"
    BY <1>2 DEF Gathered, disk
  <2> QED
    BY <2>1 DEF StampInv, TablesAtMost, FilesAtMost, SummaryLast, EligibleOf
<1>3. ASSUME NEW t \in Trials, WriteTable(t) PROVE StampInv'
  <2>1. tables' = [tables EXCEPT ![t] = TableOf(t)] /\ pc = "writing" /\ TableOf(t).run = run
        /\ UNCHANGED <<job, files, summary, run, pc>>
    BY <1>3 DEF WriteTable, TableOf
  <2>2. \A u \in Trials : tables'[u].run = IF u = t THEN run ELSE tables[u].run
    BY <2>1 DEF CoreInv, TypeOK
  <2>3. summary.options \in Options \/ summary.run = 0
    BY DEF CoreInv, TypeOK, Summary
  <2>4. summary.run > 0 => EligibleOf(summary.options) \subseteq Trials
    BY <2>3, EligibleAreTrials
  <2>5. summary'.run > 0 =>
          \A u \in EligibleOf(summary.options)' : tables'[u].run >= summary'.run
    <3>1. EligibleOf(summary.options)' = EligibleOf(summary.options)
      BY <2>1 DEF EligibleOf
    <3> QED
      BY <1>0, <2>1, <2>2, <2>4, <3>1 DEF StampInv, SummaryLast
  <2> QED
    BY <1>0, <2>1, <2>2, <2>5 DEF StampInv, TablesAtMost, FilesAtMost, SummaryLast
<1>4. ASSUME NEW i \in DOMAIN JobFiles, WriteJobFile(i) PROVE StampInv'
  <2>1. files' = [files EXCEPT ![i] = run] /\ UNCHANGED <<job, tables, summary, run, pc>>
    BY <1>4 DEF WriteJobFile
  <2>2. \A j \in DOMAIN JobFiles : files'[j] = IF j = i THEN run ELSE files[j]
    BY <2>1 DEF CoreInv, TypeOK
  <2> QED
    BY <1>0, <2>1, <2>2 DEF StampInv, TablesAtMost, FilesAtMost, SummaryLast, EligibleOf
<1>5. CASE WriteSummary
  <2>1. summary'.run = run /\ summary'.options = options /\ pc' = "idle"
        /\ UNCHANGED <<job, tables, files, run>> /\ SummaryReady
    BY <1>5 DEF WriteSummary, MemoryLost
  <2>2. \A t \in EligibleOf(options) : tables[t].run = run
    BY <2>1 DEF SummaryReady, TablesWritten, Written
  <2>3. \A i \in DOMAIN JobFiles : files[i] = run
    BY <2>1 DEF SummaryReady
  <2>4. EligibleOf(summary.options)' = EligibleOf(options)
    BY <2>1 DEF EligibleOf
  <2> QED
    BY <1>0, <2>1, <2>2, <2>3, <2>4 DEF StampInv, TablesAtMost, FilesAtMost, SummaryLast
<1>6. CASE \/ \E k \in Tasks : EditTask(k)
           \/ \E f \in Fingerprint : Admit(f) \/ Retry(f) \/ Finish(f)
           \/ Die \/ UNCHANGED vars
  <2>1. UNCHANGED <<job, tables, files, summary, run>> /\ pc' \in {pc, "idle"}
    BY <1>6 DEF EditTask, Admit, Retry, Finish, Die, MemoryLost, vars, disk
  <2> QED
    BY <2>1, StampsStay
<1> QED
  BY <1>1, <1>2, <1>3, <1>4, <1>5, <1>6, NextCases

\* A pair that enters the primary analysis is made of two numbers.
LEMMA PairWhole ==
  ASSUME NEW t, PairOf(t).delta # None,
         options.reuse \/ Conformance(t) \notin {"mismatched", "unavailable"}
  PROVE  PairOf(t).itt /\ {PairOf(t).initial, PairOf(t).final} \subseteq Numbers
<1>1. Conformance(t) \in {"matched", "skipped"}
  BY DEF Conformance
<1> QED
  BY <1>1 DEF PairOf

\* A table depends on the plan and the records of the run, and on no file.
LEMMA SameTable ==
  ASSUME UNCHANGED <<job, run, options, planned, works>>, NEW t
  PROVE  TableOf(t)' = TableOf(t) /\ EligibleOf(options)' = EligibleOf(options)
BY DEF TableOf, PairOf, StageScore, UsesEval, DirectScore, Conformance, Classify,
     FingerprintUnder, StagesOf, FinalOf, EligibleOf

LEMMA ExitStays ==
  ASSUME ExitZeroMeansComplete, UNCHANGED <<job, tables, summary>>
  PROVE  ExitZeroMeansComplete'
BY DEF ExitZeroMeansComplete, EligibleOf

LEMMA StepTable == CoreInv /\ StampInv /\ TableInv /\ [Next]_vars => TableInv'
<1> SUFFICES ASSUME CoreInv, StampInv, TableInv, [Next]_vars PROVE TableInv'
  OBVIOUS
<1>0. /\ \A t \in Trials : tables[t].run \in Nat
      /\ summary.run \in Nat /\ run \in Nat
      /\ EligibleOf(options) \subseteq Trials
  BY StampTyped, EligibleAreTrials DEF CoreInv, TypeOK
<1>1. CASE Gathered
  <2>1. UNCHANGED <<job, tables, summary, run, options>> /\ pc = "verifying"
    BY <1>1 DEF Gathered, disk, memory
  <2>2. \A t \in EligibleOf(options)' : ~Written(t)'
    BY <1>0, <2>1 DEF StampInv, Written, EligibleOf
  <2> QED
    BY <2>1, <2>2, ExitStays DEF TableInv
<1>2. ASSUME NEW t \in Trials, WriteTable(t) PROVE TableInv'
  <2>1. tables' = [tables EXCEPT ![t] = TableOf(t)] /\ pc = "writing" /\ TableOf(t).run = run
        /\ UNCHANGED <<job, summary, run, pc, options, planned, works>>
    BY <1>2 DEF WriteTable, TableOf, memory
  <2>2. \A u \in Trials : tables'[u] = IF u = t THEN TableOf(t) ELSE tables[u]
    BY <2>1 DEF CoreInv, TypeOK
  <2>3. \A u \in EligibleOf(options)' : Written(u)' => tables'[u] = TableOf(u)'
    BY <1>0, <2>1, <2>2, SameTable DEF TableInv, Written
  <2>4. summary.run < run
    BY <2>1 DEF StampInv
  <2>5. ExitZeroMeansComplete'
    <3>1. EligibleOf(summary.options)' = EligibleOf(summary.options)
      BY <2>1 DEF EligibleOf
    <3>2. summary.run > 0 => EligibleOf(summary.options) \subseteq Trials
      BY EligibleAreTrials DEF CoreInv, TypeOK, Summary
    <3>3. ASSUME NEW u \in EligibleOf(summary.options), summary.run > 0, tables'[u].run = summary.run
          PROVE  tables'[u] = tables[u]
      BY <1>0, <2>1, <2>2, <2>4, <3>2, <3>3
    <3> QED
      BY <2>1, <3>1, <3>3 DEF TableInv, ExitZeroMeansComplete
  <2> QED
    BY <2>3, <2>5 DEF TableInv
<1>3. CASE WriteSummary
  <2>1. summary'.run = run /\ summary'.options = options /\ summary'.exit = ExitCode /\ pc' = "idle"
        /\ UNCHANGED <<job, tables, run>> /\ SummaryReady /\ pc = "writing"
    BY <1>3 DEF WriteSummary, MemoryLost
  <2>2. EligibleOf(summary.options)' = EligibleOf(options)
    BY <2>1 DEF EligibleOf
  <2>3. ASSUME NEW t \in EligibleOf(options), ExitCode = 0
        PROVE  /\ tables[t].pair.itt
               /\ {tables[t].pair.initial, tables[t].pair.final} \subseteq Numbers
    <3>1. tables[t] = TableOf(t)
      BY <2>1 DEF TableInv, SummaryReady, TablesWritten
    <3>2. tables[t].pair = PairOf(t)
      BY <3>1 DEF TableOf
    <3>3. PairOf(t).delta # None
          /\ (options.reuse \/ Conformance(t) \notin {"mismatched", "unavailable"})
      BY <2>3 DEF ExitCode
    <3> QED
      BY <3>2, <3>3, PairWhole
  <2> QED
    BY <2>1, <2>2, <2>3 DEF TableInv, ExitZeroMeansComplete
<1>4. CASE \/ \E i \in DOMAIN JobFiles : WriteJobFile(i)
           \/ \E k \in Tasks : EditTask(k)
           \/ UNCHANGED vars
  <2>1. UNCHANGED <<job, tables, summary, run, pc, options, planned, works>>
    BY <1>4 DEF WriteJobFile, EditTask, vars, disk, memory
  <2> QED
    BY <2>1, SameTable, ExitStays DEF TableInv, Written
<1>5. CASE \/ \E o \in OptionSets : Refuse(o) \/ Plan(o)
           \/ \E f \in Fingerprint : Admit(f) \/ Retry(f) \/ Finish(f)
           \/ Die
  <2>1. UNCHANGED <<job, tables, summary>>
    BY <1>5 DEF Refuse, Plan, Admit, Retry, Finish, Die, disk
  <2>2. pc' # "writing"
    <3>1. CASE \E f \in Fingerprint : Finish(f) \/ Retry(f)
      BY <3>1, WorkingIsVerifying DEF Finish, Retry
    <3>2. CASE ~\E f \in Fingerprint : Finish(f) \/ Retry(f)
      BY <1>5, <3>2 DEF Refuse, Plan, Admit, Die, MemoryLost
    <3> QED
      BY <3>1, <3>2
  <2> QED
    BY <2>1, <2>2, ExitStays DEF TableInv
<1> QED
  BY <1>1, <1>2, <1>3, <1>4, <1>5, NextCases

\* Files are stamped with no later run than the one in progress, and the tables a run has
\* written are the ones it would write now.
THEOREM StampInvariance == Spec => [](CoreInv /\ StampInv /\ TableInv)
<1>1. Init => StampInv /\ TableInv
  <2> SUFFICES ASSUME Init PROVE StampInv /\ TableInv
    OBVIOUS
  <2>1. (\A t \in Trials : tables[t].run = 0) /\ summary.run = 0 /\ run = 0 /\ pc = "idle"
        /\ \A i \in DOMAIN JobFiles : files[i] = 0
    BY DEF Init, NoTable
  <2> QED
    BY <2>1 DEF StampInv, TableInv, TablesAtMost, FilesAtMost, SummaryLast, ExitZeroMeansComplete
<1>2. CoreInv /\ StampInv /\ TableInv /\ [Next]_vars => StampInv' /\ TableInv'
  BY StepStamp, StepTable
<1> QED
  BY <1>1, <1>2, CoreInvariance, PTL DEF Spec

\* summary.json never tells of a run whose tables are not all on disk.
THEOREM SummaryLastHolds == Spec => []SummaryLast
<1>1. StampInv => SummaryLast
  BY DEF StampInv
<1> QED
  BY <1>1, StampInvariance, PTL

\* Exit code 0 promises a whole pair for every eligible trial of the run.
THEOREM ExitZeroMeansCompleteHolds == Spec => []ExitZeroMeansComplete
<1>1. TableInv => ExitZeroMeansComplete
  BY DEF TableInv
<1> QED
  BY <1>1, StampInvariance, PTL

-----------------------------------------------------------------------------
\* What a result was measured on.

\* Where tasks stand still, the run tests what its plan took the digests of.
VersionInv == (pc # "idle" => content = planned) /\ GradedUnderFingerprint

LEMMA PlannedVersion ==
  ASSUME CoreInv, NEW f \in DOMAIN works
  PROVE  \E a \in Asking(options) :
           /\ f = FingerprintUnder(planned, a[1], a[2])
           /\ f.origin = job[a[1]].origin /\ f.task = job[a[1]].task
           /\ f.patch = job[a[1]].stages[a[2]] /\ f.version = planned[f.task]
<1>1. pc # "idle"
  BY DEF CoreInv, RunInv, Empty
<1>2. PICK a \in Asking(options) : f = FingerprintUnder(planned, a[1], a[2])
  BY <1>1 DEF CoreInv, RunInv, UniqueWork
<1> QED
  BY <1>2 DEF FingerprintUnder

LEMMA StepVersion ==
  ~EditsDuringRun /\ CoreInv /\ VersionInv /\ [Next]_vars => VersionInv'
<1> SUFFICES ASSUME ~EditsDuringRun, CoreInv, VersionInv, [Next]_vars PROVE VersionInv'
  OBVIOUS
<1>1. ASSUME NEW k \in Tasks, EditTask(k) PROVE VersionInv'
  BY <1>1 DEF EditTask, disk, memory, VersionInv, GradedUnderFingerprint
<1>2. ASSUME NEW o \in OptionSets, Plan(o) PROVE VersionInv'
  BY <1>2 DEF Plan, disk, VersionInv, GradedUnderFingerprint
<1>3. ASSUME NEW f \in Fingerprint, Finish(f) PROVE VersionInv'
  <2>1. PICK r \in Verdicts(f) : Stored(f, r)
    BY <1>3, FinishEffect
  <2>2. r.under = content[f.task]
    BY DEF Verdicts
  <2>3. pc = "verifying" /\ f \in DOMAIN works /\ UNCHANGED <<pc, content, planned>>
    BY <1>3, FinishFrame
  <2>4. f.version = planned[f.task]
    BY <2>3, PlannedVersion
  <2> QED
    BY <2>1, <2>2, <2>3, <2>4 DEF Stored, VersionInv, GradedUnderFingerprint
<1>4. CASE Die
  <2>1. pc' = "idle"
    BY <1>4 DEF Die, MemoryLost
  <2>2. \A t \in Trials, f \in Fingerprint :
          results'[t][f] = results[t][f] \/ ~Reusable(results'[t][f])
    BY <1>4, DieEffect, SortsDiffer DEF Stored
  <2> QED
    BY <2>1, <2>2 DEF VersionInv, GradedUnderFingerprint
<1>5. CASE \/ \E o \in OptionSets : Refuse(o)
           \/ \E f \in Fingerprint : Admit(f) \/ Retry(f)
           \/ Gathered
           \/ \E t \in Trials : WriteTable(t)
           \/ \E i \in DOMAIN JobFiles : WriteJobFile(i)
           \/ UNCHANGED vars
  <2>1. UNCHANGED <<results, content, planned>> /\ (pc = "idle" => pc' = "idle")
    BY <1>5 DEF Refuse, Admit, Retry, Gathered, WriteTable, WriteJobFile, vars, disk, memory
  <2> QED
    BY <2>1 DEF VersionInv, GradedUnderFingerprint
<1>6. CASE WriteSummary
  BY <1>6 DEF WriteSummary, MemoryLost, VersionInv, GradedUnderFingerprint
<1> QED
  BY <1>1, <1>2, <1>3, <1>4, <1>5, <1>6, NextCases

\* While nobody edits a task during a run, a reusable result was measured on
\* the very task definition its fingerprint names.
THEOREM GradedUnderFingerprintHolds ==
  ~EditsDuringRun => (Spec => []GradedUnderFingerprint)
<1> SUFFICES ASSUME ~EditsDuringRun PROVE Spec => []GradedUnderFingerprint
  OBVIOUS
<1>1. Init => VersionInv
  BY SortsDiffer DEF Init, VersionInv, GradedUnderFingerprint
<1>2. CoreInv /\ VersionInv /\ [Next]_vars => VersionInv'
  BY StepVersion
<1>3. VersionInv => GradedUnderFingerprint
  BY DEF VersionInv
<1> QED
  BY <1>1, <1>2, <1>3, CoreInvariance, PTL DEF Spec

-----------------------------------------------------------------------------
\* Where results come from: what a file or the run holds was answered by a
\* verification of that very work, and a file lies with a trial that has the
\* patch.

Answer(f, r) == [work |-> f, record |-> r] \in verdicts

GivenInv ==
  /\ \A t \in Trials, f \in Fingerprint : results[t][f] \in Record => Answer(f, results[t][f])
  /\ \A f \in DOMAIN works : works[f] # Pending => Answer(f, works[f])
  /\ \A v \in verdicts : v.record.status = "error" => v.record.reward = None

HasPatch(t, f) ==
  /\ job[t].eligible
  /\ \E s \in StagesOf(t) :
       f.origin = job[t].origin /\ f.task = job[t].task /\ f.patch = job[t].stages[s]

PlaceInv ==
  \A t \in Trials, f \in Fingerprint : results[t][f] # Absent => HasPatch(t, f)

LEMMA StepGiven == CoreInv /\ GivenInv /\ [Next]_vars => GivenInv'
<1> SUFFICES ASSUME CoreInv, GivenInv, [Next]_vars PROVE GivenInv'
  OBVIOUS
<1> USE DEF GivenInv, Answer
<1>1. ASSUME NEW o \in OptionSets, Plan(o) PROVE GivenInv'
  <2> DEFINE W == UniqueWork(o, content)
  <2>1. UNCHANGED <<results, verdicts>>
        /\ works' = [f \in W |-> IF f \in CachedWork(o, content) THEN results[Hit(o, f)][f] ELSE Pending]
    BY <1>1 DEF Plan, disk
  <2>2. W \subseteq Fingerprint
    BY <1>1, OptionsAssumption, WorkTyped DEF Plan, Refused, PlanComplete, CoreInv, TypeOK
  <2>3. \A f \in CachedWork(o, content) : f \in W
    BY DEF CachedWork
  <2>4. ASSUME NEW f \in W, works'[f] # Pending PROVE Answer(f, works'[f])
    <3>1. f \in CachedWork(o, content) /\ works'[f] = results[Hit(o, f)][f]
      BY <2>1, <2>4
    <3>2. Hit(o, f) \in Trials /\ results[Hit(o, f)][f] \in Record
      BY <2>2, <3>1, CachedIsRecord DEF CoreInv
    <3> QED
      BY <2>2, <3>1, <3>2
  <2> HIDE DEF W
  <2>5. DOMAIN works' = W
    BY <2>1
  <2> QED
    BY <2>1, <2>4, <2>5
<1>2. ASSUME NEW f \in Fingerprint, Finish(f) PROVE GivenInv'
  <2>1. PICK r \in Record :
          /\ r \in Verdicts(f)
          /\ verdicts' = verdicts \union {[work |-> f, record |-> r]}
          /\ Stored(f, r)
          /\ DOMAIN works' = DOMAIN works /\ works'[f] = r
          /\ \A g \in DOMAIN works \ {f} : works'[g] = works[g]
    BY <1>2, FinishEffect
  <2>2. r.status = "error" => r.reward = None
    BY <2>1 DEF Verdicts
  <2>3. \A v \in verdicts' : v.record.status = "error" => v.record.reward = None
    BY <2>1, <2>2
  <2>4. \A t \in Trials, g \in Fingerprint :
          results'[t][g] \in Record => [work |-> g, record |-> results'[t][g]] \in verdicts'
    BY <2>1 DEF Stored
  <2>5. \A g \in DOMAIN works' :
          works'[g] # Pending => [work |-> g, record |-> works'[g]] \in verdicts'
    BY <2>1
  <2> QED
    BY <2>3, <2>4, <2>5
<1>3. CASE Die
  <2>1. DOMAIN works' = {} /\ verdicts' = verdicts
    BY <1>3 DEF Die, MemoryLost, Empty
  <2>2. \A t \in Trials, f \in Fingerprint :
          results'[t][f] = results[t][f] \/ results'[t][f] \notin Record
    BY <1>3, DieEffect, SortsDiffer DEF Stored
  <2> QED
    BY <2>1, <2>2
<1>4. CASE WriteSummary
  <2>1. DOMAIN works' = {} /\ UNCHANGED <<results, verdicts>>
    BY <1>4 DEF WriteSummary, MemoryLost, Empty
  <2> QED
    BY <2>1
<1>5. CASE \/ \E k \in Tasks : EditTask(k)
           \/ \E o \in OptionSets : Refuse(o)
           \/ \E f \in Fingerprint : Admit(f) \/ Retry(f)
           \/ Gathered
           \/ \E t \in Trials : WriteTable(t)
           \/ \E i \in DOMAIN JobFiles : WriteJobFile(i)
           \/ UNCHANGED vars
  <2>1. UNCHANGED <<results, works, verdicts>>
    BY <1>5 DEF EditTask, Refuse, Admit, Retry, Gathered, WriteTable, WriteJobFile, vars, disk, memory
  <2> QED
    BY <2>1
<1> QED
  BY <1>1, <1>2, <1>3, <1>4, <1>5, NextCases

LEMMA OwnerHasPatch ==
  ASSUME CoreInv, NEW f \in DOMAIN works
  PROVE  HasPatch(Owner(f), f)
<1>1. PICK a \in Asking(options) : a[1] = Owner(f) /\ FingerprintUnder(planned, a[1], a[2]) = f
  BY OwnerAsks
<1>2. a[2] \in StagesOf(a[1]) /\ a[1] \in EligibleOf(options)
  BY DEF Asking
<1> QED
  BY <1>1, <1>2 DEF HasPatch, FingerprintUnder, EligibleOf

LEMMA StepPlace == CoreInv /\ PlaceInv /\ [Next]_vars => PlaceInv'
<1> SUFFICES ASSUME CoreInv, PlaceInv, [Next]_vars PROVE PlaceInv'
  OBVIOUS
<1>1. job' = job
  BY NextCases DEF EditTask, Refuse, Plan, Admit, Retry, Finish, Gathered, WriteTable, WriteJobFile,
       WriteSummary, Die, vars
<1>2. CASE UNCHANGED results
  BY <1>1, <1>2 DEF PlaceInv, HasPatch, StagesOf
<1>3. ASSUME NEW f \in DOMAIN works, NEW e, Stored(f, e) PROVE PlaceInv'
  <2>1. HasPatch(Owner(f), f)
    BY OwnerHasPatch
  <2> QED
    BY <1>1, <1>3, <2>1 DEF Stored, PlaceInv, HasPatch, StagesOf
<1>4. CASE \E f \in Fingerprint : Finish(f)
  BY <1>3, <1>4, FinishEffect, FinishFrame
<1>5. CASE Die
  BY <1>2, <1>3, <1>5, DieEffect
<1>6. CASE ~((\E f \in Fingerprint : Finish(f)) \/ Die)
  <2>1. UNCHANGED results
    BY <1>6, NextCases DEF EditTask, Refuse, Plan, Admit, Retry, Gathered, WriteTable, WriteJobFile,
         WriteSummary, vars, disk
  <2> QED
    BY <1>2, <2>1
<1> QED
  BY <1>4, <1>5, <1>6

-----------------------------------------------------------------------------
\* Repeating a run.  What the run holds of a work is what the next run would
\* find for it (BackedInv); a complete run leaves that to the next (LeftInv),
\* and a run that repeats it starts with it (RepeatInv).

Untouched(o) == ~(o.force /\ o.reuse)
FirstHit(o, f, t) == t \in Hits(o, f) /\ \A u \in Hits(o, f) : t <= u

BackedInv ==
  pc # "idle" /\ Untouched(options) =>
    \A f \in DOMAIN works :
      works[f] # Pending /\ Reusable(works[f]) =>
        \E t \in Trials : FirstHit(options, f, t) /\ results[t][f] = works[f]

\* What stands in the table of trial t for stage s, under the request of the summary.
Left(t, s) ==
  LET o == summary.options
      f == FingerprintUnder(summary.planned, t, s)
      score == tables[t].scores[s]
  IN  IF o.reuse /\ s = FinalOf(t) /\ job[t].eval # None
      THEN score = [source |-> "eval", status |-> "success", reward |-> job[t].eval]
      ELSE score.reward \in Numbers =>
             /\ f \in UniqueWork(o, summary.planned)
             /\ \E u \in Trials :
                  /\ FirstHit(o, f, u)
                  /\ score = [source |-> "direct", status |-> "success",
                              reward |-> results[u][f].reward]

LeftInv ==
  pc = "idle" /\ summary.run > 0 /\ summary.run = run /\ Untouched(summary.options) =>
    \A t \in EligibleOf(summary.options) :
      tables[t].run = run =>
        /\ DOMAIN tables[t].scores = StagesOf(t)
        /\ \A s \in StagesOf(t) : Left(t, s)

RepeatInv ==
  /\ pc # "idle" /\ ~options.force /\ SameRequest
  /\ summary.run = run - 1 /\ Untouched(summary.options)
  => \A t \in EligibleOf(options) :
       tables[t].run = run - 1 =>
         /\ DOMAIN tables[t].scores = StagesOf(t)
         /\ \A s \in StagesOf(t) :
              tables[t].scores[s].reward \in Numbers => tables[t].scores[s] = StageScore(t, s)

RerunInv == BackedInv /\ LeftInv /\ RepeatInv

LEMMA HitIsFirst ==
  ASSUME NEW o \in Options, NEW f, NEW t, FirstHit(o, f, t)
  PROVE  Hit(o, f) = t /\ Hits(o, f) # {}
<1>1. Hits(o, f) \in SUBSET Trials /\ t \in Hits(o, f) /\ \A u \in Hits(o, f) : t <= u
  BY DEF FirstHit, Hits, Options
<1> QED
  BY <1>1, LeastIs DEF Hit

\* A trial that has the patch of a planned work asks for it.
LEMMA HolderAsks ==
  ASSUME CoreInv, NEW f \in DOMAIN works, ~options.reuse,
         NEW t \in options.selected, HasPatch(t, f)
  PROVE  Owner(f) <= t
<1>1. PICK s \in StagesOf(t) :
        f.origin = job[t].origin /\ f.task = job[t].task /\ f.patch = job[t].stages[s]
  BY DEF HasPatch
<1>2. <<t, s>> \in Asking(options)
  <2>1. t \in EligibleOf(options) /\ ~SkipDirect(options, t, s)
    BY DEF EligibleOf, HasPatch, SkipDirect
  <2> QED
    BY <2>1 DEF Asking
<1>3. f.version = planned[f.task]
  BY PlannedVersion
<1>4. f = [origin |-> f.origin, task |-> f.task, version |-> f.version, patch |-> f.patch]
  BY DEF CoreInv, TypeOK, Fingerprint
<1>5. FingerprintUnder(planned, t, s) = f
  BY <1>1, <1>3, <1>4 DEF FingerprintUnder
<1> QED
  BY <1>2, <1>5, OwnerAsks

\* A work that is finished is its own first hit from then on.
LEMMA FinishBacked ==
  ASSUME CoreInv, NoRepeatedWork, PlaceInv, BackedInv, NEW f \in Fingerprint, Finish(f)
  PROVE  BackedInv'
<1>1. PICK r \in Record :
        /\ Stored(f, r)
        /\ DOMAIN works' = DOMAIN works /\ works'[f] = r
        /\ \A g \in DOMAIN works \ {f} : works'[g] = works[g]
  BY FinishEffect
<1>2. /\ pc = "verifying" /\ f \in DOMAIN active /\ f \in DOMAIN works
      /\ UNCHANGED <<job, pc, options>>
  BY FinishFrame
<1>3. options \in Options /\ options.selected \subseteq Trials
  BY DEF CoreInv, TypeOK, Options
<1>4. ASSUME NEW g \in DOMAIN works \ {f} PROVE Hits(options, g)' = Hits(options, g)
  <2>1. g \in Fingerprint
    BY DEF CoreInv, TypeOK
  <2> QED
    BY <1>1, <1>2, <1>3, <2>1 DEF Hits, Stored
<1>5. ASSUME NEW g \in DOMAIN works \ {f}, NEW t \in Trials
      PROVE  results'[t][g] = results[t][g]
  BY <1>1 DEF Stored, CoreInv, TypeOK
<1>6. ASSUME Untouched(options), Reusable(r)
      PROVE  \E t \in Trials : FirstHit(options, f, t)' /\ results'[t][f] = r
  <2>1. Owner(f) \in Trials /\ Owner(f) \in options.selected
    BY <1>2, OwnerAsks
  <2>2. results'[Owner(f)][f] = r /\ Owner(f) \in Hits(options, f)'
    BY <1>1, <1>2, <1>6, <2>1 DEF Stored, Hits
  <2>3. ASSUME NEW u \in Hits(options, f)' PROVE Owner(f) <= u
    <3>1. u \in options.selected /\ u \in Trials /\ Reusable(results'[u][f])
      BY <1>2, <1>3 DEF Hits
    <3>2. CASE u = Owner(f)
      <4>1. u \in Nat
        BY <3>1, TrialsAreNumbers
      <4> QED
        BY <3>2, <4>1
    <3>3. CASE u # Owner(f)
      <4>1. u \in Hits(options, f) /\ Reusable(results[u][f])
        BY <1>1, <3>1, <3>3 DEF Stored, Hits
      <4>2. options.force
        BY <1>2, <4>1 DEF NoRepeatedWork
      <4>3. ~options.reuse
        BY <1>6, <4>2 DEF Untouched
      <4>4. HasPatch(u, f)
        BY <3>1, <4>1, SortsDiffer DEF PlaceInv
      <4> QED
        BY <1>2, <3>1, <4>3, <4>4, HolderAsks
    <3> QED
      BY <3>2, <3>3
  <2>4. \E t \in Trials :
          /\ t \in Hits(options, f)' /\ \A u \in Hits(options, f)' : t <= u
          /\ results'[t][f] = r
    BY <2>1, <2>2, <2>3
  <2> QED
    BY <2>4 DEF FirstHit
<1> SUFFICES ASSUME Untouched(options)', NEW g \in DOMAIN works',
                    works'[g] # Pending, Reusable(works'[g])
             PROVE  \E t \in Trials : FirstHit(options, g, t)' /\ results'[t][g] = works'[g]
  BY DEF BackedInv
<1>7. Untouched(options)
  BY <1>2 DEF Untouched
<1>8. CASE g = f
  BY <1>1, <1>6, <1>7, <1>8
<1>9. CASE g # f
  <2>1. g \in DOMAIN works \ {f} /\ works[g] = works'[g] /\ Hits(options, g)' = Hits(options, g)
    BY <1>1, <1>4, <1>9
  <2>2. PICK t \in Trials : FirstHit(options, g, t) /\ results[t][g] = works[g]
    BY <1>2, <1>7, <2>1 DEF BackedInv
  <2>3. FirstHit(options, g, t)'
    BY <2>1, <2>2 DEF FirstHit
  <2> QED
    BY <1>5, <2>1, <2>2, <2>3
<1> QED
  BY <1>8, <1>9

\* Steps that touch neither files, nor records, nor the request.
LEMMA BackedStays ==
  ASSUME BackedInv, UNCHANGED <<results, works, options>>, pc' = "idle" \/ pc # "idle"
  PROVE  BackedInv'
BY DEF BackedInv, FirstHit, Hits, Untouched

LEMMA PlanBacked ==
  ASSUME CoreInv, NEW o \in OptionSets, Plan(o)
  PROVE  BackedInv'
<1> DEFINE W == UniqueWork(o, content)
<1>1. /\ options' = o /\ results' = results
      /\ works' = [f \in W |-> IF f \in CachedWork(o, content) THEN results[Hit(o, f)][f] ELSE Pending]
  BY DEF Plan, disk
<1>2. W \subseteq Fingerprint
  BY OptionsAssumption, WorkTyped DEF Plan, Refused, PlanComplete, CoreInv, TypeOK
<1> HIDE DEF W
<1>3. ASSUME NEW f \in W, works'[f] # Pending
      PROVE  \E t \in Trials : FirstHit(o, f, t) /\ results[t][f] = works'[f]
  <2>1. f \in CachedWork(o, content) /\ works'[f] = results[Hit(o, f)][f]
    BY <1>1, <1>3
  <2>2. Hits(o, f) \in SUBSET Trials /\ Hits(o, f) # {}
    BY <2>1, OptionsAssumption DEF CachedWork, Hits, Options
  <2>3. Hit(o, f) \in Hits(o, f) /\ \A u \in Hits(o, f) : Hit(o, f) <= u
    BY <2>2, LeastIn DEF Hit
  <2> QED
    BY <2>1, <2>2, <2>3 DEF FirstHit
<1> QED
  BY <1>1, <1>3 DEF BackedInv, FirstHit, Hits

LEMMA StepBacked == CoreInv /\ NoRepeatedWork /\ PlaceInv /\ BackedInv /\ [Next]_vars => BackedInv'
<1> SUFFICES ASSUME CoreInv, NoRepeatedWork, PlaceInv, BackedInv, [Next]_vars PROVE BackedInv'
  OBVIOUS
<1>1. CASE WriteSummary \/ Die
  BY <1>1 DEF WriteSummary, Die, MemoryLost, BackedInv
<1>2. CASE \/ \E k \in Tasks : EditTask(k)
           \/ \E o \in OptionSets : Refuse(o)
           \/ \E f \in Fingerprint : Admit(f) \/ Retry(f)
           \/ Gathered
           \/ \E t \in Trials : WriteTable(t)
           \/ \E i \in DOMAIN JobFiles : WriteJobFile(i)
           \/ UNCHANGED vars
  <2>1. UNCHANGED <<results, works, options>> /\ (pc = "idle" => pc' = "idle")
    BY <1>2 DEF EditTask, Refuse, Admit, Retry, Gathered, WriteTable, WriteJobFile, vars, disk, memory
  <2> QED
    BY <2>1, BackedStays
<1> QED
  BY <1>1, <1>2, NextCases, PlanBacked, FinishBacked

\* A number among the direct scores is the reward of a reusable record.
LEMMA NumberIsRecorded ==
  ASSUME CoreInv, GivenInv, NEW t \in Trials, NEW s \in StagesOf(t),
         ~UsesEval(t, s), StageScore(t, s).reward \in Numbers
  PROVE  LET f == FingerprintUnder(planned, t, s) IN
         /\ f \in DOMAIN works /\ works[f] # Pending /\ Reusable(works[f])
         /\ StageScore(t, s) = [source |-> "direct", status |-> "success", reward |-> works[f].reward]
<1> DEFINE f == FingerprintUnder(planned, t, s)
<1>1. None \notin Numbers
  BY NumberAssumption, NoneAssumption
<1>2. f \in DOMAIN works /\ works[f] # Pending
  BY <1>1 DEF StageScore, DirectScore, Missed
<1>3. StageScore(t, s) = [source |-> "direct", status |-> works[f].status, reward |-> works[f].reward]
  BY <1>2 DEF StageScore, DirectScore
<1>4. works[f] \in Record /\ Answer(f, works[f])
  BY <1>2 DEF CoreInv, TypeOK, GivenInv
<1>5. works[f].status \in {"success", "error"}
  BY <1>4 DEF Record
<1>6. works[f].status = "error" => works[f].reward = None
  BY <1>4 DEF GivenInv, Answer
<1> QED
  BY <1>1, <1>2, <1>3, <1>5, <1>6 DEF Reusable

LEMMA SummaryLeft ==
  ASSUME CoreInv, StampInv, TableInv, GivenInv, BackedInv, WriteSummary
  PROVE  LeftInv'
<1>1. /\ summary'.run = run /\ summary'.options = options /\ summary'.planned = planned
      /\ UNCHANGED <<job, results, tables, run>>
      /\ pc = "writing" /\ SummaryReady
  BY DEF WriteSummary
<1>2. DOMAIN works = UniqueWork(options, planned)
  BY <1>1 DEF CoreInv, RunInv
<1> SUFFICES ASSUME Untouched(options), NEW t \in EligibleOf(options)
             PROVE  DOMAIN tables[t].scores = StagesOf(t) /\ \A s \in StagesOf(t) : Left(t, s)'
  BY <1>1 DEF LeftInv, Untouched, EligibleOf, StagesOf
<1>3. tables[t] = TableOf(t) /\ t \in Trials
  BY <1>1, EligibleAreTrials DEF TableInv, SummaryReady, TablesWritten, CoreInv, TypeOK
<1>4. tables[t].scores = [s \in StagesOf(t) |-> StageScore(t, s)]
  BY <1>3 DEF TableOf
<1>5. ASSUME NEW s \in StagesOf(t) PROVE Left(t, s)'
  <2>0. PICK f : f = FingerprintUnder(planned, t, s)
    OBVIOUS
  <2>1. tables'[t].scores[s] = StageScore(t, s)
    BY <1>1, <1>4
  <2>2. FingerprintUnder(summary.planned, t, s)' = f /\ FinalOf(t)' = FinalOf(t)
    BY <1>1, <2>0 DEF FingerprintUnder, FinalOf
  <2>3. UniqueWork(summary.options, summary.planned)' = UniqueWork(options, planned)
    BY <1>1 DEF UniqueWork, Asking, EligibleOf, SkipDirect, StagesOf, FinalOf, FingerprintUnder
  <2>4. CASE UsesEval(t, s)
    BY <1>1, <2>1, <2>2, <2>4 DEF Left, StageScore, UsesEval
  <2>5. CASE ~UsesEval(t, s)
    <3>1. ASSUME StageScore(t, s).reward \in Numbers
          PROVE  /\ f \in UniqueWork(options, planned)
                 /\ \E u \in Trials :
                      /\ FirstHit(options, f, u)
                      /\ StageScore(t, s) = [source |-> "direct", status |-> "success",
                                             reward |-> results[u][f].reward]
      BY <1>1, <1>2, <1>3, <2>0, <2>5, <3>1, NumberIsRecorded DEF BackedInv
    <3>2. \A u \in Trials : FirstHit(options, f, u) => FirstHit(summary.options, f, u)'
      BY <1>1 DEF FirstHit, Hits
    <3>3. ~(summary'.options.reuse /\ s = FinalOf(t) /\ job[t].eval # None)
      BY <1>1, <2>5 DEF UsesEval
    <3>4. tables'[t].scores[s].reward \in Numbers =>
            /\ f \in UniqueWork(summary.options, summary.planned)'
            /\ \E u \in Trials :
                 /\ FirstHit(summary.options, f, u)'
                 /\ tables'[t].scores[s] = [source |-> "direct", status |-> "success",
                                            reward |-> results'[u][f].reward]
      BY <1>1, <2>1, <2>3, <3>1, <3>2
    <3> QED
      BY <1>1, <2>2, <3>3, <3>4 DEF Left
  <2> QED
    BY <2>4, <2>5
<1> QED
  BY <1>4, <1>5

LEMMA LeftStays ==
  ASSUME UNCHANGED <<job, results, tables, summary>>, NEW t, NEW s
  PROVE  Left(t, s)' <=> Left(t, s)
<1>0. PICK f : f = FingerprintUnder(summary.planned, t, s)
  OBVIOUS
<1>1. FingerprintUnder(summary.planned, t, s)' = f /\ FinalOf(t)' = FinalOf(t)
  BY <1>0 DEF FingerprintUnder, FinalOf
<1>2. UniqueWork(summary.options, summary.planned)' = UniqueWork(summary.options, summary.planned)
  BY DEF UniqueWork, Asking, EligibleOf, SkipDirect, StagesOf, FinalOf, FingerprintUnder
<1>3. \A u : FirstHit(summary.options, f, u)' <=> FirstHit(summary.options, f, u)
  BY DEF FirstHit, Hits
<1> QED
  BY <1>0, <1>1, <1>2, <1>3 DEF Left

LEMMA StepLeft ==
  CoreInv /\ StampInv /\ TableInv /\ GivenInv /\ BackedInv /\ LeftInv /\ [Next]_vars => LeftInv'
<1> SUFFICES ASSUME CoreInv, StampInv, TableInv, GivenInv, BackedInv, LeftInv, [Next]_vars
             PROVE  LeftInv'
  OBVIOUS
<1>0. run \in Nat /\ summary.run \in Nat
  BY StampTyped DEF CoreInv, TypeOK
<1>1. CASE (\E k \in Tasks : EditTask(k)) \/ UNCHANGED vars
  <2>1. UNCHANGED <<job, results, tables, summary, run, pc>>
    BY <1>1 DEF EditTask, vars, disk
  <2> QED
    BY <2>1, LeftStays DEF LeftInv, Untouched, EligibleOf, StagesOf
<1>2. CASE \E o \in OptionSets : Refuse(o)
  <2>1. run' = run + 1 /\ summary' = summary
    BY <1>2 DEF Refuse, disk
  <2> QED
    BY <1>0, <2>1 DEF StampInv, LeftInv
<1>3. CASE Die
  <2>1. run' = run /\ summary' = summary /\ pc # "idle"
    BY <1>3 DEF Die
  <2> QED
    BY <1>0, <2>1 DEF StampInv, LeftInv
<1>4. CASE \/ \E o \in OptionSets : Plan(o)
           \/ \E f \in Fingerprint : Admit(f) \/ Retry(f) \/ Finish(f)
           \/ Gathered
           \/ \E t \in Trials : WriteTable(t)
           \/ \E i \in DOMAIN JobFiles : WriteJobFile(i)
  <2>1. pc' # "idle"
    <3>1. CASE \E f \in Fingerprint : Finish(f) \/ Retry(f)
      BY <3>1, WorkingIsVerifying DEF Finish, Retry
    <3>2. CASE ~\E f \in Fingerprint : Finish(f) \/ Retry(f)
      BY <1>4, <3>2 DEF Plan, Admit, Gathered, WriteTable, WriteJobFile
    <3> QED
      BY <3>1, <3>2
  <2> QED
    BY <2>1 DEF LeftInv
<1> QED
  BY <1>1, <1>2, <1>3, <1>4, SummaryLeft, NextCases

\* A run that repeats the last one finds its numbers again.
LEMMA PlanRepeats ==
  ASSUME CoreInv, StampInv, LeftInv, NEW o \in OptionSets, Plan(o)
  PROVE  RepeatInv'
<1>1. /\ options' = o /\ planned' = content /\ run' = run + 1
      /\ UNCHANGED <<job, results, tables, summary>> /\ pc = "idle"
      /\ works' = [f \in UniqueWork(o, content) |->
                     IF f \in CachedWork(o, content) THEN results[Hit(o, f)][f] ELSE Pending]
  BY DEF Plan, disk
<1>2. run \in Nat /\ o \in Options
  BY OptionsAssumption DEF CoreInv, TypeOK
<1> DEFINE p == summary.options
<1> SUFFICES ASSUME ~o.force, summary.run > 0, p.selected = o.selected, p.reuse = o.reuse,
                    summary.planned = content, summary.run = run, Untouched(p),
                    NEW t \in EligibleOf(o), tables[t].run = run
             PROVE  /\ DOMAIN tables[t].scores = StagesOf(t)
                    /\ \A s \in StagesOf(t) :
                         tables[t].scores[s].reward \in Numbers => tables[t].scores[s] = StageScore(t, s)'
  BY <1>1, <1>2 DEF RepeatInv, SameRequest, Untouched, EligibleOf, StagesOf
<1>3. t \in EligibleOf(p) /\ UniqueWork(p, content) = UniqueWork(o, content)
      /\ \A f : Hits(p, f) = Hits(o, f)
  BY DEF EligibleOf, UniqueWork, Asking, SkipDirect, Hits
<1>4. DOMAIN tables[t].scores = StagesOf(t) /\ \A s \in StagesOf(t) : Left(t, s)
  BY <1>1, <1>3 DEF LeftInv
<1>5. PlanComplete(o, content)
  BY DEF Plan, Refused, PlanComplete
<1>6. UniqueWork(o, content) \subseteq Fingerprint
  BY <1>2, <1>5, WorkTyped DEF CoreInv, TypeOK
<1>7. ASSUME NEW s \in StagesOf(t), tables[t].scores[s].reward \in Numbers
      PROVE  tables[t].scores[s] = StageScore(t, s)'
  <2>0. PICK f : f = FingerprintUnder(content, t, s)
    OBVIOUS
  <2>1. FingerprintUnder(planned, t, s)' = f /\ FinalOf(t)' = FinalOf(t)
    BY <1>1, <2>0 DEF FingerprintUnder, FinalOf
  <2>2. UsesEval(t, s)' <=> o.reuse /\ s = FinalOf(t) /\ job[t].eval # None
    BY <1>1, <2>1 DEF UsesEval
  <2>3. CASE o.reuse /\ s = FinalOf(t) /\ job[t].eval # None
    BY <1>1, <1>4, <2>2, <2>3 DEF Left, StageScore
  <2>4. CASE ~(o.reuse /\ s = FinalOf(t) /\ job[t].eval # None)
    <3>1. /\ f \in UniqueWork(o, content)
          /\ \E u \in Trials :
               /\ FirstHit(p, f, u)
               /\ tables[t].scores[s] = [source |-> "direct", status |-> "success",
                                         reward |-> results[u][f].reward]
      BY <1>3, <1>4, <1>7, <2>0, <2>4 DEF Left
    <3>2. PICK u \in Trials :
            /\ FirstHit(o, f, u)
            /\ tables[t].scores[s] = [source |-> "direct", status |-> "success",
                                      reward |-> results[u][f].reward]
      BY <1>3, <3>1 DEF FirstHit
    <3>3. Hit(o, f) = u /\ Hits(o, f) # {}
      BY <1>2, <3>2, HitIsFirst
    <3>4. f \in CachedWork(o, content)
      BY <3>1, <3>3 DEF CachedWork
    <3>5. works'[f] = results[u][f] /\ f \in DOMAIN works'
      BY <1>1, <3>1, <3>3, <3>4
    <3>6. results[u][f] \in Record /\ results[u][f].status = "success"
      BY <1>6, <3>1, <3>2, ReusableIsRecord DEF FirstHit, Hits, Reusable, CoreInv, TypeOK
    <3>7. works'[f] # Pending
      BY <3>5, <3>6, SortsDiffer
    <3>8. StageScore(t, s)' = [source |-> "direct", status |-> "success",
                               reward |-> results[u][f].reward]
      BY <2>1, <2>2, <2>4, <3>5, <3>6, <3>7 DEF StageScore, DirectScore
    <3> QED
      BY <3>2, <3>8
  <2> QED
    BY <2>3, <2>4
<1> QED
  BY <1>4, <1>7

LEMMA SameScore ==
  ASSUME UNCHANGED <<job, options, planned, works>>, NEW t, NEW s
  PROVE  StageScore(t, s)' = StageScore(t, s)
BY DEF StageScore, UsesEval, DirectScore, FingerprintUnder, FinalOf

LEMMA StepRepeat ==
  CoreInv /\ StampInv /\ GivenInv /\ LeftInv /\ RepeatInv /\ [Next]_vars => RepeatInv'
<1> SUFFICES ASSUME CoreInv, StampInv, GivenInv, LeftInv, RepeatInv, [Next]_vars
             PROVE  RepeatInv'
  OBVIOUS
<1>1. ASSUME NEW f \in Fingerprint, Finish(f) PROVE RepeatInv'
  <2>1. /\ UNCHANGED <<job, tables, summary, run, pc, options, planned>>
        /\ f \in DOMAIN works /\ works[f] = Pending
    BY <1>1, FinishFrame
  <2>2. DOMAIN works' = DOMAIN works /\ \A g \in DOMAIN works \ {f} : works'[g] = works[g]
    BY <1>1, FinishEffect
  <2>3. ASSUME NEW t \in Trials, NEW s \in StagesOf(t), StageScore(t, s).reward \in Numbers
        PROVE  StageScore(t, s)' = StageScore(t, s)
    <3>1. UsesEval(t, s)' = UsesEval(t, s)
          /\ FingerprintUnder(planned, t, s)' = FingerprintUnder(planned, t, s)
      BY <2>1 DEF UsesEval, FinalOf, FingerprintUnder
    <3>2. CASE UsesEval(t, s)
      BY <2>1, <3>1, <3>2 DEF StageScore
    <3>3. CASE ~UsesEval(t, s)
      <4>1. FingerprintUnder(planned, t, s) \in DOMAIN works \ {f}
        BY <2>1, <2>3, <3>3, NumberIsRecorded
      <4> QED
        BY <2>2, <3>1, <3>3, <4>1 DEF StageScore, DirectScore
    <3> QED
      BY <3>2, <3>3
  <2>4. EligibleOf(options) \subseteq Trials
    BY EligibleAreTrials DEF CoreInv, TypeOK
  <2> QED
    BY <2>1, <2>3, <2>4 DEF RepeatInv, SameRequest, Untouched, EligibleOf, StagesOf
<1>2. ASSUME NEW u \in Trials, WriteTable(u) PROVE RepeatInv'
  <2>1. tables' = [tables EXCEPT ![u] = TableOf(u)] /\ TableOf(u).run = run
        /\ UNCHANGED <<job, summary, run, pc, options, planned, works>>
    BY <1>2 DEF WriteTable, TableOf, memory
  <2>2. EligibleOf(options) \subseteq Trials /\ run \in Nat
    BY EligibleAreTrials DEF CoreInv, TypeOK
  <2>3. \A t \in Trials : tables'[t].run = run - 1 => tables'[t] = tables[t]
    BY <2>1, <2>2 DEF CoreInv, TypeOK
  <2> QED
    BY <2>1, <2>2, <2>3, SameScore DEF RepeatInv, SameRequest, Untouched, EligibleOf, StagesOf
<1>3. CASE WriteSummary \/ Die \/ \E o \in OptionSets : Refuse(o)
  <2>1. pc' = "idle"
    BY <1>3 DEF WriteSummary, Die, MemoryLost, Refuse
  <2> QED
    BY <2>1 DEF RepeatInv
<1>4. CASE \/ \E k \in Tasks : EditTask(k)
           \/ \E f \in Fingerprint : Admit(f) \/ Retry(f)
           \/ Gathered
           \/ \E i \in DOMAIN JobFiles : WriteJobFile(i)
           \/ UNCHANGED vars
  <2>1. UNCHANGED <<job, tables, summary, run, options, planned, works>> /\ (pc = "idle" => pc' = "idle")
    BY <1>4 DEF EditTask, Admit, Retry, Gathered, WriteJobFile, vars, disk, memory
  <2> QED
    BY <2>1, SameScore DEF RepeatInv, SameRequest, Untouched, EligibleOf, StagesOf
<1> QED
  BY <1>1, <1>2, <1>3, <1>4, NextCases, PlanRepeats

\* Results come from verifications of that very work, lie with trials that have the patch,
\* and are what the next run will find.
THEOREM RerunInvariance == Spec => [](GivenInv /\ PlaceInv /\ RerunInv)
<1> DEFINE Inv == GivenInv /\ PlaceInv /\ RerunInv
           Known == CoreInv /\ NoRepeatedWork /\ StampInv /\ TableInv
<1>1. Init => Inv
  <2> SUFFICES ASSUME Init PROVE Inv
    OBVIOUS
  <2>1. /\ \A t \in Trials, f \in Fingerprint : results[t][f] = Absent
        /\ DOMAIN works = {} /\ verdicts = {} /\ pc = "idle" /\ summary.run = 0
    BY DEF Init, Empty
  <2> QED
    BY <2>1, SortsDiffer DEF GivenInv, PlaceInv, RerunInv, BackedInv, LeftInv, RepeatInv
<1>2. Known /\ Inv /\ [Next]_vars => Inv'
  BY StepGiven, StepPlace, StepBacked, StepLeft, StepRepeat DEF RerunInv
<1> QED
  BY <1>1, <1>2, CoreInvariance, NoRepeatedWorkHolds, StampInvariance, PTL DEF Spec

\* Repeating a complete run changes no score, unless that run was forced while
\* it took the final scores from the evaluation.
THEOREM RerunIsNoOpHolds == Spec => RerunIsNoOp
<1>1. ASSUME CoreInv, RerunInv, [Next]_vars, NEW t \in Trials,
             tables'[t] # tables[t], Repeats(t), Untouched(summary.options)
      PROVE  tables'[t].scores = tables[t].scores
  <2>1. WriteTable(t)
    <3>1. PICK u \in Trials : WriteTable(u)
      BY <1>1, NextCases DEF EditTask, Refuse, Plan, Admit, Retry, Finish, Gathered, WriteJobFile,
           WriteSummary, Die, vars, disk
    <3>2. u = t
      BY <1>1, <3>1 DEF WriteTable, CoreInv, TypeOK
    <3> QED
      BY <3>1, <3>2
  <2>2. pc = "writing" /\ t \in EligibleOf(options) /\ tables'[t] = TableOf(t)
    <3>1. tables \in [Trials -> {NoTable} \union Table]
      BY <1>1 DEF CoreInv, TypeOK
    <3>2. tables' = [tables EXCEPT ![t] = TableOf(t)]
      BY <2>1 DEF WriteTable
    <3>3. pc = "writing" /\ t \in EligibleOf(options)
      BY <2>1 DEF WriteTable
    <3> QED
      BY <3>1, <3>2, <3>3
  <2>3. DOMAIN tables[t].scores = StagesOf(t)
        /\ \A s \in StagesOf(t) : tables[t].scores[s] = StageScore(t, s)
    BY <1>1, <2>2 DEF RerunInv, RepeatInv, Repeats, AllNumbers
  <2>4. tables[t] \in Table
    <3>1. run > 0 /\ tables[t].run = run - 1 /\ tables[t].run \in Nat /\ summary.run > 0
          /\ summary.run = run - 1
      BY <1>1, <2>2, StampTyped DEF CoreInv, RunInv, Repeats, SameRequest
    <3>2. tables[t].run # 0
      BY <3>1
    <3>3. tables[t] \in {NoTable} \union Table
      BY <1>1 DEF CoreInv, TypeOK
    <3> QED
      BY <3>2, <3>3 DEF NoTable
  <2>5. tables[t].scores \in Seq(Score)
    BY <2>4 DEF Table
  <2>6. tables[t].scores = [s \in StagesOf(t) |-> StageScore(t, s)]
    BY <2>3, <2>5
  <2> QED
    BY <2>2, <2>6 DEF TableOf
<1>2. CoreInv /\ RerunInv /\ [Next]_vars =>
        [\A t \in Trials :
           ( /\ tables'[t] # tables[t] /\ Repeats(t)
             /\ ~(summary.options.force /\ summary.options.reuse) )
           => tables'[t].scores = tables[t].scores]_vars
  BY <1>1 DEF Untouched
<1> QED
  BY <1>2, CoreInvariance, RerunInvariance, PTL DEF Spec, RerunIsNoOp

-----------------------------------------------------------------------------
\* The runs implement the ledger.

Board == [t \in Trials |-> RowsOf(tables[t])]

LEMMA InitLedger == Init => Ledger!LedgerInit
<1> SUFFICES ASSUME Init PROVE Ledger!LedgerInit
  OBVIOUS
<1>1. Given = {}
  BY DEF Init, Given
<1>2. Chosen = [k \in {} |-> {}]
  <2>1. {g \in DOMAIN works : works[g] # Pending} = {}
    BY DEF Init, Empty
  <2> QED
    BY <2>1 DEF Chosen
<1>3. [t \in Trials |-> RowsOf(tables[t])] = [t \in Trials |-> <<>>]
  BY DEF Init, RowsOf, NoTable
<1> QED
  BY <1>1, <1>2, <1>3 DEF Ledger!LedgerInit

\* The entry of the ledger a verdict makes.
Entry(v) == [key |-> v.work, answer |-> Verdict(v.record)]

LEMMA GivenIs == Given = {Entry(v) : v \in verdicts} /\ Given' = {Entry(v) : v \in verdicts'}
BY DEF Given, Entry

LEMMA EntryOf == \A f, r : Entry([work |-> f, record |-> r]) = [key |-> f, answer |-> Verdict(r)]
BY DEF Entry

\* Nothing is chosen while no run is on.
LEMMA NoneChosen ==
  ASSUME DOMAIN works = {}
  PROVE  DOMAIN Chosen = {}
BY DEF Chosen

LEMMA PlanOpens ==
  ASSUME CoreInv, GivenInv, GivenInv', NEW o \in OptionSets, Plan(o)
  PROVE  Ledger!Open
<1>1. DOMAIN Chosen = {}
  BY NoneChosen DEF Plan, CoreInv, RunInv, Empty
<1>2. Given' = Given /\ Board' = Board
  BY DEF Plan, disk, Given, Board
<1>3. ASSUME NEW k \in DOMAIN Chosen' PROVE [key |-> k, answer |-> Chosen'[k]] \in Given'
  <2>1. k \in DOMAIN works' /\ works'[k] # Pending /\ Chosen'[k] = Verdict(works'[k])
    BY <1>3 DEF Chosen, Verdict
  <2>2. [work |-> k, record |-> works'[k]] \in verdicts'
    BY <2>1 DEF GivenInv, Answer
  <2>3. Entry([work |-> k, record |-> works'[k]]) \in Given'
    BY <2>2, GivenIs
  <2> QED
    BY <2>1, <2>3, EntryOf
<1> QED
  BY <1>1, <1>2, <1>3 DEF Ledger!Open, Ledger!Answered, Board

LEMMA FinishGives ==
  ASSUME CoreInv, NEW f \in Fingerprint, Finish(f)
  PROVE  Ledger!Give
<1>1. PICK r \in Record :
        /\ verdicts' = verdicts \union {[work |-> f, record |-> r]}
        /\ DOMAIN works' = DOMAIN works /\ works'[f] = r
        /\ \A g \in DOMAIN works \ {f} : works'[g] = works[g]
  BY FinishEffect
<1>2. f \in DOMAIN works /\ works[f] = Pending /\ tables' = tables
  BY FinishFrame
<1>3. r # Pending /\ Verdict(r) \in [status : {"success", "error"}, reward : Rewards \union {None}]
  BY SortsDiffer DEF Verdict, Record
<1>4. Given' = Given \union {[key |-> f, answer |-> Verdict(r)]}
  <2>1. Given' = Given \union {Entry([work |-> f, record |-> r])}
    BY <1>1, GivenIs
  <2> QED
    BY <2>1, EntryOf
<1>5. f \notin DOMAIN Chosen
  BY <1>2 DEF Chosen
<1>6. Chosen' = [j \in DOMAIN Chosen \union {f} |-> IF j = f THEN Verdict(r) ELSE Chosen[j]]
  <2> DEFINE S == {g \in DOMAIN works : works[g] # Pending}
  <2>1. {g \in DOMAIN works' : works'[g] # Pending} = S \union {f}
    BY <1>1, <1>2, <1>3
  <2>2. Chosen' = [j \in S \union {f} |-> [status |-> works'[j].status, reward |-> works'[j].reward]]
    BY <2>1 DEF Chosen, Verdict
  <2>3. Chosen = [j \in S |-> [status |-> works[j].status, reward |-> works[j].reward]]
    BY DEF Chosen, Verdict
  <2>4. \A j \in S : j # f /\ works'[j] = works[j]
    BY <1>1, <1>2
  <2> HIDE DEF S
  <2> QED
    BY <1>1, <2>2, <2>3, <2>4 DEF Verdict
<1>7. Board' = Board
  BY <1>2 DEF Board
<1> QED
  BY <1>3, <1>4, <1>5, <1>6, <1>7 DEF Ledger!Give, Board

\* A stage shows the answer the run holds for its patch, and else that it is missing.
LEMMA ScoreIsHonest ==
  ASSUME CoreInv, NEW t \in Trials, NEW s \in StagesOf(t)
  PROVE  LET f == FingerprintUnder(planned, t, s)
             score == StageScore(t, s)
         IN  \/ score.source = "eval"
             \/ score.status = "missing" /\ f \notin DOMAIN Chosen
             \/ /\ f \in DOMAIN Chosen
                /\ [status |-> score.status, reward |-> score.reward] = Chosen[f]
<1> DEFINE f == FingerprintUnder(planned, t, s)
<1>1. CASE UsesEval(t, s)
  BY <1>1 DEF StageScore
<1>2. CASE ~UsesEval(t, s) /\ f \in DOMAIN works /\ works[f] # Pending
  <2>1. StageScore(t, s) = [source |-> "direct", status |-> works[f].status, reward |-> works[f].reward]
    BY <1>2 DEF StageScore, DirectScore
  <2>2. f \in DOMAIN Chosen /\ Chosen[f] = Verdict(works[f])
    BY <1>2 DEF Chosen, Verdict
  <2> HIDE DEF f
  <2>3. [status |-> StageScore(t, s).status, reward |-> StageScore(t, s).reward] = Chosen[f]
    BY <2>1, <2>2 DEF Verdict
  <2> QED
    BY <2>2, <2>3 DEF f
<1>3. CASE ~UsesEval(t, s) /\ ~(f \in DOMAIN works /\ works[f] # Pending)
  <2>1. StageScore(t, s).status = "missing"
    BY <1>3 DEF StageScore, DirectScore, Missed
  <2>2. f \notin DOMAIN Chosen
    BY <1>3 DEF Chosen
  <2> QED
    BY <2>1, <2>2
<1> QED
  BY <1>1, <1>2, <1>3

LEMMA TablePublishes ==
  ASSUME CoreInv, NEW t \in Trials, WriteTable(t)
  PROVE  Ledger!Publish
<1>1. tables' = [tables EXCEPT ![t] = TableOf(t)] /\ UNCHANGED <<works, verdicts>> /\ pc = "writing"
  BY DEF WriteTable, memory
<1>2. tables \in [Trials -> {NoTable} \union Table] /\ run > 0 /\ run \in Nat
  BY <1>1 DEF CoreInv, TypeOK, RunInv
<1>3. Given' = Given /\ Chosen' = Chosen
  BY <1>1 DEF Given, Chosen
<1>4. DOMAIN Board' = Trials /\ \A u \in Trials \ {t} : Board'[u] = Board[u]
  BY <1>1, <1>2 DEF Board
<1>5. Board'[t] = RowsOf(TableOf(t))
  BY <1>1, <1>2 DEF Board, RowsOf
<1>6. RowsOf(TableOf(t)) =
        [s \in StagesOf(t) |-> [key |-> FingerprintUnder(planned, t, s), score |-> StageScore(t, s)]]
  <2>1. TableOf(t).run # 0 /\ DOMAIN TableOf(t).scores = StagesOf(t)
    BY <1>2 DEF TableOf
  <2>2. \A s \in StagesOf(t) : /\ TableOf(t).scores[s] = StageScore(t, s)
                               /\ TableOf(t).keys[s] = FingerprintUnder(planned, t, s)
    BY DEF TableOf
  <2> QED
    BY <2>1, <2>2 DEF RowsOf
<1>7. \A i \in DOMAIN Board'[t] : Ledger!Honest(Board'[t][i])
  <2> SUFFICES ASSUME NEW s \in StagesOf(t)
               PROVE  Ledger!Honest([key |-> FingerprintUnder(planned, t, s),
                                     score |-> StageScore(t, s)])
    BY <1>5, <1>6
  <2> QED
    BY ScoreIsHonest DEF Ledger!Honest
<1> QED
  BY <1>3, <1>4, <1>7 DEF Ledger!Publish, Board

LEMMA StepLedger ==
  CoreInv /\ GivenInv /\ GivenInv' /\ [Next]_vars =>
    [Ledger!LedgerNext]_<<Given, Chosen, Board>>
<1> SUFFICES ASSUME CoreInv, GivenInv, GivenInv', [Next]_vars
             PROVE  Ledger!LedgerNext \/ UNCHANGED <<Given, Chosen, Board>>
  OBVIOUS
<1>1. CASE WriteSummary \/ Die
  <2>1. DOMAIN works' = {} /\ UNCHANGED <<verdicts, tables>>
    BY <1>1 DEF WriteSummary, Die, MemoryLost, Empty
  <2>2. DOMAIN Chosen' = {} /\ Given' = Given /\ Board' = Board
    BY <2>1 DEF Chosen, Given, Board
  <2> QED
    BY <2>2 DEF Ledger!LedgerNext, Ledger!Close, Board
<1>2. CASE \/ \E k \in Tasks : EditTask(k)
           \/ \E o \in OptionSets : Refuse(o)
           \/ \E f \in Fingerprint : Admit(f) \/ Retry(f)
           \/ Gathered
           \/ \E i \in DOMAIN JobFiles : WriteJobFile(i)
           \/ UNCHANGED vars
  <2>1. UNCHANGED <<works, verdicts, tables>>
    BY <1>2 DEF EditTask, Refuse, Admit, Retry, Gathered, WriteJobFile, vars, disk, memory
  <2> QED
    BY <2>1 DEF Given, Chosen, Board
<1> QED
  BY <1>1, <1>2, NextCases, PlanOpens, FinishGives, TablePublishes DEF Ledger!LedgerNext

\* Whatever workers, retries, result files and deaths do, the runs keep the
\* contract of ScoreLedger: every score shown was measured for exactly that
\* patch, and a run shows one verdict for equal patches.
THEOREM LedgerRefinement == Spec => LedgerSpec
<1>1. [Next]_vars /\ CoreInv /\ GivenInv /\ GivenInv' =>
        [Ledger!LedgerNext]_<<Given, Chosen, [t \in Trials |-> RowsOf(tables[t])]>>
  BY StepLedger DEF Board
<1>2. Spec => [](CoreInv /\ GivenInv)
  BY CoreInvariance, RerunInvariance, PTL
<1> QED
  BY <1>1, <1>2, InitLedger, PTL DEF Spec, LedgerSpec, Ledger!LedgerSpec

=============================================================================

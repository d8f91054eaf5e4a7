---------------------------- MODULE UsageReport -----------------------------
(***************************************************************************)
(* The usage report of a job (scripts/token_usage.py): the trials are read *)
(* in the order of their names; a trial without a result or a usage is     *)
(* skipped, and unsound usage ends the report.  Turns that report no cost  *)
(* are priced in one batch by cligent, whose answers find their way back   *)
(* by position; then everything is added up, per role and for the job.     *)
(***************************************************************************)
EXTENDS Accounting, SequencesExt

CONSTANTS
  Jobs,     \* the jobs: a sequence of trials [result, roles]
  Price     \* what a role's tokens cost

\* A trial's "roles" is Missing when its summary has no usage, else from role to
\* [turns, reports]; a role that had no turn has no report.
IsTrial(trial) ==
  trial.roles # Missing =>
    /\ IsFiniteSet(DOMAIN trial.roles) /\ DOMAIN trial.roles \subseteq DOMAIN Price
    /\ \A r \in DOMAIN trial.roles :
         /\ trial.roles[r].reports \in Seq(TurnReport)
         /\ trial.roles[r].turns = 0 => trial.roles[r].reports = <<>>
ASSUME JobsAssumption ==
  /\ \A j \in Jobs : j = [k \in 1..Len(j) |-> j[k]] /\ Len(j) \in Nat /\ \A k \in 1..Len(j) : IsTrial(j[k])
  /\ \A r \in DOMAIN Price : Price[r] \in Nat

VARIABLES
  job,       \* the job directory, never changed
  next,      \* the trial to read next
  rows,      \* trials with usage: [trial, usage], usage from role to account
  skipped,   \* the trials left out
  requests,  \* what cligent is to price: [report, role]
  pending,   \* where the answers go: [row, role, turn]
  answers,   \* cligent's answers
  roleTotals, total,
  exit

reportVars == <<job, next, rows, skipped, requests, pending, answers, roleTotals, total, exit>>

Running == "running"

NothingRead ==
  /\ next = 1
  /\ rows = <<>> /\ skipped = {}
  /\ requests = <<>> /\ pending = <<>> /\ answers = <<>>
  /\ roleTotals = [r \in {} |-> Missing] /\ total = Missing
  /\ exit = Running
ReportInit == job \in Jobs /\ NothingRead

-----------------------------------------------------------------------------
(* _trial_rows, one trial.                                                  *)

Readable(trial) == trial.result /\ trial.roles # Missing
\* Roles without a turn are not looked at; without an active role a trial is skipped.
Active(trial) ==
  IF Readable(trial) THEN {r \in DOMAIN trial.roles : trial.roles[r].turns # 0} ELSE {}
\* _reports: one slot per turn.
Sound(spec) == Len(spec.reports) = spec.turns

FirstAccount(reports) == Account(reports, Each(reports, NativeResolution))

\* Only turns without a cost are priced.
UnpricedEveryTurnMutant(reports) == DOMAIN reports
Unpriced(reports) == {i \in DOMAIN reports : reports[i].cost = Missing}
Places(trial, row) ==
  UNION {{[row |-> row, role |-> r, turn |-> i] : i \in Unpriced(trial.roles[r].reports)}
         : r \in Active(trial)}

\* A trial that is read adds its row; its requests and their places go, one by one, to
\* the ends of two lists that have to stay in step.
AddRow(trial) ==
  LET places == SetToSeq(Places(trial, Len(rows) + 1))
  IN /\ rows' = Append(rows,
          [trial |-> next,
           usage |-> [r \in Active(trial) |-> FirstAccount(trial.roles[r].reports)]])
     /\ pending' = pending \o places
     /\ requests' = requests \o
          Each(places, LAMBDA p : [report |-> trial.roles[p.role].reports[p.turn], role |-> p.role])

ReadTrial ==
  /\ exit = Running /\ next <= Len(job)
  /\ LET trial == job[next] IN
     \/ /\ Active(trial) = {}
        /\ skipped' = skipped \union {next} /\ next' = next + 1
        /\ UNCHANGED <<rows, requests, pending, exit>>
     \/ /\ Active(trial) # {}
        /\ \A r \in Active(trial) : Sound(trial.roles[r])
        /\ AddRow(trial) /\ next' = next + 1
        /\ UNCHANGED <<skipped, exit>>
     \/ /\ \E r \in Active(trial) : ~Sound(trial.roles[r])
        /\ exit' = "2"
        /\ UNCHANGED <<next, rows, skipped, requests, pending>>
  /\ UNCHANGED <<job, answers, roleTotals, total>>

-----------------------------------------------------------------------------
(* _estimate_costs: one call of node for the whole batch.                   *)

Unavailable == Unresolved
\* cligent (external): tokens that were not reported cannot be priced, and the rest
\* need not be.
EstimateOf(request) ==
  [kind |-> "estimated", coverage |-> request.report.coverage,
   amount |-> Price[request.role] * request.report.tokens]
Answers(request) ==
  {Unavailable} \union (IF request.report.tokens = Missing THEN {} ELSE {EstimateOf(request)})

\* Any failure of the call, or an answer in it that is not valid, leaves the whole
\* batch without estimates: none is priced.
Estimate ==
  /\ exit = Running /\ next > Len(job) /\ answers = <<>> /\ requests # <<>>
  /\ \E priced \in SUBSET {i \in DOMAIN requests : requests[i].report.tokens # Missing} :
       answers' = [i \in DOMAIN requests |->
                     IF i \in priced THEN EstimateOf(requests[i]) ELSE Unavailable]
  /\ UNCHANGED <<job, next, rows, skipped, requests, pending, roleTotals, total, exit>>

-----------------------------------------------------------------------------
(* The second half of _trial_rows and build_report.                         *)

\* The places that wait for an answer are paired with the answers in order.
PlacesOf(row, role, turn) ==
  {i \in DOMAIN pending : pending[i] = [row |-> row, role |-> role, turn |-> turn]}
Resolution(row, role, turn) ==
  LET waiting == PlacesOf(row, role, turn)
  IN IF waiting = {} THEN rows[row].usage[role].resolutions[turn]
     ELSE answers[CHOOSE i \in waiting : TRUE]

ResolvedAccount(k, r) ==
  LET reports == rows[k].usage[r].reports
  IN Account(reports, [t \in DOMAIN reports |-> Resolution(k, r, t)])
ResolvedRow(k) ==
  [trial |-> rows[k].trial, usage |-> [r \in DOMAIN rows[k].usage |-> ResolvedAccount(k, r)]]

RolesOf(someRows) == UNION {DOMAIN someRows[k].usage : k \in DOMAIN someRows}
RoleAccounts(someRows, r) ==
  [k \in {k \in DOMAIN someRows : r \in DOMAIN someRows[k].usage} |-> someRows[k].usage[r]]

\* A trial that was skipped may have had usage: the job's total is not whole.
Downgraded(account) ==
  IF skipped = {} THEN account
  ELSE [account EXCEPT
          !.input = Missing, !.cost = Missing,
          !.tokenCoverage = IF @ = "complete" THEN "partial" ELSE @,
          !.costCoverage = IF @ = "complete" THEN "partial" ELSE @]

WriteReport ==
  /\ exit = Running /\ next > Len(job)
  /\ requests = <<>> \/ answers # <<>>
  /\ rows' = [k \in DOMAIN rows |-> ResolvedRow(k)]
  /\ roleTotals' = [r \in RolesOf(rows) |-> Aggregate(RoleAccounts(rows', r))]
  /\ total' = Downgraded(Aggregate(roleTotals'))
  /\ exit' = IF rows = <<>> THEN "1" ELSE "0"
  /\ UNCHANGED <<job, next, skipped, requests, pending, answers>>

ReportDone == exit # Running /\ UNCHANGED reportVars

ReportNext == ReadTrial \/ Estimate \/ WriteReport \/ ReportDone

ReportSpec == ReportInit /\ [][ReportNext]_reportVars

-----------------------------------------------------------------------------
(* The turns there really were, from the job itself.                        *)
Slots ==
  UNION {UNION {{<<k, r, t>> : t \in DOMAIN job[k].roles[r].reports} : r \in DOMAIN job[k].roles}
         : k \in {k \in DOMAIN job : job[k].roles # Missing}}
ReportAt(s) == job[s[1]].roles[s[2]].reports[s[3]]

Finished == exit \in {"0", "1"}
AccountOf(k, r) == rows[k].usage[r]

\* Every variable keeps its type, and the two lists of the batch their common length.
ReportTypeOK ==
  /\ next \in 1..Len(job) + 1
  /\ skipped \subseteq DOMAIN job
  /\ Len(requests) = Len(pending)
  /\ \A i \in DOMAIN pending :
       pending[i].row \in DOMAIN rows /\ pending[i].role \in DOMAIN rows[pending[i].row].usage
  /\ Len(answers) \in {0, Len(requests)}
  /\ DOMAIN roleTotals \subseteq RolesOf(rows)
  /\ exit \in {Running, "0", "1", "2"}

\* What a turn reported as its cost, zero included, is never replaced by an estimate,
\* and an estimate is the one of this very turn.
EstimatesReachTheirTurns ==
  Finished =>
    \A k \in DOMAIN rows : \A r \in DOMAIN rows[k].usage :
      \A t \in DOMAIN AccountOf(k, r).resolutions :
        LET report == ReportAt(<<rows[k].trial, r, t>>)
            resolution == AccountOf(k, r).resolutions[t]
        IN \/ resolution = NativeResolution(report) /\ report.cost # Missing
           \/ /\ report.cost = Missing
              /\ resolution \in Answers([report |-> report, role |-> r])

\* A complete total of the job is the whole of it: every trial was read, every turn of
\* every role is in it, and none was partial or estimated in part.
JobTotalIsWhole ==
  Finished /\ total.input # Missing =>
    /\ skipped = {}
    /\ \A s \in Slots : ReportAt(s).coverage = "complete"
    /\ total.input = SumFunction([s \in Slots |-> ReportAt(s).tokens])
JobCostIsWhole ==
  Finished /\ total.cost # Missing =>
    /\ skipped = {}
    /\ total.turns = Cardinality(Slots)
    /\ \A s \in Slots : ReportAt(s).cost # Missing \/ ReportAt(s).coverage = "complete"

\* Whatever way the numbers are added up (per trial, per role, for the job, by where the
\* cost comes from), they come to the same.
Zero(v) == IF v = Missing THEN 0 ELSE v
SumsAgree ==
  Finished =>
    /\ Zero(total.observedCost) = Zero(total.reported) + Zero(total.estimated)
    /\ Zero(total.observedCost) =
         SumFunction([k \in DOMAIN rows |->
           SumFunction([r \in DOMAIN rows[k].usage |-> Zero(AccountOf(k, r).observedCost)])])
    /\ Zero(total.observed) =
         SumFunction([r \in DOMAIN roleTotals |-> Zero(roleTotals[r].observed)])

\* The report counts a trial in exactly one way, and no unsound one.
EveryTrialAccountedFor ==
  Finished =>
    /\ skipped \union {rows[k].trial : k \in DOMAIN rows} = DOMAIN job
    /\ \A k \in DOMAIN rows : rows[k].trial \notin skipped
    /\ \A k \in DOMAIN job : \A r \in Active(job[k]) :
         Len(job[k].roles[r].reports) = job[k].roles[r].turns

\* The report of a job prices every turn by its own tokens, calls complete only what is
\* the whole, and comes to the same sum every way it adds up (build_report).
JobReportAddsUp ==
  /\ EstimatesReachTheirTurns
  /\ JobTotalIsWhole /\ JobCostIsWhole
  /\ SumsAgree /\ EveryTrialAccountedFor
=============================================================================

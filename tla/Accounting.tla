----------------------------- MODULE Accounting -----------------------------
(***************************************************************************)
(* What the programs compute from the usage reports of agent turns: the    *)
(* runtime adds turn after turn to a role's bucket (usage.ts), the Pier    *)
(* agent reads the buckets (usage.py) and the event log (atif.py), and     *)
(* token_usage.py starts again from the reports.  A report has the input   *)
(* tokens and their coverage, and a cost; either may be missing, which is  *)
(* never zero.  Output tokens and the parts of a total are handled like    *)
(* the input tokens and left out.  Reports are a function from turns: a    *)
(* sequence, or from the turns of several trials, since no sum depends on  *)
(* their order.                                                            *)
(***************************************************************************)
EXTENDS Integers, FiniteSets, Sequences, FiniteSetsExt

CONSTANT Missing  \* not reported

\* A number that was not reported is none.
ASSUME MissingAssumption == Missing \notin Int

Amount == Nat \union {Missing}
CoverageKinds == {"complete", "partial", "unavailable"}

\* A turn's report has tokens unless their coverage is "unavailable".
TurnReport ==
  {r \in [tokens : Amount, coverage : CoverageKinds, cost : Amount] :
     r.tokens = Missing <=> r.coverage = "unavailable"}
NoReport == [tokens |-> Missing, coverage |-> "unavailable", cost |-> Missing]

Each(seq, f(_)) == [i \in DOMAIN seq |-> f(seq[i])]
Known(values) == {i \in DOMAIN values : values[i] # Missing}
\* _sum_known: nothing known is not zero.
SumAt(values, S) == IF S = {} THEN Missing ELSE SumFunctionOnSet(values, S)
SumKnown(values) == SumAt(values, Known(values))

Tokens(reports) == Each(reports, LAMBDA r : r.tokens)
Costs(reports) == Each(reports, LAMBDA r : r.cost)

\* _coverage
Coverage(reported, of, complete) ==
  IF reported = 0 THEN "unavailable"
  ELSE IF reported = of /\ complete THEN "complete" ELSE "partial"

AllComplete(reports, S) == \A i \in S : reports[i].coverage = "complete"

-----------------------------------------------------------------------------
(* accumulateUsage: a role's bucket and one more turn.                      *)

EmptyBucket ==
  [turns |-> 0, available |-> FALSE, input |-> Missing, reports |-> <<>>,
   coverage |-> "unavailable", cost |-> Missing, costCoverage |-> "unavailable"]

\* sumReports gives the coverage of the reports that have tokens.
ReportsCoverage(reports) ==
  LET with == Known(Tokens(reports))
  IN Coverage(Cardinality(with), Cardinality(DOMAIN reports), AllComplete(reports, with))

AddTurnReportedOnlyMutant(bucket, report) ==
  [bucket EXCEPT !.turns = @ + (IF report = NoReport THEN 0 ELSE 1)]
AddTurn(bucket, report) ==
  LET reports == Append(bucket.reports, report)
      available == report.tokens # Missing /\ (bucket.turns = 0 \/ bucket.available)
      costs == Costs(reports)
  IN [bucket EXCEPT !.turns = @ + 1, !.reports = reports,
        !.available = available,
        !.input = IF ~available THEN Missing
                  ELSE IF @ = Missing THEN report.tokens ELSE @ + report.tokens,
        !.coverage = ReportsCoverage(reports), !.cost = SumKnown(costs),
        !.costCoverage = Coverage(Cardinality(Known(costs)), Len(reports), TRUE)]

\* complete_summary_tokens
CompleteTokens(bucket) == bucket.available /\ bucket.coverage = "complete"

-----------------------------------------------------------------------------
(* _accounting of token_usage.py.  A resolution says where the cost of one  *)
(* turn comes from: [kind, amount, coverage].                               *)

Unresolved == [kind |-> "unavailable", amount |-> Missing, coverage |-> "unavailable"]
\* _native_cost_resolution; a reported zero is a cost.
NativeResolution(report) ==
  IF report.cost = Missing THEN Unresolved
  ELSE [kind |-> "reported", amount |-> report.cost, coverage |-> "complete"]

OfKind(resolutions, kind) == {i \in DOMAIN resolutions : resolutions[i].kind = kind}
Amounts(resolutions) == Each(resolutions, LAMBDA r : r.amount)

Account(reports, resolutions) ==
  LET tokenCoverage == ReportsCoverage(reports)
      observed == SumKnown(Tokens(reports))
      amounts == Amounts(resolutions)
      estimated == OfKind(resolutions, "estimated")
      costCoverage == Coverage(Cardinality(Known(amounts)), Cardinality(DOMAIN reports),
                               AllComplete(resolutions, estimated))
      observedCost == SumKnown(amounts)
  IN [reports |-> reports, resolutions |-> resolutions, turns |-> Cardinality(DOMAIN reports),
      tokenCoverage |-> tokenCoverage, observed |-> observed,
      input |-> IF tokenCoverage = "complete" THEN observed ELSE Missing,
      costCoverage |-> costCoverage,
      reported |-> SumAt(amounts, OfKind(resolutions, "reported")),
      estimated |-> SumAt(amounts, estimated),
      observedCost |-> observedCost,
      cost |-> IF costCoverage = "complete" THEN observedCost ELSE Missing]

\* _aggregate: the reports and resolutions of several accounts together.
Together(accounts, part(_)) ==
  [s \in UNION {{k} \X DOMAIN part(accounts[k]) : k \in DOMAIN accounts} |->
     part(accounts[s[1]])[s[2]]]
Aggregate(accounts) ==
  Account(Together(accounts, LAMBDA a : a.reports), Together(accounts, LAMBDA a : a.resolutions))
=============================================================================

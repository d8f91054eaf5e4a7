--------------------------- MODULE TaskSelection ----------------------------
(***************************************************************************)
(* The selection of discriminative tasks from the public trials            *)
(* (scripts/select_discriminative_tasks.py): pass rates per configuration  *)
(* and per base model, three layers of ever stricter conditions, and two   *)
(* disjoint samples, "dev" and "confirm", drawn greedily from the core.    *)
(* Rates are in percent, rounded down.  The item-rest correlation and the  *)
(* rank score of a task are data: they are statistics of all other tasks.  *)
(***************************************************************************)
EXTENDS Integers, FiniteSets, FiniteSetsExt, Functions

CONSTANTS
  Tasks, Configs,
  ModelOf,     \* the base model of a configuration
  Tables,      \* public results: [Tasks -> [Configs -> Cell]]
  Portfolios,  \* [Tasks -> Entry]
  Exclusions,  \* sets of models to leave out
  Thresholds,
  Sizes,       \* sample sizes
  Orders       \* orders of the tasks that a seed may give

\* A cell has the trials of a task with a configuration that count (included in the
\* score, not errored), those that passed, the others, and the verifier timeouts among
\* these.  An entry is what else is known of a task.
Cell == [counted : Nat, passed : Nat, others : Nat, timeouts : Nat]
IsEntry(e) == e.language \in Int /\ e.patch \in Int /\ e.rank \in Int

InputsAssumption ==
  /\ IsFiniteSet(Tasks) /\ IsFiniteSet(Configs)
  /\ \A tab \in Tables : tab \in [Tasks -> [Configs -> Cell]]
  /\ \A p \in Portfolios : \A t \in Tasks : IsEntry(p[t])
  /\ \A n \in Sizes : n \in Nat \ {0}
  /\ \A o \in Orders : \A t, u \in Tasks : o[t] \in Int /\ (o[t] = o[u] => t = u)

\* DEFAULT_THRESHOLDS: what the core asks for is no less than what the broad layer does.
ThresholdsAssumption ==
  /\ \A bound \in {Thresholds.broad, Thresholds.core} : bound[1] \in Int /\ bound[2] \in Int
  /\ {Thresholds.broadLow, Thresholds.broadHigh, Thresholds.coreLow, Thresholds.coreHigh} \subseteq Int
  /\ Thresholds.broad[1] <= Thresholds.core[1] /\ Thresholds.core[2] <= Thresholds.broad[2]
  /\ Thresholds.broadLow <= Thresholds.coreLow /\ Thresholds.broadHigh <= Thresholds.coreHigh

ASSUME SelectionAssumption == InputsAssumption /\ ThresholdsAssumption

VARIABLES
  table, portfolio, excluded, size,  \* the input
  band, core, \* the difficulty bands of all tasks; the core layer
  block,      \* "metrics", "dev", "confirm", then "written"; or "failed"
  dev, confirm,
  jitter      \* the random order of the block, from its seed

input == <<table, portfolio, excluded, size>>
selectVars == <<input, band, core, block, dev, confirm, jitter>>

-----------------------------------------------------------------------------
(* calculate_metrics.                                                       *)

MeanOver(f, S) == SumFunctionOnSet(f, S) \div Cardinality(S)
MeanOf(f) == MeanOver(f, DOMAIN f)

Used(leftOut) == {c \in Configs : ModelOf[c] \notin leftOut}
Rated(tab, t, leftOut) == {c \in Used(leftOut) : tab[t][c].counted > 0}
ConfigRates(tab, t, leftOut) ==
  [c \in Rated(tab, t, leftOut) |-> (100 * tab[t][c].passed) \div tab[t][c].counted]

\* A model's configurations count the same, however many trials they have.
ModelRates(tab, t, leftOut) ==
  LET rates == ConfigRates(tab, t, leftOut)
  IN [m \in {ModelOf[c] : c \in DOMAIN rates} |-> MeanOver(rates, {c \in DOMAIN rates : ModelOf[c] = m})]

Trials(tab, t, leftOut) ==
  SumFunction([c \in Used(leftOut) |-> tab[t][c].counted + tab[t][c].others])
Errors(tab, t, leftOut) == SumFunction([c \in Used(leftOut) |-> tab[t][c].others])
ErrorRate(tab, t, leftOut) ==
  IF Trials(tab, t, leftOut) = 0 THEN 100
  ELSE (100 * Errors(tab, t, leftOut)) \div Trials(tab, t, leftOut)

DifficultyBand(rate) == IF rate < 40 THEN "hard" ELSE IF rate <= 60 THEN "medium" ELSE "easy"

Metrics(tab, t, leftOut) ==
  LET configs == ConfigRates(tab, t, leftOut)
      models == ModelRates(tab, t, leftOut)
      mean(rates) == IF DOMAIN rates = {} THEN 0 ELSE MeanOf(rates)
  IN [coverage |-> Cardinality(DOMAIN models),
      repeats |-> Min({tab[t][c].counted : c \in Used(leftOut)}),
      errorRate |-> ErrorRate(tab, t, leftOut),
      timeouts |-> SumFunction([c \in Used(leftOut) |-> tab[t][c].timeouts]),
      modelMean |-> mean(models),
      configMean |-> mean(configs),
      low |-> Cardinality({m \in DOMAIN models : models[m] <= Thresholds.lowMax}),
      high |-> Cardinality({m \in DOMAIN models : models[m] >= Thresholds.highMin}),
      difficulty |-> DifficultyBand(mean(models))]

-----------------------------------------------------------------------------
(* apply_layers; the coverage asked for shrinks with the models left.       *)

Seen(leftOut) == {ModelOf[c] : c \in Used(leftOut)}
MinimumCoverage(leftOut) ==
  LET asked == Cardinality(Seen(leftOut)) * Thresholds.coverage
  IN (asked + Thresholds.allModels - 1) \div Thresholds.allModels

Stable(m, leftOut) ==
  /\ m.coverage >= MinimumCoverage(leftOut)
  /\ m.repeats >= Thresholds.repeats
  /\ m.errorRate <= Thresholds.errorRate
  /\ m.timeouts <= Thresholds.timeouts

Within(m, range) ==
  \A rate \in {m.modelMean, m.configMean} : range[1] <= rate /\ rate <= range[2]

BroadTest(m) == Within(m, Thresholds.broad) /\ m.low >= Thresholds.broadLow /\ m.high >= Thresholds.broadHigh
CoreTest(m, correlated) ==
  Within(m, Thresholds.core) /\ m.low >= Thresholds.coreLow /\ m.high >= Thresholds.coreHigh /\ correlated

BandsOf(tab) == [t \in Tasks |-> Metrics(tab, t, excluded).difficulty]
IsCore(tab, t) ==
  LET m == Metrics(tab, t, excluded)
  IN Stable(m, excluded) /\ BroadTest(m) /\ CoreTest(m, portfolio[t].correlated)
CoreOf(tab) == {t \in Tasks : IsCore(tab, t)}

Layer ==
  /\ block = "metrics"
  /\ band' = BandsOf(table)
  /\ core' = CoreOf(table)
  /\ block' = "dev"
  /\ UNCHANGED <<input, dev, confirm, jitter>>

-----------------------------------------------------------------------------
(* allocate_quotas: the largest remainders get what rounding down left.     *)

CountOf(key, keyOf, S) == Cardinality({t \in S : keyOf[t] = key})
Keys(keyOf, S) == {keyOf[t] : t \in S}
\* The exact shares, in parts of the number of candidates.
Shares(keyOf, S) == [k \in Keys(keyOf, S) |-> size * CountOf(k, keyOf, S)]
Floors(keyOf, S) == [k \in Keys(keyOf, S) |-> Shares(keyOf, S)[k] \div Cardinality(S)]
Remainders(keyOf, S) == [k \in Keys(keyOf, S) |-> Shares(keyOf, S)[k] % Cardinality(S)]
Left(keyOf, S) == size - SumFunction(Floors(keyOf, S))
Before(rest, k) == {l \in DOMAIN rest : rest[l] > rest[k] \/ (rest[l] = rest[k] /\ l < k)}
Quotas(keyOf, S) ==
  LET floors == Floors(keyOf, S)
      rest == Remainders(keyOf, S)
      left == Left(keyOf, S)
  IN [k \in Keys(keyOf, S) |-> floors[k] + (IF Cardinality(Before(rest, k)) < left THEN 1 ELSE 0)]

Language == [t \in Tasks |-> portfolio[t].language]
Patch == [t \in Tasks |-> portfolio[t].patch]
\* The bands are ordered by their names.
Difficulty == [t \in Tasks |-> CASE band[t] = "easy" -> 1 [] band[t] = "hard" -> 2 [] OTHER -> 3]
RepositoryOf == [t \in Tasks |-> portfolio[t].repository]

-----------------------------------------------------------------------------
(* balanced_sample.                                                         *)

Sample == IF block = "dev" THEN dev ELSE confirm
\* The candidates of the confirm block are what the dev block left.
CandidatesWholeCoreMutant == core
Candidates == IF block = "dev" THEN core ELSE core \ dev
Remaining == Candidates \ Sample

\* What the quotas leave to take: in quarters, 1.5, 1.0 and 0.75 for a category below
\* its quota.
Bonus(keyOf, weight) ==
  LET quotas == Quotas(keyOf, Candidates)
  IN [t \in Remaining |->
        IF CountOf(keyOf[t], keyOf, Sample) < quotas[keyOf[t]] THEN weight ELSE 0]

UsedRepository(t) == CountOf(RepositoryOf[t], RepositoryOf, Sample)
\* One task of a repository, two when every one has its first; then any.
Eligible ==
  LET limit == IF \E t \in Remaining : UsedRepository(t) = 0 THEN 1 ELSE 2
      below == {t \in Remaining : UsedRepository(t) < limit}
  IN IF below = {} THEN Remaining ELSE below

\* By bonus, then rank, then the random order.
Bonuses ==
  LET language == Bonus(Language, 6)
      difficulty == Bonus(Difficulty, 4)
      patch == Bonus(Patch, 3)
  IN [t \in Remaining |-> language[t] + difficulty[t] + patch[t]]
Better(bonus, t, u) ==
  \/ bonus[t] > bonus[u]
  \/ bonus[t] = bonus[u] /\ portfolio[t].rank > portfolio[u].rank
  \/ bonus[t] = bonus[u] /\ portfolio[t].rank = portfolio[u].rank /\ jitter[t] > jitter[u]
Best ==
  LET bonus == Bonuses
  IN CHOOSE t \in Eligible : \A u \in Eligible \ {t} : Better(bonus, t, u)

SelectInit ==
  /\ table \in Tables /\ portfolio \in Portfolios
  /\ excluded \in Exclusions /\ size \in Sizes
  /\ band = [t \in Tasks |-> "none"] /\ core = {}
  /\ block = "metrics" /\ dev = {} /\ confirm = {}
  /\ jitter \in Orders

Short == Cardinality(Sample) < size
TooFew == Cardinality(Candidates) < size

Fail ==
  /\ block \in {"dev", "confirm"} /\ Sample = {} /\ TooFew
  /\ block' = "failed"
  /\ UNCHANGED <<input, band, core, dev, confirm, jitter>>

Pick ==
  /\ block \in {"dev", "confirm"} /\ ~TooFew /\ Short
  /\ IF block = "dev" THEN dev' = dev \union {Best} /\ UNCHANGED confirm
                      ELSE confirm' = confirm \union {Best} /\ UNCHANGED dev
  /\ UNCHANGED <<input, band, core, block, jitter>>

\* The confirm block has the next seed.
StartConfirm ==
  /\ block = "dev" /\ Cardinality(dev) = size
  /\ block' = "confirm"
  /\ jitter' \in Orders
  /\ UNCHANGED <<input, band, core, dev, confirm>>

\* Nothing is written before both samples are complete.
Write ==
  /\ block = "confirm" /\ Cardinality(confirm) = size
  /\ block' = "written"
  /\ UNCHANGED <<input, band, core, dev, confirm, jitter>>

SelectDone == block \in {"written", "failed"} /\ UNCHANGED selectVars

SelectNext == Layer \/ Fail \/ Pick \/ StartConfirm \/ Write \/ SelectDone

SelectSpec == SelectInit /\ [][SelectNext]_selectVars

-----------------------------------------------------------------------------
\* Every variable keeps its type.
SelectTypeOK ==
  /\ table \in Tables /\ portfolio \in Portfolios
  /\ excluded \in Exclusions /\ size \in Sizes
  /\ block \in {"metrics", "dev", "confirm", "written", "failed"}
  /\ core \subseteq Tasks /\ DOMAIN band = Tasks
  /\ dev \subseteq Tasks /\ confirm \subseteq Tasks
  /\ Cardinality(dev) <= size /\ Cardinality(confirm) <= size
  /\ jitter \in Orders

\* Two samples of the size asked for, from the core, with no task in common; and the
\* script fails only when the core is too small for both.
SamplesAreApart ==
  /\ dev \intersect confirm = {} /\ dev \union confirm \subseteq core
  /\ block = "written" => Cardinality(dev) = size /\ Cardinality(confirm) = size
  /\ block = "failed" => Cardinality(core) < 2 * size

\* The quotas of a block add up to its size, each within one of its exact share.
QuotasFit(keyOf) ==
  LET quotas == Quotas(keyOf, Candidates)
      n == Cardinality(Candidates)
  IN /\ SumFunction(quotas) = size
     /\ \A k \in DOMAIN quotas :
          LET off == quotas[k] * n - Shares(keyOf, Candidates)[k] IN off < n /\ off > -n
QuotasAddUp ==
  block \in {"dev", "confirm"} /\ ~TooFew =>
    QuotasFit(Language) /\ QuotasFit(Patch) /\ QuotasFit(Difficulty)

\* The greedy picks spread over the repositories: a second task of one is taken only
\* when every candidate's repository has its first, a third only when all have two.
Spread(S, candidates) ==
  LET of(t) == CountOf(RepositoryOf[t], RepositoryOf, S)
  IN \A t \in S, u \in candidates \ S :
       (of(t) >= 2 => of(u) >= 1) /\ (of(t) >= 3 => of(u) >= 2)
RepositoriesSpread == Spread(dev, core) /\ Spread(confirm, core \ dev)

\* Whatever the trials of a model that is left out say, they change nothing: the bands
\* and the layers are those of a table in which these trials are other ones.
Altered(tab) ==
  [t \in Tasks |-> [c \in Configs |->
     IF ModelOf[c] \in excluded
     THEN [counted |-> 0, passed |-> 0, others |-> 7, timeouts |-> 5] ELSE tab[t][c]]]
LeaveOutIgnoresModel ==
  block # "metrics" => band = BandsOf(Altered(table)) /\ core = CoreOf(Altered(table))

\* Each layer's conditions are the stricter ones: a task cannot meet the core's own and
\* miss the broad layer's.
CoreIsStricter ==
  block # "metrics" =>
    \A t \in Tasks :
      LET m == Metrics(table, t, excluded)
      IN CoreTest(m, portfolio[t].correlated) => BroadTest(m)

\* A model that is left out has no influence, the core's conditions are the stricter
\* ones, and the two samples are disjoint, of the size asked for, within one of every
\* exact share, and spread over the repositories (balanced_sample).
SelectionSound ==
  /\ LeaveOutIgnoresModel /\ CoreIsStricter
  /\ SamplesAreApart /\ QuotasAddUp /\ RepositoriesSpread
=============================================================================

\* Plans, an agent alone, tokens of a trial, tokens of a job, pairs of a job, tasks of the benchmark.
CONSTANTS
    None = None
    Missing = Missing
    NaN = NaN
    Inf = Inf
    Requests <- EvalRequests
    Registries <- EvalRegistries
    TaskTable <- EvalTasks
    Providers <- KnownProviders
    Tasks <- PublicTasks
    Configs <- PublicConfigs
    ModelOf <- PublicModelOf
    Tables <- PublicTables
    Portfolios <- PublicPortfolios
    Exclusions <- PublicExclusions
    Thresholds <- RunThresholds
    Sizes = {1, 2, 3}
    Orders <- BothOrders
    BaseFile = BaseFile
    Habits <- AllHabits
    MaxAgentAttempts = 2
    TotalTimeout = 2
    MinTurn = 1
    MaxLoose = 1
    LastReview = 3
    LastAttempt = 2
    MostTurns = 5
    Reports <- SomeReports
    SilentTurns = TRUE
    KeepsSession = {TRUE, FALSE}
    Jobs <- UsageJobs
    Price <- RolePrice
    ScoredJobs <- PairJobs
    Iterations = 2
    Parts = {"plan", "single", "trail", "report", "pairs", "layers", "samples"}
SPECIFICATION MCSpec
INVARIANTS
    TypesOK
    LaunchedPlanRuns
    PlanAsAsked
    SingleRunIsHonest
    TrialTotalsAreWhole
    JobReportAddsUp
    PairStatisticsSound
    SelectionSound
CHECK_DEADLOCK FALSE

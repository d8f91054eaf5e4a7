\* usage.py: accounting "without treating partial totals as complete".
CONSTANTS
    None = None
    Missing = Missing
    NaN = NaN
    Inf = Inf
    Requests <- EvalRequests
    Registries <- EvalRegistries
    TaskTable <- EvalTasks
    Providers <- KnownProviders
    Tasks <- PublicTasks
    Configs <- PublicConfigs
    ModelOf <- PublicModelOf
    Tables <- PublicTables
    Portfolios <- PublicPortfolios
    Exclusions <- PublicExclusions
    Thresholds <- RunThresholds
    Sizes = {1, 2, 3}
    Orders <- BothOrders
    BaseFile = BaseFile
    Habits <- AllHabits
    MaxAgentAttempts = 2
    TotalTimeout = 2
    MinTurn = 1
    MaxLoose = 1
    LastReview = 3
    LastAttempt = 2
    MostTurns = 5
    Reports <- SomeReports
    SilentTurns = FALSE
    KeepsSession = {TRUE, FALSE}
    Jobs <- UsageJobs
    Price <- RolePrice
    ScoredJobs <- PairJobs
    Iterations = 2
    Parts = {"trail"}
SPECIFICATION MCSpec
INVARIANTS
    ContextTotalIsWhole
CHECK_DEADLOCK FALSE

\* Plans, credentials, failures, cancellations and processes left behind.
CONSTANTS
    Plans <- MCPlans
    EnvSets <- MCEnvSets
    Providers = {"deepseek", "openai"}
    MaxCancels = 2
    MaxLost = 1
SPECIFICATION FairSpec
INVARIANTS
    CredentialsContained
    RuntimeIsServed
PROPERTIES
    RunReturns
CHECK_DEADLOCK FALSE

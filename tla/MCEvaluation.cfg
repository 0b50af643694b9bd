SPECIFICATION Spec
CONSTANTS
    Pools <- MCPools
    Prompt <- MCPrompt
    Replies <- MCReplies
    Budget = 2
    Arguments <- MCArguments
    Params = "max=2048;t=0.0"
    MaxRuns = 2
    MaxDays = 1
INVARIANTS
    BudgetOfReplies
    ScoresComeFromReplies
    EachRequestTimedOnce
PROPERTIES
    KnownNeverResent
CHECK_DEADLOCK FALSE

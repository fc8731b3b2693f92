SPECIFICATION FairSpec
CONSTANTS
    u = u
    r1 = r1
    r2 = r2
    t1 = t1
    t2 = t2
    t3 = t3
    Users = {u}
    Runs = {r1, r2}
    Threads = {t1, t2, t3}
    Owner <- MCOwner
    RunOf <- MCRunOf
    Main <- MCMain
    Budget <- MCBudget
    Seeds <- MCSeeds
    Estimates = {1}
    Usages = {2}
    MaxUsage = 2
    MaxCalls = 1
    MaxRetries = 1
    MaxDays = 1
    Labels = {"greenfield", "refactoring"}
    MaxQuestions = 1
    MaxStageCalls = 1
    DiesSeeding = {r2}
CHECK_DEADLOCK FALSE
INVARIANTS
    TypeOK
    OverrunIsBounded
    PaidCallsHaveRun
    SpendAccounted
    SeededOnce
PROPERTIES
    EveryPlanEnds

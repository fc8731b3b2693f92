SPECIFICATION FairSpec
CONSTANTS
    q1 = q1
    i1 = i1
    q2 = q2
    r1 = r1
    r2 = r2
    app = app
    new = new
    suite = suite
    b1 = b1
    b2 = b2
    None = None
    Authors = {q1, i1, q2}
    Runs = {r1, r2}
    Files = {app, new, suite}
    Tracked = {app, suite}
    ReadOnly = {suite}
    Branches = {b1, b2}
    Implementations = {i1}
    RunOf <- MCRunOf
    After <- MCAfter
    TaskOf <- MCTaskOf
    ContextOf <- MCContextOf
    BranchOf <- MCBranchOf
    ResponsesOf <- MCResponsesOf
    MaxIterations = 2
    MaxFailures = 1
CHECK_DEADLOCK FALSE
INVARIANTS
    TypeOK
    HeadAccounted
    OriginalTestsKept
    ReplaysFit
    PrAccounted
PROPERTIES
    RemoteOnlyGrows
    FilesChangeByWriting
    WritesTakeEffect
    EveryStageEnds

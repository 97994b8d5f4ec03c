SPECIFICATION ApiSpec
CONSTANTS
    n1 = n1  n2 = n2
    Names = {n1, n2}
    KeyOf <- OneKey
    Requests <- SomeLists
    Clients = {c1, c2}
    MaxId = 2  MaxLoad = 2  MaxRestarts = 1
    NoName = NoName
    Subs = {s1, s2}
    Places = {git, file}
    Files = {file}
    Nobody = Nobody
    MaxCalls = 3  MaxRuns = 2  MaxStops = 1
    NoValue = NoValue
    SetSize = 1  MaxSets = 2
SYMMETRY ApiSymmetry
VIEW ApiView
INVARIANTS
    ApiTypeOK
    InstallingIsPending
    RemovalInProgress
    OneJobEach
    RunningIsRun
    
    SpentStaySpent
PROPERTY NoInstallDuringRemoval
\* The bounds let the last request be served with nothing left to do.
CHECK_DEADLOCK FALSE

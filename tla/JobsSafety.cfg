SPECIFICATION Spec
CONSTANTS
    Tasks = {t1, t2}
    Clients = {c1, c2, c3}
    CronLists <- SomeCrons
    MaxRequests = 3
    Impatient = {c1, c2, c3}
    NoTask = NoTask
SYMMETRY RegistrySymmetry
INVARIANTS
    TypeOK
    ListedAreLive
    CurrentIsScheduled
    ScheduledOnce
PROPERTY OthersUndisturbed
\* The last of MaxRequests requests leaves nothing to do.
CHECK_DEADLOCK FALSE

SPECIFICATION Spec
CONSTANTS
    Tasks = {t1}
    Clients = {c1, c2}
    CronLists <- JustOne
    MaxRequests = 3
    Impatient = {}
    NoTask = NoTask
INVARIANT NoStaleJob
\* The last of MaxRequests requests leaves nothing to do.
CHECK_DEADLOCK FALSE

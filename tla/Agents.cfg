SPECIFICATION AgentsSpec
CONSTANTS
    Jobs = {j1, j2}
    Sessions = {s1}
    NoJob = NoJob
    Unnamed <- SomeUnnamed
    Grants <- SomeGrants
    MaxWork = 3
    Sockets = {k1}
    Capacity = 2
    MaxEvents = 3
    MaxOpens = 2
    Debugs = {d1, d2}
    NoRun = NoRun
INVARIANTS
    AgentsTypeOK
    NothingUnapproved
    NothingAfterRefusal
    SessionShowsLive
    NoGap
PROPERTIES
    AnswerHeeded
    CancelEnds
    EventsArrive
    NothingLeft
    KeepsStreamContract
\* Every part may have nothing left to do within its bounds.
CHECK_DEADLOCK FALSE

SPECIFICATION Spec
CONSTANTS
    t1 = t1  t2 = t2  e1 = e1  e2 = e2
    Tasks = {t1}
    Executions = {e1, e2}
    Killers = {k1}
    Pids = {p1, p2}
    TaskOf <- SameTask
    Timed = {t1}
    NoTask = NoTask  NoPid = NoPid  NoExec = NoExec
SYMMETRY SameTaskSymmetry
INVARIANTS
    TypeOK
    NoAbandonedProcess
    TokenWhileRunning
    TrackedIsOwn
    TrackedUnlessTaken
    ReportedIsClosed
PROPERTY ImplementsContract
\* Every call may have returned with nobody left to act.
CHECK_DEADLOCK FALSE

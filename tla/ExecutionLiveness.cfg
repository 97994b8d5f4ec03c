SPECIFICATION FairSpec
CONSTANTS
    t1 = t1  t2 = t2  e1 = e1  e2 = e2
    Tasks = {t1, t2}
    Executions = {e1, e2}
    Killers = {k1}
    Pids = {p1}
    TaskOf <- OneEach
    Timed = {t1}
    NoTask = NoTask  NoPid = NoPid  NoExec = NoExec
PROPERTIES
    TimedTaskStops
    TokensExpire
CHECK_DEADLOCK FALSE

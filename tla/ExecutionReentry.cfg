SPECIFICATION Spec
CONSTANTS
    t1 = t1  t2 = t2  e1 = e1  e2 = e2
    Tasks = {t1}
    Executions = {e1, e2}
    Killers = {k1}
    Pids = {p1, p2}
    TaskOf <- SameTask
    Timed = {t1}
    NoTask = NoTask  NoPid = NoPid  NoExec = NoExec
INVARIANT NoReentry
CHECK_DEADLOCK FALSE

SPECIFICATION Spec
CONSTANTS
    n1 = n1  n2 = n2
    Names = {n1, n2}
    KeyOf <- OneKey
    Requests <- SomeLists
    Clients = {c1, c2}
    MaxId = 2  MaxLoad = 2  MaxRestarts = 0
    NoName = NoName
PROPERTY NoDuplicateRows
\* The bounds let the last request be served with nothing left to do.
CHECK_DEADLOCK FALSE

SPECIFICATION Spec
CONSTANTS
    e1 = e1
    e2 = e2
    a1 = a1
    a2 = a2
    a3 = a3
    Executions = {e1, e2}
    Initial = e1
    Actuations = {a1, a2, a3}
    ExecutionOf <- Asked
    UserTurn = user
    NoTurn = noturn
    NoOne = noone
    Scenarios <- Mixed
CHECK_DEADLOCK FALSE
INVARIANTS
    DispatchedOnce
    PassedIsOurs
PROPERTIES
    EndsAreNoticed

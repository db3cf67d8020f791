SPECIFICATION Spec
CONSTANTS
    q1 = q1
    Requests = {q1, q2, q3}
    Conns = {c1, c2}
    NoConn = NoConn
    Calls <- MCCalls
    MaxBlocking = 2
INVARIANTS
    ExclusiveUse
    WaitsOnlyForLateReturns
PROPERTIES
    RequestsEnd
    PoolRecovers
CHECK_DEADLOCK FALSE

SPECIFICATION Spec
CONSTANTS
    Request = {r1}
    NoRequest = NoRequest
    Key = {k1}
    NoKey = NoKey
    Payload = {p1}
    PoolSize = 1
    MaxFaults = 1
INVARIANTS AuditFailureDoesNotRollBack
CHECK_DEADLOCK FALSE

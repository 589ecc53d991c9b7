SPECIFICATION BrowserSpec
CONSTANTS
    Request = {r1, r2}
    NoRequest = NoRequest
    Key = {k1, k2}
    NoKey = NoKey
    Payload = {p1}
    PoolSize = 1
    MaxFaults = 1
INVARIANTS RetryFindsTheRow
CHECK_DEADLOCK FALSE

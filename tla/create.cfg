SPECIFICATION FairSpec
CONSTANTS
    Request = {r1, r2, r3}
    NoRequest = NoRequest
    Key = {k1, k2}
    NoKey = NoKey
    Payload = {p1, p2}
    PoolSize = 2
    MaxFaults = 1
INVARIANTS TypeOK OneRowPerKey TruthfulAnswers
PROPERTIES EveryRequestAnswered
CHECK_DEADLOCK FALSE

SPECIFICATION Spec
CONSTANTS
    Tab = {t1, t2}
    Slot = {c1}
    Sid = {s1}
    NoSid = NoSid
    Principal = {p1, p2}
    NoOne = NoOne
    MaxFaults = 1
    MaxChanges = 1
SYMMETRY Symmetry
INVARIANTS TypeOK LogoutIsFinal
PROPERTIES NoRequestAfterLogout OwnSessionOnly
CHECK_DEADLOCK FALSE

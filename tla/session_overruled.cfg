SPECIFICATION Spec
CONSTANTS
    Tab = {t1, t2}
    Slot = {c1}
    Sid = {s1, s2, s3}
    NoSid = NoSid
    Principal = {p1}
    NoOne = NoOne
    MaxFaults = 0
    MaxChanges = 0
SYMMETRY Symmetry
INVARIANTS OverruledLoginCleared
PROPERTIES ForeignCookieKept
CHECK_DEADLOCK FALSE

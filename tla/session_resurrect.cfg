SPECIFICATION Spec
CONSTANTS
    Tab = {t1, t2}
    Slot = {c1}
    Sid = {s1}
    NoSid = NoSid
    Principal = {p1}
    NoOne = NoOne
    MaxFaults = 0
    MaxChanges = 0
PROPERTIES NoResurrection
CHECK_DEADLOCK FALSE

SPECIFICATION LiveSpec
CONSTANTS
    Tab = {t1, t2}
    Slot = {c1}
    Sid = {s1}
    NoSid = NoSid
    Principal = {p1}
    NoOne = NoOne
    MaxFaults = 1
    MaxChanges = 0
PROPERTIES AuthSettles
CHECK_DEADLOCK FALSE

SPECIFICATION Spec
CONSTANTS
    Request = {r1}
    File = {f1}
    Extra = f2
    NoTable = NoTable
    NoProbe = NoProbe
    NoEnv = NoEnv
    MaxChanges = 0
INVARIANTS UnsafeStopsProduction
CHECK_DEADLOCK FALSE

SPECIFICATION Spec
CONSTANTS
    Card = {c1, c2}
    Golden = {g1}
    Manual = Manual
    Company = Company
    Registry = {r1}
    Typed = {t1}
    Unset = Unset
    MaxFaults = 1
    MaxEdits = 1
INVARIANTS TypeOK RetriesNeverDuplicate OneLinkPerForm SuccessMeansStored
PROPERTIES SavedAsSent
SYMMETRY Symmetry
CHECK_DEADLOCK FALSE

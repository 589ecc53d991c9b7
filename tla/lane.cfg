SPECIFICATION FairSpec
CONSTANTS
    Handler = {h1, h2}
    File = {f1, f2}
    NoFile = NoFile
    Attempt = {a1, a2, a3}
    NoAttempt = NoAttempt
    MaxFaults = 2
INVARIANTS TypeOK ReleasedIsScanned AnswersHonest NoDuplicateScan OrphansAccounted
PROPERTIES NoLeaseLeftBehind Implements EveryFileDecided

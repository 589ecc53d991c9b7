SPECIFICATION Spec
CONSTANTS
    m1 = m1  m2 = m2  t1 = t1  t2 = t2  p1 = p1  p2 = p2  g1 = g1  g2 = g2  c1 = c1
    r1 = r1  r2 = r2
    Inst = {i1, i2}
    TransferId = {t1, t2}
    Malformed = Malformed
    GoldenId = {g1, g2}
    NoGolden = NoGolden
    MaxRows = 2
    Request = {r1, r2}
    PartyId = {p1, p2}
    OtherParty = {p2}
    RelationshipCode = {c1}
    Child = {r3}
    Reference = {t1, t2, t3}
    ExistingReference = {t1, t2}
    MatterId = {m1, m2, m3}
    PropertyId = {p1, p2}
    matterOf <- matterOfTransfer
    propertyOf <- propertyOfTransfer
    Milestone = {m1, m2}
    OtherMilestone = m3
    MaxFaults = 1
    Before = r3
    Existing = {t1}
    Doc = {c1}
    Definition = {1, 2}
    NoRow = NoRow
    NoList = NoList
    Clause = {c1}
    Field = {t1, t2}
    Defined = {t1}
    Number = {10}
    MaxNumber = 11
    MaxMade = 2
    MAX_UPLOAD_BYTES = 3
    MaxBody = 5
    Buffer = 2
    ManifestFile = {m1}
    ExtraFile = m2
    NoTable = NoTable
    NoProbe = NoProbe
    NoEnv = NoEnv
    MaxChanges = 2
    Runner = {r1, r2}
    MaxFile = 2
    MaxContent = 2
    Checkout <- Checkouts
    NoRunner = NoRunner
    MaxStarts = 3
    MaxLosses = 2
    Page = {c1}
    Matter = {m1, m2}
    MaxEdits = 2
    MaxClock = 4
    MaxMoves = 1
    Term = {t1, t2}
    EntityType = {"person", "trust"}
    Id = {g1, g2}
    NoRecord = NoRecord
    MaxVersion = 3
    MaxSession = 3
    MaxEntries = 2
    AskedDoc = c1
    Requirement = Requirement
    Recalculate = Recalculate
    MaxCalls = 2
    MaxPanelSession = 2
    Property = {p1}
    Text = {c1}
    matching <- matchingText
    Short = Short
    NoProperty = NoProperty
    NoRows = NoRows
    MaxVisits = 2
    Identity = {g1, g2}
    User = {p1, p2}
    accountsOf <- accountsOfIdentity
    NoUser = NoUser
    MaxCodes = 3
    MaxTransfer = 2
    Limit = 1
    MaxRequest = 3
    MaxListChanges = 1
    Unread = Unread
    NoTotals = NoTotals
    StatementContent = {0, 1}
    Generated = 0
    NoStatement = NoStatement
    MaxStatementVersion = 4
    MaxIds = 2
    Preset = {t1}
    Active = t1
    Custom = {t2}
    NoSettings = NoSettings
    NoTariff = NoTariff
    Recalc = {r1, r2}
    Price = {0, 1, 99999, 100000, 100001, 149999, 150001, 500000, 500001, 1000000, 1000001,
             1050000, 1100000, 1100017, 1512500, 1512509, 2117500, 2117501, 2722500,
             2722505, 5000000, 5000001, 12100000, 12100003}
    Deeds = {1, 2}
    Multiplier = {100, 85}
INVARIANTS TypeOK ReadIsolation ForeignLooksMissing AssignmentsExplained EditStaysWithMatter
INVARIANTS MatterOfTransfer HistoryEndsAtRow ShownSatisfied FeesAgree ShownIsAsked OfSession AnswersMeanProbe StoredAsOneRequest
PROPERTIES NoLostUpdate ChildrenSurvive UnevaluatedKept
SYMMETRY Symmetry
CHECK_DEADLOCK FALSE

------------------------------ MODULE StaffApp ------------------------------
(***************************************************************************)
(* The components of the staff application beside the four that have runs  *)
(* of their own, checked side by side.  None calls another or reads        *)
(* another's variables, so each is explored alone: `part' says which, and  *)
(* v1 to v11 carry its variables, in the order they are declared there.    *)
(*                                                                         *)
(* Some of them do write the same tables: transfers, matters and           *)
(* transfer_financials have several writers.  A writer that bears on what  *)
(* a component promises is an action of that component too, though its     *)
(* home is another: saving a statement writes the figures in Aggregate     *)
(* (StatementSync), POST and PUT of a transfer write them in Proforma      *)
(* (OwnFigures), and other routes insert under matters and properties in   *)
(* Prototype (InsertChild, the document routes).  What the others write of *)
(* those rows, no property here reads.                                     *)
(***************************************************************************)
EXTENDS Integers

CONSTANTS
    Inst, TransferId, Malformed, GoldenId, NoGolden, MaxRows, Request, PartyId,
    OtherParty, RelationshipCode, Child, Reference, ExistingReference, MatterId,
    PropertyId, matterOf, propertyOf, MaxFaults, Milestone, OtherMilestone, Before,
    Existing, Doc, Definition, NoRow, NoList, Clause, Field, Defined, Number,
    MaxNumber, MaxMade, MAX_UPLOAD_BYTES, MaxBody, Buffer, ManifestFile, ExtraFile,
    NoTable, NoProbe, NoEnv, MaxChanges, Runner, MaxFile, MaxContent, Checkout,
    NoRunner, MaxStarts, MaxLosses, Page, Matter, MaxEdits, MaxClock, MaxMoves,
    Term, EntityType, Id, NoRecord, MaxVersion, MaxSession, MaxEntries, AskedDoc,
    Requirement, Recalculate, MaxCalls, MaxPanelSession, Property, Text, matching,
    Short, NoProperty, NoRows, MaxVisits, Identity, User, accountsOf, NoUser,
    MaxCodes, MaxTransfer, Limit, MaxRequest, MaxListChanges, Unread, NoTotals,
    StatementContent, Generated, NoStatement, MaxStatementVersion, MaxIds, Preset,
    Active, Custom, NoSettings, NoTariff, Price, Deeds, Multiplier, Recalc

VARIABLES part, v1, v2, v3, v4, v5, v6, v7, v8, v9, v10, v11

vars == <<part, v1, v2, v3, v4, v5, v6, v7, v8, v9, v10, v11>>

Services == INSTANCE ServiceProofs WITH
    Transfer <- TransferId, Golden <- GoldenId, Party <- PartyId,
    Code <- RelationshipCode, owner <- v1, routesRows <- v2, request <- v3,
    routesAnswer <- v4, relationshipsDefinition <- v1, assigned <- v2,
    relationshipsOpen <- v3, relationshipsPost <- v4, offered <- v5,
    transfers <- v1, matters <- v2, properties <- v3, children <- v4,
    prototypeReq <- v5, prototypeFaults <- v6, milestonesRow <- v1,
    milestonesHistory <- v2, clock <- v3, progress <- v4, milestonesReq <- v5,
    milestonesFaults <- v6, aggregateRow <- v1, price <- v2,
    aggregateFinancials <- v3, aggregateParties <- v4, aggregateDocuments <- v5,
    definitions <- v6, milestones <- v7, aggregateFiles <- v8, aggregateReq <- v9,
    aggregateFaults <- v10, versions <- v1, generatorReq <- v2, page <- v3,
    made <- v4, last <- v5, uploadClient <- v1, limited <- v2, service <- v3,
    uploadAnswer <- v4, env <- v1, using <- v2, process <- v3, signals <- v4,
    world <- v5, manifest <- v6, probe <- v7, reqs <- v8, changes <- v9,
    holder <- v1, migrationsLedger <- v2, run <- v3, starts <- v4,
    migrationsFaults <- v5, executed <- v6, migrationsBy <- v7

Pages == INSTANCE PageProofs WITH
    Type <- EntityType, Asked <- AskedDoc, Transfer <- TransferId,
    Content <- StatementContent, coreRow <- v1, clock <- v2, corePage <- v3,
    coreLoad <- v4, coreSave <- v5, typed <- v6, coreMoves <- v7, coreFaults <- v8,
    goldenSearch <- v1, goldenActive <- v2, goldenVersion <- v3,
    goldenPending <- v4, goldenCalls <- v5, goldenPage <- v6,
    goldenGeneration <- v7, scope <- v8, history <- v9, here <- v10, buyer <- v11,
    docPanelRow <- v1, docPanelShown <- v2, busyKey <- v3, dialog <- v4,
    uploadTarget <- v5, docPanelCalls <- v6, docPanelGeneration <- v7, saved <- v8,
    linkPanelMatter <- v1, panel <- v2, timer <- v3, linkPanelCalls <- v4,
    linked <- v5, linkPanelActive <- v6, reported <- v7, linkPanelMoves <- v8,
    loginPage <- v1, loginCalls <- v2, loginSent <- v3, spent <- v4, session <- v5,
    listPage <- v1, listRequest <- v2, listCalls <- v3, status <- v4, changes <- v5,
    tab <- v1, proformaVersion <- v2, proformaCalls <- v3, cache <- v4,
    proformaRows <- v5, figures <- v6, ids <- v7, proformaFaults <- v8,
    settings <- v1, firmRow <- v2, tariffs <- v3, schedules <- v4, firmCalls <- v5,
    firmPage <- v6, touched <- v7, firmFaults <- v8, firm <- v1, input <- v2,
    proforma <- v3

Docs == INSTANCE RequirementsProofs WITH
    Flags <- FALSE, facts <- v1, active <- v2, status <- v3, clean <- v4,
    recalc <- v5, decided <- v6, page <- v7, changes <- v8

EvaluationFlags == INSTANCE RequirementsProofs WITH
    Recalc <- {}, Flags <- TRUE, MaxChanges <- MaxChanges + 1, facts <- v1,
    active <- v2, status <- v3, clean <- v4, recalc <- v5, decided <- v6,
    page <- v7, changes <- v8

\* What the proofs need of the constants, component by component.
ASSUME StaffAppAssumption ==
    /\ Services!Routes!None \notin Inst /\ Malformed \notin TransferId /\ MaxRows \in Nat
    /\ MaxChanges \in Nat
    /\ Services!PrototypeAssumption
    /\ Services!MilestonesAssumption
    /\ Services!MigrationsAssumption
    /\ Pages!CoreAssumption
    /\ Services!ReadyAssumption
    /\ Pages!GoldenAssumption
    /\ Pages!PanelAssumption
    /\ Pages!LoginAssumption
    /\ Pages!LinksAssumption
    /\ Pages!ListAssumption
    /\ Pages!ProformaAssumption
    /\ Pages!FirmAssumption
    /\ Services!GeneratorAssumption
    /\ Services!AggregateAssumption
    /\ Services!UploadAssumption
    /\ Pages!AccountsAssumption

\* The components, by name.
Part == {"routes", "relationships", "core", "prototype", "milestones", "docs", "accounts",
         "golden", "readiness", "login", "properties", "documents", "list", "proforma",
         "firm", "aggregate", "flags", "upload", "generator", "migrations"}

InitPart ==
    \/ part = "routes" /\ Services!Routes!Init
        /\ v5 = 0 /\ v6 = 0 /\ v7 = 0 /\ v8 = 0 /\ v9 = 0 /\ v10 = 0 /\ v11 = 0
    \/ part = "relationships" /\ Services!Relationships!Init
        /\ v6 = 0 /\ v7 = 0 /\ v8 = 0 /\ v9 = 0 /\ v10 = 0 /\ v11 = 0
    \/ part = "core" /\ Pages!Core!Init /\ v9 = 0 /\ v10 = 0 /\ v11 = 0
    \/ part = "prototype" /\ Services!Prototype!Init /\ v7 = 0 /\ v8 = 0 /\ v9 = 0 /\ v10 = 0 /\ v11 = 0
    \/ part = "milestones" /\ Services!Milestones!Init
        /\ v7 = 0 /\ v8 = 0 /\ v9 = 0 /\ v10 = 0 /\ v11 = 0
    \/ part = "docs" /\ Docs!Init /\ v9 = 0 /\ v10 = 0 /\ v11 = 0
    \/ part = "accounts" /\ Pages!Accounts!Init
        /\ v4 = 0 /\ v5 = 0 /\ v6 = 0 /\ v7 = 0 /\ v8 = 0 /\ v9 = 0 /\ v10 = 0 /\ v11 = 0
    \/ part = "golden" /\ Pages!Golden!Init
    \/ part = "readiness" /\ Services!Ready!Init /\ v10 = 0 /\ v11 = 0
    \/ part = "login" /\ Pages!Login!Init
        /\ v6 = 0 /\ v7 = 0 /\ v8 = 0 /\ v9 = 0 /\ v10 = 0 /\ v11 = 0
    \/ part = "properties" /\ Pages!LinkPanel!Init /\ v9 = 0 /\ v10 = 0 /\ v11 = 0
    \/ part = "documents" /\ Pages!DocPanel!Init /\ v9 = 0 /\ v10 = 0 /\ v11 = 0
    \/ part = "list" /\ Pages!List!Init
        /\ v6 = 0 /\ v7 = 0 /\ v8 = 0 /\ v9 = 0 /\ v10 = 0 /\ v11 = 0
    \/ part = "proforma" /\ Pages!Proforma!Init /\ v9 = 0 /\ v10 = 0 /\ v11 = 0
    \/ part = "firm" /\ Pages!Firm!Init /\ v9 = 0 /\ v10 = 0 /\ v11 = 0
    \/ part = "aggregate" /\ Services!Aggregate!Init /\ v11 = 0
    \/ part = "flags" /\ EvaluationFlags!Init /\ v9 = 0 /\ v10 = 0 /\ v11 = 0
    \/ part = "upload" /\ Services!Upload!Init
        /\ v5 = 0 /\ v6 = 0 /\ v7 = 0 /\ v8 = 0 /\ v9 = 0 /\ v10 = 0 /\ v11 = 0
    \/ part = "generator" /\ Services!Generator!Init
        /\ v6 = 0 /\ v7 = 0 /\ v8 = 0 /\ v9 = 0 /\ v10 = 0 /\ v11 = 0
    \/ part = "migrations" /\ Services!Migrations!Init /\ v8 = 0 /\ v9 = 0 /\ v10 = 0 /\ v11 = 0

NextPart ==
    /\ UNCHANGED part
    /\ \/ part = "routes" /\ Services!Routes!Next /\ UNCHANGED <<v5, v6, v7, v8, v9, v10, v11>>
       \/ part = "relationships" /\ Services!Relationships!Next /\ UNCHANGED <<v6, v7, v8, v9, v10, v11>>
       \/ part = "core" /\ Pages!Core!Next /\ UNCHANGED <<v9, v10, v11>>
       \/ part = "prototype" /\ Services!Prototype!Next /\ UNCHANGED <<v7, v8, v9, v10, v11>>
       \/ part = "milestones" /\ Services!Milestones!Next /\ UNCHANGED <<v7, v8, v9, v10, v11>>
       \/ part = "docs" /\ Docs!Next /\ UNCHANGED <<v9, v10, v11>>
       \/ part = "accounts" /\ Pages!Accounts!Next /\ UNCHANGED <<v4, v5, v6, v7, v8, v9, v10, v11>>
       \/ part = "golden" /\ Pages!Golden!Next
       \/ part = "readiness" /\ Services!Ready!Next /\ UNCHANGED <<v10, v11>>
       \/ part = "login" /\ Pages!Login!Next /\ UNCHANGED <<v6, v7, v8, v9, v10, v11>>
       \/ part = "properties" /\ Pages!LinkPanel!Next /\ UNCHANGED <<v9, v10, v11>>
       \/ part = "documents" /\ Pages!DocPanel!Next /\ UNCHANGED <<v9, v10, v11>>
       \/ part = "list" /\ Pages!List!Next /\ UNCHANGED <<v6, v7, v8, v9, v10, v11>>
       \/ part = "proforma" /\ Pages!Proforma!Next /\ UNCHANGED <<v9, v10, v11>>
       \/ part = "firm" /\ Pages!Firm!Next /\ UNCHANGED <<v9, v10, v11>>
       \/ part = "aggregate" /\ Services!Aggregate!Next /\ UNCHANGED v11
       \/ part = "flags" /\ EvaluationFlags!Next /\ UNCHANGED <<v9, v10, v11>>
       \/ part = "upload" /\ Services!Upload!Next /\ UNCHANGED <<v5, v6, v7, v8, v9, v10, v11>>
       \/ part = "generator" /\ Services!Generator!Next /\ UNCHANGED <<v6, v7, v8, v9, v10, v11>>
       \/ part = "migrations" /\ Services!Migrations!Next /\ UNCHANGED <<v8, v9, v10, v11>>

Spec == InitPart /\ [][NextPart]_vars

-----------------------------------------------------------------------------
(* The properties, each of the part that is explored.                       *)

\* Every component's state has its type.
TypeOK ==
    /\ part \in Part
    /\ part = "routes" => Services!Routes!TypeOK
    /\ part = "relationships" => Services!Relationships!TypeOK
    /\ part = "core" => Pages!Core!TypeOK
    /\ part = "prototype" => Services!Prototype!TypeOK
    /\ part = "milestones" => Services!Milestones!TypeOK
    /\ part = "docs" => Docs!TypeOK
    /\ part = "accounts" => Pages!Accounts!TypeOK
    /\ part = "golden" => Pages!Golden!TypeOK
    /\ part = "readiness" => Services!Ready!TypeOK
    /\ part = "login" => Pages!Login!TypeOK
    /\ part = "properties" => Pages!LinkPanel!TypeOK
    /\ part = "documents" => Pages!DocPanel!TypeOK
    /\ part = "list" => Pages!List!TypeOK
    /\ part = "proforma" => Pages!Proforma!TypeOK
    /\ part = "firm" => Pages!Firm!TypeOK
    /\ part = "aggregate" => Services!Aggregate!TypeOK
    /\ part = "flags" => EvaluationFlags!TypeOK
    /\ part = "upload" => Services!Upload!TypeOK
    /\ part = "generator" => Services!Generator!TypeOK
    /\ part = "migrations" => Services!Migrations!TypeOK

\* MatterRoutes: whatever is committed between the statements of a handler, the
\* rows it sends are of the caller's institution, a client's only its own.
ReadIsolation == part = "routes" => Services!Routes!ReadIsolation

\* MatterRoutes: a hidden transfer is answered like one that does not exist.
ForeignLooksMissing == part = "routes" => Services!Routes!ForeignLooksMissing

\* PartyRelationships: every assignment, and every answer about one, is
\* explained by a definition that was active and by the row that stands.
AssignmentsExplained == part = "relationships" => Services!Relationships!AssignmentsExplained

\* MatterCore: an edit typed while one matter was shown is never stored in another.
EditStaysWithMatter == part = "core" => Pages!Core!EditStaysWithMatter

\* MatterCore: a save overwrites only the values its page showed.
NoLostUpdate == [][part = "core" => Pages!Core!OverwritesShown]_vars

\* PrototypeTransfers: one matter names each transfer, the transfer's own link leads
\* there or nowhere, and a matter whose transfer has gone was kept for counted rows.
MatterOfTransfer == part = "prototype" => Services!Prototype!MatterOfTransfer

\* PrototypeTransfers: a deletion takes along no row inserted meanwhile into a table
\* that it counts (those of the others go by their foreign keys), and none stays
\* without its parent.
ChildrenSurvive == [][part = "prototype" => Services!Prototype!KeepsChildren]_vars

\* LegacyMilestones: the history of a milestone, newest transaction first, has the
\* status of its row on top, but for rows of transactions that ran wholly within the
\* one that wrote it; MigrationRunner: the ledger says what was executed last, by one session at a time,
\* and again only after a loss.
HistoryEndsAtRow ==
    /\ part = "milestones" => Services!Milestones!HistoryEndsAtRow
    /\ part = "migrations" =>
        /\ Services!Migrations!OneAtATime /\ Services!Migrations!LedgerExecuted /\ Services!Migrations!CompletedAsCheckout
        /\ Services!Migrations!AgainAfterLoss

\* Requirements: a recalculation leaves the requirement of a rule it could not
\* decide alone.
UnevaluatedKept == [][part = "docs" => Docs!TouchesDecided]_vars

\* Requirements: documents and requirements on the page hang together, and what
\* could not be decided is shown as such.
ShownSatisfied ==
    /\ part = "docs" => Docs!ShownSatisfied
    /\ part = "flags" => EvaluationFlags!ShownSatisfied /\ EvaluationFlags!UnevaluatedShown

\* Tariffs: base amounts and brackets give what accrues bracket by bracket, the
\* wizard's estimate, the page's calculator and the statement agree up to rounding,
\* a statement's totals are those of its lines, and no dearer price costs less;
\* FirmSettings: the official schedules they are computed from are never altered.
FeesAgree ==
    /\ part = "accounts" =>
        /\ Pages!Accounts!FeesAccrue /\ Pages!Accounts!EstimateNearStatement /\ Pages!Accounts!StatementAddsUp
        /\ Pages!Accounts!CalculatorsAgree /\ Pages!Accounts!NothingCheaperAbove
    /\ part = "firm" => Pages!Firm!OfficialAsIssued

\* Whichever answers come late or not at all.  GoldenRecordSearch: records shown
\* match the fields.  LoginFlow: the PIN beside the code was sent to the account of
\* the form (an account given up by Back may still become the form's).
\* MatterProperties: a link shown or reported is stored (of another matter, perhaps).
\* MatterDocumentsPanel: what is offered is released, and a file reaches its row.
\* TransfersList: the list is of the filter and page selected.  ProformaStatement: a
\* statement drawn is of its transfer.  FirmSettings: "saved" is stored.
\* DocumentGenerator: a document is merged whole and stays in the history.
ShownIsAsked ==
    /\ part = "golden" => Pages!Golden!ShownIsAsked /\ Pages!Golden!BusyIsOneCall
    /\ part = "login" => Pages!Login!PinOfAccount /\ Pages!Login!BusyIsOneCall /\ Pages!Login!GateTrustsOwnPages
    /\ part = "properties" => Pages!LinkPanel!ReportedIsStored /\ Pages!LinkPanel!PendingIsOneClick
    /\ part = "documents" => Pages!DocPanel!OfferedIsReleased /\ Pages!DocPanel!FileReachesItsRow
    /\ part = "list" => Pages!List!ListIsSelected /\ Pages!List!LoadingIsNewest
    /\ part = "proforma" => Pages!Proforma!DrawnIsOfTransfer /\ Pages!Proforma!BusyIsNewest
    /\ part = "firm" => Pages!Firm!SavedIsStored
    /\ part = "generator" => Services!Generator!MergedWhole /\ Services!Generator!HistoryKept

\* GoldenRecordSearch and MatterDocumentsPanel: a record carried to the wizard, and
\* a file that is saved, are of the session that asked for them.
OfSession ==
    /\ part = "golden" => Pages!Golden!BuyerOfSession
    /\ part = "documents" => Pages!DocPanel!SavedInItsSession

\* Readiness: in production a process listens only with the database it validated,
\* unless the specialist suite's override is on, and every request for readiness
\* gets the answer of a probe it shares; MigrationRunner: a run
\* from a ledger that passes the preflight is what the preflight announced.
AnswersMeanProbe ==
    /\ part = "readiness" => Services!Ready!ListensAsValidated /\ Services!Ready!AnswersMeanProbe
    /\ part = "migrations" => Services!Migrations!PreflightForesees

\* ProformaStatement: figures that were taken from statements are of one that is
\* stored, whatever the transfer's own routes write beside them.  TransferAggregate:
\* the price is that of the figures, unless those are of a statement saved beside
\* it; parties are of one request, milestones complete, files there, the detail
\* whole.  UploadProxy: a stored body is whole.  DocumentGenerator: no version of a
\* clause has two texts.
StoredAsOneRequest ==
    /\ part = "proforma" => Pages!Proforma!FiguresOfStatement
    /\ part = "aggregate" =>
        /\ Services!Aggregate!PricesAgree /\ Services!Aggregate!PartiesOfOneRequest /\ Services!Aggregate!MilestonesComplete
        /\ Services!Aggregate!FilesOfRows /\ Services!Aggregate!DetailWhole
    /\ part = "upload" => Services!Upload!StoredWhole /\ Services!Upload!TooLargeNotStored
    /\ part = "generator" => Services!Generator!NumberedOnce
=============================================================================

--------------------------- MODULE StaffAppProofs ---------------------------
(***************************************************************************)
(* What is proved of the components, of the application they make up: a    *)
(* behaviour of StaffApp takes steps of one component only, so it is one of*)
(* that component, and the others' properties hold of it for want of it.   *)
(***************************************************************************)
EXTENDS StaffApp, TLAPS

LEMMA OtherPart ==
    ASSUME NEW CONSTANT name
    PROVE  ~(part = name) /\ [NextPart]_vars => (~(part = name))'
BY DEF NextPart, vars

LEMMA RoutesPart ==
    /\ InitPart /\ part = "routes" => Services!Routes!Init
    /\ part = "routes" /\ [NextPart]_vars =>
        (part = "routes")' /\ [Services!Routes!Next]_(Services!Routes!vars)
BY DEF InitPart, NextPart, vars, Services!Routes!vars

LEMMA RelationshipsPart ==
    /\ InitPart /\ part = "relationships" => Services!Relationships!Init
    /\ part = "relationships" /\ [NextPart]_vars =>
        (part = "relationships")' /\ [Services!Relationships!Next]_(Services!Relationships!vars)
BY DEF InitPart, NextPart, vars, Services!Relationships!vars

LEMMA CorePart ==
    /\ InitPart /\ part = "core" => Pages!Core!Init
    /\ part = "core" /\ [NextPart]_vars =>
        (part = "core")' /\ [Pages!Core!Next]_(Pages!Core!vars)
BY DEF InitPart, NextPart, vars, Pages!Core!vars

LEMMA PrototypePart ==
    /\ InitPart /\ part = "prototype" => Services!Prototype!Init
    /\ part = "prototype" /\ [NextPart]_vars =>
        (part = "prototype")' /\ [Services!Prototype!Next]_(Services!Prototype!vars)
BY DEF InitPart, NextPart, vars, Services!Prototype!vars

LEMMA MilestonesPart ==
    /\ InitPart /\ part = "milestones" => Services!Milestones!Init
    /\ part = "milestones" /\ [NextPart]_vars =>
        (part = "milestones")' /\ [Services!Milestones!Next]_(Services!Milestones!vars)
BY DEF InitPart, NextPart, vars, Services!Milestones!vars

LEMMA MigrationsPart ==
    /\ InitPart /\ part = "migrations" => Services!Migrations!Init
    /\ part = "migrations" /\ [NextPart]_vars =>
        (part = "migrations")' /\ [Services!Migrations!Next]_(Services!Migrations!vars)
BY DEF InitPart, NextPart, vars, Services!Migrations!vars

LEMMA DocsPart ==
    /\ InitPart /\ part = "docs" => Docs!Init
    /\ part = "docs" /\ [NextPart]_vars =>
        (part = "docs")' /\ [Docs!Next]_(Docs!vars)
BY DEF InitPart, NextPart, vars, Docs!vars

LEMMA FlagsPart ==
    /\ InitPart /\ part = "flags" => EvaluationFlags!Init
    /\ part = "flags" /\ [NextPart]_vars =>
        (part = "flags")' /\ [EvaluationFlags!Next]_(EvaluationFlags!vars)
BY DEF InitPart, NextPart, vars, EvaluationFlags!vars

LEMMA ReadyPart ==
    /\ InitPart /\ part = "readiness" => Services!Ready!Init
    /\ part = "readiness" /\ [NextPart]_vars =>
        (part = "readiness")' /\ [Services!Ready!Next]_(Services!Ready!vars)
BY DEF InitPart, NextPart, vars, Services!Ready!vars

LEMMA GoldenPart ==
    /\ InitPart /\ part = "golden" => Pages!Golden!Init
    /\ part = "golden" /\ [NextPart]_vars =>
        (part = "golden")' /\ [Pages!Golden!Next]_(Pages!Golden!vars)
BY DEF InitPart, NextPart, vars, Pages!Golden!vars, Pages!Golden!guard, Pages!Golden!navigation

LEMMA DocumentsPart ==
    /\ InitPart /\ part = "documents" => Pages!DocPanel!Init
    /\ part = "documents" /\ [NextPart]_vars =>
        (part = "documents")' /\ [Pages!DocPanel!Next]_(Pages!DocPanel!vars)
BY DEF InitPart, NextPart, vars, Pages!DocPanel!vars

LEMMA LoginPart ==
    /\ InitPart /\ part = "login" => Pages!Login!Init
    /\ part = "login" /\ [NextPart]_vars =>
        (part = "login")' /\ [Pages!Login!Next]_(Pages!Login!vars)
BY DEF InitPart, NextPart, vars, Pages!Login!vars

LEMMA PropertiesPart ==
    /\ InitPart /\ part = "properties" => Pages!LinkPanel!Init
    /\ part = "properties" /\ [NextPart]_vars =>
        (part = "properties")' /\ [Pages!LinkPanel!Next]_(Pages!LinkPanel!vars)
BY DEF InitPart, NextPart, vars, Pages!LinkPanel!vars

LEMMA ListPart ==
    /\ InitPart /\ part = "list" => Pages!List!Init
    /\ part = "list" /\ [NextPart]_vars =>
        (part = "list")' /\ [Pages!List!Next]_(Pages!List!vars)
BY DEF InitPart, NextPart, vars, Pages!List!vars

LEMMA ProformaPart ==
    /\ InitPart /\ part = "proforma" => Pages!Proforma!Init
    /\ part = "proforma" /\ [NextPart]_vars =>
        (part = "proforma")' /\ [Pages!Proforma!Next]_(Pages!Proforma!vars)
BY DEF InitPart, NextPart, vars, Pages!Proforma!vars, Pages!Proforma!server

LEMMA FirmPart ==
    /\ InitPart /\ part = "firm" => Pages!Firm!Init
    /\ part = "firm" /\ [NextPart]_vars =>
        (part = "firm")' /\ [Pages!Firm!Next]_(Pages!Firm!vars)
BY DEF InitPart, NextPart, vars, Pages!Firm!vars

LEMMA GeneratorPart ==
    /\ InitPart /\ part = "generator" => Services!Generator!Init
    /\ part = "generator" /\ [NextPart]_vars =>
        (part = "generator")' /\ [Services!Generator!Next]_(Services!Generator!vars)
BY DEF InitPart, NextPart, vars, Services!Generator!vars

LEMMA AccountsPart ==
    /\ InitPart /\ part = "accounts" => Pages!Accounts!Init
    /\ part = "accounts" /\ [NextPart]_vars =>
        (part = "accounts")' /\ [Pages!Accounts!Next]_(Pages!Accounts!vars)
BY DEF InitPart, NextPart, vars, Pages!Accounts!vars

LEMMA AggregatePart ==
    /\ InitPart /\ part = "aggregate" => Services!Aggregate!Init
    /\ part = "aggregate" /\ [NextPart]_vars =>
        (part = "aggregate")' /\ [Services!Aggregate!Next]_(Services!Aggregate!vars)
BY DEF InitPart, NextPart, vars, Services!Aggregate!vars, Services!Aggregate!tables

LEMMA UploadPart ==
    /\ InitPart /\ part = "upload" => Services!Upload!Init
    /\ part = "upload" /\ [NextPart]_vars =>
        (part = "upload")' /\ [Services!Upload!Next]_(Services!Upload!vars)
BY DEF InitPart, NextPart, vars, Services!Upload!vars

-----------------------------------------------------------------------------

\* Whatever is committed between the statements of a matter route, the rows it sends
\* are of the caller's institution, a client's only its own.
THEOREM AppReadIsolation == Spec => []ReadIsolation
<1>1. Services!Routes!Spec => []Services!Routes!ReadIsolation
  BY StaffAppAssumption, Services!MatterRoutesReadIsolation
<1>2. Services!Routes!Spec <=> Services!Routes!Init /\ [][Services!Routes!Next]_(Services!Routes!vars)
  BY DEF Services!Routes!Spec
<1>3. ReadIsolation <=> (part = "routes" => Services!Routes!ReadIsolation)
  BY DEF ReadIsolation
<1>4. ~(part = "routes") /\ [NextPart]_vars => (~(part = "routes"))'
  BY OtherPart
<1>. QED
  BY <1>1, <1>2, <1>3, <1>4, RoutesPart, PTL DEF Spec

\* A transfer hidden from the caller is answered like one that does not exist.
THEOREM AppForeignLooksMissing == Spec => []ForeignLooksMissing
<1>1. Services!Routes!Spec => []Services!Routes!ForeignLooksMissing
  BY StaffAppAssumption, Services!MatterRoutesForeignLooksMissing
<1>2. Services!Routes!Spec <=> Services!Routes!Init /\ [][Services!Routes!Next]_(Services!Routes!vars)
  BY DEF Services!Routes!Spec
<1>3. ForeignLooksMissing <=> (part = "routes" => Services!Routes!ForeignLooksMissing)
  BY DEF ForeignLooksMissing
<1>4. ~(part = "routes") /\ [NextPart]_vars => (~(part = "routes"))'
  BY OtherPart
<1>. QED
  BY <1>1, <1>2, <1>3, <1>4, RoutesPart, PTL DEF Spec

\* However requests race with the administration of the codes, every assignment of a
\* relationship, and every answer about one, is explained by a definition that was active
\* and by the row that stands.
THEOREM AppAssignmentsExplained == Spec => []AssignmentsExplained
<1>1. Services!Relationships!Spec => []Services!Relationships!AssignmentsExplained
  BY Services!RelationshipsExplained
<1>2. Services!Relationships!Spec <=> Services!Relationships!Init /\ [][Services!Relationships!Next]_(Services!Relationships!vars)
  BY DEF Services!Relationships!Spec
<1>3. AssignmentsExplained <=> (part = "relationships" => Services!Relationships!AssignmentsExplained)
  BY DEF AssignmentsExplained
<1>4. ~(part = "relationships") /\ [NextPart]_vars => (~(part = "relationships"))'
  BY OtherPart
<1>. QED
  BY <1>1, <1>2, <1>3, <1>4, RelationshipsPart, PTL DEF Spec

\* Nothing typed while one matter was on a page is ever stored in another.
THEOREM AppEditStaysWithMatter == Spec => []EditStaysWithMatter
<1>1. Pages!Core!Spec => []Pages!Core!EditStaysWithMatter
  BY StaffAppAssumption, Pages!CoreEditStays
<1>2. Pages!Core!Spec <=> Pages!Core!Init /\ [][Pages!Core!Next]_(Pages!Core!vars)
  BY DEF Pages!Core!Spec
<1>3. EditStaysWithMatter <=> (part = "core" => Pages!Core!EditStaysWithMatter)
  BY DEF EditStaysWithMatter
<1>4. ~(part = "core") /\ [NextPart]_vars => (~(part = "core"))'
  BY OtherPart
<1>. QED
  BY <1>1, <1>2, <1>3, <1>4, CorePart, PTL DEF Spec

\* A save overwrites only the values that the page it comes from showed.
THEOREM AppNoLostUpdate == Spec => NoLostUpdate
<1>1. Pages!Core!Spec => [][Pages!Core!OverwritesShown]_(Pages!Core!vars)
  BY StaffAppAssumption, Pages!CoreNoLostUpdate DEF Pages!Core!NoLostUpdate
<1>2. Pages!Core!Spec <=> Pages!Core!Init /\ [][Pages!Core!Next]_(Pages!Core!vars)
  BY DEF Pages!Core!Spec
<1>3. part = "core" /\ [NextPart]_vars /\ [Pages!Core!OverwritesShown]_(Pages!Core!vars)
        => [part = "core" => Pages!Core!OverwritesShown]_vars
  BY DEF NextPart, vars, Pages!Core!vars
<1>4. ~(part = "core") /\ [NextPart]_vars =>
        (~(part = "core"))' /\ [part = "core" => Pages!Core!OverwritesShown]_vars
  BY DEF NextPart, vars
<1>. QED
  BY <1>1, <1>2, <1>3, <1>4, CorePart, PTL DEF Spec, NoLostUpdate

\* Under any interleaving of creations, updates, deletions, documents and failures one
\* matter names each transfer, the transfer's own link leads there or nowhere, and a
\* matter without its transfer was kept for its counted rows.
THEOREM AppMatterOfTransfer == Spec => []MatterOfTransfer
<1>1. Services!Prototype!Spec => []Services!Prototype!MatterOfTransfer
  BY StaffAppAssumption, Services!PrototypeMatterOfTransfer
<1>2. Services!Prototype!Spec <=> Services!Prototype!Init /\ [][Services!Prototype!Next]_(Services!Prototype!vars)
  BY DEF Services!Prototype!Spec
<1>3. MatterOfTransfer <=> (part = "prototype" => Services!Prototype!MatterOfTransfer)
  BY DEF MatterOfTransfer
<1>4. ~(part = "prototype") /\ [NextPart]_vars => (~(part = "prototype"))'
  BY OtherPart
<1>. QED
  BY <1>1, <1>2, <1>3, <1>4, PrototypePart, PTL DEF Spec

\* A deletion of a transfer takes along no row that another route inserted meanwhile into
\* a table it counts, and leaves no row without its parent.
THEOREM AppChildrenSurvive == Spec => ChildrenSurvive
<1>1. Services!Prototype!Spec => [][Services!Prototype!KeepsChildren]_(Services!Prototype!vars)
  BY StaffAppAssumption, Services!PrototypeChildrenSurvive DEF Services!Prototype!ChildrenSurvive
<1>2. Services!Prototype!Spec <=> Services!Prototype!Init /\ [][Services!Prototype!Next]_(Services!Prototype!vars)
  BY DEF Services!Prototype!Spec
<1>3. part = "prototype" /\ [NextPart]_vars /\ [Services!Prototype!KeepsChildren]_(Services!Prototype!vars)
        => [part = "prototype" => Services!Prototype!KeepsChildren]_vars
  BY DEF NextPart, vars, Services!Prototype!vars
<1>4. ~(part = "prototype") /\ [NextPart]_vars =>
        (~(part = "prototype"))' /\ [part = "prototype" => Services!Prototype!KeepsChildren]_vars
  BY DEF NextPart, vars
<1>. QED
  BY <1>1, <1>2, <1>3, <1>4, PrototypePart, PTL DEF Spec, ChildrenSurvive

\* A recalculation leaves the requirement of a rule it could not decide alone.
THEOREM AppUnevaluatedKept == Spec => UnevaluatedKept
<1>1. Docs!Spec => [][Docs!TouchesDecided]_(Docs!vars)
  BY Docs!RequirementsUnevaluatedKept DEF Docs!UnevaluatedKept
<1>2. Docs!Spec <=> Docs!Init /\ [][Docs!Next]_(Docs!vars)
  BY DEF Docs!Spec
<1>3. part = "docs" /\ [NextPart]_vars /\ [Docs!TouchesDecided]_(Docs!vars)
        => [part = "docs" => Docs!TouchesDecided]_vars
  BY DEF NextPart, vars, Docs!vars
<1>4. ~(part = "docs") /\ [NextPart]_vars =>
        (~(part = "docs"))' /\ [part = "docs" => Docs!TouchesDecided]_vars
  BY DEF NextPart, vars
<1>. QED
  BY <1>1, <1>2, <1>3, <1>4, DocsPart, PTL DEF Spec, UnevaluatedKept

\* The history of a milestone, sorted by when its transactions began, has the status of
\* the row on top, but for rows of transactions that ran wholly within the one that wrote
\* it; the migrations' ledger says what was executed last, by one session at a time, and
\* again only after a loss.
THEOREM AppHistoryEndsAtRow == Spec => []HistoryEndsAtRow
<1>. DEFINE Told == /\ Services!Migrations!OneAtATime /\ Services!Migrations!LedgerExecuted
                    /\ Services!Migrations!CompletedAsCheckout /\ Services!Migrations!AgainAfterLoss
<1>1. Services!Milestones!Spec => []Services!Milestones!HistoryEndsAtRow
  BY StaffAppAssumption, Services!MilestonesHistory
<1>2. Services!Milestones!Spec <=> Services!Milestones!Init /\ [][Services!Milestones!Next]_(Services!Milestones!vars)
  BY DEF Services!Milestones!Spec
<1>3. Services!Migrations!Spec => []Told
  <2>. Services!MigrationsAssumption
    BY StaffAppAssumption
  <2>1. Services!Migrations!Spec => []Services!Migrations!OneAtATime
    BY Services!RunnersOneAtATime
  <2>2. Services!Migrations!Spec => []Services!Migrations!LedgerExecuted
    BY Services!RunnersLedgerExecuted
  <2>3. Services!Migrations!Spec => []Services!Migrations!CompletedAsCheckout
    BY Services!RunnersCompletedAsCheckout
  <2>4. Services!Migrations!Spec => []Services!Migrations!AgainAfterLoss
    BY Services!RunnersAgainAfterLoss
  <2>. QED
    BY <2>1, <2>2, <2>3, <2>4, PTL
<1>4. Services!Migrations!Spec <=> Services!Migrations!Init /\ [][Services!Migrations!Next]_(Services!Migrations!vars)
  BY DEF Services!Migrations!Spec
<1>5. HistoryEndsAtRow <=> /\ part = "milestones" => Services!Milestones!HistoryEndsAtRow
                           /\ part = "migrations" => Told
  BY DEF HistoryEndsAtRow
<1>6. /\ ~(part = "milestones") /\ [NextPart]_vars => (~(part = "milestones"))'
      /\ ~(part = "migrations") /\ [NextPart]_vars => (~(part = "migrations"))'
  BY OtherPart
<1>. HIDE DEF Told
<1>7. Spec => [](part = "milestones" => Services!Milestones!HistoryEndsAtRow)
  BY <1>1, <1>2, <1>6, MilestonesPart, PTL DEF Spec
<1>8. Spec => [](part = "migrations" => Told)
  BY <1>3, <1>4, <1>6, MigrationsPart, PTL DEF Spec
<1>. QED
  BY <1>5, <1>7, <1>8, PTL

\* Documents and requirements on the page hang together, and what could not be decided
\* is shown as such, whatever the evaluation flags answer.
THEOREM AppShownSatisfied == Spec => []ShownSatisfied
<1>. DEFINE Both == EvaluationFlags!ShownSatisfied /\ EvaluationFlags!UnevaluatedShown
<1>1. Docs!Spec => []Docs!ShownSatisfied
  BY Docs!RequirementsShownSatisfied
<1>2. Docs!Spec <=> Docs!Init /\ [][Docs!Next]_(Docs!vars)
  BY DEF Docs!Spec
<1>3. EvaluationFlags!Spec => []Both
  <2>1. EvaluationFlags!Spec => []EvaluationFlags!ShownSatisfied
    BY EvaluationFlags!RequirementsShownSatisfied
  <2>2. EvaluationFlags!Spec => []EvaluationFlags!UnevaluatedShown
    BY EvaluationFlags!RequirementsUnevaluatedShown
  <2>. QED
    BY <2>1, <2>2, PTL
<1>4. EvaluationFlags!Spec <=>
        EvaluationFlags!Init /\ [][EvaluationFlags!Next]_(EvaluationFlags!vars)
  BY DEF EvaluationFlags!Spec
<1>5. ShownSatisfied <=> /\ part = "docs" => Docs!ShownSatisfied
                         /\ part = "flags" => Both
  BY DEF ShownSatisfied
<1>6. /\ ~(part = "docs") /\ [NextPart]_vars => (~(part = "docs"))'
      /\ ~(part = "flags") /\ [NextPart]_vars => (~(part = "flags"))'
  BY OtherPart
<1>. HIDE DEF Both
<1>7. Spec => [](part = "docs" => Docs!ShownSatisfied)
  BY <1>1, <1>2, <1>6, DocsPart, PTL DEF Spec
<1>8. Spec => [](part = "flags" => Both)
  BY <1>3, <1>4, <1>6, FlagsPart, PTL DEF Spec
<1>. QED
  BY <1>5, <1>7, <1>8, PTL

\* For any number of users, matters and calls, in whatever order the answers come: search
\* results match the fields, a PIN is of the form's account, a link shown or reported is
\* stored, a file offered is released and one chosen reaches its row, a list is of the
\* filter selected, a statement of its transfer, what is called saved is stored, and a
\* document is merged whole.
THEOREM AppShownIsAsked == Spec => []ShownIsAsked
<1>. DEFINE Shown == Pages!Golden!ShownIsAsked /\ Pages!Golden!BusyIsOneCall
            Logged == Pages!Login!PinOfAccount /\ Pages!Login!BusyIsOneCall /\ Pages!Login!GateTrustsOwnPages
            Reported == Pages!LinkPanel!ReportedIsStored /\ Pages!LinkPanel!PendingIsOneClick
            Offered == Pages!DocPanel!OfferedIsReleased /\ Pages!DocPanel!FileReachesItsRow
            Listed == Pages!List!ListIsSelected /\ Pages!List!LoadingIsNewest
            Drew == Pages!Proforma!DrawnIsOfTransfer /\ Pages!Proforma!BusyIsNewest
            Saved == Pages!Firm!SavedIsStored
            Merged == Services!Generator!MergedWhole /\ Services!Generator!HistoryKept
<1>1. Spec => [](part = "golden" => Shown)
  <2>1. Pages!Golden!Spec => []Shown
    BY StaffAppAssumption, Pages!GoldenShownIsAsked
  <2>2. Pages!Golden!Spec <=> Pages!Golden!Init /\ [][Pages!Golden!Next]_(Pages!Golden!vars)
    BY DEF Pages!Golden!Spec
  <2>3. ~(part = "golden") /\ [NextPart]_vars => (~(part = "golden"))'
    BY OtherPart
  <2>. HIDE DEF Shown
  <2>. QED
    BY <2>1, <2>2, <2>3, GoldenPart, PTL DEF Spec
<1>2. Spec => [](part = "login" => Logged)
  <2>1. Pages!Login!Spec => []Logged
    <3>1. Pages!Login!Spec => [](Pages!Login!PinOfAccount /\ Pages!Login!BusyIsOneCall)
      BY StaffAppAssumption, Pages!LoginPinOfAccount
    <3>2. (Pages!Login!PinOfAccount /\ Pages!Login!BusyIsOneCall) => Logged
      BY Pages!LoginGate
    <3>. QED
      BY <3>1, <3>2, PTL
  <2>2. Pages!Login!Spec <=> Pages!Login!Init /\ [][Pages!Login!Next]_(Pages!Login!vars)
    BY DEF Pages!Login!Spec
  <2>3. ~(part = "login") /\ [NextPart]_vars => (~(part = "login"))'
    BY OtherPart
  <2>. HIDE DEF Logged
  <2>. QED
    BY <2>1, <2>2, <2>3, LoginPart, PTL DEF Spec
<1>3. Spec => [](part = "properties" => Reported)
  <2>1. Pages!LinkPanel!Spec => []Reported
    BY StaffAppAssumption, Pages!LinksReported
  <2>2. Pages!LinkPanel!Spec <=> Pages!LinkPanel!Init /\ [][Pages!LinkPanel!Next]_(Pages!LinkPanel!vars)
    BY DEF Pages!LinkPanel!Spec
  <2>3. ~(part = "properties") /\ [NextPart]_vars => (~(part = "properties"))'
    BY OtherPart
  <2>. HIDE DEF Reported
  <2>. QED
    BY <2>1, <2>2, <2>3, PropertiesPart, PTL DEF Spec
<1>4. Spec => [](part = "documents" => Offered)
  <2>1. Pages!DocPanel!Spec => []Offered
    BY StaffAppAssumption, Pages!PanelOffersAndUploads
  <2>2. Pages!DocPanel!Spec <=> Pages!DocPanel!Init /\ [][Pages!DocPanel!Next]_(Pages!DocPanel!vars)
    BY DEF Pages!DocPanel!Spec
  <2>3. ~(part = "documents") /\ [NextPart]_vars => (~(part = "documents"))'
    BY OtherPart
  <2>. HIDE DEF Offered
  <2>. QED
    BY <2>1, <2>2, <2>3, DocumentsPart, PTL DEF Spec
<1>5. Spec => [](part = "list" => Listed)
  <2>1. Pages!List!Spec => []Listed
    BY StaffAppAssumption, Pages!ListSelected
  <2>2. Pages!List!Spec <=> Pages!List!Init /\ [][Pages!List!Next]_(Pages!List!vars)
    BY DEF Pages!List!Spec
  <2>3. ~(part = "list") /\ [NextPart]_vars => (~(part = "list"))'
    BY OtherPart
  <2>. HIDE DEF Listed
  <2>. QED
    BY <2>1, <2>2, <2>3, ListPart, PTL DEF Spec
<1>6. Spec => [](part = "proforma" => Drew)
  <2>1. Pages!Proforma!Spec => []Drew
    BY StaffAppAssumption, Pages!ProformaDrawn
  <2>2. Pages!Proforma!Spec <=> Pages!Proforma!Init /\ [][Pages!Proforma!Next]_(Pages!Proforma!vars)
    BY DEF Pages!Proforma!Spec
  <2>3. ~(part = "proforma") /\ [NextPart]_vars => (~(part = "proforma"))'
    BY OtherPart
  <2>. HIDE DEF Drew
  <2>. QED
    BY <2>1, <2>2, <2>3, ProformaPart, PTL DEF Spec
<1>7. Spec => [](part = "firm" => Saved)
  <2>1. Pages!Firm!Spec => []Saved
    <3>1. Pages!Firm!Spec => [](Pages!Firm!SavedIsStored /\ Pages!Firm!OfficialAsIssued)
      BY StaffAppAssumption, Pages!FirmSaved
    <3>. QED
      BY <3>1, PTL
  <2>2. Pages!Firm!Spec <=> Pages!Firm!Init /\ [][Pages!Firm!Next]_(Pages!Firm!vars)
    BY DEF Pages!Firm!Spec
  <2>3. ~(part = "firm") /\ [NextPart]_vars => (~(part = "firm"))'
    BY OtherPart
  <2>. HIDE DEF Saved
  <2>. QED
    BY <2>1, <2>2, <2>3, FirmPart, PTL DEF Spec
<1>8. Spec => [](part = "generator" => Merged)
  <2>1. Services!Generator!Spec => []Merged
    BY StaffAppAssumption, Services!GeneratorMerged
  <2>2. Services!Generator!Spec <=> Services!Generator!Init /\ [][Services!Generator!Next]_(Services!Generator!vars)
    BY DEF Services!Generator!Spec
  <2>3. ~(part = "generator") /\ [NextPart]_vars => (~(part = "generator"))'
    BY OtherPart
  <2>. HIDE DEF Merged
  <2>. QED
    BY <2>1, <2>2, <2>3, GeneratorPart, PTL DEF Spec
<1>9. ShownIsAsked <=> /\ part = "golden" => Shown
                       /\ part = "login" => Logged
                       /\ part = "properties" => Reported
                       /\ part = "documents" => Offered
                       /\ part = "list" => Listed
                       /\ part = "proforma" => Drew
                       /\ part = "firm" => Saved
                       /\ part = "generator" => Merged
  BY DEF ShownIsAsked
<1>. HIDE DEF Shown, Logged, Reported, Offered, Listed, Drew, Saved, Merged
<1>. QED
  BY <1>1, <1>2, <1>3, <1>4, <1>5, <1>6, <1>7, <1>8, <1>9, PTL

\* A record carried to the wizard, and a file that is saved, are of the session that
\* asked for them, whatever lay between.
THEOREM AppOfSession == Spec => []OfSession
<1>1. Pages!Golden!Spec => []Pages!Golden!BuyerOfSession
  BY StaffAppAssumption, Pages!GoldenBuyerOfSession
<1>2. Pages!Golden!Spec <=> Pages!Golden!Init /\ [][Pages!Golden!Next]_(Pages!Golden!vars)
  BY DEF Pages!Golden!Spec
<1>3. Pages!DocPanel!Spec => []Pages!DocPanel!SavedInItsSession
  BY StaffAppAssumption, Pages!PanelSavedInItsSession
<1>4. Pages!DocPanel!Spec <=> Pages!DocPanel!Init /\ [][Pages!DocPanel!Next]_(Pages!DocPanel!vars)
  BY DEF Pages!DocPanel!Spec
<1>5. OfSession <=> /\ part = "golden" => Pages!Golden!BuyerOfSession
                    /\ part = "documents" => Pages!DocPanel!SavedInItsSession
  BY DEF OfSession
<1>6. /\ ~(part = "golden") /\ [NextPart]_vars => (~(part = "golden"))'
      /\ ~(part = "documents") /\ [NextPart]_vars => (~(part = "documents"))'
  BY OtherPart
<1>7. Spec => [](part = "golden" => Pages!Golden!BuyerOfSession)
  BY <1>1, <1>2, <1>6, GoldenPart, PTL DEF Spec
<1>8. Spec => [](part = "documents" => Pages!DocPanel!SavedInItsSession)
  BY <1>3, <1>4, <1>6, DocumentsPart, PTL DEF Spec
<1>. QED
  BY <1>5, <1>7, <1>8, PTL

\* In production a process listens only with the database it validated, unless the
\* specialist suite's override is on; a request for readiness gets the answer of a probe it
\* shares, and a run of the migrations is what the preflight announced.
THEOREM AppAnswersMeanProbe == Spec => []AnswersMeanProbe
<1>. DEFINE Probed == Services!Ready!ListensAsValidated /\ Services!Ready!AnswersMeanProbe
<1>1. Services!Ready!Spec => []Probed
  <2>. Services!ReadyAssumption
    BY StaffAppAssumption
  <2>1. Services!Ready!Spec => []Services!Ready!ListensAsValidated
    BY Services!ReadyListensAsValidated
  <2>2. Services!Ready!Spec => []Services!Ready!AnswersMeanProbe
    BY Services!ReadyAnswersMeanProbe
  <2>. QED
    BY <2>1, <2>2, PTL
<1>2. Services!Ready!Spec <=> Services!Ready!Init /\ [][Services!Ready!Next]_(Services!Ready!vars)
  BY DEF Services!Ready!Spec
<1>3. Services!Migrations!Spec => []Services!Migrations!PreflightForesees
  BY StaffAppAssumption, Services!RunnersAsForeseen
<1>4. Services!Migrations!Spec <=> Services!Migrations!Init /\ [][Services!Migrations!Next]_(Services!Migrations!vars)
  BY DEF Services!Migrations!Spec
<1>5. AnswersMeanProbe <=> /\ part = "readiness" => Probed
                           /\ part = "migrations" => Services!Migrations!PreflightForesees
  BY DEF AnswersMeanProbe
<1>6. /\ ~(part = "readiness") /\ [NextPart]_vars => (~(part = "readiness"))'
      /\ ~(part = "migrations") /\ [NextPart]_vars => (~(part = "migrations"))'
  BY OtherPart
<1>. HIDE DEF Probed
<1>7. Spec => [](part = "readiness" => Probed)
  BY <1>1, <1>2, <1>6, ReadyPart, PTL DEF Spec
<1>8. Spec => [](part = "migrations" => Services!Migrations!PreflightForesees)
  BY <1>3, <1>4, <1>6, MigrationsPart, PTL DEF Spec
<1>. QED
  BY <1>5, <1>7, <1>8, PTL

\* Whichever requests overlap, fail or are repeated: figures taken from statements are of
\* one that is stored, though the transfer's own routes replace some; price and figures are
\* of one request, unless a statement was saved beside the price; parties are of one
\* request, milestones complete, files there, a detail whole; a stored body is whole; no
\* version of a clause has two texts.
THEOREM AppStoredAsOneRequest == Spec => []StoredAsOneRequest
<1>. DEFINE Rows == Services!Aggregate!PricesAgree /\ Services!Aggregate!PartiesOfOneRequest
                      /\ Services!Aggregate!MilestonesComplete /\ Services!Aggregate!FilesOfRows
                      /\ Services!Aggregate!DetailWhole
            Body == Services!Upload!StoredWhole /\ Services!Upload!TooLargeNotStored
<1>1. Spec => [](part = "proforma" => Pages!Proforma!FiguresOfStatement)
  <2>1. Pages!Proforma!Spec => []Pages!Proforma!FiguresOfStatement
    BY StaffAppAssumption, Pages!ProformaFigures
  <2>2. Pages!Proforma!Spec <=> Pages!Proforma!Init /\ [][Pages!Proforma!Next]_(Pages!Proforma!vars)
    BY DEF Pages!Proforma!Spec
  <2>3. ~(part = "proforma") /\ [NextPart]_vars => (~(part = "proforma"))'
    BY OtherPart
  <2>. QED
    BY <2>1, <2>2, <2>3, ProformaPart, PTL DEF Spec
<1>2. Spec => [](part = "aggregate" => Rows)
  <2>1. Services!Aggregate!Spec => []Rows
    BY StaffAppAssumption, Services!AggregateStored
  <2>2. Services!Aggregate!Spec <=> Services!Aggregate!Init /\ [][Services!Aggregate!Next]_(Services!Aggregate!vars)
    BY DEF Services!Aggregate!Spec
  <2>3. ~(part = "aggregate") /\ [NextPart]_vars => (~(part = "aggregate"))'
    BY OtherPart
  <2>. HIDE DEF Rows
  <2>. QED
    BY <2>1, <2>2, <2>3, AggregatePart, PTL DEF Spec
<1>3. Spec => [](part = "upload" => Body)
  <2>. Services!UploadAssumption
    BY StaffAppAssumption
  <2>1. Services!Upload!Spec => []Body
    BY Services!UploadStoredWhole, Services!UploadTooLargeNotStored, PTL
  <2>2. Services!Upload!Spec <=> Services!Upload!Init /\ [][Services!Upload!Next]_(Services!Upload!vars)
    BY DEF Services!Upload!Spec
  <2>3. ~(part = "upload") /\ [NextPart]_vars => (~(part = "upload"))'
    BY OtherPart
  <2>. HIDE DEF Body
  <2>. QED
    BY <2>1, <2>2, <2>3, UploadPart, PTL DEF Spec
<1>4. Spec => [](part = "generator" => Services!Generator!NumberedOnce)
  <2>1. Services!Generator!Spec => []Services!Generator!NumberedOnce
    BY StaffAppAssumption, Services!GeneratorNumberedOnce
  <2>2. Services!Generator!Spec <=> Services!Generator!Init /\ [][Services!Generator!Next]_(Services!Generator!vars)
    BY DEF Services!Generator!Spec
  <2>3. ~(part = "generator") /\ [NextPart]_vars => (~(part = "generator"))'
    BY OtherPart
  <2>. QED
    BY <2>1, <2>2, <2>3, GeneratorPart, PTL DEF Spec
<1>5. StoredAsOneRequest <=> /\ part = "proforma" => Pages!Proforma!FiguresOfStatement
                             /\ part = "aggregate" => Rows
                             /\ part = "upload" => Body
                             /\ part = "generator" => Services!Generator!NumberedOnce
  BY DEF StoredAsOneRequest
<1>. HIDE DEF Rows, Body
<1>. QED
  BY <1>1, <1>2, <1>3, <1>4, <1>5, PTL

\* The page, its statement, the server and the wizard compute the same fees, duty and
\* totals from the schedules, at every price; the official schedules stay as they are.
THEOREM AppFeesAgree == Spec => []FeesAgree
<1>. DEFINE Agreed == Pages!Accounts!FeesAccrue /\ Pages!Accounts!EstimateNearStatement
                      /\ Pages!Accounts!StatementAddsUp
                      /\ Pages!Accounts!CalculatorsAgree /\ Pages!Accounts!NothingCheaperAbove
            Official == Pages!Firm!OfficialAsIssued
<1>1. Spec => [](part = "accounts" => Agreed)
  <2>1. Pages!Accounts!Spec => []Agreed
    BY StaffAppAssumption, Pages!AccountsAgree
  <2>2. Pages!Accounts!Spec <=> Pages!Accounts!Init /\ [][Pages!Accounts!Next]_(Pages!Accounts!vars)
    BY DEF Pages!Accounts!Spec
  <2>3. ~(part = "accounts") /\ [NextPart]_vars => (~(part = "accounts"))'
    BY OtherPart
  <2>. HIDE DEF Agreed
  <2>. QED
    BY <2>1, <2>2, <2>3, AccountsPart, PTL DEF Spec
<1>2. Spec => [](part = "firm" => Official)
  <2>1. Pages!Firm!Spec => []Official
    <3>1. Pages!Firm!Spec => [](Pages!Firm!SavedIsStored /\ Pages!Firm!OfficialAsIssued)
      BY StaffAppAssumption, Pages!FirmSaved
    <3>. QED
      BY <3>1, PTL
  <2>2. Pages!Firm!Spec <=> Pages!Firm!Init /\ [][Pages!Firm!Next]_(Pages!Firm!vars)
    BY DEF Pages!Firm!Spec
  <2>3. ~(part = "firm") /\ [NextPart]_vars => (~(part = "firm"))'
    BY OtherPart
  <2>. HIDE DEF Official
  <2>. QED
    BY <2>1, <2>2, <2>3, FirmPart, PTL DEF Spec
<1>3. FeesAgree <=> (part = "accounts" => Agreed) /\ (part = "firm" => Official)
  BY DEF FeesAgree
<1>. HIDE DEF Agreed, Official
<1>. QED
  BY <1>1, <1>2, <1>3, PTL

-----------------------------------------------------------------------------
\* Every component's state has its type, whichever is explored.
THEOREM AppTypeOK == Spec => []TypeOK
<1>. DEFINE Typed1 == /\ part = "routes" => Services!Routes!TypeOK
                      /\ part = "relationships" => Services!Relationships!TypeOK
                      /\ part = "core" => Pages!Core!TypeOK
                      /\ part = "prototype" => Services!Prototype!TypeOK
                      /\ part = "milestones" => Services!Milestones!TypeOK
                      /\ part = "docs" => Docs!TypeOK
                      /\ part = "accounts" => Pages!Accounts!TypeOK
            Typed2 == /\ part = "golden" => Pages!Golden!TypeOK
                      /\ part = "readiness" => Services!Ready!TypeOK
                      /\ part = "login" => Pages!Login!TypeOK
                      /\ part = "properties" => Pages!LinkPanel!TypeOK
                      /\ part = "documents" => Pages!DocPanel!TypeOK
                      /\ part = "list" => Pages!List!TypeOK
                      /\ part = "proforma" => Pages!Proforma!TypeOK
            Typed3 == /\ part = "firm" => Pages!Firm!TypeOK
                      /\ part = "aggregate" => Services!Aggregate!TypeOK
                      /\ part = "flags" => EvaluationFlags!TypeOK
                      /\ part = "upload" => Services!Upload!TypeOK
                      /\ part = "generator" => Services!Generator!TypeOK
                      /\ part = "migrations" => Services!Migrations!TypeOK
<1>0. Spec => [](part \in Part)
  <2>1. InitPart => part \in Part
    BY DEF InitPart, Part
  <2>2. part \in Part /\ [NextPart]_vars => (part \in Part)'
    BY DEF NextPart, vars
  <2>. QED
    BY <2>1, <2>2, PTL DEF Spec
<1>1. Spec => [](part = "routes" => Services!Routes!TypeOK)
  <2>1. Services!Routes!Spec => []Services!Routes!TypeOK
    BY StaffAppAssumption, Services!MatterRoutesTypeOK
  <2>2. Services!Routes!Spec <=> Services!Routes!Init /\ [][Services!Routes!Next]_(Services!Routes!vars)
    BY DEF Services!Routes!Spec
  <2>3. ~(part = "routes") /\ [NextPart]_vars => (~(part = "routes"))'
    BY OtherPart
  <2>. QED
    BY <2>1, <2>2, <2>3, RoutesPart, PTL DEF Spec
<1>2. Spec => [](part = "relationships" => Services!Relationships!TypeOK)
  <2>1. Services!Relationships!Spec => []Services!Relationships!TypeOK
    BY Services!RelationshipsTypeOK
  <2>2. Services!Relationships!Spec <=> Services!Relationships!Init /\ [][Services!Relationships!Next]_(Services!Relationships!vars)
    BY DEF Services!Relationships!Spec
  <2>3. ~(part = "relationships") /\ [NextPart]_vars => (~(part = "relationships"))'
    BY OtherPart
  <2>. QED
    BY <2>1, <2>2, <2>3, RelationshipsPart, PTL DEF Spec
<1>3. Spec => [](part = "core" => Pages!Core!TypeOK)
  <2>1. Pages!Core!Spec => []Pages!Core!TypeOK
    BY StaffAppAssumption, Pages!CoreTypeOK
  <2>2. Pages!Core!Spec <=> Pages!Core!Init /\ [][Pages!Core!Next]_(Pages!Core!vars)
    BY DEF Pages!Core!Spec
  <2>3. ~(part = "core") /\ [NextPart]_vars => (~(part = "core"))'
    BY OtherPart
  <2>. QED
    BY <2>1, <2>2, <2>3, CorePart, PTL DEF Spec
<1>4. Spec => [](part = "prototype" => Services!Prototype!TypeOK)
  <2>1. Services!Prototype!Spec => []Services!Prototype!TypeOK
    BY StaffAppAssumption, Services!PrototypeTypeOK
  <2>2. Services!Prototype!Spec <=> Services!Prototype!Init /\ [][Services!Prototype!Next]_(Services!Prototype!vars)
    BY DEF Services!Prototype!Spec
  <2>3. ~(part = "prototype") /\ [NextPart]_vars => (~(part = "prototype"))'
    BY OtherPart
  <2>. QED
    BY <2>1, <2>2, <2>3, PrototypePart, PTL DEF Spec
<1>5. Spec => [](part = "milestones" => Services!Milestones!TypeOK)
  <2>1. Services!Milestones!Spec => []Services!Milestones!TypeOK
    BY StaffAppAssumption, Services!MilestonesTypeOK
  <2>2. Services!Milestones!Spec <=> Services!Milestones!Init /\ [][Services!Milestones!Next]_(Services!Milestones!vars)
    BY DEF Services!Milestones!Spec
  <2>3. ~(part = "milestones") /\ [NextPart]_vars => (~(part = "milestones"))'
    BY OtherPart
  <2>. QED
    BY <2>1, <2>2, <2>3, MilestonesPart, PTL DEF Spec
<1>6. Spec => [](part = "docs" => Docs!TypeOK)
  <2>1. Docs!Spec => []Docs!TypeOK
    BY StaffAppAssumption, Docs!RequirementsTypeOK
  <2>2. Docs!Spec <=> Docs!Init /\ [][Docs!Next]_(Docs!vars)
    BY DEF Docs!Spec
  <2>3. ~(part = "docs") /\ [NextPart]_vars => (~(part = "docs"))'
    BY OtherPart
  <2>. QED
    BY <2>1, <2>2, <2>3, DocsPart, PTL DEF Spec
<1>7. Spec => [](part = "accounts" => Pages!Accounts!TypeOK)
  <2>1. Pages!Accounts!Spec => []Pages!Accounts!TypeOK
    BY StaffAppAssumption, Pages!AccountsTypeOK
  <2>2. Pages!Accounts!Spec <=> Pages!Accounts!Init /\ [][Pages!Accounts!Next]_(Pages!Accounts!vars)
    BY DEF Pages!Accounts!Spec
  <2>3. ~(part = "accounts") /\ [NextPart]_vars => (~(part = "accounts"))'
    BY OtherPart
  <2>. QED
    BY <2>1, <2>2, <2>3, AccountsPart, PTL DEF Spec
<1>8. Spec => [](part = "golden" => Pages!Golden!TypeOK)
  <2>1. Pages!Golden!Spec => []Pages!Golden!TypeOK
    BY StaffAppAssumption, Pages!GoldenTypeOK
  <2>2. Pages!Golden!Spec <=> Pages!Golden!Init /\ [][Pages!Golden!Next]_(Pages!Golden!vars)
    BY DEF Pages!Golden!Spec
  <2>3. ~(part = "golden") /\ [NextPart]_vars => (~(part = "golden"))'
    BY OtherPart
  <2>. QED
    BY <2>1, <2>2, <2>3, GoldenPart, PTL DEF Spec
<1>9. Spec => [](part = "readiness" => Services!Ready!TypeOK)
  <2>1. Services!Ready!Spec => []Services!Ready!TypeOK
    BY StaffAppAssumption, Services!ReadyTypeOK
  <2>2. Services!Ready!Spec <=> Services!Ready!Init /\ [][Services!Ready!Next]_(Services!Ready!vars)
    BY DEF Services!Ready!Spec
  <2>3. ~(part = "readiness") /\ [NextPart]_vars => (~(part = "readiness"))'
    BY OtherPart
  <2>. QED
    BY <2>1, <2>2, <2>3, ReadyPart, PTL DEF Spec
<1>10. Spec => [](part = "login" => Pages!Login!TypeOK)
  <2>1. Pages!Login!Spec => []Pages!Login!TypeOK
    BY StaffAppAssumption, Pages!LoginTypeOK
  <2>2. Pages!Login!Spec <=> Pages!Login!Init /\ [][Pages!Login!Next]_(Pages!Login!vars)
    BY DEF Pages!Login!Spec
  <2>3. ~(part = "login") /\ [NextPart]_vars => (~(part = "login"))'
    BY OtherPart
  <2>. QED
    BY <2>1, <2>2, <2>3, LoginPart, PTL DEF Spec
<1>11. Spec => [](part = "properties" => Pages!LinkPanel!TypeOK)
  <2>1. Pages!LinkPanel!Spec => []Pages!LinkPanel!TypeOK
    BY StaffAppAssumption, Pages!LinksTypeOK
  <2>2. Pages!LinkPanel!Spec <=> Pages!LinkPanel!Init /\ [][Pages!LinkPanel!Next]_(Pages!LinkPanel!vars)
    BY DEF Pages!LinkPanel!Spec
  <2>3. ~(part = "properties") /\ [NextPart]_vars => (~(part = "properties"))'
    BY OtherPart
  <2>. QED
    BY <2>1, <2>2, <2>3, PropertiesPart, PTL DEF Spec
<1>12. Spec => [](part = "documents" => Pages!DocPanel!TypeOK)
  <2>1. Pages!DocPanel!Spec => []Pages!DocPanel!TypeOK
    BY StaffAppAssumption, Pages!PanelTypeOK
  <2>2. Pages!DocPanel!Spec <=> Pages!DocPanel!Init /\ [][Pages!DocPanel!Next]_(Pages!DocPanel!vars)
    BY DEF Pages!DocPanel!Spec
  <2>3. ~(part = "documents") /\ [NextPart]_vars => (~(part = "documents"))'
    BY OtherPart
  <2>. QED
    BY <2>1, <2>2, <2>3, DocumentsPart, PTL DEF Spec
<1>13. Spec => [](part = "list" => Pages!List!TypeOK)
  <2>1. Pages!List!Spec => []Pages!List!TypeOK
    BY StaffAppAssumption, Pages!ListTypeOK
  <2>2. Pages!List!Spec <=> Pages!List!Init /\ [][Pages!List!Next]_(Pages!List!vars)
    BY DEF Pages!List!Spec
  <2>3. ~(part = "list") /\ [NextPart]_vars => (~(part = "list"))'
    BY OtherPart
  <2>. QED
    BY <2>1, <2>2, <2>3, ListPart, PTL DEF Spec
<1>14. Spec => [](part = "proforma" => Pages!Proforma!TypeOK)
  <2>1. Pages!Proforma!Spec => []Pages!Proforma!TypeOK
    BY StaffAppAssumption, Pages!ProformaTypeOK
  <2>2. Pages!Proforma!Spec <=> Pages!Proforma!Init /\ [][Pages!Proforma!Next]_(Pages!Proforma!vars)
    BY DEF Pages!Proforma!Spec
  <2>3. ~(part = "proforma") /\ [NextPart]_vars => (~(part = "proforma"))'
    BY OtherPart
  <2>. QED
    BY <2>1, <2>2, <2>3, ProformaPart, PTL DEF Spec
<1>15. Spec => [](part = "firm" => Pages!Firm!TypeOK)
  <2>1. Pages!Firm!Spec => []Pages!Firm!TypeOK
    BY StaffAppAssumption, Pages!FirmTypeOK
  <2>2. Pages!Firm!Spec <=> Pages!Firm!Init /\ [][Pages!Firm!Next]_(Pages!Firm!vars)
    BY DEF Pages!Firm!Spec
  <2>3. ~(part = "firm") /\ [NextPart]_vars => (~(part = "firm"))'
    BY OtherPart
  <2>. QED
    BY <2>1, <2>2, <2>3, FirmPart, PTL DEF Spec
<1>16. Spec => [](part = "aggregate" => Services!Aggregate!TypeOK)
  <2>1. Services!Aggregate!Spec => []Services!Aggregate!TypeOK
    BY StaffAppAssumption, Services!AggregateTypeOK
  <2>2. Services!Aggregate!Spec <=> Services!Aggregate!Init /\ [][Services!Aggregate!Next]_(Services!Aggregate!vars)
    BY DEF Services!Aggregate!Spec
  <2>3. ~(part = "aggregate") /\ [NextPart]_vars => (~(part = "aggregate"))'
    BY OtherPart
  <2>. QED
    BY <2>1, <2>2, <2>3, AggregatePart, PTL DEF Spec
<1>17. Spec => [](part = "flags" => EvaluationFlags!TypeOK)
  <2>1. EvaluationFlags!Spec => []EvaluationFlags!TypeOK
    BY StaffAppAssumption, EvaluationFlags!RequirementsTypeOK
  <2>2. EvaluationFlags!Spec <=> EvaluationFlags!Init /\ [][EvaluationFlags!Next]_(EvaluationFlags!vars)
    BY DEF EvaluationFlags!Spec
  <2>3. ~(part = "flags") /\ [NextPart]_vars => (~(part = "flags"))'
    BY OtherPart
  <2>. QED
    BY <2>1, <2>2, <2>3, FlagsPart, PTL DEF Spec
<1>18. Spec => [](part = "upload" => Services!Upload!TypeOK)
  <2>1. Services!Upload!Spec => []Services!Upload!TypeOK
    BY StaffAppAssumption, Services!UploadTypeOK
  <2>2. Services!Upload!Spec <=> Services!Upload!Init /\ [][Services!Upload!Next]_(Services!Upload!vars)
    BY DEF Services!Upload!Spec
  <2>3. ~(part = "upload") /\ [NextPart]_vars => (~(part = "upload"))'
    BY OtherPart
  <2>. QED
    BY <2>1, <2>2, <2>3, UploadPart, PTL DEF Spec
<1>19. Spec => [](part = "generator" => Services!Generator!TypeOK)
  <2>1. Services!Generator!Spec => []Services!Generator!TypeOK
    BY StaffAppAssumption, Services!GeneratorTypeOK
  <2>2. Services!Generator!Spec <=> Services!Generator!Init /\ [][Services!Generator!Next]_(Services!Generator!vars)
    BY DEF Services!Generator!Spec
  <2>3. ~(part = "generator") /\ [NextPart]_vars => (~(part = "generator"))'
    BY OtherPart
  <2>. QED
    BY <2>1, <2>2, <2>3, GeneratorPart, PTL DEF Spec
<1>20. Spec => [](part = "migrations" => Services!Migrations!TypeOK)
  <2>1. Services!Migrations!Spec => []Services!Migrations!TypeOK
    BY StaffAppAssumption, Services!RunnersTypeOK
  <2>2. Services!Migrations!Spec <=> Services!Migrations!Init /\ [][Services!Migrations!Next]_(Services!Migrations!vars)
    BY DEF Services!Migrations!Spec
  <2>3. ~(part = "migrations") /\ [NextPart]_vars => (~(part = "migrations"))'
    BY OtherPart
  <2>. QED
    BY <2>1, <2>2, <2>3, MigrationsPart, PTL DEF Spec
<1>21. Spec => []Typed1
  BY <1>1, <1>2, <1>3, <1>4, <1>5, <1>6, <1>7, PTL
<1>22. Spec => []Typed2
  BY <1>8, <1>9, <1>10, <1>11, <1>12, <1>13, <1>14, PTL
<1>23. Spec => []Typed3
  BY <1>15, <1>16, <1>17, <1>18, <1>19, <1>20, PTL
<1>24. part \in Part /\ Typed1 /\ Typed2 /\ Typed3 => TypeOK
  BY Zenon DEF TypeOK
<1>. HIDE DEF Typed1, Typed2, Typed3
<1>. QED
  BY <1>0, <1>21, <1>22, <1>23, <1>24, PTL
=============================================================================

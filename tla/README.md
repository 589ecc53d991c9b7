# Verification of ConveyHub Transfers

TLA+ models of ConveyHub Transfers: the TLC runs that check them on small
instances, and the theorems that TLAPS proves for every instance. Paths are
relative to the repository.

To run: `tlc -workers 2 -config lane.cfg MCDocumentLane` (each run's module and
configuration are in `PROJECT.json`), `tlapm DocumentLaneProofs.tla`.

## 1. The system

A React single-page application talks to a Node/Express BFF (`server/`), which
holds the browser's session cookies, answers reads of matters from its own
database pool and relays writes to a FastAPI service (`python_server/`). That
service keeps matters in PostgreSQL through asyncpg, files in a storage backend
(local disk or a remote files service), and has files scanned by ClamAV. A
remote entities service owns the golden records (persons and organisations); an
upstream identity service issues tokens. Any number of browsers, tabs and server
processes run at once. The server processes share nothing but the database and
storage; the tabs of a browser share a cookie jar, a Web Lock and a broadcast
channel. The routes of an earlier prototype (`server/routes/transfers.ts`,
`accounts.ts`, `milestones.ts`, `clauses.ts` and others) are mounted behind a
quarantine that answers 503; the pages that call them are in use.

| Component | State it keeps | Operations | What is hard | What makes it correct |
|---|---|---|---|---|
| **Document lane** `services/matter_document_service.py`, `document_storage.py`, `document_scanner.py` | file, scan and attempt columns of `transfer_documents`; stored objects; operation log | upload, rescan, claim / release / finish a scan attempt, download check | uploads and rescans race between awaits; a scan may outlive its lease; a worker may die anywhere; storage, database, log and scanner fail on their own | only the content that was scanned clean is released; one file and one verdict per document; answers are true; no object is lost silently; every file is decided |
| **Document creation** same service, `db.py` | rows with `client_request_id`; the pool; transactions | lookup, insert, audit row, commit, resolution of a lost race | check and insert are two statements; waits on the pool and on open transactions; a statement that fails inside a transaction | one row per key; true answers; every request answered |
| **Browser session** `lib/api/session.ts`, `httpClient.ts`, `hooks/useAuth.tsx`, `pages/Login.tsx`, `server/routes/auth.ts` | session, generation, epoch, queue of each tab; the cookie pair; the lock; messages; the steps of the login page | login in three steps, restore, refresh, logout, protected calls with refresh and retry, synchronisation | several tabs, late responses, late messages, closed tabs, lost responses | logout is final; no call or answer crosses principals; a PIN stands beside its own account |
| **Matter capture** `pages/Transfers.tsx`, `components/transfers/Step*.tsx`, `transferApi.ts`, `matter_service.py`, `matter_property_service.py`, `transfer_party_service.py` | the form, stable request keys; `transfers`, `matters`, links, parties | the steps, save, reload, reopen; create a matter, attach a property, attach a party | one save is three kinds of request; any may be lost and served later; the form changes while it runs | retries complete and never duplicate; success means stored |
| **Matter reads** `server/routes/v1/transfers.ts`, `server/auth/` | none | the routes and their gates | authorization and rows are separate statements | rows stay in the institution; the hidden looks missing |
| **Core fields** `pages/TransferMilestones.tsx`, `matter_service.py` | two rows with version tokens; detail, draft and conflict on the page | read, type, save, navigate | torn read, two tokens, nothing is cancelled on navigation | no lost update; an edit stays with its matter |
| Party relationships `server/routes/v1/transfers.ts` | assignments, definitions | assign | checks by statements of their own before the insert | each assignment is explained by what stood |
| Requirements `matter_document_service.py`, documents route | `transfer_document_requirements` | recalculate, list, flag | facts are read before the transaction that applies them | what cannot be decided is kept, and shown as undecided |
| Documents, properties, list, search pages | what the page read, one busy flag | clicks | late answers, navigation, one flag for several calls | the page shows and does what was asked |
| Upload limit `server/routes/v1/transfers.ts` | a counter in a stream | relay | client, stream and service at their own pace | whole bodies within the limit or nothing |
| Accounts `src/utils/`, `pages/AccountsCalculator.tsx`, `server/routes/accounts.ts` | settings, schedules, statements, in memory and in rows | compute, edit, save, reset | bracket boundaries; overlapping saves; half-failing saves | amounts agree with the schedules and with one another; figures taken from a statement are of a stored one |
| Prototype transfers `server/routes/transfers.ts`, `milestones.ts` | nine tables, files | create, update, delete, detail, documents, milestones | transactions of many statements, partial foreign keys, row locks | one matter names each transfer; one request's rows stay together |
| Clauses and documents `clauses.ts`, `documents.ts`, `DocumentGenerator.tsx` | versions, history | number, merge, record | racing numberings; placeholders inside clauses | one text per version; a document says what its template says |
| Readiness and startup `index.ts`, `readiness.ts`, `startupConfig.ts`, `db.ts` | environment, manifest, shared probe | start, probe, shut down | overlapping probes, timeouts, signals | answers are of a probe of theirs; a process in production serves what it validated |
| Migration runner `scripts/migrate.mjs`, `migrate-preflight.mjs` | ledger, advisory lock | run, baseline, preflight | a second runner; death between two files, or between a file and its row | the ledger says what was executed; the preflight foresees the run |
| Golden records service, specialist contexts, authorization tokens | none, or one insert each | search, reconcile, create | remote timeouts | section 7 |

`PROJECT.json` lists the components with their status, and every hazard at the
line where it bites; every hazard has a property.

## 2. What is modelled

```
DocumentFile        the promise to a reader of one document (abstract)
   ^ refined by
DocumentLane        handlers, row, storage, scanner, lease       MCDocumentLane   DocumentLaneProofs
DocumentCreate      requests, transaction, index, pool, browser  MCDocumentCreate DocumentCreateProofs
Session             tabs, cookies, queue, lock, messages, BFF    MCSession        SessionProofs
MatterWizard        form, save, three idempotent writes          MCMatterWizard   MatterWizardProofs

StaffApp            every other component, each explored alone    MCStaffApp       StaffAppProofs
   instances of
     ServiceProofs  MatterRoutes   PartyRelationships   PrototypeTransfers   TransferAggregate
                    LegacyMilestones   DocumentGenerator   UploadProxy   Readiness   MigrationRunner
     PageProofs     MatterCore   LoginFlow   GoldenRecordSearch   MatterProperties   MatterDocumentsPanel
                    TransfersList   ProformaStatement   FirmSettings   Tariffs
     RequirementsProofs   Requirements
```

The first four MC modules only add the symmetry sets (and, for the lane, the
assumption that there are enough attempt identifiers). `StaffApp` puts
components side by side that neither call one another nor read one another's
variables, so each is explored alone: the initial state chooses `part` and the
behaviour is one of that part. `v1` to `v11` carry the variables of whichever part
it is. Each of its properties is a conjunction over the parts, and the comment
above it says of which. `MCStaffApp` adds the functions that the configuration
cannot write and the symmetry of two requests. `StaffApp` takes its components
through the modules that hold their proofs (`Services!Routes` is
`MatterRoutes`), so that a theorem about a component is one about its part.

Some of these components write the same rows. A writer whose home is another
component is an action of this one too wherever its writes bear on what is
promised here:

| Rows | Writers | Where each is an action |
|---|---|---|
| `transfer_financials` | POST and PUT of a transfer (`transfers.ts:618`, `884`, `890`), PUT proforma (`accounts.ts:529`) | `TransferAggregate`: all (`PostCommit`, `PutFinancials`, `StatementSync`); `ProformaStatement`: all (`OwnFigures`, `WriteFigures`) |
| `transfers`, `matters`, `properties` | the prototype routes, the routes of generated documents (`generatedDocuments.ts:27-47`) | `PrototypeTransfers`: all (the INSERT of a matter there names no institution, which the column has required since migration 012, so it fails) |
| rows under a matter or a property | any route | `PrototypeTransfers`: `InsertChild`, `DocumentInsert` |
| `matter_milestones`, `milestone_history` | `milestones.ts`, defaults at POST, deletion | `LegacyMilestones` (changes), `TransferAggregate` (defaults, deletion): the defaults precede every change, a deletion takes rows and history together |

What is left to one component is written in columns no property of another reads:
the versioned edit (`matter_service.py:309`: address, reference, title), the
progress of a transfer (`milestones.ts:198`), requirement rows of the document
service beside the prototype's. The versioned creation inserts a transfer and its
matter in one transaction, as `PostCommit` does. A prototype PUT and the progress
of a transfer also move `transfers.updated_at` (`transfers.ts:775`,
`milestones.ts:198`), which `MatterCore` meets as an edit by others: a conflict
that no field explains, and no update lost by it.

Routes behind the quarantine are modelled as what they do once it is opened; until
then every call of theirs is refused, which the pages' models allow at each call.

What the separate modules assume of each other is narrow: the lane starts from
the row that a creation committed; a creation, an upload or a save of the wizard
is a protected call of the session; the documents panel takes a verdict as
given, and the lane gives it.

### DocumentLane

One document, since no statement of the lane reads the file columns of two
rows and storage keys carry the document's id. Handlers are concurrent
requests; `pc` is where a handler awaits. A step is what the coroutine does
between two awaits: one statement, or one storage or scanner call, with the
decisions that follow it.

| Code | Model |
|---|---|
| columns `sha256`, `storage_key`, `scan_status`, `status`, `scan_attempt_id` | the variables of those names |
| `scan_attempt_expires_at` | `lease`: NULL, live or expired |
| stored object at the key of a digest | `object[f]`: absent, intact, damaged |
| route read and early branches of `upload_document_file` | `UploadInvalid`, `UploadSnapshot`: all branches are taken on the row that was read before the body |
| `storage.put`, `_persist_file_state`, loser's branch | `Put`/`PutFails`, `PersistFileState`/`PersistFails`, `Resolve` |
| `record_operation` for an orphan | `RecordOrphan`, `RecordOrphanFails` |
| `_claim_scan_attempt`, `_release_scan_attempt` | `ClaimScanAttempt`, `ClaimLost`, `Reread`, `ReleaseScanAttempt` |
| `rescan_document_file` | `RescanSnapshot`, `Fetch`, `FetchFails` |
| `_scan_and_finalize`, `_persist_scan_result` | `ScannerAnswers`, `ScannerUnavailable`, `PersistScanError`, `PersistScanResult`, `PublishRefused` |
| `get_document_for_download` conditions | `Downloadable` |

A content is its digest; sniffing the file type is one rejection. The log is
the set of keys recorded for reconciliation. A raised statement is "not done,
or done and the reply lost". A scan may last longer than the lease
(`LeaseOverruns`): nothing bounds `writer.drain()` by it.

### DocumentCreate

A request runs one READ COMMITTED transaction on one pooled connection:
`Lookup`, `Insert`, `LogWrite`, `Commit`. The unique index makes an INSERT wait
for an open transaction with the same key and fail on a committed row; the
loser rolls back and resolves on another connection (`Resolve`). A failing
audit INSERT aborts the transaction on the server although `record_operation`
swallows the exception (`LogWriteFails`, `CommitAborted`). `Fails` and
`ResponseLost` are the broken connections before and after the COMMIT. Retries
are further requests with the same key. `BrowserSpec` restricts the environment to the "Add" button
(`handleAddFreeform`), which draws a new key per click.

### Session

One browser: tabs over one cookie jar, with the BFF inside the steps in which
its responses land.

| Code | Model |
|---|---|
| `deedly_sid`, `deedly_refresh` | `sidCookie`, `refreshCookie` (the sid inside it) |
| `session` (sid and principal key) | `session[t]`, a record; `NoSession` is null |
| `sessionGeneration` captured before an await | per call the set `current`, per running operation `moved`: lowered, or raised, when the counter moves |
| `logoutEpoch` captured when an operation is queued | `void` of the queued operation |
| `authQueue` and `refreshInFlight` | `queue[t]`; a refresh is shared while one is pending |
| Web Lock `deedly-auth` | `locks`: first come, first served; a tab asks when its operation reaches the head of its own queue |
| BroadcastChannel | `inbox[t]`, first in first out per tab, to tabs that are open |
| `doRefresh`, `completeLogin`, `logoutSession` | `Start...`, `Land...` (the response's headers: cookies change), `Complete...` (the code after the await), `SkipRefresh` |
| BFF `/login`, `/refresh`, `/logout` | `LandLogin`/`setAuthCookies`, `LandRefresh`, `LandLogout`/`clearAuthCookies`, `Matches` (sid against HttpOnly cookie), `Refuse` |
| `apiRequest` | `Request`, `RefuseRequest`, `RespondOk`, `RespondError`, `RespondExpired`, `Retry`, `Deliver`, and `Late` for every failed `assertCurrentSession` |
| `synchronizeSessionCookie` | `Synchronized`, `Focus`, and the guard of every step of a call |
| closed or reloaded tab, broken connection | `Close`, `LoseReply`: the cookies of a response in flight land at that moment or never |
| upstream issuing other claims at a refresh | `ChangeClaims` |

The counters need no numbers: the code only compares a captured value with the
present one, so "has it moved since" is all there is to know of it, and the
model has finitely many states without a bound on logins and logouts by
count; `Sid` bounds the logins that succeed.

### MatterWizard

| Code | Model |
|---|---|
| `TransferState`, party cards, `client_request_id` of a card | `form`: cards with kind, text and the row they were saved as |
| `persistAggregate`, one asynchronous closure over the form at the click | `Save` copies the form into `save.form`; `MatterAnswered`, `PropertyAnswered`, `PartyAnswered` are the code after each await |
| fingerprint of an idempotent write, replay, conflict | `SameRequest`, `Twin`, `Serve`, `Refuse` |
| a reply that is lost while the request is served later | `GiveUp`, `ServeLate` from `strays` |
| reopening a matter: two reads, then hydration of the form | `Reload`, `ReadAnswers`, `Hydrate` |
| probe of persistence, steps, `handleNext` | `Probe`, `handleNext`, `handlePrevious` |

A text is the number of the edit that typed it; a person is a golden record or
one of the two kinds that are typed in. Validation on the server is one refusal.

### The parts of MCStaffApp

- `MatterRoutes`: one request of each route of `v1/transfers.ts`, from its gates
  to the rows it sends; transfers and rows are inserted between any two of its
  statements. `Gate` is the table of gates, `authorizeTransfer` and
  `authorizeTransferParty` the two checks. Requests share no state, so one is
  enough, and the proof shows that any instance behaves alike.
- `PartyRelationships`: handlers that assign a relationship while definitions are
  changed; `open` rows are those of uncommitted transactions.
- `MatterCore`: mounted pages with their reads (`ReadRow` per statement) and
  saves against `update_core_matter_fields`, and edits by others.
- `Requirements`: `recalculate_requirements` statement by statement, and the
  documents route with its evaluation flags; facts are three-valued. It is
  instantiated twice: with recalculations, and with the flags read
  (`Flags = TRUE`), which have nothing to do with one another.
- `UploadProxy`: `transform` counts, `ServiceTakes` consumes, and the four ends
  (body complete, too large, client lost, service refuses) race.
- `Readiness`: `Start` validates and listens or refuses, and makes the pool from
  `Connection`, which the override of the specialist suite precedes; `Arrive` joins the probe
  under way or starts one; the answers and `TimesOut` end it; `Signal` and `Exit`.
- `MigrationRunner`: runners of different checkouts. `Executed` and `Record` are
  two transactions; `Lose` and `SessionEnds` separate the runner that is gone
  from the session that still holds the lock and may still commit.
- `PrototypeTransfers` (pairing of transfers, matters and properties),
  `TransferAggregate` (what hangs on one transfer, with the saving of a statement
  of account) and `LegacyMilestones` (with a `clock`, since a history row carries
  the time its transaction began and nothing else orders the rows):
  READ COMMITTED transactions with row locks, `holds` in the models; writes are
  published at the commit. A request that waits in a circle is aborted
  (`DeadlockVictim`, `AbortVictim`).
- `Tariffs`: the schedules as sequences of brackets, the calculator page, the
  statement with its edits, the server's quick calculation and the wizard's
  estimate; amounts are whole rand.
- `FirmSettings`, `ProformaStatement`: a page and its routes with memory and rows;
  a failing statement, a lost reply and a restart are the faults.
- `DocumentGenerator`: racing requests that number clause versions (`Waits` is the
  lock on the unique index) and the page that merges; texts are sequences of tokens.
- `LoginFlow`, `GoldenRecordSearch`, `MatterProperties`, `MatterDocumentsPanel`,
  `TransfersList`: a page with its calls under way as a set, so that answers come
  in any order, late, or not at all.

## 3. The checks

`expect` is `violation` for the five runs that record a disagreement between
the code and its documentation or comments (section 6). Everything else passes.

| Run | Instance | Shows |
|---|---|---|
| `lane` | 2 handlers, 2 contents, 3 attempts, 2 failures, fairness | `ReleasedIsScanned`, `AnswersHonest`, `NoDuplicateScan`, `OrphansAccounted`, `NoLeaseLeftBehind`, `EveryFileDecided`; the lane implements `DocumentFile` (`Implements`) |
| `create` | 3 requests, 2 keys, 2 payloads, 2 connections, 1 failure, fairness | `OneRowPerKey`, `TruthfulAnswers`, `EveryRequestAnswered`: the waits close no circle |
| `session` | 2 tabs, 1 sid, 2 principals, 1 fault, 1 change of claims | `LogoutIsFinal`, `NoRequestAfterLogout`, `OwnSessionOnly` |
| `session_overruled` | 2 tabs, 3 sids, no fault | `OverruledLoginCleared`, `ForeignCookieKept` |
| `session_live` | 2 tabs, 1 sid, 1 fault, fairness | `AuthSettles` |
| `wizard` | 2 cards, 1 golden record, 1 registered and 1 typed property, 1 fault, 1 edit | `RetriesNeverDuplicate`, `OneLinkPerForm`, `SuccessMeansStored`, `SavedAsSent` |
| `staff` | 20 parts, below | rows stay in their institution, edits with their matter, one matter per transfer, and what the pages owe |
| `create_audit`, `create_browser`, `session_resurrect`, `wizard_notice`, `ready_override` | the least instance that shows the counterexample | section 6 |

The properties of `staff`, by part (two handlers, pages or calls in flight and one or two
faults or changes, unless said otherwise):

| Property of the run | Part: what it says there |
|---|---|
| `ReadIsolation`, `ForeignLooksMissing` | MatterRoutes: rows are of the caller's institution, a client's its own party; a hidden transfer or party is answered like a missing one |
| `AssignmentsExplained` | PartyRelationships: once, inside the matter, under a code that was active meanwhile; 201 and 409 are true |
| `EditStaysWithMatter`, `NoLostUpdate` | MatterCore: over two matters and a navigation, with torn reads |
| `MatterOfTransfer`, `ChildrenSurvive` | PrototypeTransfers: one matter names a transfer, whose own link leads there or is missing; rows inserted under a parent while it is deleted: those of the tables DELETE counts stay, those of the others go with the parent, none is left without one |
| `HistoryEndsAtRow` | LegacyMilestones: newest transaction first, the history has the row's status on top, but for transactions that ran wholly within the one that wrote it. MigrationRunner: `OneAtATime`, `LedgerExecuted`, `CompletedAsCheckout`, `AgainAfterLoss` |
| `ShownSatisfied`, `UnevaluatedKept` | Requirements: documents and requirements on a page hang together; undecided rules are kept, and (second instance) shown |
| `FeesAgree` | Tariffs: brackets against duty and fee that accrue, estimate against statement, totals against lines, three calculators against one another, monotone, at 24 prices around the brackets' ends. FirmSettings: official schedules stay as issued |
| `ShownIsAsked` | eight pages, each its own part (the comment above the definition lists them): results match the fields; a PIN is of the form's account; links shown or reported are stored; a file offered is released, a chosen one reaches its row; a list is of its filter; a statement of its transfer; "saved" is stored; a document is whole. It does not say that the login stops when the user goes back, nor that links and results of a panel are of its present matter or text: they need not be (section 6) |
| `OfSession` | GoldenRecordSearch, MatterDocumentsPanel: a record carried on and a file saved are of the session that asked |
| `AnswersMeanProbe` | Readiness: in production serves what it validated unless the specialist override is on (`ready_override`), answers of a shared probe. MigrationRunner: `PreflightForesees` |
| `StoredAsOneRequest` | ProformaStatement: figures taken from statements are of one stored statement, though the transfer's routes replace some. TransferAggregate: price and figures are of one request, unless a statement was saved beside the price; parties, milestones, files, detail. UploadProxy: whole bodies. DocumentGenerator: one text per version |

**Why the bounds are enough.** Lane: two handlers make each race between an
upload and another upload or rescan; two contents are what "another content"
takes; two failures allow an overrun and a crash, or a lost reply and a lost log
row. There is one attempt identifier more than there are handlers, so that a
claim always finds a fresh one (`EnoughAttempts`). Creation: two racers with one
key and a third request that holds or waits for the second connection.
Session: two tabs make every race of the design (the lock, the jar and the messages
are shared, and tabs differ in nothing). The overruled login needs three sids: a
restored session, the login of the other tab, and the login that a logout
overtakes. Wizard: two cards give "one stored, one not", and one golden record
that both may pick; one fault is a lost reply, a late service or a reload; one
edit is a change while a save runs. Staff: pages are not shared, so one page with
two calls in flight gives every order of answers, and a third call only repeats
one; two transactions (and a third that inserts a child) give the waits and the
deadlocks of two; two files and two
checkouts that differ in one give a ledger that another checkout wrote. The two
requests of `staff` are interchangeable, and the run is reduced by that symmetry;
it checks no liveness, so the reduction is sound. Where a
property is also proved (section 5) its bounds no longer matter.

`CHECK_DEADLOCK FALSE` is set where the system may stop: single-shot requests
that are all answered, pages that are left, tabs that are closed, bounds that
are used up. The lane has deadlock checking on.

Every property of a passing run has a mutant in `PROJECT.json`: a variant of a
mapped definition, with a plausible bug, under which TLC finds the property
violated. The variants stand beside the definitions, marked "Faulty variant".

## 4. Fairness

- `DocumentLane!FairSpec` (`lane`): a handler that has a request runs on (the
  event loop schedules every ready coroutine); an abandoned lease runs out
  (wall-clock time); and somebody keeps asking for a rescan. The last is *strong*
  fairness on `RescanSnapshot`: the server has no sweep of expired leases, so
  without the "Retry scan" button nothing would be decided after a crash.
  Failures are bounded, so they stop at some point.
- `DocumentCreate!FairSpec` (`create`): weak fairness of each request's progress.
  The database grants a lock that stays free; `pool.acquire` queues its waiters.
- `Session!LiveSpec` (`session_live`): weak fairness of each tab's running
  operation, of message handling, and of the answers to a call (fetches are
  answered or fail; the browser settles them). Nothing is assumed of users, of
  `Focus`, or of messages arriving early. A closed tab gives its lock up, as Web
  Locks do.
- The other components are checked for safety only. Their "busy exactly while a
  call is under way" invariants are what a page owes; that calls end is the
  session's `AuthSettles` and the network's.

## 5. The proofs

Eight modules of theorems, for any number of handlers, contents, requests, keys,
tabs, cards, records, institutions, runners, prices and any bound on faults. Every
property of every passing run is stated by a theorem, liveness excepted. Five
modules are of the components with runs of their own; `ServiceProofs` and
`PageProofs` hold the proofs of the components on either side of the API, and
`StaffAppProofs` carries them to the application: a behaviour whose `part` is
`name` takes only steps of that component (a lemma for each), so what its
specification implies holds of the behaviour, and `OtherPart` covers the others.

What they assume of the constants is stated in the modules (`NullAssumption`,
`NoneAssumption`, `WizardAssumption`, `PoolAssumption`), as the hypothesis of the
theorem, or, for the parts of `staff`, in the `...Assumption` beside the proof,
which `StaffAppAssumption` collects and TLC evaluates. They say that null values
are not members of the sets they stand beside, that bounds are naturals, that
kinds of identifiers are apart; that the pool has a connection, a page of the
list a row, a clause and a matter exist, and a person is among the kinds searched;
that at the start one matter names each transfer, as migration 012 demands (the
transfer's own link may be missing); that prices, deeds and
multipliers are naturals; and that clause versions are numbered at least to 9,
so that a leading digit is itself a number. Where the code orders rows or detects
edits by a timestamp (`updated_at`, `created_at`), the models take the timestamps of
two transactions to differ, as PostgreSQL's microseconds nearly always do.
`OrphansAccounted` counts the worker that dies anywhere between its file and
its log row among the documented losses, in the loser's branch too. Finite are `Matter` in `MatterCore` and
`Milestone` in `LegacyMilestones`, whose rows are counted, and the files of a
deployed manifest in `Readiness`; of no other set is it assumed.

**Lane.** `LaneInv` is inductive with `TypeOK`. Its first part, `RowInv`,
ties the columns of the row together (an owner exists only while the scan is
pending; the status follows the scan; a verdict stands on a content that the
scanner gave it to). `HandlerInv` ties a handler to the row: past its persist
it works on the content on record, and it has an attempt exactly while at
work. `ReleasedIsScanned` needs both, since a publication is justified by what
another step of the same handler scanned. `AnswersHonest` and `OrphansAccounted`
are part of the invariant because a step of one handler keeps them for the
others only if they held. From it follow `OnlyScannedFilesReleased`,
`AnswersStayTrue`, `NoSilentOrphan`, the action property `AttemptGivenUp`, and
the refinement `LaneImplementsPromise`: the initial row maps to a document
without a file, `PersistFileState` (or a persist whose reply is lost) to
`Attach`, `PersistScanResult` to `Decide`, everything else to a stutter.
`OneScanAtATime` counts with `FiniteSetTheorems`. Its invariant, `Overrun`: two
handlers at work have different attempts, and those that have no live lease on
the row are finitely many, no more than the leases that were overrun.

**Creation.** Neither uniqueness nor truth is inductive. `CreateInv` adds that
rows of *open* transactions also have distinct keys, which is what the wait on
the index gives; that a committed row's request is over; and that a
request that lost its race has a committed winner, so that "no row" cannot be
reported as a conflict. `UniqueRow` and `AnswersTruthful` follow.

**Session.** `SessionInv` has five parts besides `TypeOK`:
`LockInv` (the tabs in line are distinct, each has work, and only the head of
the line runs), `SidInv` (every sid in the jar, in a memory, in a reply or
ended was issued, so a login's new sid is none of them), `LogoutIsFinal`,
`FlightInv` (a request in flight presents the refresh cookie that is still in
the jar, as no one else may change it meanwhile, and a logout an ended sid) and
`CallInv` (a call whose generation stands is of the session in memory).
`LogoutIsFinal` depends on the others through the login: its Set-Cookie writes
a fresh sid, which therefore has not ended. The action properties follow from
the invariant and the step: `OwnSession` from `CallInv`, `NoLateRequest` from
`LogoutIsFinal` with the cookie check that precedes every send, `ForeignKept`
from `FlightInv`. `OverruledCleared` needs a second invariant, `OverruledInv`,
kept by every step that keeps the first. While a logout waits in a queue its
tab has no session and everything before it is void (`Ahead`); what is void has
a logout behind it (`Voided`); and a sid of an overruled login that is in the
jar is among the tab's own sids, with a logout waiting (`Doomed`). So nothing
before the logout can set a session, or clear one and with it the tab's sids,
and the logout, when it starts, finds the sid in the jar among them and
deletes it. `QueueStep` reduces each step to one of five effects on a tab.

**Wizard.** The inductive invariant `Wired` says how the form, the running save
and the tables hang together: every row has a key of its own, and what is linked
from elsewhere is linked once (`Unique`); a key has one kind wherever it stands,
in the form, a row or a stray request (`OneKind`); the save in flight, its form
and the cards it has left agree with the call it awaits, and a reply names a row
that answers it (`Saves`, `Replied`); what the form shows as saved is backed by
rows (`Shown`); and a notice stands on stored rows (`Noticed`). Success is not
inductive alone: it needs that every card a running save no longer has left is
stored or was counted as failed. Theorems: `WizardNeverDuplicates`,
`WizardLinksOnce`, `WizardSuccessStored`, `WizardSavedAsSent`.

**Matter routes.** `Isolated` says, for each place a handler has reached, what its
checks have established, and that rows are anchored in transfers that exist:
`MatterRoutesReadIsolation`, `MatterRoutesForeignLooksMissing`.

**Relationships.** `RelationshipsInv`: every row, committed or open, is that of the
request that inserted it (`RowsOfRequests`), no key stands twice in open and
committed rows together (`KeysDistinct`), and past each statement a request has
found what the later ones rely on (`Checked`). `AssignmentsExplained` is kept only
with these, since a row has to be explained long after its request's checks.

**Prototype routes.** `PrototypeInv`: a row lock has one holder (`Exclusive`); what a
transaction has established at its place still holds while it has its locks
(`Stage`), in particular that a row it is about to drop has no child; a child's
parent is there (`Parented`); and a matter names a transfer there has been
(`SourceUsed`). The counted tables make "no child" weaker than it sounds: a row in another
table may be there, and goes. From it `MatterOfTransfer` and the action property
`ChildrenSurvive`.

**Milestones.** What an open transaction will publish is, for each row, what it logs
(`LoggedAsWritten`), no entry ended later than the clock (`EndedByNow`), and every
begin and commit has an instant of its own, so after
each commit the row written last is on top or has only such rows above it as
committed while its transaction ran: `HistoryEndsAtRow`.

**Whole transfers.** `AggregateInv`: a transfer's row is locked by one request (`Sole`); what
a request has found or written is so at its place (`FineReq`, `Written`); live
transfers have all their parts, and the figures are of the request that set the
price or of a statement saved while that price stood (`Stored`); and, when
every PUT sends the columns and therefore takes the row lock, what a PUT has listed
of the parties is what it finds at its commit, so that a list is one request's
(`Listings`). A PUT without columns takes no lock, hence the condition.

**Generated documents.** `GeneratorInv`: no two versions of a clause have a number in
common (`NumberedOnce`), the row a request has inserted has a number that no
committed row and no other open one has (`Apart`), and the page makes a document
only after its lists are there (`PageInOrder`). Merging is proved token by token: a
template has two tokens and a clause at most one, so flattening needs no induction.

**Upload.** `Typed` and `Counts`: what the service has taken and what the transform
holds add up to what has come, and to no more than the limit, until a body is
too large; the stream ends only if the body ended at the client:
`UploadStoredWhole`, `UploadTooLargeNotStored`.

**Readiness.** `ReadyInv` says what a shared probe may claim: a check it passed held
of the world at a moment since it began, one it failed did not (`ProbeSound`).
`Exact` states what the comparison of counts decides, which is where the
manifest's finiteness is used. `AnswersMeanProbe` follows.

**Migrations.** `RunnerInv`: types; only the holder of the lock is past
acquiring it (`Held`); what lies before the position of a run is recorded as in
its checkout (`Positions`); each execution but one per file is paid for by a
loss (`Counts`). From it all five properties of the runner (`RunnersOneAtATime`,
`RunnersLedgerExecuted`, `RunnersCompletedAsCheckout`, `RunnersAgainAfterLoss`,
`RunnersAsForeseen`), for any checkouts.

**Requirements.** `Evaluated`: what a recalculation has read was so at a moment
while it ran, and is what makes a rule decidable; the same of the page's flags:
`RequirementsUnevaluatedKept`, `RequirementsShownSatisfied`,
`RequirementsUnevaluatedShown`. `RequirementsTypeOK` adds `Bounded`.

**Editing a matter.** `CoreInv` quantifies over a log `s` that no variable holds:
every version of the core fields there ever was, by its token. Whatever has a
token, a row, a page, a read or a save, has the value the log gives to it
(`Explained`); a step that stores a version extends the log. `NoLostUpdate` follows,
since a save that matches the row's token has the row's value, and so does
`EditStaysWithMatter`, since a draft is of the matter its tokens were logged for.

**Login page.** The form's account is the one its code was sent to, and so is that of
any call under way (`FormOfAccount`, `ForAccount`).

**Search.** Calls are numbered; one of the present version asks what the fields say
(`CallsNumbered`); what is carried on is bound to the session that wrote it
(`EntriesBound`).

**Linked properties.** A call was told of links that exist, and links only grow (`Told`);
a click is pending exactly while one call is under way for it (`OneClick`).

**Documents panel.** Rows the page shows, or is about to show, were read before: what
is clean in them is clean (`OlderReads`); the dialog and the file in it are of one
row (`DialogOfTarget`, `FilesPicked`).

**List of transfers.** Every request has its own number (`NumberedApart`), and only the
newest asks for the filter and page now selected, so the answer that is shown is
its answer; the counting of pages is done with `FiniteSetTheorems`.

**Statements.** `ProformaInv`: an id names one transfer's statement wherever it stands,
page, cache, row or call (`KnownOnce`); a load shown is the loaded transfer's
(`OfLoaded`); and every save still to arrive has an instant left at which its
transaction can begin (`CallsFine`, `Ahead`), so that `Clock` names one. From it
`ProformaFigures`.

**Firm settings.** Tariffs are listed once, the official ones as issued (`Listed`);
and, while neither fault nor other user has come between (`Undisturbed`), the
stage of a call says how far its save has got (`Progress`): `FirmSaved`.

**Accounts.** The invariant is short: a statement was drafted from the input and
the settings beside it, adds up, and is as generated until it is edited. The work is
in the arithmetic. `Total` is a fold, about which nothing is known without
induction; `TotalSplit`, `TotalCounts` and their like are proved by taking a
smallest counterexample, from the well-foundedness of the naturals in the library, and
say that a sum over a set is what one element gives and what the others give.
With them every bracket's base is what the brackets below it accrue, so
`FeesAccrue`, which TLC checks at the prices where brackets meet, holds at every
price; the calculator, the statement and the wizard's estimate then agree by a
comparison of their lines, with every rounding bounded; and fees grow with the
price within each bracket and from one to the next (`AccountsAgree`).

**Only model-checked.** Liveness: `EveryFileDecided`, `EveryRequestAnswered`,
`AuthSettles`, which is beyond this prover. What the runs show besides a theorem is
that the cases occur: every action fires, and each property fails of a mutant.

## 6. Where the code and its documentation disagree

1. `create_audit`: the audit row of a creation is written on the transaction's
   connection. When that INSERT fails, COMMIT rolls back without an error and
   the caller is told of a row that does not exist; the docstring at line 158
   says that the business operation must not roll back.
2. `create_browser`: the "Add" button draws a new `client_request_id` per
   click, so that adding again after a lost response leaves two rows; the
   decisions document (line 107) says that a retry finds the same row.
3. `session_resurrect`: a tab that is restoring has no session, drops the
   message of a logout in another tab, and then installs the session that has
   ended; the header of `session.ts` says that a late refresh cannot. The
   damage is limited to a page that looks signed in: `NoLateRequest` proves
   that it sends no protected call.
4. `wizard_notice`: `persistAggregate` skips every party that is already saved,
   while its card stays editable. What is typed into it afterwards is never
   sent, and the next save says "Matter, property and all parties saved." and
   leaves the page; the comment at `Transfers.tsx:325` says never to claim
   success while a party failed.
5. `ready_override`: with `RUN_SPECIALIST_DB_TESTS=1` the pool is made from
   `SPECIALIST_TEST_DATABASE_URL` before any other key (`db.ts:20`), in production
   too. Startup does not inspect that key (`startupConfig.ts:36`), so a
   production process may listen on a database whose address it would have
   refused; its header says that unsafe configuration must stop the process.

Behaviour that no document contradicts, or that the properties are stated around,
met while modelling:

- *Milestones, accounts, clauses.* The routers are quarantined
  (`requireJwt.ts:13`), so every change of the milestone board and every account
  call is answered 503 today. Two overlapping changes of milestones leave a
  progress that counts neither's (`milestones.ts:180`). History is read newest
  first by the time its transaction *began*, so of two overlapping changes the
  entry on top may not be the one whose status the row has; `HistoryEndsAtRow`
  says how far apart they can be.
- *Statements.* Ids are `PF-<Date.now()>`, and `ON CONFLICT (id)` lets one of
  the same millisecond rewrite another transfer's row. Overlapping saves may
  apply in another order than they were clicked. A save is answered as a success
  when the database failed, and the next read prefers the older row. Two
  statements leave the figures of one and the latest row of the other
  (`FiguresOfStatement` asks for *a* stored statement, of the figures that are
  taken from one: POST and PUT of the transfer write others beside them).
  `transfer_financials.purchase_price` is written without
  `transfers.purchase_price` (`accounts.ts:531`), so the two prices of a transfer
  may differ until a PUT sets both; `PricesAgree` excepts just that.
- *Settings.* `defaultLodgementDeedsCount` is not persisted, and an emptied list
  of disbursements reads back as the defaults. "Save All" always ends in an error when an
  official schedule is selected, after the settings were stored; "Settings saved!" may stand
  beside a later error. A reset leaves the schedules in memory. Statements use
  only the preset schedules (`accounts.ts:420`).
- *Calculators.* The calculator's own total ignores which disbursements are
  enabled and their rules; its bond lines include the sectional-title consent,
  the server's do not (`CalculatorsAgree` states both differences).
- *Prototype transfers.* A PUT without a column of `transfers` takes no lock, so
  two of them mix their parties and may deadlock (`PartiesOfOneRequest` is stated
  for the others). An upload writes its file before its row, so a failure leaves
  an orphan; a DELETE looks for rows in some of the tables under a transfer
  (`transfers.ts:1142`, `1176`), and rows in the others (generated documents,
  property links, cancellations, refunds, communications, activity) go by the
  cascade, also those inserted a moment earlier; the matter that
  `generatedDocuments.ts:41` inserts for a transfer without one has no institution,
  so that the INSERT fails; a PUT may reset an uploaded document to pending; DELETE answers
  before its COMMIT (`transfers.ts:1201`). Transfers of the versioned routes have
  no figures, so a PUT of some of them fails.
- *Clauses.* `ORDER BY version` sorts as text, so that numbering sticks at 1.10;
  a draft or retired version never retires the active one; a placeholder inside a
  clause that names a clause stays. A generated document is never stored: its
  `document_id` refers to no document.
- *Pages.* "Searching..." stays when a search is cut short in the properties
  panel, and results or links of another text or matter may show there. Back and
  Start over of the login do not cancel its call, whose answer moves the page on
  with the account the user had given up. The count, the rows and the
  totals of the list are three statements.
- *Core fields, uploads.* An upload answered 503 may have been stored.
- *Startup.* Validation takes the first key that is not blank, `db.ts` the first
  that is not empty; a manifest that could not be read stays so until a restart;
  a second signal ends the pool again.
- *Migrations.* A file whose runner is lost before its ledger row is executed
  again, as `docs/deedly-m1-migration-preflight.md:117` warns (`AgainAfterLoss`
  bounds it); a baseline overwrites checksums without executing anything.
- *Requirements.* Of two overlapping recalculations the one with the older facts may
  be applied last; what it decided was so while it ran, which is all that
  `UnevaluatedKept` and `ShownSatisfied` say.
- *Flags.* The documents route may report a rule as unevaluated that could be
  decided throughout, when facts change between its statements; the converse is
  excluded (`UnevaluatedShown`).

## 7. What is not modelled

- Specialist contexts (`matter_specialist_service.py`): two inserts of the shape of
  a party's.
- Session: callers with `rawResponse` other than the download, the shared
  `sessionScope`, the cookies' Max-Age, browsers without Web Locks (every
  operation is refused), listeners that redraw the page.
- Documents: the signature and the clock of the download token; the digest that
  the download does not compare.
- Parties: submission of a new person to the entity service, the display cache,
  the rule of one primary contact. Properties: the catalogue and inactive
  properties outside the panel.
- Field validation everywhere: a refusal that the environment may choose.
- Pools: start-up and TLS; the deadlock detector where a transaction waits for at
  most one other. The lifespan of the Python service.
- Whether a stalled upload drains: it is up to Node's streams and undici, and
  `UploadProxy` claims safety only.
- Migrations: `CREATE DATABASE`, the digests and the recovery of an artifact.
- Lists of ledgers, catalogues and the legacy search (single statements), the
  duplicate warning (advice), the layout of documents, presentation, static pages,
  and the milestone board, whose changes are all refused.

## 8. What is left to do

1. `DownloadLink`: token, two clocks and revocation, composed with `DocumentLane`.
2. The specialist contexts, and the submission of a new person, with the remote
   visibility check inside the operation.
3. An abstract matter (one record, atomically edited) that `MatterCore` and the
   server half of `MatterWizard` implement, and an abstract session (one
   principal or none) that `Session` implements.
4. Proofs of 1 and 2 once they are modelled: a link that is followed releases what
   the lane had released and nobody had revoked.

------------------------- MODULE TransferAggregate -------------------------
(***************************************************************************)
(* A transfer and the rows under it in the prototype routes                *)
(* (server/routes/transfers.ts): figures, parties, documents with their    *)
(* files, milestones.  POST writes them all, PUT replaces some of them, the*)
(* document routes change one row, GET /:id reads them one by one.  Saving *)
(* a statement of account (accounts.ts) writes the figures too, and nothing*)
(* else of the transfer.  Pairing with matters and properties is           *)
(* PrototypeTransfers'; the statement itself is ProformaStatement's.       *)
(*                                                                         *)
(* A request is one READ COMMITTED transaction: what it writes is locked at*)
(* once and published at its commit.  A price and a party are named by the *)
(* request that wrote them.                                                *)
(***************************************************************************)
EXTENDS Naturals, FiniteSets

CONSTANTS
    Request,
    Before,     \* stands for the request that wrote the initial rows
    Transfer,   \* ids of transfers
    Existing,   \* those of the initial state
    Doc,        \* Active documents of the catalogue
    Definition, \* 1 .. n: the default milestone definitions, in their order
    NoRow,      \* no row of transfer_financials or transfer_documents
    NoList,     \* a body without a list of parties
    MaxFaults   \* bound: requests that fail in a way no model of theirs says

VARIABLES
    row,         \* transfers: "unused", "live" or "deleted"
    price,       \* transfers.purchase_price
    financials,  \* transfer_financials.purchase_price
    parties,     \* rows of parties: id and the request that wrote them last
    documents,   \* rows of transfer_documents
    definitions, \* rows of milestone_definitions
    milestones,  \* of the transfer's matter
    files,       \* in the upload directory, named by their request
    req,
    faults

tables == <<row, price, financials, parties, documents, definitions, milestones>>
vars == <<tables, files, req, faults>>

Writer == Request \cup {Before}
Status == {"pending", "uploaded", "verified"}
DocumentRow == [status: Status, file: Writer \cup {"none"}]
Seeded == [status |-> "pending", file |-> "none"]
Parts == {"financials", "documents"}

\* What a PUT carries: whether a column of transfers is in it, its figures, its
\* parties (the ids it retains, those of them with a name, whether it has a new
\* one) and the documents it sets to pending.
Lists == [retained: SUBSET Writer, named: SUBSET Writer, new: BOOLEAN]
NoBody == [columns |-> FALSE, figures |-> "none", list |-> NoList, docs |-> {}]

Fresh == [op |-> "none", pc |-> "new", t |-> Before, holds |-> {}, body |-> NoBody,
          adds |-> {}, parties |-> {}, unread |-> {}, lacks |-> {}, beside |-> Before,
          answer |-> "none"]

TypeOK ==
    /\ row \in [Transfer -> {"unused", "live", "deleted"}]
    /\ price \in [Transfer -> Writer] /\ financials \in [Transfer -> Writer \cup {NoRow}]
    /\ parties \in [Transfer -> SUBSET [id: Writer, of: Writer]]
    /\ documents \in [Transfer -> [Doc -> DocumentRow \cup {NoRow}]]
    /\ definitions \subseteq Definition /\ milestones \in [Transfer -> SUBSET Definition]
    /\ files \subseteq Writer /\ faults \in 0 .. MaxFaults
    /\ \A r \in Request :
        /\ req[r].t \in Transfer \cup {Before} /\ req[r].adds \subseteq Definition
        /\ req[r].beside \in Writer
        /\ req[r].parties \subseteq [id: Writer, of: Writer]
        /\ req[r].unread \cup req[r].lacks \subseteq Parts
        /\ req[r].body.list \in Lists \cup {NoList}

\* Existing transfers are this router's, or the versioned routes', which insert
\* neither figures nor documents.  With no transfer there may be no definitions.
Init ==
    /\ row = [t \in Transfer |-> IF t \in Existing THEN "live" ELSE "unused"]
    /\ price = [t \in Transfer |-> Before]
    /\ \E own \in BOOLEAN :
        /\ financials = [t \in Transfer |-> IF t \in Existing /\ own THEN Before ELSE NoRow]
        /\ parties = [t \in Transfer |-> IF t \in Existing /\ own THEN {[id |-> Before, of |-> Before]} ELSE {}]
        /\ documents = [t \in Transfer |-> [d \in Doc |-> IF t \in Existing /\ own THEN Seeded ELSE NoRow]]
    /\ definitions \in {{}, Definition}
    /\ milestones = [t \in Transfer |-> {}]
    /\ files = {} /\ faults = 0
    /\ req = [r \in Request |-> Fresh]

-----------------------------------------------------------------------------
(* Transactions and their locks.                                            *)

At(r, op, pc) == req[r].op = op /\ req[r].pc = pc
Go(r, fields) == req' = [req EXCEPT ![r] = fields]
\* The answer is kept with the transfer and the parties it was about.
End(r, answer) ==
    Go(r, [req[r] EXCEPT !.pc = "done", !.holds = {}, !.adds = {}, !.parties = {}, !.answer = answer,
                         !.body = [@ EXCEPT !.figures = "none", !.docs = {}]])

Key(kind, x) == <<kind, x>>
PartyKeys(ids) == {Key("party", id) : id \in ids}
DocumentKeys(t, ds) == {Key("document", <<t, d>>) : d \in ds}
Ids(t) == {p.id : p \in parties[t]}

\* Rows the next statement of a request locks.
Needs(r) ==
    LET t == req[r].t
        b == req[r].body
    IN  CASE At(r, "post", "definition") -> {Key("definition", CHOOSE d \in Definition \ req[r].adds :
                                                \A e \in Definition \ req[r].adds : d <= e)}
          [] At(r, "put", "columns") -> {Key("transfer", t)}
          [] At(r, "put", "update") \/ At(r, "put", "insert") \/ At(r, "statement", "sync") ->
                {Key("financials", t)}
          [] At(r, "put", "parties") -> IF b.list = NoList THEN {} ELSE PartyKeys(Ids(t))
          [] At(r, "put", "documents") -> DocumentKeys(t, b.docs)
          [] At(r, "put", "link") -> {Key("transfer", t)}
          [] At(r, "delete", "lock") -> {Key("transfer", t)}
          [] At(r, "delete", "cascade") -> {Key("financials", t)} \cup PartyKeys(Ids(t)) \cup DocumentKeys(t, Doc)
          [] At(r, "upload", "update") \/ At(r, "patch", "update") \/ At(r, "add", "insert") ->
                DocumentKeys(t, {d \in Doc : d \in req[r].body.docs})
          [] OTHER -> {}

\* A row inserted under a transfer keeps its key, so FOR UPDATE waits for it.
Inserting(q, t) == req[q].t = t /\ req[q].pc # "done" /\ Key("key", t) \in req[q].holds

\* And a row that is to be inserted waits for who deletes the transfer above it.
WaitsFor(r) ==
    {q \in Request \ {r} : \/ req[q].holds \cap Needs(r) # {}
                           \/ At(r, "delete", "lock") /\ Inserting(q, req[r].t)
                           \/ /\ At(r, "statement", "sync") /\ financials[req[r].t] = NoRow
                              /\ At(q, "delete", "cascade") /\ req[q].t = req[r].t}
Free(r) == WaitsFor(r) = {}

\* Who saves a statement of account is told of success whatever happens.
Fails(r) == End(r, IF req[r].op = "statement" THEN "saved" ELSE "500")

\* The process dies, a statement or the commit fails: ROLLBACK.
Rollback(r) ==
    /\ req[r].pc \notin {"new", "done"} /\ faults < MaxFaults
    /\ faults' = faults + 1
    /\ Fails(r)
    /\ UNCHANGED <<tables, files>>

\* The database ends one of the transactions that wait in a circle.
Deadlocked(r) == \E S \in SUBSET Request : r \in S /\ \A q \in S : WaitsFor(q) \cap S # {}
AbortVictim(r) == Deadlocked(r) /\ Fails(r) /\ UNCHANGED <<tables, files, faults>>

\* The look-up of the id, before the transaction and without a lock.
Lookup(r, t, fields) ==
    /\ req[r].pc = "new" /\ row[t] # "unused"
    /\ IF row[t] = "live" THEN Go(r, [fields EXCEPT !.t = t])
                          ELSE Go(r, [fields EXCEPT !.t = t, !.pc = "done", !.answer = "404"])
    /\ UNCHANGED <<tables, files, faults>>

-----------------------------------------------------------------------------
(* POST.  Only the definitions are rows another request can meet.           *)

\* ensureMilestoneDefinitions counts; none is inserted where there are some.
PostBegin(r, t) ==
    /\ req[r].pc = "new" /\ row[t] = "unused" /\ \A q \in Request : req[q].t # t
    /\ Go(r, [Fresh EXCEPT !.op = "post", !.t = t,
                           !.pc = IF definitions = {} THEN "definition" ELSE "commit"])
    /\ UNCHANGED <<tables, files, faults>>

\* ON CONFLICT (code) DO NOTHING waits for an uncommitted row of that code.
ensureMilestoneDefinitions(r) ==
    /\ At(r, "post", "definition") /\ Free(r)
    /\ \E d \in Definition : /\ Needs(r) = {Key("definition", d)}
                             /\ Go(r, [req[r] EXCEPT !.adds = @ \cup {d},
                                   !.holds = @ \cup (IF d \in definitions THEN {} ELSE Needs(r)),
                                   !.pc = IF req[r].adds \cup {d} = Definition THEN "commit" ELSE @])
    /\ UNCHANGED <<tables, files, faults>>

\* Both read what is there by then; the transfer is new and has no documents yet.
createDefaultMilestones(defined) == defined
seedTransferDocuments == [d \in Doc |-> Seeded]

PostCommit(r) ==
    /\ At(r, "post", "commit")
    /\ LET t == req[r].t
           defined == definitions \cup req[r].adds
       IN  /\ row' = [row EXCEPT ![t] = "live"]
           /\ price' = [price EXCEPT ![t] = r] /\ financials' = [financials EXCEPT ![t] = r]
           /\ parties' = [parties EXCEPT ![t] = {[id |-> r, of |-> r]}]
           /\ definitions' = defined
           /\ milestones' = [milestones EXCEPT ![t] = createDefaultMilestones(defined)]
           /\ documents' = [documents EXCEPT ![t] = seedTransferDocuments]
    /\ End(r, "created")
    /\ UNCHANGED <<files, faults>>

-----------------------------------------------------------------------------
(* PUT.                                                                     *)

\* The price is a column of transfers too.
PutBegin(r, t, body) ==
    /\ body.figures = "whole" => body.columns
    /\ Lookup(r, t, [Fresh EXCEPT !.op = "put", !.body = body,
                                  !.pc = IF body.columns THEN "columns" ELSE "financials"])

Step(r, pc, locks) == Go(r, [req[r] EXCEPT !.pc = pc, !.holds = @ \cup locks])

\* UPDATE transfers and the property's row, if any.
PutColumns(r) ==
    /\ At(r, "put", "columns") /\ Free(r)
    /\ Step(r, "financials", Needs(r))
    /\ UNCHANGED <<tables, files, faults>>

\* A SELECT without a lock says whether the figures have a row; the INSERT of a
\* missing one fails unless every figure that may not be null is given.
PutFinds(r) ==
    /\ At(r, "put", "financials")
    /\ LET there == financials[req[r].t] # NoRow
       IN  CASE req[r].body.figures = "none" -> Step(r, "parties", {})
             [] req[r].body.figures = "part" /\ ~there -> End(r, "500")
             [] OTHER -> Step(r, IF there THEN "update" ELSE "insert", {})
    /\ UNCHANGED <<tables, files, faults>>

\* The UPDATE of the figures given, or the INSERT of them all, which fails when
\* another request has inserted the row meanwhile.
PutFinancials(r) ==
    /\ At(r, "put", "update") \/ At(r, "put", "insert")
    /\ Free(r)
    /\ IF req[r].pc = "insert" /\ financials[req[r].t] # NoRow THEN End(r, "500")
       ELSE Step(r, "parties", Needs(r) \cup (IF req[r].pc = "insert" THEN {Key("key", req[r].t)} ELSE {}))
    /\ UNCHANGED <<tables, files, faults>>

\* DELETE those not retained, UPDATE those retained that are there and have a
\* name, INSERT the new ones; a retained one that has gone is not inserted again.
Listed(r) ==
    LET list == req[r].body.list
        kept == {p \in parties[req[r].t] : p.id \in list.retained}
    IN  {[p EXCEPT !.of = IF p.id \in list.named THEN r ELSE @] : p \in kept}
        \cup (IF list.new THEN {[id |-> r, of |-> r]} ELSE {})

PutParties(r) ==
    /\ At(r, "put", "parties") /\ Free(r)
    /\ LET list == req[r].body.list
           key == IF list # NoList /\ list.new THEN {Key("key", req[r].t)} ELSE {}
       IN  Go(r, [req[r] EXCEPT !.pc = "documents", !.holds = @ \cup Needs(r) \cup key,
                                !.parties = IF list = NoList THEN {} ELSE Listed(r)])
    /\ UNCHANGED <<tables, files, faults>>

PutDocuments(r) ==
    /\ At(r, "put", "documents") /\ Free(r)
    /\ Step(r, "link", Needs(r))
    /\ UNCHANGED <<tables, files, faults>>

\* UPDATE transfers SET matter_id, the final rows, COMMIT.  A transfer that has
\* gone fails a foreign key, or mapTransferRow of no row.
PutCommit(r) ==
    /\ At(r, "put", "link") /\ Free(r)
    /\ LET t == req[r].t
           b == req[r].body
           mine == {p \in parties[t] : Key("party", p.id) \in req[r].holds}
       IN  IF row[t] # "live" THEN End(r, "500") /\ UNCHANGED tables
           ELSE /\ price' = IF b.figures = "whole" THEN [price EXCEPT ![t] = r] ELSE price
                /\ financials' = IF b.figures = "whole" THEN [financials EXCEPT ![t] = r] ELSE financials
                /\ parties' = IF b.list = NoList THEN parties
                              ELSE [parties EXCEPT ![t] = (@ \ mine) \cup req[r].parties]
                /\ documents' = [documents EXCEPT ![t] =
                        [d \in Doc |-> IF d \in b.docs /\ @[d] # NoRow
                                       THEN [@[d] EXCEPT !.status = "pending"] ELSE @[d]]]
                /\ End(r, "updated")
                /\ UNCHANGED <<row, definitions, milestones>>
    /\ UNCHANGED <<files, faults>>

-----------------------------------------------------------------------------
(* DELETE of the transfer; the foreign keys take its rows along.            *)

DeleteBegin(r, t) ==
    /\ req[r].pc = "new" /\ row[t] # "unused"
    /\ Go(r, [Fresh EXCEPT !.op = "delete", !.pc = "lock", !.t = t])
    /\ UNCHANGED <<tables, files, faults>>

DeleteLock(r) ==
    /\ At(r, "delete", "lock") /\ Free(r)
    /\ IF row[req[r].t] = "live" THEN Step(r, "cascade", Needs(r)) ELSE End(r, "404")
    /\ UNCHANGED <<tables, files, faults>>

\* The files stay.
DeleteCommit(r) ==
    /\ At(r, "delete", "cascade") /\ Free(r)
    /\ LET t == req[r].t
       IN  /\ row' = [row EXCEPT ![t] = "deleted"]
           /\ financials' = [financials EXCEPT ![t] = NoRow]
           /\ parties' = [parties EXCEPT ![t] = {}]
           /\ documents' = [documents EXCEPT ![t] = [d \in Doc |-> NoRow]]
    /\ End(r, "deleted")
    /\ UNCHANGED <<price, definitions, milestones, files, faults>>

-----------------------------------------------------------------------------
(* The document routes.                                                     *)

ForDocument(op, pc, d) == [Fresh EXCEPT !.op = op, !.pc = pc, !.body = [NoBody EXCEPT !.docs = {d}]]

UploadBegin(r, t, d) == Lookup(r, t, ForDocument("upload", "write", d))

\* saveTransferDocumentUpload refuses an empty file, else writes it first.
UploadWrite(r) ==
    /\ At(r, "upload", "write")
    /\ \/ Go(r, [req[r] EXCEPT !.pc = "update"]) /\ files' = files \cup {r}
       \/ End(r, "500") /\ UNCHANGED files
    /\ UNCHANGED <<tables, faults>>

SetDocument(t, d, fields) ==
    /\ documents' = [documents EXCEPT ![t][d] = fields]
    /\ UNCHANGED <<row, price, financials, parties, definitions, milestones>>

\* One UPDATE and the COMMIT; a row that is not there is a 404, and the file stays.
UploadUpdate(r) ==
    /\ At(r, "upload", "update") /\ Free(r)
    /\ \E d \in req[r].body.docs :
          IF documents[req[r].t][d] = NoRow THEN End(r, "404") /\ UNCHANGED tables
          ELSE /\ SetDocument(req[r].t, d, [status |-> "uploaded", file |-> r])
               /\ End(r, "updated")
    /\ UNCHANGED <<files, faults>>

\* PATCH checks the status, unlike PUT.
PatchBegin(r, t, d) == Lookup(r, t, ForDocument("patch", "update", d))

PatchUpdate(r) ==
    /\ At(r, "patch", "update") /\ Free(r)
    /\ \E d \in req[r].body.docs :
          IF documents[req[r].t][d] = NoRow THEN End(r, "404") /\ UNCHANGED tables
          ELSE /\ SetDocument(req[r].t, d, [documents[req[r].t][d] EXCEPT !.status = "verified"])
               /\ End(r, "updated")
    /\ UNCHANGED <<files, faults>>

AddBegin(r, t, d) == Lookup(r, t, ForDocument("add", "insert", d))

\* ON CONFLICT DO UPDATE keeps the row that is there; without its transfer the
\* foreign key fails.
AddInsert(r) ==
    /\ At(r, "add", "insert") /\ Free(r)
    /\ \E d \in req[r].body.docs :
          IF row[req[r].t] # "live" THEN End(r, "500") /\ UNCHANGED tables
          ELSE /\ SetDocument(req[r].t, d, IF documents[req[r].t][d] = NoRow THEN Seeded
                                           ELSE documents[req[r].t][d])
               /\ End(r, "created")
    /\ UNCHANGED <<files, faults>>

-----------------------------------------------------------------------------
(* PUT proforma (accounts.ts): the transfer's id, without a lock; the row of *)
(* the statement, which no foreign key ties to it; the upsert of its figures.*)

StatementBegin(r, t) ==
    /\ req[r].pc = "new" /\ row[t] # "unused"
    /\ Go(r, [Fresh EXCEPT !.op = "statement", !.t = t, !.pc = IF row[t] = "live" THEN "sync" ELSE "done",
                           !.answer = IF row[t] = "live" THEN "none" ELSE "saved"])
    /\ UNCHANGED <<tables, files, faults>>

\* The foreign key fails for a transfer that has gone.  `beside' is the price the
\* transfer has then.
StatementSync(r) ==
    /\ At(r, "statement", "sync") /\ Free(r)
    /\ LET t == req[r].t
       IN  IF row[t] = "live"
           THEN /\ financials' = [financials EXCEPT ![t] = r]
                /\ Go(r, [req[r] EXCEPT !.pc = "done", !.answer = "saved", !.beside = price[t]])
           ELSE End(r, "saved") /\ UNCHANGED financials
    /\ UNCHANGED <<row, price, parties, documents, definitions, milestones, files, faults>>

-----------------------------------------------------------------------------
(* GET /:id: the transfer, then its rows on connections of their own.       *)

DetailBegin(r, t) == Lookup(r, t, [Fresh EXCEPT !.op = "detail", !.pc = "read", !.unread = Parts])

Missing(t, part) == IF part = "financials" THEN financials[t] = NoRow
                    ELSE \E d \in Doc : documents[t][d] = NoRow

DetailRead(r, part) ==
    /\ At(r, "detail", "read") /\ part \in req[r].unread
    /\ LET rest == req[r].unread \ {part}
       IN  Go(r, [req[r] EXCEPT !.unread = rest,
                    !.lacks = @ \cup {x \in {part} : Missing(req[r].t, x)},
                    !.pc = IF rest = {} THEN "done" ELSE @,
                    !.answer = IF rest = {} THEN "200" ELSE @])
    /\ UNCHANGED <<tables, files, faults>>

\* A page lists parties of the transfer as it has read it.  Bound: a body has
\* parties or documents.
Bodies(t) ==
    [columns: BOOLEAN, figures: {"none", "part", "whole"}, list: {NoList}, docs: {{}, Doc}]
    \cup [columns: BOOLEAN, figures: {"none", "part", "whole"}, docs: {{}},
          list: [retained: SUBSET Ids(t), named: {{}, Ids(t)}, new: BOOLEAN]]

Next == \E r \in Request :
    \/ Rollback(r) \/ AbortVictim(r)
    \/ \E t \in Transfer :
        \/ PostBegin(r, t) \/ DeleteBegin(r, t) \/ DetailBegin(r, t) \/ StatementBegin(r, t)
        \/ \E body \in Bodies(t) : PutBegin(r, t, body)
        \/ \E d \in Doc : UploadBegin(r, t, d) \/ PatchBegin(r, t, d) \/ AddBegin(r, t, d)
    \/ ensureMilestoneDefinitions(r) \/ PostCommit(r)
    \/ StatementSync(r)
    \/ PutColumns(r) \/ PutFinds(r) \/ PutFinancials(r) \/ PutParties(r) \/ PutDocuments(r) \/ PutCommit(r)
    \/ DeleteLock(r) \/ DeleteCommit(r)
    \/ UploadWrite(r) \/ UploadUpdate(r) \/ PatchUpdate(r) \/ AddInsert(r)
    \/ \E part \in Parts : DetailRead(r, part)

Spec == Init /\ [][Next]_vars

-----------------------------------------------------------------------------
(* Properties.                                                              *)

\* The price of a transfer and that of its figures are written by one request,
\* unless the figures are those of a statement of account saved since: no request
\* changes the price under a statement without its figures, whichever overlap.
SavedBeside(t) == {r \in Request : /\ req[r].op = "statement" /\ req[r].t = t
                                  /\ req[r].pc = "done" /\ req[r].beside = price[t]}

PricesAgree == \A t \in Transfer : row[t] = "live" /\ financials[t] # NoRow =>
                   financials[t] \in {price[t]} \cup SavedBeside(t)

Puts == {r \in Request : req[r].op = "put"}
Committed(t) == {r \in Request : /\ req[r].t = t /\ req[r].answer \in {"created", "updated"}
                                 /\ \/ req[r].op = "post"
                                    \/ req[r].op = "put" /\ req[r].body.list # NoList}

\* What request r leaves of the parties if it has the last word.
LeftBy(r, t) ==
    IF req[r].op = "post" THEN parties[t] = {[id |-> r, of |-> r]}
    ELSE LET list == req[r].body.list
         IN  /\ Ids(t) \ {r} \subseteq list.retained
             /\ list.new <=> r \in Ids(t)
             /\ \A p \in parties[t] : p.id \in list.named \cup {r} => p.of = r

\* The parties of a transfer are those one request listed, never a mixture of
\* two, as long as every PUT carries a column of the transfer: its UPDATE is the
\* lock that makes the second PUT wait.
PartiesOfOneRequest ==
    (\A r \in Puts : req[r].body.columns) =>
        \A t \in Transfer : row[t] = "live" =>
            Committed(t) = {} \/ \E r \in Committed(t) : LeftBy(r, t)

\* Every transfer this router created has all the milestones, also when two
\* requests meet an empty table of definitions.
MilestonesComplete ==
    \A t \in Transfer \ Existing : row[t] = "live" => milestones[t] = Definition

\* The file a document names has been written.
FilesOfRows ==
    \A t \in Transfer, d \in Doc : documents[t][d] # NoRow => documents[t][d].file \in files \cup {"none"}

\* GET /:id never shows a transfer of this router without what its creation wrote
\* with it, unless it was deleted meanwhile.
DetailWhole ==
    \A r \in Request : req[r].op = "detail" /\ req[r].lacks # {} /\ req[r].t \notin Existing =>
        row[req[r].t] = "deleted"
=============================================================================

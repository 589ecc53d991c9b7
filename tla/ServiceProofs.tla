--------------------------- MODULE ServiceProofs ----------------------------
(***************************************************************************)
(* The components of the services, one after the other, for every value of *)
(* their constants: what each promises, by the invariant of its own that   *)
(* its steps keep.  Each is an instance over variables of its own, and     *)
(* nothing proved of one is used for another: a row that several of them   *)
(* write (a transfer, its figures) is in each of them, with those writers  *)
(* that bear on what is proved of it there.  (An operator that a component *)
(* takes from a library is, in its instance, a copy of the component's     *)
(* own: Milestones!Cardinality.)                                           *)
(***************************************************************************)
EXTENDS FiniteSetTheorems, FiniteSets, Integers, Naturals, SequenceTheorems, Sequences, SequencesExt, WellFoundedInduction, TLAPS

CONSTANTS
    Inst, Transfer, Malformed, Golden, NoGolden, MaxRows, Request, Party,
    OtherParty, Code, Child, Reference, ExistingReference, MatterId, PropertyId,
    matterOf, propertyOf, MaxFaults, Milestone, OtherMilestone, Before, Existing,
    Doc, Definition, NoRow, NoList, Clause, Field, Defined, Number, MaxNumber,
    MaxMade, MAX_UPLOAD_BYTES, MaxBody, Buffer, ManifestFile, ExtraFile, NoTable,
    NoProbe, NoEnv, MaxChanges, Runner, MaxFile, MaxContent, Checkout, NoRunner,
    MaxStarts, MaxLosses

VARIABLES
    owner, routesRows, request, routesAnswer,
    relationshipsDefinition, assigned, relationshipsOpen, relationshipsPost,
    offered,
    transfers, matters, properties, children, prototypeReq, prototypeFaults,
    milestonesRow, milestonesHistory, clock, progress, milestonesReq,
    milestonesFaults,
    aggregateRow, price, aggregateFinancials, aggregateParties, aggregateDocuments,
    definitions, milestones, aggregateFiles, aggregateReq, aggregateFaults,
    versions, generatorReq, page, made, last,
    uploadClient, limited, service, uploadAnswer,
    env, using, process, signals, world, manifest, probe, reqs, changes,
    holder, migrationsLedger, run, starts, migrationsFaults, executed, migrationsBy

Routes == INSTANCE MatterRoutes WITH
    rows <- routesRows, answer <- routesAnswer

Relationships == INSTANCE PartyRelationships WITH
    Elsewhere <- OtherParty, definition <- relationshipsDefinition,
    open <- relationshipsOpen, post <- relationshipsPost

Prototype == INSTANCE PrototypeTransfers WITH
    Transfer <- Reference, Existing <- ExistingReference, Matter <- MatterId,
    Property <- PropertyId, req <- prototypeReq, faults <- prototypeFaults

Milestones == INSTANCE LegacyMilestones WITH
    Elsewhere <- OtherMilestone, row <- milestonesRow, history <- milestonesHistory,
    req <- milestonesReq, faults <- milestonesFaults

Aggregate == INSTANCE TransferAggregate WITH
    row <- aggregateRow, financials <- aggregateFinancials,
    parties <- aggregateParties, documents <- aggregateDocuments,
    files <- aggregateFiles, req <- aggregateReq, faults <- aggregateFaults

Generator == INSTANCE DocumentGenerator WITH
    req <- generatorReq

Upload == INSTANCE UploadProxy WITH
    client <- uploadClient, answer <- uploadAnswer

Ready == INSTANCE Readiness WITH
    File <- ManifestFile, Extra <- ExtraFile

Migrations == INSTANCE MigrationRunner WITH
    MaxFaults <- MaxLosses, ledger <- migrationsLedger, faults <- migrationsFaults,
    by <- migrationsBy

-----------------------------------------------------------------------------
(***************************************************************************)
(* Isolation of the matter routes for every set of institutions, transfers,*)
(* golden records and rows.  ReadIsolation is not inductive: that the rows *)
(* a handler is about to select are the caller's follows from what its     *)
(* earlier statements found, and from the fact that others only add rows   *)
(* and never give a transfer another institution.                          *)
(***************************************************************************)
Reached == {"authorize", "party", "rows"}

\* What the gates and the statements before pc have established.
Established(q) ==
    /\ q.pc \in Reached =>
         /\ q.route \notin Routes!Forward /\ Routes!Gate(q.route, q.user, q.id) = 0
         /\ q.user.client => q.route \in {"detail", "parties"}
    /\ q.pc = "upstream" => q.route \in Routes!Forward
    /\ q.pc \in {"party", "rows"} => Routes!authorizeTransfer(q.user, q.id)
    /\ q.pc = "party" => q.route \in Routes!OfParty
    /\ q.pc = "rows" /\ q.route \in Routes!OfParty => Routes!authorizeTransferParty(q.user, q.id, q.party)

Asked == [pc: Routes!Pending \cup {"done"}, route: Routes!Route, user: Routes!Caller,
          id: Transfer \cup {Malformed}, party: Routes!Row \cup {Routes!None}]

RowsAnchored ==
    \A x \in routesRows : /\ owner[x.transfer] # Routes!None
                          /\ x.table \in Routes!Anchored \ {"relationships"} => x.inst = owner[x.transfer]

\* The inductive invariant.
Isolated ==
    /\ owner \in [Transfer -> Inst \cup {Routes!None}] /\ routesRows \subseteq Routes!Row
    /\ RowsAnchored
    /\ request = Routes!NoRequest \/ (request \in Asked /\ Established(request))
    /\ request.pc # "done" => routesAnswer = Routes!NoAnswer
    /\ Routes!ReadIsolation /\ Routes!ForeignLooksMissing

-----------------------------------------------------------------------------

\* A caller is staff or a client, a client holds no ability.
LEMMA CallerFields ==
    ASSUME NEW u \in Routes!Caller
    PROVE  u.client \in BOOLEAN /\ u.inst \in Inst /\ u.read \in BOOLEAN
BY DEF Routes!Caller

\* The gate of a route the BFF answers itself does not look at the id, and lets
\* clients through to the matter and its parties only.
LEMMA GateOfOwnRoute ==
    ASSUME NEW r \in Routes!Route, r \notin Routes!Forward, NEW u \in Routes!Caller,
           NEW id \in Transfer \cup {Malformed}
    PROVE  /\ Routes!Gate(r, u, id) = Routes!Gate(r, u, Malformed)
           /\ Routes!Gate(r, u, id) = 0 /\ u.client => r \in {"detail", "parties"}
<1>1. CASE r \in {"detail", "parties"}
  BY <1>1 DEF Routes!Gate, Routes!ClientGate
<1>2. CASE r \notin {"detail", "parties"}
  <2>1. r \notin {"list", "create", "patch", "attach", "documentWrite"}
    BY DEF Routes!Forward
  <2>2. \A i : Routes!Gate(r, u, i) = Routes!StaffGate(u)
    BY <1>2, <2>1 DEF Routes!Gate
  <2>. QED  BY <2>2, CallerFields DEF Routes!StaffGate
<1>. QED  BY <1>1, <1>2

\* What was authorized stays so while others create transfers and insert rows.
LEMMA AuthorizedStays ==
    ASSUME Routes!None \notin Inst, Isolated, NEW u \in Routes!Caller, NEW id,
           Routes!authorizeTransfer(u, id),
           routesRows \subseteq routesRows',
           \A t \in Transfer : owner[t] # Routes!None => owner'[t] = owner[t]
    PROVE  Routes!authorizeTransfer(u, id)'
<1>1. id \in Transfer /\ owner[id] = u.inst /\ u.inst \in Inst
  BY CallerFields DEF Routes!authorizeTransfer
<1>2. owner'[id] = u.inst
  BY <1>1
<1>. QED  BY <1>1, <1>2 DEF Routes!authorizeTransfer

LEMMA InitIsolated == Routes!Init => Isolated
BY DEF Routes!Init, Isolated, Routes!NoRequest, Routes!NoAnswer, RowsAnchored,
   Routes!ReadIsolation, Routes!ForeignLooksMissing

\* An answer ends the request; nothing changes after it.
LEMMA CreateTransferIsolated ==
    ASSUME Routes!None \notin Inst, Isolated, NEW t \in Transfer, NEW i \in Inst,
           Routes!CreateTransfer(t, i)
    PROVE  Isolated'
<1>. USE DEF Routes!CreateTransfer
<1>1. /\ request \in Asked /\ Established(request) /\ request.pc # "done"
      /\ routesAnswer = Routes!NoAnswer
  BY DEF Isolated, Routes!NoRequest, Routes!Pending
<1>2. owner' \in [Transfer -> Inst \cup {Routes!None}] /\ routesRows' \subseteq Routes!Row
  BY DEF Isolated
<1>3. \A s \in Transfer : owner[s] # Routes!None => owner'[s] = owner[s]
  BY DEF Isolated
<1>4. RowsAnchored'
  <2>. SUFFICES ASSUME NEW x \in routesRows
                PROVE  /\ owner'[x.transfer] # Routes!None
                       /\ x.table \in Routes!Anchored \ {"relationships"} => x.inst = owner'[x.transfer]
    BY DEF RowsAnchored
  <2>1. x.transfer \in Transfer
    BY DEF Isolated, Routes!Row
  <2>2. /\ owner[x.transfer] # Routes!None
        /\ x.table \in Routes!Anchored \ {"relationships"} => x.inst = owner[x.transfer]
    BY DEF Isolated, RowsAnchored
  <2>3. owner'[x.transfer] = owner[x.transfer]
    BY <1>3, <2>1, <2>2
  <2>. QED  BY <2>2, <2>3
<1>5. Established(request)'
  <2>1. request.user \in Routes!Caller
    BY <1>1 DEF Asked
  <2>2. Routes!authorizeTransfer(request.user, request.id) => Routes!authorizeTransfer(request.user, request.id)'
    BY <2>1, <1>3, AuthorizedStays
  <2>. QED  BY <1>1, <2>2 DEF Established, Routes!authorizeTransferParty
<1>6. (Routes!ReadIsolation /\ Routes!ForeignLooksMissing)'
  BY <1>1 DEF Routes!ReadIsolation, Routes!ForeignLooksMissing, Routes!NoAnswer
<1>. QED  BY <1>1, <1>2, <1>4, <1>5, <1>6 DEF Isolated

LEMMA InsertRowIsolated ==
    ASSUME Routes!None \notin Inst, Isolated, NEW row \in Routes!Row, Routes!InsertRow(row)
    PROVE  Isolated'
<1>. USE DEF Routes!InsertRow
<1>1. /\ request \in Asked /\ Established(request) /\ request.pc # "done"
      /\ routesAnswer = Routes!NoAnswer
  BY DEF Isolated, Routes!NoRequest, Routes!Pending
<1>2. /\ owner' \in [Transfer -> Inst \cup {Routes!None}] /\ routesRows' \subseteq Routes!Row
      /\ routesRows \subseteq routesRows'
  BY DEF Isolated
<1>3. RowsAnchored'
  BY DEF Isolated, RowsAnchored
<1>4. Established(request)'
  <2>1. request.user \in Routes!Caller
    BY <1>1 DEF Asked
  <2>2. Routes!authorizeTransfer(request.user, request.id) => Routes!authorizeTransfer(request.user, request.id)'
    BY <2>1, <1>2, AuthorizedStays
  <2>. QED  BY <1>1, <1>2, <2>2 DEF Established, Routes!authorizeTransferParty
<1>5. (Routes!ReadIsolation /\ Routes!ForeignLooksMissing)'
  BY <1>1 DEF Routes!ReadIsolation, Routes!ForeignLooksMissing, Routes!NoAnswer
<1>. QED  BY <1>1, <1>2, <1>3, <1>4, <1>5 DEF Isolated

LEMMA ReceiveIsolated ==
    ASSUME Isolated, NEW r \in Routes!Route, NEW u \in Routes!Caller,
           NEW id \in Transfer \cup {Malformed},
           NEW party \in Routes!Parameter(r), Routes!Receive(r, u, id, party)
    PROVE  Isolated'
<1> DEFINE q == [pc |-> "idle", route |-> r, user |-> u, id |-> id, party |-> party]
           g == Routes!Gate(r, u, id)
<1>1. party \in Routes!Row \cup {Routes!None}
  BY DEF Routes!Parameter
<1>2. UNCHANGED <<owner, routesRows>> /\ routesAnswer = Routes!NoAnswer
  BY DEF Routes!Receive, Isolated, Routes!NoRequest
<1>3. CASE g # 0 /\ request' = [q EXCEPT !.pc = "done"] /\ routesAnswer' = [status |-> g, rows |-> {}]
  <2>1. request' = [pc |-> "done", route |-> r, user |-> u, id |-> id, party |-> party]
    BY <1>3
  <2>2. request' \in Asked /\ Established(request)'
    BY <2>1, <1>1 DEF Asked, Established, Reached
  <2>3. Routes!ReadIsolation'
    BY <1>3 DEF Routes!ReadIsolation
  <2>4. Routes!ForeignLooksMissing'
    <3>1. r \notin Routes!Forward => Routes!Gate(r, u, Malformed) = g
      BY GateOfOwnRoute
    <3>. QED  BY <1>3, <2>1, <3>1 DEF Routes!ForeignLooksMissing
  <2>. QED  BY <1>2, <2>1, <2>2, <2>3, <2>4 DEF Isolated, RowsAnchored
<1>4. CASE g = 0 /\ request' = [q EXCEPT !.pc = IF r \in Routes!Forward THEN "upstream" ELSE "authorize"]
           /\ UNCHANGED routesAnswer
  <2> DEFINE pc == IF r \in Routes!Forward THEN "upstream" ELSE "authorize"
  <2>1. request' = [pc |-> pc, route |-> r, user |-> u, id |-> id, party |-> party]
    BY <1>4
  <2>2. request' \in Asked
    BY <2>1, <1>1 DEF Asked, Routes!Pending
  <2>3. Established(request)'
    <3>1. CASE r \in Routes!Forward
      BY <3>1, <2>1 DEF Established, Reached
    <3>2. CASE r \notin Routes!Forward
      <4>1. g = 0 /\ u.client => r \in {"detail", "parties"}
        BY <3>2, GateOfOwnRoute
      <4>. HIDE DEF g
      <4>2. request'.pc = "authorize" /\ request'.route = r /\ request'.user = u /\ request'.id = id
        BY <2>1, <3>2
      <4>. QED  BY <1>4, <3>2, <4>1, <4>2 DEF g, Established, Reached
    <3>. QED  BY <3>1, <3>2
  <2>4. Routes!ReadIsolation' /\ Routes!ForeignLooksMissing'
    BY <1>2, <1>4, <2>1 DEF Routes!ReadIsolation, Routes!ForeignLooksMissing,
       Routes!NoAnswer
  <2>. QED  BY <1>2, <1>4, <2>2, <2>3, <2>4 DEF Isolated, RowsAnchored
<1>. QED  BY <1>3, <1>4 DEF Routes!Receive

\* A request that ends without rows.  What it says of a hidden transfer is what the
\* gate says of an id that does not exist.
LEMMA RefusalIsolated ==
    ASSUME Isolated, request.pc \in Reached, UNCHANGED <<owner, routesRows>>,
           NEW status \in {404, 500}, Routes!Say(status, {})
    PROVE  Isolated'
<1>1. request \in Asked /\ Established(request)
  BY DEF Isolated, Routes!NoRequest, Reached
<1>2. /\ request' \in Asked /\ request'.pc = "done" /\ request'.route = request.route
      /\ request'.user = request.user /\ request'.id = request.id
  BY <1>1 DEF Routes!Say, Asked
<1>3. Established(request)'
  BY <1>2 DEF Established, Reached
<1>4. routesAnswer'.rows = {} /\ routesAnswer'.status = status
  BY DEF Routes!Say
<1>5. Routes!Gate(request.route, request.user, Malformed) = 0
  <2>1. /\ request.route \in Routes!Route /\ request.user \in Routes!Caller
        /\ request.id \in Transfer \cup {Malformed}
    BY <1>1 DEF Asked
  <2>2. /\ request.route \notin Routes!Forward
        /\ Routes!Gate(request.route, request.user, request.id) = 0
    BY <1>1 DEF Established
  <2>. QED  BY <2>1, <2>2, GateOfOwnRoute
<1>6. Routes!ReadIsolation'
  BY <1>4 DEF Routes!ReadIsolation
<1>7. Routes!ForeignLooksMissing'
  BY <1>2, <1>4, <1>5 DEF Routes!ForeignLooksMissing
<1>. QED  BY <1>2, <1>3, <1>6, <1>7 DEF Isolated, RowsAnchored

\* A request that ends with rows of its transfer: it may do so because its transfer is
\* not hidden from its caller.
LEMMA AnswerIsolated ==
    ASSUME Routes!None \notin Inst, Malformed \notin Transfer, Isolated,
           request.pc = "rows", UNCHANGED <<owner, routesRows>>,
           NEW sent, Routes!Say(200, sent),
           \A x \in sent : /\ owner[x.transfer] = request.user.inst /\ x.inst = request.user.inst
                           /\ request.user.client => /\ x.table = "parties"
                                                     /\ x.who = request.user.golden
    PROVE  Isolated'
<1>1. request \in Asked /\ Established(request)
  BY DEF Isolated, Routes!NoRequest
<1>2. /\ request' \in Asked /\ request'.pc = "done" /\ request'.route = request.route
      /\ request'.user = request.user /\ request'.id = request.id /\ request'.party = request.party
  BY <1>1 DEF Routes!Say, Asked
<1>3. Established(request)'
  BY <1>2 DEF Established, Reached
<1>4. Routes!ReadIsolation'
  BY <1>2 DEF Routes!ReadIsolation, Routes!Say
<1>5. Routes!authorizeTransfer(request.user, request.id)
  BY <1>1 DEF Established
<1>6. request.route \in Routes!OfParty => Routes!authorizeTransferParty(request.user, request.id, request.party)
  BY <1>1 DEF Established
<1>7. request.user.inst \in Inst
  BY <1>1, CallerFields DEF Asked
<1>8. ~Routes!Hidden(request)
  <2>1. /\ request.id \in Transfer /\ owner[request.id] = request.user.inst
        /\ request.user.inst # Routes!None
    BY <1>5, <1>7 DEF Routes!authorizeTransfer
  <2>2. request.id # Malformed
    BY <2>1
  <2>. QED  BY <1>5, <1>6, <2>1, <2>2 DEF Routes!Hidden, Routes!Of,
               Routes!authorizeTransfer, Routes!authorizeTransferParty
<1>9. Routes!ForeignLooksMissing'
  BY <1>2, <1>8 DEF Routes!ForeignLooksMissing, Routes!Hidden, Routes!Of
<1>. QED  BY <1>2, <1>3, <1>4, <1>9 DEF Isolated, RowsAnchored

LEMMA ReadRowsIsolated ==
    ASSUME Routes!None \notin Inst, Malformed \notin Transfer, Isolated, Routes!ReadRows
    PROVE  Isolated'
<1> DEFINE u == request.user
           id == request.id
           sent == Routes!Listed(request.route, u, id)
<1>1. /\ request.pc = "rows" /\ request.route \notin Routes!Items \cup Routes!OfParty
      /\ Routes!Say(200, sent) /\ UNCHANGED <<owner, routesRows>>
  BY DEF Routes!ReadRows
<1>2. request \in Asked /\ Established(request)
  BY <1>1 DEF Isolated, Routes!NoRequest
<1>3. u \in Routes!Caller /\ id \in Transfer /\ owner[id] = u.inst
  BY <1>1, <1>2 DEF Asked, Established, Routes!authorizeTransfer
<1>4. request.route \in {"detail"} \cup Routes!Lists
  BY <1>1, <1>2 DEF Asked, Established, Reached, Routes!Route
<1>5. u.client => request.route \in {"detail", "parties"}
  BY <1>1, <1>2 DEF Established, Reached
<1>6. \A x \in sent : x \in routesRows /\ x.transfer = id
  BY <1>4 DEF Routes!Listed, Routes!TransferDetail, Routes!Parties, Routes!Milestones,
     Routes!Activity, Routes!Documents, Routes!Financials,
              Routes!EstateContexts, Routes!Representatives, Routes!Properties, Routes!OfInst, Routes!Of, Routes!Lists
<1>7. \A x \in sent : x.inst = u.inst
  <2>1. CASE request.route \in {"documents", "financials"}
    <3>1. \A x \in sent : x.table \in {"documents", "financials"}
      BY <2>1 DEF Routes!Listed, Routes!Documents, Routes!Financials, Routes!Of
    <3>2. \A x \in routesRows : x.table \in Routes!Anchored \ {"relationships"} => x.inst = owner[x.transfer]
      BY DEF Isolated, RowsAnchored
    <3>. QED  BY <3>1, <3>2, <1>3, <1>6 DEF Routes!Anchored
  <2>2. CASE request.route \notin {"documents", "financials"}
    BY <1>4, <2>2 DEF Routes!Listed, Routes!TransferDetail, Routes!Parties,
       Routes!Milestones, Routes!Activity,
              Routes!EstateContexts, Routes!Representatives, Routes!Properties, Routes!OfInst, Routes!Of, Routes!Lists
  <2>. QED  BY <2>1, <2>2
<1>8. u.client => \A x \in sent : x.table = "parties" /\ x.who = u.golden
  BY <1>5 DEF Routes!Listed, Routes!TransferDetail, Routes!Parties, Routes!OfInst, Routes!Of
<1>9. \A x \in sent : /\ owner[x.transfer] = u.inst /\ x.inst = u.inst
                      /\ u.client => x.table = "parties" /\ x.who = u.golden
  BY <1>3, <1>6, <1>7, <1>8
<1>. HIDE DEF sent
<1>. QED  BY <1>1, <1>9, AnswerIsolated

LEMMA ReadItemIsolated ==
    ASSUME Routes!None \notin Inst, Malformed \notin Transfer, Isolated, Routes!ReadItem
    PROVE  Isolated'
<1> DEFINE u == request.user
           id == request.id
           all == IF request.route = "estateContext" THEN Routes!EstateContext(u, id) ELSE Routes!Representative(u, id)
<1>1. request.pc = "rows" /\ request.route \in Routes!Items /\ UNCHANGED <<owner, routesRows>>
  BY DEF Routes!ReadItem
<1>2. request \in Asked /\ Established(request)
  BY <1>1 DEF Isolated, Routes!NoRequest
<1>3. owner[id] = u.inst /\ ~u.client
  BY <1>1, <1>2, CallerFields DEF Asked, Established, Reached, Routes!authorizeTransfer,
     Routes!Items
<1>4. CASE \E x \in all : Routes!Say(200, {x})
  <2>1. PICK x \in all : Routes!Say(200, {x})
    BY <1>4
  <2>2. x.transfer = id /\ x.inst = u.inst
    BY <2>1 DEF Routes!EstateContext, Routes!Representative, Routes!EstateContexts,
       Routes!Representatives, Routes!OfInst, Routes!Of
  <2>. QED  BY <1>1, <1>3, <2>1, <2>2, AnswerIsolated
<1>5. CASE Routes!Say(404, {})
  BY <1>1, <1>5, RefusalIsolated DEF Reached
<1>. QED  BY <1>4, <1>5 DEF Routes!ReadItem

LEMMA ReadRelationshipsIsolated ==
    ASSUME Routes!None \notin Inst, Malformed \notin Transfer, Isolated,
           Routes!ReadRelationships
    PROVE  Isolated'
<1> DEFINE u == request.user
           id == request.id
           sent == Routes!PartyRelationships(request.party)
<1>1. /\ request.pc = "rows" /\ request.route \in Routes!OfParty
      /\ Routes!Say(200, sent) /\ UNCHANGED <<owner, routesRows>>
  BY DEF Routes!ReadRelationships
<1>2. request \in Asked /\ Established(request)
  BY <1>1 DEF Isolated, Routes!NoRequest
<1>3. /\ owner[id] = u.inst /\ ~u.client
      /\ request.party.transfer = id /\ request.party.inst = u.inst
  BY <1>1, <1>2, CallerFields
  DEF Asked, Established, Reached, Routes!authorizeTransfer, Routes!authorizeTransferParty, Routes!OfParty
<1>4. \A x \in sent : x.transfer = id /\ x.inst = u.inst
  <2>. SUFFICES ASSUME NEW x \in sent
                PROVE  x.transfer = id /\ x.inst = u.inst
    OBVIOUS
  <2>1. x \in Routes!Row /\ Routes!Party(x) = request.party
    BY DEF Routes!PartyRelationships, Isolated
  <2>2. Routes!Party(x).transfer = x.transfer /\ Routes!Party(x).inst = x.inst
    BY <2>1 DEF Routes!Party, Routes!Row
  <2>. QED  BY <1>3, <2>1, <2>2
<1>5. \A x \in sent : /\ owner[x.transfer] = u.inst /\ x.inst = u.inst
                      /\ u.client => x.table = "parties" /\ x.who = u.golden
  BY <1>3, <1>4
<1>. HIDE DEF sent
<1>. QED  BY <1>1, <1>5, AnswerIsolated

\* A request that goes on to its next statement.
LEMMA ContinueIsolated ==
    ASSUME Isolated, request.pc \in Reached, NEW pc \in {"party", "rows"},
           request' = [request EXCEPT !.pc = pc], UNCHANGED <<owner, routesRows, routesAnswer>>,
           Routes!authorizeTransfer(request.user, request.id),
           pc = "party" => request.route \in Routes!OfParty,
           pc = "rows" /\ request.route \in Routes!OfParty =>
               Routes!authorizeTransferParty(request.user, request.id, request.party)
    PROVE  Isolated'
<1>1. request \in Asked /\ Established(request) /\ routesAnswer = Routes!NoAnswer
  BY DEF Isolated, Routes!NoRequest, Reached
<1>2. /\ request' \in Asked /\ request'.pc = pc /\ request'.route = request.route
      /\ request'.user = request.user /\ request'.id = request.id /\ request'.party = request.party
  BY <1>1 DEF Asked, Routes!Pending
<1>3. Established(request)'
  BY <1>1, <1>2 DEF Established, Reached, Routes!authorizeTransfer,
     Routes!authorizeTransferParty
<1>4. (Routes!ReadIsolation /\ Routes!ForeignLooksMissing)'
  BY <1>1, <1>2 DEF Routes!ReadIsolation, Routes!ForeignLooksMissing, Routes!NoAnswer
<1>. QED  BY <1>1, <1>2, <1>3, <1>4 DEF Isolated, RowsAnchored

LEMMA AuthorizeIsolated ==
    ASSUME Isolated, Routes!Authorize
    PROVE  Isolated'
<1>1. request.pc = "authorize" /\ UNCHANGED <<owner, routesRows>>
  BY DEF Routes!Authorize
<1>2. CASE Routes!Say(404, {})
  BY <1>1, <1>2, RefusalIsolated DEF Reached
<1>3. CASE /\ Routes!authorizeTransfer(request.user, request.id) /\ UNCHANGED routesAnswer
           /\ request' = [request EXCEPT !.pc = IF request.route \in Routes!OfParty THEN "party" ELSE "rows"]
  BY <1>1, <1>3, ContinueIsolated DEF Reached
<1>. QED  BY <1>2, <1>3 DEF Routes!Authorize

LEMMA AuthorizePartyIsolated ==
    ASSUME Isolated, Routes!AuthorizeParty
    PROVE  Isolated'
<1>1. request.pc = "party" /\ UNCHANGED <<owner, routesRows>>
  BY DEF Routes!AuthorizeParty
<1>2. Routes!authorizeTransfer(request.user, request.id)
  BY <1>1 DEF Isolated, Routes!NoRequest, Established
<1>3. CASE Routes!Say(404, {})
  BY <1>1, <1>3, RefusalIsolated DEF Reached
<1>4. CASE /\ Routes!authorizeTransferParty(request.user, request.id, request.party)
           /\ request' = [request EXCEPT !.pc = "rows"] /\ UNCHANGED routesAnswer
  BY <1>1, <1>2, <1>4, ContinueIsolated DEF Reached
<1>. QED  BY <1>3, <1>4 DEF Routes!AuthorizeParty

LEMMA ProxyIsolated ==
    ASSUME Isolated, Routes!proxyDeedly
    PROVE  Isolated'
<1>1. PICK s \in {200, 403, 404, 503} : Routes!Say(s, {})
  BY DEF Routes!proxyDeedly
<1>2. /\ request \in Asked /\ request.pc = "upstream" /\ request.route \in Routes!Forward
      /\ UNCHANGED <<owner, routesRows>>
  BY DEF Routes!proxyDeedly, Isolated, Routes!NoRequest, Established
<1>3. /\ request' \in Asked /\ request'.pc = "done" /\ request'.route = request.route
      /\ routesAnswer'.rows = {}
  BY <1>1, <1>2 DEF Routes!Say, Asked
<1>4. Established(request)'
  BY <1>3 DEF Established, Reached
<1>5. (Routes!ReadIsolation /\ Routes!ForeignLooksMissing)'
  BY <1>2, <1>3 DEF Routes!ReadIsolation, Routes!ForeignLooksMissing
<1>. QED  BY <1>2, <1>3, <1>4, <1>5 DEF Isolated, RowsAnchored

LEMMA QueryFailsIsolated ==
    ASSUME Isolated, Routes!QueryFails
    PROVE  Isolated'
BY RefusalIsolated DEF Routes!QueryFails, Reached

LEMMA NextIsolated ==
    ASSUME Routes!None \notin Inst, Malformed \notin Transfer, Isolated,
           [Routes!Next]_(Routes!vars)
    PROVE  Isolated'
<1>1. CASE \E t \in Transfer, i \in Inst : Routes!CreateTransfer(t, i)
  BY <1>1, CreateTransferIsolated
<1>2. CASE \E row \in Routes!Row : Routes!InsertRow(row)
  BY <1>2, InsertRowIsolated
<1>3. CASE \E r \in Routes!Route, u \in Routes!Caller, id \in Transfer \cup {Malformed} :
             \E party \in Routes!Parameter(r) : Routes!Receive(r, u, id, party)
  BY <1>3, ReceiveIsolated
<1>4. CASE Routes!Authorize
  BY <1>4, AuthorizeIsolated
<1>5. CASE Routes!AuthorizeParty
  BY <1>5, AuthorizePartyIsolated
<1>6. CASE Routes!ReadRows
  BY <1>6, ReadRowsIsolated
<1>7. CASE Routes!ReadRelationships
  BY <1>7, ReadRelationshipsIsolated
<1>8. CASE Routes!ReadItem
  BY <1>8, ReadItemIsolated
<1>9. CASE Routes!proxyDeedly
  BY <1>9, ProxyIsolated
<1>10. CASE Routes!QueryFails
  BY <1>10, QueryFailsIsolated
<1>11. CASE UNCHANGED Routes!vars
  BY <1>11 DEF Routes!vars, Isolated, RowsAnchored, Established, Routes!authorizeTransfer,
               Routes!authorizeTransferParty, Routes!ReadIsolation, Routes!ForeignLooksMissing, Routes!Hidden, Routes!Of
<1>. QED  BY <1>1, <1>2, <1>3, <1>4, <1>5, <1>6, <1>7, <1>8, <1>9, <1>10, <1>11, Zenon
             DEF Routes!Next

\* Whatever others commit between its statements, a matter route sends rows of the
\* caller's institution only, and a client none but its own party row.
THEOREM MatterRoutesReadIsolation ==
    ASSUME Routes!None \notin Inst, Malformed \notin Transfer
    PROVE  Routes!Spec => []Routes!ReadIsolation
<1>1. Isolated => Routes!ReadIsolation
  BY DEF Isolated
<1>. QED  BY <1>1, InitIsolated, NextIsolated, PTL DEF Routes!Spec

\* A transfer or a party the caller must not know of is answered like one that does not
\* exist, also when it comes into being between two statements of the handler.
THEOREM MatterRoutesForeignLooksMissing ==
    ASSUME Routes!None \notin Inst, Malformed \notin Transfer
    PROVE  Routes!Spec => []Routes!ForeignLooksMissing
<1>1. Isolated => Routes!ForeignLooksMissing
  BY DEF Isolated
<1>. QED  BY <1>1, InitIsolated, NextIsolated, PTL DEF Routes!Spec

-----------------------------------------------------------------------------

\* The number of elements of a set is that of its definition.
LEMMA RoutesCardinality == \A S : Routes!Cardinality(S) = Cardinality(S)
BY DEF Routes!Cardinality, Cardinality

\* What a handler has in hand and what it has answered.
Answered ==
    /\ request # Routes!NoRequest => request \in Asked /\ request.party \in Routes!Parameter(request.route)
    /\ routesAnswer # Routes!NoAnswer => routesAnswer.status \in Routes!Status /\ routesAnswer.rows \subseteq routesRows
    /\ routesAnswer # Routes!NoAnswer <=> request.pc = "done"
    /\ IsFiniteSet(routesRows) /\ Cardinality(routesRows) <= MaxRows

LEMMA SayAnswered ==
    ASSUME Isolated, Answered, request.pc \in Routes!Pending, NEW status \in Routes!Status,
           NEW sent, sent \subseteq routesRows,
           Routes!Say(status, sent), routesRows' = routesRows
    PROVE  Answered'
<1>1. request # Routes!NoRequest
  BY DEF Routes!NoRequest, Routes!Pending
<1>2. request \in Asked
  BY <1>1 DEF Answered
<1>3. /\ request' \in Asked /\ request'.pc = "done" /\ request'.party = request.party
      /\ request'.route = request.route
  BY <1>2 DEF Routes!Say, Asked
<1>4. routesAnswer' = [status |-> status, rows |-> sent] /\ routesAnswer' # Routes!NoAnswer
  BY DEF Routes!Say, Routes!Status, Routes!NoAnswer
<1>. QED
  BY <1>1, <1>3, <1>4 DEF Answered

LEMMA GateStatus ==
    ASSUME NEW r, NEW u, NEW id, Routes!Gate(r, u, id) # 0
    PROVE  Routes!Gate(r, u, id) \in Routes!Status
BY DEF Routes!Gate, Routes!ClientGate, Routes!ListGate, Routes!StaffGate,
   Routes!denyClientWrite, Routes!Status

LEMMA NextAnswered ==
    ASSUME MaxRows \in Nat, Isolated, Answered, [Routes!Next]_(Routes!vars)
    PROVE  Answered'
<1>1. ASSUME NEW t \in Transfer, NEW i \in Inst, Routes!CreateTransfer(t, i) PROVE Answered'
  BY <1>1 DEF Routes!CreateTransfer, Answered
<1>2. ASSUME NEW row \in Routes!Row, Routes!InsertRow(row) PROVE Answered'
  <2>1. /\ IsFiniteSet(routesRows) /\ Cardinality(routesRows) < MaxRows
        /\ routesRows' = routesRows \cup {row} /\ UNCHANGED <<request, routesAnswer>>
    BY RoutesCardinality, <1>2 DEF Routes!InsertRow, Answered
  <2>2. IsFiniteSet(routesRows') /\ Cardinality(routesRows') <= MaxRows
    BY <2>1, FS_AddElement, FS_CardinalityType
  <2>. QED
    BY <2>1, <2>2 DEF Answered
<1>3. ASSUME NEW r \in Routes!Route, NEW u \in Routes!Caller,
             NEW id \in Transfer \cup {Malformed},
             NEW party \in Routes!Parameter(r), Routes!Receive(r, u, id, party)
      PROVE  Answered'
  <2>1. party \in Routes!Row \cup {Routes!None}
    BY DEF Routes!Parameter
  <2>2. PICK q : q = [pc |-> "idle", route |-> r, user |-> u, id |-> id, party |-> party]
    OBVIOUS
  <2>3. PICK g : g = Routes!Gate(r, u, id)
    OBVIOUS
  <2>4. request = Routes!NoRequest /\ routesRows' = routesRows /\ routesAnswer = Routes!NoAnswer
    BY <1>3 DEF Routes!Receive, Answered, Routes!NoRequest
  <2>5. CASE g # 0 /\ request' = [q EXCEPT !.pc = "done"] /\ routesAnswer' = [status |-> g, rows |-> {}]
    <3>1. request' \in Asked /\ request'.pc = "done" /\ request'.party = party /\ request'.route = r
      BY <2>1, <2>2, <2>5 DEF Asked
    <3>2. /\ routesAnswer'.status \in Routes!Status /\ routesAnswer'.rows = {}
          /\ routesAnswer' # Routes!NoAnswer
      BY <2>3, <2>5, GateStatus DEF Routes!NoAnswer
    <3>. QED
      BY <2>4, <3>1, <3>2 DEF Answered
  <2>6. CASE /\ g = 0 /\ routesAnswer' = routesAnswer
             /\ request' = [q EXCEPT !.pc = IF r \in Routes!Forward THEN "upstream" ELSE "authorize"]
    <3>1. request' \in Asked /\ request'.pc # "done" /\ request'.party = party /\ request'.route = r
      BY <2>1, <2>2, <2>6 DEF Asked, Routes!Pending
    <3>. QED
      BY <2>4, <2>6, <3>1 DEF Answered
  <2>. QED
    BY <1>3, <2>2, <2>3, <2>5, <2>6 DEF Routes!Receive
<1>4. ASSUME NEW to \in Routes!Pending, request.pc \in Routes!Pending,
             request' = [request EXCEPT !.pc = to],
             UNCHANGED <<routesRows, routesAnswer>>
      PROVE  Answered'
  <2>1. request # Routes!NoRequest /\ request \in Asked
    BY <1>4 DEF Routes!NoRequest, Routes!Pending, Answered
  <2>2. /\ request' \in Asked /\ request'.pc = to /\ request'.party = request.party
        /\ request'.route = request.route
    BY <1>4, <2>1 DEF Asked
  <2>. QED
    BY <1>4, <2>1, <2>2 DEF Answered, Routes!Pending
<1>5. ASSUME NEW status \in Routes!Status, Routes!Say(status, {}),
             request.pc \in Routes!Pending, routesRows' = routesRows PROVE Answered'
  BY <1>5, SayAnswered
<1>6. CASE Routes!Authorize
  BY <1>4, <1>5, <1>6 DEF Routes!Authorize, Routes!Pending, Routes!Status
<1>7. CASE Routes!AuthorizeParty
  BY <1>4, <1>5, <1>7 DEF Routes!AuthorizeParty, Routes!Pending, Routes!Status
<1>8. CASE Routes!ReadRows
  <2>1. /\ request.pc = "rows" /\ request.route \notin Routes!Items \cup Routes!OfParty
        /\ routesRows' = routesRows
        /\ Routes!Say(200, Routes!Listed(request.route, request.user, request.id))
    BY <1>8 DEF Routes!ReadRows
  <2>2. request.route \in {"detail"} \cup Routes!Lists
    <3>1. request # Routes!NoRequest
      BY <2>1 DEF Routes!NoRequest
    <3>2. request.route \in Routes!Route /\ request.route \notin Routes!Forward
      BY <2>1, <3>1 DEF Isolated, Established, Reached, Asked
    <3>. QED
      BY <2>1, <3>2 DEF Routes!Route
  <2>3. Routes!Listed(request.route, request.user, request.id) \subseteq routesRows
    BY <2>2 DEF Routes!Lists, Routes!Listed, Routes!TransferDetail, Routes!Parties,
       Routes!Milestones, Routes!Activity, Routes!Documents, Routes!Financials,
                Routes!EstateContexts, Routes!Representatives, Routes!Properties, Routes!OfInst, Routes!Of
  <2>. QED
    BY <2>1, <2>3, SayAnswered DEF Routes!Pending, Routes!Status
<1>9. CASE Routes!ReadRelationships
  <2>1. Routes!PartyRelationships(request.party) \subseteq routesRows
    BY DEF Routes!PartyRelationships
  <2>. QED
    BY <1>9, <2>1, SayAnswered DEF Routes!ReadRelationships, Routes!Pending, Routes!Status
<1>10. CASE Routes!ReadItem
  <2>1. /\ request.pc = "rows" /\ routesRows' = routesRows
        /\ \/ \E x \in routesRows : Routes!Say(200, {x})
           \/ Routes!Say(404, {})
    BY <1>10 DEF Routes!ReadItem, Routes!EstateContext, Routes!Representative,
       Routes!EstateContexts, Routes!Representatives, Routes!OfInst, Routes!Of
  <2>2. ASSUME NEW x \in routesRows, Routes!Say(200, {x}) PROVE Answered'
    BY <2>1, <2>2, SayAnswered DEF Routes!Pending, Routes!Status
  <2>. QED
    BY <1>5, <2>1, <2>2 DEF Routes!Pending, Routes!Status
<1>11. CASE Routes!proxyDeedly
  BY <1>5, <1>11 DEF Routes!proxyDeedly, Routes!Pending, Routes!Status
<1>12. CASE Routes!QueryFails
  BY <1>5, <1>12 DEF Routes!QueryFails, Routes!Pending, Routes!Status
<1>13. CASE UNCHANGED Routes!vars
  BY <1>13 DEF Routes!vars, Answered
<1>. QED
  BY <1>1, <1>2, <1>3, <1>6, <1>7, <1>8, <1>9, <1>10, <1>11, <1>12, <1>13 DEF Routes!Next

\* A request has one of the documented answers once it is done, and none before.
THEOREM MatterRoutesTypeOK ==
    ASSUME Routes!None \notin Inst, Malformed \notin Transfer, MaxRows \in Nat
    PROVE  Routes!Spec => []Routes!TypeOK
<1>1. Routes!Init => Isolated /\ Answered
  <2>1. Routes!Init => Answered
    BY FS_EmptySet DEF Routes!Init, Answered, Routes!NoRequest
  <2>. QED
    BY <2>1, InitIsolated
<1>2. (Isolated /\ Answered) /\ [Routes!Next]_(Routes!vars) => (Isolated /\ Answered)'
  BY NextIsolated, NextAnswered
<1>3. Isolated /\ Answered => Routes!TypeOK
  BY RoutesCardinality DEF Isolated, Answered, Asked, Routes!TypeOK
<1>. QED
  BY <1>1, <1>2, <1>3, PTL DEF Routes!Spec

-----------------------------------------------------------------------------
(***************************************************************************)
(* Relationships of parties, for any number of requests, parties and codes.*)
(* What stands must be explained by its request after the checks are long  *)
(* over, so the invariant ties every row, committed or not, to the request *)
(* that inserted it, and says what each statement of a request has found.  *)
(***************************************************************************)
Handlers ==
    {[pc |-> "idle"]} \cup [pc: Relationships!Running, party: Party, code: Code]
        \cup [pc: {"done"}, party: Party, code: Code, status: Relationships!Answers]

RelationshipsTyped ==
    /\ relationshipsDefinition \in [Code -> {"active", "inactive", "missing"}]
    /\ assigned \subseteq Relationships!Row /\ relationshipsOpen \subseteq Relationships!Row
    /\ relationshipsPost \in [Request -> Handlers]
    /\ offered \in [Request -> SUBSET Code]

\* A committed row is its request's, which has ended; an open one is the row of a
\* request that is about to commit.
RowsOfRequests ==
    /\ \A r \in assigned : Relationships!At(r.by, "done") /\ r = Relationships!New(r.by)
    /\ \A r \in relationshipsOpen : Relationships!At(r.by, "commit") /\ r = Relationships!New(r.by)
    /\ \A q \in Request : Relationships!At(q, "commit") => Relationships!New(q) \in relationshipsOpen

\* No key twice, whoever has committed.
KeysDistinct == \A r, s \in assigned \cup relationshipsOpen : Relationships!Key(r) = Relationships!Key(s) => r = s

\* What the statements behind a request have checked.
Checked ==
    \A q \in Request :
        /\ Relationships!Busy(q) => {d \in Code : relationshipsDefinition[d] = "active"} \subseteq offered[q]
        /\ relationshipsPost[q].pc \in {"definition", "insert", "commit"} => relationshipsPost[q].party \notin OtherParty
        /\ relationshipsPost[q].pc \in {"insert", "commit"} => relationshipsPost[q].code \in offered[q]

RelationshipsInv ==
    /\ RelationshipsTyped /\ RowsOfRequests /\ KeysDistinct /\ Checked
    /\ Relationships!AssignmentsExplained

-----------------------------------------------------------------------------

LEMMA RelationshipsInit == ASSUME Relationships!Init PROVE RelationshipsInv
BY DEF Relationships!Init, RelationshipsInv, RelationshipsTyped, Handlers, RowsOfRequests,
   KeysDistinct, Checked,
       Relationships!AssignmentsExplained, Relationships!At, Relationships!Busy, Relationships!Running

\* A request is busy with its party and its code.
LEMMA RelationshipsBusy ==
    ASSUME RelationshipsInv, NEW q \in Request, Relationships!Busy(q)
    PROVE  /\ relationshipsPost[q] \in [pc: Relationships!Running, party: Party, code: Code]
           /\ Relationships!New(q) \in Relationships!Row
BY DEF RelationshipsInv, RelationshipsTyped, Handlers, Relationships!Busy,
   Relationships!Running, Relationships!New, Relationships!Row

\* The next statement keeps a request's party and code.
LEMMA RelationshipsGoto ==
    ASSUME RelationshipsInv, NEW q \in Request, Relationships!Busy(q),
           NEW pc \in Relationships!Running, Relationships!Goto(q, pc)
    PROVE  /\ relationshipsPost' \in [Request -> Handlers]
           /\ relationshipsPost'[q].pc = pc
           /\ relationshipsPost'[q].party = relationshipsPost[q].party
           /\ relationshipsPost'[q].code = relationshipsPost[q].code
           /\ \A p \in Request \ {q} : relationshipsPost'[p] = relationshipsPost[p]
<1>1. relationshipsPost[q] \in [pc: Relationships!Running, party: Party, code: Code]
  BY RelationshipsBusy
<1>2. relationshipsPost \in [Request -> Handlers]
  BY DEF RelationshipsInv, RelationshipsTyped
<1>3. [relationshipsPost[q] EXCEPT !.pc = pc] \in [pc: Relationships!Running, party: Party, code: Code]
  BY <1>1
<1>4. relationshipsPost' = [relationshipsPost EXCEPT ![q] = [relationshipsPost[q] EXCEPT !.pc = pc]]
  BY DEF Relationships!Goto
<1>. QED
  BY <1>1, <1>2, <1>3, <1>4 DEF Handlers

\* So does the answer.
LEMMA RelationshipsAnswer ==
    ASSUME RelationshipsInv, NEW q \in Request, Relationships!Busy(q),
           NEW s \in Relationships!Answers, Relationships!Answer(q, s)
    PROVE  /\ relationshipsPost' \in [Request -> Handlers]
           /\ relationshipsPost'[q].pc = "done" /\ relationshipsPost'[q].status = s
           /\ relationshipsPost'[q].party = relationshipsPost[q].party
           /\ relationshipsPost'[q].code = relationshipsPost[q].code
           /\ \A p \in Request \ {q} : relationshipsPost'[p] = relationshipsPost[p]
<1>1. relationshipsPost[q] \in [pc: Relationships!Running, party: Party, code: Code]
  BY RelationshipsBusy
<1>2. relationshipsPost \in [Request -> Handlers]
  BY DEF RelationshipsInv, RelationshipsTyped
<1>. DEFINE h == [pc |-> "done", party |-> relationshipsPost[q].party, code |-> relationshipsPost[q].code, status |-> s]
<1>3. h \in [pc: {"done"}, party: Party, code: Code, status: Relationships!Answers]
  BY <1>1
<1>4. relationshipsPost' = [relationshipsPost EXCEPT ![q] = h]
  BY DEF Relationships!Answer
<1>. QED
  BY <1>2, <1>3, <1>4 DEF Handlers

\* A request that stores no row and is not about to commit one.
Elsewise(q) ==
    /\ relationshipsPost' \in [Request -> Handlers]
    /\ \A p \in Request \ {q} : relationshipsPost'[p] = relationshipsPost[p]
    /\ UNCHANGED <<assigned, relationshipsOpen>>
    /\ ~Relationships!At(q, "commit") /\ ~Relationships!At(q, "done")

LEMMA RelationshipsKeepRows ==
    ASSUME RelationshipsInv, NEW q \in Request, Elsewise(q),
           relationshipsPost'[q].pc # "commit"
    PROVE  RowsOfRequests' /\ KeysDistinct'
<1>1. \A r \in assigned \cup relationshipsOpen : r.by \in Request /\ r.by # q
  BY DEF RelationshipsInv, RelationshipsTyped, RowsOfRequests, Elsewise, Relationships!At,
     Relationships!Row
<1>2. \A p \in Request \ {q} : Relationships!New(p)' = Relationships!New(p)
  BY DEF Relationships!New, Elsewise
<1>. QED
  BY <1>1, <1>2 DEF RelationshipsInv, RowsOfRequests, KeysDistinct, Elsewise,
     Relationships!At, Relationships!Key

\* A request answers that nothing was stored for it.
LEMMA RelationshipsRefuse ==
    ASSUME RelationshipsInv, NEW q \in Request, Relationships!Busy(q), ~Relationships!At(q, "commit"), NEW s \in Relationships!Answers \ {201},
           Relationships!Answer(q, s), UNCHANGED <<relationshipsDefinition, assigned, relationshipsOpen, offered>>,
           s = 409 => \E r \in assigned : Relationships!Key(r) = Relationships!Key(Relationships!New(q)) /\ r.by # q
    PROVE  RelationshipsInv'
<1>1. /\ relationshipsPost' \in [Request -> Handlers]
      /\ relationshipsPost'[q].pc = "done" /\ relationshipsPost'[q].status = s
      /\ relationshipsPost'[q].party = relationshipsPost[q].party
      /\ relationshipsPost'[q].code = relationshipsPost[q].code
      /\ \A p \in Request \ {q} : relationshipsPost'[p] = relationshipsPost[p]
  BY RelationshipsAnswer
<1>2. RowsOfRequests' /\ KeysDistinct'
  BY <1>1, RelationshipsKeepRows DEF Elsewise, Relationships!At, Relationships!Busy,
     Relationships!Running
<1>3. RelationshipsTyped' /\ Checked'
  BY <1>1 DEF RelationshipsInv, RelationshipsTyped, Checked, Relationships!Busy,
     Relationships!Running
<1>4. \A p \in Request : p # q => Relationships!New(p)' = Relationships!New(p)
  BY <1>1 DEF Relationships!New
<1>5. Relationships!New(q)' = Relationships!New(q)
  BY <1>1 DEF Relationships!New
<1>6. Relationships!AssignmentsExplained'
  BY <1>1, <1>4, <1>5 DEF RelationshipsInv, Relationships!AssignmentsExplained,
     Relationships!At, Relationships!Key
<1>. QED
  BY <1>2, <1>3, <1>6 DEF RelationshipsInv

\* A request goes on to its next check with what it found.
LEMMA RelationshipsProceed ==
    ASSUME RelationshipsInv, NEW q \in Request, Relationships!Busy(q), ~Relationships!At(q, "commit"),
           NEW pc \in {"party", "definition", "insert"}, Relationships!Goto(q, pc),
           UNCHANGED <<relationshipsDefinition, assigned, relationshipsOpen, offered>>,
           pc \in {"definition", "insert"} => relationshipsPost[q].party \notin OtherParty,
           pc = "insert" => relationshipsPost[q].code \in offered[q]
    PROVE  RelationshipsInv'
<1>1. /\ relationshipsPost' \in [Request -> Handlers]
      /\ relationshipsPost'[q].pc = pc /\ relationshipsPost'[q].party = relationshipsPost[q].party
      /\ relationshipsPost'[q].code = relationshipsPost[q].code
      /\ \A p \in Request \ {q} : relationshipsPost'[p] = relationshipsPost[p]
  BY RelationshipsGoto DEF Relationships!Running
<1>2. RowsOfRequests' /\ KeysDistinct'
  BY <1>1, RelationshipsKeepRows DEF Elsewise, Relationships!At, Relationships!Busy,
     Relationships!Running
<1>3. RelationshipsTyped' /\ Checked'
  BY <1>1 DEF RelationshipsInv, RelationshipsTyped, Checked, Relationships!Busy,
     Relationships!Running
<1>4. \A p \in Request : p # q => Relationships!New(p)' = Relationships!New(p)
  BY <1>1 DEF Relationships!New
<1>6. Relationships!AssignmentsExplained'
  BY <1>1, <1>4 DEF RelationshipsInv, Relationships!AssignmentsExplained, Relationships!At,
     Relationships!Key
<1>. QED
  BY <1>2, <1>3, <1>6 DEF RelationshipsInv

-----------------------------------------------------------------------------

LEMMA RelationshipsDefine ==
    ASSUME RelationshipsInv, NEW c \in Code, NEW to \in {"active", "inactive", "missing"},
           Relationships!Define(c, to)
    PROVE  RelationshipsInv'
<1>. relationshipsDefinition \in [Code -> {"active", "inactive", "missing"}] /\ offered \in [Request -> SUBSET Code]
  BY DEF RelationshipsInv, RelationshipsTyped
<1>1. \A q \in Request : offered[q] \subseteq offered'[q] /\ offered'[q] \subseteq Code
  BY DEF Relationships!Define
<1>2. RelationshipsTyped'
  BY <1>1 DEF RelationshipsInv, RelationshipsTyped, Relationships!Define
<1>3. RowsOfRequests' /\ KeysDistinct'
  BY DEF RelationshipsInv, RowsOfRequests, KeysDistinct, Relationships!Define,
     Relationships!At, Relationships!New, Relationships!Key
<1>4. Checked'
  <2>1. \A q \in Request : Relationships!Busy(q) =>
           {d \in Code : relationshipsDefinition'[d] = "active"} \subseteq offered'[q]
    BY DEF RelationshipsInv, Checked, Relationships!Define
  <2>. QED
    BY <1>1, <2>1 DEF RelationshipsInv, Checked, Relationships!Define, Relationships!Busy
<1>5. Relationships!AssignmentsExplained'
  <2>1. \A r \in assigned : r.by \in Request
    BY DEF RelationshipsInv, RelationshipsTyped, Relationships!Row
  <2>. QED
    BY <1>1, <2>1 DEF RelationshipsInv, Relationships!AssignmentsExplained,
       Relationships!Define, Relationships!At, Relationships!New, Relationships!Key
<1>. QED
  BY <1>2, <1>3, <1>4, <1>5 DEF RelationshipsInv

LEMMA RelationshipsBegin ==
    ASSUME RelationshipsInv, NEW q \in Request, NEW p \in Party, NEW c \in Code,
           Relationships!Begin(q, p, c)
    PROVE  RelationshipsInv'
<1>1. /\ relationshipsPost' \in [Request -> Handlers] /\ relationshipsPost'[q].pc = "transfer"
      /\ \A x \in Request \ {q} : relationshipsPost'[x] = relationshipsPost[x]
  BY DEF RelationshipsInv, RelationshipsTyped, Handlers, Relationships!Running,
     Relationships!Begin
<1>2. /\ offered' \in [Request -> SUBSET Code]
      /\ offered'[q] = {d \in Code : relationshipsDefinition[d] = "active"}
      /\ \A x \in Request \ {q} : offered'[x] = offered[x]
  BY DEF RelationshipsInv, RelationshipsTyped, Relationships!Begin
<1>3. RowsOfRequests' /\ KeysDistinct'
  BY <1>1, RelationshipsKeepRows DEF Elsewise, Relationships!At, Relationships!Begin
<1>4. \A r \in assigned : r.by \in Request /\ r.by # q
  BY DEF RelationshipsInv, RelationshipsTyped, RowsOfRequests, Relationships!At,
     Relationships!Row, Relationships!Begin
<1>5. \A x \in Request : x # q => Relationships!New(x)' = Relationships!New(x)
  BY <1>1 DEF Relationships!New
<1>6. RelationshipsTyped' /\ Checked'
  BY <1>1, <1>2 DEF RelationshipsInv, RelationshipsTyped, Checked, Relationships!Begin,
     Relationships!Busy
<1>7. Relationships!AssignmentsExplained'
  BY <1>1, <1>2, <1>4, <1>5 DEF RelationshipsInv, Relationships!AssignmentsExplained,
     Relationships!Begin, Relationships!At, Relationships!Key
<1>. QED
  BY <1>3, <1>6, <1>7 DEF RelationshipsInv

LEMMA RelationshipsInsert ==
    ASSUME RelationshipsInv, NEW q \in Request, Relationships!Insert(q)
    PROVE  RelationshipsInv'
<1>1. /\ Relationships!At(q, "insert") /\ Relationships!Busy(q) /\ ~Relationships!At(q, "commit")
      /\ UNCHANGED <<relationshipsDefinition, assigned, offered>>
  BY DEF Relationships!Insert, Relationships!At, Relationships!Busy, Relationships!Running
<1>2. CASE Relationships!Answer(q, 400) /\ UNCHANGED relationshipsOpen
  BY <1>1, <1>2, RelationshipsRefuse DEF Relationships!Answers
<1>3. CASE Relationships!Taken(q) # {} /\ Relationships!Answer(q, 409) /\ UNCHANGED relationshipsOpen
  <2>1. PICK r \in assigned : Relationships!Key(r) = Relationships!Key(Relationships!New(q))
    BY <1>3 DEF Relationships!Taken, Relationships!Insert
  <2>2. r.by # q
    BY <1>1 DEF RelationshipsInv, RowsOfRequests, Relationships!At
  <2>. QED
    BY <1>1, <1>3, <2>1, <2>2, RelationshipsRefuse DEF Relationships!Answers
<1>4. CASE Relationships!Taken(q) = {} /\ relationshipsOpen' = relationshipsOpen \cup {Relationships!New(q)} /\ Relationships!Goto(q, "commit")
  <2>1. /\ relationshipsPost' \in [Request -> Handlers]
        /\ relationshipsPost'[q].pc = "commit"
        /\ relationshipsPost'[q].party = relationshipsPost[q].party
        /\ relationshipsPost'[q].code = relationshipsPost[q].code
        /\ \A p \in Request \ {q} : relationshipsPost'[p] = relationshipsPost[p]
    BY <1>1, <1>4, RelationshipsGoto DEF Relationships!Running
  <2>2. \A p \in Request : Relationships!New(p)' = Relationships!New(p)
    BY <2>1 DEF Relationships!New
  <2>3. Relationships!New(q) \in Relationships!Row /\ Relationships!New(q).by = q
    BY <1>1, RelationshipsBusy DEF Relationships!New
  <2>4. \A r \in assigned \cup relationshipsOpen : r.by \in Request /\ r.by # q
    BY <1>1 DEF RelationshipsInv, RelationshipsTyped, RowsOfRequests, Relationships!At,
       Relationships!Row
  <2>5. RowsOfRequests'
    BY <1>1, <1>4, <2>1, <2>2, <2>3, <2>4 DEF RelationshipsInv, RowsOfRequests,
       Relationships!At
  <2>6. KeysDistinct'
    <3>1. \A r \in assigned \cup relationshipsOpen : Relationships!Key(r) # Relationships!Key(Relationships!New(q))
      BY <1>4 DEF Relationships!Taken
    <3>. QED
      BY <1>1, <1>4, <3>1 DEF RelationshipsInv, KeysDistinct, Relationships!Key
  <2>7. RelationshipsTyped' /\ Checked'
    BY <1>1, <1>4, <2>1, <2>3 DEF RelationshipsInv, RelationshipsTyped, Checked,
       Relationships!Busy, Relationships!Running, Relationships!At
  <2>8. Relationships!AssignmentsExplained'
    BY <1>1, <2>1, <2>2 DEF RelationshipsInv, Relationships!AssignmentsExplained,
       Relationships!At, Relationships!Key
  <2>. QED
    BY <2>5, <2>6, <2>7, <2>8 DEF RelationshipsInv
<1>. QED
  BY <1>2, <1>3, <1>4 DEF Relationships!Insert

LEMMA RelationshipsCommit ==
    ASSUME RelationshipsInv, NEW q \in Request, Relationships!Commit(q)
    PROVE  RelationshipsInv'
<1>1. /\ Relationships!At(q, "commit") /\ Relationships!Busy(q)
      /\ UNCHANGED <<relationshipsDefinition, offered>>
  BY DEF Relationships!Commit, Relationships!At, Relationships!Busy, Relationships!Running
<1>2. PICK s \in {201, 500} : Relationships!Answer(q, s)
  BY DEF Relationships!Commit
<1>3. /\ relationshipsPost' \in [Request -> Handlers] /\ relationshipsPost'[q].pc = "done"
      /\ relationshipsPost'[q].status = s
      /\ relationshipsPost'[q].party = relationshipsPost[q].party
      /\ relationshipsPost'[q].code = relationshipsPost[q].code
      /\ \A p \in Request \ {q} : relationshipsPost'[p] = relationshipsPost[p]
  BY <1>1, <1>2, RelationshipsAnswer DEF Relationships!Answers
<1>4. \A p \in Request : Relationships!New(p)' = Relationships!New(p)
  BY <1>3 DEF Relationships!New
<1>5. /\ Relationships!New(q) \in relationshipsOpen /\ Relationships!New(q) \in Relationships!Row
      /\ Relationships!New(q).by = q
      /\ Relationships!New(q).party \notin OtherParty /\ Relationships!New(q).code \in offered[q]
  BY <1>1 DEF RelationshipsInv, RelationshipsTyped, RowsOfRequests, Checked,
     Relationships!At, Relationships!New
<1>6. /\ assigned' = assigned \cup {Relationships!New(q)}
      /\ relationshipsOpen' = relationshipsOpen \ {Relationships!New(q)}
  BY DEF Relationships!Commit
<1>7. \A r \in relationshipsOpen \ {Relationships!New(q)} : r.by \in Request /\ r.by # q
  BY DEF RelationshipsInv, RelationshipsTyped, RowsOfRequests, Relationships!Row
<1>8. \A r \in assigned : r.by \in Request /\ r.by # q
  BY <1>1 DEF RelationshipsInv, RelationshipsTyped, RowsOfRequests, Relationships!At,
     Relationships!Row
<1>9. RowsOfRequests'
  <2>1. \A p \in Request \ {q} : Relationships!New(p) # Relationships!New(q)
    BY DEF Relationships!New
  <2>. QED
    BY <1>3, <1>4, <1>5, <1>6, <1>7, <1>8, <2>1 DEF RelationshipsInv, RowsOfRequests,
       Relationships!At
<1>10. KeysDistinct'
  <2>1. assigned' \cup relationshipsOpen' = assigned \cup relationshipsOpen
    BY <1>5, <1>6
  <2>. QED
    BY <2>1 DEF RelationshipsInv, KeysDistinct, Relationships!Key
<1>11. RelationshipsTyped' /\ Checked'
  BY <1>1, <1>3, <1>5, <1>6 DEF RelationshipsInv, RelationshipsTyped, Checked,
     Relationships!Busy, Relationships!Running
<1>12. Relationships!AssignmentsExplained'
  <2>1. \A r, t \in assigned' : Relationships!Key(r)' = Relationships!Key(t)' => r = t
    BY <1>10 DEF KeysDistinct
  <2>2. \A r \in assigned' : r.party \notin OtherParty /\ r.code \in offered'[r.by]
    BY <1>1, <1>5, <1>6 DEF RelationshipsInv, Relationships!AssignmentsExplained
  <2>. QED
    BY <1>3, <1>4, <1>6, <2>1, <2>2 DEF RelationshipsInv,
       Relationships!AssignmentsExplained, Relationships!At, Relationships!Key
<1>. QED
  BY <1>9, <1>10, <1>11, <1>12 DEF RelationshipsInv

LEMMA RelationshipsFails ==
    ASSUME RelationshipsInv, NEW q \in Request, Relationships!Fails(q)
    PROVE  RelationshipsInv'
<1>1. /\ Relationships!Busy(q) /\ relationshipsOpen' = relationshipsOpen \ {Relationships!New(q)}
      /\ Relationships!Answer(q, 500) /\ UNCHANGED <<relationshipsDefinition, assigned, offered>>
  BY DEF Relationships!Fails
<1>2. CASE ~Relationships!At(q, "commit")
  <2>1. Relationships!New(q) \notin relationshipsOpen
    BY <1>2 DEF RelationshipsInv, RowsOfRequests, Relationships!New
  <2>. QED
    BY <1>1, <1>2, <2>1, RelationshipsRefuse DEF Relationships!Answers
<1>3. CASE Relationships!At(q, "commit")
  <2>1. /\ relationshipsPost' \in [Request -> Handlers] /\ relationshipsPost'[q].pc = "done"
        /\ relationshipsPost'[q].status = 500
        /\ relationshipsPost'[q].party = relationshipsPost[q].party
        /\ relationshipsPost'[q].code = relationshipsPost[q].code
        /\ \A p \in Request \ {q} : relationshipsPost'[p] = relationshipsPost[p]
    BY <1>1, RelationshipsAnswer DEF Relationships!Answers
  <2>2. \A p \in Request : Relationships!New(p)' = Relationships!New(p)
    BY <2>1 DEF Relationships!New
  <2>3. \A r \in relationshipsOpen \ {Relationships!New(q)} : r.by \in Request /\ r.by # q
    BY DEF RelationshipsInv, RelationshipsTyped, RowsOfRequests, Relationships!Row
  <2>4. \A r \in assigned : r.by \in Request /\ r.by # q
    BY <1>3 DEF RelationshipsInv, RelationshipsTyped, RowsOfRequests, Relationships!At,
       Relationships!Row
  <2>5. RowsOfRequests'
    <3>1. \A p \in Request \ {q} : Relationships!New(p) # Relationships!New(q)
      BY DEF Relationships!New
    <3>. QED
      BY <1>1, <2>1, <2>2, <2>3, <2>4, <3>1 DEF RelationshipsInv, RowsOfRequests,
         Relationships!At
  <2>6. KeysDistinct'
    BY <1>1 DEF RelationshipsInv, KeysDistinct, Relationships!Key
  <2>7. RelationshipsTyped' /\ Checked'
    BY <1>1, <2>1 DEF RelationshipsInv, RelationshipsTyped, Checked, Relationships!Busy,
       Relationships!Running
  <2>8. Relationships!AssignmentsExplained'
    BY <1>1, <2>1, <2>2 DEF RelationshipsInv, Relationships!AssignmentsExplained,
       Relationships!At, Relationships!Key
  <2>. QED
    BY <2>5, <2>6, <2>7, <2>8 DEF RelationshipsInv
<1>. QED
  BY <1>2, <1>3

LEMMA RelationshipsStep ==
    ASSUME RelationshipsInv, [Relationships!Next]_(Relationships!vars)
    PROVE  RelationshipsInv'
<1>1. ASSUME NEW q \in Request, Relationships!authorizeTransfer(q) PROVE RelationshipsInv'
  BY <1>1, RelationshipsProceed, RelationshipsRefuse DEF Relationships!authorizeTransfer,
     Relationships!At, Relationships!Busy, Relationships!Running, Relationships!Answers
<1>2. ASSUME NEW q \in Request,
             Relationships!authorizeTransferParty(q) PROVE RelationshipsInv'
  <2>1. /\ Relationships!Busy(q) /\ ~Relationships!At(q, "commit")
        /\ UNCHANGED <<relationshipsDefinition, assigned, relationshipsOpen, offered>>
    BY <1>2 DEF Relationships!authorizeTransferParty, Relationships!At, Relationships!Busy,
       Relationships!Running
  <2>2. CASE relationshipsPost[q].party \in OtherParty
    BY <1>2, <2>1, <2>2, RelationshipsRefuse DEF Relationships!authorizeTransferParty,
       Relationships!Answers
  <2>3. CASE relationshipsPost[q].party \notin OtherParty
    BY <1>2, <2>1, <2>3, RelationshipsProceed DEF Relationships!authorizeTransferParty
  <2>. QED
    BY <2>2, <2>3
<1>3. ASSUME NEW q \in Request, Relationships!CheckDefinition(q) PROVE RelationshipsInv'
  <2>1. /\ Relationships!Busy(q) /\ ~Relationships!At(q, "commit")
        /\ UNCHANGED <<relationshipsDefinition, assigned, relationshipsOpen, offered>>
        /\ relationshipsPost[q].pc = "definition"
    BY <1>3 DEF Relationships!CheckDefinition, Relationships!At, Relationships!Busy,
       Relationships!Running
  <2>2. CASE relationshipsDefinition[relationshipsPost[q].code] = "active"
    <3>1. relationshipsPost[q].party \notin OtherParty /\ relationshipsPost[q].code \in offered[q]
      BY <2>1, <2>2, RelationshipsBusy DEF RelationshipsInv, Checked
    <3>. QED
      BY <1>3, <2>1, <2>2, <3>1, RelationshipsProceed DEF Relationships!CheckDefinition
  <2>3. CASE relationshipsDefinition[relationshipsPost[q].code] # "active"
    BY <1>3, <2>1, <2>3, RelationshipsRefuse DEF Relationships!CheckDefinition,
       Relationships!Answers
  <2>. QED
    BY <2>2, <2>3
<1>4. CASE UNCHANGED Relationships!vars
  BY <1>4 DEF Relationships!vars, RelationshipsInv, RelationshipsTyped, RowsOfRequests,
     KeysDistinct, Checked,
              Relationships!AssignmentsExplained, Relationships!At, Relationships!New, Relationships!Key, Relationships!Busy
<1>. QED
  BY <1>1, <1>2, <1>3, <1>4, RelationshipsDefine, RelationshipsBegin, RelationshipsInsert,
     RelationshipsCommit, RelationshipsFails DEF Relationships!Next

THEOREM RelationshipsKeep == Relationships!Spec => []RelationshipsInv
BY RelationshipsInit, RelationshipsStep, PTL DEF Relationships!Spec

\* However requests race with each other and with the administration of the codes,
\* every assignment, and every answer about one, is explained by a definition that was
\* active while its request ran and by the row that stands.
THEOREM RelationshipsExplained == Relationships!Spec => []Relationships!AssignmentsExplained
<1>1. RelationshipsInv => Relationships!AssignmentsExplained
  BY DEF RelationshipsInv
<1>. QED
  BY <1>1, RelationshipsKeep, PTL

THEOREM RelationshipsTypeOK == Relationships!Spec => []Relationships!TypeOK
<1>1. RelationshipsInv => Relationships!TypeOK
  BY DEF RelationshipsInv, RelationshipsTyped, Handlers, Relationships!TypeOK
<1>. QED
  BY <1>1, RelationshipsKeep, PTL

-----------------------------------------------------------------------------
(***************************************************************************)
(* Transfers and their matters behind the prototype routes, for any number *)
(* of requests, transfers, matters and properties.  The invariant says what*)
(* each transaction still holds and has found out: a row locked by a       *)
(* deletion is nobody else's until the end, and the matter a request has   *)
(* read is the transfer's as long as the transfer stands, for nothing gives*)
(* a transfer another matter.                                              *)
(***************************************************************************)
\* The rows of the initial state are paired; ids of different tables differ, and so do
\* requests and the transactions that insert below them.
PrototypeAssumption ==
    /\ ExistingReference \subseteq Reference
    /\ matterOf \in [ExistingReference -> MatterId]
    /\ propertyOf \in [ExistingReference -> PropertyId]
    /\ \A t, u \in ExistingReference : matterOf[t] = matterOf[u] => t = u
    /\ Reference \cap MatterId = {} /\ Reference \cap PropertyId = {}
    /\ MatterId \cap PropertyId = {}
    /\ Prototype!None \notin Reference \cup MatterId \cup PropertyId
    /\ Prototype!Unused \notin Reference
    /\ Request \cap Child = {}
    /\ MaxFaults \in Nat

Key == Reference \cup MatterId \cup PropertyId

Txn == [op: {Prototype!None, "post", "put", "delete", "document"} \cup Prototype!Kind,
        pc: {"new", "done", "insert", "commit", "update", "property", "matter", "link", "lock",
             "matterLock", "matterCount", "propertyLock", "propertyCount", "answer"},
        t: Reference \cup {Prototype!None}, matter: MatterId \cup {Prototype!None}, property: PropertyId \cup {Prototype!None},
        holds: SUBSET Key, drop: SUBSET (MatterId \cup PropertyId), updates: BOOLEAN,
        answer: {Prototype!None, "error", "404", "created", "updated", "deleted"}]

LiveRow == [row: {"live"}, matter: MatterId \cup {Prototype!None}, property: PropertyId \cup {Prototype!None}]

PrototypeTyped ==
    /\ transfers \in [Reference -> {Prototype!Absent(Prototype!Unused), Prototype!Absent("deleted")} \cup LiveRow]
    /\ matters \in [MatterId -> Reference \cup {Prototype!None}]
    /\ properties \in [PropertyId -> Reference \cup {Prototype!None, Prototype!Unused}]
    /\ children \subseteq Child \X (MatterId \cup PropertyId) \X Prototype!Kind
    /\ prototypeFaults \in 0..MaxFaults
    /\ prototypeReq \in [Request \cup Child -> Txn]

\* A row is locked by one request; a child's parent by no deletion.
Exclusive ==
    /\ \A r, q \in Request : r # q => prototypeReq[r].holds \cap prototypeReq[q].holds = {}
    /\ \A r \in Request, c \in Child : prototypeReq[r].op = "delete" => prototypeReq[r].holds \cap prototypeReq[c].holds = {}

\* A transaction that inserts a row below a parent deletes nothing, and a document
\* that looks for its matter holds nothing yet.
Below(h) ==
    /\ h.op \in {Prototype!None, "document"} \cup Prototype!Kind /\ h.drop = {}
    /\ h.op = "document" => h.holds = {}

\* Rows below a parent, committed or not, have it.
Parented ==
    /\ \A c \in children : c[2] \in Prototype!Parents
    /\ \A c \in Child : prototypeReq[c].holds \subseteq Prototype!Parents /\ Below(prototypeReq[c])

\* A matter names a transfer there has been.
SourceUsed == \A m \in MatterId : matters[m] # Prototype!None => transfers[matters[m]].row # Prototype!Unused

AfterCount == {"propertyLock", "propertyCount", "answer", "commit"}
AfterLock  == {"matterLock", "matterCount"} \cup AfterCount

\* What a request of the three handlers has found, by where it is.
Stage(h) ==
    /\ h.op \in {"post", "put", "delete"} => h.t \in Reference
    /\ h.op \in {"put", "delete"} => transfers[h.t].row # Prototype!Unused
    /\ h.op = "post" /\ h.pc = "commit" => h.t \in h.holds /\ transfers[h.t].row = Prototype!Unused
    /\ h.op = "put" /\ h.pc = "property" => h.property \in PropertyId
    /\ h.op = "put" /\ h.pc \in {"matter", "link"} /\ h.updates => h.property \in PropertyId
    /\ h.op = "put" /\ h.pc = "link" /\ h.t \in Prototype!Live => Prototype!MattersOf(h.t) = {h.matter}
    /\ h.op = "delete" /\ h.pc \in AfterLock =>
         h.t \in Prototype!Live /\ h.t \in h.holds /\ Prototype!MattersOf(h.t) = {h.matter}
    /\ h.op = "delete" /\ h.pc \in AfterLock \ {"matterLock"} => h.matter \in h.holds
    /\ h.op = "delete" /\ h.pc \in AfterCount => h.matter \in h.drop \/ Prototype!HasChild(h.matter)
    /\ h.op = "delete" /\ h.pc = "propertyCount" => h.property \in h.holds \cap PropertyId
    /\ h.drop \subseteq h.holds /\ (h.drop # {} => h.op = "delete" /\ h.pc \in AfterCount)
    /\ h.drop \subseteq {h.matter} \cup PropertyId /\ \A x \in h.drop : ~Prototype!HasChild(x)

Stages == \A r \in Request : Stage(prototypeReq[r])

PrototypeInv ==
    PrototypeTyped /\ Exclusive /\ Parented /\ SourceUsed /\ Stages /\ Prototype!MatterOfTransfer

-----------------------------------------------------------------------------

LEMMA PrototypeFresh ==
    ASSUME NEW answer \in {Prototype!None, "error", "404", "created", "updated", "deleted"}
    PROVE  /\ Prototype!Fresh \in Txn /\ Prototype!Fresh.op = Prototype!None
           /\ Prototype!Fresh.holds = {} /\ Prototype!Fresh.drop = {}
           /\ [Prototype!Fresh EXCEPT !.pc = "done", !.answer = answer] \in Txn
           /\ [Prototype!Fresh EXCEPT !.pc = "done", !.answer = answer].op = Prototype!None
           /\ [Prototype!Fresh EXCEPT !.pc = "done", !.answer = answer].holds = {}
           /\ [Prototype!Fresh EXCEPT !.pc = "done", !.answer = answer].drop = {}
BY DEF Prototype!Fresh, Txn, Prototype!None, Prototype!Kind

\* An ended request has found nothing and holds nothing.
LEMMA PrototypeIdle ==
    ASSUME NEW h, h.op = Prototype!None, h.drop = {}
    PROVE  Stage(h)
BY DEF Stage, Prototype!None

\* A request takes a step of its own, and no row changes.
LEMMA PrototypeGo ==
    ASSUME PrototypeAssumption, PrototypeInv, UNCHANGED Prototype!tables,
           prototypeFaults' \in 0..MaxFaults,
           NEW r \in Request, NEW h \in Txn, Prototype!Go(r, h), Stage(h),
           \A q \in Request \ {r} : h.holds \cap prototypeReq[q].holds = {},
           h.op = "delete" => \A c \in Child : h.holds \cap prototypeReq[c].holds = {}
    PROVE  PrototypeInv'
<1>. r \notin Child /\ \A c \in Child : c # r /\ c \notin Request
  BY DEF PrototypeAssumption
<1>1. prototypeReq' = [prototypeReq EXCEPT ![r] = h] /\ prototypeReq \in [Request \cup Child -> Txn]
  BY DEF Prototype!Go, PrototypeInv, PrototypeTyped
<1>2. /\ prototypeReq' \in [Request \cup Child -> Txn] /\ prototypeReq'[r] = h
      /\ \A q \in Request \cup Child : q # r => prototypeReq'[q] = prototypeReq[q]
  BY <1>1
<1>3. UNCHANGED <<transfers, matters, properties, children>>
  BY DEF Prototype!tables
<1>4. PrototypeTyped'
  BY <1>2, <1>3 DEF PrototypeInv, PrototypeTyped
<1>5. Exclusive'
  BY <1>2 DEF PrototypeInv, Exclusive
<1>6. Parented'
  BY <1>2, <1>3 DEF PrototypeInv, Parented, Prototype!Parents
<1>7. Stages'
  <2>1. \A q \in Request : Stage(prototypeReq'[q])
    BY <1>2 DEF PrototypeInv, Stages
  <2>2. /\ Prototype!Live' = Prototype!Live
        /\ (\A x : Prototype!HasChild(x)' <=> Prototype!HasChild(x))
        /\ \A x : Prototype!MattersOf(x)' = Prototype!MattersOf(x)
    BY <1>3 DEF Prototype!Live, Prototype!HasChild, Prototype!MattersOf
  <2>. QED
    BY <1>3, <2>1, <2>2 DEF Stages, Stage
<1>8. SourceUsed' /\ Prototype!MatterOfTransfer'
  BY <1>3 DEF PrototypeInv, SourceUsed, Prototype!MatterOfTransfer, Prototype!Live,
     Prototype!MattersOf, Prototype!HasChild
<1>. QED
  BY <1>4, <1>5, <1>6, <1>7, <1>8 DEF PrototypeInv

LEMMA PrototypeEnds ==
    ASSUME PrototypeAssumption, PrototypeInv, UNCHANGED Prototype!tables,
           prototypeFaults' \in 0..MaxFaults,
           NEW r \in Request, NEW answer \in {Prototype!None, "error", "404", "created", "updated", "deleted"},
           Prototype!End(r, answer)
    PROVE  PrototypeInv'
<1>. DEFINE h == [Prototype!Fresh EXCEPT !.pc = "done", !.answer = answer]
<1>1. h \in Txn /\ h.op = Prototype!None /\ h.holds = {} /\ h.drop = {}
  BY PrototypeFresh
<1>2. Prototype!Go(r, h)
  BY DEF Prototype!End
<1>. HIDE DEF h
<1>3. Stage(h)
  BY <1>1, PrototypeIdle
<1>. QED
  BY <1>1, <1>2, <1>3, PrototypeGo DEF Prototype!None

\* What holds of a request as it stands.
LEMMA PrototypeHere ==
    ASSUME PrototypeInv, NEW r \in Request
    PROVE  /\ prototypeReq[r] \in Txn /\ Stage(prototypeReq[r])
           /\ \A q \in Request \ {r} : prototypeReq[r].holds \cap prototypeReq[q].holds = {}
           /\ prototypeReq[r].op = "delete" => \A c \in Child : prototypeReq[r].holds \cap prototypeReq[c].holds = {}
BY DEF PrototypeInv, PrototypeTyped, Exclusive, Stages

\* A row nobody else holds.
LEMMA PrototypeFree ==
    ASSUME NEW r \in Request, NEW x, Prototype!Free(r, x)
    PROVE  \A q \in (Request \cup Child) \ {r} : x \notin prototypeReq[q].holds
BY DEF Prototype!Free, Prototype!Holds

LEMMA PrototypeFreeIds ==
    /\ Prototype!FreeMatters # {} => /\ Prototype!NewId(Prototype!FreeMatters) \in MatterId /\ matters[Prototype!NewId(Prototype!FreeMatters)] = Prototype!None
                                     /\ \A q \in Request : Prototype!NewId(Prototype!FreeMatters) \notin prototypeReq[q].holds
    /\ Prototype!FreeProperties # {} => /\ Prototype!NewId(Prototype!FreeProperties) \in PropertyId
                                        /\ properties[Prototype!NewId(Prototype!FreeProperties)] = Prototype!Unused
                                        /\ \A q \in Request : Prototype!NewId(Prototype!FreeProperties) \notin prototypeReq[q].holds
<1>1. \A S : S # {} => Prototype!NewId(S) \in S
  BY DEF Prototype!NewId
<1>2. Prototype!FreeMatters # {} => Prototype!NewId(Prototype!FreeMatters) \in Prototype!FreeMatters
  BY <1>1
<1>3. Prototype!FreeProperties # {} => Prototype!NewId(Prototype!FreeProperties) \in Prototype!FreeProperties
  BY <1>1
<1>4. \A m \in Prototype!FreeMatters : m \in MatterId /\ matters[m] = Prototype!None /\ \A q \in Request : m \notin prototypeReq[q].holds
  BY DEF Prototype!FreeMatters
<1>5. \A p \in Prototype!FreeProperties :
         /\ p \in PropertyId /\ properties[p] = Prototype!Unused
         /\ \A q \in Request : p \notin prototypeReq[q].holds
  BY DEF Prototype!FreeProperties
<1>. QED
  BY <1>2, <1>3, <1>4, <1>5

\* A live transfer is a row with its one matter, which its link leads to if it has one.
LEMMA PrototypeLive ==
    ASSUME PrototypeInv, NEW t \in Prototype!Live
    PROVE  /\ t \in Reference /\ transfers[t] \in LiveRow /\ transfers[t].row # Prototype!Unused
           /\ \E m \in MatterId : /\ Prototype!MattersOf(t) = {m} /\ matters[m] = t
                                 /\ transfers[t].matter \in {m, Prototype!None}
<1>1. t \in Reference /\ transfers[t].row = "live"
  BY DEF Prototype!Live
<1>2. transfers[t] \in LiveRow
  BY <1>1 DEF PrototypeInv, PrototypeTyped, Prototype!Absent, Prototype!Unused
<1>3. PICK m \in MatterId : Prototype!MattersOf(t) = {m} /\ transfers[t].matter \in {m, Prototype!None}
  BY DEF PrototypeInv, Prototype!MatterOfTransfer
<1>4. m \in Prototype!MattersOf(t)
  BY <1>3
<1>. QED
  BY <1>1, <1>2, <1>3, <1>4 DEF Prototype!Unused, Prototype!MattersOf

-----------------------------------------------------------------------------
(* Steps that change no row.                                                *)

LEMMA PrototypePosts ==
    ASSUME PrototypeAssumption, PrototypeInv, NEW r \in Request,
           (\E t \in Reference : Prototype!PostBegin(r, t)) \/ Prototype!PostInsert(r)
    PROVE  PrototypeInv'
<1>f. prototypeFaults \in 0..MaxFaults
  BY DEF PrototypeInv, PrototypeTyped
<1>1. ASSUME NEW t \in Reference, Prototype!PostBegin(r, t) PROVE PrototypeInv'
  <2>. DEFINE h == [Prototype!Fresh EXCEPT !.op = "post", !.pc = "insert", !.t = t]
  <2>1. h \in Txn /\ h.op = "post" /\ h.pc = "insert" /\ h.t = t /\ h.holds = {} /\ h.drop = {}
    BY DEF Prototype!Fresh, Txn
  <2>2. Prototype!Go(r, h) /\ UNCHANGED <<Prototype!tables, prototypeFaults>>
    BY <1>1 DEF Prototype!PostBegin
  <2>. HIDE DEF h
  <2>3. Stage(h)
    BY <2>1 DEF Stage
  <2>. QED
    BY <1>f, <2>1, <2>2, <2>3, PrototypeGo
<1>2. CASE Prototype!PostInsert(r)
  <2>1. /\ prototypeReq[r].op = "post" /\ prototypeReq[r].pc = "insert"
        /\ Prototype!Free(r, prototypeReq[r].t)
        /\ UNCHANGED <<Prototype!tables, prototypeFaults>>
    BY <1>2 DEF Prototype!PostInsert, Prototype!At
  <2>2. CASE transfers[prototypeReq[r].t].row = Prototype!Unused
    <3>. DEFINE h == [prototypeReq[r] EXCEPT !.pc = "commit", !.holds = {prototypeReq[r].t}]
    <3>1. prototypeReq[r] \in Txn /\ prototypeReq[r].t \in Reference /\ prototypeReq[r].drop = {}
      BY <2>1, PrototypeHere DEF Stage
    <3>2. /\ h \in Txn /\ h.op = "post" /\ h.pc = "commit" /\ h.t = prototypeReq[r].t
          /\ h.holds = {prototypeReq[r].t} /\ h.drop = {}
      BY <2>1, <3>1 DEF Txn, Key
    <3>3. Prototype!Go(r, h)
      BY <1>2, <2>2 DEF Prototype!PostInsert
    <3>. HIDE DEF h
    <3>4. Stage(h)
      BY <2>2, <3>1, <3>2 DEF Stage
    <3>5. \A q \in Request \ {r} : h.holds \cap prototypeReq[q].holds = {}
      BY <2>1, <3>2, PrototypeFree
    <3>. QED
      BY <1>f, <2>1, <3>2, <3>3, <3>4, <3>5, PrototypeGo
  <2>3. CASE transfers[prototypeReq[r].t].row # Prototype!Unused
    BY <1>2, <1>f, <2>1, <2>3, PrototypeEnds DEF Prototype!PostInsert
  <2>. QED
    BY <2>2, <2>3
<1>. QED
  BY <1>1, <1>2

LEMMA PrototypePuts ==
    ASSUME PrototypeAssumption, PrototypeInv, NEW r \in Request,
           \/ \E t \in Reference, u \in BOOLEAN : Prototype!PutBegin(r, t, u)
           \/ Prototype!PutUpdate(r) \/ Prototype!PutProperty(r) \/ Prototype!getOrCreateMatterForTransfer(r)
    PROVE  PrototypeInv'
<1>f. prototypeFaults \in 0..MaxFaults
  BY DEF PrototypeInv, PrototypeTyped
<1>h. /\ prototypeReq[r] \in Txn /\ Stage(prototypeReq[r]) /\ prototypeReq[r].holds \subseteq Key
      /\ \A q \in Request \ {r} : prototypeReq[r].holds \cap prototypeReq[q].holds = {}
  BY PrototypeHere DEF Txn
<1>1. ASSUME NEW t \in Reference, NEW u \in BOOLEAN, Prototype!PutBegin(r, t, u) PROVE PrototypeInv'
  <2>1. CASE t \in Prototype!Live
    <3>. DEFINE h == [Prototype!Fresh EXCEPT !.op = "put", !.pc = IF u THEN "update" ELSE "matter",
                                             !.t = t, !.updates = u]
    <3>1. /\ h \in Txn /\ h.op = "put" /\ h.pc \in {"update", "matter"} /\ h.t = t /\ h.holds = {}
          /\ h.drop = {} /\ (h.pc = "matter" => ~h.updates)
      BY DEF Prototype!Fresh, Txn
    <3>2. /\ Prototype!Go(r, h) /\ UNCHANGED <<Prototype!tables, prototypeFaults>>
          /\ transfers[t].row # Prototype!Unused
      BY <1>1, <2>1 DEF Prototype!PutBegin
    <3>. HIDE DEF h
    <3>3. Stage(h)
      BY <3>1, <3>2 DEF Stage
    <3>. QED
      BY <1>f, <3>1, <3>2, <3>3, PrototypeGo
  <2>2. CASE t \notin Prototype!Live
    BY <1>1, <1>f, <2>2, PrototypeEnds DEF Prototype!PutBegin
  <2>. QED
    BY <2>1, <2>2
<1>2. CASE Prototype!PutUpdate(r)
  <2>. DEFINE t == prototypeReq[r].t
              own == IF t \in Prototype!Live THEN transfers[t].property ELSE Prototype!None
              held == IF t \in Prototype!Live THEN {t} ELSE {}
              p == Prototype!NewId(Prototype!FreeProperties)
  <2>1. /\ prototypeReq[r].op = "put" /\ prototypeReq[r].pc = "update" /\ Prototype!Free(r, t)
        /\ UNCHANGED <<Prototype!tables, prototypeFaults>>
        /\ t \in Reference /\ transfers[t].row # Prototype!Unused /\ prototypeReq[r].drop = {}
    BY <1>2, <1>h DEF Prototype!PutUpdate, Prototype!At, Stage
  <2>2. held \in SUBSET Key /\ \A q \in Request \ {r} : held \cap prototypeReq[q].holds = {}
    BY <2>1, PrototypeFree DEF Key
  <2>3. own \in PropertyId \cup {Prototype!None}
    BY PrototypeLive DEF LiveRow
  <2>. HIDE DEF held, own, t
  <2>4. CASE /\ own # Prototype!None
             /\ Prototype!Go(r, [prototypeReq[r] EXCEPT !.pc = "property", !.holds = held, !.property = own])
    <3>. DEFINE h == [prototypeReq[r] EXCEPT !.pc = "property", !.holds = held, !.property = own]
    <3>1. /\ h \in Txn /\ h.op = "put" /\ h.pc = "property" /\ h.holds = held /\ h.property = own
          /\ h.t = t /\ h.drop = {}
      BY <1>h, <2>1, <2>2, <2>3 DEF Txn, t
    <3>. HIDE DEF h
    <3>2. Stage(h)
      BY <2>1, <2>3, <2>4, <3>1 DEF Stage
    <3>. QED
      BY <1>f, <2>1, <2>2, <2>4, <3>1, <3>2, PrototypeGo DEF h
  <2>5. CASE /\ own = Prototype!None /\ Prototype!FreeProperties # {}
             /\ Prototype!Go(r, [prototypeReq[r] EXCEPT !.pc = "matter", !.holds = held \cup {p}, !.property = p])
    <3>. HIDE DEF p
    <3>. DEFINE h == [prototypeReq[r] EXCEPT !.pc = "matter", !.holds = held \cup {p}, !.property = p]
    <3>0. p \in PropertyId /\ \A q \in Request : p \notin prototypeReq[q].holds
      BY <2>5, PrototypeFreeIds DEF p
    <3>1. /\ h \in Txn /\ h.op = "put" /\ h.pc = "matter" /\ h.holds = held \cup {p}
          /\ h.property = p
          /\ h.t = t /\ h.drop = {}
      BY <1>h, <2>1, <2>2, <3>0 DEF Txn, Key, t
    <3>. HIDE DEF h
    <3>2. Stage(h)
      BY <2>1, <3>0, <3>1 DEF Stage
    <3>3. \A q \in Request \ {r} : h.holds \cap prototypeReq[q].holds = {}
      BY <2>2, <3>0, <3>1
    <3>. QED
      BY <1>f, <2>1, <2>5, <3>1, <3>2, <3>3, PrototypeGo DEF h
  <2>6. CASE Prototype!Go(r, [prototypeReq[r] EXCEPT !.pc = "matter", !.holds = held, !.updates = FALSE])
    <3>. DEFINE h == [prototypeReq[r] EXCEPT !.pc = "matter", !.holds = held, !.updates = FALSE]
    <3>1. /\ h \in Txn /\ h.op = "put" /\ h.pc = "matter" /\ h.holds = held /\ ~h.updates
          /\ h.t = t /\ h.drop = {}
      BY <1>h, <2>1, <2>2 DEF Txn, t
    <3>. HIDE DEF h
    <3>2. Stage(h)
      BY <2>1, <3>1 DEF Stage
    <3>. QED
      BY <1>f, <2>1, <2>2, <2>6, <3>1, <3>2, PrototypeGo DEF h
  <2>. QED
    BY <1>2, <2>4, <2>5, <2>6 DEF Prototype!PutUpdate, held, own, t
<1>3. CASE Prototype!PutProperty(r)
  <2>. DEFINE h == [prototypeReq[r] EXCEPT !.pc = "matter", !.holds = @ \cup {prototypeReq[r].property}]
  <2>1. /\ prototypeReq[r].op = "put" /\ prototypeReq[r].pc = "property"
        /\ Prototype!Free(r, prototypeReq[r].property)
        /\ UNCHANGED <<Prototype!tables, prototypeFaults>> /\ Prototype!Go(r, h)
        /\ prototypeReq[r].t \in Reference /\ transfers[prototypeReq[r].t].row # Prototype!Unused
        /\ prototypeReq[r].drop = {}
        /\ prototypeReq[r].property \in PropertyId
    BY <1>3, <1>h DEF Prototype!PutProperty, Prototype!At, Stage
  <2>2. /\ h \in Txn /\ h.op = "put" /\ h.pc = "matter" /\ h.t = prototypeReq[r].t /\ h.drop = {}
        /\ h.holds = prototypeReq[r].holds \cup {prototypeReq[r].property}
        /\ h.property = prototypeReq[r].property
    BY <1>h, <2>1 DEF Txn, Key
  <2>. HIDE DEF h
  <2>3. Stage(h)
    BY <2>1, <2>2 DEF Stage
  <2>4. \A q \in Request \ {r} : h.holds \cap prototypeReq[q].holds = {}
    BY <1>h, <2>1, <2>2, PrototypeFree
  <2>. QED
    BY <1>f, <2>1, <2>2, <2>3, <2>4, PrototypeGo
<1>4. CASE Prototype!getOrCreateMatterForTransfer(r)
  <2>1. /\ prototypeReq[r].op = "put" /\ prototypeReq[r].pc = "matter"
        /\ UNCHANGED <<Prototype!tables, prototypeFaults>>
        /\ prototypeReq[r].t \in Reference /\ transfers[prototypeReq[r].t].row # Prototype!Unused
        /\ prototypeReq[r].drop = {}
        /\ prototypeReq[r].updates => prototypeReq[r].property \in PropertyId
    BY <1>4, <1>h DEF Prototype!getOrCreateMatterForTransfer, Prototype!At, Stage
  <2>2. ASSUME NEW m \in Prototype!MattersOf(prototypeReq[r].t), Prototype!Go(r, [prototypeReq[r] EXCEPT !.pc = "link", !.matter = m])
        PROVE  PrototypeInv'
    <3>. DEFINE h == [prototypeReq[r] EXCEPT !.pc = "link", !.matter = m]
    <3>1. m \in MatterId
      BY DEF Prototype!MattersOf
    <3>2. /\ h \in Txn /\ h.op = "put" /\ h.pc = "link" /\ h.t = prototypeReq[r].t /\ h.drop = {}
          /\ h.holds = prototypeReq[r].holds /\ h.property = prototypeReq[r].property
          /\ h.updates = prototypeReq[r].updates
          /\ h.matter = m
      BY <1>h, <2>1, <3>1 DEF Txn
    <3>. HIDE DEF h
    <3>3. prototypeReq[r].t \in Prototype!Live => Prototype!MattersOf(prototypeReq[r].t) = {m}
      BY PrototypeLive
    <3>4. Stage(h)
      BY <2>1, <3>2, <3>3 DEF Stage
    <3>. QED
      BY <1>f, <1>h, <2>1, <2>2, <3>2, <3>4, PrototypeGo DEF h
  <2>3. ASSUME Prototype!MattersOf(prototypeReq[r].t) = {}, Prototype!FreeMatters # {},
               NEW m, m = Prototype!NewId(Prototype!FreeMatters),
               Prototype!Go(r, [prototypeReq[r] EXCEPT !.pc = "link", !.matter = m, !.holds = @ \cup {m}])
        PROVE  PrototypeInv'
    <3>. DEFINE h == [prototypeReq[r] EXCEPT !.pc = "link", !.matter = m, !.holds = @ \cup {m}]
    <3>1. m \in MatterId /\ \A q \in Request : m \notin prototypeReq[q].holds
      BY <2>3, PrototypeFreeIds
    <3>2. /\ h \in Txn /\ h.op = "put" /\ h.pc = "link" /\ h.t = prototypeReq[r].t /\ h.drop = {}
          /\ h.holds = prototypeReq[r].holds \cup {m} /\ h.property = prototypeReq[r].property
          /\ h.updates = prototypeReq[r].updates
      BY <1>h, <2>1, <3>1 DEF Txn, Key
    <3>. HIDE DEF h
    <3>3. prototypeReq[r].t \notin Prototype!Live
      BY <2>3, PrototypeLive
    <3>4. Stage(h)
      BY <2>1, <3>2, <3>3 DEF Stage
    <3>5. \A q \in Request \ {r} : h.holds \cap prototypeReq[q].holds = {}
      BY <1>h, <3>1, <3>2
    <3>. QED
      BY <1>f, <2>1, <2>3, <3>2, <3>4, <3>5, PrototypeGo DEF h
  <2>. QED
    BY <1>4, <2>2, <2>3 DEF Prototype!getOrCreateMatterForTransfer
<1>. QED
  BY <1>1, <1>2, <1>3, <1>4

LEMMA PrototypeCardinality == \A S : Prototype!Cardinality(S) = Cardinality(S)
BY DEF Prototype!Cardinality, Cardinality

LEMMA PrototypeDeletes ==
    ASSUME PrototypeAssumption, PrototypeInv, NEW r \in Request,
           \/ \E t \in Reference : Prototype!DeleteBegin(r, t)
           \/ Prototype!DeleteLock(r) \/ Prototype!DeleteLockMatter(r) \/ Prototype!DeleteMatter(r)
           \/ Prototype!DeleteLockProperty(r) \/ Prototype!DeleteProperty(r) \/ Prototype!DeleteAnswer(r)
    PROVE  PrototypeInv'
<1>f. prototypeFaults \in 0..MaxFaults
  BY DEF PrototypeInv, PrototypeTyped
<1>h. /\ prototypeReq[r] \in Txn /\ Stage(prototypeReq[r]) /\ prototypeReq[r].holds \subseteq Key
      /\ \A q \in Request \ {r} : prototypeReq[r].holds \cap prototypeReq[q].holds = {}
      /\ prototypeReq[r].op = "delete" => \A c \in Child : prototypeReq[r].holds \cap prototypeReq[c].holds = {}
  BY PrototypeHere DEF Txn
<1>. r \notin Child
  BY DEF PrototypeAssumption
<1>l. \A x : Prototype!Free(r, x) => \A q \in (Request \cup Child) \ {r} : x \notin prototypeReq[q].holds
  BY PrototypeFree
<1>1. ASSUME NEW t \in Reference, Prototype!DeleteBegin(r, t) PROVE PrototypeInv'
  <2>. DEFINE h == [Prototype!Fresh EXCEPT !.op = "delete", !.pc = "lock", !.t = t]
  <2>1. h \in Txn /\ h.op = "delete" /\ h.pc = "lock" /\ h.t = t /\ h.holds = {} /\ h.drop = {}
    BY DEF Prototype!Fresh, Txn
  <2>2. /\ Prototype!Go(r, h) /\ UNCHANGED <<Prototype!tables, prototypeFaults>>
        /\ transfers[t].row # Prototype!Unused
    BY <1>1 DEF Prototype!DeleteBegin
  <2>. HIDE DEF h
  <2>3. Stage(h)
    BY <2>1, <2>2 DEF Stage, AfterLock, AfterCount
  <2>. QED
    BY <1>f, <2>1, <2>2, <2>3, PrototypeGo
<1>2. CASE Prototype!DeleteLock(r)
  <2>. DEFINE t == prototypeReq[r].t
              ms == Prototype!MattersOf(t)
              one == Cardinality(ms) = 1
              m == IF one THEN Prototype!NewId(ms) ELSE Prototype!None
              p == transfers[t].property
              pc == IF one THEN "matterLock" ELSE "propertyLock"
              h == [prototypeReq[r] EXCEPT !.holds = {t}, !.property = p, !.matter = m, !.pc = pc]
  <2>1. /\ prototypeReq[r].op = "delete" /\ prototypeReq[r].pc = "lock" /\ Prototype!Free(r, t)
        /\ UNCHANGED <<Prototype!tables, prototypeFaults>>
        /\ t \in Reference /\ transfers[t].row # Prototype!Unused /\ prototypeReq[r].drop = {}
    BY <1>2, <1>h DEF Prototype!DeleteLock, Prototype!At, Stage, AfterCount
  <2>2. CASE t \notin Prototype!Live
    BY <1>2, <1>f, <2>1, <2>2, PrototypeEnds DEF Prototype!DeleteLock
  <2>3. CASE t \in Prototype!Live
    <3>1. Prototype!Go(r, h)
      BY <1>2, <2>3, PrototypeCardinality DEF Prototype!DeleteLock
    <3>0. p \in PropertyId \cup {Prototype!None}
      BY <2>3, PrototypeLive DEF LiveRow
    <3>2. PICK own \in MatterId : ms = {own}
      BY <2>3, PrototypeLive
    <3>3. one
      BY <3>2, PrototypeCardinality, FS_Singleton
    <3>4. Prototype!NewId(ms) = own
      BY <3>2 DEF Prototype!NewId
    <3>5. m = own /\ pc = "matterLock" /\ Prototype!MattersOf(t) = {m} /\ m \in MatterId
      BY <3>2, <3>3, <3>4
    <3>. HIDE DEF m, p, pc, ms, one
    <3>6. /\ h \in Txn /\ h.op = "delete" /\ h.pc = "matterLock" /\ h.t = t /\ h.matter = m
          /\ h.holds = {t} /\ h.drop = {}
      BY <1>h, <2>1, <3>0, <3>5 DEF Txn, Key
    <3>. HIDE DEF h
    <3>7. Stage(h)
      BY <2>1, <2>3, <3>5, <3>6 DEF Stage, AfterLock, AfterCount
    <3>8. /\ \A q \in Request \ {r} : h.holds \cap prototypeReq[q].holds = {}
          /\ \A c \in Child : h.holds \cap prototypeReq[c].holds = {}
      BY <1>l, <2>1, <3>6
    <3>. QED
      BY <1>f, <2>1, <3>1, <3>6, <3>7, <3>8, PrototypeGo
  <2>. QED
    BY <2>2, <2>3
<1>3. CASE Prototype!DeleteLockMatter(r)
  <2>. DEFINE h == [prototypeReq[r] EXCEPT !.pc = "matterCount", !.holds = @ \cup {prototypeReq[r].matter}]
  <2>1. /\ prototypeReq[r].op = "delete" /\ prototypeReq[r].pc = "matterLock"
        /\ Prototype!Free(r, prototypeReq[r].matter)
        /\ UNCHANGED <<Prototype!tables, prototypeFaults>> /\ Prototype!Go(r, h)
    BY <1>3 DEF Prototype!DeleteLockMatter, Prototype!At, Prototype!LockParent
  <2>2. /\ prototypeReq[r].t \in Prototype!Live /\ prototypeReq[r].t \in prototypeReq[r].holds
        /\ prototypeReq[r].t \in Reference
        /\ transfers[prototypeReq[r].t].row # Prototype!Unused
        /\ Prototype!MattersOf(prototypeReq[r].t) = {prototypeReq[r].matter}
        /\ prototypeReq[r].matter \in MatterId /\ prototypeReq[r].drop = {}
    <3>1. prototypeReq[r].matter \in Prototype!MattersOf(prototypeReq[r].t) => prototypeReq[r].matter \in MatterId
      BY DEF Prototype!MattersOf
    <3>. QED
      BY <1>h, <2>1, <3>1, PrototypeLive DEF Stage, AfterLock, AfterCount
  <2>3. /\ h \in Txn /\ h.op = "delete" /\ h.pc = "matterCount" /\ h.t = prototypeReq[r].t
        /\ h.matter = prototypeReq[r].matter
        /\ h.holds = prototypeReq[r].holds \cup {prototypeReq[r].matter} /\ h.drop = {}
    BY <1>h, <2>1, <2>2 DEF Txn, Key
  <2>. HIDE DEF h
  <2>4. Stage(h)
    BY <2>2, <2>3 DEF Stage, AfterLock, AfterCount
  <2>5. /\ \A q \in Request \ {r} : h.holds \cap prototypeReq[q].holds = {}
        /\ \A c \in Child : h.holds \cap prototypeReq[c].holds = {}
    BY <1>h, <1>l, <2>1, <2>3
  <2>. QED
    BY <1>f, <2>1, <2>3, <2>4, <2>5, PrototypeGo
<1>4. CASE Prototype!DeleteMatter(r)
  <2>. DEFINE m == prototypeReq[r].matter
              others == {t \in Prototype!Live \ {prototypeReq[r].t} : transfers[t].matter = m}
              drop == IF others = {} /\ ~Prototype!HasChild(m) THEN {m} ELSE {}
              h == [prototypeReq[r] EXCEPT !.pc = "propertyLock", !.drop = drop]
  <2>1. /\ prototypeReq[r].op = "delete" /\ prototypeReq[r].pc = "matterCount"
        /\ UNCHANGED <<Prototype!tables, prototypeFaults>> /\ Prototype!Go(r, h)
    BY <1>4 DEF Prototype!DeleteMatter, Prototype!At
  <2>2. /\ prototypeReq[r].t \in Prototype!Live /\ prototypeReq[r].t \in prototypeReq[r].holds
        /\ prototypeReq[r].t \in Reference
        /\ transfers[prototypeReq[r].t].row # Prototype!Unused /\ m \in prototypeReq[r].holds
        /\ Prototype!MattersOf(prototypeReq[r].t) = {m} /\ m \in MatterId
        /\ matters[m] = prototypeReq[r].t
    <3>1. m \in Prototype!MattersOf(prototypeReq[r].t) => m \in MatterId /\ matters[m] = prototypeReq[r].t
      BY DEF Prototype!MattersOf
    <3>. QED
      BY <1>h, <2>1, <3>1, PrototypeLive DEF Stage, AfterLock, AfterCount
  <2>3. others = {}
    <3>1. m # Prototype!None
      BY <2>2 DEF PrototypeAssumption
    <3>2. ASSUME NEW t \in Prototype!Live \ {prototypeReq[r].t} PROVE transfers[t].matter # m
      BY <2>2, <3>1, PrototypeLive
    <3>. QED
      BY <3>2
  <2>4. drop \subseteq {m} /\ (m \in drop <=> ~Prototype!HasChild(m))
    BY <2>3
  <2>. HIDE DEF drop, m, others
  <2>5. /\ h \in Txn /\ h.op = "delete" /\ h.pc = "propertyLock" /\ h.t = prototypeReq[r].t
        /\ h.matter = m /\ h.holds = prototypeReq[r].holds /\ h.drop = drop
    BY <1>h, <2>1, <2>2, <2>4 DEF Txn, m
  <2>. HIDE DEF h
  <2>6. Stage(h)
    BY <2>2, <2>4, <2>5 DEF Stage, AfterLock, AfterCount
  <2>. QED
    BY <1>f, <1>h, <2>1, <2>5, <2>6, PrototypeGo
<1>d. ASSUME prototypeReq[r].op = "delete", prototypeReq[r].pc \in AfterCount
      PROVE  /\ prototypeReq[r].t \in Prototype!Live /\ prototypeReq[r].t \in prototypeReq[r].holds
             /\ prototypeReq[r].t \in Reference
             /\ transfers[prototypeReq[r].t].row # Prototype!Unused
             /\ prototypeReq[r].matter \in prototypeReq[r].holds
             /\ Prototype!MattersOf(prototypeReq[r].t) = {prototypeReq[r].matter}
             /\ prototypeReq[r].matter \in prototypeReq[r].drop \/ Prototype!HasChild(prototypeReq[r].matter)
             /\ prototypeReq[r].drop \subseteq prototypeReq[r].holds
             /\ \A x \in prototypeReq[r].drop : ~Prototype!HasChild(x)
             /\ prototypeReq[r].drop \subseteq MatterId \cup PropertyId
             /\ prototypeReq[r].drop \subseteq {prototypeReq[r].matter} \cup PropertyId
             /\ prototypeReq[r].property \in PropertyId \cup {Prototype!None}
             /\ prototypeReq[r].pc = "propertyCount" => prototypeReq[r].property \in prototypeReq[r].holds \cap PropertyId
  BY <1>h, <1>d DEF Stage, AfterLock, AfterCount, Txn
<1>5. CASE Prototype!DeleteLockProperty(r)
  <2>1. /\ prototypeReq[r].op = "delete" /\ prototypeReq[r].pc = "propertyLock"
        /\ prototypeReq[r].pc \in AfterCount
        /\ UNCHANGED <<Prototype!tables, prototypeFaults>>
    BY <1>5 DEF Prototype!DeleteLockProperty, Prototype!At, AfterCount
  <2>2. CASE /\ prototypeReq[r].property # Prototype!None /\ Prototype!Free(r, prototypeReq[r].property)
             /\ Prototype!Go(r, [prototypeReq[r] EXCEPT !.pc = "propertyCount", !.holds = @ \cup {prototypeReq[r].property}])
    <3>. DEFINE h == [prototypeReq[r] EXCEPT !.pc = "propertyCount", !.holds = @ \cup {prototypeReq[r].property}]
    <3>1. /\ h \in Txn /\ h.op = "delete" /\ h.pc = "propertyCount" /\ h.t = prototypeReq[r].t
          /\ h.matter = prototypeReq[r].matter /\ h.property = prototypeReq[r].property
          /\ h.drop = prototypeReq[r].drop
          /\ h.holds = prototypeReq[r].holds \cup {prototypeReq[r].property}
      BY <1>h, <1>d, <2>1, <2>2 DEF Txn, Key
    <3>. HIDE DEF h
    <3>2. Stage(h)
      BY <1>d, <2>1, <2>2, <3>1 DEF Stage, AfterLock, AfterCount
    <3>3. /\ \A q \in Request \ {r} : h.holds \cap prototypeReq[q].holds = {}
          /\ \A c \in Child : h.holds \cap prototypeReq[c].holds = {}
      BY <1>h, <1>l, <2>1, <2>2, <3>1
    <3>. QED
      BY <1>f, <2>1, <2>2, <3>1, <3>2, <3>3, PrototypeGo DEF h
  <2>3. CASE prototypeReq[r].property = Prototype!None /\ Prototype!Go(r, [prototypeReq[r] EXCEPT !.pc = "answer"])
    <3>. DEFINE h == [prototypeReq[r] EXCEPT !.pc = "answer"]
    <3>1. /\ h \in Txn /\ h.op = "delete" /\ h.pc = "answer" /\ h.t = prototypeReq[r].t
          /\ h.matter = prototypeReq[r].matter /\ h.drop = prototypeReq[r].drop
          /\ h.holds = prototypeReq[r].holds
      BY <1>h, <2>1 DEF Txn
    <3>. HIDE DEF h
    <3>2. Stage(h)
      BY <1>d, <2>1, <3>1 DEF Stage, AfterLock, AfterCount
    <3>. QED
      BY <1>f, <1>h, <2>1, <2>3, <3>1, <3>2, PrototypeGo DEF h
  <2>. QED
    BY <1>5, <2>2, <2>3 DEF Prototype!DeleteLockProperty, Prototype!LockParent
<1>6. CASE Prototype!DeleteProperty(r)
  <2>. DEFINE p == prototypeReq[r].property
              others == {t \in Prototype!Live \ {prototypeReq[r].t} : transfers[t].property = p}
              gone == properties[p] = prototypeReq[r].t /\ others = {} /\ ~Prototype!HasChild(p)
              more == IF gone THEN {p} ELSE {}
              h == [prototypeReq[r] EXCEPT !.pc = "answer", !.drop = @ \cup more]
  <2>1. /\ prototypeReq[r].op = "delete" /\ prototypeReq[r].pc = "propertyCount"
        /\ prototypeReq[r].pc \in AfterCount
        /\ UNCHANGED <<Prototype!tables, prototypeFaults>> /\ Prototype!Go(r, h)
    BY <1>6 DEF Prototype!DeleteProperty, Prototype!At, AfterCount
  <2>2. /\ more \subseteq {p} /\ (p \in more => ~Prototype!HasChild(p)) /\ p \in PropertyId
        /\ p \in prototypeReq[r].holds
    BY <1>d, <2>1
  <2>. HIDE DEF more, gone, others, p
  <2>3. /\ h \in Txn /\ h.op = "delete" /\ h.pc = "answer" /\ h.t = prototypeReq[r].t
        /\ h.matter = prototypeReq[r].matter /\ h.holds = prototypeReq[r].holds
        /\ h.drop = prototypeReq[r].drop \cup more
    BY <1>h, <1>d, <2>1, <2>2 DEF Txn
  <2>. HIDE DEF h
  <2>4. Stage(h)
    BY <1>d, <2>1, <2>2, <2>3 DEF Stage, AfterLock, AfterCount
  <2>. QED
    BY <1>f, <1>h, <2>1, <2>3, <2>4, PrototypeGo
<1>7. CASE Prototype!DeleteAnswer(r)
  <2>. DEFINE h == [prototypeReq[r] EXCEPT !.pc = "commit", !.answer = "deleted"]
  <2>1. /\ prototypeReq[r].op = "delete" /\ prototypeReq[r].pc = "answer"
        /\ prototypeReq[r].pc \in AfterCount
        /\ UNCHANGED <<Prototype!tables, prototypeFaults>> /\ Prototype!Go(r, h)
    BY <1>7 DEF Prototype!DeleteAnswer, Prototype!At, AfterCount
  <2>2. /\ h \in Txn /\ h.op = "delete" /\ h.pc = "commit" /\ h.t = prototypeReq[r].t
        /\ h.matter = prototypeReq[r].matter /\ h.holds = prototypeReq[r].holds
        /\ h.drop = prototypeReq[r].drop
    BY <1>h, <2>1 DEF Txn
  <2>. HIDE DEF h
  <2>3. Stage(h)
    BY <1>d, <2>1, <2>2 DEF Stage, AfterLock, AfterCount
  <2>. QED
    BY <1>f, <1>h, <2>1, <2>2, <2>3, PrototypeGo
<1>. QED
  BY <1>1, <1>2, <1>3, <1>4, <1>5, <1>6, <1>7

LEMMA PrototypeRolls ==
    ASSUME PrototypeAssumption, PrototypeInv, NEW r \in Request, Prototype!Rollback(r)
    PROVE  PrototypeInv'
<1>. DEFINE answer == IF prototypeReq[r].answer = Prototype!None THEN "error" ELSE prototypeReq[r].answer
<1>1. answer \in {Prototype!None, "error", "404", "created", "updated", "deleted"}
  BY PrototypeHere DEF Txn
<1>2. prototypeFaults' \in 0..MaxFaults /\ UNCHANGED Prototype!tables /\ Prototype!End(r, answer)
  BY DEF Prototype!Rollback, PrototypeInv, PrototypeTyped, PrototypeAssumption
<1>. HIDE DEF answer
<1>. QED
  BY <1>1, <1>2, PrototypeEnds

-----------------------------------------------------------------------------
(* Steps that change rows.                                                  *)

\* A transaction that ends keeps no lock, and the others keep theirs.
LEMMA PrototypeDone ==
    ASSUME PrototypeAssumption, PrototypeInv, NEW r \in Request \cup Child,
           NEW answer \in {Prototype!None, "error", "404", "created", "updated", "deleted"}, Prototype!End(r, answer)
    PROVE  /\ prototypeReq' \in [Request \cup Child -> Txn]
           /\ \A q \in (Request \cup Child) \ {r} : prototypeReq'[q] = prototypeReq[q]
           /\ prototypeReq'[r].op = Prototype!None /\ prototypeReq'[r].holds = {}
           /\ prototypeReq'[r].drop = {}
           /\ Exclusive'
           /\ \A c \in Child : prototypeReq'[c].holds \subseteq prototypeReq[c].holds /\ Below(prototypeReq'[c])
<1>. DEFINE h == [Prototype!Fresh EXCEPT !.pc = "done", !.answer = answer]
<1>1. h \in Txn /\ h.op = Prototype!None /\ h.holds = {} /\ h.drop = {}
  BY PrototypeFresh
<1>2. prototypeReq' = [prototypeReq EXCEPT ![r] = h] /\ prototypeReq \in [Request \cup Child -> Txn]
  BY DEF Prototype!End, Prototype!Go, PrototypeInv, PrototypeTyped
<1>. HIDE DEF h
<1>3. /\ prototypeReq' \in [Request \cup Child -> Txn] /\ prototypeReq'[r] = h
      /\ \A q \in (Request \cup Child) \ {r} : prototypeReq'[q] = prototypeReq[q]
  BY <1>1, <1>2
<1>4. Exclusive'
  BY <1>1, <1>3 DEF PrototypeInv, Exclusive, Prototype!None
<1>. QED
  BY <1>1, <1>3, <1>4 DEF PrototypeInv, Parented, Below, Prototype!None

LEMMA PrototypePostCommits ==
    ASSUME PrototypeAssumption, PrototypeInv, NEW r \in Request, Prototype!PostCommit(r)
    PROVE  PrototypeInv'
<1>0. PICK t, m, p : t = prototypeReq[r].t /\ m = Prototype!NewId(Prototype!FreeMatters) /\ p = Prototype!NewId(Prototype!FreeProperties)
  OBVIOUS
<1>1. /\ prototypeReq[r].op = "post" /\ prototypeReq[r].pc = "commit" /\ Prototype!End(r, "created")
      /\ UNCHANGED <<children, prototypeFaults>>
      /\ transfers' = [transfers EXCEPT ![t] = Prototype!Row(m, p)]
      /\ matters' = [matters EXCEPT ![m] = t] /\ properties' = [properties EXCEPT ![p] = t]
  BY <1>0 DEF Prototype!PostCommit, Prototype!At
<1>2. /\ m \in MatterId /\ matters[m] = Prototype!None
      /\ p \in PropertyId /\ properties[p] = Prototype!Unused
  BY <1>0, PrototypeFreeIds DEF Prototype!PostCommit
<1>3. /\ t \in Reference /\ transfers[t].row = Prototype!Unused /\ t \in prototypeReq[r].holds
      /\ \A q \in Request \ {r} : t \notin prototypeReq[q].holds
  BY <1>0, <1>1, PrototypeHere DEF Stage
<1>4. /\ prototypeReq' \in [Request \cup Child -> Txn]
      /\ \A q \in (Request \cup Child) \ {r} : prototypeReq'[q] = prototypeReq[q]
      /\ prototypeReq'[r].op = Prototype!None /\ prototypeReq'[r].holds = {}
      /\ prototypeReq'[r].drop = {} /\ Exclusive'
      /\ \A c \in Child : prototypeReq'[c].holds \subseteq prototypeReq[c].holds /\ Below(prototypeReq'[c])
  BY <1>1, PrototypeDone
<1>5. /\ Prototype!Row(m, p) \in LiveRow /\ Prototype!Row(m, p).row = "live"
      /\ Prototype!Row(m, p).matter = m
  BY <1>2 DEF Prototype!Row, LiveRow
<1>6. PrototypeTyped'
  BY <1>1, <1>2, <1>3, <1>4, <1>5 DEF PrototypeInv, PrototypeTyped
<1>7. /\ \A u \in Reference : transfers'[u] = IF u = t THEN Prototype!Row(m, p) ELSE transfers[u]
      /\ \A x \in MatterId : matters'[x] = IF x = m THEN t ELSE matters[x]
      /\ \A x \in PropertyId : properties'[x] = IF x = p THEN t ELSE properties[x]
      /\ matters \in [MatterId -> Reference \cup {Prototype!None}]
      /\ t # Prototype!None /\ t # Prototype!Unused
  BY <1>1, <1>2, <1>3 DEF PrototypeInv, PrototypeTyped, PrototypeAssumption
<1>8. /\ Prototype!Live' = Prototype!Live \cup {t} /\ t \notin Prototype!Live
      /\ (\A x : Prototype!HasChild(x)' <=> Prototype!HasChild(x))
  BY <1>1, <1>3, <1>5, <1>7 DEF Prototype!Live, Prototype!HasChild, Prototype!Unused
<1>9. Prototype!Parents \subseteq Prototype!Parents'
  BY <1>2, <1>7 DEF Prototype!Parents
<1>10. Parented'
  BY <1>1, <1>4, <1>9 DEF PrototypeInv, Parented
<1>11. SourceUsed'
  BY <1>3, <1>5, <1>7 DEF PrototypeInv, SourceUsed, Prototype!Unused
<1>12. Stages'
  <2>1. ASSUME NEW q \in Request PROVE Stage(prototypeReq[q])
    BY PrototypeHere
  <2>2. ASSUME NEW q \in Request \ {r} PROVE Stage(prototypeReq[q])'
    <3>1. /\ Stage(prototypeReq[q]) /\ t \notin prototypeReq[q].holds
          /\ prototypeReq'[q] = prototypeReq[q]
      BY <1>3, <1>4, <2>1
    <3>2. \A u \in Reference : u # t => /\ transfers'[u] = transfers[u] /\ (u \in Prototype!Live' <=> u \in Prototype!Live)
                                      /\ Prototype!MattersOf(u)' = Prototype!MattersOf(u)
      <4>1. Prototype!None \notin Reference
        BY DEF PrototypeAssumption
      <4>. QED
        BY <1>2, <1>7, <1>8, <4>1 DEF Prototype!MattersOf
    <3>4. prototypeReq[q].op \in {"put", "delete"} => prototypeReq[q].t # t /\ prototypeReq[q].t \in Reference
      BY <1>3, <3>1 DEF Stage
    <3>5. prototypeReq[q].op = "post" /\ prototypeReq[q].pc = "commit" => prototypeReq[q].t # t /\ prototypeReq[q].t \in Reference
      BY <3>1 DEF Stage
    <3>. QED
      BY <1>8, <3>1, <3>2, <3>4, <3>5 DEF Stage
  <2>3. Stage(prototypeReq[r])'
    BY <1>4 DEF Stage, Prototype!None
  <2>. QED
    BY <2>2, <2>3 DEF Stages
<1>13. Prototype!MatterOfTransfer'
  <2>1. \A x \in MatterId : matters[x] # t
    BY <1>3, <1>7 DEF PrototypeInv, SourceUsed
  <2>2. Prototype!MattersOf(t)' = {m}
    BY <1>2, <1>7, <2>1 DEF Prototype!MattersOf
  <2>3. \A u \in Prototype!Live : Prototype!MattersOf(u)' = Prototype!MattersOf(u) /\ transfers'[u] = transfers[u]
    <3>1. \A u \in Prototype!Live : u \in Reference /\ u # t /\ u # Prototype!None
      BY <1>8 DEF Prototype!Live, PrototypeAssumption
    <3>. QED
      BY <1>2, <1>7, <3>1 DEF Prototype!MattersOf
  <2>4. \A u \in Prototype!Live' : \E x \in MatterId : Prototype!MattersOf(u)' = {x} /\ transfers'[u].matter \in {x, Prototype!None}
    BY <1>2, <1>3, <1>5, <1>7, <1>8, <2>2, <2>3 DEF PrototypeInv, Prototype!MatterOfTransfer
  <2>5. \A x \in MatterId : matters'[x] \notin Prototype!Live' \cup {Prototype!None} => Prototype!HasChild(x)'
    BY <1>7, <1>8 DEF PrototypeInv, Prototype!MatterOfTransfer
  <2>. QED
    BY <2>4, <2>5 DEF Prototype!MatterOfTransfer
<1>. QED
  BY <1>4, <1>6, <1>10, <1>11, <1>12, <1>13 DEF PrototypeInv

LEMMA PrototypePutCommits ==
    ASSUME PrototypeAssumption, PrototypeInv, NEW r \in Request, Prototype!PutCommit(r)
    PROVE  PrototypeInv'
<1>0. PICK t, p : t = prototypeReq[r].t /\ p = prototypeReq[r].property
  OBVIOUS
<1>1. /\ prototypeReq[r].op = "put" /\ prototypeReq[r].pc = "link"
      /\ UNCHANGED <<children, prototypeFaults>>
  BY DEF Prototype!PutCommit, Prototype!At
<1>2. CASE t \notin Prototype!Live
  <2>1. Prototype!End(r, "error") /\ UNCHANGED Prototype!tables
    BY <1>0, <1>1, <1>2 DEF Prototype!PutCommit, Prototype!FinalRowRead, Prototype!tables
  <2>2. prototypeFaults' \in 0..MaxFaults
    BY <1>1 DEF PrototypeInv, PrototypeTyped
  <2>. QED
    BY <2>1, <2>2, PrototypeEnds
<1>3. CASE t \in Prototype!Live
  <2>1. /\ t \in Reference /\ transfers[t] \in LiveRow
        /\ Prototype!MattersOf(t) = {prototypeReq[r].matter}
        /\ matters[prototypeReq[r].matter] = t /\ prototypeReq[r].matter \in MatterId
        /\ prototypeReq[r].updates => p \in PropertyId
    <3>1. prototypeReq[r].matter \in Prototype!MattersOf(t) => matters[prototypeReq[r].matter] = t /\ prototypeReq[r].matter \in MatterId
      BY DEF Prototype!MattersOf
    <3>. QED
      BY <1>0, <1>1, <1>3, <3>1, PrototypeHere, PrototypeLive DEF Stage
  <2>2. /\ transfers' = [transfers EXCEPT ![t].matter = prototypeReq[r].matter,
                           ![t].property = IF prototypeReq[r].updates THEN p ELSE @]
        /\ matters' = [matters EXCEPT ![prototypeReq[r].matter] = t]
        /\ properties' = IF prototypeReq[r].updates /\ properties[p] = Prototype!Unused
                         THEN [properties EXCEPT ![p] = Prototype!None] ELSE properties
        /\ Prototype!End(r, "updated")
    BY <1>0, <1>3 DEF Prototype!PutCommit, Prototype!FinalRowRead
  <2>3. /\ transfers \in [Reference -> {Prototype!Absent(Prototype!Unused), Prototype!Absent("deleted")} \cup LiveRow]
        /\ matters \in [MatterId -> Reference \cup {Prototype!None}]
        /\ properties \in [PropertyId -> Reference \cup {Prototype!None, Prototype!Unused}]
    BY DEF PrototypeInv, PrototypeTyped
  <2>4. matters' = matters
    BY <2>1, <2>2, <2>3
  <2>5. /\ transfers' \in [Reference -> {Prototype!Absent(Prototype!Unused), Prototype!Absent("deleted")} \cup LiveRow]
        /\ \A u \in Reference : /\ transfers'[u].row = transfers[u].row
                                /\ transfers'[u].matter = IF u = t THEN prototypeReq[r].matter
                                                           ELSE transfers[u].matter
    <3>. DEFINE row == [[transfers[t] EXCEPT !.matter = prototypeReq[r].matter] EXCEPT
                          !.property = IF prototypeReq[r].updates THEN p ELSE @]
    <3>1. row \in LiveRow /\ row.row = transfers[t].row /\ row.matter = prototypeReq[r].matter
      BY <2>1 DEF LiveRow
    <3>2. transfers' = [transfers EXCEPT ![t] = row]
      <4>1. transfers = [u \in Reference |-> transfers[u]]
        BY <2>3
      <4>2. \A u \in Reference : transfers'[u] = IF u = t THEN row ELSE transfers[u]
        BY <2>1, <2>2, <4>1
      <4>3. transfers' = [u \in Reference |-> transfers'[u]]
        BY <2>2, <4>1
      <4>. QED
        BY <2>1, <4>1, <4>2, <4>3
    <3>. HIDE DEF row
    <3>. QED
      BY <2>1, <2>3, <3>1, <3>2
  <2>6. /\ properties' \in [PropertyId -> Reference \cup {Prototype!None, Prototype!Unused}]
        /\ \A x \in PropertyId : properties[x] # Prototype!Unused => properties'[x] # Prototype!Unused
    BY <2>1, <2>2, <2>3 DEF Prototype!None, Prototype!Unused
  <2>7. /\ prototypeReq' \in [Request \cup Child -> Txn]
        /\ \A q \in (Request \cup Child) \ {r} : prototypeReq'[q] = prototypeReq[q]
        /\ prototypeReq'[r].op = Prototype!None /\ prototypeReq'[r].holds = {}
        /\ prototypeReq'[r].drop = {} /\ Exclusive'
        /\ \A c \in Child : prototypeReq'[c].holds \subseteq prototypeReq[c].holds /\ Below(prototypeReq'[c])
    BY <2>2, PrototypeDone
  <2>8. PrototypeTyped'
    BY <1>1, <2>3, <2>4, <2>5, <2>6, <2>7 DEF PrototypeInv, PrototypeTyped
  <2>9. /\ Prototype!Live' = Prototype!Live
        /\ (\A x : Prototype!HasChild(x)' <=> Prototype!HasChild(x))
        /\ (\A x : Prototype!MattersOf(x)' = Prototype!MattersOf(x))
    BY <1>1, <2>4, <2>5 DEF Prototype!Live, Prototype!HasChild, Prototype!MattersOf
  <2>10. Parented'
    <3>1. Prototype!Parents \subseteq Prototype!Parents'
      BY <2>4, <2>6 DEF Prototype!Parents
    <3>. QED
      BY <1>1, <2>7, <3>1 DEF PrototypeInv, Parented
  <2>11. SourceUsed'
    BY <2>3, <2>4, <2>5 DEF PrototypeInv, SourceUsed
  <2>12. Stages'
    <3>1. ASSUME NEW q \in Request \ {r} PROVE Stage(prototypeReq[q])'
      <4>1. Stage(prototypeReq[q]) /\ prototypeReq'[q] = prototypeReq[q]
        BY <2>7, PrototypeHere
      <4>2. Prototype!Live \subseteq Reference
        BY DEF Prototype!Live
      <4>. QED
        BY <2>5, <2>9, <4>1, <4>2 DEF Stage
    <3>2. Stage(prototypeReq[r])'
      BY <2>7 DEF Stage, Prototype!None
    <3>. QED
      BY <3>1, <3>2 DEF Stages
  <2>13. Prototype!MatterOfTransfer'
    <3>1. Prototype!Live \subseteq Reference
      BY DEF Prototype!Live
    <3>2. \A u \in Prototype!Live' : \E x \in MatterId : Prototype!MattersOf(u)' = {x} /\ transfers'[u].matter \in {x, Prototype!None}
      BY <2>1, <2>5, <2>9, <3>1 DEF PrototypeInv, Prototype!MatterOfTransfer
    <3>3. \A x \in MatterId : matters'[x] \notin Prototype!Live' \cup {Prototype!None} => Prototype!HasChild(x)'
      BY <2>4, <2>9 DEF PrototypeInv, Prototype!MatterOfTransfer
    <3>. QED
      BY <3>2, <3>3 DEF Prototype!MatterOfTransfer
  <2>. QED
    BY <2>7, <2>8, <2>10, <2>11, <2>12, <2>13 DEF PrototypeInv
<1>. QED
  BY <1>2, <1>3

\* A deletion leaves every row of the tables it counts, for it has counted them
\* under the lock.
LEMMA PrototypeDeleteCommits ==
    ASSUME PrototypeAssumption, PrototypeInv, NEW r \in Request, Prototype!DeleteCommit(r)
    PROVE  PrototypeInv' /\ \A c \in children : c[3] = "counted" => c \in children'
<1>0. PICK t, m, drop : t = prototypeReq[r].t /\ m = prototypeReq[r].matter /\ drop = prototypeReq[r].drop
  OBVIOUS
<1>1. /\ prototypeReq[r].op = "delete" /\ prototypeReq[r].pc = "commit"
      /\ Prototype!End(r, "deleted") /\ UNCHANGED prototypeFaults
      /\ transfers' = [transfers EXCEPT ![t] = Prototype!Absent("deleted")]
      /\ matters' = [x \in MatterId |-> IF x \in drop THEN Prototype!None ELSE matters[x]]
      /\ properties' = [x \in PropertyId |-> IF x \in drop THEN Prototype!Unused ELSE properties[x]]
      /\ children' = {c \in children : c[2] \notin drop}
  BY <1>0 DEF Prototype!DeleteCommit, Prototype!At
<1>2. /\ t \in Prototype!Live /\ t \in prototypeReq[r].holds /\ Prototype!MattersOf(t) = {m}
      /\ m \in drop \/ Prototype!HasChild(m)
      /\ drop \subseteq prototypeReq[r].holds /\ drop \subseteq {m} \cup PropertyId
      /\ \A x \in drop : ~Prototype!HasChild(x)
  BY <1>0, <1>1, PrototypeHere DEF Stage, AfterLock, AfterCount
<1>3. t \in Reference /\ Prototype!MattersOf(t) = {m} /\ matters[m] = t /\ m \in MatterId
      /\ transfers[t].row = "live"
  <2>1. m \in Prototype!MattersOf(t) => m \in MatterId /\ matters[m] = t
    BY DEF Prototype!MattersOf
  <2>. QED
    BY <1>2, <2>1 DEF Prototype!Live
<1>4. /\ prototypeReq' \in [Request \cup Child -> Txn]
      /\ \A q \in (Request \cup Child) \ {r} : prototypeReq'[q] = prototypeReq[q]
      /\ prototypeReq'[r].op = Prototype!None /\ prototypeReq'[r].holds = {}
      /\ prototypeReq'[r].drop = {} /\ Exclusive'
      /\ \A c \in Child : prototypeReq'[c].holds \subseteq prototypeReq[c].holds /\ Below(prototypeReq'[c])
  BY <1>1, PrototypeDone
<1>5. /\ \A q \in Request \ {r} : t \notin prototypeReq[q].holds
      /\ \A c \in Child : prototypeReq[c].holds \cap drop = {}
  BY <1>1, <1>2, PrototypeHere
<1>6. /\ matters \in [MatterId -> Reference \cup {Prototype!None}]
      /\ children \subseteq Child \X (MatterId \cup PropertyId) \X Prototype!Kind
      /\ properties \in [PropertyId -> Reference \cup {Prototype!None, Prototype!Unused}]
      /\ transfers \in [Reference -> {Prototype!Absent(Prototype!Unused), Prototype!Absent("deleted")} \cup LiveRow]
  BY DEF PrototypeInv, PrototypeTyped
<1>7. \A c \in children : c[3] = "counted" => c \in children'
  <2>1. ASSUME NEW c \in children, c[3] = "counted" PROVE c[2] \notin drop
    <3>1. c[1] \in Child /\ c = <<c[1], c[2], "counted">>
      BY <1>6, <2>1
    <3>. QED
      BY <1>2, <3>1 DEF Prototype!HasChild
  <2>. QED
    BY <1>1, <2>1
<1>8. /\ \A u \in Reference : transfers'[u] = IF u = t THEN Prototype!Absent("deleted") ELSE transfers[u]
      /\ \A x \in MatterId : matters'[x] = IF x \in drop THEN Prototype!None ELSE matters[x]
      /\ \A x \in PropertyId : properties'[x] = IF x \in drop THEN Prototype!Unused ELSE properties[x]
      /\ Prototype!Absent("deleted").row = "deleted"
  BY <1>1, <1>3, <1>6 DEF Prototype!Absent
<1>9. PrototypeTyped'
  BY <1>1, <1>3, <1>4, <1>6 DEF PrototypeInv, PrototypeTyped
<1>10. /\ Prototype!Live' = Prototype!Live \ {t} /\ Prototype!Live \subseteq Reference
       /\ (\A x : Prototype!HasChild(x)' <=> Prototype!HasChild(x))
  <2>1. \A x : Prototype!HasChild(x)' <=> Prototype!HasChild(x)
    <3>1. \A c \in Child : \A x : <<c, x, "counted">>[3] = "counted"
      OBVIOUS
    <3>. QED
      BY <1>1, <1>7, <3>1 DEF Prototype!HasChild
  <2>. QED
    BY <1>8, <2>1 DEF Prototype!Live
<1>11. Parented'
  <2>1. Prototype!Parents \ drop \subseteq Prototype!Parents'
    BY <1>8 DEF Prototype!Parents
  <2>2. \A c \in children' : c \in children /\ c[2] \notin drop
    BY <1>1
  <2>3. /\ \A c \in children : c[2] \in Prototype!Parents
        /\ \A c \in Child : prototypeReq[c].holds \subseteq Prototype!Parents
    BY DEF PrototypeInv, Parented
  <2>. QED
    BY <1>4, <1>5, <2>1, <2>2, <2>3 DEF Parented
<1>12. SourceUsed'
  BY <1>6, <1>8 DEF PrototypeInv, SourceUsed, Prototype!Unused
<1>13. Stages'
  <2>1. ASSUME NEW q \in Request \ {r} PROVE Stage(prototypeReq[q])'
    <3>1. /\ Stage(prototypeReq[q]) /\ t \notin prototypeReq[q].holds
          /\ prototypeReq'[q] = prototypeReq[q]
      BY <1>4, <1>5, PrototypeHere
    <3>2. \A u \in Reference : /\ u # t => transfers'[u] = transfers[u] /\ (u \in Prototype!Live' <=> u \in Prototype!Live)
                               /\ transfers[u].row # Prototype!Unused => transfers'[u].row # Prototype!Unused
                               /\ u # t => Prototype!MattersOf(u)' = Prototype!MattersOf(u)
      <4>1. \A u \in Reference : u # t => u # Prototype!None /\ \A x \in MatterId : matters[x] = u => x \notin drop
        BY <1>2, <1>3 DEF PrototypeAssumption
      <4>2. \A u \in Reference : u # t => Prototype!MattersOf(u)' = Prototype!MattersOf(u)
        BY <1>8, <4>1 DEF Prototype!MattersOf
      <4>. QED
        BY <1>8, <1>10, <4>2 DEF Prototype!Unused
    <3>3. prototypeReq[q].op = "put" /\ prototypeReq[q].t \in Prototype!Live' => prototypeReq[q].t # t
      BY <1>10
    <3>4. prototypeReq[q].op = "post" /\ prototypeReq[q].pc = "commit" => prototypeReq[q].t # t /\ prototypeReq[q].t \in Reference
      BY <3>1 DEF Stage
    <3>5. prototypeReq[q].op = "delete" /\ prototypeReq[q].pc \in AfterLock => prototypeReq[q].t # t
      BY <3>1 DEF Stage
    <3>. QED
      BY <1>10, <3>1, <3>2, <3>3, <3>4, <3>5 DEF Stage
  <2>2. Stage(prototypeReq[r])'
    BY <1>4 DEF Stage, Prototype!None
  <2>. QED
    BY <2>1, <2>2 DEF Stages
<1>14. Prototype!MatterOfTransfer'
  <2>1. ASSUME NEW u \in Prototype!Live'
        PROVE  \E x \in MatterId : Prototype!MattersOf(u)' = {x} /\ transfers'[u].matter \in {x, Prototype!None}
    <3>1. /\ u \in Prototype!Live /\ u # t /\ u # Prototype!None /\ u \in Reference
          /\ transfers'[u] = transfers[u]
      BY <1>8, <1>10 DEF PrototypeAssumption
    <3>2. \E x \in MatterId : Prototype!MattersOf(u) = {x} /\ transfers[u].matter \in {x, Prototype!None}
      BY <3>1, PrototypeLive
    <3>3. \A x \in MatterId : matters[x] = u => x \notin drop
      BY <1>2, <1>3, <3>1 DEF PrototypeAssumption
    <3>4. Prototype!MattersOf(u)' = Prototype!MattersOf(u)
      BY <1>8, <3>1, <3>3 DEF Prototype!MattersOf
    <3>. QED
      BY <3>1, <3>2, <3>4
  <2>2. ASSUME NEW x \in MatterId,
               matters'[x] \notin Prototype!Live' \cup {Prototype!None} PROVE Prototype!HasChild(x)'
    <3>1. x \notin drop /\ matters'[x] = matters[x]
      BY <1>8, <2>2
    <3>2. CASE matters[x] = t
      <4>1. x = m
        BY <1>3, <3>2 DEF Prototype!MattersOf
      <4>. QED
        BY <1>2, <1>10, <3>1, <4>1
    <3>3. CASE matters[x] # t
      BY <1>10, <2>2, <3>1, <3>3 DEF PrototypeInv, Prototype!MatterOfTransfer
    <3>. QED
      BY <3>2, <3>3
  <2>. QED
    BY <2>1, <2>2 DEF Prototype!MatterOfTransfer
<1>. QED
  BY <1>4, <1>7, <1>9, <1>11, <1>12, <1>13, <1>14 DEF PrototypeInv

\* A transaction below a parent goes on: what it locks nobody is deleting.
LEMMA PrototypeChildGo ==
    ASSUME PrototypeAssumption, PrototypeInv, NEW c \in Child, NEW h \in Txn,
           Prototype!Go(c, h), UNCHANGED <<Prototype!tables, prototypeFaults>>,
           Below(h), h.holds \subseteq Prototype!Parents, \A x \in h.holds : ~Prototype!Locked(x)
    PROVE  PrototypeInv' /\ children' = children
<1>. c \notin Request /\ \A q \in Request : q \notin Child
  BY DEF PrototypeAssumption
<1>t. /\ PrototypeTyped /\ Parented /\ Stages /\ Exclusive
      /\ prototypeReq \in [Request \cup Child -> Txn]
  BY DEF PrototypeInv, PrototypeTyped
<1>1. prototypeReq' = [prototypeReq EXCEPT ![c] = h]
  BY DEF Prototype!Go
<1>3. /\ prototypeReq' \in [Request \cup Child -> Txn] /\ prototypeReq'[c] = h
      /\ \A q \in (Request \cup Child) \ {c} : prototypeReq'[q] = prototypeReq[q]
      /\ \A q \in Request : prototypeReq'[q] = prototypeReq[q]
      /\ UNCHANGED <<transfers, matters, properties, children, prototypeFaults>>
  BY <1>t, <1>1 DEF Prototype!tables
<1>4. PrototypeTyped'
  BY <1>t, <1>3 DEF PrototypeTyped
<1>5. Exclusive'
  BY <1>t, <1>3 DEF Exclusive, Prototype!Locked
<1>6. Parented'
  BY <1>t, <1>3 DEF Parented, Prototype!Parents
<1>7. /\ Prototype!Live' = Prototype!Live
      /\ (\A y : Prototype!HasChild(y)' <=> Prototype!HasChild(y))
      /\ \A y : Prototype!MattersOf(y)' = Prototype!MattersOf(y)
  BY <1>3 DEF Prototype!Live, Prototype!HasChild, Prototype!MattersOf
<1>8. Stages'
  <2>1. ASSUME NEW q \in Request PROVE Stage(prototypeReq[q])'
    BY <1>t, <1>3, <1>7 DEF Stages, Stage
  <2>. QED
    BY <2>1 DEF Stages
<1>9. SourceUsed' /\ Prototype!MatterOfTransfer'
  BY <1>3, <1>7 DEF PrototypeInv, SourceUsed, Prototype!MatterOfTransfer
<1>. QED
  BY <1>3, <1>4, <1>5, <1>6, <1>8, <1>9 DEF PrototypeInv

\* Such a transaction gives up before it has locked anything.
LEMMA PrototypeChildEnds ==
    ASSUME PrototypeAssumption, PrototypeInv, NEW c \in Child,
           Prototype!End(c, "error"), UNCHANGED <<Prototype!tables, prototypeFaults>>
    PROVE  PrototypeInv' /\ children' = children
<1>. DEFINE h == [Prototype!Fresh EXCEPT !.pc = "done", !.answer = "error"]
<1>1. h \in Txn /\ h.op = Prototype!None /\ h.holds = {} /\ h.drop = {}
  BY PrototypeFresh
<1>2. Prototype!Go(c, h)
  BY DEF Prototype!End
<1>. HIDE DEF h
<1>. QED
  BY <1>1, <1>2, PrototypeChildGo DEF Below, Prototype!None

LEMMA PrototypeChildren ==
    ASSUME PrototypeAssumption, PrototypeInv, NEW c \in Child,
           \/ Prototype!CommitChild(c)
           \/ \E x \in MatterId \cup PropertyId, kind \in Prototype!Kind : Prototype!InsertChild(c, x, kind)
    PROVE  PrototypeInv' /\ children \subseteq children'
<1>. c \notin Request /\ \A q \in Request : q \notin Child
  BY DEF PrototypeAssumption
<1>t. /\ PrototypeTyped /\ Parented /\ Stages /\ Exclusive
      /\ prototypeReq \in [Request \cup Child -> Txn]
  BY DEF PrototypeInv, PrototypeTyped
<1>1. ASSUME NEW x \in MatterId \cup PropertyId, NEW kind \in Prototype!Kind,
             Prototype!InsertChild(c, x, kind)
      PROVE  PrototypeInv' /\ children' = children
  <2>. DEFINE h == [Prototype!Fresh EXCEPT !.op = kind, !.pc = "commit", !.holds = {x}]
  <2>1. /\ x \in Prototype!Parents /\ ~Prototype!Locked(x)
        /\ UNCHANGED <<Prototype!tables, prototypeFaults>> /\ Prototype!Go(c, h)
    BY <1>1 DEF Prototype!InsertChild
  <2>2. h \in Txn /\ h.op = kind /\ h.holds = {x} /\ h.drop = {}
    BY DEF Prototype!Fresh, Txn, Key
  <2>. HIDE DEF h
  <2>. QED
    BY <2>1, <2>2, PrototypeChildGo DEF Below, Prototype!Kind
<1>2. CASE Prototype!CommitChild(c)
  <2>1. /\ children' = children \cup {<<c, x, prototypeReq[c].op>> : x \in prototypeReq[c].holds}
        /\ Prototype!End(c, "created")
        /\ prototypeReq[c].op \in Prototype!Kind
        /\ UNCHANGED <<transfers, matters, properties, prototypeFaults>>
    BY <1>2 DEF Prototype!CommitChild
  <2>2. /\ prototypeReq' \in [Request \cup Child -> Txn]
        /\ \A q \in (Request \cup Child) \ {c} : prototypeReq'[q] = prototypeReq[q]
        /\ Exclusive'
        /\ \A d \in Child : prototypeReq'[d].holds \subseteq prototypeReq[d].holds /\ Below(prototypeReq'[d])
    BY <2>1, PrototypeDone
  <2>3. /\ prototypeReq[c].holds \subseteq Prototype!Parents
        /\ Prototype!Parents \subseteq MatterId \cup PropertyId
        /\ Prototype!Parents' = Prototype!Parents
    BY <1>t, <2>1 DEF Parented, Prototype!Parents
  <2>4. PrototypeTyped'
    BY <1>t, <2>1, <2>2, <2>3 DEF PrototypeTyped
  <2>5. Parented'
    <3>1. \A d \in children' : d[2] \in Prototype!Parents'
      <4>1. \A x \in prototypeReq[c].holds : <<c, x, prototypeReq[c].op>>[2] = x
        OBVIOUS
      <4>. QED
        BY <1>t, <2>1, <2>3, <4>1 DEF Parented
    <3>. QED
      BY <1>t, <2>2, <2>3, <3>1 DEF Parented
  <2>6. /\ Prototype!Live' = Prototype!Live
        /\ \A y : Prototype!HasChild(y) => Prototype!HasChild(y)'
        /\ \A y : Prototype!HasChild(y)' => Prototype!HasChild(y) \/ y \in prototypeReq[c].holds
        /\ \A y : Prototype!MattersOf(y)' = Prototype!MattersOf(y)
    <3>1. \A y : Prototype!HasChild(y) => Prototype!HasChild(y)'
      BY <2>1 DEF Prototype!HasChild
    <3>2. ASSUME NEW y, NEW d \in Child, <<d, y, "counted">> \in children',
                 <<d, y, "counted">> \notin children
          PROVE  y \in prototypeReq[c].holds
      <4>1. PICK x \in prototypeReq[c].holds : <<d, y, "counted">> = <<c, x, prototypeReq[c].op>>
        BY <2>1, <3>2
      <4>. QED
        BY <4>1
    <3>3. \A y : Prototype!HasChild(y)' => Prototype!HasChild(y) \/ y \in prototypeReq[c].holds
      BY <3>2 DEF Prototype!HasChild
    <3>. QED
      BY <2>1, <3>1, <3>3 DEF Prototype!Live, Prototype!MattersOf
  <2>7. Stages'
    <3>1. ASSUME NEW q \in Request PROVE Stage(prototypeReq[q])'
      <4>1. Stage(prototypeReq[q]) /\ prototypeReq'[q] = prototypeReq[q]
        BY <1>t, <2>2 DEF Stages
      <4>2. prototypeReq[q].drop # {} => prototypeReq[q].holds \cap prototypeReq[c].holds = {}
        BY <1>t, <4>1 DEF Exclusive, Stage
      <4>3. \A x \in prototypeReq[q].drop : ~Prototype!HasChild(x)'
        BY <2>6, <4>1, <4>2 DEF Stage
      <4>. QED
        BY <2>1, <2>6, <4>1, <4>3 DEF Stage
    <3>. QED
      BY <3>1 DEF Stages
  <2>8. SourceUsed' /\ Prototype!MatterOfTransfer'
    BY <2>1, <2>6 DEF PrototypeInv, SourceUsed, Prototype!MatterOfTransfer
  <2>. QED
    BY <2>1, <2>2, <2>4, <2>5, <2>7, <2>8 DEF PrototypeInv
<1>. QED
  BY <1>1, <1>2

\* A generated document is inserted below a matter that is still there, or not at all.
LEMMA PrototypeDocuments ==
    ASSUME PrototypeAssumption, PrototypeInv, NEW c \in Child,
           \/ \E t \in Reference : Prototype!DocumentBegin(c, t)
           \/ Prototype!resolveMatterIdForTransferReference(c) \/ Prototype!DocumentInsert(c)
    PROVE  PrototypeInv' /\ children' = children
<1>h. prototypeReq[c] \in Txn /\ prototypeReq[c].holds \subseteq Prototype!Parents
  BY DEF PrototypeInv, PrototypeTyped, Parented
<1>1. ASSUME NEW t \in Reference, Prototype!DocumentBegin(c, t)
      PROVE  PrototypeInv' /\ children' = children
  <2>1. CASE t \in Prototype!Live
    <3>. DEFINE h == [Prototype!Fresh EXCEPT !.op = "document", !.pc = "matter", !.t = t]
    <3>1. h \in Txn /\ h.op = "document" /\ h.holds = {} /\ h.drop = {}
      BY DEF Prototype!Fresh, Txn
    <3>2. Prototype!Go(c, h) /\ UNCHANGED <<Prototype!tables, prototypeFaults>>
      BY <1>1, <2>1 DEF Prototype!DocumentBegin
    <3>. HIDE DEF h
    <3>. QED
      BY <3>1, <3>2, PrototypeChildGo DEF Below
  <2>2. CASE t \notin Prototype!Live
    BY <1>1, <2>2, PrototypeChildEnds DEF Prototype!DocumentBegin
  <2>. QED
    BY <2>1, <2>2
<1>2. CASE Prototype!resolveMatterIdForTransferReference(c)
  <2>0. prototypeReq[c].op = "document" /\ UNCHANGED <<Prototype!tables, prototypeFaults>>
    BY <1>2 DEF Prototype!resolveMatterIdForTransferReference, Prototype!At
  <2>1. ASSUME NEW m \in Prototype!MattersOf(prototypeReq[c].t), Prototype!Go(c, [prototypeReq[c] EXCEPT !.pc = "insert", !.matter = m])
        PROVE  PrototypeInv' /\ children' = children
    <3>. DEFINE h == [prototypeReq[c] EXCEPT !.pc = "insert", !.matter = m]
    <3>1. m \in MatterId
      BY DEF Prototype!MattersOf
    <3>2. /\ h \in Txn /\ h.op = "document" /\ h.holds = prototypeReq[c].holds
          /\ h.drop = prototypeReq[c].drop
      BY <1>h, <2>0, <3>1 DEF Txn
    <3>. HIDE DEF h
    <3>3. prototypeReq[c].drop = {} /\ prototypeReq[c].holds = {}
      BY <2>0 DEF PrototypeInv, Parented, Below
    <3>. QED
      BY <2>0, <2>1, <3>2, <3>3, PrototypeChildGo DEF h, Below
  <2>. QED
    BY <1>2, <2>0, <2>1, PrototypeChildEnds
       DEF Prototype!resolveMatterIdForTransferReference
<1>3. CASE Prototype!DocumentInsert(c)
  <2>0. UNCHANGED <<Prototype!tables, prototypeFaults>> /\ ~Prototype!Locked(prototypeReq[c].matter)
    BY <1>3 DEF Prototype!DocumentInsert
  <2>1. CASE prototypeReq[c].matter \in Prototype!Parents
    <3>. DEFINE h == [Prototype!Fresh EXCEPT !.op = "cascading", !.pc = "commit", !.holds = {prototypeReq[c].matter}]
    <3>1. prototypeReq[c].matter \in Key
      BY <2>1 DEF Prototype!Parents, Key
    <3>2. h \in Txn /\ h.op = "cascading" /\ h.holds = {prototypeReq[c].matter} /\ h.drop = {}
      BY <3>1 DEF Prototype!Fresh, Txn, Prototype!Kind
    <3>3. Prototype!Go(c, h) /\ "cascading" \in Prototype!Kind
      BY <1>3, <2>1 DEF Prototype!DocumentInsert, Prototype!Kind
    <3>. HIDE DEF h
    <3>. QED
      BY <2>0, <2>1, <3>2, <3>3, PrototypeChildGo DEF Below, Prototype!Kind
  <2>2. CASE prototypeReq[c].matter \notin Prototype!Parents
    BY <1>3, <2>0, <2>2, PrototypeChildEnds DEF Prototype!DocumentInsert
  <2>. QED
    BY <2>1, <2>2
<1>. QED
  BY <1>1, <1>2, <1>3

-----------------------------------------------------------------------------

LEMMA PrototypeInit == ASSUME PrototypeAssumption, Prototype!Init PROVE PrototypeInv
<1>0. PICK linked \in SUBSET ExistingReference :
         transfers = [t \in Reference |->
             IF t \notin ExistingReference THEN Prototype!Absent(Prototype!Unused)
             ELSE Prototype!Row(IF t \in linked THEN matterOf[t] ELSE Prototype!None, propertyOf[t])]
  BY DEF Prototype!Init
<1>1. \A t \in Reference :
         /\ t \in ExistingReference => \/ transfers[t] = Prototype!Row(matterOf[t], propertyOf[t])
                                      \/ transfers[t] = Prototype!Row(Prototype!None, propertyOf[t])
         /\ t \notin ExistingReference => transfers[t] = Prototype!Absent(Prototype!Unused)
  BY <1>0
<1>2. \A t \in ExistingReference : \A m \in {matterOf[t], Prototype!None} :
         Prototype!Row(m, propertyOf[t]) \in LiveRow /\ Prototype!Row(m, propertyOf[t]).row = "live"
         /\ Prototype!Row(m, propertyOf[t]).matter = m
  BY DEF Prototype!Row, LiveRow, PrototypeAssumption
<1>3. \A m \in MatterId : \/ matters[m] \in ExistingReference /\ matterOf[matters[m]] = m
                          \/ matters[m] = Prototype!None /\ ~\E t \in ExistingReference : matterOf[t] = m
  BY DEF Prototype!Init
<1>4. \A p \in PropertyId : properties[p] \in ExistingReference \cup {Prototype!Unused}
  BY DEF Prototype!Init
<1>5. /\ prototypeReq = [r \in Request \cup Child |-> Prototype!Fresh] /\ children = {}
      /\ prototypeFaults = 0
      /\ matters = [m \in MatterId |-> matters[m]]
      /\ properties = [p \in PropertyId |-> properties[p]]
      /\ transfers = [t \in Reference |-> transfers[t]]
  BY <1>0 DEF Prototype!Init
<1>6. Prototype!Absent(Prototype!Unused).row = Prototype!Unused
  BY DEF Prototype!Absent
<1>7. Prototype!Live = ExistingReference
  BY <1>1, <1>2, <1>6 DEF Prototype!Live, PrototypeAssumption, Prototype!Unused
<1>8. /\ Prototype!Fresh \in Txn /\ Prototype!Fresh.op = Prototype!None
      /\ Prototype!Fresh.holds = {} /\ Prototype!Fresh.drop = {}
  BY PrototypeFresh
<1>9. PrototypeTyped
  <2>1. transfers \in [Reference -> {Prototype!Absent(Prototype!Unused), Prototype!Absent("deleted")} \cup LiveRow]
    <3>1. \A t \in Reference : transfers[t] \in {Prototype!Absent(Prototype!Unused), Prototype!Absent("deleted")} \cup LiveRow
      BY <1>1, <1>2
    <3>. QED
      BY <1>5, <3>1
  <2>2. matters \in [MatterId -> Reference \cup {Prototype!None}]
    BY <1>3, <1>5 DEF PrototypeAssumption
  <2>3. properties \in [PropertyId -> Reference \cup {Prototype!None, Prototype!Unused}]
    BY <1>4, <1>5 DEF PrototypeAssumption
  <2>. QED
    BY <1>5, <1>8, <2>1, <2>2, <2>3 DEF PrototypeTyped, PrototypeAssumption
<1>10. Exclusive /\ Parented
  BY <1>5, <1>8 DEF Exclusive, Parented, Below
<1>11. SourceUsed
  BY <1>1, <1>2, <1>3 DEF SourceUsed, PrototypeAssumption, Prototype!Unused
<1>12. Stages
  <2>1. Stage(Prototype!Fresh)
    BY <1>8, PrototypeIdle
  <2>2. \A r \in Request : prototypeReq[r] = Prototype!Fresh
    BY <1>5
  <2>. QED
    BY <2>1, <2>2 DEF Stages
<1>13. Prototype!MatterOfTransfer
  <2>1. ASSUME NEW t \in Prototype!Live
        PROVE  \E m \in MatterId : Prototype!MattersOf(t) = {m} /\ transfers[t].matter \in {m, Prototype!None}
    <3>1. /\ t \in ExistingReference /\ t \in Reference /\ t # Prototype!None
          /\ transfers[t].matter \in {matterOf[t], Prototype!None}
          /\ matterOf[t] \in MatterId
      BY <1>1, <1>2, <1>7 DEF PrototypeAssumption
    <3>2. matters[matterOf[t]] = t
      BY <1>3, <3>1 DEF PrototypeAssumption
    <3>3. \A m \in MatterId : matters[m] = t => m = matterOf[t]
      BY <1>3, <3>1
    <3>. QED
      BY <3>1, <3>2, <3>3 DEF Prototype!MattersOf
  <2>. QED
    BY <1>3, <1>7, <2>1 DEF Prototype!MatterOfTransfer
<1>. QED
  BY <1>9, <1>10, <1>11, <1>12, <1>13 DEF PrototypeInv

LEMMA PrototypeStep ==
    ASSUME PrototypeAssumption, PrototypeInv, [Prototype!Next]_(Prototype!vars)
    PROVE  PrototypeInv' /\ Prototype!KeepsChildren
<1>1. PrototypeInv' /\ \A c \in children : c[3] = "counted" => c \in children'
  <2>1. CASE UNCHANGED Prototype!vars
    <3>1. UNCHANGED <<transfers, matters, properties, children, prototypeReq, prototypeFaults>>
      BY <2>1 DEF Prototype!vars
    <3>2. /\ Prototype!Live' = Prototype!Live /\ Prototype!Parents' = Prototype!Parents
          /\ (\A x : Prototype!HasChild(x)' <=> Prototype!HasChild(x))
          /\ \A x : Prototype!MattersOf(x)' = Prototype!MattersOf(x)
      BY <3>1 DEF Prototype!Live, Prototype!Parents, Prototype!HasChild, Prototype!MattersOf
    <3>3. PrototypeTyped' /\ Exclusive' /\ Parented' /\ SourceUsed'
      BY <3>1, <3>2 DEF PrototypeInv, PrototypeTyped, Exclusive, Parented, SourceUsed
    <3>4. Stages'
      BY <3>1, <3>2 DEF PrototypeInv, Stages, Stage
    <3>5. Prototype!MatterOfTransfer'
      BY <3>1, <3>2 DEF PrototypeInv, Prototype!MatterOfTransfer
    <3>. QED
      BY <3>1, <3>3, <3>4, <3>5 DEF PrototypeInv
  <2>2. ASSUME NEW c \in Child,
               \/ \E x \in MatterId \cup PropertyId, kind \in Prototype!Kind : Prototype!InsertChild(c, x, kind)
               \/ Prototype!CommitChild(c)
               \/ \E t \in Reference : Prototype!DocumentBegin(c, t)
               \/ Prototype!resolveMatterIdForTransferReference(c) \/ Prototype!DocumentInsert(c)
        PROVE  PrototypeInv' /\ children \subseteq children'
    BY <2>2, PrototypeChildren, PrototypeDocuments
  <2>3. ASSUME NEW r \in Request,
               \/ (\E t \in Reference : Prototype!PostBegin(r, t)) \/ Prototype!PostInsert(r)
               \/ \E t \in Reference, u \in BOOLEAN : Prototype!PutBegin(r, t, u)
               \/ Prototype!PutUpdate(r) \/ Prototype!PutProperty(r) \/ Prototype!getOrCreateMatterForTransfer(r)
               \/ \E t \in Reference : Prototype!DeleteBegin(r, t)
               \/ Prototype!DeleteLock(r) \/ Prototype!DeleteLockMatter(r) \/ Prototype!DeleteMatter(r)
               \/ Prototype!DeleteLockProperty(r) \/ Prototype!DeleteProperty(r) \/ Prototype!DeleteAnswer(r) \/ Prototype!Rollback(r)
        PROVE  PrototypeInv' /\ children \subseteq children'
    <3>1. PrototypeInv'
      BY <2>3, PrototypePosts, PrototypePuts, PrototypeDeletes, PrototypeRolls
    <3>2. UNCHANGED children
      BY <2>3 DEF Prototype!PostBegin, Prototype!PostInsert, Prototype!PutBegin,
         Prototype!PutUpdate, Prototype!PutProperty,
           Prototype!getOrCreateMatterForTransfer, Prototype!DeleteBegin, Prototype!DeleteLock, Prototype!DeleteLockMatter, Prototype!DeleteMatter,
           Prototype!DeleteLockProperty, Prototype!DeleteProperty, Prototype!DeleteAnswer, Prototype!Rollback, Prototype!tables
    <3>. QED
      BY <3>1, <3>2
  <2>4. ASSUME NEW r \in Request, Prototype!PostCommit(r) \/ Prototype!PutCommit(r) \/ Prototype!DeleteCommit(r)
        PROVE  PrototypeInv' /\ \A c \in children : c[3] = "counted" => c \in children'
    <3>1. CASE Prototype!PostCommit(r) \/ Prototype!PutCommit(r)
      <4>1. UNCHANGED children
        BY <3>1 DEF Prototype!PostCommit, Prototype!PutCommit
      <4>. QED
        BY <3>1, <4>1, PrototypePostCommits, PrototypePutCommits
    <3>2. CASE Prototype!DeleteCommit(r)
      BY <3>2, PrototypeDeleteCommits
    <3>. QED
      BY <2>4, <3>1, <3>2
  <2>. QED
    BY <2>1, <2>2, <2>3, <2>4 DEF Prototype!Next
<1>. QED
  BY <1>1 DEF Prototype!KeepsChildren, PrototypeInv, Parented

-----------------------------------------------------------------------------

\* The invariant of the prototype's transactions.
THEOREM PrototypeKeep == ASSUME PrototypeAssumption PROVE Prototype!Spec => []PrototypeInv
<1>1. Prototype!Init => PrototypeInv
  BY PrototypeInit
<1>2. PrototypeInv /\ [Prototype!Next]_(Prototype!vars) => PrototypeInv'
  BY PrototypeStep
<1>. QED
  BY <1>1, <1>2, PTL DEF Prototype!Spec

\* One matter names a transfer as its source, and the transfer's link leads there
\* if it has one, under any interleaving of creations, updates, deletions,
\* failures, generated documents and other routes' inserts; a matter without its
\* transfer was kept for the counted rows that hang off it.
THEOREM PrototypeMatterOfTransfer ==
    ASSUME PrototypeAssumption
    PROVE  Prototype!Spec => []Prototype!MatterOfTransfer
<1>1. PrototypeInv => Prototype!MatterOfTransfer
  BY DEF PrototypeInv
<1>. QED
  BY <1>1, PrototypeKeep, PTL

\* The rows and the transactions keep their types.
THEOREM PrototypeTypeOK == ASSUME PrototypeAssumption PROVE Prototype!Spec => []Prototype!TypeOK
<1>1. PrototypeInv => Prototype!TypeOK
  BY DEF PrototypeInv, PrototypeTyped, Prototype!TypeOK, Txn, Key, LiveRow
<1>. QED
  BY <1>1, PrototypeKeep, PTL

\* No step takes along a row of a counted table that another route has inserted,
\* nor leaves a row of any table whose parent is gone.
THEOREM PrototypeChildrenSurvive ==
    ASSUME PrototypeAssumption
    PROVE  Prototype!Spec => Prototype!ChildrenSurvive
<1>1. PrototypeInv /\ [Prototype!Next]_(Prototype!vars) => [Prototype!KeepsChildren]_(Prototype!vars)
  BY PrototypeStep
<1>. QED
  BY <1>1, PrototypeKeep, PTL DEF Prototype!Spec, Prototype!ChildrenSurvive

-----------------------------------------------------------------------------

\* A matter has finitely many milestones, and the other's is none of them.
MilestonesAssumption ==
    IsFiniteSet(Milestone) /\ OtherMilestone \notin Milestone /\ MaxFaults \in Nat

\* The item under way is of this matter.
ItemOfMatter ==
    \A r \in Request : milestonesReq[r].pc = "update" =>
        milestonesReq[r].items # <<>> /\ Head(milestonesReq[r].items)[1] \in Milestone

\* What a transaction logs of a row is what it wrote to it.
LoggedAsWritten ==
    \A r \in Request : \A m \in Milestone : \A k \in DOMAIN Milestones!Own(r, m) :
        Milestones!Own(r, m)[k].logged = Milestones!Own(r, m)[k].updated

\* History rows are of transactions that have ended.
EndedByNow == \A m \in Milestone : \A e \in milestonesHistory[m] : e.ended <= clock

MilestonesInv == Milestones!TypeOK /\ ItemOfMatter /\ LoggedAsWritten /\ EndedByNow /\ Milestones!HistoryEndsAtRow

LEMMA MilestonesCardinality == \A S : Milestones!Cardinality(S) = Cardinality(S)
BY DEF Milestones!Cardinality, Cardinality

LEMMA MilestonesShare ==
    ASSUME NEW done \in Nat, NEW all \in Nat, done <= all, all > 0
    PROVE  Milestones!Share(done, all) \in 0..100
<1>1. Milestones!Share(done, all) \in Int
  BY DEF Milestones!Share
<1>2. 2 * all > 0 /\ 200 * done + all >= 0 /\ 200 * done + all < 101 * (2 * all)
  OBVIOUS
<1>3. \A n, d \in Nat : d > 0 /\ n < 101 * d => n \div d >= 0 /\ n \div d <= 100
  BY Z3
<1>. QED
  BY <1>1, <1>2, <1>3 DEF Milestones!Share

\* Every handler is of its type, works on items of this matter, and logs what it writes.
Sound(h) ==
    /\ h \in Milestones!Handler
    /\ h.pc = "update" => h.items # <<>> /\ Head(h.items)[1] \in Milestone
    /\ \A m \in Milestone : \A k \in DOMAIN h.own[m] : h.own[m][k].logged = h.own[m][k].updated

LEMMA MilestonesGo ==
    ASSUME MilestonesInv, NEW r \in Request, NEW h, Sound(h), Milestones!Go(r, h),
           UNCHANGED <<milestonesRow, milestonesHistory, progress>>, clock' \in Nat, clock' >= clock,
           milestonesFaults' \in 0..MaxFaults
    PROVE  MilestonesInv'
<1>1. EndedByNow'
  <2>1. \A m \in Milestone : \A e \in milestonesHistory[m] : e.ended \in Nat
    BY DEF MilestonesInv, Milestones!TypeOK, Milestones!Entry
  <2>. QED
    BY <2>1 DEF MilestonesInv, Milestones!TypeOK, EndedByNow
<1>2. Milestones!TypeOK' /\ ItemOfMatter' /\ LoggedAsWritten'
  BY DEF MilestonesInv, Milestones!TypeOK, ItemOfMatter, LoggedAsWritten, Milestones!Go,
     Sound, Milestones!Own
<1>3. Milestones!HistoryEndsAtRow'
  BY DEF MilestonesInv, Milestones!HistoryEndsAtRow
<1>. QED
  BY <1>1, <1>2, <1>3 DEF MilestonesInv

\* A step that leaves the tables and the clock alone.
LEMMA MilestonesStill ==
    ASSUME MilestonesInv, NEW r \in Request, NEW h, Sound(h), Milestones!Go(r, h),
           UNCHANGED Milestones!tables,
           milestonesFaults' \in 0..MaxFaults
    PROVE  MilestonesInv'
<1>1. clock' \in Nat /\ clock' >= clock /\ UNCHANGED <<milestonesRow, milestonesHistory, progress>>
  BY DEF MilestonesInv, Milestones!TypeOK, Milestones!tables
<1>. QED
  BY <1>1, MilestonesGo

LEMMA MilestonesSound ==
    ASSUME MilestonesInv, NEW r \in Request
    PROVE  Sound(milestonesReq[r])
  BY DEF MilestonesInv, Milestones!TypeOK, ItemOfMatter, LoggedAsWritten, Sound,
     Milestones!Own

LEMMA MilestonesSame ==
    ASSUME NEW g \in Milestones!Handler, NEW h, Sound(h), g.own = h.own,
           g.pc = "update" => g.items # <<>> /\ Head(g.items)[1] \in Milestone
    PROVE  Sound(g)
  BY DEF Sound

LEMMA MilestonesFresh ==
    ASSUME NEW pc \in {"new", "read", "done", "failed"},
           NEW items \in Seq(Milestones!Item), NEW began \in Nat
    PROVE  /\ Sound([Milestones!Fresh EXCEPT !.pc = pc, !.items = items, !.began = began])
           /\ Sound([Milestones!Fresh EXCEPT !.pc = pc])
           /\ Sound(Milestones!Fresh)
<1>1. /\ Milestones!Fresh \in Milestones!Handler /\ Milestones!Fresh.pc = "new"
      /\ \A m \in Milestone : Milestones!Fresh.own[m] = <<>>
  BY DEF Milestones!Fresh, Milestones!Handler, Milestones!Status
<1>2. Sound(Milestones!Fresh)
  BY <1>1 DEF Sound
<1>3. /\ [Milestones!Fresh EXCEPT !.pc = pc, !.items = items, !.began = began] \in Milestones!Handler
      /\ [Milestones!Fresh EXCEPT !.pc = pc, !.items = items, !.began = began].own = Milestones!Fresh.own
      /\ [Milestones!Fresh EXCEPT !.pc = pc, !.items = items, !.began = began].pc = pc
      /\ [Milestones!Fresh EXCEPT !.pc = pc] \in Milestones!Handler
      /\ [Milestones!Fresh EXCEPT !.pc = pc].own = Milestones!Fresh.own
      /\ [Milestones!Fresh EXCEPT !.pc = pc].pc = pc
  BY <1>1 DEF Milestones!Handler
<1>. QED
  BY <1>2, <1>3, MilestonesSame

\* What a statement sees is a status.
LEMMA MilestonesSees ==
    ASSUME MilestonesInv, NEW r \in Request, NEW m \in Milestone
    PROVE  Milestones!Sees(r, m) \in Milestones!Status
<1>1. Milestones!Own(r, m) \in Seq(Milestones!Write) /\ milestonesRow[m] \in Milestones!Status
  BY DEF MilestonesInv, Milestones!TypeOK, Milestones!Handler, Milestones!Own
<1>2. CASE Milestones!Own(r, m) # <<>>
  <2>1. Milestones!Own(r, m)[Len(Milestones!Own(r, m))] \in Milestones!Write
    BY <1>1, <1>2, EmptySeq, LenProperties
  <2>. QED
    BY <1>2, <2>1 DEF Milestones!Sees, Milestones!Write
<1>. QED
  BY <1>1, <1>2 DEF Milestones!Sees

LEMMA MilestonesStep ==
    ASSUME MilestonesAssumption, MilestonesInv, [Milestones!Next]_(Milestones!vars)
    PROVE  MilestonesInv'
<1>. Milestones!TypeOK /\ Milestones!HistoryEndsAtRow /\ LoggedAsWritten
  BY DEF MilestonesInv
<1>0. \A r \in Request : Sound(milestonesReq[r])
  BY MilestonesSound
<1>f. milestonesFaults \in 0..MaxFaults
  BY DEF Milestones!TypeOK
<1>1. ASSUME NEW r \in Request, NEW items \in Milestones!Items, Milestones!Begin(r, items)
      PROVE  MilestonesInv'
  <2>1. items \in Seq(Milestones!Item)
    <3>1. CASE \E i \in Milestones!Item : items = <<i>>
      BY <3>1
    <3>2. CASE \E i, j \in Milestones!Item : items = <<i, j>>
      BY <3>2
    <3>. QED
      BY <3>1, <3>2 DEF Milestones!Items
  <2>2. clock + 1 \in Nat /\ clock + 1 >= clock
    BY DEF Milestones!TypeOK
  <2>3. Sound([Milestones!Fresh EXCEPT !.pc = "read", !.items = items, !.began = clock + 1])
    BY <2>1, <2>2, MilestonesFresh
  <2>. QED
    BY <1>1, <1>f, <2>2, <2>3, MilestonesGo DEF Milestones!Begin
<1>2. ASSUME NEW r \in Request, Milestones!Fail(r), UNCHANGED Milestones!tables,
             milestonesFaults' \in 0..MaxFaults
      PROVE  MilestonesInv'
  BY <1>2, EmptySeq, MilestonesFresh, MilestonesStill DEF Milestones!Fail
<1>3. ASSUME NEW r \in Request, Milestones!ReadCurrent(r) PROVE MilestonesInv'
  <2>. DEFINE m == Head(milestonesReq[r].items)[1]
              h == [milestonesReq[r] EXCEPT !.pc = "update", !.current = Milestones!Sees(r, m)]
  <2>1. milestonesReq[r].items \in Seq(Milestones!Item) /\ milestonesReq[r].items # <<>>
    BY <1>3 DEF Milestones!TypeOK, Milestones!Handler, Milestones!ReadCurrent
  <2>2. Head(milestonesReq[r].items) \in Milestones!Item
    BY <2>1
  <2>3. CASE m = OtherMilestone
    BY <1>2, <1>3, <1>f, <2>3 DEF Milestones!ReadCurrent
  <2>4. CASE m # OtherMilestone
    <3>1. m \in Milestone
      BY <2>2, <2>4 DEF Milestones!Item
    <3>2. Milestones!Sees(r, m) \in Milestones!Status
      BY <3>1, MilestonesSees
    <3>. HIDE DEF m
    <3>3. /\ h \in Milestones!Handler /\ h.own = milestonesReq[r].own
          /\ h.items = milestonesReq[r].items
      BY <3>2 DEF Milestones!TypeOK, Milestones!Handler
    <3>4. Sound(h)
      BY <1>0, <2>1, <3>1, <3>3, MilestonesSame DEF m
    <3>. QED
      BY <1>3, <1>f, <2>4, <3>4, MilestonesStill DEF Milestones!ReadCurrent, m
  <2>. QED
    BY <2>3, <2>4
<1>4. ASSUME NEW r \in Request, Milestones!updateSingleMilestone(r) PROVE MilestonesInv'
  <2>. DEFINE m == Head(milestonesReq[r].items)[1]
              s == Head(milestonesReq[r].items)[2]
              updated == IF s = Milestones!Keep THEN Milestones!Sees(r, m) ELSE s
              h == [milestonesReq[r] EXCEPT !.pc = "read", !.items = Tail(@), !.holds = @ \cup {m},
                                  !.own[m] = Append(@, [updated |-> updated, logged |-> updated])]
  <2>1. /\ milestonesReq[r] \in Milestones!Handler
        /\ milestonesReq[r].items \in Seq(Milestones!Item) /\ milestonesReq[r].items # <<>>
        /\ m \in Milestone
    BY <1>0, <1>4 DEF Sound, Milestones!Handler, Milestones!updateSingleMilestone
  <2>2. /\ Head(milestonesReq[r].items) \in Milestones!Item
        /\ Tail(milestonesReq[r].items) \in Seq(Milestones!Item)
    BY <2>1
  <2>3. updated \in Milestones!Status
    BY <2>1, <2>2, MilestonesSees DEF Milestones!Item
  <2>4. Milestones!Go(r, h) /\ UNCHANGED Milestones!tables /\ milestonesFaults' \in 0..MaxFaults
    BY <1>4, <1>f DEF Milestones!updateSingleMilestone, Milestones!NewStatus
  <2>. HIDE DEF updated, m
  <2>. DEFINE w == [updated |-> updated, logged |-> updated]
  <2>5. /\ w \in Milestones!Write /\ w.logged = w.updated
        /\ milestonesReq[r].own[m] \in Seq(Milestones!Write)
    BY <2>1, <2>3 DEF Milestones!Write, Milestones!Handler
  <2>. HIDE DEF w
  <2>6. \A k \in DOMAIN Append(milestonesReq[r].own[m], w) :
           Append(milestonesReq[r].own[m], w)[k].logged = Append(milestonesReq[r].own[m], w)[k].updated
    BY <1>0, <2>1, <2>5, AppendProperties, LenProperties DEF Sound
  <2>7. h.own = [milestonesReq[r].own EXCEPT ![m] = Append(@, w)]
    BY <2>1 DEF Milestones!Handler, w
  <2>8. Append(milestonesReq[r].own[m], w) \in Seq(Milestones!Write)
    BY <2>5
  <2>9. h \in Milestones!Handler
    BY <2>1, <2>2, <2>7, <2>8 DEF Milestones!Handler
  <2>10. \A n \in Milestone : h.own[n] = IF n = m THEN Append(milestonesReq[r].own[m], w) ELSE milestonesReq[r].own[n]
    BY <2>1, <2>7 DEF Milestones!Handler
  <2>11. h.pc = "read"
    BY <2>1 DEF Milestones!Handler
  <2>12. Sound(h)
    BY <1>0, <2>6, <2>9, <2>10, <2>11 DEF Sound
  <2>. QED
    BY <2>4, <2>12, MilestonesStill
<1>5. ASSUME NEW r \in Request,
             Milestones!syncTransferProgressFromMilestones(r) PROVE MilestonesInv'
  <2>. DEFINE share == Milestones!Share(Cardinality(Milestones!Completed(r)), Cardinality(Milestones!Required(r)))
  <2>1. CASE Milestones!Required(r) = {}
    <3>. DEFINE g == [milestonesReq[r] EXCEPT !.pc = "commit"]
    <3>2. g \in Milestones!Handler /\ g.own = milestonesReq[r].own /\ g.pc = "commit"
      BY DEF Milestones!TypeOK, Milestones!Handler
    <3>1. Sound(g)
      BY <1>0, <3>2, MilestonesSame
    <3>. QED
      BY <1>5, <1>f, <2>1, <3>1, MilestonesStill
         DEF Milestones!syncTransferProgressFromMilestones
  <2>2. CASE Milestones!Required(r) # {}
    <3>1. /\ Milestones!Completed(r) \subseteq Milestones!Required(r)
          /\ IsFiniteSet(Milestones!Required(r))
      BY FS_Subset DEF MilestonesAssumption, Milestones!Completed, Milestones!Required
    <3>2. /\ Cardinality(Milestones!Completed(r)) \in Nat
          /\ Cardinality(Milestones!Required(r)) \in Nat
          /\ Cardinality(Milestones!Completed(r)) <= Cardinality(Milestones!Required(r))
          /\ Cardinality(Milestones!Required(r)) # 0
      BY <2>2, <3>1, FS_Subset, FS_CardinalityType, FS_EmptySet
    <3>3. share \in 0..100
      BY <3>2, MilestonesShare
    <3>0. /\ Milestones!Go(r, [milestonesReq[r] EXCEPT !.pc = "progress", !.share = share])
          /\ UNCHANGED <<Milestones!tables, milestonesFaults>>
      BY <1>5, <2>2, MilestonesCardinality DEF Milestones!syncTransferProgressFromMilestones
    <3>. HIDE DEF share
    <3>. DEFINE g == [milestonesReq[r] EXCEPT !.pc = "progress", !.share = share]
    <3>5. g \in Milestones!Handler /\ g.own = milestonesReq[r].own /\ g.pc = "progress"
      BY <3>3 DEF Milestones!TypeOK, Milestones!Handler
    <3>4. Sound(g)
      BY <1>0, <3>5, MilestonesSame
    <3>6. Milestones!Go(r, g) /\ UNCHANGED Milestones!tables /\ milestonesFaults' \in 0..MaxFaults
      BY <1>f, <3>0
    <3>. HIDE DEF g
    <3>. QED
      BY <3>4, <3>6, MilestonesStill
  <2>. QED
    BY <2>1, <2>2
<1>6. ASSUME NEW r \in Request, Milestones!UpdateTransfer(r) PROVE MilestonesInv'
  <2>. DEFINE g == [milestonesReq[r] EXCEPT !.pc = "commit", !.holds = @ \cup {Milestones!Transfer}]
  <2>2. g \in Milestones!Handler /\ g.own = milestonesReq[r].own /\ g.pc = "commit"
    BY DEF Milestones!TypeOK, Milestones!Handler
  <2>1. Sound(g)
    BY <1>0, <2>2, MilestonesSame
  <2>. QED
    BY <1>2, <1>6, <1>f, <2>1, MilestonesStill DEF Milestones!UpdateTransfer
<1>7. ASSUME NEW r \in Request, Milestones!Commit(r) PROVE MilestonesInv'
  <2>1. \A m \in Milestone : /\ milestonesRow'[m] = Milestones!Sees(r, m) /\ milestonesRow'[m] \in Milestones!Status
                             /\ milestonesHistory'[m] = milestonesHistory[m] \cup Milestones!Logged(r, m)
    BY <1>7, MilestonesSees DEF Milestones!Commit
  <2>n. clock \in Nat /\ clock' = clock + 1 /\ milestonesReq[r].began \in Nat
    BY <1>7 DEF Milestones!Commit, Milestones!TypeOK, Milestones!Handler
  <2>2. ASSUME NEW m \in Milestone
        PROVE  /\ milestonesHistory'[m] \subseteq Milestones!Entry
               /\ \A f \in milestonesHistory'[m] : f.ended <= clock'
               /\ milestonesHistory'[m] # {} =>
                     \E e \in milestonesHistory'[m] : /\ e.status = milestonesRow'[m]
                                                      /\ \A f \in milestonesHistory'[m] : Milestones!StandsAbove(f, e) => Milestones!Within(f, e)
    <3>. DEFINE own == Milestones!Own(r, m)
    <3>1. own \in Seq(Milestones!Write) /\ milestonesHistory[m] \subseteq Milestones!Entry
      BY DEF Milestones!TypeOK, Milestones!Handler, Milestones!Own
    <3>2. /\ DOMAIN own = 1..Len(own) /\ Len(own) \in Nat
          /\ \A k \in 1..Len(own) : own[k] \in Milestones!Write /\ own[k].logged = own[k].updated
      BY <3>1, LenProperties DEF LoggedAsWritten
    <3>3. \A f \in Milestones!Logged(r, m) : f \in Milestones!Entry /\ f.ended = clock'
      BY <2>n, <3>2 DEF Milestones!Logged, Milestones!Write, Milestones!Entry
    <3>4. \A f \in milestonesHistory[m] : f \in Milestones!Entry /\ f.ended \in Nat /\ f.ended <= clock
      BY <3>1 DEF MilestonesInv, EndedByNow, Milestones!Entry
    <3>5. /\ milestonesHistory'[m] \subseteq Milestones!Entry
          /\ \A f \in milestonesHistory'[m] : f.ended <= clock'
      BY <2>1, <2>n, <3>3, <3>4
    <3>6. CASE own = <<>>
      <4>1. Milestones!Logged(r, m) = {} /\ milestonesRow'[m] = milestonesRow[m]
        BY <2>1, <3>2, <3>6, EmptySeq DEF Milestones!Logged, Milestones!Sees
      <4>. QED
        BY <2>1, <3>5, <4>1 DEF Milestones!HistoryEndsAtRow
    <3>7. CASE own # <<>>
      <4>. DEFINE e == [status |-> own[Len(own)].logged, began |-> milestonesReq[r].began, ended |-> clock + 1]
      <4>1. Len(own) \in DOMAIN own
        BY <3>1, <3>2, <3>7, EmptySeq, LenProperties
      <4>2. e \in milestonesHistory'[m] /\ e.ended = clock'
        BY <2>1, <2>n, <4>1 DEF Milestones!Logged
      <4>3. e.status = milestonesRow'[m]
        BY <2>1, <3>2, <3>7, <4>1 DEF Milestones!Sees
      <4>4. \A f \in milestonesHistory'[m] : Milestones!StandsAbove(f, e) => Milestones!Within(f, e)
        BY <3>5, <4>2 DEF Milestones!StandsAbove, Milestones!Within
      <4>. QED
        BY <3>5, <4>2, <4>3, <4>4
    <3>. QED
      BY <3>6, <3>7
  <2>3. /\ milestonesRow' \in [Milestone -> Milestones!Status]
        /\ milestonesHistory' \in [Milestone -> SUBSET Milestones!Entry]
        /\ clock' \in Nat
    BY <1>7, <2>1, <2>2, <2>n DEF Milestones!Commit
  <2>4. progress' \in 0..100 /\ milestonesFaults' \in 0..MaxFaults
    BY <1>7, <1>0, <1>f DEF Milestones!Commit, Milestones!TypeOK, Sound, Milestones!Handler
  <2>5. /\ \A q \in Request : Sound(milestonesReq'[q])
        /\ milestonesReq' \in [Request -> Milestones!Handler]
    <3>1. Sound([Milestones!Fresh EXCEPT !.pc = "done"])
      BY EmptySeq, MilestonesFresh
    <3>. QED
      BY <1>0, <1>7, <3>1 DEF Milestones!Commit, Milestones!Go, Milestones!TypeOK, Sound
  <2>6. Milestones!HistoryEndsAtRow' /\ EndedByNow'
    BY <2>2 DEF Milestones!HistoryEndsAtRow, EndedByNow
  <2>. QED
    BY <2>3, <2>4, <2>5, <2>6
    DEF MilestonesInv, Milestones!TypeOK, ItemOfMatter, LoggedAsWritten, Sound, Milestones!Own
<1>8. ASSUME NEW r \in Request, Milestones!DeadlockVictim(r) \/ Milestones!Rollback(r)
      PROVE  MilestonesInv'
  BY <1>2, <1>8, <1>f DEF Milestones!DeadlockVictim, Milestones!Rollback,
     MilestonesAssumption
<1>9. CASE UNCHANGED Milestones!vars
  BY <1>9 DEF Milestones!vars, MilestonesInv, Milestones!TypeOK, ItemOfMatter,
     LoggedAsWritten, EndedByNow, Milestones!HistoryEndsAtRow, Milestones!Own
<1>. QED
  BY <1>1, <1>3, <1>4, <1>5, <1>6, <1>7, <1>8, <1>9 DEF Milestones!Next

LEMMA MilestonesInit == ASSUME MilestonesAssumption, Milestones!Init PROVE MilestonesInv
<1>1. \A r \in Request : Sound(milestonesReq[r]) /\ milestonesReq[r] \in Milestones!Handler
  BY EmptySeq, MilestonesFresh DEF Milestones!Init, Sound
<1>2. Milestones!TypeOK
  BY <1>1 DEF Milestones!Init, Milestones!TypeOK, Milestones!Status, MilestonesAssumption
<1>. QED
  BY <1>1, <1>2 DEF Milestones!Init, MilestonesInv, ItemOfMatter, LoggedAsWritten,
     EndedByNow, Milestones!HistoryEndsAtRow, Sound, Milestones!Own

\* The invariant of the milestone handlers.
THEOREM MilestonesKeep == ASSUME MilestonesAssumption PROVE Milestones!Spec => []MilestonesInv
<1>1. Milestones!Init => MilestonesInv
  BY MilestonesInit
<1>2. MilestonesInv /\ [Milestones!Next]_(Milestones!vars) => MilestonesInv'
  BY MilestonesStep
<1>. QED
  BY <1>1, <1>2, PTL DEF Milestones!Spec

\* The status of a milestone's row is that of one of its history rows, and only rows
\* of transactions that ran wholly within that one's stand above it on the page,
\* however PATCHes and PUTs interleave and fail.
THEOREM MilestonesHistory ==
    ASSUME MilestonesAssumption
    PROVE  Milestones!Spec => []Milestones!HistoryEndsAtRow
<1>1. MilestonesInv => Milestones!HistoryEndsAtRow
  BY DEF MilestonesInv
<1>. QED
  BY <1>1, MilestonesKeep, PTL

\* Rows, histories and handlers keep their types.
THEOREM MilestonesTypeOK == ASSUME MilestonesAssumption PROVE Milestones!Spec => []Milestones!TypeOK
<1>1. MilestonesInv => Milestones!TypeOK
  BY DEF MilestonesInv
<1>. QED
  BY <1>1, MilestonesKeep, PTL

-----------------------------------------------------------------------------
(***************************************************************************)
(* The rows under a transfer, for any transfers, documents, definitions and*)
(* requests.  A request is judged by what it has read and locked: past its *)
(* UPDATE of the transfer a PUT holds the row alone, so that the parties it*)
(* has listed are still the ones it replaces.                              *)
(***************************************************************************)
AggregateAssumption ==
    /\ Before \notin Request /\ NoRow \notin Aggregate!Writer /\ NoRow \notin Aggregate!DocumentRow
    /\ MaxFaults \in Nat

Thing == Definition \cup Transfer \cup {Before} \cup Aggregate!Writer \cup ((Transfer \cup {Before}) \X Doc)
LockKey == {"definition", "transfer", "financials", "key", "party", "document"} \X Thing
Body == [columns: BOOLEAN, figures: {"none", "part", "whole"}, list: Aggregate!Lists \cup {NoList}, docs: SUBSET Doc]
PartyRow == [id: Aggregate!Writer, of: Aggregate!Writer]
Req == [op: {"none", "post", "put", "delete", "upload", "patch", "add", "statement", "detail"},
        pc: {"new", "definition", "commit", "columns", "financials", "parties", "documents", "link",
             "lock", "cascade", "write", "update", "insert", "sync", "read", "done"},
        t: Transfer \cup {Before}, holds: SUBSET LockKey, body: Body, adds: SUBSET Definition,
        parties: SUBSET PartyRow, unread: SUBSET Aggregate!Parts, lacks: SUBSET Aggregate!Parts, beside: Aggregate!Writer,
        answer: {"none", "500", "404", "created", "updated", "deleted", "saved", "200"}]

AggregateTyped ==
    /\ aggregateRow \in [Transfer -> {"unused", "live", "deleted"}]
    /\ price \in [Transfer -> Aggregate!Writer]
    /\ aggregateFinancials \in [Transfer -> Aggregate!Writer \cup {NoRow}]
    /\ aggregateParties \in [Transfer -> SUBSET PartyRow]
    /\ aggregateDocuments \in [Transfer -> [Doc -> Aggregate!DocumentRow \cup {NoRow}]]
    /\ definitions \subseteq Definition /\ milestones \in [Transfer -> SUBSET Definition]
    /\ aggregateFiles \subseteq Aggregate!Writer /\ aggregateFaults \in 0 .. MaxFaults
    /\ aggregateReq \in [Request -> Req]

\* A PUT that has written its columns, and a request whose end is still to come.
Past == {"financials", "update", "insert", "parties", "documents", "link"}
Pending(c, op) == c.op = op /\ c.pc # "done"

\* What request r has got to know, if c is its record.
FineReq(r, c) ==
    /\ c.pc = "new" => c.op = "none"
    /\ c.pc # "done" => c.answer = "none"
    /\ c.op \notin {"none", "post"} => c.t \in Transfer /\ aggregateRow[c.t] # "unused"
    /\ c.op = "post" => c.t \in Transfer
    /\ Pending(c, "post") => aggregateRow[c.t] = "unused" /\ \A q \in Request \ {r} : aggregateReq[q].t # c.t
    /\ c.op = "post" /\ c.pc = "commit" => definitions = Definition \/ c.adds = Definition
    /\ c.op = "detail" /\ c.lacks # {} /\ c.t \notin Existing => aggregateRow[c.t] = "deleted"
    /\ c.op = "put" /\ c.body.columns /\ c.pc \in Past => Aggregate!Key("transfer", c.t) \in c.holds

Written(r, c) == c.op = "upload" /\ c.pc = "update" => r \in aggregateFiles

Stored ==
    /\ definitions \in {{}, Definition}
    /\ \A t \in Transfer \ Existing : aggregateRow[t] = "live" =>
          /\ milestones[t] = Definition /\ aggregateFinancials[t] # NoRow
          /\ \A d \in Doc : aggregateDocuments[t][d] # NoRow
    /\ Aggregate!PricesAgree /\ Aggregate!FilesOfRows

Sole == \A q, r \in Request : \A t \in Transfer :
            Aggregate!Key("transfer", t) \in aggregateReq[q].holds /\ Aggregate!Key("transfer", t) \in aggregateReq[r].holds => q = r

AllColumns == \A r \in Aggregate!Puts : aggregateReq[r].body.columns

\* What a PUT has listed is what it will find when it commits.
ListedNow(r) ==
    aggregateReq[r].op = "put" /\ aggregateReq[r].pc \in {"documents", "link"} /\ aggregateReq[r].body.list # NoList
                 /\ aggregateRow[aggregateReq[r].t] = "live"
    => aggregateReq[r].parties = Aggregate!Listed(r) /\ Aggregate!PartyKeys(Aggregate!Ids(aggregateReq[r].t)) \subseteq aggregateReq[r].holds

\* A new party is of a request that has committed.
Owned(t) == \A p \in aggregateParties[t] : p.id \in Request => aggregateReq[p.id].pc = "done"

OneRequest(t) == Aggregate!Committed(t) = {} \/ \E r \in Aggregate!Committed(t) : Aggregate!LeftBy(r, t)

Listings ==
    AllColumns => /\ \A r \in Request : ListedNow(r)
                  /\ \A t \in Transfer : Owned(t) /\ (aggregateRow[t] = "live" => OneRequest(t))

AggregateInv ==
    /\ AggregateTyped
    /\ \A r \in Request : FineReq(r, aggregateReq[r]) /\ Written(r, aggregateReq[r])
    /\ Stored /\ Sole /\ Listings

-----------------------------------------------------------------------------

LEMMA AggregateReq ==
    ASSUME AggregateInv, NEW r \in Request
    PROVE  /\ aggregateReq[r] \in Req /\ FineReq(r, aggregateReq[r])
           /\ aggregateReq[r].t \in Transfer \cup {Before}
           /\ aggregateReq[r].holds \subseteq LockKey /\ aggregateReq[r].body \in Body
           /\ aggregateReq[r].adds \subseteq Definition
           /\ aggregateReq[r].parties \subseteq PartyRow
           /\ aggregateReq[r].body.docs \subseteq Doc
           /\ aggregateReq[r].body.list \in Aggregate!Lists \cup {NoList}
           /\ aggregateReq[r].body.columns \in BOOLEAN
BY DEF AggregateInv, AggregateTyped, Req, Body

LEMMA AggregateIds ==
    ASSUME AggregateInv, NEW t \in Transfer
    PROVE  Aggregate!Ids(t) \subseteq Aggregate!Writer /\ aggregateParties[t] \subseteq PartyRow
BY DEF AggregateInv, AggregateTyped, Aggregate!Ids, PartyRow

\* The rows a statement locks.
LEMMA AggregateNeeds ==
    ASSUME AggregateInv, NEW r \in Request
    PROVE  /\ aggregateReq[r].pc \in {"new", "done"} => Aggregate!Needs(r) = {}
           /\ Aggregate!At(r, "put", "columns") => Aggregate!Needs(r) = {Aggregate!Key("transfer", aggregateReq[r].t)}
           /\ Aggregate!At(r, "delete", "lock") => Aggregate!Needs(r) = {Aggregate!Key("transfer", aggregateReq[r].t)}
           /\ Aggregate!At(r, "put", "financials") => Aggregate!Needs(r) = {}
           /\ Aggregate!At(r, "put", "update") \/ Aggregate!At(r, "put", "insert") => Aggregate!Needs(r) = {Aggregate!Key("financials", aggregateReq[r].t)}
           /\ Aggregate!At(r, "put", "parties") =>
                          Aggregate!Needs(r) = IF aggregateReq[r].body.list = NoList THEN {} ELSE Aggregate!PartyKeys(Aggregate!Ids(aggregateReq[r].t))
           /\ Aggregate!At(r, "put", "documents") => Aggregate!Needs(r) = Aggregate!DocumentKeys(aggregateReq[r].t, aggregateReq[r].body.docs)
<1>1. aggregateReq[r].pc \in {"new", "done"} => Aggregate!Needs(r) = {}
  BY DEF Aggregate!Needs, Aggregate!At
<1>2. Aggregate!At(r, "put", "columns") => Aggregate!Needs(r) = {Aggregate!Key("transfer", aggregateReq[r].t)}
  BY DEF Aggregate!Needs, Aggregate!At
<1>3. Aggregate!At(r, "delete", "lock") => Aggregate!Needs(r) = {Aggregate!Key("transfer", aggregateReq[r].t)}
  BY DEF Aggregate!Needs, Aggregate!At
<1>4. /\ Aggregate!At(r, "put", "financials") => Aggregate!Needs(r) = {}
      /\ Aggregate!At(r, "put", "update") \/ Aggregate!At(r, "put", "insert") => Aggregate!Needs(r) = {Aggregate!Key("financials", aggregateReq[r].t)}
  BY DEF Aggregate!Needs, Aggregate!At
<1>5. Aggregate!At(r, "put", "parties") =>
                  Aggregate!Needs(r) = IF aggregateReq[r].body.list = NoList THEN {} ELSE Aggregate!PartyKeys(Aggregate!Ids(aggregateReq[r].t))
  BY DEF Aggregate!Needs, Aggregate!At
<1>6. Aggregate!At(r, "put", "documents") => Aggregate!Needs(r) = Aggregate!DocumentKeys(aggregateReq[r].t, aggregateReq[r].body.docs)
  BY DEF Aggregate!Needs, Aggregate!At
<1>. QED
  BY <1>1, <1>2, <1>3, <1>4, <1>5, <1>6

\* What a step adds to the locks of a request is typed, and a lock on a transfer
\* is only added with nobody else holding it.
LEMMA AggregateKeys ==
    ASSUME AggregateInv, NEW t \in Transfer
    PROVE  /\ Aggregate!Key("transfer", t) \in LockKey /\ Aggregate!Key("financials", t) \in LockKey
           /\ Aggregate!Key("key", t) \in LockKey
           /\ Aggregate!PartyKeys(Aggregate!Ids(t)) \subseteq LockKey
           /\ \A ds \in SUBSET Doc : Aggregate!DocumentKeys(t, ds) \subseteq LockKey
           /\ \A d \in Definition : Aggregate!Key("definition", d) \in LockKey
           /\ \A u : /\ Aggregate!Key("transfer", u) \notin Aggregate!PartyKeys(Aggregate!Ids(t)) \cup {Aggregate!Key("financials", t), Aggregate!Key("key", t)}
                     /\ \A ds \in SUBSET Doc : Aggregate!Key("transfer", u) \notin Aggregate!DocumentKeys(t, ds)
                     /\ \A d \in Definition : Aggregate!Key("transfer", u) # Aggregate!Key("definition", d)
<1>1. /\ Aggregate!Key("transfer", t) \in LockKey /\ Aggregate!Key("financials", t) \in LockKey
      /\ Aggregate!Key("key", t) \in LockKey
      /\ \A d \in Definition : Aggregate!Key("definition", d) \in LockKey
  BY DEF Aggregate!Key, LockKey, Thing
<1>2. Aggregate!PartyKeys(Aggregate!Ids(t)) \subseteq LockKey
  BY AggregateIds DEF Aggregate!PartyKeys, Aggregate!Key, LockKey, Thing
<1>3. \A ds \in SUBSET Doc : Aggregate!DocumentKeys(t, ds) \subseteq LockKey
  BY DEF Aggregate!DocumentKeys, Aggregate!Key, LockKey, Thing
<1>4. \A u : /\ Aggregate!Key("transfer", u) \notin Aggregate!PartyKeys(Aggregate!Ids(t)) \cup {Aggregate!Key("financials", t), Aggregate!Key("key", t)}
             /\ \A ds \in SUBSET Doc : Aggregate!Key("transfer", u) \notin Aggregate!DocumentKeys(t, ds)
             /\ \A d \in Definition : Aggregate!Key("transfer", u) # Aggregate!Key("definition", d)
  BY DEF Aggregate!PartyKeys, Aggregate!DocumentKeys, Aggregate!Key
<1>. QED
  BY <1>1, <1>2, <1>3, <1>4

\* A request that waits is neither new nor done.
LEMMA AggregateWaits ==
    ASSUME AggregateInv, NEW r \in Request, Aggregate!WaitsFor(r) # {}
    PROVE  aggregateReq[r].pc \notin {"new", "done"}
<1>1. CASE aggregateReq[r].pc \in {"new", "done"}
  <2>1. /\ Aggregate!Needs(r) = {} /\ ~Aggregate!At(r, "delete", "lock")
        /\ ~Aggregate!At(r, "statement", "sync")
    BY <1>1, AggregateNeeds DEF Aggregate!At
  <2>. QED
    BY <2>1 DEF Aggregate!WaitsFor
<1>. QED
  BY <1>1

LEMMA AggregateDeadlocked ==
    ASSUME AggregateInv, NEW r \in Request, Aggregate!Deadlocked(r)
    PROVE  aggregateReq[r].pc \notin {"new", "done"}
BY AggregateWaits DEF Aggregate!Deadlocked

LEMMA AggregateGo ==
    ASSUME AggregateInv, NEW r \in Request, NEW e \in Req, Aggregate!Go(r, e)
    PROVE  /\ aggregateReq' \in [Request -> Req] /\ aggregateReq'[r] = e
           /\ \A q \in Request : q # r => aggregateReq'[q] = aggregateReq[q]
BY DEF Aggregate!Go, AggregateInv, AggregateTyped

-----------------------------------------------------------------------------

\* The figures of a statement of account, saved.
Saved(r, e) ==
    /\ UNCHANGED <<aggregateRow, price, aggregateParties, aggregateDocuments, definitions, milestones>>
    /\ aggregateFinancials' = [aggregateFinancials EXCEPT ![e.t] = r]
    /\ e.t \in Transfer /\ e.op = "statement" /\ e.pc = "done" /\ e.beside = price[e.t]

\* A step of one request that writes no table but these figures: it keeps, reads,
\* locks, or ends without other effect.
Quiet(r, e) ==
    /\ Aggregate!Go(r, e)
    /\ UNCHANGED Aggregate!tables \/ Saved(r, e)
    /\ aggregateFiles \subseteq aggregateFiles' /\ aggregateFiles' \subseteq Aggregate!Writer
    /\ aggregateFaults' \in 0 .. MaxFaults
    /\ aggregateReq[r].pc # "done"
    /\ e.t = aggregateReq[r].t \/ (e.t \in Transfer /\ aggregateRow[e.t] # "unused") \/ \A q \in Request : aggregateReq[q].t # e.t
    /\ e.op = "upload" /\ e.pc = "update" => r \in aggregateFiles'
    /\ \A t \in Transfer : Aggregate!Key("transfer", t) \in e.holds \ aggregateReq[r].holds =>
           \A q \in Request \ {r} : Aggregate!Key("transfer", t) \notin aggregateReq[q].holds
    /\ aggregateReq[r].op = "put" => e.op = "put" /\ e.body.columns = aggregateReq[r].body.columns
    /\ e.answer \notin {"created", "updated"}

\* The prices agree where the figures or the transfer are new or gone, and where
\* nothing is written, as no statement that is saved is forgotten.
LEMMA AggregatePrices ==
    ASSUME Aggregate!PricesAgree,
           \A q \in Request : aggregateReq[q].op = "statement" /\ aggregateReq[q].pc = "done" => aggregateReq'[q] = aggregateReq[q],
           \A t \in Transfer :
              \/ aggregateRow'[t] # "live" \/ aggregateFinancials'[t] \in {NoRow, price'[t]}
              \/ aggregateRow[t] = "live" /\ aggregateFinancials'[t] = aggregateFinancials[t] /\ price'[t] = price[t]
    PROVE  Aggregate!PricesAgree'
<1> SUFFICES ASSUME NEW t \in Transfer, aggregateRow'[t] = "live", aggregateFinancials'[t] # NoRow
             PROVE  aggregateFinancials'[t] \in {price'[t]} \cup Aggregate!SavedBeside(t)'
  BY DEF Aggregate!PricesAgree
<1>1. CASE aggregateFinancials'[t] = price'[t]
  BY <1>1
<1>2. CASE aggregateRow[t] = "live" /\ aggregateFinancials'[t] = aggregateFinancials[t] /\ price'[t] = price[t]
  <2>1. aggregateFinancials[t] = price[t] \/ aggregateFinancials[t] \in Aggregate!SavedBeside(t)
    BY <1>2 DEF Aggregate!PricesAgree
  <2>2. Aggregate!SavedBeside(t) \subseteq Aggregate!SavedBeside(t)'
    BY <1>2 DEF Aggregate!SavedBeside
  <2>. QED
    BY <1>2, <2>1, <2>2
<1>. QED
  BY <1>1, <1>2

LEMMA AggregateQuiet ==
    ASSUME AggregateInv, AggregateAssumption, NEW r \in Request, NEW e \in Req, Quiet(r, e),
           FineReq(r, e), AllColumns => ListedNow(r)'
    PROVE  AggregateInv'
<1>1. /\ aggregateReq' \in [Request -> Req] /\ aggregateReq'[r] = e
      /\ \A q \in Request : q # r => aggregateReq'[q] = aggregateReq[q]
  BY AggregateGo DEF Quiet
<1>2. /\ aggregateRow' = aggregateRow /\ price' = price /\ aggregateParties' = aggregateParties
      /\ aggregateDocuments' = aggregateDocuments /\ definitions' = definitions
      /\ milestones' = milestones
      /\ aggregateFiles \subseteq aggregateFiles'
  BY DEF Quiet, Saved, Aggregate!tables
<1>f. /\ aggregateFinancials' \in [Transfer -> Aggregate!Writer \cup {NoRow}]
      /\ \A t \in Transfer : \/ aggregateFinancials'[t] = aggregateFinancials[t]
                             \/ aggregateFinancials'[t] = r /\ Saved(r, e) /\ e.t = t
  <2>1. /\ aggregateFinancials \in [Transfer -> Aggregate!Writer \cup {NoRow}]
        /\ r \in Aggregate!Writer
    BY DEF AggregateInv, AggregateTyped, Aggregate!Writer
  <2>2. CASE UNCHANGED Aggregate!tables
    <3>1. aggregateFinancials' = aggregateFinancials
      BY <2>2 DEF Aggregate!tables
    <3>. QED
      BY <2>1, <3>1
  <2>3. CASE Saved(r, e)
    <3>1. aggregateFinancials' = [aggregateFinancials EXCEPT ![e.t] = r] /\ e.t \in Transfer
      BY <2>3 DEF Saved
    <3>. QED
      BY <2>1, <2>3, <3>1
  <2>. QED
    BY <2>2, <2>3 DEF Quiet
<1>3. AggregateTyped'
  BY <1>1, <1>2, <1>f DEF AggregateInv, AggregateTyped, Quiet
<1>4. \A q \in Request : FineReq(q, aggregateReq[q])'
  <2> SUFFICES ASSUME NEW q \in Request PROVE FineReq(q, aggregateReq[q])'
    OBVIOUS
  <2>1. CASE q = r
    BY <1>1, <1>2, <2>1 DEF FineReq, Pending
  <2>2. CASE q # r
    <3>1. FineReq(q, aggregateReq[q]) /\ aggregateReq'[q] = aggregateReq[q]
      BY <1>1, <2>2, AggregateReq
    <3>2. ASSUME Pending(aggregateReq[q], "post") PROVE e.t # aggregateReq[q].t
      <4>1. aggregateReq[r].t # aggregateReq[q].t /\ aggregateRow[aggregateReq[q].t] = "unused"
        BY <2>2, <3>1, <3>2 DEF FineReq
      <4>. QED
        BY <4>1 DEF Quiet
    <3>3. Pending(aggregateReq[q], "post") => \A p \in Request \ {q} : aggregateReq'[p].t # aggregateReq[q].t
      <4>1. ASSUME Pending(aggregateReq[q], "post"),
                   NEW p \in Request \ {q} PROVE aggregateReq'[p].t # aggregateReq[q].t
        BY <1>1, <3>1, <3>2, <4>1 DEF FineReq
      <4>. QED
        BY <4>1
    <3>. QED
      BY <1>2, <3>1, <3>3 DEF FineReq, Pending
  <2>. QED
    BY <2>1, <2>2
<1>5. \A q \in Request : Written(q, aggregateReq[q])'
  BY <1>1, <1>2 DEF Written, AggregateInv, Quiet
<1>6. Stored'
  <2>2. Aggregate!FilesOfRows'
    BY <1>2 DEF AggregateInv, Stored, Aggregate!FilesOfRows
  <2>3. Aggregate!PricesAgree'
    <3>1. ASSUME NEW t \in Transfer, aggregateRow[t] = "live",
                 aggregateFinancials'[t] # NoRow
          PROVE  aggregateFinancials'[t] \in {price[t]} \cup Aggregate!SavedBeside(t)'
      <4>1. CASE aggregateFinancials'[t] = r /\ Saved(r, e) /\ e.t = t
        BY <1>1, <1>2, <4>1 DEF Aggregate!SavedBeside, Saved
      <4>2. CASE aggregateFinancials'[t] = aggregateFinancials[t]
        <5>1. aggregateFinancials[t] = price[t] \/ aggregateFinancials[t] \in Aggregate!SavedBeside(t)
          BY <3>1, <4>2 DEF AggregateInv, Stored, Aggregate!PricesAgree
        <5>2. Aggregate!SavedBeside(t) \subseteq Aggregate!SavedBeside(t)'
          BY <1>1, <1>2 DEF Aggregate!SavedBeside, Quiet
        <5>. QED
          BY <4>2, <5>1, <5>2
      <4>. QED
        BY <1>f, <4>1, <4>2
    <3>. QED
      BY <1>2, <3>1 DEF Aggregate!PricesAgree
  <2>4. r # NoRow
    BY DEF AggregateAssumption, Aggregate!Writer
  <2>5. \A t \in Transfer : aggregateFinancials[t] # NoRow => aggregateFinancials'[t] # NoRow
    BY <1>f, <2>4
  <2>. QED
    BY <1>2, <2>2, <2>3, <2>5 DEF AggregateInv, Stored
<1>7. Sole'
  BY <1>1 DEF AggregateInv, Sole, Quiet
<1>8. Listings'
  <2> SUFFICES ASSUME AllColumns'
               PROVE  /\ \A q \in Request : ListedNow(q)'
                      /\ \A t \in Transfer : Owned(t)' /\ (aggregateRow[t] = "live" => OneRequest(t)')
    BY <1>2 DEF Listings
  <2>1. AllColumns
    <3>1. ASSUME NEW q \in Aggregate!Puts PROVE aggregateReq[q].body.columns
      BY <1>1 DEF AllColumns, Aggregate!Puts, Quiet
    <3>. QED
      BY <3>1 DEF AllColumns
  <2>2. ASSUME NEW q \in Request PROVE ListedNow(q)'
    <3>1. CASE q = r
      BY <2>1, <3>1
    <3>2. CASE q # r
      <4>1. ListedNow(q) /\ aggregateReq'[q] = aggregateReq[q]
        BY <1>1, <2>1, <3>2 DEF AggregateInv, Listings
      <4>. QED
        BY <1>2, <4>1 DEF ListedNow, Aggregate!Listed, Aggregate!Ids
    <3>. QED
      BY <3>1, <3>2
  <2>3. ASSUME NEW t \in Transfer, aggregateRow[t] = "live" PROVE OneRequest(t)'
    <3>1. OneRequest(t)
      BY <2>1, <2>3 DEF AggregateInv, Listings
    <3>2. r \notin Aggregate!Committed(t) /\ r \notin Aggregate!Committed(t)'
      BY <1>1, AggregateReq DEF Aggregate!Committed, Quiet, FineReq
    <3>3. Aggregate!Committed(t)' = Aggregate!Committed(t)
      BY <1>1, <3>2 DEF Aggregate!Committed
    <3>4. \A q \in Aggregate!Committed(t) : Aggregate!LeftBy(q, t)' <=> Aggregate!LeftBy(q, t)
      <4>1. ASSUME NEW q \in Aggregate!Committed(t)
            PROVE  Aggregate!LeftBy(q, t)' <=> Aggregate!LeftBy(q, t)
        <5>1. aggregateReq'[q] = aggregateReq[q]
          BY <1>1, <3>2 DEF Aggregate!Committed
        <5>. QED
          BY <1>2, <5>1 DEF Aggregate!LeftBy, Aggregate!Ids
      <4>. QED
        BY <4>1
    <3>. QED
      BY <3>1, <3>3, <3>4 DEF OneRequest
  <2>4. ASSUME NEW t \in Transfer PROVE Owned(t)'
    <3>1. Owned(t)
      BY <2>1 DEF AggregateInv, Listings
    <3>2. \A q \in Request : aggregateReq[q].pc = "done" => aggregateReq'[q].pc = "done"
      BY <1>1 DEF Quiet
    <3>. QED
      BY <1>2, <3>1, <3>2 DEF Owned
  <2>. QED
    BY <2>2, <2>3, <2>4
<1>. QED
  BY <1>3, <1>4, <1>5, <1>6, <1>7, <1>8 DEF AggregateInv

\* The record that End leaves.
Ended(r, answer) ==
    [aggregateReq[r] EXCEPT !.pc = "done", !.holds = {}, !.adds = {}, !.parties = {}, !.answer = answer,
                            !.body = [@ EXCEPT !.figures = "none", !.docs = {}]]

LEMMA AggregateEnded ==
    ASSUME AggregateInv, NEW r \in Request,
           NEW answer \in {"500", "404", "created", "updated", "deleted", "saved", "200"}
    PROVE  \E e \in Req :
             /\ e = Ended(r, answer)
             /\ e.pc = "done" /\ e.holds = {} /\ e.answer = answer /\ e.t = aggregateReq[r].t
             /\ e.op = aggregateReq[r].op
             /\ e.body.columns = aggregateReq[r].body.columns
             /\ e.body.list = aggregateReq[r].body.list
             /\ e.lacks = aggregateReq[r].lacks
<1>1. PICK b : b = [aggregateReq[r].body EXCEPT !.figures = "none", !.docs = {}]
  OBVIOUS
<1>2. b \in Body /\ b.columns = aggregateReq[r].body.columns /\ b.list = aggregateReq[r].body.list
  BY <1>1, AggregateReq DEF Body
<1>3. PICK e : e = [aggregateReq[r] EXCEPT !.pc = "done", !.holds = {}, !.adds = {}, !.parties = {}, !.answer = answer,
                                           !.body = b]
  OBVIOUS
<1>4. /\ e \in Req /\ e.pc = "done" /\ e.holds = {} /\ e.answer = answer /\ e.t = aggregateReq[r].t
      /\ e.op = aggregateReq[r].op
      /\ e.body = b /\ e.lacks = aggregateReq[r].lacks
  BY <1>2, <1>3, AggregateReq DEF Req
<1>5. e = Ended(r, answer)
  BY <1>1, <1>3 DEF Ended
<1>. QED
  BY <1>2, <1>4, <1>5

LEMMA AggregateQuits ==
    ASSUME AggregateInv, AggregateAssumption, NEW r \in Request, NEW answer \in {"500", "404", "saved"},
           Aggregate!End(r, answer), aggregateReq[r].pc \notin {"new", "done"}, UNCHANGED Aggregate!tables, aggregateFiles' = aggregateFiles,
           aggregateFaults' \in 0 .. MaxFaults
    PROVE  AggregateInv'
<1>1. PICK e \in Req :
         /\ e = Ended(r, answer)
         /\ e.pc = "done" /\ e.holds = {} /\ e.answer = answer /\ e.t = aggregateReq[r].t
         /\ e.op = aggregateReq[r].op
         /\ e.body.columns = aggregateReq[r].body.columns /\ e.body.list = aggregateReq[r].body.list
         /\ e.lacks = aggregateReq[r].lacks
  <2>1. answer \in {"500", "404", "created", "updated", "deleted", "saved", "200"}
    OBVIOUS
  <2>. QED
    BY <2>1, AggregateEnded
<1>2. Aggregate!Go(r, e)
  BY <1>1 DEF Aggregate!End, Ended
<1>3. aggregateFiles \subseteq Aggregate!Writer
  BY DEF AggregateInv, AggregateTyped
<1>4. Quiet(r, e)
  BY <1>1, <1>2, <1>3 DEF Quiet
<1>5. FineReq(r, e)
  BY <1>1, AggregateReq DEF FineReq, Pending, Past
<1>6. aggregateReq'[r] = e
  BY <1>2, AggregateGo
<1>7. ListedNow(r)'
  BY <1>1, <1>6 DEF ListedNow
<1>. QED
  BY <1>4, <1>5, <1>7, AggregateQuiet

LEMMA AggregateFaults ==
    ASSUME AggregateInv, AggregateAssumption
    PROVE  /\ aggregateFaults \in 0 .. MaxFaults
           /\ (aggregateFaults < MaxFaults => aggregateFaults + 1 \in 0 .. MaxFaults)
           /\ aggregateFiles \subseteq Aggregate!Writer
BY DEF AggregateInv, AggregateTyped, AggregateAssumption

LEMMA AggregateRollback ==
    ASSUME AggregateInv, AggregateAssumption, NEW r \in Request, Aggregate!Rollback(r) \/ Aggregate!AbortVictim(r)
    PROVE  AggregateInv'
<1>1. aggregateReq[r].pc \notin {"new", "done"}
  BY AggregateDeadlocked DEF Aggregate!Rollback, Aggregate!AbortVictim
<1>2. /\ UNCHANGED Aggregate!tables /\ aggregateFiles' = aggregateFiles
      /\ aggregateFaults' \in 0 .. MaxFaults
      /\ \E answer \in {"500", "404", "saved"} : Aggregate!End(r, answer)
  BY AggregateFaults DEF Aggregate!Rollback, Aggregate!AbortVictim, Aggregate!Fails
<1>. QED
  BY <1>1, <1>2, AggregateQuits

\* A request that begins: it has nothing yet but its transfer.
LEMMA AggregateBegins ==
    ASSUME AggregateInv, AggregateAssumption, NEW r \in Request,
           aggregateReq[r].pc = "new", NEW e \in Req,
           Aggregate!Go(r, e), UNCHANGED <<Aggregate!tables, aggregateFiles, aggregateFaults>>, e.holds = {}, e.lacks = {}, e.adds = {},
           e.answer \in {"none", "404", "saved"}, e.pc # "done" => e.answer = "none",
           e.pc \notin {"new", "documents", "link"}, e.op # "none", e.t \in Transfer,
           e.op # "post" => aggregateRow[e.t] # "unused",
           e.op = "post" => aggregateRow[e.t] = "unused" /\ \A q \in Request : aggregateReq[q].t # e.t,
           e.op = "post" /\ e.pc = "commit" => definitions = Definition,
           e.op = "put" /\ e.body.columns => e.pc \in {"columns", "done"},
           ~(e.op = "upload" /\ e.pc = "update")
    PROVE  AggregateInv'
<1>1. FineReq(r, e)
  BY DEF FineReq, Pending, Past
<1>2. aggregateReq[r].op # "put"
  BY AggregateReq DEF FineReq
<1>3. Quiet(r, e)
  BY <1>2, AggregateFaults DEF Quiet
<1>4. aggregateReq'[r] = e
  BY AggregateGo
<1>5. ListedNow(r)'
  BY <1>4 DEF ListedNow
<1>. QED
  BY <1>1, <1>3, <1>5, AggregateQuiet

LEMMA AggregateBodies ==
    ASSUME AggregateInv, NEW t \in Transfer
    PROVE  Aggregate!Bodies(t) \subseteq Body
<1>1. ASSUME NEW b \in [columns: BOOLEAN, figures: {"none", "part", "whole"}, list: {NoList}, docs: {{}, Doc}]
      PROVE  b \in Body
  BY <1>1 DEF Body
<1>2. ASSUME NEW b \in [columns: BOOLEAN, figures: {"none", "part", "whole"}, docs: {{}},
                        list: [retained: SUBSET Aggregate!Ids(t), named: {{}, Aggregate!Ids(t)}, new: BOOLEAN]]
      PROVE  b \in Body
  <2>1. Aggregate!Ids(t) \subseteq Aggregate!Writer
    BY AggregateIds
  <2>2. b.list \in Aggregate!Lists
    BY <2>1 DEF Aggregate!Lists
  <2>. QED
    BY <2>2 DEF Body
<1>. QED
  BY <1>1, <1>2 DEF Aggregate!Bodies

LEMMA AggregateFresh == Aggregate!Fresh \in Req /\ Aggregate!NoBody \in Body
<1>1. Aggregate!NoBody \in Body
  BY DEF Aggregate!NoBody, Body
<1>. QED
  BY <1>1 DEF Aggregate!Fresh, Req, Aggregate!Writer

LEMMA AggregateLooks ==
    ASSUME AggregateInv, AggregateAssumption, NEW r \in Request, NEW t \in Transfer,
           NEW f \in Req,
           Aggregate!Lookup(r, t, f), f.holds = {}, f.lacks = {}, f.adds = {}, f.answer = "none",
           f.pc \notin {"new", "documents", "link", "done"}, f.op \notin {"none", "post"},
           f.op = "put" /\ f.body.columns => f.pc = "columns",
           ~(f.op = "upload" /\ f.pc = "update")
    PROVE  AggregateInv'
<1>1. /\ aggregateReq[r].pc = "new" /\ aggregateRow[t] # "unused"
      /\ UNCHANGED <<Aggregate!tables, aggregateFiles, aggregateFaults>>
  BY DEF Aggregate!Lookup
<1>2. CASE aggregateRow[t] = "live"
  <2>1. PICK e : e = [f EXCEPT !.t = t]
    OBVIOUS
  <2>2. /\ e \in Req /\ e.holds = {} /\ e.lacks = {} /\ e.adds = {} /\ e.answer = "none"
        /\ e.pc = f.pc
        /\ e.op = f.op /\ e.t = t /\ e.body = f.body
    BY <2>1 DEF Req
  <2>3. Aggregate!Go(r, e)
    BY <1>2, <2>1 DEF Aggregate!Lookup
  <2>. QED
    BY <1>1, <2>2, <2>3, AggregateBegins
<1>3. CASE aggregateRow[t] # "live"
  <2>1. PICK e : e = [f EXCEPT !.t = t, !.pc = "done", !.answer = "404"]
    OBVIOUS
  <2>2. /\ e \in Req /\ e.holds = {} /\ e.lacks = {} /\ e.adds = {} /\ e.answer = "404"
        /\ e.pc = "done"
        /\ e.op = f.op /\ e.t = t /\ e.body = f.body
    BY <2>1 DEF Req
  <2>3. Aggregate!Go(r, e)
    BY <1>3, <2>1 DEF Aggregate!Lookup
  <2>. QED
    BY <1>1, <2>2, <2>3, AggregateBegins
<1>. QED
  BY <1>2, <1>3

LEMMA AggregateStarts ==
    ASSUME AggregateInv, AggregateAssumption, NEW r \in Request, NEW t \in Transfer,
           \/ Aggregate!PostBegin(r, t) \/ Aggregate!DeleteBegin(r, t) \/ Aggregate!DetailBegin(r, t) \/ Aggregate!StatementBegin(r, t)
           \/ \E body \in Aggregate!Bodies(t) : Aggregate!PutBegin(r, t, body)
           \/ \E d \in Doc : Aggregate!UploadBegin(r, t, d) \/ Aggregate!PatchBegin(r, t, d) \/ Aggregate!AddBegin(r, t, d)
    PROVE  AggregateInv'
<1>1. CASE Aggregate!PostBegin(r, t)
  <2>1. PICK e : e = [Aggregate!Fresh EXCEPT !.op = "post", !.t = t,
                                             !.pc = IF definitions = {} THEN "definition" ELSE "commit"]
    OBVIOUS
  <2>2. /\ e \in Req /\ e.holds = {} /\ e.lacks = {} /\ e.adds = {} /\ e.answer = "none"
        /\ e.pc = (IF definitions = {} THEN "definition" ELSE "commit") /\ e.op = "post" /\ e.t = t
    BY <2>1, AggregateFresh DEF Req, Aggregate!Fresh
  <2>3. definitions \in {{}, Definition}
    BY DEF AggregateInv, Stored
  <2>4. /\ Aggregate!Go(r, e) /\ aggregateReq[r].pc = "new" /\ aggregateRow[t] = "unused"
        /\ \A q \in Request : aggregateReq[q].t # t
    BY <1>1, <2>1 DEF Aggregate!PostBegin
  <2>. QED
    BY <1>1, <2>2, <2>3, <2>4, AggregateBegins DEF Aggregate!PostBegin
<1>2. CASE Aggregate!DeleteBegin(r, t)
  <2>1. PICK e : e = [Aggregate!Fresh EXCEPT !.op = "delete", !.pc = "lock", !.t = t]
    OBVIOUS
  <2>2. /\ e \in Req /\ e.holds = {} /\ e.lacks = {} /\ e.adds = {} /\ e.answer = "none"
        /\ e.pc = "lock"
        /\ e.op = "delete" /\ e.t = t
    BY <2>1, AggregateFresh DEF Req, Aggregate!Fresh
  <2>. QED
    BY <1>2, <2>1, <2>2, AggregateBegins DEF Aggregate!DeleteBegin
<1>3. CASE Aggregate!DetailBegin(r, t)
  <2>1. PICK f : f = [Aggregate!Fresh EXCEPT !.op = "detail", !.pc = "read", !.unread = Aggregate!Parts]
    OBVIOUS
  <2>2. /\ f \in Req /\ f.holds = {} /\ f.lacks = {} /\ f.adds = {} /\ f.answer = "none"
        /\ f.pc = "read"
        /\ f.op = "detail"
    BY <2>1, AggregateFresh DEF Req, Aggregate!Fresh
  <2>. QED
    BY <1>3, <2>1, <2>2, AggregateLooks DEF Aggregate!DetailBegin
<1>4. ASSUME NEW body \in Aggregate!Bodies(t), Aggregate!PutBegin(r, t, body) PROVE AggregateInv'
  <2>1. PICK f : f = [Aggregate!Fresh EXCEPT !.op = "put", !.body = body,
                                             !.pc = IF body.columns THEN "columns" ELSE "financials"]
    OBVIOUS
  <2>2. body \in Body /\ body.columns \in BOOLEAN
    BY AggregateBodies DEF Body
  <2>3. /\ f \in Req /\ f.holds = {} /\ f.lacks = {} /\ f.adds = {} /\ f.answer = "none"
        /\ f.op = "put"
        /\ f.body = body /\ f.pc = IF body.columns THEN "columns" ELSE "financials"
    BY <2>1, <2>2, AggregateFresh DEF Req, Aggregate!Fresh
  <2>4. Aggregate!Lookup(r, t, f)
    BY <1>4, <2>1 DEF Aggregate!PutBegin
  <2>. QED
    BY <2>2, <2>3, <2>4, AggregateLooks
<1>5. ASSUME NEW d \in Doc, Aggregate!UploadBegin(r, t, d) \/ Aggregate!PatchBegin(r, t, d) \/ Aggregate!AddBegin(r, t, d)
      PROVE  AggregateInv'
  <2>1. PICK op \in {"upload", "patch", "add"}, pc \in {"write", "update", "insert"} :
           /\ Aggregate!Lookup(r, t, Aggregate!ForDocument(op, pc, d))
           /\ op = "upload" => pc = "write"
    BY <1>5 DEF Aggregate!UploadBegin, Aggregate!PatchBegin, Aggregate!AddBegin
  <2>2. PICK b : b = [Aggregate!NoBody EXCEPT !.docs = {d}]
    OBVIOUS
  <2>3. b \in Body
    BY <2>2, AggregateFresh DEF Body
  <2>4. PICK f : f = [Aggregate!Fresh EXCEPT !.op = op, !.pc = pc, !.body = b]
    OBVIOUS
  <2>5. /\ f \in Req /\ f.holds = {} /\ f.lacks = {} /\ f.adds = {} /\ f.answer = "none"
        /\ f.op = op
        /\ f.pc = pc
    BY <2>3, <2>4, AggregateFresh DEF Req, Aggregate!Fresh
  <2>6. Aggregate!Lookup(r, t, f)
    BY <2>1, <2>2, <2>4 DEF Aggregate!ForDocument
  <2>. QED
    BY <2>1, <2>5, <2>6, AggregateLooks
<1>6. CASE Aggregate!StatementBegin(r, t)
  <2>1. PICK to, an : /\ to = IF aggregateRow[t] = "live" THEN "sync" ELSE "done"
                      /\ an = IF aggregateRow[t] = "live" THEN "none" ELSE "saved"
    OBVIOUS
  <2>2. PICK e : e = [Aggregate!Fresh EXCEPT !.op = "statement", !.t = t, !.pc = to, !.answer = an]
    OBVIOUS
  <2>3. /\ e \in Req /\ e.holds = {} /\ e.lacks = {} /\ e.adds = {} /\ e.answer = an /\ e.pc = to
        /\ e.op = "statement" /\ e.t = t
    BY <2>1, <2>2, AggregateFresh DEF Req, Aggregate!Fresh
  <2>4. /\ Aggregate!Go(r, e) /\ aggregateReq[r].pc = "new" /\ aggregateRow[t] # "unused"
        /\ UNCHANGED <<Aggregate!tables, aggregateFiles, aggregateFaults>>
    BY <1>6, <2>1, <2>2 DEF Aggregate!StatementBegin
  <2>. QED
    BY <2>1, <2>3, <2>4, AggregateBegins
<1>. QED
  BY <1>1, <1>2, <1>3, <1>4, <1>5, <1>6

\* A request that goes on to pc and locks rows on its way.
LEMMA AggregateGoesOn ==
    ASSUME AggregateInv, AggregateAssumption, NEW r \in Request,
           NEW locks \in SUBSET LockKey, NEW to,
           to \in {"financials", "update", "insert", "parties", "link", "cascade"},
           Aggregate!Step(r, to, locks), UNCHANGED <<Aggregate!tables, aggregateFiles, aggregateFaults>>, aggregateReq[r].pc \notin {"new", "done"},
           aggregateReq[r].op \in {"put", "delete"},
           \A t \in Transfer : Aggregate!Key("transfer", t) \in locks =>
               \A q \in Request \ {r} : Aggregate!Key("transfer", t) \notin aggregateReq[q].holds,
           aggregateReq[r].op = "put" /\ aggregateReq[r].body.columns =>
                        Aggregate!Key("transfer", aggregateReq[r].t) \in aggregateReq[r].holds \cup locks,
           to = "link" => aggregateReq[r].pc = "documents"
    PROVE  AggregateInv'
<1>1. PICK h : h = aggregateReq[r].holds \cup locks
  OBVIOUS
<1>2. h \subseteq LockKey
  BY <1>1, AggregateReq
<1>3. PICK e : e = [aggregateReq[r] EXCEPT !.pc = to, !.holds = h]
  OBVIOUS
<1>4. /\ e \in Req /\ e.holds = h /\ e.pc = to /\ e.op = aggregateReq[r].op
      /\ e.t = aggregateReq[r].t /\ e.body = aggregateReq[r].body
      /\ e.answer = aggregateReq[r].answer /\ e.parties = aggregateReq[r].parties
  BY <1>2, <1>3, AggregateReq DEF Req
<1>5. Aggregate!Go(r, e)
  BY <1>1, <1>3 DEF Aggregate!Step
<1>6. FineReq(r, aggregateReq[r]) /\ aggregateReq[r].answer = "none"
  BY AggregateReq DEF FineReq
<1>7. FineReq(r, e)
  BY <1>1, <1>4, <1>6 DEF FineReq, Pending
<1>8. Quiet(r, e)
  BY <1>1, <1>4, <1>5, <1>6, AggregateFaults DEF Quiet
<1>9. aggregateReq' \in [Request -> Req] /\ aggregateReq'[r] = e
  BY <1>4, <1>5, AggregateGo
<1>10. AllColumns => ListedNow(r)'
  <2>1. CASE to # "link"
    BY <1>4, <1>9, <2>1 DEF ListedNow
  <2>2. CASE to = "link"
    <3>1. aggregateParties' = aggregateParties /\ aggregateRow' = aggregateRow
      BY DEF Aggregate!tables
    <3>2. AllColumns => ListedNow(r)
      BY DEF AggregateInv, Listings
    <3>. QED
      BY <1>1, <1>4, <1>9, <2>2, <3>1, <3>2 DEF ListedNow, Aggregate!Listed, Aggregate!Ids
  <2>. QED
    BY <2>1, <2>2
<1>. QED
  BY <1>4, <1>7, <1>8, <1>10, AggregateQuiet

\* A statement that waits for its rows gets a transfer with nobody else holding it.
LEMMA AggregateFree ==
    ASSUME AggregateInv, NEW r \in Request, Aggregate!Free(r)
    PROVE  \A k \in Aggregate!Needs(r) : \A q \in Request \ {r} : k \notin aggregateReq[q].holds
BY DEF Aggregate!Free, Aggregate!WaitsFor

LEMMA AggregatePuts ==
    ASSUME AggregateInv, AggregateAssumption, NEW r \in Request,
           Aggregate!PutColumns(r) \/ Aggregate!PutFinds(r) \/ Aggregate!PutFinancials(r) \/ Aggregate!PutDocuments(r) \/ Aggregate!DeleteLock(r)
    PROVE  AggregateInv'
<1>1. /\ aggregateReq[r].pc \notin {"new", "done"} /\ aggregateReq[r].op \in {"put", "delete"}
      /\ aggregateReq[r].t \in Transfer
      /\ UNCHANGED <<Aggregate!tables, aggregateFiles, aggregateFaults>>
      /\ FineReq(r, aggregateReq[r]) /\ aggregateReq[r].body.docs \subseteq Doc
  BY AggregateReq DEF Aggregate!PutColumns, Aggregate!PutFinds, Aggregate!PutFinancials,
     Aggregate!PutDocuments, Aggregate!DeleteLock, Aggregate!At, FineReq
<1>2. CASE Aggregate!PutColumns(r)
  <2>1. /\ Aggregate!At(r, "put", "columns") /\ Aggregate!Free(r)
        /\ Aggregate!Step(r, "financials", Aggregate!Needs(r))
    BY <1>2 DEF Aggregate!PutColumns
  <2>2. /\ Aggregate!Needs(r) = {Aggregate!Key("transfer", aggregateReq[r].t)}
        /\ Aggregate!Needs(r) \in SUBSET LockKey
    BY <1>1, <2>1, AggregateNeeds, AggregateKeys
  <2>3. \A t \in Transfer : Aggregate!Key("transfer", t) \in Aggregate!Needs(r) =>
               \A q \in Request \ {r} : Aggregate!Key("transfer", t) \notin aggregateReq[q].holds
    BY <2>1, AggregateFree
  <2>. QED
    BY <1>1, <2>1, <2>2, <2>3, AggregateGoesOn
<1>3. CASE Aggregate!PutFinancials(r)
  <2>1. Aggregate!At(r, "put", "update") \/ Aggregate!At(r, "put", "insert")
    BY <1>3 DEF Aggregate!PutFinancials
  <2>2. CASE Aggregate!End(r, "500")
    BY <1>1, <2>2, AggregateQuits, AggregateFaults
  <2>3. CASE ~Aggregate!End(r, "500")
    <3>1. PICK locks : /\ Aggregate!Step(r, "parties", locks)
                       /\ locks \subseteq Aggregate!Needs(r) \cup {Aggregate!Key("key", aggregateReq[r].t)}
      BY <1>3, <2>3 DEF Aggregate!PutFinancials
    <3>2. locks \subseteq {Aggregate!Key("financials", aggregateReq[r].t), Aggregate!Key("key", aggregateReq[r].t)}
      BY <2>1, <3>1, AggregateNeeds
    <3>3. locks \in SUBSET LockKey /\ \A t \in Transfer : Aggregate!Key("transfer", t) \notin locks
      BY <1>1, <3>2, AggregateKeys
    <3>4. aggregateReq[r].body.columns => Aggregate!Key("transfer", aggregateReq[r].t) \in aggregateReq[r].holds
      BY <1>1, <2>1 DEF FineReq, Aggregate!At, Past
    <3>. QED
      BY <1>1, <3>1, <3>3, <3>4, AggregateGoesOn
  <2>. QED
    BY <2>2, <2>3
<1>4. CASE Aggregate!PutDocuments(r)
  <2>1. Aggregate!At(r, "put", "documents") /\ Aggregate!Step(r, "link", Aggregate!Needs(r))
    BY <1>4 DEF Aggregate!PutDocuments
  <2>2. Aggregate!Needs(r) = Aggregate!DocumentKeys(aggregateReq[r].t, aggregateReq[r].body.docs)
    BY <2>1, AggregateNeeds
  <2>3. /\ Aggregate!Needs(r) \in SUBSET LockKey
        /\ \A t \in Transfer : Aggregate!Key("transfer", t) \notin Aggregate!Needs(r)
    BY <1>1, <2>2, AggregateKeys
  <2>4. aggregateReq[r].body.columns => Aggregate!Key("transfer", aggregateReq[r].t) \in aggregateReq[r].holds
    BY <1>1, <2>1 DEF FineReq, Aggregate!At, Past
  <2>. QED
    BY <1>1, <2>1, <2>3, <2>4, AggregateGoesOn DEF Aggregate!At
<1>5. CASE Aggregate!DeleteLock(r)
  <2>1. Aggregate!At(r, "delete", "lock") /\ Aggregate!Free(r)
    BY <1>5 DEF Aggregate!DeleteLock
  <2>2. CASE aggregateRow[aggregateReq[r].t] = "live"
    <3>1. Aggregate!Step(r, "cascade", Aggregate!Needs(r))
      BY <1>5, <2>2 DEF Aggregate!DeleteLock
    <3>2. /\ Aggregate!Needs(r) = {Aggregate!Key("transfer", aggregateReq[r].t)}
          /\ Aggregate!Needs(r) \in SUBSET LockKey
      BY <1>1, <2>1, AggregateNeeds, AggregateKeys
    <3>3. \A t \in Transfer : Aggregate!Key("transfer", t) \in Aggregate!Needs(r) =>
                 \A q \in Request \ {r} : Aggregate!Key("transfer", t) \notin aggregateReq[q].holds
      BY <2>1, AggregateFree
    <3>. QED
      BY <1>1, <2>1, <3>1, <3>2, <3>3, AggregateGoesOn DEF Aggregate!At
  <2>3. CASE aggregateRow[aggregateReq[r].t] # "live"
    <3>1. Aggregate!End(r, "404")
      BY <1>5, <2>3 DEF Aggregate!DeleteLock
    <3>. QED
      BY <1>1, <3>1, AggregateQuits, AggregateFaults
  <2>. QED
    BY <2>2, <2>3
<1>6. CASE Aggregate!PutFinds(r)
  <2>1. Aggregate!At(r, "put", "financials")
    BY <1>6 DEF Aggregate!PutFinds
  <2>2. CASE Aggregate!End(r, "500")
    BY <1>1, <2>2, AggregateQuits, AggregateFaults
  <2>3. CASE ~Aggregate!End(r, "500")
    <3>1. PICK to \in {"update", "insert", "parties"} : Aggregate!Step(r, to, {})
      BY <1>6, <2>3 DEF Aggregate!PutFinds
    <3>2. aggregateReq[r].body.columns => Aggregate!Key("transfer", aggregateReq[r].t) \in aggregateReq[r].holds
      BY <1>1, <2>1 DEF FineReq, Aggregate!At, Past
    <3>. QED
      BY <1>1, <3>1, <3>2, AggregateGoesOn
  <2>. QED
    BY <2>2, <2>3
<1>. QED
  BY <1>2, <1>3, <1>4, <1>5, <1>6

\* A statement of account writes the figures it has beside the price of then.
LEMMA AggregateSaves ==
    ASSUME AggregateInv, AggregateAssumption, NEW r \in Request, Aggregate!StatementSync(r)
    PROVE  AggregateInv'
<1>1. /\ aggregateReq[r].op = "statement" /\ aggregateReq[r].pc = "sync"
      /\ FineReq(r, aggregateReq[r]) /\ aggregateReq[r].t \in Transfer
      /\ UNCHANGED <<aggregateRow, price, aggregateParties, aggregateDocuments, definitions, milestones, aggregateFiles, aggregateFaults>>
  BY AggregateReq DEF Aggregate!StatementSync, Aggregate!At, FineReq
<1>2. CASE aggregateRow[aggregateReq[r].t] # "live"
  <2>1. Aggregate!End(r, "saved") /\ UNCHANGED Aggregate!tables
    BY <1>1, <1>2 DEF Aggregate!StatementSync, Aggregate!tables
  <2>. QED
    BY <1>1, <2>1, AggregateQuits, AggregateFaults
<1>3. CASE aggregateRow[aggregateReq[r].t] = "live"
  <2>p. PICK p : p = price[aggregateReq[r].t]
    OBVIOUS
  <2>1. PICK e : e = [aggregateReq[r] EXCEPT !.pc = "done", !.answer = "saved", !.beside = p]
    OBVIOUS
  <2>2. p \in Aggregate!Writer
    BY <1>1, <2>p DEF AggregateInv, AggregateTyped
  <2>3. /\ e \in Req /\ e.holds = aggregateReq[r].holds /\ e.pc = "done" /\ e.op = "statement"
        /\ e.t = aggregateReq[r].t
        /\ e.body = aggregateReq[r].body /\ e.answer = "saved" /\ e.beside = p
    BY <1>1, <2>1, <2>2, AggregateReq DEF Req
  <2>4. /\ Aggregate!Go(r, e)
        /\ aggregateFinancials' = [aggregateFinancials EXCEPT ![aggregateReq[r].t] = r]
    BY <1>3, <2>p, <2>1 DEF Aggregate!StatementSync
  <2>5. Saved(r, e)
    BY <1>1, <2>p, <2>3, <2>4 DEF Saved
  <2>6. Quiet(r, e)
    BY <1>1, <2>3, <2>4, <2>5, AggregateFaults DEF Quiet
  <2>7. FineReq(r, e)
    BY <1>1, <2>3 DEF FineReq, Pending
  <2>8. ListedNow(r)'
    BY <2>3, <2>4, AggregateGo DEF ListedNow
  <2>. QED
    BY <2>3, <2>6, <2>7, <2>8, AggregateQuiet
<1>. QED
  BY <1>2, <1>3

\* A PUT computes the parties it will leave from those it finds, and locks these.
LEMMA AggregateLists ==
    ASSUME AggregateInv, AggregateAssumption, NEW r \in Request, Aggregate!PutParties(r)
    PROVE  AggregateInv'
<1>1. /\ Aggregate!At(r, "put", "parties") /\ aggregateReq[r].t \in Transfer
      /\ UNCHANGED <<Aggregate!tables, aggregateFiles, aggregateFaults>>
      /\ FineReq(r, aggregateReq[r])
  BY AggregateReq DEF Aggregate!PutParties, Aggregate!At, FineReq
<1>l. PICK list : list = aggregateReq[r].body.list
  OBVIOUS
<1>k. PICK key : key = IF list # NoList /\ list.new THEN {Aggregate!Key("key", aggregateReq[r].t)} ELSE {}
  OBVIOUS
<1>2. Aggregate!Needs(r) = IF list = NoList THEN {} ELSE Aggregate!PartyKeys(Aggregate!Ids(aggregateReq[r].t))
  BY <1>1, <1>l, AggregateNeeds
<1>3. PICK h : h = aggregateReq[r].holds \cup Aggregate!Needs(r) \cup key
  OBVIOUS
<1>4. /\ h \subseteq LockKey
      /\ \A t \in Transfer : Aggregate!Key("transfer", t) \in h => Aggregate!Key("transfer", t) \in aggregateReq[r].holds
  BY <1>1, <1>2, <1>3, <1>k, AggregateKeys, AggregateReq
<1>5. PICK ps : ps = IF list = NoList THEN {} ELSE Aggregate!Listed(r)
  OBVIOUS
<1>6. ps \subseteq PartyRow
  <2>1. CASE list = NoList
    BY <1>5, <2>1
  <2>2. CASE list # NoList
    <3>1. aggregateParties[aggregateReq[r].t] \subseteq PartyRow
      BY <1>1, AggregateIds
    <3>2. \A p \in aggregateParties[aggregateReq[r].t] : [p EXCEPT !.of = r] \in PartyRow /\ p \in PartyRow
      BY <3>1 DEF PartyRow, Aggregate!Writer
    <3>3. [id |-> r, of |-> r] \in PartyRow
      BY DEF PartyRow, Aggregate!Writer
    <3>4. \A p \in aggregateParties[aggregateReq[r].t] : [p EXCEPT !.of = IF p.id \in list.named THEN r ELSE @] \in PartyRow
      BY <3>2 DEF PartyRow, Aggregate!Writer
    <3>. QED
      BY <1>5, <1>l, <2>2, <3>3, <3>4 DEF Aggregate!Listed
  <2>. QED
    BY <2>1, <2>2
<1>7. PICK e : e = [aggregateReq[r] EXCEPT !.pc = "documents", !.holds = h, !.parties = ps]
  OBVIOUS
<1>8. /\ e \in Req /\ e.holds = h /\ e.pc = "documents" /\ e.op = "put" /\ e.t = aggregateReq[r].t
      /\ e.body = aggregateReq[r].body /\ e.answer = aggregateReq[r].answer /\ e.parties = ps
  BY <1>1, <1>4, <1>6, <1>7, AggregateReq DEF Req, Aggregate!At
<1>9. Aggregate!Go(r, e)
  BY <1>3, <1>5, <1>7, <1>k, <1>l DEF Aggregate!PutParties
<1>10. FineReq(r, e)
  <2>1. aggregateReq[r].body.columns => Aggregate!Key("transfer", aggregateReq[r].t) \in aggregateReq[r].holds
    BY <1>1 DEF FineReq, Aggregate!At, Past
  <2>. QED
    BY <1>1, <1>3, <1>8, <2>1 DEF FineReq, Pending, Aggregate!At
<1>11. Quiet(r, e)
  BY <1>1, <1>4, <1>8, <1>9, AggregateFaults DEF Quiet, Aggregate!At, FineReq
<1>12. aggregateReq'[r] = e
  BY <1>8, <1>9, AggregateGo
<1>13. ListedNow(r)'
  <2>1. aggregateParties' = aggregateParties
    BY <1>1 DEF Aggregate!tables
  <2>2. /\ Aggregate!Listed(r)' = Aggregate!Listed(r)
        /\ Aggregate!Ids(aggregateReq[r].t)' = Aggregate!Ids(aggregateReq[r].t)
    BY <1>8, <1>12, <2>1 DEF Aggregate!Listed, Aggregate!Ids
  <2>3. list # NoList => Aggregate!PartyKeys(Aggregate!Ids(aggregateReq[r].t)) \subseteq h /\ ps = Aggregate!Listed(r)
    BY <1>2, <1>3, <1>5
  <2>. QED
    BY <1>8, <1>12, <1>l, <2>1, <2>2, <2>3 DEF ListedNow, Aggregate!Ids
<1>. QED
  BY <1>8, <1>10, <1>11, <1>13, AggregateQuiet

\* The steps of the other requests before they write or answer.
LEMMA AggregateDefines ==
    ASSUME AggregateInv, AggregateAssumption, NEW r \in Request,
           Aggregate!ensureMilestoneDefinitions(r)
    PROVE  AggregateInv'
<1>1. /\ Aggregate!At(r, "post", "definition") /\ aggregateReq[r].t \in Transfer
      /\ UNCHANGED <<Aggregate!tables, aggregateFiles, aggregateFaults>>
      /\ FineReq(r, aggregateReq[r]) /\ Aggregate!Free(r)
  BY AggregateReq DEF Aggregate!ensureMilestoneDefinitions, Aggregate!At, FineReq
<1>2. PICK d \in Definition :
         /\ Aggregate!Needs(r) = {Aggregate!Key("definition", d)}
         /\ Aggregate!Go(r, [aggregateReq[r] EXCEPT !.adds = @ \cup {d},
                                                    !.holds = @ \cup (IF d \in definitions THEN {} ELSE Aggregate!Needs(r)),
                                                    !.pc = IF aggregateReq[r].adds \cup {d} = Definition THEN "commit" ELSE @])
  BY DEF Aggregate!ensureMilestoneDefinitions
<1>3. PICK h : h = aggregateReq[r].holds \cup (IF d \in definitions THEN {} ELSE Aggregate!Needs(r))
  OBVIOUS
<1>4. /\ h \subseteq LockKey
      /\ \A t \in Transfer : Aggregate!Key("transfer", t) \in h => Aggregate!Key("transfer", t) \in aggregateReq[r].holds
  BY <1>1, <1>2, <1>3, AggregateKeys, AggregateReq
<1>5. PICK a : a = aggregateReq[r].adds \cup {d}
  OBVIOUS
<1>6. PICK to : to = IF a = Definition THEN "commit" ELSE "definition"
  OBVIOUS
<1>7. PICK e : e = [aggregateReq[r] EXCEPT !.adds = a, !.holds = h, !.pc = to]
  OBVIOUS
<1>8. /\ e \in Req /\ e.holds = h /\ e.pc = to /\ e.op = "post" /\ e.t = aggregateReq[r].t
      /\ e.adds = a
      /\ e.body = aggregateReq[r].body /\ e.answer = aggregateReq[r].answer
  <2>1. a \subseteq Definition
    BY <1>5, AggregateReq
  <2>. QED
    BY <1>1, <1>4, <1>6, <1>7, <2>1, AggregateReq DEF Req, Aggregate!At
<1>9. Aggregate!Go(r, e)
  BY <1>1, <1>2, <1>3, <1>5, <1>6, <1>7 DEF Aggregate!At
<1>10. FineReq(r, e)
  BY <1>1, <1>6, <1>8 DEF FineReq, Pending, Aggregate!At
<1>11. Quiet(r, e)
  BY <1>1, <1>4, <1>8, <1>9, AggregateFaults DEF Quiet, Aggregate!At, FineReq
<1>12. ListedNow(r)'
  BY <1>8, <1>9, AggregateGo DEF ListedNow
<1>. QED
  BY <1>8, <1>10, <1>11, <1>12, AggregateQuiet

LEMMA AggregateUploads ==
    ASSUME AggregateInv, AggregateAssumption, NEW r \in Request, Aggregate!UploadWrite(r)
    PROVE  AggregateInv'
<1>1. /\ Aggregate!At(r, "upload", "write") /\ UNCHANGED Aggregate!tables
      /\ aggregateFaults' = aggregateFaults /\ FineReq(r, aggregateReq[r])
  BY AggregateReq DEF Aggregate!UploadWrite, Aggregate!At, FineReq
<1>2. CASE Aggregate!End(r, "500") /\ aggregateFiles' = aggregateFiles
  BY <1>1, <1>2, AggregateQuits, AggregateFaults DEF Aggregate!At
<1>3. CASE Aggregate!Go(r, [aggregateReq[r] EXCEPT !.pc = "update"]) /\ aggregateFiles' = aggregateFiles \cup {r}
  <2>1. PICK e : e = [aggregateReq[r] EXCEPT !.pc = "update"]
    OBVIOUS
  <2>2. /\ e \in Req /\ e.holds = aggregateReq[r].holds /\ e.pc = "update" /\ e.op = "upload"
        /\ e.t = aggregateReq[r].t
        /\ e.body = aggregateReq[r].body /\ e.answer = aggregateReq[r].answer
    BY <1>1, <2>1, AggregateReq DEF Req, Aggregate!At
  <2>3. FineReq(r, e)
    BY <1>1, <2>2 DEF FineReq, Pending, Aggregate!At
  <2>4. Quiet(r, e)
    BY <1>1, <1>3, <2>1, <2>2, AggregateFaults DEF Quiet, Aggregate!At, FineReq,
       Aggregate!Writer
  <2>5. ListedNow(r)'
    BY <1>3, <2>1, <2>2, AggregateGo DEF ListedNow
  <2>. QED
    BY <2>2, <2>3, <2>4, <2>5, AggregateQuiet
<1>. QED
  BY <1>2, <1>3 DEF Aggregate!UploadWrite

\* A new transfer that is not deleted has all its rows.
LEMMA AggregateReads ==
    ASSUME AggregateInv, AggregateAssumption, NEW r \in Request,
           NEW part \in Aggregate!Parts, Aggregate!DetailRead(r, part)
    PROVE  AggregateInv'
<1>1. /\ Aggregate!At(r, "detail", "read")
      /\ UNCHANGED <<Aggregate!tables, aggregateFiles, aggregateFaults>>
      /\ FineReq(r, aggregateReq[r])
      /\ aggregateReq[r].t \in Transfer /\ aggregateRow[aggregateReq[r].t] # "unused"
      /\ aggregateReq[r].unread \subseteq Aggregate!Parts
      /\ aggregateReq[r].lacks \subseteq Aggregate!Parts
  BY AggregateReq DEF Aggregate!DetailRead, Aggregate!At, FineReq, Req
<1>2. PICK rest : rest = aggregateReq[r].unread \ {part}
  OBVIOUS
<1>3. PICK ls : ls = aggregateReq[r].lacks \cup {x \in {part} : Aggregate!Missing(aggregateReq[r].t, x)}
  OBVIOUS
<1>4. PICK to : to = IF rest = {} THEN "done" ELSE "read"
  OBVIOUS
<1>5. PICK an : an = IF rest = {} THEN "200" ELSE "none"
  OBVIOUS
<1>6. PICK e : e = [aggregateReq[r] EXCEPT !.unread = rest, !.lacks = ls, !.pc = to, !.answer = an]
  OBVIOUS
<1>7. /\ e \in Req /\ e.holds = aggregateReq[r].holds /\ e.pc = to /\ e.op = "detail"
      /\ e.t = aggregateReq[r].t
      /\ e.body = aggregateReq[r].body /\ e.answer = an /\ e.lacks = ls
  <2>1. rest \in SUBSET Aggregate!Parts /\ ls \in SUBSET Aggregate!Parts
    BY <1>1, <1>2, <1>3
  <2>2. aggregateReq[r] \in Req /\ aggregateReq[r].op = "detail"
    BY <1>1, AggregateReq DEF Aggregate!At
  <2>3. /\ e.unread = rest /\ e.lacks = ls /\ e.pc = to /\ e.answer = an /\ e.op = "detail"
        /\ e.t = aggregateReq[r].t /\ e.holds = aggregateReq[r].holds
        /\ e.body = aggregateReq[r].body
    BY <1>6, <2>2 DEF Req
  <2>4. to \in {"done", "read"} /\ an \in {"200", "none"}
    BY <1>4, <1>5
  <2>5. e \in Req
    BY <1>6, <2>1, <2>2, <2>4 DEF Req
  <2>. QED
    BY <2>3, <2>5
<1>8. Aggregate!Go(r, e)
  BY <1>1, <1>2, <1>3, <1>4, <1>5, <1>6 DEF Aggregate!DetailRead, Aggregate!At, FineReq
<1>9. aggregateReq[r].t \notin Existing /\ Aggregate!Missing(aggregateReq[r].t, part) => aggregateRow[aggregateReq[r].t] = "deleted"
  <2>1. aggregateRow[aggregateReq[r].t] \in {"unused", "live", "deleted"}
    BY <1>1 DEF AggregateInv, AggregateTyped
  <2>2. aggregateReq[r].t \notin Existing /\ aggregateRow[aggregateReq[r].t] = "live" =>
          /\ aggregateFinancials[aggregateReq[r].t] # NoRow
          /\ \A d \in Doc : aggregateDocuments[aggregateReq[r].t][d] # NoRow
    BY <1>1 DEF AggregateInv, Stored
  <2>. QED
    BY <1>1, <2>1, <2>2 DEF Aggregate!Missing
<1>10. FineReq(r, e)
  BY <1>1, <1>3, <1>4, <1>5, <1>7, <1>9 DEF FineReq, Pending, Aggregate!At
<1>11. Quiet(r, e)
  BY <1>1, <1>5, <1>7, <1>8, AggregateFaults DEF Quiet, Aggregate!At
<1>12. ListedNow(r)'
  BY <1>7, <1>8, AggregateGo DEF ListedNow
<1>. QED
  BY <1>7, <1>10, <1>11, <1>12, AggregateQuiet

-----------------------------------------------------------------------------

\* What every end of a request leaves, whatever it writes.
LEMMA AggregateEnds ==
    ASSUME AggregateInv, NEW r \in Request, NEW answer \in {"500", "404", "created", "updated", "deleted", "saved", "200"},
           Aggregate!End(r, answer), aggregateFiles' = aggregateFiles
    PROVE  /\ aggregateReq' \in [Request -> Req]
           /\ \A q \in Request : q # r => aggregateReq'[q] = aggregateReq[q]
           /\ aggregateReq'[r].pc = "done" /\ aggregateReq'[r].t = aggregateReq[r].t
           /\ aggregateReq'[r].op = aggregateReq[r].op
           /\ aggregateReq'[r].answer = answer
           /\ aggregateReq'[r].body.columns = aggregateReq[r].body.columns
           /\ aggregateReq'[r].body.list = aggregateReq[r].body.list
           /\ aggregateReq'[r].lacks = aggregateReq[r].lacks
           /\ Sole' /\ \A q \in Request : Written(q, aggregateReq[q])'
           /\ AllColumns' => AllColumns
<1>1. PICK e \in Req :
         /\ e = Ended(r, answer)
         /\ e.pc = "done" /\ e.holds = {} /\ e.answer = answer /\ e.t = aggregateReq[r].t
         /\ e.op = aggregateReq[r].op
         /\ e.body.columns = aggregateReq[r].body.columns /\ e.body.list = aggregateReq[r].body.list
         /\ e.lacks = aggregateReq[r].lacks
  BY AggregateEnded
<1>2. Aggregate!Go(r, e)
  BY <1>1 DEF Aggregate!End, Ended
<1>3. /\ aggregateReq' \in [Request -> Req] /\ aggregateReq'[r] = e
      /\ \A q \in Request : q # r => aggregateReq'[q] = aggregateReq[q]
  BY <1>2, AggregateGo
<1>4. Sole'
  BY <1>1, <1>3 DEF AggregateInv, Sole
<1>5. \A q \in Request : Written(q, aggregateReq[q])'
  BY <1>1, <1>3 DEF Written, AggregateInv
<1>6. AllColumns' => AllColumns
  BY <1>1, <1>3 DEF AllColumns, Aggregate!Puts
<1>. QED
  BY <1>1, <1>3, <1>4, <1>5, <1>6

\* The other transfers are as they were.
LEMMA AggregateElsewhere ==
    ASSUME AggregateInv, NEW r \in Request, NEW answer \in {"500", "404", "created", "updated", "deleted", "saved", "200"},
           Aggregate!End(r, answer), aggregateFiles' = aggregateFiles, aggregateReq[r].pc # "done", AllColumns, NEW u \in Transfer,
           aggregateParties'[u] = aggregateParties[u],
           aggregateReq[r].t # u \/ ~(aggregateReq[r].op = "post" \/ (aggregateReq[r].op = "put" /\ aggregateReq[r].body.list # NoList))
    PROVE  /\ Owned(u)' /\ (aggregateRow[u] = "live" => OneRequest(u)')
           /\ \A q \in Request \ {r} : aggregateReq[q].t = u /\ aggregateRow'[u] = aggregateRow[u] => ListedNow(q)'
<1>1. /\ \A q \in Request : q # r => aggregateReq'[q] = aggregateReq[q]
      /\ aggregateReq'[r].pc = "done" /\ aggregateReq'[r].t = aggregateReq[r].t
      /\ aggregateReq'[r].op = aggregateReq[r].op
      /\ aggregateReq'[r].body.list = aggregateReq[r].body.list
  BY AggregateEnds
<1>2. Owned(u) /\ (aggregateRow[u] = "live" => OneRequest(u)) /\ \A q \in Request : ListedNow(q)
  BY DEF AggregateInv, Listings
<1>3. Owned(u)'
  BY <1>1, <1>2 DEF Owned
<1>4. Aggregate!Committed(u)' = Aggregate!Committed(u) /\ r \notin Aggregate!Committed(u)
  BY <1>1 DEF Aggregate!Committed
<1>5. \A q \in Aggregate!Committed(u) : Aggregate!LeftBy(q, u)' <=> Aggregate!LeftBy(q, u)
  <2>1. ASSUME NEW q \in Aggregate!Committed(u)
        PROVE  Aggregate!LeftBy(q, u)' <=> Aggregate!LeftBy(q, u)
    <3>1. aggregateReq'[q] = aggregateReq[q]
      BY <1>1, <1>4 DEF Aggregate!Committed
    <3>. QED
      BY <3>1 DEF Aggregate!LeftBy, Aggregate!Ids
  <2>. QED
    BY <2>1
<1>6. aggregateRow[u] = "live" => OneRequest(u)'
  BY <1>2, <1>4, <1>5 DEF OneRequest
<1>7. ASSUME NEW q \in Request \ {r}, aggregateReq[q].t = u,
             aggregateRow'[u] = aggregateRow[u] PROVE ListedNow(q)'
  <2>1. aggregateReq'[q] = aggregateReq[q] /\ ListedNow(q)
    BY <1>1, <1>2
  <2>. QED
    BY <1>7, <2>1 DEF ListedNow, Aggregate!Listed, Aggregate!Ids
<1>. QED
  BY <1>3, <1>6, <1>7

LEMMA AggregateSets ==
    ASSUME AggregateInv, AggregateAssumption, NEW r \in Request,
           aggregateReq[r].op \in {"upload", "patch", "add"},
           aggregateReq[r].pc \notin {"new", "done"},
           NEW answer \in {"500", "404", "created", "updated", "deleted", "saved", "200"}, Aggregate!End(r, answer),
           NEW d \in Doc, NEW f \in Aggregate!DocumentRow, f.file \in aggregateFiles \cup {"none"},
           Aggregate!SetDocument(aggregateReq[r].t, d, f), UNCHANGED <<aggregateFiles, aggregateFaults>>
    PROVE  AggregateInv'
<1>1. /\ aggregateReq' \in [Request -> Req]
      /\ \A q \in Request : q # r => aggregateReq'[q] = aggregateReq[q]
      /\ aggregateReq'[r].pc = "done" /\ aggregateReq'[r].t = aggregateReq[r].t
      /\ aggregateReq'[r].op = aggregateReq[r].op
      /\ Sole' /\ \A q \in Request : Written(q, aggregateReq[q])'
      /\ AllColumns' => AllColumns
  BY AggregateEnds
<1>2. /\ aggregateRow' = aggregateRow /\ price' = price
      /\ aggregateFinancials' = aggregateFinancials /\ aggregateParties' = aggregateParties
      /\ definitions' = definitions /\ milestones' = milestones /\ aggregateFiles' = aggregateFiles
      /\ aggregateFaults' = aggregateFaults
      /\ aggregateDocuments' = [aggregateDocuments EXCEPT ![aggregateReq[r].t][d] = f]
  BY DEF Aggregate!SetDocument
<1>3. aggregateReq[r].t \in Transfer /\ FineReq(r, aggregateReq[r])
  BY AggregateReq DEF FineReq
<1>4. /\ aggregateDocuments' \in [Transfer -> [Doc -> Aggregate!DocumentRow \cup {NoRow}]]
      /\ \A t \in Transfer, x \in Doc : aggregateDocuments'[t][x] = aggregateDocuments[t][x] \/ aggregateDocuments'[t][x] = f
  BY <1>2, <1>3 DEF AggregateInv, AggregateTyped
<1>5. AggregateTyped'
  BY <1>1, <1>2, <1>4 DEF AggregateInv, AggregateTyped
<1>6. \A q \in Request : FineReq(q, aggregateReq[q])'
  <2> SUFFICES ASSUME NEW q \in Request PROVE FineReq(q, aggregateReq[q])'
    OBVIOUS
  <2>1. \A p \in Request : aggregateReq'[p].t = aggregateReq[p].t
    BY <1>1
  <2>2. CASE q = r
    BY <1>1, <1>2, <1>3, <2>2 DEF FineReq, Pending, Past
  <2>3. CASE q # r
    BY <1>1, <1>2, <2>1, <2>3, AggregateReq DEF FineReq, Pending, Past
  <2>. QED
    BY <2>2, <2>3
<1>7. Stored'
  <2>1. f # NoRow
    BY DEF AggregateAssumption
  <2>2. Aggregate!FilesOfRows'
    BY <1>2, <1>4 DEF AggregateInv, Stored, Aggregate!FilesOfRows
  <2>3. Aggregate!PricesAgree'
    <3>1. \A q \in Request : aggregateReq[q].op = "statement" /\ aggregateReq[q].pc = "done" => aggregateReq'[q] = aggregateReq[q]
      BY <1>1
    <3>. QED
      BY <1>2, <3>1, AggregatePrices DEF AggregateInv, Stored, Aggregate!PricesAgree
  <2>. QED
    BY <1>2, <1>4, <2>1, <2>2, <2>3 DEF AggregateInv, Stored
<1>8. Listings'
  <2> SUFFICES ASSUME AllColumns'
               PROVE  /\ \A q \in Request : ListedNow(q)'
                      /\ \A t \in Transfer : Owned(t)' /\ (aggregateRow[t] = "live" => OneRequest(t)')
    BY <1>2 DEF Listings
  <2>1. AllColumns
    BY <1>1
  <2>2. \A t \in Transfer : Owned(t)' /\ (aggregateRow[t] = "live" => OneRequest(t)')
    BY <1>2, <2>1, AggregateElsewhere
  <2>3. ASSUME NEW q \in Request PROVE ListedNow(q)'
    <3>1. CASE q = r
      BY <1>1, <3>1 DEF ListedNow
    <3>2. CASE q # r
      <4>1. ListedNow(q)
        BY <2>1 DEF AggregateInv, Listings
      <4>. QED
        BY <1>1, <1>2, <3>2, <4>1 DEF ListedNow, Aggregate!Listed, Aggregate!Ids
    <3>. QED
      BY <3>1, <3>2
  <2>. QED
    BY <2>2, <2>3
<1>. QED
  BY <1>1, <1>5, <1>6, <1>7, <1>8 DEF AggregateInv

LEMMA AggregateDocuments ==
    ASSUME AggregateInv, AggregateAssumption, NEW r \in Request,
           Aggregate!UploadUpdate(r) \/ Aggregate!PatchUpdate(r) \/ Aggregate!AddInsert(r)
    PROVE  AggregateInv'
<1>1. /\ aggregateReq[r].op \in {"upload", "patch", "add"}
      /\ aggregateReq[r].pc \notin {"new", "done"} /\ aggregateFiles' = aggregateFiles
      /\ aggregateFaults' = aggregateFaults /\ aggregateReq[r].body.docs \subseteq Doc
      /\ FineReq(r, aggregateReq[r]) /\ aggregateReq[r].t \in Transfer
      /\ aggregateFiles \subseteq Aggregate!Writer
  BY AggregateReq, AggregateFaults DEF Aggregate!UploadUpdate, Aggregate!PatchUpdate,
     Aggregate!AddInsert, Aggregate!At, FineReq
<1>2. ASSUME NEW d \in Doc
      PROVE  /\ aggregateDocuments[aggregateReq[r].t][d] \in Aggregate!DocumentRow \cup {NoRow}
             /\ aggregateDocuments[aggregateReq[r].t][d] # NoRow => aggregateDocuments[aggregateReq[r].t][d].file \in aggregateFiles \cup {"none"}
  BY <1>1 DEF AggregateInv, AggregateTyped, Stored, Aggregate!FilesOfRows
<1>3. ASSUME NEW answer \in {"500", "404"}, Aggregate!End(r, answer),
             UNCHANGED Aggregate!tables PROVE AggregateInv'
  BY <1>1, <1>3, AggregateQuits, AggregateFaults
<1>4. CASE Aggregate!UploadUpdate(r)
  <2>1. PICK d \in Doc :
          IF aggregateDocuments[aggregateReq[r].t][d] = NoRow THEN Aggregate!End(r, "404") /\ UNCHANGED Aggregate!tables
          ELSE /\ Aggregate!SetDocument(aggregateReq[r].t, d, [status |-> "uploaded", file |-> r])
               /\ Aggregate!End(r, "updated")
    BY <1>1, <1>4 DEF Aggregate!UploadUpdate
  <2>2. r \in aggregateFiles
    BY <1>4 DEF Aggregate!UploadUpdate, Aggregate!At, AggregateInv, Written
  <2>3. PICK f : f = [status |-> "uploaded", file |-> r]
    OBVIOUS
  <2>4. f \in Aggregate!DocumentRow /\ f.file \in aggregateFiles \cup {"none"}
    BY <2>2, <2>3 DEF Aggregate!DocumentRow, Aggregate!Status, Aggregate!Writer
  <2>5. CASE aggregateDocuments[aggregateReq[r].t][d] = NoRow
    BY <1>3, <2>1, <2>5
  <2>6. CASE aggregateDocuments[aggregateReq[r].t][d] # NoRow
    <3>1. Aggregate!SetDocument(aggregateReq[r].t, d, f) /\ Aggregate!End(r, "updated")
      BY <2>1, <2>3, <2>6
    <3>. QED
      BY <1>1, <2>4, <3>1, AggregateSets
  <2>. QED
    BY <2>5, <2>6
<1>5. CASE Aggregate!PatchUpdate(r)
  <2>1. PICK d \in Doc :
          IF aggregateDocuments[aggregateReq[r].t][d] = NoRow THEN Aggregate!End(r, "404") /\ UNCHANGED Aggregate!tables
          ELSE /\ Aggregate!SetDocument(aggregateReq[r].t, d, [aggregateDocuments[aggregateReq[r].t][d] EXCEPT !.status = "verified"])
               /\ Aggregate!End(r, "updated")
    BY <1>1, <1>5 DEF Aggregate!PatchUpdate
  <2>3. PICK f : f = [aggregateDocuments[aggregateReq[r].t][d] EXCEPT !.status = "verified"]
    OBVIOUS
  <2>5. CASE aggregateDocuments[aggregateReq[r].t][d] = NoRow
    BY <1>3, <2>1, <2>5
  <2>6. CASE aggregateDocuments[aggregateReq[r].t][d] # NoRow
    <3>1. Aggregate!SetDocument(aggregateReq[r].t, d, f) /\ Aggregate!End(r, "updated")
      BY <2>1, <2>3, <2>6
    <3>2. f \in Aggregate!DocumentRow /\ f.file \in aggregateFiles \cup {"none"}
      BY <1>2, <2>3, <2>6 DEF Aggregate!DocumentRow, Aggregate!Status
    <3>. QED
      BY <1>1, <3>1, <3>2, AggregateSets
  <2>. QED
    BY <2>5, <2>6
<1>6. CASE Aggregate!AddInsert(r)
  <2>1. PICK d \in Doc :
          IF aggregateRow[aggregateReq[r].t] # "live" THEN Aggregate!End(r, "500") /\ UNCHANGED Aggregate!tables
          ELSE /\ Aggregate!SetDocument(aggregateReq[r].t, d, IF aggregateDocuments[aggregateReq[r].t][d] = NoRow THEN Aggregate!Seeded
                                                              ELSE aggregateDocuments[aggregateReq[r].t][d])
               /\ Aggregate!End(r, "created")
    BY <1>1, <1>6 DEF Aggregate!AddInsert
  <2>3. PICK f : f = IF aggregateDocuments[aggregateReq[r].t][d] = NoRow THEN Aggregate!Seeded ELSE aggregateDocuments[aggregateReq[r].t][d]
    OBVIOUS
  <2>4. f \in Aggregate!DocumentRow /\ f.file \in aggregateFiles \cup {"none"}
    BY <1>2, <2>3 DEF Aggregate!DocumentRow, Aggregate!Status, Aggregate!Seeded
  <2>5. CASE aggregateRow[aggregateReq[r].t] # "live"
    BY <1>3, <2>1, <2>5
  <2>6. CASE aggregateRow[aggregateReq[r].t] = "live"
    <3>1. Aggregate!SetDocument(aggregateReq[r].t, d, f) /\ Aggregate!End(r, "created")
      BY <2>1, <2>3, <2>6
    <3>. QED
      BY <1>1, <2>4, <3>1, AggregateSets
  <2>. QED
    BY <2>5, <2>6
<1>. QED
  BY <1>4, <1>5, <1>6

\* Its rows go with the transfer.
LEMMA AggregateDeletes ==
    ASSUME AggregateInv, AggregateAssumption, NEW r \in Request, Aggregate!DeleteCommit(r)
    PROVE  AggregateInv'
<1>0. /\ aggregateReq[r].op = "delete" /\ aggregateReq[r].pc = "cascade"
      /\ FineReq(r, aggregateReq[r]) /\ Aggregate!End(r, "deleted")
      /\ UNCHANGED <<price, definitions, milestones, aggregateFiles, aggregateFaults>>
  BY AggregateReq DEF Aggregate!DeleteCommit, Aggregate!At
<1>t. PICK t : t = aggregateReq[r].t /\ t \in Transfer /\ aggregateRow[t] # "unused"
  BY <1>0 DEF FineReq
<1>1. /\ aggregateReq' \in [Request -> Req]
      /\ \A q \in Request : q # r => aggregateReq'[q] = aggregateReq[q]
      /\ aggregateReq'[r].pc = "done" /\ aggregateReq'[r].t = t /\ aggregateReq'[r].op = "delete"
      /\ Sole' /\ \A q \in Request : Written(q, aggregateReq[q])'
      /\ AllColumns' => AllColumns
  BY <1>0, <1>t, AggregateEnds
<1>2. /\ aggregateRow' = [aggregateRow EXCEPT ![t] = "deleted"]
      /\ aggregateFinancials' = [aggregateFinancials EXCEPT ![t] = NoRow]
      /\ aggregateParties' = [aggregateParties EXCEPT ![t] = {}]
      /\ aggregateDocuments' = [aggregateDocuments EXCEPT ![t] = [d \in Doc |-> NoRow]]
  BY <1>t DEF Aggregate!DeleteCommit
<1>3. AggregateTyped'
  BY <1>0, <1>1, <1>2, <1>t DEF AggregateInv, AggregateTyped
<1>4. \A u \in Transfer : /\ aggregateRow'[u] = IF u = t THEN "deleted" ELSE aggregateRow[u]
                          /\ u # t => /\ aggregateFinancials'[u] = aggregateFinancials[u] /\ aggregateParties'[u] = aggregateParties[u]
                                      /\ aggregateDocuments'[u] = aggregateDocuments[u]
                          /\ u = t => aggregateParties'[u] = {} /\ aggregateDocuments'[u] = [d \in Doc |-> NoRow]
  BY <1>2, <1>t DEF AggregateInv, AggregateTyped
<1>5. \A q \in Request : FineReq(q, aggregateReq[q])'
  <2> SUFFICES ASSUME NEW q \in Request PROVE FineReq(q, aggregateReq[q])'
    OBVIOUS
  <2>1. \A p \in Request : aggregateReq'[p].t = aggregateReq[p].t
    BY <1>1, <1>t
  <2>2. CASE q = r
    BY <1>0, <1>1, <1>4, <1>t, <2>2 DEF FineReq, Pending, Past
  <2>3. CASE q # r
    <3>1. FineReq(q, aggregateReq[q]) /\ aggregateReq'[q] = aggregateReq[q]
      BY <1>1, <2>3, AggregateReq
    <3>2. /\ Pending(aggregateReq[q], "post") => aggregateRow'[aggregateReq[q].t] = "unused"
          /\ aggregateReq[q].op \notin {"none", "post"} => aggregateReq[q].t \in Transfer /\ aggregateRow'[aggregateReq[q].t] # "unused"
          /\ aggregateReq[q].op = "detail" /\ aggregateReq[q].lacks # {} /\ aggregateReq[q].t \notin Existing => aggregateRow'[aggregateReq[q].t] = "deleted"
      <4>1. ASSUME Pending(aggregateReq[q], "post")
            PROVE  aggregateRow'[aggregateReq[q].t] = "unused"
        <5>1. aggregateReq[q].t \in Transfer /\ aggregateRow[aggregateReq[q].t] = "unused"
          BY <3>1, <4>1 DEF FineReq, Pending
        <5>. QED
          BY <1>4, <1>t, <5>1
      <4>2. ASSUME aggregateReq[q].op \notin {"none", "post"}
            PROVE  aggregateReq[q].t \in Transfer /\ aggregateRow'[aggregateReq[q].t] # "unused"
        <5>1. aggregateReq[q].t \in Transfer /\ aggregateRow[aggregateReq[q].t] # "unused"
          BY <3>1, <4>2 DEF FineReq
        <5>. QED
          BY <1>4, <5>1
      <4>3. ASSUME aggregateReq[q].op = "detail", aggregateReq[q].lacks # {},
                   aggregateReq[q].t \notin Existing
            PROVE  aggregateRow'[aggregateReq[q].t] = "deleted"
        <5>1. aggregateReq[q].t \in Transfer /\ aggregateRow[aggregateReq[q].t] = "deleted"
          BY <3>1, <4>3 DEF FineReq
        <5>. QED
          BY <1>4, <5>1
      <4>. QED
        BY <4>1, <4>2, <4>3
    <3>3. definitions' = definitions
      BY <1>0
    <3>. QED
      BY <2>1, <3>1, <3>2, <3>3 DEF FineReq, Pending
  <2>. QED
    BY <2>2, <2>3
<1>6. Stored'
  <2>1. Aggregate!PricesAgree'
    <3>1. \A q \in Request : aggregateReq[q].op = "statement" /\ aggregateReq[q].pc = "done" => aggregateReq'[q] = aggregateReq[q]
      BY <1>0, <1>1
    <3>2. \A u \in Transfer :
             \/ aggregateRow'[u] # "live"
             \/ aggregateRow[u] = "live" /\ aggregateFinancials'[u] = aggregateFinancials[u] /\ price'[u] = price[u]
      BY <1>0, <1>4
    <3>. QED
      BY <3>1, <3>2, AggregatePrices DEF AggregateInv, Stored
  <2>2. Aggregate!FilesOfRows'
    BY <1>0, <1>4 DEF AggregateInv, Stored, Aggregate!FilesOfRows
  <2>. QED
    BY <1>0, <1>4, <2>1, <2>2 DEF AggregateInv, Stored
<1>7. Listings'
  <2> SUFFICES ASSUME AllColumns'
               PROVE  /\ \A q \in Request : ListedNow(q)'
                      /\ \A u \in Transfer : Owned(u)' /\ (aggregateRow'[u] = "live" => OneRequest(u)')
    BY DEF Listings
  <2>1. AllColumns
    BY <1>1
  <2>2. ASSUME NEW u \in Transfer PROVE Owned(u)' /\ (aggregateRow'[u] = "live" => OneRequest(u)')
    <3>1. CASE u = t
      BY <1>4, <3>1 DEF Owned
    <3>2. CASE u # t
      BY <1>0, <1>4, <1>t, <2>1, <3>2, AggregateElsewhere
    <3>. QED
      BY <3>1, <3>2
  <2>3. ASSUME NEW q \in Request PROVE ListedNow(q)'
    <3>1. CASE q = r
      BY <1>1, <3>1 DEF ListedNow
    <3>2. CASE q # r /\ aggregateReq[q].t = t
      BY <1>1, <1>4, <1>t, <3>2 DEF ListedNow
    <3>3. CASE q # r /\ aggregateReq[q].t # t
      <4>1. ListedNow(q) /\ aggregateReq'[q] = aggregateReq[q]
        BY <1>1, <2>1, <3>3 DEF AggregateInv, Listings
      <4>2. CASE aggregateReq[q].t \in Transfer
        BY <1>4, <3>3, <4>1, <4>2 DEF ListedNow, Aggregate!Listed, Aggregate!Ids
      <4>3. CASE aggregateReq[q].t \notin Transfer
        BY <1>1, <4>1, <4>3, AggregateReq DEF ListedNow, FineReq
      <4>. QED
        BY <4>2, <4>3
    <3>. QED
      BY <3>1, <3>2, <3>3
  <2>. QED
    BY <2>2, <2>3
<1>. QED
  BY <1>1, <1>3, <1>5, <1>6, <1>7 DEF AggregateInv

\* A new transfer is nobody else's before it is there.
LEMMA AggregatePosts ==
    ASSUME AggregateInv, AggregateAssumption, NEW r \in Request, Aggregate!PostCommit(r)
    PROVE  AggregateInv'
<1>0. /\ aggregateReq[r].op = "post" /\ aggregateReq[r].pc = "commit" /\ FineReq(r, aggregateReq[r])
      /\ Aggregate!End(r, "created")
      /\ UNCHANGED <<aggregateFiles, aggregateFaults>> /\ aggregateReq[r].adds \subseteq Definition
  BY AggregateReq DEF Aggregate!PostCommit, Aggregate!At
<1>t. PICK t : /\ t = aggregateReq[r].t /\ t \in Transfer /\ aggregateRow[t] = "unused"
               /\ \A q \in Request \ {r} : aggregateReq[q].t # t
  BY <1>0 DEF FineReq, Pending
<1>1. /\ aggregateReq' \in [Request -> Req]
      /\ \A q \in Request : q # r => aggregateReq'[q] = aggregateReq[q]
      /\ aggregateReq'[r].pc = "done" /\ aggregateReq'[r].t = t /\ aggregateReq'[r].op = "post"
      /\ aggregateReq'[r].answer = "created"
      /\ Sole' /\ \A q \in Request : Written(q, aggregateReq[q])'
      /\ AllColumns' => AllColumns
  BY <1>0, <1>t, AggregateEnds
<1>2. definitions \cup aggregateReq[r].adds = Definition
  BY <1>0 DEF FineReq, AggregateInv, Stored
<1>p. PICK own : own = [id |-> r, of |-> r]
  OBVIOUS
<1>3. /\ aggregateRow' = [aggregateRow EXCEPT ![t] = "live"] /\ price' = [price EXCEPT ![t] = r]
      /\ aggregateFinancials' = [aggregateFinancials EXCEPT ![t] = r]
      /\ aggregateParties' = [aggregateParties EXCEPT ![t] = {own}]
      /\ definitions' = Definition /\ milestones' = [milestones EXCEPT ![t] = Definition]
      /\ aggregateDocuments' = [aggregateDocuments EXCEPT ![t] = [d \in Doc |-> Aggregate!Seeded]]
  BY <1>2, <1>p, <1>t DEF Aggregate!PostCommit, Aggregate!createDefaultMilestones,
     Aggregate!seedTransferDocuments
<1>4. /\ own \in PartyRow /\ Aggregate!Seeded \in Aggregate!DocumentRow /\ r \in Aggregate!Writer
      /\ Aggregate!Seeded.file = "none" /\ own.id = r /\ own.of = r
  BY <1>p DEF PartyRow, Aggregate!Writer, Aggregate!Seeded, Aggregate!DocumentRow,
     Aggregate!Status
<1>5. AggregateTyped'
  BY <1>0, <1>1, <1>3, <1>4, <1>t DEF AggregateInv, AggregateTyped
<1>6. \A u \in Transfer :
          /\ u # t => /\ aggregateRow'[u] = aggregateRow[u] /\ aggregateFinancials'[u] = aggregateFinancials[u] /\ aggregateParties'[u] = aggregateParties[u]
                      /\ aggregateDocuments'[u] = aggregateDocuments[u] /\ price'[u] = price[u]
                      /\ milestones'[u] = milestones[u]
          /\ u = t => /\ aggregateRow'[u] = "live" /\ aggregateFinancials'[u] = r /\ price'[u] = r /\ aggregateParties'[u] = {own}
                      /\ milestones'[u] = Definition
                      /\ aggregateDocuments'[u] = [d \in Doc |-> Aggregate!Seeded]
  BY <1>3, <1>t DEF AggregateInv, AggregateTyped
<1>7. \A q \in Request : FineReq(q, aggregateReq[q])'
  <2> SUFFICES ASSUME NEW q \in Request PROVE FineReq(q, aggregateReq[q])'
    OBVIOUS
  <2>1. \A p \in Request : aggregateReq'[p].t = aggregateReq[p].t
    BY <1>1, <1>t
  <2>2. CASE q = r
    BY <1>0, <1>1, <1>t, <2>2 DEF FineReq, Pending, Past
  <2>3. CASE q # r
    <3>1. FineReq(q, aggregateReq[q]) /\ aggregateReq'[q] = aggregateReq[q] /\ aggregateReq[q].t # t
      BY <1>1, <1>t, <2>3, AggregateReq
    <3>2. CASE aggregateReq[q].t \in Transfer
      <4>1. aggregateRow'[aggregateReq[q].t] = aggregateRow[aggregateReq[q].t]
        BY <1>6, <3>1, <3>2
      <4>2. definitions' = Definition
        BY <1>3
      <4>. QED
        BY <2>1, <3>1, <3>2, <4>1, <4>2 DEF FineReq, Pending
    <3>3. CASE aggregateReq[q].t \notin Transfer
      BY <3>1, <3>3 DEF FineReq, Pending
    <3>. QED
      BY <3>2, <3>3
  <2>. QED
    BY <2>2, <2>3
<1>8. Stored'
  <2>1. Aggregate!PricesAgree'
    <3>1. \A q \in Request : aggregateReq[q].op = "statement" /\ aggregateReq[q].pc = "done" => aggregateReq'[q] = aggregateReq[q]
      BY <1>0, <1>1
    <3>2. \A u \in Transfer :
             \/ aggregateRow'[u] # "live" \/ aggregateFinancials'[u] = price'[u]
             \/ aggregateRow[u] = "live" /\ aggregateFinancials'[u] = aggregateFinancials[u] /\ price'[u] = price[u]
      BY <1>6
    <3>. QED
      BY <3>1, <3>2, AggregatePrices DEF AggregateInv, Stored
  <2>2. Aggregate!FilesOfRows'
    BY <1>0, <1>4, <1>6 DEF AggregateInv, Stored, Aggregate!FilesOfRows
  <2>3. r # NoRow /\ Aggregate!Seeded # NoRow
    BY <1>4 DEF AggregateAssumption
  <2>. QED
    BY <1>3, <1>6, <2>1, <2>2, <2>3 DEF AggregateInv, Stored
<1>9. Listings'
  <2> SUFFICES ASSUME AllColumns'
               PROVE  /\ \A q \in Request : ListedNow(q)'
                      /\ \A u \in Transfer : Owned(u)' /\ (aggregateRow'[u] = "live" => OneRequest(u)')
    BY DEF Listings
  <2>1. AllColumns
    BY <1>1
  <2>2. ASSUME NEW u \in Transfer PROVE Owned(u)' /\ (aggregateRow'[u] = "live" => OneRequest(u)')
    <3>1. CASE u = t
      <4>1. Owned(u)'
        BY <1>1, <1>4, <1>6, <3>1 DEF Owned
      <4>2. r \in Aggregate!Committed(u)'
        BY <1>1, <3>1 DEF Aggregate!Committed
      <4>3. Aggregate!LeftBy(r, u)'
        BY <1>1, <1>6, <1>p, <3>1 DEF Aggregate!LeftBy
      <4>. QED
        BY <4>1, <4>2, <4>3 DEF OneRequest
    <3>2. CASE u # t
      BY <1>0, <1>6, <1>t, <2>1, <3>2, AggregateElsewhere
    <3>. QED
      BY <3>1, <3>2
  <2>3. ASSUME NEW q \in Request PROVE ListedNow(q)'
    <3>1. CASE q = r
      BY <1>1, <3>1 DEF ListedNow
    <3>3. CASE q # r
      <4>1. ListedNow(q) /\ aggregateReq'[q] = aggregateReq[q] /\ aggregateReq[q].t # t
        BY <1>1, <1>t, <2>1, <3>3 DEF AggregateInv, Listings
      <4>2. CASE aggregateReq[q].t \in Transfer
        BY <1>6, <3>3, <4>1, <4>2 DEF ListedNow, Aggregate!Listed, Aggregate!Ids
      <4>3. CASE aggregateReq[q].t \notin Transfer
        BY <1>1, <4>1, <4>3, AggregateReq DEF ListedNow, FineReq
      <4>. QED
        BY <4>2, <4>3
    <3>. QED
      BY <3>1, <3>3
  <2>. QED
    BY <2>2, <2>3
<1>. QED
  BY <1>1, <1>5, <1>7, <1>8, <1>9 DEF AggregateInv

\* Who is among the parties a PUT has listed.
LEMMA AggregateListed ==
    ASSUME AggregateInv, NEW r \in Request, aggregateReq[r].t \in Transfer,
           aggregateReq[r].body.list # NoList
    PROVE  /\ Aggregate!Listed(r) \subseteq PartyRow
           /\ \A p \in Aggregate!Listed(r) :
                 \/ /\ p.id \in Aggregate!Ids(aggregateReq[r].t) /\ p.id \in aggregateReq[r].body.list.retained
                    /\ p.id \in aggregateReq[r].body.list.named => p.of = r
                 \/ aggregateReq[r].body.list.new /\ p.id = r /\ p.of = r
           /\ aggregateReq[r].body.list.new => \E p \in Aggregate!Listed(r) : p.id = r
<1>l. PICK list : list = aggregateReq[r].body.list
  OBVIOUS
<1>t. PICK t : t = aggregateReq[r].t /\ t \in Transfer
  OBVIOUS
<1>p. PICK own : own = [id |-> r, of |-> r]
  OBVIOUS
<1>1. own \in PartyRow /\ own.id = r /\ own.of = r
  BY <1>p DEF PartyRow, Aggregate!Writer
<1>2. aggregateParties[t] \subseteq PartyRow
  BY <1>t, AggregateIds
<1>3. ASSUME NEW x \in aggregateParties[t], NEW p,
             p = [x EXCEPT !.of = IF x.id \in list.named THEN r ELSE @]
      PROVE  p \in PartyRow /\ p.id = x.id /\ (x.id \in list.named => p.of = r)
  BY <1>2, <1>3 DEF PartyRow, Aggregate!Writer
<1>4. ASSUME NEW p \in Aggregate!Listed(r)
      PROVE  \/ /\ p \in PartyRow /\ p.id \in Aggregate!Ids(t) /\ p.id \in list.retained
                /\ p.id \in list.named => p.of = r
             \/ list.new /\ p = own
  <2>1. \/ \E x \in aggregateParties[t] : /\ x.id \in list.retained
                                          /\ p = [x EXCEPT !.of = IF x.id \in list.named THEN r ELSE @]
        \/ list.new /\ p = own
    BY <1>l, <1>t, <1>p, <1>4 DEF Aggregate!Listed
  <2>2. ASSUME NEW x \in aggregateParties[t], x.id \in list.retained,
               p = [x EXCEPT !.of = IF x.id \in list.named THEN r ELSE @]
        PROVE  /\ p \in PartyRow /\ p.id \in Aggregate!Ids(t) /\ p.id \in list.retained
               /\ p.id \in list.named => p.of = r
    BY <1>3, <2>2 DEF Aggregate!Ids
  <2>. QED
    BY <2>1, <2>2
<1>5. list.new => own \in Aggregate!Listed(r)
  BY <1>l, <1>p DEF Aggregate!Listed
<1>. QED
  BY <1>1, <1>4, <1>5, <1>l, <1>t

\* A PUT that has locked the transfer replaces the parties it has listed, which
\* nobody has changed since.
LEMMA AggregateUpdates ==
    ASSUME AggregateInv, AggregateAssumption, NEW r \in Request, Aggregate!PutCommit(r)
    PROVE  AggregateInv'
<1>0. /\ aggregateReq[r].op = "put" /\ aggregateReq[r].pc = "link" /\ FineReq(r, aggregateReq[r])
      /\ UNCHANGED <<aggregateFiles, aggregateFaults>>
      /\ aggregateReq[r].body.docs \subseteq Doc /\ aggregateReq[r].parties \subseteq PartyRow
  BY AggregateReq DEF Aggregate!PutCommit, Aggregate!At
<1>t. PICK t : t = aggregateReq[r].t /\ t \in Transfer /\ aggregateRow[t] # "unused"
  BY <1>0 DEF FineReq
<1>1. CASE aggregateRow[t] # "live"
  <2>1. Aggregate!End(r, "500") /\ UNCHANGED Aggregate!tables
    BY <1>1, <1>t DEF Aggregate!PutCommit
  <2>. QED
    BY <1>0, <2>1, AggregateQuits, AggregateFaults
<1>2. CASE aggregateRow[t] = "live"
  <2>b. PICK b : b = aggregateReq[r].body
    OBVIOUS
  <2>0. Aggregate!End(r, "updated") /\ UNCHANGED <<aggregateRow, definitions, milestones>>
    BY <1>2, <1>t DEF Aggregate!PutCommit
  <2>1. /\ aggregateReq' \in [Request -> Req]
        /\ \A q \in Request : q # r => aggregateReq'[q] = aggregateReq[q]
        /\ aggregateReq'[r].pc = "done" /\ aggregateReq'[r].t = t /\ aggregateReq'[r].op = "put"
        /\ aggregateReq'[r].answer = "updated"
        /\ aggregateReq'[r].body.list = b.list /\ Sole'
        /\ \A q \in Request : Written(q, aggregateReq[q])'
        /\ AllColumns' => AllColumns
    BY <1>0, <1>t, <2>0, <2>b, AggregateEnds
  <2>m. PICK mine : mine = {p \in aggregateParties[t] : Aggregate!Key("party", p.id) \in aggregateReq[r].holds}
    OBVIOUS
  <2>p. PICK ps : ps = IF b.list = NoList THEN aggregateParties[t] ELSE (aggregateParties[t] \ mine) \cup aggregateReq[r].parties
    OBVIOUS
  <2>d. PICK ds : ds = [d \in Doc |-> IF d \in b.docs /\ aggregateDocuments[t][d] # NoRow
                                      THEN [aggregateDocuments[t][d] EXCEPT !.status = "pending"] ELSE aggregateDocuments[t][d]]
    OBVIOUS
  <2>2. /\ price' = IF b.figures = "whole" THEN [price EXCEPT ![t] = r] ELSE price
        /\ aggregateFinancials' = IF b.figures = "whole" THEN [aggregateFinancials EXCEPT ![t] = r] ELSE aggregateFinancials
        /\ aggregateParties' = IF b.list = NoList THEN aggregateParties ELSE [aggregateParties EXCEPT ![t] = (@ \ mine) \cup aggregateReq[r].parties]
        /\ aggregateDocuments' = [aggregateDocuments EXCEPT ![t] = [d \in Doc |-> IF d \in b.docs /\ @[d] # NoRow
                                                         THEN [@[d] EXCEPT !.status = "pending"] ELSE @[d]]]
    BY <1>2, <1>t, <2>b, <2>m DEF Aggregate!PutCommit
  <2>3. aggregateParties[t] \subseteq PartyRow /\ ps \subseteq PartyRow
    BY <1>0, <1>t, <2>p, AggregateIds
  <2>4. ASSUME NEW d \in Doc
        PROVE  /\ ds[d] \in Aggregate!DocumentRow \cup {NoRow}
               /\ (aggregateDocuments[t][d] # NoRow => ds[d] # NoRow)
               /\ ds[d] # NoRow => aggregateDocuments[t][d] # NoRow /\ ds[d].file = aggregateDocuments[t][d].file
    <3>1. aggregateDocuments[t][d] \in Aggregate!DocumentRow \cup {NoRow}
      BY <1>t DEF AggregateInv, AggregateTyped
    <3>2. CASE aggregateDocuments[t][d] = NoRow
      BY <2>d, <3>2
    <3>3. CASE aggregateDocuments[t][d] # NoRow
      <4>1. aggregateDocuments[t][d] \in Aggregate!DocumentRow
        BY <3>1, <3>3
      <4>2. PICK e : e = [aggregateDocuments[t][d] EXCEPT !.status = "pending"]
        OBVIOUS
      <4>3. e \in Aggregate!DocumentRow /\ e.file = aggregateDocuments[t][d].file
        BY <4>1, <4>2 DEF Aggregate!DocumentRow, Aggregate!Status
      <4>. QED
        BY <2>d, <3>3, <4>1, <4>2, <4>3 DEF AggregateAssumption
    <3>. QED
      BY <3>2, <3>3
  <2>5. /\ aggregateParties' \in [Transfer -> SUBSET PartyRow]
        /\ \A u \in Transfer : aggregateParties'[u] = IF u = t THEN ps ELSE aggregateParties[u]
    BY <1>t, <2>2, <2>3, <2>p DEF AggregateInv, AggregateTyped
  <2>6. /\ aggregateDocuments' \in [Transfer -> [Doc -> Aggregate!DocumentRow \cup {NoRow}]]
        /\ \A u \in Transfer : aggregateDocuments'[u] = IF u = t THEN ds ELSE aggregateDocuments[u]
    <3>1. aggregateDocuments' = [aggregateDocuments EXCEPT ![t] = ds]
      BY <2>2, <2>d
    <3>2. ds \in [Doc -> Aggregate!DocumentRow \cup {NoRow}]
      BY <2>4, <2>d
    <3>. QED
      BY <1>t, <3>1, <3>2 DEF AggregateInv, AggregateTyped
  <2>7. /\ price' \in [Transfer -> Aggregate!Writer]
        /\ aggregateFinancials' \in [Transfer -> Aggregate!Writer \cup {NoRow}]
        /\ \A u \in Transfer :
              \/ price'[u] = price[u] /\ aggregateFinancials'[u] = aggregateFinancials[u]
              \/ price'[u] = r /\ aggregateFinancials'[u] = r
    <3>1. /\ r \in Aggregate!Writer /\ price \in [Transfer -> Aggregate!Writer]
          /\ aggregateFinancials \in [Transfer -> Aggregate!Writer \cup {NoRow}]
      BY DEF Aggregate!Writer, AggregateInv, AggregateTyped
    <3>. QED
      BY <1>t, <2>2, <3>1
  <2>8. AggregateTyped'
    BY <1>0, <2>0, <2>1, <2>5, <2>6, <2>7 DEF AggregateInv, AggregateTyped
  <2>9. \A q \in Request : FineReq(q, aggregateReq[q])'
    <3> SUFFICES ASSUME NEW q \in Request PROVE FineReq(q, aggregateReq[q])'
      OBVIOUS
    <3>1. \A p \in Request : aggregateReq'[p].t = aggregateReq[p].t
      BY <1>t, <2>1
    <3>2. CASE q = r
      BY <1>0, <1>t, <2>0, <2>1, <3>2 DEF FineReq, Pending, Past
    <3>3. CASE q # r
      BY <2>0, <2>1, <3>1, <3>3, AggregateReq DEF FineReq, Pending, Past
    <3>. QED
      BY <3>2, <3>3
  <2>10. Stored'
    <3>1. r # NoRow
      BY DEF AggregateAssumption, Aggregate!Writer
    <3>2. Aggregate!PricesAgree'
      <4>1. \A q \in Request : aggregateReq[q].op = "statement" /\ aggregateReq[q].pc = "done" => aggregateReq'[q] = aggregateReq[q]
        BY <1>0, <2>1
      <4>2. \A u \in Transfer :
               \/ aggregateRow'[u] # "live" \/ aggregateFinancials'[u] = price'[u]
               \/ aggregateRow[u] = "live" /\ aggregateFinancials'[u] = aggregateFinancials[u] /\ price'[u] = price[u]
        BY <2>0, <2>7
      <4>. QED
        BY <4>1, <4>2, AggregatePrices DEF AggregateInv, Stored
    <3>3. ASSUME NEW u \in Transfer, NEW d \in Doc, aggregateDocuments'[u][d] # NoRow
          PROVE  aggregateDocuments'[u][d].file \in aggregateFiles \cup {"none"}
      <4>1. /\ aggregateDocuments[u][d] # NoRow
            /\ aggregateDocuments'[u][d].file = aggregateDocuments[u][d].file
        BY <2>4, <2>6, <3>3
      <4>. QED
        BY <4>1 DEF AggregateInv, Stored, Aggregate!FilesOfRows
    <3>4. Aggregate!FilesOfRows'
      BY <1>0, <3>3 DEF Aggregate!FilesOfRows
    <3>5. ASSUME NEW u \in Transfer \ Existing, aggregateRow[u] = "live"
          PROVE  /\ milestones[u] = Definition /\ aggregateFinancials'[u] # NoRow
                 /\ \A d \in Doc : aggregateDocuments'[u][d] # NoRow
      <4>1. /\ milestones[u] = Definition /\ aggregateFinancials[u] # NoRow
            /\ \A d \in Doc : aggregateDocuments[u][d] # NoRow
        BY <3>5 DEF AggregateInv, Stored
      <4>. QED
        BY <2>4, <2>6, <2>7, <3>1, <4>1
    <3>. QED
      BY <2>0, <3>2, <3>4, <3>5 DEF AggregateInv, Stored
  <2>11. Listings'
    <3> SUFFICES ASSUME AllColumns'
                 PROVE  /\ \A q \in Request : ListedNow(q)'
                        /\ \A u \in Transfer : Owned(u)' /\ (aggregateRow[u] = "live" => OneRequest(u)')
      BY <2>0 DEF Listings
    <3>1. AllColumns
      BY <2>1
    <3>2. b.list # NoList => ps = Aggregate!Listed(r)
      <4>1. ListedNow(r)
        BY <3>1 DEF AggregateInv, Listings
      <4>2. ASSUME b.list # NoList PROVE aggregateParties[t] \subseteq mine
        <5>1. Aggregate!PartyKeys(Aggregate!Ids(t)) \subseteq aggregateReq[r].holds
          BY <1>0, <1>2, <1>t, <2>b, <4>1, <4>2 DEF ListedNow
        <5>. QED
          BY <2>m, <5>1 DEF Aggregate!PartyKeys, Aggregate!Ids
      <4>. QED
        BY <1>0, <1>2, <1>t, <2>b, <2>m, <2>p, <4>1, <4>2 DEF ListedNow
    <3>3. Owned(t) /\ r \notin Aggregate!Ids(t)
      BY <1>0, <1>t, <3>1 DEF AggregateInv, Listings, Owned, Aggregate!Ids
    <3>4. ASSUME b.list # NoList PROVE Owned(t)' /\ OneRequest(t)'
      <4>1. \A p \in ps : \/ /\ p.id \in Aggregate!Ids(t) /\ p.id \in b.list.retained
                             /\ p.id \in b.list.named => p.of = r
                          \/ b.list.new /\ p.id = r /\ p.of = r
        BY <1>t, <2>b, <3>2, <3>4, AggregateListed
      <4>2. b.list.new => \E p \in ps : p.id = r
        BY <1>t, <2>b, <3>2, <3>4, AggregateListed
      <4>3. aggregateParties'[t] = ps
        BY <1>t, <2>5
      <4>4. Owned(t)'
        <5>1. ASSUME NEW p \in ps, p.id \in Request PROVE aggregateReq'[p.id].pc = "done"
          BY <2>1, <3>3, <4>1, <5>1 DEF Owned, Aggregate!Ids
        <5>. QED
          BY <4>3, <5>1 DEF Owned
      <4>5. r \in Aggregate!Committed(t)'
        BY <2>1, <3>4 DEF Aggregate!Committed
      <4>6. Aggregate!LeftBy(r, t)'
        <5>1. Aggregate!Ids(t)' = {p.id : p \in ps}
          BY <4>3 DEF Aggregate!Ids
        <5>2. {p.id : p \in ps} \ {r} \subseteq b.list.retained
          BY <4>1
        <5>3. b.list \in Aggregate!Lists
          BY <2>b, <3>4, AggregateReq
        <5>4. b.list.new <=> r \in {p.id : p \in ps}
          BY <3>3, <4>1, <4>2, <5>3 DEF Aggregate!Lists
        <5>5. \A p \in ps : p.id \in b.list.named \cup {r} => p.of = r
          BY <3>3, <4>1
        <5>. QED
          BY <2>1, <4>3, <5>1, <5>2, <5>4, <5>5 DEF Aggregate!LeftBy
      <4>. QED
        BY <4>4, <4>5, <4>6 DEF OneRequest
    <3>5. ASSUME NEW u \in Transfer PROVE Owned(u)' /\ (aggregateRow[u] = "live" => OneRequest(u)')
      <4>1. CASE u = t /\ b.list # NoList
        BY <3>4, <4>1
      <4>2. CASE u # t \/ b.list = NoList
        <5>1. aggregateParties'[u] = aggregateParties[u]
          BY <2>5, <2>p, <4>2
        <5>2. aggregateReq[r].t # u \/ ~(aggregateReq[r].op = "post" \/ (aggregateReq[r].op = "put" /\ aggregateReq[r].body.list # NoList))
          BY <1>0, <1>t, <2>b, <4>2
        <5>. QED
          BY <1>0, <2>0, <3>1, <5>1, <5>2, AggregateElsewhere
      <4>. QED
        BY <4>1, <4>2
    <3>6. ASSUME NEW q \in Request PROVE ListedNow(q)'
      <4>1. CASE q = r
        BY <2>1, <4>1 DEF ListedNow
      <4>2. CASE q # r
        <5>1. ListedNow(q) /\ aggregateReq'[q] = aggregateReq[q] /\ FineReq(q, aggregateReq[q])
          BY <2>1, <3>1, <4>2, AggregateReq DEF AggregateInv, Listings
        <5>2. CASE aggregateReq[q].op = "put" /\ aggregateReq[q].pc \in {"documents", "link"}
          <6>1. /\ Aggregate!Key("transfer", aggregateReq[q].t) \in aggregateReq[q].holds
                /\ aggregateReq[q].t \in Transfer
            BY <3>1, <5>1, <5>2 DEF AllColumns, Aggregate!Puts, FineReq, Past
          <6>2. Aggregate!Key("transfer", t) \in aggregateReq[r].holds
            BY <1>0, <1>t, <3>1 DEF AllColumns, Aggregate!Puts, FineReq, Past
          <6>3. aggregateReq[q].t # t
            BY <1>t, <4>2, <6>1, <6>2 DEF AggregateInv, Sole
          <6>4. aggregateParties'[aggregateReq[q].t] = aggregateParties[aggregateReq[q].t]
            BY <2>5, <6>1, <6>3
          <6>. QED
            BY <2>0, <5>1, <6>4 DEF ListedNow, Aggregate!Listed, Aggregate!Ids
        <5>3. CASE ~(aggregateReq[q].op = "put" /\ aggregateReq[q].pc \in {"documents", "link"})
          BY <5>1, <5>3 DEF ListedNow
        <5>. QED
          BY <5>2, <5>3
      <4>. QED
        BY <4>1, <4>2
    <3>. QED
      BY <3>5, <3>6
  <2>. QED
    BY <2>1, <2>8, <2>9, <2>10, <2>11 DEF AggregateInv
<1>. QED
  BY <1>1, <1>2

-----------------------------------------------------------------------------

LEMMA AggregateInit == ASSUME AggregateAssumption, Aggregate!Init PROVE AggregateInv
<1>1. /\ aggregateReq = [r \in Request |-> Aggregate!Fresh]
      /\ \A r \in Request : aggregateReq[r] = Aggregate!Fresh
  BY DEF Aggregate!Init
<1>2. /\ Aggregate!Fresh.op = "none" /\ Aggregate!Fresh.pc = "new" /\ Aggregate!Fresh.holds = {}
      /\ Aggregate!Fresh.answer = "none"
      /\ Aggregate!Fresh.t = Before
  BY DEF Aggregate!Fresh
<1>3. /\ \A t \in Transfer : aggregateRow[t] = (IF t \in Existing THEN "live" ELSE "unused") /\ price[t] = Before
      /\ aggregateFiles = {} /\ aggregateFaults = 0 /\ definitions \in {{}, Definition}
  BY DEF Aggregate!Init
<1>p. PICK first : first = [id |-> Before, of |-> Before]
  OBVIOUS
<1>4. PICK own \in BOOLEAN :
        /\ aggregateFinancials = [t \in Transfer |-> IF t \in Existing /\ own THEN Before ELSE NoRow]
        /\ aggregateParties = [t \in Transfer |-> IF t \in Existing /\ own THEN {first} ELSE {}]
        /\ aggregateDocuments = [t \in Transfer |-> [d \in Doc |-> IF t \in Existing /\ own THEN Aggregate!Seeded ELSE NoRow]]
  BY <1>p DEF Aggregate!Init
<1>5. first \in PartyRow /\ first.id = Before /\ Before \in Aggregate!Writer
  BY <1>p DEF PartyRow, Aggregate!Writer
<1>6. /\ Aggregate!Seeded \in Aggregate!DocumentRow /\ Aggregate!Seeded.file = "none"
      /\ Aggregate!Seeded # NoRow
  BY DEF Aggregate!Seeded, Aggregate!DocumentRow, Aggregate!Status, AggregateAssumption
<1>7. AggregateTyped
  <2>1. /\ aggregateRow \in [Transfer -> {"unused", "live", "deleted"}]
        /\ price \in [Transfer -> Aggregate!Writer]
        /\ definitions \subseteq Definition /\ milestones \in [Transfer -> SUBSET Definition]
        /\ aggregateFiles \subseteq Aggregate!Writer /\ aggregateFaults \in 0 .. MaxFaults
    BY <1>3, <1>5 DEF Aggregate!Init, AggregateAssumption
  <2>2. /\ aggregateFinancials \in [Transfer -> Aggregate!Writer \cup {NoRow}]
        /\ aggregateParties \in [Transfer -> SUBSET PartyRow]
    BY <1>4, <1>5
  <2>3. aggregateDocuments \in [Transfer -> [Doc -> Aggregate!DocumentRow \cup {NoRow}]]
    BY <1>4, <1>6
  <2>4. aggregateReq \in [Request -> Req]
    BY <1>1, AggregateFresh
  <2>. QED
    BY <2>1, <2>2, <2>3, <2>4 DEF AggregateTyped
<1>8. \A r \in Request : FineReq(r, aggregateReq[r]) /\ Written(r, aggregateReq[r])
  BY <1>1, <1>2 DEF FineReq, Written, Pending
<1>9. Stored
  <2>1. Aggregate!PricesAgree
    BY <1>3, <1>4 DEF Aggregate!PricesAgree
  <2>2. Aggregate!FilesOfRows
    BY <1>4, <1>6 DEF Aggregate!FilesOfRows
  <2>. QED
    BY <1>3, <2>1, <2>2 DEF Stored
<1>10. Sole
  BY <1>1, <1>2 DEF Sole
<1>11. Listings
  <2>1. ASSUME NEW t \in Transfer PROVE Owned(t) /\ OneRequest(t)
    <3>1. Aggregate!Committed(t) = {}
      BY <1>1, <1>2 DEF Aggregate!Committed
    <3>2. \A p \in aggregateParties[t] : p = first
      BY <1>4
    <3>. QED
      BY <1>5, <3>1, <3>2 DEF Owned, OneRequest, AggregateAssumption
  <2>2. \A r \in Request : ListedNow(r)
    BY <1>1, <1>2 DEF ListedNow
  <2>. QED
    BY <2>1, <2>2 DEF Listings
<1>. QED
  BY <1>7, <1>8, <1>9, <1>10, <1>11 DEF AggregateInv

LEMMA AggregateStep ==
    ASSUME AggregateInv, AggregateAssumption, [Aggregate!Next]_(Aggregate!vars)
    PROVE  AggregateInv'
<1>1. ASSUME NEW r \in Request, NEW t \in Transfer,
             \/ Aggregate!PostBegin(r, t) \/ Aggregate!DeleteBegin(r, t) \/ Aggregate!DetailBegin(r, t) \/ Aggregate!StatementBegin(r, t)
             \/ \E body \in Aggregate!Bodies(t) : Aggregate!PutBegin(r, t, body)
             \/ \E d \in Doc : Aggregate!UploadBegin(r, t, d) \/ Aggregate!PatchBegin(r, t, d) \/ Aggregate!AddBegin(r, t, d)
      PROVE  AggregateInv'
  BY <1>1, AggregateStarts
<1>2. ASSUME NEW r \in Request,
             \/ Aggregate!PutColumns(r) \/ Aggregate!PutFinds(r) \/ Aggregate!PutFinancials(r) \/ Aggregate!PutParties(r) \/ Aggregate!PutDocuments(r)
             \/ Aggregate!DeleteLock(r)
      PROVE  AggregateInv'
  BY <1>2, AggregatePuts, AggregateLists
<1>3. ASSUME NEW r \in Request, Aggregate!UploadUpdate(r) \/ Aggregate!PatchUpdate(r) \/ Aggregate!AddInsert(r)
      PROVE  AggregateInv'
  BY <1>3, AggregateDocuments
<1>4. ASSUME NEW r \in Request, NEW part \in Aggregate!Parts, Aggregate!DetailRead(r, part)
      PROVE  AggregateInv'
  BY <1>4, AggregateReads
<1>5. CASE UNCHANGED Aggregate!vars
  <2>1. /\ aggregateRow' = aggregateRow /\ price' = price
        /\ aggregateFinancials' = aggregateFinancials /\ aggregateParties' = aggregateParties
        /\ aggregateDocuments' = aggregateDocuments /\ definitions' = definitions
        /\ milestones' = milestones
        /\ aggregateFiles' = aggregateFiles /\ aggregateReq' = aggregateReq
        /\ aggregateFaults' = aggregateFaults
    BY <1>5 DEF Aggregate!vars, Aggregate!tables
  <2>2. AggregateTyped'
    BY <2>1 DEF AggregateInv, AggregateTyped
  <2>3. \A r \in Request : FineReq(r, aggregateReq[r])' /\ Written(r, aggregateReq[r])'
    BY <2>1 DEF AggregateInv, FineReq, Written
  <2>4. Stored'
    BY <2>1 DEF AggregateInv, Stored, Aggregate!PricesAgree, Aggregate!SavedBeside,
       Aggregate!FilesOfRows
  <2>5. Sole'
    BY <2>1 DEF AggregateInv, Sole
  <2>6. Listings'
    <3>1. AllColumns' = AllColumns
      BY <2>1 DEF AllColumns, Aggregate!Puts
    <3>2. \A r \in Request : ListedNow(r)' = ListedNow(r)
      BY <2>1 DEF ListedNow, Aggregate!Listed, Aggregate!Ids, Aggregate!PartyKeys,
         Aggregate!Key
    <3>3. \A t \in Transfer : Owned(t)' = Owned(t) /\ OneRequest(t)' = OneRequest(t)
      BY <2>1 DEF Owned, OneRequest, Aggregate!Committed, Aggregate!LeftBy, Aggregate!Ids
    <3>. QED
      BY <2>1, <3>1, <3>2, <3>3 DEF AggregateInv, Listings
  <2>. QED
    BY <2>2, <2>3, <2>4, <2>5, <2>6 DEF AggregateInv
<1>. QED
  BY <1>1, <1>2, <1>3, <1>4, <1>5, AggregateRollback, AggregateDefines, AggregatePosts,
     AggregateUpdates,
     AggregateDeletes, AggregateUploads, AggregateSaves DEF Aggregate!Next

\* The typing, what each request has read and locked and what the tables hold of a
\* transfer are kept by every statement of every route.
THEOREM AggregateKeep == ASSUME AggregateAssumption PROVE Aggregate!Spec => []AggregateInv
<1>1. Aggregate!Init => AggregateInv
  BY AggregateInit
<1>2. AggregateInv /\ [Aggregate!Next]_(Aggregate!vars) => AggregateInv'
  BY AggregateStep
<1>. QED
  BY <1>1, <1>2, PTL DEF Aggregate!Spec

\* However requests for a transfer overlap, fail or die, its price and its figures are
\* of one request, or its figures of a statement of account saved since the price was
\* written; its parties are of one request where every PUT locks the transfer; it has all
\* its milestones, a document names a file that is there, and GET /:id misses nothing.
THEOREM AggregateStored ==
    ASSUME AggregateAssumption
    PROVE  Aggregate!Spec => [](Aggregate!PricesAgree /\ Aggregate!PartiesOfOneRequest /\ Aggregate!MilestonesComplete /\ Aggregate!FilesOfRows /\ Aggregate!DetailWhole)
<1>1. AggregateInv => Aggregate!PartiesOfOneRequest
  BY DEF AggregateInv, Listings, AllColumns, OneRequest, Aggregate!PartiesOfOneRequest
<1>2. AggregateInv => Aggregate!DetailWhole
  BY AggregateReq DEF FineReq, Aggregate!DetailWhole
<1>3. AggregateInv => Aggregate!PricesAgree /\ Aggregate!MilestonesComplete /\ Aggregate!FilesOfRows
  BY DEF AggregateInv, Stored, Aggregate!MilestonesComplete
<1>. QED
  BY <1>1, <1>2, <1>3, AggregateKeep, PTL

\* The tables and the requests of the transfer routes keep their types.
THEOREM AggregateTypeOK == ASSUME AggregateAssumption PROVE Aggregate!Spec => []Aggregate!TypeOK
<1>1. AggregateInv => Aggregate!TypeOK
  BY DEF AggregateInv, AggregateTyped, Req, Body, PartyRow, Aggregate!TypeOK
<1>. QED
  BY <1>1, AggregateKeep, PTL

-----------------------------------------------------------------------------
(***************************************************************************)
(* The clause library and the page that merges clauses, for any clauses,   *)
(* fields and requests.  A template has two tokens and a clause at most    *)
(* one, so a text is merged token by token, and the two passes of the page *)
(* give what the reference gives.                                          *)
(***************************************************************************)
GeneratorAssumption ==
    /\ Clause # {} /\ MaxMade \in Nat /\ MaxNumber \in Nat /\ 9 <= MaxNumber
    /\ Number \subseteq 0 .. MaxNumber

-----------------------------------------------------------------------------
(* Texts.                                                                   *)

Token == [is: {"field", "clause", "word"}, name: Field \cup Clause \cup {"text", "value"}]

LEMMA GeneratorFlatten == \A s : Generator!FlattenSeq(s) = FlattenSeq(s)
BY DEF Generator!FlattenSeq, FlattenSeq

LEMMA GeneratorToSet == \A s : Generator!ToSet(s) = ToSet(s)
BY DEF Generator!ToSet, ToSet

\* Flattening no text, one, or two.
LEMMA GeneratorFlat ==
    ASSUME NEW V, NEW s \in Seq(V), NEW t \in Seq(V)
    PROVE  /\ FlattenSeq(<<>>) = <<>> /\ FlattenSeq(<<s>>) = s /\ FlattenSeq(<<s, t>>) = s \o t
<1>1. FlattenSeq(<<>>) = <<>>
  BY DEF FlattenSeq
<1>2. FlattenSeq(<<s>>) = s
  <2>. DEFINE Flat1(f) == f = [i \in 1 .. Len(<<s>>) |-> IF i = 1 THEN <<s>>[i] ELSE f[i - 1] \o <<s>>[i]]
  <2>1. PICK f : f = [i \in 1 .. Len(<<s>>) |-> s]
    OBVIOUS
  <2>2. Flat1(f)
    BY <2>1
  <2>3. PICK g : g = CHOOSE h : Flat1(h)
    OBVIOUS
  <2>4. Flat1(g)
    BY <2>2, <2>3
  <2>5. g[Len(<<s>>)] = s
    BY <2>4
  <2>6. FlattenSeq(<<s>>) = g[Len(<<s>>)]
    BY <2>3 DEF FlattenSeq
  <2>. QED
    BY <2>5, <2>6
<1>3. FlattenSeq(<<s, t>>) = s \o t
  <2>. DEFINE Flat2(f) == f = [i \in 1 .. Len(<<s, t>>) |->
                                  IF i = 1 THEN <<s, t>>[i] ELSE f[i - 1] \o <<s, t>>[i]]
  <2>0. Len(<<s, t>>) = 2 /\ <<s, t>>[1] = s /\ <<s, t>>[2] = t /\ 1 .. Len(<<s, t>>) = {1, 2}
    OBVIOUS
  <2>1. PICK f : f = [i \in 1 .. Len(<<s, t>>) |-> IF i = 1 THEN s ELSE s \o t]
    OBVIOUS
  <2>2. Flat2(f)
    <3>1. \A i \in 1 .. Len(<<s, t>>) : f[i] = IF i = 1 THEN <<s, t>>[i] ELSE f[i - 1] \o <<s, t>>[i]
      BY <2>0, <2>1
    <3>. QED
      BY <2>1, <3>1
  <2>3. PICK g : g = CHOOSE h : Flat2(h)
    OBVIOUS
  <2>4. Flat2(g)
    BY <2>2, <2>3
  <2>5. g[1] = s /\ g[2] = g[1] \o t
    <3>1. \A i \in 1 .. Len(<<s, t>>) : g[i] = IF i = 1 THEN <<s, t>>[i] ELSE g[i - 1] \o <<s, t>>[i]
      BY <2>4
    <3>2. g[1] = IF 1 = 1 THEN <<s, t>>[1] ELSE g[1 - 1] \o <<s, t>>[1]
      BY <2>0, <3>1
    <3>3. g[2] = IF 2 = 1 THEN <<s, t>>[2] ELSE g[2 - 1] \o <<s, t>>[2]
      BY <2>0, <3>1
    <3>4. g[1] = s
      BY <2>0, <3>2
    <3>5. g[2] = g[1] \o t
      BY <2>0, <3>3
    <3>. QED
      BY <3>4, <3>5
  <2>6. FlattenSeq(<<s, t>>) = g[Len(<<s, t>>)]
    BY <2>0, <2>3 DEF FlattenSeq
  <2>. QED
    BY <2>0, <2>5, <2>6
<1>. QED
  BY <1>1, <1>2, <1>3

\* A text of at most two tokens.
ShortText(text) ==
    \/ text = <<>>
    \/ \E x \in Token : text = <<x>>
    \/ \E x, y \in Token : text = <<x, y>>

LEMMA GeneratorPair ==
    ASSUME NEW a \in Token, NEW b \in Token
    PROVE  <<a>> \o <<b>> = <<a, b>>
<1>1. <<a>> \in Seq(Token) /\ <<b>> \in Seq(Token) /\ <<a, b>> \in Seq(Token)
  OBVIOUS
<1>2. /\ <<a>> \o <<b>> \in Seq(Token) /\ Len(<<a>> \o <<b>>) = 2
      /\ (<<a>> \o <<b>>)[1] = a /\ (<<a>> \o <<b>>)[2] = b
  BY <1>1, ConcatProperties
<1>3. Len(<<a, b>>) = 2 /\ <<a, b>>[1] = a /\ <<a, b>>[2] = b
  OBVIOUS
<1>4. PICK s \in Seq(Token) : s = <<a>> \o <<b>>
  BY <1>2
<1>5. PICK t \in Seq(Token) : t = <<a, b>>
  BY <1>1
<1>6. Len(s) = 2 /\ Len(t) = 2 /\ s[1] = t[1] /\ s[2] = t[2]
  BY <1>2, <1>3, <1>4, <1>5
<1>7. \A i \in 1 .. Len(s) : s[i] = t[i]
  BY <1>6
<1>. QED
  BY <1>4, <1>5, <1>6, <1>7, SeqEqual

\* Each of its tokens is replaced by one.
LEMMA GeneratorMap ==
    ASSUME NEW text, ShortText(text), NEW to \in [Token -> Token]
    PROVE  /\ FlattenSeq([i \in DOMAIN text |-> <<to[text[i]]>>]) = [i \in DOMAIN text |-> to[text[i]]]
           /\ ShortText([i \in DOMAIN text |-> to[text[i]]])
<1>1. CASE text = <<>>
  <2>1. [i \in DOMAIN text |-> <<to[text[i]]>>] = <<>> /\ [i \in DOMAIN text |-> to[text[i]]] = <<>>
    BY <1>1
  <2>2. FlattenSeq(<<>>) = <<>>
    BY GeneratorFlat, EmptySeq
  <2>. QED
    BY <2>1, <2>2 DEF ShortText
<1>2. CASE \E x \in Token : text = <<x>>
  <2>1. PICK x \in Token : text = <<x>>
    BY <1>2
  <2>2. to[x] \in Token /\ <<to[x]>> \in Seq(Token)
    OBVIOUS
  <2>3. /\ [i \in DOMAIN text |-> <<to[text[i]]>>] = <<<<to[x]>>>>
        /\ [i \in DOMAIN text |-> to[text[i]]] = <<to[x]>>
    BY <2>1
  <2>. QED
    BY <2>2, <2>3, GeneratorFlat DEF ShortText
<1>3. CASE \E x, y \in Token : text = <<x, y>>
  <2>1. PICK x \in Token, y \in Token : text = <<x, y>>
    BY <1>3
  <2>2. to[x] \in Token /\ to[y] \in Token /\ <<to[x]>> \in Seq(Token) /\ <<to[y]>> \in Seq(Token)
    OBVIOUS
  <2>3. /\ [i \in DOMAIN text |-> <<to[text[i]]>>] = <<<<to[x]>>, <<to[y]>>>>
        /\ [i \in DOMAIN text |-> to[text[i]]] = <<to[x], to[y]>>
    BY <2>1
  <2>4. <<to[x]>> \o <<to[y]>> = <<to[x], to[y]>>
    BY <2>2, GeneratorPair
  <2>5. FlattenSeq(<<<<to[x]>>, <<to[y]>>>>) = <<to[x]>> \o <<to[y]>>
    BY <2>2, GeneratorFlat
  <2>. QED
    BY <2>2, <2>3, <2>4, <2>5 DEF ShortText
<1>. QED
  BY <1>1, <1>2, <1>3 DEF ShortText

\* Two passes: the clauses give a text of at most two tokens, the fields another.
TokenOf(x) == IF x.is = "field" THEN Generator!Word("value") ELSE x

LEMMA GeneratorValue ==
    ASSUME NEW text, ShortText(text)
    PROVE  LET valued == FlattenSeq([i \in DOMAIN text |-> Generator!Value(text[i])])
           IN  /\ valued = [i \in DOMAIN text |-> TokenOf(text[i])] /\ ShortText(valued)
               /\ Generator!Named(valued, "field") = {}
               /\ valued = <<>> <=> text = <<>>
<1>1. PICK to : to = [x \in Token |-> TokenOf(x)]
  OBVIOUS
<1>2. to \in [Token -> Token] /\ \A x \in Token : to[x] = TokenOf(x) /\ to[x].is # "field"
  <2>1. \A x \in Token : TokenOf(x) \in Token /\ TokenOf(x).is # "field"
    BY DEF TokenOf, Token, Generator!Word
  <2>. QED
    BY <1>1, <2>1
<1>3. \A i \in DOMAIN text : text[i] \in Token
  BY DEF ShortText
<1>4. \A i \in DOMAIN text : Generator!Value(text[i]) = <<to[text[i]]>>
  BY <1>2, <1>3 DEF Generator!Value, TokenOf
<1>5. [i \in DOMAIN text |-> Generator!Value(text[i])] = [i \in DOMAIN text |-> <<to[text[i]]>>]
  BY <1>4
<1>6. PICK valued : valued = FlattenSeq([i \in DOMAIN text |-> Generator!Value(text[i])])
  OBVIOUS
<1>7. valued = [i \in DOMAIN text |-> to[text[i]]] /\ ShortText(valued)
  BY <1>2, <1>5, <1>6, GeneratorMap
<1>8. \A i \in DOMAIN valued : valued[i].is # "field"
  BY <1>2, <1>3, <1>7
<1>9. Generator!Named(valued, "field") = {}
  BY <1>8, GeneratorToSet DEF Generator!Named, ToSet
<1>10. valued = [i \in DOMAIN text |-> TokenOf(text[i])]
  BY <1>2, <1>3, <1>7
<1>. QED
  BY <1>6, <1>7, <1>9, <1>10 DEF ShortText

Valued(text) == FlattenSeq([i \in DOMAIN text |-> Generator!Value(text[i])])

\* A text of at most one token.
One(text) == text = <<>> \/ \E x \in Token : text = <<x>>

LEMMA GeneratorSingle ==
    ASSUME NEW x \in Token
    PROVE  /\ TokenOf(x) \in Token /\ Valued(<<x>>) = <<TokenOf(x)>>
           /\ Generator!Value(x) = <<TokenOf(x)>>
<1>1. TokenOf(x) \in Token /\ Generator!Value(x) = <<TokenOf(x)>>
  BY DEF TokenOf, Token, Generator!Word, Generator!Value
<1>2. ShortText(<<x>>)
  BY DEF ShortText
<1>3. Valued(<<x>>) = [i \in DOMAIN <<x>> |-> TokenOf(<<x>>[i])]
  BY <1>2, GeneratorValue DEF Valued
<1>4. [i \in DOMAIN <<x>> |-> TokenOf(<<x>>[i])] = <<TokenOf(x)>>
  OBVIOUS
<1>. QED
  BY <1>1, <1>3, <1>4

\* A text of two parts has the value of both.
LEMMA GeneratorJoin ==
    ASSUME NEW P, NEW Q, One(P), One(Q)
    PROVE  /\ P \in Seq(Token) /\ Q \in Seq(Token) /\ Valued(P) \in Seq(Token)
           /\ Valued(Q) \in Seq(Token)
           /\ ShortText(P \o Q) /\ Valued(P \o Q) = Valued(P) \o Valued(Q)
<1>0. /\ <<>> \in Seq(Token) /\ \A x \in Token : <<x>> \in Seq(Token)
      /\ \A text \in Seq(Token) : <<>> \o text = text /\ text \o <<>> = text
  BY EmptySeq, ConcatEmptySeq
<1>1. Valued(<<>>) = <<>>
  <2>1. [i \in DOMAIN <<>> |-> Generator!Value(<<>>[i])] = <<>>
    OBVIOUS
  <2>2. FlattenSeq(<<>>) = <<>>
    BY <1>0, GeneratorFlat
  <2>. QED
    BY <2>1, <2>2 DEF Valued
<1>2. P \in Seq(Token) /\ Q \in Seq(Token)
  BY <1>0 DEF One
<1>3. Valued(P) \in Seq(Token) /\ Valued(Q) \in Seq(Token)
  BY <1>0, <1>1, GeneratorSingle DEF One
<1>4. CASE P = <<>>
  <2>1. P \o Q = Q /\ Valued(P) \o Valued(Q) = Valued(Q)
    BY <1>0, <1>1, <1>2, <1>3, <1>4
  <2>. QED
    BY <1>2, <1>3, <2>1 DEF One, ShortText
<1>5. CASE Q = <<>>
  <2>1. P \o Q = P /\ Valued(P) \o Valued(Q) = Valued(P)
    BY <1>0, <1>1, <1>2, <1>3, <1>5
  <2>. QED
    BY <1>2, <1>3, <2>1 DEF One, ShortText
<1>6. CASE P # <<>> /\ Q # <<>>
  <2>1. PICK x \in Token, y \in Token : P = <<x>> /\ Q = <<y>>
    BY <1>6 DEF One
  <2>2. P \o Q = <<x, y>> /\ ShortText(<<x, y>>)
    BY <2>1, GeneratorPair DEF ShortText
  <2>3. Valued(<<x, y>>) = [i \in DOMAIN <<x, y>> |-> TokenOf(<<x, y>>[i])]
    BY <2>2, GeneratorValue DEF Valued
  <2>4. [i \in DOMAIN <<x, y>> |-> TokenOf(<<x, y>>[i])] = <<TokenOf(x), TokenOf(y)>>
    OBVIOUS
  <2>5. Valued(P) = <<TokenOf(x)>> /\ Valued(Q) = <<TokenOf(y)>>
    BY <2>1, GeneratorSingle
  <2>6. <<TokenOf(x)>> \o <<TokenOf(y)>> = <<TokenOf(x), TokenOf(y)>>
    BY GeneratorSingle, GeneratorPair
  <2>. QED
    BY <1>2, <1>3, <2>2, <2>3, <2>4, <2>5, <2>6
<1>. QED
  BY <1>4, <1>5, <1>6

\* What the page has of the library: one row of a clause.
OneOfClause(clauses) == \A k, l \in clauses : k.clause = l.clause => k = l

LEMMA GeneratorActive ==
    ASSUME NEW clauses \in SUBSET Generator!Flat, OneOfClause(clauses), NEW c,
           NEW k \in Generator!getActiveClause(clauses, c)
    PROVE  /\ Generator!getActiveClause(clauses, c) = {k} /\ k \in clauses /\ k.clause = c
           /\ k.row.status = "Active" /\ One(k.row.content)
<1>1. k \in clauses /\ k.clause = c /\ k.row.status = "Active"
  BY DEF Generator!getActiveClause
<1>2. \A l \in Generator!getActiveClause(clauses, c) : l \in clauses /\ l.clause = c
  BY DEF Generator!getActiveClause
<1>3. Generator!getActiveClause(clauses, c) = {k}
  BY <1>1, <1>2 DEF OneOfClause
<1>4. k.row.content \in Generator!Texts \cup {<<>>}
  <2>1. k \in {[clause |-> d, row |-> r] : d \in Clause, r \in Generator!Row}
    BY <1>1 DEF Generator!Flat
  <2>2. PICK d \in Clause, r \in Generator!Row : k = [clause |-> d, row |-> r]
    BY <2>1
  <2>3. k.row = r
    BY <2>2
  <2>4. r.content \in Generator!Texts \cup {<<>>}
    BY DEF Generator!Row
  <2>. QED
    BY <2>3, <2>4
<1>5. \A text \in Generator!Texts : \E x \in Token : text = <<x>>
  BY DEF Generator!Texts, Token, Generator!Word, Generator!Field_, Generator!Clause_
<1>. QED
  BY <1>1, <1>3, <1>4, <1>5 DEF One

\* What a token of a template brings into the text.
Part(z, clauses) ==
    IF z.is = "clause" THEN (CHOOSE k \in Generator!getActiveClause(clauses, z.name) : TRUE).row.content ELSE <<z>>

LEMMA GeneratorMerge ==
    ASSUME NEW clauses \in SUBSET Generator!Flat, OneOfClause(clauses),
           NEW template \in Generator!Templates,
           NEW data \in SUBSET Defined, NEW resolution, Generator!Complete(resolution),
           resolution = Generator!resolveTemplate(template, data, clauses)
    PROVE  /\ resolution.content = Generator!Expanded(template, resolution.resolvedClauses)
           /\ Generator!Named(resolution.content, "field") = {}
           /\ \A k \in resolution.resolvedClauses : k.row.status = "Active"
           /\ resolution.resolvedClauses \subseteq clauses
<1>1. PICK x \in Token, y \in Token : template = <<x, y>> /\ x.is \in {"field", "clause"} /\ y.is = "clause"
  <2>1. CASE template \in {<<Generator!Field_(f), Generator!Clause_(c)>> : f \in Field, c \in Clause}
    <3>1. PICK f \in Field, c \in Clause : template = <<Generator!Field_(f), Generator!Clause_(c)>>
      BY <2>1
    <3>2. /\ Generator!Field_(f) \in Token /\ Generator!Clause_(c) \in Token
          /\ Generator!Field_(f).is = "field" /\ Generator!Clause_(c).is = "clause"
      BY DEF Generator!Field_, Generator!Clause_, Token
    <3>. QED
      BY <3>1, <3>2
  <2>2. CASE template \in {<<Generator!Clause_(c), Generator!Clause_(c)>> : c \in Clause}
    <3>1. PICK c \in Clause : template = <<Generator!Clause_(c), Generator!Clause_(c)>>
      BY <2>2
    <3>2. Generator!Clause_(c) \in Token /\ Generator!Clause_(c).is = "clause"
      BY DEF Generator!Clause_, Token
    <3>. QED
      BY <3>1, <3>2
  <2>. QED
    BY <2>1, <2>2 DEF Generator!Templates
<1>2. ToSet(template) = {x, y}
  BY <1>1 DEF ToSet
<1>3. PICK text : text = Generator!Assembled(template, clauses)
  OBVIOUS
<1>4. PICK known : known = {z \in ToSet(text) : z.is = "field" /\ z.name \in Defined \cap data}
  OBVIOUS
<1>5. PICK found : found = {c \in Generator!Named(template, "clause") : Generator!getActiveClause(clauses, c) # {}}
  OBVIOUS
<1>6. /\ resolution.content = Generator!Replaced(text, [z \in known |-> <<Generator!Word("value")>>])
      /\ resolution.undefinedFields = Generator!Named(text, "field") \ Defined
      /\ resolution.unresolvedFields = (Generator!Named(text, "field") \cap Defined) \ data
      /\ resolution.resolvedClauses = UNION {Generator!getActiveClause(clauses, c) : c \in found}
      /\ resolution.unresolvedClauses = Generator!Named(template, "clause") \ found
  BY <1>3, <1>4, <1>5, GeneratorToSet DEF Generator!resolveTemplate
<1>7. ASSUME NEW z \in {x, y}, z.is = "clause"
      PROVE  Generator!getActiveClause(clauses, z.name) # {} /\ z.name \in found
  <2>1. z.name \in Generator!Named(template, "clause")
    BY <1>2, <1>7, GeneratorToSet DEF Generator!Named
  <2>. QED
    BY <1>5, <1>6, <2>1 DEF Generator!Complete
<1>8. ASSUME NEW z \in {x, y}
      PROVE  /\ One(Part(z, clauses))
             /\ z.is = "clause" => /\ resolution.resolvedClauses # {}
                                   /\ Part(z, clauses) = (CHOOSE k \in resolution.resolvedClauses :
                                                                k.clause = z.name).row.content
  <2>1. CASE z.is = "clause"
    <3>1. PICK k : k \in Generator!getActiveClause(clauses, z.name)
      BY <1>7, <2>1
    <3>2. /\ Generator!getActiveClause(clauses, z.name) = {k} /\ k \in clauses /\ k.clause = z.name
          /\ One(k.row.content)
      BY <3>1, GeneratorActive
    <3>3. k \in resolution.resolvedClauses /\ resolution.resolvedClauses \subseteq clauses
      BY <1>6, <1>7, <2>1, <3>1 DEF Generator!getActiveClause
    <3>4. (CHOOSE l \in resolution.resolvedClauses : l.clause = z.name) = k
      BY <3>2, <3>3 DEF OneOfClause
    <3>5. (CHOOSE l \in Generator!getActiveClause(clauses, z.name) : TRUE) = k
      BY <3>2
    <3>. QED
      BY <2>1, <3>2, <3>3, <3>4, <3>5 DEF Part
  <2>2. CASE z.is # "clause"
    BY <1>1, <2>2 DEF Part, One
  <2>. QED
    BY <2>1, <2>2
<1>9. PICK P, Q : P = Part(x, clauses) /\ Q = Part(y, clauses)
  OBVIOUS
<1>10. /\ P \in Seq(Token) /\ Q \in Seq(Token) /\ Valued(P) \in Seq(Token)
       /\ Valued(Q) \in Seq(Token)
       /\ ShortText(P \o Q) /\ Valued(P \o Q) = Valued(P) \o Valued(Q)
  BY <1>8, <1>9, GeneratorJoin
<1>11. text = P \o Q
  <2>1. PICK first : first = {z \in ToSet(template) : z.is = "clause" /\ Generator!getActiveClause(clauses, z.name) # {}}
    OBVIOUS
  <2>2. PICK by : by = [z \in first |-> (CHOOSE k \in Generator!getActiveClause(clauses, z.name) : TRUE).row.content]
    OBVIOUS
  <2>3. text = Generator!Replaced(template, by)
    BY <1>3, <2>1, <2>2, GeneratorToSet DEF Generator!Assembled
  <2>4. \A z \in {x, y} : (IF z \in DOMAIN by THEN by[z] ELSE <<z>>) = Part(z, clauses)
    BY <1>2, <1>7, <2>1, <2>2 DEF Part
  <2>5. [i \in DOMAIN template |-> IF template[i] \in DOMAIN by THEN by[template[i]] ELSE <<template[i]>>] = <<P, Q>>
    BY <1>1, <1>9, <2>4
  <2>. QED
    BY <1>10, <2>3, <2>5, GeneratorFlat, GeneratorFlatten DEF Generator!Replaced
<1>12. resolution.content = Valued(text)
  <2>1. PICK by : by = [z \in known |-> <<Generator!Word("value")>>]
    OBVIOUS
  <2>2. ASSUME NEW i \in DOMAIN text
        PROVE  (IF text[i] \in DOMAIN by THEN by[text[i]] ELSE <<text[i]>>) = Generator!Value(text[i])
    <3>1. text[i] \in ToSet(text)
      BY DEF ToSet
    <3>2. text[i].is = "field" => text[i].name \in Generator!Named(text, "field")
      BY <3>1, GeneratorToSet DEF Generator!Named
    <3>3. text[i].is = "field" => text[i].name \in Defined \cap data
      BY <1>6, <3>2 DEF Generator!Complete
    <3>4. text[i].is = "field" <=> text[i] \in known
      BY <1>4, <3>1, <3>3
    <3>. QED
      BY <2>1, <3>4 DEF Generator!Value
  <2>3. [i \in DOMAIN text |-> IF text[i] \in DOMAIN by THEN by[text[i]] ELSE <<text[i]>>]
          = [i \in DOMAIN text |-> Generator!Value(text[i])]
    BY <2>2
  <2>. QED
    BY <1>6, <2>1, <2>3, GeneratorFlatten DEF Generator!Replaced, Valued
<1>13. Generator!Expanded(template, resolution.resolvedClauses) = Valued(P) \o Valued(Q)
  <2>1. PICK E : E = [z \in {x, y} |->
           IF z.is # "clause" THEN Generator!Value(z)
           ELSE LET k == CHOOSE k \in resolution.resolvedClauses : k.clause = z.name
                IN  FlattenSeq([j \in DOMAIN k.row.content |-> Generator!Value(k.row.content[j])])]
    OBVIOUS
  <2>2. ASSUME NEW z \in {x, y} PROVE E[z] = Valued(Part(z, clauses))
    <3>1. CASE z.is = "clause"
      <4>1. PICK k : k = CHOOSE l \in resolution.resolvedClauses : l.clause = z.name
        OBVIOUS
      <4>2. E[z] = FlattenSeq([j \in DOMAIN k.row.content |-> Generator!Value(k.row.content[j])])
        BY <2>1, <3>1, <4>1
      <4>3. Part(z, clauses) = k.row.content
        BY <1>8, <3>1, <4>1
      <4>. QED
        BY <4>2, <4>3 DEF Valued
    <3>2. CASE z.is # "clause"
      <4>1. E[z] = Generator!Value(z) /\ Part(z, clauses) = <<z>>
        BY <2>1, <3>2 DEF Part
      <4>. QED
        BY <4>1, GeneratorSingle
    <3>. QED
      BY <3>1, <3>2
  <2>3. [i \in DOMAIN template |->
           IF template[i].is # "clause" THEN Generator!Value(template[i])
           ELSE LET k == CHOOSE k \in resolution.resolvedClauses : k.clause = template[i].name
                IN  FlattenSeq([j \in DOMAIN k.row.content |-> Generator!Value(k.row.content[j])])]
          = [i \in DOMAIN template |-> E[template[i]]]
    <3>1. \A i \in DOMAIN template : template[i] \in {x, y}
      BY <1>1
    <3>. QED
      BY <2>1, <3>1
  <2>4. [i \in DOMAIN template |-> E[template[i]]] = <<E[x], E[y]>>
    BY <1>1
  <2>5. E[x] = Valued(P) /\ E[y] = Valued(Q)
    BY <1>9, <2>2
  <2>6. Generator!Expanded(template, resolution.resolvedClauses) = FlattenSeq([i \in DOMAIN template |-> E[template[i]]])
    BY <2>3, GeneratorFlatten DEF Generator!Expanded
  <2>7. FlattenSeq(<<Valued(P), Valued(Q)>>) = Valued(P) \o Valued(Q)
    BY <1>10, GeneratorFlat
  <2>. QED
    BY <2>4, <2>5, <2>6, <2>7
<1>14. Generator!Named(Valued(text), "field") = {}
  BY <1>10, <1>11, GeneratorValue DEF Valued
<1>15. \A k \in resolution.resolvedClauses : k.row.status = "Active" /\ k \in clauses
  BY <1>6 DEF Generator!getActiveClause
<1>. QED
  BY <1>10, <1>11, <1>12, <1>13, <1>14, <1>15

-----------------------------------------------------------------------------
(* The library.                                                             *)

\* Of rows no two of which have one number, one sorts first as text.
Numbered(rows) == \A v, w \in rows : v.number = w.number => v = w

LEMMA GeneratorGreatest ==
    ASSUME NEW n \in Nat, NEW S \in SUBSET (0 .. n), S # {}
    PROVE  \E m \in S : \A k \in S : k <= m
<1>1. PICK T : T = {n - k : k \in S}
  OBVIOUS
<1>2. T \subseteq Nat /\ T # {}
  <2>1. \A k \in S : n - k \in Nat
    OBVIOUS
  <2>. QED
    BY <1>1, <2>1
<1>3. PICK t \in T : \A u \in T : ~(<<u, t>> \in OpToRel(<, Nat))
  BY <1>2, NatLessThanWellFounded, WFMin
<1>4. \A u \in T : ~(u < t)
  BY <1>2, <1>3 DEF OpToRel
<1>5. PICK m \in S : t = n - m
  BY <1>1
<1>6. ASSUME NEW k \in S PROVE k <= m
  <2>1. n - k \in T /\ ~(n - k < n - m)
    BY <1>1, <1>4, <1>5
  <2>. QED
    BY <2>1
<1>. QED
  BY <1>6

LEMMA GeneratorFirst ==
    ASSUME NEW rows \in SUBSET Generator!Row, Numbered(rows), rows # {}, MaxNumber \in Nat
    PROVE  Generator!First(rows) \in rows
<1>1. \A v \in rows : v.number \in 0 .. MaxNumber
  BY DEF Generator!Row
<1>2. \A n \in 0 .. MaxNumber : Generator!Lead(n) \in 0 .. MaxNumber
  BY DEF Generator!Lead
<1>3. PICK leads : leads = {Generator!Lead(v.number) : v \in rows}
  OBVIOUS
<1>4. leads \in SUBSET (0 .. MaxNumber) /\ leads # {}
  BY <1>1, <1>2, <1>3
<1>5. PICK l \in leads : \A k \in leads : k <= l
  BY <1>4, GeneratorGreatest
<1>6. PICK numbers : numbers = {n \in 0 .. MaxNumber : Generator!Lead(n) = l /\ \E v \in rows : v.number = n}
  OBVIOUS
<1>7. numbers \in SUBSET (0 .. MaxNumber) /\ numbers # {}
  BY <1>1, <1>3, <1>5, <1>6
<1>8. PICK m \in numbers : \A k \in numbers : k <= m
  BY <1>7, GeneratorGreatest
<1>9. PICK v \in rows : v.number = m
  BY <1>6, <1>8
<1>10. ASSUME NEW w \in rows PROVE w = v \/ Generator!TextBefore(w.number, v.number)
  <2>1. /\ Generator!Lead(w.number) \in leads /\ Generator!Lead(w.number) \in Nat /\ l \in Nat
        /\ Generator!Lead(w.number) <= l
    BY <1>1, <1>2, <1>3, <1>4, <1>5
  <2>2. m \in Nat /\ w.number \in 0 .. MaxNumber /\ Generator!Lead(m) = l
    BY <1>1, <1>6, <1>8
  <2>3. CASE Generator!Lead(w.number) = l
    <3>1. w.number <= m
      BY <1>6, <1>8, <2>2, <2>3
    <3>2. w.number = m => w = v
      BY <1>9 DEF Numbered
    <3>. QED
      BY <1>9, <2>2, <2>3, <3>1, <3>2 DEF Generator!TextBefore
  <2>4. CASE Generator!Lead(w.number) # l
    BY <1>9, <2>1, <2>2, <2>4 DEF Generator!TextBefore
  <2>. QED
    BY <2>3, <2>4
<1>11. \E u \in rows : \A w \in rows : w = u \/ Generator!TextBefore(w.number, u.number)
  BY <1>9, <1>10
<1>. QED
  BY <1>11 DEF Generator!First

\* The list has one row of each clause that has any.
LEMMA GeneratorList ==
    ASSUME versions \in [Clause -> SUBSET Generator!Row], Generator!NumberedOnce,
           MaxNumber \in Nat
    PROVE  Generator!listClauses \subseteq Generator!Flat /\ OneOfClause(Generator!listClauses)
<1>1. ASSUME NEW c \in Clause,
             versions[c] # {} PROVE Generator!pickActiveVersion(versions[c]) \in Generator!Row
  <2>1. versions[c] \in SUBSET Generator!Row /\ Numbered(versions[c])
    BY DEF Generator!NumberedOnce, Numbered
  <2>2. PICK rows : rows = IF {v \in versions[c] : v.status = "Active"} # {}
                           THEN {v \in versions[c] : v.status = "Active"} ELSE versions[c]
    OBVIOUS
  <2>3. rows \in SUBSET versions[c] /\ rows # {} /\ rows \in SUBSET Generator!Row /\ Numbered(rows)
    BY <1>1, <2>1, <2>2 DEF Numbered
  <2>4. Generator!First(rows) \in rows
    BY <2>3, GeneratorFirst
  <2>. QED
    BY <2>2, <2>3, <2>4 DEF Generator!pickActiveVersion
<1>2. \A k \in Generator!listClauses : \E c \in Clause : /\ versions[c] # {}
                                                       /\ k = [clause |-> c, row |-> Generator!pickActiveVersion(versions[c])]
  BY DEF Generator!listClauses
<1>3. ASSUME NEW k \in Generator!listClauses PROVE k \in Generator!Flat
  <2>1. PICK c \in Clause : versions[c] # {} /\ k = [clause |-> c, row |-> Generator!pickActiveVersion(versions[c])]
    BY <1>2
  <2>. QED
    BY <1>1, <2>1 DEF Generator!Flat
<1>4. ASSUME NEW k \in Generator!listClauses, NEW l \in Generator!listClauses,
             k.clause = l.clause PROVE k = l
  <2>1. PICK c \in Clause : k = [clause |-> c, row |-> Generator!pickActiveVersion(versions[c])]
    BY <1>2
  <2>2. PICK d \in Clause : l = [clause |-> d, row |-> Generator!pickActiveVersion(versions[d])]
    BY <1>2
  <2>3. k.clause = c /\ l.clause = d
    BY <2>1, <2>2
  <2>. QED
    BY <1>4, <2>1, <2>2, <2>3
<1>. QED
  BY <1>3, <1>4 DEF OneOfClause

LEMMA GeneratorSamples ==
    ASSUME MaxNumber \in Nat
    PROVE  /\ Generator!INITIAL_CLAUSES \subseteq Generator!Flat
           /\ OneOfClause(Generator!INITIAL_CLAUSES)
<1>1. PICK row : row = [number |-> 0, status |-> "Active", content |-> <<Generator!Word("text")>>]
  OBVIOUS
<1>2. row \in Generator!Row
  BY <1>1 DEF Generator!Row, Generator!Status, Generator!Texts
<1>3. Generator!INITIAL_CLAUSES = {[clause |-> c, row |-> row] : c \in Clause}
  BY <1>1 DEF Generator!INITIAL_CLAUSES
<1>4. ASSUME NEW k \in Generator!INITIAL_CLAUSES
      PROVE  k \in Generator!Flat /\ k = [clause |-> k.clause, row |-> row]
  <2>1. PICK c \in Clause : k = [clause |-> c, row |-> row]
    BY <1>3
  <2>2. k.clause = c
    BY <2>1
  <2>. QED
    BY <1>2, <2>1, <2>2 DEF Generator!Flat
<1>. QED
  BY <1>4 DEF OneOfClause

-----------------------------------------------------------------------------
(* The invariant.                                                           *)

GeneratorReq == [op: {"none", "post", "put"}, pc: {"new", "upsert", "max", "insert", "commit", "done"},
                 clause: Clause, row: Generator!Row, gone: BOOLEAN, answer: {"none", "refused", "done"}]

GeneratorPage == [mounted: BOOLEAN, loading: SUBSET {"clauses", "history"}, clauses: SUBSET Generator!Flat,
                  offline: BOOLEAN, busy: BOOLEAN, history: SUBSET (1 .. MaxMade),
                  historyError: BOOLEAN, recording: SUBSET (1 .. MaxMade)]

GeneratorTyped ==
    /\ versions \in [Clause -> SUBSET Generator!Row] /\ generatorReq \in [Request -> GeneratorReq]
    /\ page \in GeneratorPage /\ made \in 0 .. MaxMade /\ last.clauses \subseteq Generator!Flat

\* The row request r has inserted has a number of its own, and the PUT that asks
\* for the next number finds a clause that has one.
Apart(r) ==
    /\ generatorReq[r].pc = "commit" =>
        /\ \A v \in versions[generatorReq[r].clause] : v.number # generatorReq[r].row.number
        /\ \A q \in Request \ {r} : generatorReq[q].pc = "commit" /\ generatorReq[q].clause = generatorReq[r].clause =>
                generatorReq[q].row.number # generatorReq[r].row.number
    /\ generatorReq[r].pc = "max" => generatorReq[r].op = "put"
    /\ generatorReq[r].pc = "max" /\ ~generatorReq[r].gone => versions[generatorReq[r].clause] # {}

\* Until the lists are there nothing is made.
PageInOrder ==
    /\ OneOfClause(page.clauses)
    /\ ~page.mounted => page.loading = {}
    /\ ~page.mounted \/ page.loading # {} => made = 0 /\ ~page.busy
    /\ page.busy => made < MaxMade

GeneratorInv ==
    /\ GeneratorTyped /\ Generator!NumberedOnce /\ (\A r \in Request : Apart(r)) /\ PageInOrder
    /\ Generator!HistoryKept /\ Generator!MergedWhole

LEMMA GeneratorTypes ==
    ASSUME GeneratorInv, GeneratorAssumption
    PROVE  /\ versions \in [Clause -> SUBSET Generator!Row]
           /\ generatorReq \in [Request -> GeneratorReq]
           /\ page \in GeneratorPage /\ made \in Nat /\ made <= MaxMade
           /\ last.clauses \subseteq Generator!Flat
           /\ MaxMade \in Nat /\ MaxNumber \in Nat /\ 9 <= MaxNumber
           /\ \A r \in Request : generatorReq[r] \in GeneratorReq /\ Apart(r)
           /\ Generator!NumberedOnce /\ PageInOrder
BY DEF GeneratorInv, GeneratorTyped, GeneratorAssumption

LEMMA GeneratorNoRequest ==
    ASSUME GeneratorAssumption
    PROVE  /\ Generator!NoRequest \in GeneratorReq /\ Generator!NoRequest.pc = "new"
           /\ Generator!NoRequest.op = "none"
           /\ ~Generator!NoRequest.gone
<1>1. (CHOOSE c \in Clause : TRUE) \in Clause
  BY DEF GeneratorAssumption
<1>2. PICK row : row = [number |-> 0, status |-> "Draft", content |-> <<>>]
  OBVIOUS
<1>3. row \in Generator!Row
  BY <1>2 DEF Generator!Row, Generator!Status, GeneratorAssumption
<1>. QED
  BY <1>1, <1>2, <1>3 DEF Generator!NoRequest, GeneratorReq

\* The page and what it made last do not change.
LEMMA GeneratorPageKept ==
    ASSUME GeneratorInv, UNCHANGED <<page, made, last>>
    PROVE  PageInOrder' /\ Generator!HistoryKept' /\ Generator!MergedWhole'
<1>1. PageInOrder' /\ Generator!HistoryKept'
  BY DEF GeneratorInv, PageInOrder, OneOfClause, Generator!HistoryKept
<1>2. Generator!MergedWhole'
  BY DEF GeneratorInv, Generator!MergedWhole, Generator!Expanded, Generator!Named
<1>. QED
  BY <1>1, <1>2

\* A request goes on; the library does not change.
LEMMA GeneratorServes ==
    ASSUME GeneratorAssumption, GeneratorInv, NEW r \in Request, NEW f \in GeneratorReq,
           generatorReq' = [generatorReq EXCEPT ![r] = f], UNCHANGED <<versions, page, made, last>>,
           f.pc = "commit" =>
               /\ \A v \in versions[f.clause] : v.number # f.row.number
               /\ \A q \in Request \ {r} : generatorReq[q].pc = "commit" /\ generatorReq[q].clause = f.clause =>
                       generatorReq[q].row.number # f.row.number,
           f.pc = "max" => f.op = "put" /\ (~f.gone => versions[f.clause] # {})
    PROVE  GeneratorInv'
<1>t. /\ versions \in [Clause -> SUBSET Generator!Row] /\ generatorReq \in [Request -> GeneratorReq]
      /\ \A q \in Request : Apart(q)
  BY GeneratorTypes
<1>1. \A q \in Request : generatorReq'[q] = IF q = r THEN f ELSE generatorReq[q]
  BY <1>t
<1>2. ASSUME NEW q \in Request PROVE Apart(q)'
  <2>1. CASE q = r
    BY <1>1, <2>1 DEF Apart
  <2>2. CASE q # r
    <3>1. Apart(q) /\ generatorReq'[q] = generatorReq[q]
      BY <1>t, <1>1, <2>2
    <3>2. ASSUME NEW s \in Request \ {q}, generatorReq[q].pc = "commit",
                 generatorReq'[s].pc = "commit",
                 generatorReq'[s].clause = generatorReq[q].clause
          PROVE  generatorReq'[s].row.number # generatorReq[q].row.number
      BY <1>1, <2>2, <3>1, <3>2 DEF Apart
    <3>. QED
      BY <3>1, <3>2 DEF Apart
  <2>. QED
    BY <2>1, <2>2
<1>3. GeneratorTyped'
  BY <1>t, GeneratorTypes DEF GeneratorTyped, GeneratorInv
<1>4. Generator!NumberedOnce' /\ PageInOrder' /\ Generator!HistoryKept' /\ Generator!MergedWhole'
  BY GeneratorPageKept DEF GeneratorInv, Generator!NumberedOnce
<1>. QED
  BY <1>2, <1>3, <1>4 DEF GeneratorInv

\* A request ends.
LEMMA GeneratorEnds ==
    ASSUME GeneratorAssumption, GeneratorInv, NEW r \in Request, NEW answer \in {"refused", "done"},
           Generator!End(r, answer), UNCHANGED <<versions, page, made, last>>
    PROVE  GeneratorInv'
<1>1. PICK f : f = [Generator!NoRequest EXCEPT !.pc = "done", !.answer = answer]
  OBVIOUS
<1>2. f \in GeneratorReq /\ f.pc = "done"
  BY <1>1, GeneratorNoRequest DEF GeneratorReq
<1>3. generatorReq' = [generatorReq EXCEPT ![r] = f]
  BY <1>1 DEF Generator!End, Generator!Go
<1>. QED
  BY <1>2, <1>3, GeneratorServes

LEMMA GeneratorRows ==
    ASSUME GeneratorAssumption, NEW row \in Generator!NewRow
    PROVE  row \in Generator!Row
BY DEF GeneratorAssumption, Generator!NewRow, Generator!Row, Generator!Status,
   Generator!Texts

LEMMA GeneratorBegins ==
    ASSUME GeneratorAssumption, GeneratorInv, NEW r \in Request, NEW c \in Clause,
           NEW row \in Generator!NewRow,
           Generator!PostBegin(r, c, row) \/ \E named \in BOOLEAN : Generator!PutBegin(r, c, row, named)
    PROVE  GeneratorInv'
<1>0. row \in Generator!Row
  BY GeneratorRows
<1>1. CASE Generator!PostBegin(r, c, row)
  <2>1. PICK f : f = [Generator!NoRequest EXCEPT !.op = "post", !.pc = "upsert", !.clause = c, !.row = row]
    OBVIOUS
  <2>2. f \in GeneratorReq /\ f.pc = "upsert"
    BY <1>0, <2>1, GeneratorNoRequest DEF GeneratorReq
  <2>3. generatorReq' = [generatorReq EXCEPT ![r] = f] /\ UNCHANGED <<versions, page, made, last>>
    BY <1>1, <2>1 DEF Generator!PostBegin, Generator!Go
  <2>. QED
    BY <2>2, <2>3, GeneratorServes
<1>2. ASSUME NEW named \in BOOLEAN, Generator!PutBegin(r, c, row, named) PROVE GeneratorInv'
  <2>0. UNCHANGED <<versions, page, made, last>>
    BY <1>2 DEF Generator!PutBegin
  <2>1. CASE \E answer \in {"refused", "done"} : Generator!End(r, answer)
    BY <2>0, <2>1, GeneratorEnds
  <2>2. CASE ~\E answer \in {"refused", "done"} : Generator!End(r, answer)
    <3>1. PICK f : f = [Generator!NoRequest EXCEPT !.op = "put", !.pc = IF named THEN "insert" ELSE "max",
                                                   !.clause = c, !.row = row]
      OBVIOUS
    <3>2. f \in GeneratorReq /\ f.pc \in {"insert", "max"} /\ f.op = "put" /\ f.clause = c
      BY <1>0, <3>1, GeneratorNoRequest DEF GeneratorReq
    <3>3. generatorReq' = [generatorReq EXCEPT ![r] = f] /\ versions[c] # {}
      BY <1>2, <2>2, <3>1 DEF Generator!PutBegin, Generator!Go
    <3>. QED
      BY <2>0, <3>2, <3>3, GeneratorServes
  <2>. QED
    BY <2>1, <2>2
<1>. QED
  BY <1>1, <1>2

\* A row is inserted once no other request has, or is about to commit, its number.
LEMMA GeneratorInserts ==
    ASSUME GeneratorAssumption, GeneratorInv, NEW r \in Request, Generator!PostInsert(r) \/ Generator!PutInsert(r)
    PROVE  GeneratorInv'
<1>0. UNCHANGED <<versions, page, made, last>> /\ ~Generator!Waits(r)
  BY DEF Generator!PostInsert, Generator!PutInsert
<1>1. CASE Generator!End(r, "refused")
  BY <1>0, <1>1, GeneratorEnds
<1>2. CASE ~Generator!End(r, "refused")
  <2>1. Generator!Go(r, [generatorReq[r] EXCEPT !.pc = "commit"]) /\ ~Generator!Taken(r)
    BY <1>2 DEF Generator!PostInsert, Generator!PutInsert
  <2>2. PICK f : f = [generatorReq[r] EXCEPT !.pc = "commit"]
    OBVIOUS
  <2>3. /\ f \in GeneratorReq /\ f.pc = "commit" /\ f.clause = generatorReq[r].clause
        /\ f.row = generatorReq[r].row
    BY <2>2, GeneratorTypes DEF GeneratorReq
  <2>4. generatorReq' = [generatorReq EXCEPT ![r] = f]
    BY <2>1, <2>2 DEF Generator!Go
  <2>5. \A v \in versions[f.clause] : v.number # f.row.number
    BY <2>1, <2>3 DEF Generator!Taken
  <2>6. \A q \in Request \ {r} : generatorReq[q].pc = "commit" /\ generatorReq[q].clause = f.clause =>
            generatorReq[q].row.number # f.row.number
    BY <1>0, <2>3 DEF Generator!Waits, Generator!Others, Generator!Uncommitted
  <2>. QED
    BY <1>0, <2>3, <2>4, <2>5, <2>6, GeneratorServes
<1>. QED
  BY <1>1, <1>2

LEMMA GeneratorNumbers ==
    ASSUME GeneratorAssumption, GeneratorInv, NEW r \in Request, Generator!PutNumber(r)
    PROVE  GeneratorInv'
<1>0. UNCHANGED <<versions, page, made, last>> /\ generatorReq[r].pc = "max"
  BY DEF Generator!PutNumber, Generator!At
<1>1. CASE generatorReq[r].gone
  BY <1>0, <1>1, GeneratorEnds DEF Generator!PutNumber
<1>2. CASE ~generatorReq[r].gone
  <2>1. /\ versions[generatorReq[r].clause] # {}
        /\ versions[generatorReq[r].clause] \in SUBSET Generator!Row
        /\ Numbered(versions[generatorReq[r].clause]) /\ MaxNumber \in Nat
    BY <1>0, <1>2, GeneratorTypes DEF Apart, Generator!NumberedOnce, Numbered, GeneratorReq
  <2>2. Generator!First(versions[generatorReq[r].clause]) \in Generator!Row
    BY <2>1, GeneratorFirst
  <2>3. PICK next : next = Generator!First(versions[generatorReq[r].clause]).number + 1
    OBVIOUS
  <2>4. /\ next <= MaxNumber
        /\ Generator!Go(r, [generatorReq[r] EXCEPT !.pc = "insert", !.row.number = next])
    BY <1>2, <2>3 DEF Generator!PutNumber
  <2>5. next \in 0 .. MaxNumber
    <3>1. Generator!First(versions[generatorReq[r].clause]).number \in Nat
      BY <2>2 DEF Generator!Row
    <3>. QED
      BY <2>1, <2>3, <2>4, <3>1
  <2>6. PICK row : row = [generatorReq[r].row EXCEPT !.number = next]
    OBVIOUS
  <2>7. row \in Generator!Row
    BY <2>5, <2>6, GeneratorTypes DEF GeneratorReq, Generator!Row
  <2>8. PICK f : f = [generatorReq[r] EXCEPT !.pc = "insert", !.row = row]
    OBVIOUS
  <2>9. f \in GeneratorReq /\ f.pc = "insert"
    BY <2>7, <2>8, GeneratorTypes DEF GeneratorReq
  <2>10. generatorReq' = [generatorReq EXCEPT ![r] = f]
    <3>1. [generatorReq[r] EXCEPT !.pc = "insert", !.row.number = next] = f
      BY <2>6, <2>8, GeneratorTypes DEF GeneratorReq
    <3>. QED
      BY <2>4, <3>1 DEF Generator!Go
  <2>. QED
    BY <1>0, <2>9, <2>10, GeneratorServes
<1>. QED
  BY <1>1, <1>2

LEMMA GeneratorCommits ==
    ASSUME GeneratorAssumption, GeneratorInv, NEW r \in Request, Generator!PostCommit(r) \/ Generator!PutCommit(r)
    PROVE  GeneratorInv'
<1>t. /\ versions \in [Clause -> SUBSET Generator!Row] /\ generatorReq \in [Request -> GeneratorReq]
      /\ \A q \in Request : Apart(q) /\ generatorReq[q] \in GeneratorReq
      /\ Generator!NumberedOnce
  BY GeneratorTypes
<1>1. /\ UNCHANGED <<page, made, last>> /\ generatorReq[r].pc = "commit" /\ Generator!Store(r)
      /\ Generator!End(r, "done")
  BY DEF Generator!PostCommit, Generator!PutCommit, Generator!At
<1>2. PICK c \in Clause, row \in Generator!Row : c = generatorReq[r].clause /\ row = generatorReq[r].row
  BY <1>t DEF GeneratorReq
<1>3. versions' = [versions EXCEPT ![c] = @ \cup {row}]
  BY <1>1, <1>2 DEF Generator!Store
<1>4. PICK f : f = [Generator!NoRequest EXCEPT !.pc = "done", !.answer = "done"]
  OBVIOUS
<1>5. f \in GeneratorReq /\ f.pc = "done"
  BY <1>4, GeneratorNoRequest DEF GeneratorReq
<1>6. generatorReq' = [generatorReq EXCEPT ![r] = f]
  BY <1>1, <1>4 DEF Generator!End, Generator!Go
<1>7. \A d \in Clause : versions'[d] = IF d = c THEN versions[d] \cup {row} ELSE versions[d]
  BY <1>t, <1>3
<1>8. \A v \in versions[c] : v.number # row.number
  BY <1>t, <1>1, <1>2 DEF Apart
<1>9. Generator!NumberedOnce'
  BY <1>t, <1>7, <1>8 DEF Generator!NumberedOnce
<1>10. ASSUME NEW q \in Request PROVE Apart(q)'
  <2>1. CASE q = r
    <3>1. generatorReq'[q].pc = "done"
      BY <1>t, <1>5, <1>6, <2>1
    <3>. QED
      BY <3>1 DEF Apart
  <2>2. CASE q # r
    <3>1. generatorReq'[q] = generatorReq[q] /\ generatorReq[q].clause \in Clause /\ Apart(q)
      BY <1>t, <1>6, <2>2 DEF GeneratorReq
    <3>2. generatorReq[q].pc = "commit" /\ generatorReq[q].clause = c => generatorReq[q].row.number # row.number
      BY <1>t, <1>1, <1>2, <2>2 DEF Apart
    <3>3. generatorReq[q].pc = "commit" => \A v \in versions'[generatorReq[q].clause] : v.number # generatorReq[q].row.number
      BY <1>7, <3>1, <3>2 DEF Apart
    <3>4. ASSUME NEW s \in Request \ {q}, generatorReq[q].pc = "commit",
                 generatorReq'[s].pc = "commit",
                 generatorReq'[s].clause = generatorReq[q].clause
          PROVE  generatorReq'[s].row.number # generatorReq[q].row.number
      <4>1. generatorReq'[s] = generatorReq[s]
        BY <1>t, <1>5, <1>6, <3>4
      <4>. QED
        BY <3>1, <3>4, <4>1 DEF Apart
    <3>5. generatorReq[q].pc = "max" /\ ~generatorReq[q].gone => versions'[generatorReq[q].clause] # {}
      <4>1. versions[generatorReq[q].clause] # {} => versions'[generatorReq[q].clause] # {}
        BY <1>7, <3>1
      <4>. QED
        BY <3>1, <4>1 DEF Apart
    <3>. QED
      BY <3>1, <3>3, <3>4, <3>5 DEF Apart
  <2>. QED
    BY <2>1, <2>2
<1>11. GeneratorTyped'
  <2>1. versions' \in [Clause -> SUBSET Generator!Row]
    BY <1>t, <1>3
  <2>. QED
    BY <1>t, <1>1, <1>5, <1>6, <2>1, GeneratorTypes DEF GeneratorTyped, GeneratorInv
<1>12. PageInOrder' /\ Generator!HistoryKept' /\ Generator!MergedWhole'
  BY <1>1, GeneratorPageKept
<1>. QED
  BY <1>9, <1>10, <1>11, <1>12 DEF GeneratorInv

LEMMA GeneratorDeletes ==
    ASSUME GeneratorAssumption, GeneratorInv, NEW r \in Request, NEW c \in Clause,
           Generator!DeleteClause(r, c)
    PROVE  GeneratorInv'
<1>t. /\ versions \in [Clause -> SUBSET Generator!Row] /\ generatorReq \in [Request -> GeneratorReq]
      /\ \A q \in Request : Apart(q) /\ generatorReq[q] \in GeneratorReq
      /\ Generator!NumberedOnce
  BY GeneratorTypes
<1>1. /\ UNCHANGED <<page, made, last>> /\ Generator!Uncommitted(c) = {}
      /\ versions' = [versions EXCEPT ![c] = {}]
      /\ generatorReq' = [q \in Request |->
                           IF q = r THEN [Generator!NoRequest EXCEPT !.pc = "done", !.answer = IF versions[c] = {} THEN "refused" ELSE "done"]
                           ELSE IF generatorReq[q].op = "put" /\ generatorReq[q].clause = c THEN [generatorReq[q] EXCEPT !.gone = TRUE] ELSE generatorReq[q]]
  BY DEF Generator!DeleteClause
<1>2. PICK f : f = [Generator!NoRequest EXCEPT !.pc = "done", !.answer = IF versions[c] = {} THEN "refused" ELSE "done"]
  OBVIOUS
<1>3. f \in GeneratorReq /\ f.pc = "done"
  BY <1>2, GeneratorNoRequest DEF GeneratorReq
<1>4. \A d \in Clause : versions'[d] = IF d = c THEN {} ELSE versions[d]
  BY <1>t, <1>1
<1>5. Generator!NumberedOnce'
  BY <1>t, <1>4 DEF Generator!NumberedOnce
<1>6. ASSUME NEW q \in Request \ {r}
      PROVE  /\ generatorReq'[q] \in GeneratorReq /\ generatorReq'[q].op = generatorReq[q].op
             /\ generatorReq'[q].pc = generatorReq[q].pc
             /\ generatorReq'[q].clause = generatorReq[q].clause
             /\ generatorReq'[q].row = generatorReq[q].row
             /\ generatorReq'[q].gone = (generatorReq[q].gone \/ (generatorReq[q].op = "put" /\ generatorReq[q].clause = c))
  <2>1. CASE generatorReq[q].op = "put" /\ generatorReq[q].clause = c
    <3>1. generatorReq'[q] = [generatorReq[q] EXCEPT !.gone = TRUE]
      BY <1>1, <2>1
    <3>. QED
      BY <1>t, <2>1, <3>1 DEF GeneratorReq
  <2>2. CASE ~(generatorReq[q].op = "put" /\ generatorReq[q].clause = c)
    <3>1. generatorReq'[q] = generatorReq[q]
      BY <1>1, <2>2
    <3>. QED
      BY <1>t, <2>2, <3>1 DEF GeneratorReq
  <2>. QED
    BY <2>1, <2>2
<1>7. generatorReq'[r] = f
  BY <1>1, <1>2
<1>8. ASSUME NEW q \in Request PROVE Apart(q)'
  <2>1. CASE q = r
    BY <1>3, <1>7, <2>1 DEF Apart
  <2>2. CASE q # r
    <3>1. Apart(q) /\ generatorReq[q].clause \in Clause /\ q \in Request \ {r}
      BY <1>t, <2>2 DEF GeneratorReq
    <3>2. generatorReq[q].pc = "commit" => generatorReq[q].clause # c
      BY <1>1 DEF Generator!Uncommitted
    <3>3. generatorReq[q].pc = "commit" => \A v \in versions'[generatorReq[q].clause] : v.number # generatorReq[q].row.number
      BY <1>4, <3>1, <3>2 DEF Apart
    <3>4. ASSUME NEW s \in Request \ {q}, generatorReq[q].pc = "commit",
                 generatorReq'[s].pc = "commit",
                 generatorReq'[s].clause = generatorReq[q].clause
          PROVE  generatorReq'[s].row.number # generatorReq[q].row.number
      <4>1. s # r
        BY <1>3, <1>7, <3>4
      <4>2. /\ generatorReq[s].pc = "commit" /\ generatorReq[s].clause = generatorReq[q].clause
            /\ generatorReq'[s].row = generatorReq[s].row
        BY <1>6, <3>4, <4>1
      <4>. QED
        BY <3>1, <3>4, <4>2 DEF Apart
    <3>5. generatorReq'[q].pc = "max" => generatorReq'[q].op = "put" /\ (~generatorReq'[q].gone => versions'[generatorReq'[q].clause] # {})
      BY <1>4, <1>6, <3>1 DEF Apart
    <3>. QED
      BY <1>6, <3>1, <3>3, <3>4, <3>5 DEF Apart
  <2>. QED
    BY <2>1, <2>2
<1>9. GeneratorTyped'
  <2>1. versions' \in [Clause -> SUBSET Generator!Row]
    BY <1>t, <1>1
  <2>2. \A q \in Request : generatorReq'[q] \in GeneratorReq
    BY <1>3, <1>6, <1>7
  <2>3. generatorReq' \in [Request -> GeneratorReq]
    BY <1>1, <2>2
  <2>. QED
    BY <1>1, <2>1, <2>3, GeneratorTypes DEF GeneratorTyped, GeneratorInv
<1>10. PageInOrder' /\ Generator!HistoryKept' /\ Generator!MergedWhole'
  BY <1>1, GeneratorPageKept
<1>. QED
  BY <1>5, <1>8, <1>9, <1>10 DEF GeneratorInv

-----------------------------------------------------------------------------
(* The page.                                                                *)

LEMMA GeneratorPages ==
    ASSUME GeneratorAssumption, GeneratorInv, UNCHANGED <<versions, generatorReq>>,
           page' \in GeneratorPage, made' \in 0 .. MaxMade, last'.clauses \subseteq Generator!Flat,
           PageInOrder', Generator!HistoryKept', Generator!MergedWhole'
    PROVE  GeneratorInv'
<1>1. GeneratorTyped'
  BY GeneratorTypes DEF GeneratorTyped
<1>2. Generator!NumberedOnce' /\ \A r \in Request : Apart(r)'
  BY DEF GeneratorInv, Generator!NumberedOnce, Apart
<1>. QED
  BY <1>1, <1>2 DEF GeneratorInv

LEMMA GeneratorLoads ==
    ASSUME GeneratorAssumption, GeneratorInv, Generator!Mount \/ Generator!loadClauses \/ Generator!loadHistory
    PROVE  GeneratorInv'
<1>t. /\ page \in GeneratorPage /\ made \in Nat /\ made <= MaxMade /\ MaxMade \in Nat
      /\ MaxNumber \in Nat
      /\ last.clauses \subseteq Generator!Flat /\ PageInOrder /\ Generator!HistoryKept
      /\ Generator!MergedWhole
      /\ versions \in [Clause -> SUBSET Generator!Row] /\ Generator!NumberedOnce
  BY GeneratorTypes DEF GeneratorInv
<1>1. UNCHANGED <<versions, generatorReq, made, last>>
  BY DEF Generator!Mount, Generator!loadClauses, Generator!loadHistory
<1>2. Generator!MergedWhole'
  BY <1>t, <1>1 DEF Generator!MergedWhole, Generator!Expanded, Generator!Named
<1>3. /\ page' \in GeneratorPage /\ OneOfClause(page'.clauses) /\ page'.busy = page.busy
      /\ page'.history = page.history /\ page'.recording = page.recording
      /\ page'.mounted /\ made = 0 /\ ~page.busy
  <2>1. CASE Generator!Mount
    BY <1>t, <2>1 DEF Generator!Mount, GeneratorPage, PageInOrder
  <2>2. CASE Generator!loadClauses
    <3>1. PICK offline \in BOOLEAN :
             page' = [page EXCEPT !.loading = @ \ {"clauses"}, !.offline = offline,
                                  !.clauses = IF offline THEN Generator!INITIAL_CLAUSES ELSE Generator!listClauses]
      BY <2>2 DEF Generator!loadClauses
    <3>2. PICK clauses : clauses = IF offline THEN Generator!INITIAL_CLAUSES ELSE Generator!listClauses
      OBVIOUS
    <3>3. clauses \in SUBSET Generator!Flat /\ OneOfClause(clauses)
      BY <1>t, <3>2, GeneratorList, GeneratorSamples
    <3>4. page.mounted /\ made = 0 /\ ~page.busy
      BY <1>t, <2>2 DEF Generator!loadClauses, PageInOrder, GeneratorPage
    <3>. QED
      BY <1>t, <3>1, <3>2, <3>3, <3>4 DEF GeneratorPage
  <2>3. CASE Generator!loadHistory
    <3>1. page.mounted /\ made = 0 /\ ~page.busy
      BY <1>t, <2>3 DEF Generator!loadHistory, PageInOrder, GeneratorPage
    <3>. QED
      BY <1>t, <2>3, <3>1 DEF Generator!loadHistory, GeneratorPage, PageInOrder
  <2>. QED
    BY <2>1, <2>2, <2>3
<1>4. PageInOrder'
  BY <1>1, <1>3 DEF PageInOrder
<1>5. Generator!HistoryKept'
  <2>1. page.history = {}
    BY <1>t, <1>3 DEF Generator!HistoryKept
  <2>. QED
    BY <1>t, <1>1, <1>3, <2>1 DEF Generator!HistoryKept
<1>6. made' \in 0 .. MaxMade
  BY <1>t, <1>1
<1>. QED
  BY <1>t, <1>1, <1>2, <1>3, <1>4, <1>5, <1>6, GeneratorPages

LEMMA GeneratorMakes ==
    ASSUME GeneratorAssumption, GeneratorInv, NEW template \in Generator!Templates,
           NEW data \in SUBSET Defined,
           Generator!generateDocument(template, data)
    PROVE  GeneratorInv'
<1>t. /\ page \in GeneratorPage /\ made \in Nat /\ made <= MaxMade /\ MaxMade \in Nat
      /\ PageInOrder /\ Generator!HistoryKept
  BY GeneratorTypes DEF GeneratorInv
<1>1. PICK resolution : resolution = Generator!resolveTemplate(template, data, page.clauses)
  OBVIOUS
<1>2. /\ UNCHANGED <<versions, generatorReq, made>> /\ page.mounted /\ page.loading = {}
      /\ made < MaxMade
      /\ Generator!Complete(resolution) /\ page' = [page EXCEPT !.busy = TRUE]
      /\ last' = [content |-> resolution.content, template |-> template,
                  clauses |-> resolution.resolvedClauses]
  BY <1>1 DEF Generator!generateDocument
<1>3. PICK clauses \in SUBSET Generator!Flat : clauses = page.clauses /\ OneOfClause(clauses)
  BY <1>t DEF GeneratorPage, PageInOrder
<1>4. /\ resolution.content = Generator!Expanded(template, resolution.resolvedClauses)
      /\ Generator!Named(resolution.content, "field") = {}
      /\ \A k \in resolution.resolvedClauses : k.row.status = "Active"
      /\ resolution.resolvedClauses \subseteq page.clauses
  <2>1. /\ resolution = Generator!resolveTemplate(template, data, clauses)
        /\ Generator!Complete(resolution)
    BY <1>1, <1>2, <1>3
  <2>2. /\ resolution.content = Generator!Expanded(template, resolution.resolvedClauses)
        /\ Generator!Named(resolution.content, "field") = {}
        /\ \A k \in resolution.resolvedClauses : k.row.status = "Active"
        /\ resolution.resolvedClauses \subseteq clauses
    <3>. SUFFICES ASSUME NEW r, r = Generator!resolveTemplate(template, data, clauses), Generator!Complete(r)
                  PROVE  /\ r.content = Generator!Expanded(template, r.resolvedClauses)
                         /\ Generator!Named(r.content, "field") = {}
                         /\ \A k \in r.resolvedClauses : k.row.status = "Active"
                         /\ r.resolvedClauses \subseteq clauses
      BY <2>1
    <3>. QED
      BY <1>3, GeneratorMerge
  <2>. QED
    BY <1>3, <2>2
<1>5. /\ last'.content = resolution.content /\ last'.template = template
      /\ last'.clauses = resolution.resolvedClauses
  BY <1>2
<1>6. Generator!MergedWhole'
  BY <1>4, <1>5 DEF Generator!MergedWhole
<1>7. PageInOrder' /\ Generator!HistoryKept' /\ page' \in GeneratorPage
  BY <1>t, <1>2 DEF PageInOrder, Generator!HistoryKept, GeneratorPage
<1>8. made' \in 0 .. MaxMade /\ last'.clauses \subseteq Generator!Flat
  BY <1>t, <1>2, <1>3, <1>4, <1>5
<1>. QED
  BY <1>2, <1>6, <1>7, <1>8, GeneratorPages

LEMMA GeneratorRecords ==
    ASSUME GeneratorAssumption, GeneratorInv, Generator!generateDone \/ \E d \in page.recording : Generator!StoreRecord(d)
    PROVE  GeneratorInv'
<1>t. /\ page \in GeneratorPage /\ made \in Nat /\ made <= MaxMade /\ MaxMade \in Nat
      /\ last.clauses \subseteq Generator!Flat /\ PageInOrder /\ Generator!HistoryKept
      /\ Generator!MergedWhole
  BY GeneratorTypes DEF GeneratorInv
<1>0. UNCHANGED <<versions, generatorReq>>
  BY DEF Generator!generateDone, Generator!StoreRecord
<1>1. ASSUME NEW d \in page.recording, Generator!StoreRecord(d) PROVE GeneratorInv'
  <2>1. /\ UNCHANGED <<made, last>>
        /\ page' = [page EXCEPT !.recording = @ \ {d}, !.historyError = TRUE]
    BY <1>1 DEF Generator!StoreRecord
  <2>2. Generator!MergedWhole'
    BY <1>t, <2>1 DEF Generator!MergedWhole, Generator!Expanded, Generator!Named
  <2>3. PageInOrder' /\ Generator!HistoryKept' /\ page' \in GeneratorPage
    BY <1>t, <2>1 DEF PageInOrder, Generator!HistoryKept, GeneratorPage
  <2>4. made' \in 0 .. MaxMade
    BY <1>t, <2>1
  <2>. QED
    BY <1>t, <1>0, <2>1, <2>2, <2>3, <2>4, GeneratorPages
<1>2. CASE Generator!generateDone /\ made' = made + 1
  <2>1. /\ UNCHANGED last /\ page.busy
        /\ page' = [page EXCEPT !.busy = FALSE, !.history = @ \cup {made + 1},
                                !.recording = @ \cup {made + 1}]
    BY <1>t, <1>2 DEF Generator!generateDone
  <2>2. made < MaxMade /\ page.mounted /\ page.loading = {}
    BY <1>t, <2>1 DEF PageInOrder, GeneratorPage
  <2>3. Generator!MergedWhole'
    BY <1>t, <2>1 DEF Generator!MergedWhole, Generator!Expanded, Generator!Named
  <2>4. made + 1 \in 1 .. MaxMade /\ made' \in 0 .. MaxMade
    BY <1>t, <1>2, <2>2
  <2>5. page' \in GeneratorPage
    BY <1>t, <2>1, <2>4 DEF GeneratorPage
  <2>6. /\ page'.history = page.history \cup {made + 1}
        /\ page'.recording = page.recording \cup {made + 1}
        /\ page'.historyError = page.historyError /\ page'.clauses = page.clauses /\ ~page'.busy
        /\ page'.mounted /\ page'.loading = {}
    BY <1>t, <2>1, <2>2 DEF GeneratorPage
  <2>7. Generator!HistoryKept'
    <3>1. page'.history = 1 .. made'
      BY <1>t, <1>2, <2>6 DEF Generator!HistoryKept
    <3>. QED
      BY <1>t, <2>6, <3>1 DEF Generator!HistoryKept
  <2>8. PageInOrder'
    BY <1>t, <2>6 DEF PageInOrder
  <2>. QED
    BY <1>t, <1>0, <2>1, <2>3, <2>4, <2>5, <2>7, <2>8, GeneratorPages
<1>3. CASE Generator!generateDone /\ UNCHANGED made
  <2>1. page' = [page EXCEPT !.busy = FALSE] /\ last' = Generator!NoDocument
    BY <1>t, <1>3 DEF Generator!generateDone
  <2>2. Generator!MergedWhole' /\ last'.clauses \subseteq Generator!Flat
    BY <2>1 DEF Generator!MergedWhole, Generator!NoDocument
  <2>3. PageInOrder' /\ Generator!HistoryKept' /\ page' \in GeneratorPage
    BY <1>t, <1>3, <2>1 DEF PageInOrder, Generator!HistoryKept, GeneratorPage
  <2>4. made' \in 0 .. MaxMade
    BY <1>t, <1>3
  <2>. QED
    BY <1>0, <2>2, <2>3, <2>4, GeneratorPages
<1>. QED
  BY <1>1, <1>2, <1>3 DEF Generator!generateDone

-----------------------------------------------------------------------------

LEMMA GeneratorInitial ==
    ASSUME GeneratorAssumption, Generator!Init
    PROVE  GeneratorInv
<1>1. PICK row : row = [number |-> 9, status |-> "Active", content |-> <<Generator!Word("text")>>]
  OBVIOUS
<1>2. row \in Generator!Row
  BY <1>1 DEF Generator!Row, Generator!Status, Generator!Texts, GeneratorAssumption
<1>3. /\ versions \in {[c \in Clause |-> {}], [c \in Clause |-> {row}]}
      /\ generatorReq = [r \in Request |-> Generator!NoRequest] /\ page = Generator!NoPage
      /\ made = 0 /\ last = Generator!NoDocument
  BY <1>1 DEF Generator!Init
<1>4. versions \in [Clause -> SUBSET Generator!Row] /\ Generator!NumberedOnce
  BY <1>2, <1>3 DEF Generator!NumberedOnce
<1>5. \A r \in Request : generatorReq[r] = Generator!NoRequest
  BY <1>3
<1>6. generatorReq \in [Request -> GeneratorReq] /\ \A r \in Request : Apart(r)
  BY <1>3, <1>5, GeneratorNoRequest DEF Apart
<1>7. page \in GeneratorPage /\ PageInOrder
  BY <1>3 DEF Generator!NoPage, GeneratorPage, PageInOrder, OneOfClause
<1>8. Generator!HistoryKept /\ Generator!MergedWhole /\ last.clauses \subseteq Generator!Flat
  BY <1>3 DEF Generator!HistoryKept, Generator!MergedWhole, Generator!NoDocument,
     Generator!NoPage
<1>9. made \in 0 .. MaxMade
  BY <1>3 DEF GeneratorAssumption
<1>. QED
  BY <1>4, <1>6, <1>7, <1>8, <1>9 DEF GeneratorInv, GeneratorTyped

LEMMA GeneratorStep ==
    ASSUME GeneratorAssumption, GeneratorInv, [Generator!Next]_(Generator!vars)
    PROVE  GeneratorInv'
<1>1. CASE UNCHANGED Generator!vars
  <2>1. UNCHANGED <<versions, generatorReq, page, made, last>>
    BY <1>1 DEF Generator!vars
  <2>2. GeneratorTyped' /\ Generator!NumberedOnce' /\ \A r \in Request : Apart(r)'
    BY <2>1 DEF GeneratorInv, GeneratorTyped, Generator!NumberedOnce, Apart
  <2>. QED
    BY <2>1, <2>2, GeneratorPageKept DEF GeneratorInv
<1>2. CASE \E r \in Request, c \in Clause : Generator!DeleteClause(r, c)
  BY <1>2, GeneratorDeletes
<1>3. CASE \E r \in Request, c \in Clause, row \in Generator!NewRow :
              Generator!PostBegin(r, c, row) \/ \E named \in BOOLEAN : Generator!PutBegin(r, c, row, named)
  BY <1>3, GeneratorBegins
<1>4. CASE \E r \in Request : Generator!PostInsert(r) \/ Generator!PutInsert(r)
  BY <1>4, GeneratorInserts
<1>5. CASE \E r \in Request : Generator!PostCommit(r) \/ Generator!PutCommit(r)
  BY <1>5, GeneratorCommits
<1>6. CASE \E r \in Request : Generator!PutNumber(r)
  BY <1>6, GeneratorNumbers
<1>7. CASE Generator!Mount \/ Generator!loadClauses \/ Generator!loadHistory
  BY <1>7, GeneratorLoads
<1>8. CASE \E t \in Generator!Templates, data \in SUBSET Defined : Generator!generateDocument(t, data)
  BY <1>8, GeneratorMakes
<1>9. CASE Generator!generateDone \/ \E d \in page.recording : Generator!StoreRecord(d)
  BY <1>9, GeneratorRecords
<1>. QED
  BY <1>1, <1>2, <1>3, <1>4, <1>5, <1>6, <1>7, <1>8, <1>9 DEF Generator!Next

\* The inductive invariant of the clause library and the page that merges it.
THEOREM GeneratorKeep == ASSUME GeneratorAssumption PROVE Generator!Spec => []GeneratorInv
<1>1. Generator!Init => GeneratorInv
  BY GeneratorInitial
<1>2. GeneratorInv /\ [Generator!Next]_(Generator!vars) => GeneratorInv'
  BY GeneratorStep
<1>. QED
  BY <1>1, <1>2, PTL DEF Generator!Spec

\* However requests overlap, no version of a clause has two texts.
THEOREM GeneratorNumberedOnce ==
    ASSUME GeneratorAssumption
    PROVE  Generator!Spec => []Generator!NumberedOnce
<1>1. GeneratorInv => Generator!NumberedOnce
  BY DEF GeneratorInv
<1>. QED
  BY <1>1, GeneratorKeep, PTL

\* A document is what its template and the Active clauses it names say, none left
\* open, and the history keeps what the session made.
THEOREM GeneratorMerged ==
    ASSUME GeneratorAssumption
    PROVE  Generator!Spec => [](Generator!MergedWhole /\ Generator!HistoryKept)
<1>1. GeneratorInv => Generator!MergedWhole /\ Generator!HistoryKept
  BY DEF GeneratorInv
<1>. QED
  BY <1>1, GeneratorKeep, PTL

\* The library, the requests and the page keep their types.
THEOREM GeneratorTypeOK == ASSUME GeneratorAssumption PROVE Generator!Spec => []Generator!TypeOK
<1>1. GeneratorInv => Generator!TypeOK
  BY DEF GeneratorInv, GeneratorTyped, Generator!TypeOK, GeneratorReq, GeneratorPage
<1>. QED
  BY <1>1, GeneratorKeep, PTL

-----------------------------------------------------------------------------
(***************************************************************************)
(* What the service stores of an upload, for every limit, body and buffer. *)
(* The invariant counts: until the first unit beyond the limit, what has   *)
(* come is what the service has taken and what the transform holds; from   *)
(* then on the fetch is aborted or answered, and can no longer store.      *)
(***************************************************************************)
UploadAssumption == MAX_UPLOAD_BYTES \in Nat /\ MaxBody \in Nat /\ Buffer \in Nat

Clients  == [declared: Nat, chunked: BOOLEAN, sent: Nat, body: {"none", "open", "ended", "lost"}]
Limited  == [is: {"open", "ended", "destroyed"}, held: Nat, tooLarge: BOOLEAN]
Services == [is: {"none", "reading", "stored", "refused", "aborted"}, taken: Nat, reply: Upload!Status]

UploadTyped == uploadClient \in Clients /\ limited \in Limited /\ service \in Services /\ uploadAnswer \in Upload!Status

\* The inductive invariant.
UploadCounts ==
    /\ service.taken + limited.held <= MAX_UPLOAD_BYTES
    /\ ~limited.tooLarge => uploadClient.sent = service.taken + limited.held
    /\ limited.tooLarge => uploadClient.sent > MAX_UPLOAD_BYTES /\ service.is \notin {"reading", "none"}
    /\ ~uploadClient.chunked => uploadClient.sent <= uploadClient.declared
    /\ uploadClient.body = "none" => service.is = "none" /\ uploadAnswer = 0 /\ uploadClient.sent = 0
    /\ uploadClient.body \in {"none", "open"} => limited.is = "open"
    /\ limited.is = "ended" => uploadClient.body = "ended"
    /\ limited.is = "open" => uploadClient.body \in {"none", "open"}
    /\ service.is = "none" /\ uploadAnswer = 0 => uploadClient.body = "none"
    /\ service.reply # 413
    /\ service.is = "stored" => /\ uploadClient.body = "ended" /\ limited.held = 0
                                /\ ~limited.tooLarge
    /\ uploadAnswer = 413 => /\ service.is # "stored"
                             /\ MAX_UPLOAD_BYTES < IF uploadClient.chunked THEN uploadClient.sent ELSE uploadClient.declared

LEMMA InitCounts == ASSUME UploadAssumption PROVE Upload!Init => UploadTyped /\ UploadCounts
BY DEF UploadAssumption, Upload!Init, UploadTyped, UploadCounts, Clients, Limited,
   Services, Upload!Status

LEMMA ReceiveCounts ==
    ASSUME UploadAssumption, UploadTyped, UploadCounts, NEW declared \in Upload!Size,
           NEW chunked \in BOOLEAN,
           Upload!Receive(declared, chunked)
    PROVE  (UploadTyped /\ UploadCounts)'
<1>1. declared \in Nat /\ (chunked => declared = 0)
  BY DEF UploadAssumption, Upload!Size, Upload!Receive
<1>2. /\ uploadClient' = [uploadClient EXCEPT !.declared = declared, !.chunked = chunked, !.body = "open"]
      /\ uploadClient.body = "none" /\ service.is = "none" /\ uploadAnswer = 0 /\ limited' = limited
  BY DEF Upload!Receive, UploadCounts
<1>3. /\ uploadClient' \in Clients /\ uploadClient'.declared = declared
      /\ uploadClient'.chunked = chunked
      /\ uploadClient'.body = "open" /\ uploadClient'.sent = uploadClient.sent
  BY <1>1, <1>2 DEF UploadTyped, Clients
<1>6. CASE declared > MAX_UPLOAD_BYTES /\ uploadAnswer' = 413 /\ UNCHANGED service
  BY <1>1, <1>2, <1>3, <1>6 DEF UploadAssumption, UploadTyped, UploadCounts, Clients,
     Limited, Services, Upload!Status
<1>4. CASE uploadAnswer' = 503 /\ UNCHANGED service
  BY <1>1, <1>2, <1>3, <1>4 DEF UploadAssumption, UploadTyped, UploadCounts, Clients,
     Limited, Services, Upload!Status
<1>5. CASE service' = [service EXCEPT !.is = "reading"] /\ UNCHANGED uploadAnswer
  <2>1. /\ service' \in Services /\ service'.is = "reading" /\ service'.taken = service.taken
        /\ service'.reply = service.reply
    BY <1>5 DEF UploadTyped, Services
  <2>. QED  BY <1>1, <1>2, <1>3, <1>5, <2>1 DEF UploadAssumption, UploadTyped,
               UploadCounts, Clients, Limited
<1>. QED  BY <1>6, <1>4, <1>5 DEF Upload!Receive

\* abort.abort() neither stores nor reads.
LEMMA AbortedFields ==
    ASSUME UploadTyped
    PROVE  /\ Upload!Aborted \in Services /\ Upload!Aborted.taken = service.taken
           /\ Upload!Aborted.reply = service.reply
           /\ service.is \in {"stored", "refused"} => Upload!Aborted.is = service.is
           /\ service.is \notin {"stored", "refused"} => Upload!Aborted.is = "aborted"
BY DEF UploadTyped, Services, Upload!Aborted

LEMMA TransformCounts ==
    ASSUME UploadAssumption, UploadTyped, UploadCounts, Upload!transform
    PROVE  (UploadTyped /\ UploadCounts)'
<1>1. /\ uploadClient' \in Clients /\ uploadClient'.sent = uploadClient.sent + 1
      /\ uploadClient'.declared = uploadClient.declared
      /\ uploadClient'.chunked = uploadClient.chunked /\ uploadClient'.body = uploadClient.body
  BY DEF Upload!transform, UploadTyped, Clients
<1>2. /\ uploadClient.body = "open" /\ limited.is = "open" /\ uploadAnswer = 0
      /\ uploadAnswer' = uploadAnswer
      /\ ~uploadClient.chunked => uploadClient.sent < uploadClient.declared
  BY DEF Upload!transform, Upload!Running
<1>3. CASE uploadClient.sent + 1 > MAX_UPLOAD_BYTES
  <2>1. /\ limited' \in Limited /\ limited'.tooLarge /\ limited'.is = "open"
        /\ limited'.held = limited.held /\ service' = Upload!Aborted
    BY <1>2, <1>3 DEF Upload!transform, UploadTyped, Limited
  <2>. QED  BY <1>1, <1>2, <1>3, <2>1, AbortedFields DEF UploadAssumption, UploadTyped,
               UploadCounts, Clients, Limited, Services
<1>4. CASE ~(uploadClient.sent + 1 > MAX_UPLOAD_BYTES)
  <2>1. /\ limited' \in Limited /\ limited'.tooLarge = limited.tooLarge /\ limited'.is = "open"
        /\ limited'.held = limited.held + 1 /\ service' = service
    BY <1>2, <1>4 DEF Upload!transform, UploadTyped, Limited
  <2>. QED  BY <1>1, <1>2, <1>4, <2>1 DEF UploadAssumption, UploadTyped, UploadCounts,
               Clients, Limited, Services
<1>. QED  BY <1>3, <1>4

LEMMA BodyCounts ==
    ASSUME UploadAssumption, UploadTyped, UploadCounts, Upload!BodyEnds \/ Upload!ClientLost
    PROVE  (UploadTyped /\ UploadCounts)'
<1>1. /\ uploadClient' \in Clients /\ uploadClient'.sent = uploadClient.sent
      /\ uploadClient'.declared = uploadClient.declared
      /\ uploadClient'.chunked = uploadClient.chunked /\ uploadClient'.body \in {"ended", "lost"}
      /\ uploadClient.body = "open" /\ UNCHANGED <<service, uploadAnswer>>
  BY DEF Upload!BodyEnds, Upload!ClientLost, UploadTyped, Clients
<1>2. /\ limited' \in Limited /\ limited'.tooLarge = limited.tooLarge
      /\ limited'.held = limited.held /\ limited'.is \in {"ended", "destroyed"}
      /\ limited'.is = "ended" => uploadClient'.body = "ended"
  BY DEF Upload!BodyEnds, Upload!ClientLost, UploadTyped, UploadCounts, Clients, Limited
<1>. QED  BY <1>1, <1>2 DEF UploadAssumption, UploadTyped, UploadCounts, Clients, Limited,
             Services

LEMMA ServiceTakesCounts ==
    ASSUME UploadAssumption, UploadTyped, UploadCounts, Upload!ServiceTakes
    PROVE  (UploadTyped /\ UploadCounts)'
<1>1. /\ service' \in Services /\ service'.taken = service.taken + 1 /\ service'.is = "reading"
      /\ service'.reply = service.reply /\ service.is = "reading"
      /\ UNCHANGED <<uploadClient, uploadAnswer>>
  BY DEF Upload!ServiceTakes, UploadTyped, Services
<1>2. /\ limited' \in Limited /\ limited'.tooLarge = limited.tooLarge
      /\ limited'.held = limited.held - 1 /\ limited'.is = limited.is
  BY DEF Upload!ServiceTakes, UploadTyped, Limited
<1>. QED  BY <1>1, <1>2 DEF UploadAssumption, UploadTyped, UploadCounts, Clients, Limited,
             Services

LEMMA ServiceEndsCounts ==
    ASSUME UploadAssumption, UploadTyped, UploadCounts, Upload!ServiceStores \/ Upload!ServiceRefuses
    PROVE  (UploadTyped /\ UploadCounts)'
<1>1. /\ service.is = "reading" /\ uploadAnswer = 0
      /\ UNCHANGED <<uploadClient, limited, uploadAnswer>>
  BY DEF Upload!ServiceStores, Upload!ServiceRefuses, Upload!Running
<1>2. CASE Upload!ServiceStores
  <2>0. service' = [service EXCEPT !.is = "stored", !.reply = 201] /\ 201 \in Upload!Status
    BY <1>2 DEF Upload!ServiceStores, Upload!Status
  <2>1. /\ service' \in Services /\ service'.taken = service.taken /\ service'.is = "stored"
        /\ service'.reply = 201
    BY <2>0 DEF UploadTyped, Services
  <2>2. limited.is = "ended" /\ limited.held = 0
    BY <1>2 DEF Upload!ServiceStores
  <2>. QED  BY <1>1, <2>1, <2>2 DEF UploadAssumption, UploadTyped, UploadCounts, Clients,
               Limited, Services
<1>3. CASE Upload!ServiceRefuses
  <2>0. PICK status \in {422, 503} : service' = [service EXCEPT !.is = "refused", !.reply = status]
    BY <1>3 DEF Upload!ServiceRefuses
  <2>1. status \in Upload!Status /\ status # 413
    BY DEF Upload!Status
  <2>2. /\ service' \in Services /\ service'.taken = service.taken /\ service'.is = "refused"
        /\ service'.reply = status
    BY <2>0, <2>1 DEF UploadTyped, Services
  <2>. QED  BY <1>1, <2>1, <2>2 DEF UploadAssumption, UploadTyped, UploadCounts, Clients,
               Limited, Services
<1>. QED  BY <1>2, <1>3

LEMMA RelayCounts ==
    ASSUME UploadAssumption, UploadTyped, UploadCounts, Upload!Relay
    PROVE  (UploadTyped /\ UploadCounts)'
<1>1. /\ UNCHANGED <<uploadClient, limited, service>> /\ service.is \in {"stored", "refused"}
      /\ uploadAnswer' = service.reply /\ uploadAnswer' \in Upload!Status /\ uploadAnswer' # 413
  BY DEF Upload!Relay, UploadTyped, UploadCounts, Services
<1>. QED  BY <1>1 DEF UploadTyped, UploadCounts

LEMMA CatchCounts ==
    ASSUME UploadAssumption, UploadTyped, UploadCounts, Upload!Catch
    PROVE  (UploadTyped /\ UploadCounts)'
<1>1. /\ UNCHANGED <<uploadClient, limited>> /\ service' = Upload!Aborted
      /\ uploadAnswer' \in {413, 503}
      /\ uploadClient.body # "none" /\ (uploadAnswer' = 413 => limited.tooLarge)
  BY DEF Upload!Catch, Upload!Running
<1>2. uploadAnswer' = 413 => MAX_UPLOAD_BYTES < IF uploadClient.chunked THEN uploadClient.sent ELSE uploadClient.declared
  BY <1>1 DEF UploadAssumption, UploadTyped, UploadCounts, Clients
<1>3. uploadAnswer' = 413 => service'.is # "stored"
  BY <1>1, AbortedFields DEF UploadCounts, UploadTyped, Services
<1>4. uploadAnswer' \in Upload!Status
  BY <1>1 DEF Upload!Status
<1>. QED  BY <1>1, <1>2, <1>3, <1>4, AbortedFields DEF UploadTyped, UploadCounts, Services

LEMMA NextCounts ==
    ASSUME UploadAssumption, UploadTyped /\ UploadCounts, [Upload!Next]_(Upload!vars)
    PROVE  (UploadTyped /\ UploadCounts)'
<1>1. CASE \E declared \in Upload!Size, chunked \in BOOLEAN : Upload!Receive(declared, chunked)
  BY <1>1, ReceiveCounts
<1>2. CASE Upload!transform
  BY <1>2, TransformCounts
<1>3. CASE Upload!BodyEnds \/ Upload!ClientLost
  BY <1>3, BodyCounts
<1>4. CASE Upload!ServiceTakes
  BY <1>4, ServiceTakesCounts
<1>5. CASE Upload!ServiceStores \/ Upload!ServiceRefuses
  BY <1>5, ServiceEndsCounts
<1>6. CASE Upload!Relay
  BY <1>6, RelayCounts
<1>7. CASE Upload!Catch
  BY <1>7, CatchCounts
<1>8. CASE UNCHANGED Upload!vars
  BY <1>8 DEF Upload!vars, UploadTyped, UploadCounts
<1>. QED  BY <1>1, <1>2, <1>3, <1>4, <1>5, <1>6, <1>7, <1>8 DEF Upload!Next

\* The service stores a whole body or nothing: never one that was cut off where it grew
\* too large, nor the part that had come when its client was lost.
THEOREM UploadStoredWhole == ASSUME UploadAssumption PROVE Upload!Spec => []Upload!StoredWhole
<1>1. UploadTyped /\ UploadCounts => Upload!StoredWhole
  BY DEF UploadTyped, UploadCounts, Upload!StoredWhole, Clients, Limited, Services
<1>. QED  BY <1>1, InitCounts, NextCounts, PTL DEF Upload!Spec

\* The service reads no more than the limit, and what is refused as too large is too
\* large and not stored.
THEOREM UploadTooLargeNotStored ==
    ASSUME UploadAssumption
    PROVE  Upload!Spec => []Upload!TooLargeNotStored
<1>1. UploadAssumption /\ UploadTyped /\ UploadCounts => Upload!TooLargeNotStored
  BY DEF UploadAssumption, UploadTyped, UploadCounts, Upload!TooLargeNotStored, Clients,
     Limited, Services
<1>. QED  BY <1>1, InitCounts, NextCounts, PTL DEF Upload!Spec

\* A body is no longer than declared, and the transform holds no more than it may.
Within ==
    /\ uploadClient.declared <= MaxBody /\ uploadClient.sent <= MaxBody
    /\ limited.held <= Buffer

LEMMA NextWithin ==
    ASSUME UploadAssumption, UploadTyped, UploadCounts, Within, [Upload!Next]_(Upload!vars)
    PROVE  Within'
<1>1. ASSUME NEW declared \in Upload!Size, NEW chunked \in BOOLEAN,
             Upload!Receive(declared, chunked) PROVE Within'
  BY <1>1 DEF Upload!Receive, UploadTyped, Clients, Upload!Size, Within
<1>2. CASE Upload!transform
  <2>1. /\ uploadClient'.declared = uploadClient.declared
        /\ uploadClient'.sent = uploadClient.sent + 1 /\ uploadClient.sent < MaxBody
    BY <1>2 DEF Upload!transform, UploadTyped, Clients, Within, UploadAssumption
  <2>2. \/ limited'.held = limited.held
        \/ limited'.held = limited.held + 1 /\ limited.held < Buffer
    <3>1. limited \in Limited /\ limited.is = "open" /\ uploadClient.body = "open"
      BY <1>2 DEF Upload!transform, UploadTyped
    <3>2. limited.held < Buffer \/ uploadClient.sent + 1 > MAX_UPLOAD_BYTES
      BY <1>2 DEF Upload!transform, UploadTyped, UploadCounts, Clients, UploadAssumption
    <3>. QED
      BY <1>2, <3>1, <3>2 DEF Upload!transform, Limited
  <2>. QED
    BY <2>1, <2>2 DEF Within, UploadTyped, Clients, Limited, UploadAssumption
<1>3. CASE Upload!BodyEnds \/ Upload!ClientLost
  BY <1>3 DEF Upload!BodyEnds, Upload!ClientLost, UploadTyped, Clients, Limited, Within
<1>4. CASE Upload!ServiceTakes
  <2>1. limited'.held = limited.held - 1 /\ uploadClient' = uploadClient
    BY <1>4 DEF Upload!ServiceTakes, UploadTyped, Limited
  <2>. QED
    BY <2>1 DEF Within, UploadTyped, Limited, UploadAssumption
<1>5. CASE Upload!ServiceStores \/ Upload!ServiceRefuses \/ Upload!Relay \/ Upload!Catch \/ UNCHANGED Upload!vars
  BY <1>5 DEF Upload!ServiceStores, Upload!ServiceRefuses, Upload!Relay, Upload!Catch,
     Upload!vars, Within
<1>. QED
  BY <1>1, <1>2, <1>3, <1>4, <1>5 DEF Upload!Next

\* What is sent, held and taken stays within the bounds of the client and of the buffer.
THEOREM UploadTypeOK == ASSUME UploadAssumption PROVE Upload!Spec => []Upload!TypeOK
<1>1. Upload!Init => UploadTyped /\ UploadCounts /\ Within
  <2>1. Upload!Init => Within
    BY DEF Upload!Init, Within, UploadAssumption
  <2>. QED
    BY <2>1, InitCounts
<1>2. (UploadTyped /\ UploadCounts /\ Within) /\ [Upload!Next]_(Upload!vars) => (UploadTyped /\ UploadCounts /\ Within)'
  BY NextCounts, NextWithin
<1>3. UploadTyped /\ UploadCounts /\ Within => Upload!TypeOK
  <2>. SUFFICES ASSUME UploadTyped, UploadCounts, Within PROVE Upload!TypeOK
    OBVIOUS
  <2>1. service.taken <= uploadClient.sent
    BY DEF UploadTyped, UploadCounts, Clients, Limited, Services, UploadAssumption
  <2>. QED
    BY <2>1 DEF UploadTyped, Within, Upload!TypeOK, Clients, Limited, Services,
       Upload!Size, UploadAssumption
<1>. QED
  BY <1>1, <1>2, <1>3, PTL DEF Upload!Spec

-----------------------------------------------------------------------------
(***************************************************************************)
(* Start and readiness of a server process, for any number of requests, any*)
(* manifest and any changes of what the probe looks at.  The invariant says*)
(* what the probe in flight has seen: a check that has passed was the case *)
(* at some moment of it, what has not passed was not, and what is the case *)
(* now is noted.                                                           *)
(***************************************************************************)
\* The manifest is a finite list, and the extra file is not on it.
ReadyAssumption == IsFiniteSet(ManifestFile) /\ ExtraFile \notin ManifestFile /\ MaxChanges \in Nat

Seen == [step: {"ping", "ledger", "upstream"}, checks: [Ready!Facts -> BOOLEAN],
         held: SUBSET Ready!Facts, broken: SUBSET (Ready!Facts \cup {"slow", "manifest"})]

World == [database: BOOLEAN, ledger: Ready!Ledger \cup {NoTable}, upstream: BOOLEAN, manifest: BOOLEAN]

Using == [production: BOOLEAN, overridden: BOOLEAN, database: Ready!Dsn \cup {"placeholder"},
          upstream: {"unset", "http", "loopback", "good"}]

ReadyTyped ==
    /\ env \in Ready!Env \cup {NoEnv} /\ using \in Using /\ world \in World
    /\ signals \in 0 .. 2 /\ changes \in 0 .. MaxChanges
    /\ process \in {"loading", "listening", "draining", "refused", "exited"}
    /\ manifest \in {"undefined", "null", "loaded"}
    /\ probe # NoProbe => probe \in Seen
    /\ DOMAIN reqs = Request /\ \A r \in Request : reqs[r] \in Ready!Pending \cup Ready!Answered

\* What a probe has passed was the case, what it has not passed was not.
ProbeSound(p) ==
    /\ \A f \in Ready!Facts : p.checks[f] => f \in p.held
    /\ Ready!Holding(world) \subseteq p.held
    /\ Ready!Facts \ Ready!Holding(world) \subseteq p.broken
    /\ p.step = "ledger" => p.checks["database"]
    /\ p.step = "upstream" => (p.checks["database"] /\ p.checks["schema"]) \/ p.broken # {}

ReadyInv ==
    /\ ReadyTyped
    /\ process = "loading" => env \in Ready!Env /\ probe = NoProbe
    /\ probe # NoProbe => ProbeSound(probe) /\ (probe.step = "upstream" => using.upstream # "unset")
    /\ Ready!ListensAsValidated /\ Ready!AnswersMeanProbe

-----------------------------------------------------------------------------

LEMMA ReadyCardinality == \A S : Ready!Cardinality(S) = Cardinality(S)
BY DEF Ready!Cardinality, Cardinality

\* As many rows as files, and a row for each file: no row beyond them.
LEMMA ReadySchema ==
    ASSUME ReadyAssumption, NEW l \in Ready!Ledger, l # NoTable
    PROVE  Ready!SchemaMatches(l) <=> Ready!Exact(l)
<1>. DEFINE recorded == {f \in DOMAIN l : l[f] # "absent"}
<1>1. DOMAIN l = ManifestFile \cup {ExtraFile}
  BY DEF Ready!Ledger
<1>2. ASSUME \A f \in ManifestFile : l[f] = "same"
      PROVE  Cardinality(recorded) > Cardinality(ManifestFile) <=> l[ExtraFile] # "absent"
  <2>1. CASE l[ExtraFile] = "absent"
    <3>1. recorded = ManifestFile
      BY <1>1, <1>2, <2>1 DEF ReadyAssumption
    <3>2. Cardinality(ManifestFile) \in Nat
      BY FS_CardinalityType, ReadyCardinality DEF ReadyAssumption
    <3>. QED
      BY <2>1, <3>1, <3>2
  <2>2. CASE l[ExtraFile] # "absent"
    <3>1. recorded = ManifestFile \cup {ExtraFile}
      BY <1>1, <1>2, <2>2 DEF ReadyAssumption
    <3>2. /\ Cardinality(ManifestFile \cup {ExtraFile}) = Cardinality(ManifestFile) + 1
          /\ Cardinality(ManifestFile) \in Nat
      BY FS_AddElement, FS_CardinalityType, ReadyCardinality DEF ReadyAssumption
    <3>3. Cardinality(recorded) = Cardinality(ManifestFile) + 1
      BY <3>1, <3>2
    <3>. HIDE DEF recorded
    <3>. QED
      BY <2>2, <3>2, <3>3
  <2>. QED
    BY <2>1, <2>2
<1>3. Ready!SchemaMatches(l) <=> (\A f \in ManifestFile : l[f] = "same") /\ ~(Cardinality(recorded) > Cardinality(ManifestFile))
  BY ReadyCardinality DEF Ready!SchemaMatches
<1>4. Ready!Exact(l) <=> (\A f \in ManifestFile : l[f] = "same") /\ l[ExtraFile] = "absent"
  BY <1>1 DEF Ready!Exact, ReadyAssumption
<1>. QED
  BY <1>2, <1>3, <1>4

\* The two rules agree on what a production server may connect with.
LEMMA ReadyConnects ==
    ASSUME NEW e \in Ready!Env
    PROVE  /\ Ready!Connection(e) \in Ready!Dsn \cup {"placeholder"} /\ e.production \in BOOLEAN
           /\ e.upstream \in {"unset", "http", "loopback", "good"}
           /\ Ready!Parses(e) /\ Ready!validateStartupConfig(e) /\ e.production =>
                /\ Ready!Connection(e) = "good" \/ (e.specialist # "off" /\ Ready!Connection(e) = "unsafe")
                /\ e.upstream = "good"
<1>1. /\ e.specialist \in {"off"} \cup Ready!Dsn
      /\ e.dsn[1] \in Ready!Dsn /\ e.dsn[2] \in Ready!Dsn /\ e.parts \in {"placeholder", "good"}
      /\ e.production \in BOOLEAN /\ e.upstream \in {"unset", "http", "loopback", "good"}
  BY DEF Ready!Env, Ready!Override
<1>2. /\ e.specialist # "off" => Ready!Connection(e) = e.specialist
      /\ e.specialist = "off" /\ e.dsn[1] # "unset" => Ready!Connection(e) = e.dsn[1]
      /\ e.specialist = "off" /\ e.dsn[1] = "unset" /\ e.dsn[2] # "unset" => Ready!Connection(e) = e.dsn[2]
      /\ e.specialist = "off" /\ e.dsn[1] = "unset" /\ e.dsn[2] = "unset" => Ready!Connection(e) = e.parts
  BY DEF Ready!Connection
<1>3. /\ e.dsn[1] \notin {"unset", "blank"} => Ready!Inspected(e) = e.dsn[1]
      /\ e.dsn[1] \in {"unset", "blank"} /\ e.dsn[2] \notin {"unset", "blank"} => Ready!Inspected(e) = e.dsn[2]
      /\ e.dsn[1] \in {"unset", "blank"} /\ e.dsn[2] \in {"unset", "blank"} => Ready!Inspected(e) = "unset"
  BY DEF Ready!Inspected
<1>. QED
  BY <1>1, <1>2, <1>3 DEF Ready!Parses, Ready!validateStartupConfig, Ready!Dsn

LEMMA ReadyHolding ==
    /\ Ready!Holding(world) \subseteq Ready!Facts
    /\ "database" \in Ready!Holding(world) <=> world.database
    /\ "schema" \in Ready!Holding(world) <=> Ready!Exact(world.ledger)
    /\ "upstream" \in Ready!Holding(world) <=> world.upstream \/ using.upstream = "unset"
BY DEF Ready!Holding, Ready!Facts

LEMMA ReadySettles ==
    ASSUME ReadyInv, NEW p \in Seen, Ready!Settle(p),
           \A f \in Ready!Facts : p.checks[f] => f \in p.held,
           (\A f \in Ready!Facts : p.checks[f]) \/ p.broken # {}
    PROVE  /\ probe' = NoProbe /\ DOMAIN reqs' = Request
           /\ \A r \in Request : reqs'[r] \in Ready!Pending \cup Ready!Answered
           /\ Ready!AnswersMeanProbe'
<1>. DEFINE a == [answer |-> IF \A f \in Ready!Facts : p.checks[f] THEN "ready" ELSE "not-ready",
                  held |-> p.held, broken |-> p.broken]
<1>1. /\ probe' = NoProbe
      /\ reqs' = [r \in Request |-> IF reqs[r].answer = "waiting" THEN a ELSE reqs[r]]
  BY DEF Ready!Settle
<1>2. /\ a \in Ready!Answered
      /\ a.answer = "ready" => Ready!Facts \subseteq a.held
      /\ a.answer = "not-ready" => a.broken # {}
  BY DEF Ready!Answered, Seen
<1>. HIDE DEF a
<1>3. \A r \in Request : reqs'[r] = a \/ reqs'[r] = reqs[r]
  BY <1>1
<1>4. \A r \in Request : reqs'[r] \in Ready!Pending \cup Ready!Answered
  BY <1>2, <1>3 DEF ReadyInv, ReadyTyped
<1>5. Ready!AnswersMeanProbe'
  BY <1>2, <1>3 DEF ReadyInv, Ready!AnswersMeanProbe
<1>. QED
  BY <1>1, <1>4, <1>5

around == <<env, using, process, signals, world, changes>>

\* An answer to the probe that ends it.
LEMMA ReadySettled ==
    ASSUME ReadyInv, NEW p \in Seen, Ready!Settle(p), UNCHANGED around,
           manifest' \in {"undefined", "null", "loaded"},
           \A f \in Ready!Facts : p.checks[f] => f \in p.held,
           (\A f \in Ready!Facts : p.checks[f]) \/ p.broken # {}
    PROVE  ReadyInv'
<1>1. /\ probe' = NoProbe /\ DOMAIN reqs' = Request
      /\ \A r \in Request : reqs'[r] \in Ready!Pending \cup Ready!Answered
      /\ Ready!AnswersMeanProbe'
  BY ReadySettles
<1>. QED
  BY <1>1 DEF ReadyInv, ReadyTyped, around, Ready!ListensAsValidated

\* An answer to the probe that lets it go on, if only to what is not configured.
LEMMA ReadyContinues ==
    ASSUME ReadyInv, probe # NoProbe, NEW p \in Seen, ProbeSound(p), Ready!Continue(p),
           UNCHANGED around,
           manifest' \in {"undefined", "null", "loaded"}
    PROVE  ReadyInv'
<1>1. CASE p.step = "upstream" /\ using.upstream = "unset"
  <2>. DEFINE q == [p EXCEPT !.checks.upstream = TRUE]
  <2>1. /\ q \in Seen /\ q.held = p.held /\ q.broken = p.broken /\ q.checks["upstream"]
        /\ q.checks["database"] = p.checks["database"] /\ q.checks["schema"] = p.checks["schema"]
    BY DEF Seen, Ready!Facts
  <2>2. Ready!Settle(q)
    BY <1>1 DEF Ready!Continue
  <2>. HIDE DEF q
  <2>3. "upstream" \in q.held
    BY <1>1, <2>1, ReadyHolding DEF ProbeSound
  <2>4. \A f \in Ready!Facts : q.checks[f] => f \in q.held
    BY <2>1, <2>3 DEF ProbeSound, Ready!Facts
  <2>5. (\A f \in Ready!Facts : q.checks[f]) \/ q.broken # {}
    BY <1>1, <2>1 DEF ProbeSound, Ready!Facts
  <2>. QED
    BY <2>1, <2>2, <2>4, <2>5, ReadySettled
<1>2. CASE ~(p.step = "upstream" /\ using.upstream = "unset")
  <2>1. probe' = p /\ UNCHANGED reqs
    BY <1>2 DEF Ready!Continue
  <2>2. ProbeSound(p)'
    BY DEF ProbeSound, Ready!Holding, around
  <2>. QED
    BY <1>2, <2>1, <2>2 DEF ReadyInv, ReadyTyped, around, Ready!ListensAsValidated,
       Ready!AnswersMeanProbe
<1>. QED
  BY <1>1, <1>2

LEMMA ReadyProbes ==
    ASSUME ReadyAssumption, ReadyInv, Ready!PingAnswers \/ Ready!LedgerAnswers \/ Ready!UpstreamAnswers \/ Ready!TimesOut
    PROVE  ReadyInv'
<1>0. /\ probe # NoProbe /\ probe \in Seen /\ ProbeSound(probe) /\ UNCHANGED around
      /\ probe.step = "upstream" => using.upstream # "unset"
      /\ manifest \in {"undefined", "null", "loaded"}
  BY DEF ReadyInv, ReadyTyped, Ready!PingAnswers, Ready!LedgerAnswers,
     Ready!UpstreamAnswers, Ready!TimesOut, around
<1>1. CASE Ready!PingAnswers
  <2>1. CASE world.database
    <3>. DEFINE step == IF Ready!Loaded = "null" THEN "upstream" ELSE "ledger"
                more == IF Ready!Loaded = "null" THEN {"manifest"} ELSE {}
                p == [probe EXCEPT !.checks.database = TRUE, !.step = step, !.broken = @ \cup more]
    <3>1. manifest' = Ready!Loaded /\ Ready!Continue(p)
      BY <1>1, <2>1 DEF Ready!PingAnswers
    <3>2. Ready!Loaded \in {"undefined", "null", "loaded"}
      BY <1>0 DEF Ready!Loaded
    <3>3. /\ p \in Seen /\ p.held = probe.held /\ p.broken = probe.broken \cup more /\ p.step = step
          /\ p.checks = [probe.checks EXCEPT !.database = TRUE]
      BY <1>0 DEF Seen, Ready!Facts
    <3>4. /\ step = "upstream" => more # {}
          /\ step \in {"upstream", "ledger"}
      OBVIOUS
    <3>. HIDE DEF p, step, more
    <3>5. /\ p.checks["database"]
          /\ \A f \in Ready!Facts : f # "database" => p.checks[f] = probe.checks[f]
      BY <1>0, <3>3 DEF Seen, Ready!Facts
    <3>6. ProbeSound(p)
      BY <1>0, <2>1, <3>3, <3>4, <3>5, ReadyHolding DEF ProbeSound
    <3>. QED
      BY <1>0, <3>1, <3>2, <3>3, <3>6, ReadyContinues
  <2>2. CASE ~world.database
    <3>1. Ready!Settle(probe) /\ UNCHANGED manifest
      BY <1>1, <2>2 DEF Ready!PingAnswers
    <3>2. probe.broken # {} /\ \A f \in Ready!Facts : probe.checks[f] => f \in probe.held
      BY <1>0, <2>2, ReadyHolding DEF ProbeSound, Ready!Facts
    <3>. QED
      BY <1>0, <3>1, <3>2, ReadySettled
  <2>. QED
    BY <2>1, <2>2
<1>2. CASE Ready!LedgerAnswers
  <2>. DEFINE ok == world.database /\ world.ledger # NoTable /\ Ready!SchemaMatches(world.ledger)
              p == [probe EXCEPT !.checks.schema = ok, !.step = "upstream"]
  <2>1. probe.step = "ledger" /\ Ready!Continue(p) /\ UNCHANGED manifest
    BY <1>2 DEF Ready!LedgerAnswers
  <2>2. ok \in BOOLEAN
    BY DEF ReadyInv, ReadyTyped, World, Ready!SchemaMatches
  <2>3. ok => Ready!Exact(world.ledger)
    BY ReadySchema DEF ReadyInv, ReadyTyped, World
  <2>4. ~ok => ~world.database \/ ~Ready!Exact(world.ledger)
    BY ReadySchema DEF ReadyInv, ReadyTyped, World, Ready!Exact
  <2>. HIDE DEF ok
  <2>5. /\ p \in Seen /\ p.held = probe.held /\ p.broken = probe.broken /\ p.step = "upstream"
        /\ p.checks["schema"] = ok
        /\ \A f \in Ready!Facts : f # "schema" => p.checks[f] = probe.checks[f]
    BY <1>0, <2>2 DEF Seen, Ready!Facts
  <2>. HIDE DEF p
  <2>6. ProbeSound(p)
    BY <1>0, <2>1, <2>3, <2>4, <2>5, ReadyHolding DEF ProbeSound, Ready!Facts
  <2>. QED
    BY <1>0, <2>1, <2>5, <2>6, ReadyContinues
<1>3. CASE Ready!UpstreamAnswers
  <2>. DEFINE p == [probe EXCEPT !.checks.upstream = world.upstream]
  <2>1. probe.step = "upstream" /\ Ready!Settle(p) /\ UNCHANGED manifest
    BY <1>3 DEF Ready!UpstreamAnswers
  <2>2. world.upstream \in BOOLEAN
    BY DEF ReadyInv, ReadyTyped, World
  <2>3. /\ p \in Seen /\ p.held = probe.held /\ p.broken = probe.broken
        /\ p.checks["upstream"] = world.upstream
        /\ \A f \in Ready!Facts : f # "upstream" => p.checks[f] = probe.checks[f]
    BY <1>0, <2>2 DEF Seen, Ready!Facts
  <2>. HIDE DEF p
  <2>4. \A f \in Ready!Facts : p.checks[f] => f \in p.held
    BY <1>0, <2>3, ReadyHolding DEF ProbeSound
  <2>5. (\A f \in Ready!Facts : p.checks[f]) \/ p.broken # {}
    BY <1>0, <2>1, <2>3, ReadyHolding DEF ProbeSound, Ready!Facts
  <2>. QED
    BY <1>0, <2>1, <2>3, <2>4, <2>5, ReadySettled
<1>4. CASE Ready!TimesOut
  <2>. DEFINE p == [probe EXCEPT !.broken = @ \cup {"slow"}]
              q == [p EXCEPT !.step = "upstream"]
  <2>1. /\ IF p.step = "ledger" THEN Ready!Continue(q) ELSE Ready!Settle(p)
        /\ UNCHANGED manifest
    BY <1>4 DEF Ready!TimesOut
  <2>2. /\ p \in Seen /\ p.held = probe.held /\ p.broken = probe.broken \cup {"slow"}
        /\ p.checks = probe.checks
        /\ q \in Seen /\ q.held = probe.held /\ q.broken = probe.broken \cup {"slow"}
        /\ q.checks = probe.checks /\ q.step = "upstream"
    BY <1>0 DEF Seen
  <2>. HIDE DEF p, q
  <2>3. ProbeSound(q)
    BY <1>0, <2>2 DEF ProbeSound
  <2>4. (\A f \in Ready!Facts : p.checks[f] => f \in p.held) /\ p.broken # {}
    BY <1>0, <2>2 DEF ProbeSound
  <2>. QED
    BY <1>0, <2>1, <2>2, <2>3, <2>4, ReadyContinues, ReadySettled
<1>. QED
  BY <1>1, <1>2, <1>3, <1>4

\* What changes around the probe is noted by it.
LEMMA ReadyChanges ==
    ASSUME ReadyAssumption, ReadyInv, NEW w \in World, Ready!Change(w)
    PROVE  ReadyInv'
<1>1. /\ changes' \in 0 .. MaxChanges /\ world' = w /\ process = "listening"
      /\ UNCHANGED <<env, using, process, signals, manifest, reqs>>
      /\ probe' = IF probe = NoProbe THEN probe
                  ELSE [probe EXCEPT !.held = @ \cup Ready!Holding(w), !.broken = @ \cup (Ready!Facts \ Ready!Holding(w))]
  BY DEF Ready!Change, ReadyInv, ReadyTyped, ReadyAssumption
<1>2. CASE probe = NoProbe
  BY <1>1, <1>2 DEF ReadyInv, ReadyTyped, Ready!ListensAsValidated, Ready!AnswersMeanProbe
<1>3. CASE probe # NoProbe
  <2>0. probe \in Seen /\ ProbeSound(probe) /\ (probe.step = "upstream" => using.upstream # "unset")
    BY <1>3 DEF ReadyInv, ReadyTyped
  <2>1. Ready!Holding(w) \subseteq Ready!Facts /\ Ready!Holding(world)' = Ready!Holding(w)
    BY <1>1 DEF Ready!Holding
  <2>2. /\ probe' \in Seen /\ probe'.held = probe.held \cup Ready!Holding(w)
        /\ probe'.broken = probe.broken \cup (Ready!Facts \ Ready!Holding(w))
        /\ probe'.step = probe.step /\ probe'.checks = probe.checks
    BY <1>1, <1>3, <2>0, <2>1 DEF Seen
  <2>3. ProbeSound(probe)'
    BY <2>0, <2>1, <2>2 DEF ProbeSound
  <2>. QED
    BY <1>1, <2>0, <2>2, <2>3 DEF ReadyInv, ReadyTyped, Ready!ListensAsValidated,
       Ready!AnswersMeanProbe
<1>. QED
  BY <1>2, <1>3

LEMMA ReadyStep == ASSUME ReadyAssumption, ReadyInv, [Ready!Next]_(Ready!vars) PROVE ReadyInv'
<1>1. CASE Ready!Start
  <2>1. /\ process = "loading" /\ env \in Ready!Env /\ probe = NoProbe
        /\ process' = IF Ready!Parses(env) /\ Ready!validateStartupConfig(env) THEN "listening" ELSE "refused"
        /\ using' = [production |-> env.production, overridden |-> env.specialist # "off",
                     database |-> Ready!Connection(env), upstream |-> env.upstream]
        /\ env' = NoEnv /\ UNCHANGED <<signals, world, manifest, probe, reqs, changes>>
    BY <1>1 DEF Ready!Start, ReadyInv
  <2>2. using' \in Using
    BY <2>1, ReadyConnects DEF Using
  <2>3. Ready!ListensAsValidated'
    BY <2>1, ReadyConnects DEF Ready!ListensAsValidated
  <2>. QED
    BY <2>1, <2>2, <2>3 DEF ReadyInv, ReadyTyped, Ready!AnswersMeanProbe
<1>2. ASSUME NEW r \in Request, Ready!Arrive(r) PROVE ReadyInv'
  <2>1. /\ process = "listening" /\ reqs[r].answer = "none"
        /\ reqs' = [reqs EXCEPT ![r] = [answer |-> "waiting"]]
        /\ probe' = IF probe = NoProbe THEN Ready!NewProbe ELSE probe
        /\ UNCHANGED <<env, using, process, signals, world, manifest, changes>>
    BY <1>2 DEF Ready!Arrive
  <2>2. /\ Ready!NewProbe \in Seen /\ Ready!NewProbe.step = "ping"
        /\ Ready!NewProbe.held = Ready!Holding(world)
        /\ Ready!NewProbe.broken = Ready!Facts \ Ready!Holding(world)
        /\ \A f \in Ready!Facts : ~Ready!NewProbe.checks[f]
    BY ReadyHolding DEF Ready!NewProbe, Seen
  <2>3. ProbeSound(Ready!NewProbe)
    BY <2>2, ReadyHolding DEF ProbeSound
  <2>. HIDE DEF Ready!NewProbe
  <2>4. [answer |-> "waiting"] \in Ready!Pending /\ [answer |-> "waiting"].answer = "waiting"
    BY DEF Ready!Pending
  <2>5. /\ DOMAIN reqs' = Request
        /\ \A q \in Request : reqs'[q] \in Ready!Pending \cup Ready!Answered
        /\ Ready!AnswersMeanProbe'
    BY <2>1, <2>4 DEF ReadyInv, ReadyTyped, Ready!AnswersMeanProbe
  <2>6. \A p : ProbeSound(p)' <=> ProbeSound(p)
    BY <2>1 DEF ProbeSound, Ready!Holding
  <2>. QED
    BY <2>1, <2>2, <2>3, <2>5, <2>6 DEF ReadyInv, ReadyTyped, Ready!ListensAsValidated
<1>3. CASE Ready!Changes
  <2>1. world \in World
    BY DEF ReadyInv, ReadyTyped
  <2>2. /\ [world EXCEPT !.database = ~@] \in World /\ [world EXCEPT !.upstream = ~@] \in World
        /\ [world EXCEPT !.manifest = ~@] \in World
        /\ \A l \in Ready!Ledger \cup {NoTable} : [world EXCEPT !.ledger = l] \in World
    BY <2>1 DEF World
  <2>. QED
    BY <1>3, <2>2, ReadyChanges DEF Ready!Changes
<1>4. CASE Ready!Signal \/ Ready!Exit
  <2>1. /\ UNCHANGED <<env, using, world, manifest, probe, reqs, changes>>
        /\ process \in {"listening", "draining"} /\ process' \in {"draining", "exited"}
        /\ signals' \in 0 .. 2
    BY <1>4 DEF Ready!Signal, Ready!Exit, ReadyInv, ReadyTyped
  <2>2. ProbeSound(probe)' <=> ProbeSound(probe)
    BY <2>1 DEF ProbeSound, Ready!Holding
  <2>. QED
    BY <2>1, <2>2 DEF ReadyInv, ReadyTyped, Ready!ListensAsValidated, Ready!AnswersMeanProbe
<1>5. CASE UNCHANGED Ready!vars
  <2>1. UNCHANGED <<env, using, process, signals, world, manifest, probe, reqs, changes>>
    BY <1>5 DEF Ready!vars
  <2>2. ProbeSound(probe)' <=> ProbeSound(probe)
    BY <2>1 DEF ProbeSound, Ready!Holding
  <2>. QED
    BY <2>1, <2>2 DEF ReadyInv, ReadyTyped, Ready!ListensAsValidated, Ready!AnswersMeanProbe
<1>. QED
  BY <1>1, <1>2, <1>3, <1>4, <1>5, ReadyProbes DEF Ready!Next

LEMMA ReadyInit == ASSUME ReadyAssumption, Ready!Init PROVE ReadyInv
<1>1. /\ env \in Ready!Env /\ probe = NoProbe /\ process = "loading" /\ signals = 0 /\ changes = 0
      /\ manifest = "undefined"
  BY DEF Ready!Init, Ready!Env, Ready!Override, Ready!Dsn
<1>2. using \in Using
  BY DEF Ready!Init, Using, Ready!Dsn
<1>3. world \in World
  BY DEF Ready!Init, World, Ready!Ledger
<1>4. reqs = [r \in Request |-> [answer |-> "none"]] /\ [answer |-> "none"] \in Ready!Pending
  BY DEF Ready!Init, Ready!Pending
<1>5. Ready!AnswersMeanProbe /\ Ready!ListensAsValidated
  BY <1>1, <1>4 DEF Ready!AnswersMeanProbe, Ready!ListensAsValidated
<1>. QED
  BY <1>1, <1>2, <1>3, <1>4, <1>5 DEF ReadyInv, ReadyTyped, ReadyAssumption

-----------------------------------------------------------------------------

\* The invariant of start and probe.
THEOREM ReadyKeep == ASSUME ReadyAssumption PROVE Ready!Spec => []ReadyInv
<1>1. Ready!Init => ReadyInv
  BY ReadyInit
<1>2. ReadyInv /\ [Ready!Next]_(Ready!vars) => ReadyInv'
  BY ReadyStep
<1>. QED
  BY <1>1, <1>2, PTL DEF Ready!Spec

\* A process that serves in production connects with what startup inspected, although
\* the two read the environment by different rules, or else with the override of the
\* specialist suite, and never with development credentials.
THEOREM ReadyListensAsValidated ==
    ASSUME ReadyAssumption
    PROVE  Ready!Spec => []Ready!ListensAsValidated
<1>1. ReadyInv => Ready!ListensAsValidated
  BY DEF ReadyInv
<1>. QED
  BY <1>1, ReadyKeep, PTL

\* "ready" is said of a database, a ledger and an upstream that were in order at some
\* moment of the probe, "not-ready" only when one was not or was slow.
THEOREM ReadyAnswersMeanProbe == ASSUME ReadyAssumption PROVE Ready!Spec => []Ready!AnswersMeanProbe
<1>1. ReadyInv => Ready!AnswersMeanProbe
  BY DEF ReadyInv
<1>. QED
  BY <1>1, ReadyKeep, PTL

\* The process, its probe and its requests keep their types.
THEOREM ReadyTypeOK == ASSUME ReadyAssumption PROVE Ready!Spec => []Ready!TypeOK
<1>1. [Ready!Facts -> BOOLEAN] \subseteq Ready!Checks
  BY DEF Ready!Facts, Ready!Checks
<1>2. ReadyInv => Ready!TypeOK
  BY <1>1 DEF ReadyInv, ReadyTyped, Seen, World, Using, Ready!TypeOK
<1>. QED
  BY <1>2, ReadyKeep, PTL

-----------------------------------------------------------------------------
(***************************************************************************)
(* The properties of MigrationRunner for any number of runners, files,     *)
(* contents, starts and faults.                                            *)
(***************************************************************************)
MigrationsAssumption ==
    /\ NoRunner \notin Runner
    /\ MaxFile \in Nat /\ MaxContent \in Nat
    /\ Checkout \subseteq [Migrations!File -> Migrations!Content]

MigrationsTyped ==
    /\ Migrations!TypeOK
    /\ \A r \in Runner : run[r].pc \in {"sql", "record", "orphan"} => run[r].at \in Migrations!File

\* A session that holds the lock is the holder.
Held == \A r \in Runner : run[r].pc \in Migrations!Holding => holder = r

\* What a run still has to look at is as it read it, and what it has behind it is
\* recorded; the file it executes has no row.
Position(r) ==
    /\ run[r].pc \in {"started", "locked"} => run[r].at = 1
    /\ run[r].pc = "baseline" => run[r].through # 0
    /\ run[r].pc \in {"files", "sql", "record", "orphan"} =>
        /\ run[r].through = 0
        /\ \A g \in Migrations!File : g >= run[r].at => migrationsLedger[g] = run[r].applied[g]
    /\ run[r].pc \in {"files", "sql", "record", "unlock"} /\ run[r].through = 0 =>
        \A g \in Migrations!File : g < run[r].at => run[r].files[g] \in {0, migrationsLedger[g]}
    /\ run[r].pc \in {"sql", "record", "orphan"} =>
        run[r].files[run[r].at] # 0 /\ run[r].applied[run[r].at] = 0
    /\ run[r].pc = "record" => executed[run[r].at].content = run[r].files[run[r].at]
    /\ run[r].pc = "orphan" => executed[run[r].at].times + 1 <= migrationsFaults

Positions == \A r \in Runner : Position(r)

\* Every execution but the recorded one, or the one about to be, was a loss.
Counted(f) ==
    /\ migrationsBy[f] # "nobody" => migrationsLedger[f] # 0
    /\ migrationsBy[f] = "run" => executed[f].content = migrationsLedger[f]
    /\ executed[f].times <= 1 + migrationsFaults
    /\ migrationsLedger[f] = 0 /\ (\A r \in Runner : run[r].pc = "record" => run[r].at # f) =>
        executed[f].times <= migrationsFaults

MigrationsCounts == \A f \in Migrations!File : Counted(f)

RunnerInv == MigrationsTyped /\ Held /\ Positions /\ MigrationsCounts

-----------------------------------------------------------------------------

LEMMA InitRunner ==
    ASSUME MigrationsAssumption PROVE Migrations!Init => RunnerInv
<1> SUFFICES ASSUME Migrations!Init PROVE RunnerInv
  OBVIOUS
<1> USE DEF MigrationsAssumption, Migrations!Init
<1>1. MigrationsTyped
  BY DEF MigrationsTyped, Migrations!TypeOK, Migrations!Process, Migrations!File,
     Migrations!Content, Migrations!Nothing
<1>2. Held
  BY DEF Held, Migrations!Holding
<1>3. Positions
  BY DEF Positions, Position
<1>4. MigrationsCounts
  BY DEF MigrationsCounts, Counted, Migrations!Nothing
<1> QED
  BY <1>1, <1>2, <1>3, <1>4 DEF RunnerInv

\* A step of one runner moves that runner only.
Moves(r) == \A s \in Runner \ {r} : run'[s] = run[s]

\* Files and content stay what they were at the start.
SameFiles(r) ==
    /\ run'[r].files = run[r].files /\ run'[r].through = run[r].through
    /\ run'[r].applied = run[r].applied

Typing == run \in [Runner -> Migrations!Process]

\* What the three forms of assignment to a runner leave alone.
LEMMA GotoMoves ==
    ASSUME Typing, NEW r \in Runner, NEW pc, Migrations!Goto(r, pc)
    PROVE Moves(r) /\ SameFiles(r) /\ run'[r].pc = pc /\ run'[r].at = run[r].at
BY DEF Migrations!Goto, Typing, Migrations!Process, Moves, SameFiles

LEMMA AdvanceMoves ==
    ASSUME Typing, NEW r \in Runner, NEW pc, NEW at,
           run' = [run EXCEPT ![r].pc = pc, ![r].at = at]
    PROVE Moves(r) /\ SameFiles(r) /\ run'[r].pc = pc /\ run'[r].at = at
BY DEF Typing, Migrations!Process, Moves, SameFiles

LEMMA SkipMoves ==
    ASSUME Typing, NEW r \in Runner, NEW at, run' = [run EXCEPT ![r].at = at]
    PROVE Moves(r) /\ SameFiles(r) /\ run'[r].pc = run[r].pc /\ run'[r].at = at
BY DEF Typing, Migrations!Process, Moves, SameFiles

\* Each keeps the type.
LEMMA GotoTyped ==
    ASSUME Typing, NEW r \in Runner, NEW pc, Migrations!Goto(r, pc),
           pc \in {"idle", "started", "locked", "files", "sql", "record", "baseline",
                  "unlock", "aborted", "lost", "orphan"}
    PROVE Typing'
BY DEF Migrations!Goto, Typing, Migrations!Process

LEMMA AdvanceTyped ==
    ASSUME Typing, NEW r \in Runner, NEW at \in 1 .. MaxFile + 1,
           run' = [run EXCEPT ![r].pc = "files", ![r].at = at]
    PROVE Typing'
BY DEF Typing, Migrations!Process

LEMMA SkipTyped ==
    ASSUME Typing, NEW r \in Runner, NEW at \in 1 .. MaxFile + 1,
           run' = [run EXCEPT ![r].at = at]
    PROVE Typing'
BY DEF Typing, Migrations!Process

\* While one session holds the lock, the positions of the others say nothing.
LEMMA OthersKeep ==
    ASSUME Held, Positions, NEW r \in Runner, run[r].pc \in Migrations!Holding, Moves(r),
           Position(r)',
           run'[r].pc \in Migrations!Holding => holder' = r
    PROVE Positions' /\ Held'
<1>1. ASSUME NEW s \in Runner, s # r PROVE run'[s] = run[s] /\ run[s].pc \notin Migrations!Holding
  BY <1>1 DEF Held, Moves
<1>2. ASSUME NEW s \in Runner, s # r PROVE Position(s)' /\ run'[s].pc \notin Migrations!Holding
  BY <1>1, <1>2 DEF Positions, Position, Migrations!Holding
<1> QED
  BY <1>2 DEF Positions, Held

\* Only the session that records counts for the files: the others stay out of it.
LEMMA CountsKeep ==
    ASSUME Held, MigrationsCounts, NEW r \in Runner, run[r].pc \in Migrations!Holding,
           Moves(r),
           UNCHANGED <<migrationsLedger, migrationsBy, executed>>, migrationsFaults \in Nat, migrationsFaults' \in {migrationsFaults, migrationsFaults + 1},
           \A f \in Migrations!File : executed[f].times \in Nat,
           run[r].pc = "record" => migrationsFaults' = migrationsFaults + 1
    PROVE MigrationsCounts'
<1> SUFFICES ASSUME NEW f \in Migrations!File PROVE Counted(f)'
  BY DEF MigrationsCounts
<1>1. Counted(f)
  BY DEF MigrationsCounts
<1>2. ASSUME NEW s \in Runner, s # r PROVE run[s].pc # "record"
  BY <1>2 DEF Held, Migrations!Holding
<1>3. executed[f].times <= 1 + migrationsFaults'
  BY <1>1 DEF Counted
<1>4. ASSUME migrationsLedger[f] = 0 PROVE executed[f].times <= migrationsFaults'
  <2>1. CASE run[r].pc = "record"
    BY <1>1, <2>1 DEF Counted
  <2>2. CASE run[r].pc # "record"
    BY <1>1, <1>2, <1>4, <2>2 DEF Counted
  <2> QED
    BY <2>1, <2>2
<1> QED
  BY <1>1, <1>3, <1>4 DEF Counted

-----------------------------------------------------------------------------
(* The type invariant, one step per action. *)

\* What the steps have to show of the others' variables, and of their own runner.
Rest ==
    /\ holder \in Runner \cup {NoRunner}
    /\ migrationsLedger \in [Migrations!File -> Migrations!Content]
    /\ starts \in Nat
    /\ migrationsFaults \in Nat
    /\ executed \in [Migrations!File -> [content : Migrations!Content, times : Nat]]
    /\ migrationsBy \in [Migrations!File -> {"nobody", "run", "baseline"}]

LEMMA TypedParts == MigrationsTyped => Typing /\ Rest /\ Migrations!TypeOK
BY DEF MigrationsTyped, Migrations!TypeOK, Typing, Rest

LEMMA TypedKeep ==
    ASSUME MigrationsTyped, Typing', Rest', NEW r \in Runner, Moves(r),
           run'[r].pc \in {"sql", "record", "orphan"} => run'[r].at \in Migrations!File
    PROVE MigrationsTyped'
<1>1. Migrations!TypeOK'
  BY DEF Migrations!TypeOK, Typing, Rest
<1>2. ASSUME NEW s \in Runner, run'[s].pc \in {"sql", "record", "orphan"}
      PROVE  run'[s].at \in Migrations!File
  BY <1>2 DEF MigrationsTyped, Moves
<1> QED
  BY <1>1, <1>2 DEF MigrationsTyped

LEMMA RunnerTypes ==
    ASSUME MigrationsTyped, NEW r \in Runner
    PROVE /\ run[r].at \in 1 .. MaxFile + 1
          /\ run[r].files \in [Migrations!File -> Migrations!Content]
          /\ run[r].applied \in [Migrations!File -> Migrations!Content]
          /\ run[r].through \in 0 .. MaxFile
          /\ run[r].pc \in {"sql", "record", "orphan"} => run[r].at \in Migrations!File
BY DEF MigrationsTyped, Migrations!TypeOK, Migrations!Process

LEMMA ExecuteTyped ==
    ASSUME Rest, NEW f \in Migrations!File, NEW content \in Migrations!Content,
           Migrations!Execute(f, content)
    PROVE executed' \in [Migrations!File -> [content : Migrations!Content, times : Nat]]
BY DEF Rest, Migrations!Execute

-----------------------------------------------------------------------------
(* The invariant, one lemma per action. *)

LEMMA Parts == RunnerInv => MigrationsTyped /\ Held /\ Positions /\ MigrationsCounts /\ Typing /\ Rest
BY TypedParts DEF RunnerInv

LEMMA Timed == Rest => migrationsFaults \in Nat /\ \A f \in Migrations!File : executed[f].times \in Nat
BY DEF Rest

LEMMA StepStart ==
    ASSUME MigrationsAssumption, RunnerInv, NEW r \in Runner, NEW files \in Checkout,
           NEW through \in 0 .. MaxFile, Migrations!Start(r, files, through)
    PROVE RunnerInv'
<1> DEFINE p == [pc |-> "started", files |-> files, through |-> through, at |-> 1,
                 applied |-> Migrations!Nothing]
<1>1. MigrationsTyped /\ Held /\ Positions /\ MigrationsCounts /\ Typing /\ Rest
  BY Parts
<1>2. p \in Migrations!Process
  BY DEF MigrationsAssumption, Migrations!Process, Migrations!Nothing, Migrations!File,
     Migrations!Content
<1>3. p.pc = "started" /\ p.at = 1
  OBVIOUS
<1>4. /\ run' = [run EXCEPT ![r] = p]
      /\ UNCHANGED <<holder, migrationsLedger, migrationsFaults, executed, migrationsBy>>
      /\ starts' = starts + 1 /\ run[r].pc = "idle"
  BY DEF Migrations!Start
<1> HIDE DEF p
<1>5. Typing' /\ Moves(r) /\ run'[r].pc = "started" /\ run'[r].at = 1
  BY <1>1, <1>2, <1>3, <1>4 DEF Typing, Moves
<1>6. MigrationsTyped'
  <2>1. Rest'
    BY <1>1, <1>4 DEF Rest
  <2> QED
    BY <1>1, <1>5, <2>1, TypedKeep
<1>7. Held'
  BY <1>1, <1>4, <1>5 DEF Held, Moves, Migrations!Holding
<1>8. Positions'
  <2> SUFFICES ASSUME NEW s \in Runner PROVE Position(s)'
    BY DEF Positions
  <2>1. CASE s = r
    BY <1>5, <2>1 DEF Position
  <2>2. CASE s # r
    BY <1>1, <1>4, <1>5, <2>2 DEF Position, Positions, Moves
  <2> QED
    BY <2>1, <2>2
<1>9. MigrationsCounts'
  BY <1>1, <1>4, <1>5 DEF MigrationsCounts, Counted, Moves
<1> QED
  BY <1>6, <1>7, <1>8, <1>9 DEF RunnerInv

LEMMA StepLock ==
    ASSUME MigrationsAssumption, RunnerInv, NEW r \in Runner,
           Migrations!acquireMigrationLock(r)
    PROVE RunnerInv'
<1>1. MigrationsTyped /\ Held /\ Positions /\ MigrationsCounts /\ Typing /\ Rest
  BY Parts
<1>2. PICK pc \in {"locked", "idle"} : Migrations!Goto(r, pc) /\ (pc = "locked" => holder = NoRunner /\ holder' = r)
                                     /\ (pc = "idle" => holder' = holder)
  BY DEF Migrations!acquireMigrationLock
<1>3. /\ UNCHANGED <<migrationsLedger, starts, migrationsFaults, executed, migrationsBy>>
      /\ run[r].pc = "started"
  BY DEF Migrations!acquireMigrationLock
<1>4. Moves(r) /\ run'[r].pc = pc
  BY <1>1, <1>2, GotoMoves
<1>5. MigrationsTyped'
  <2>1. Typing'
    BY <1>1, <1>2, GotoTyped
  <2>2. Rest'
    BY <1>1, <1>2, <1>3 DEF Rest
  <2> QED
    BY <1>1, <1>2, <1>4, <2>1, <2>2, TypedKeep
<1>6. Held'
  <2>1. CASE pc = "locked"
    BY <1>1, <1>2, <1>4, <2>1 DEF Held, Moves, MigrationsAssumption
  <2>2. CASE pc = "idle"
    BY <1>1, <1>2, <1>4, <2>2 DEF Held, Moves, Migrations!Holding
  <2> QED
    BY <2>1, <2>2
<1>7. Positions'
  <2> SUFFICES ASSUME NEW s \in Runner PROVE Position(s)'
    BY DEF Positions
  <2>1. CASE s = r
    <3>1. run'[r].at = 1
      BY <1>1, <1>2, <1>3, GotoMoves DEF Positions, Position
    <3> QED
      BY <1>2, <1>4, <2>1, <3>1 DEF Position
  <2>2. CASE s # r
    BY <1>1, <1>3, <1>4, <2>2 DEF Position, Positions, Moves
  <2> QED
    BY <2>1, <2>2
<1>8. MigrationsCounts'
  BY <1>1, <1>2, <1>3, <1>4 DEF MigrationsCounts, Counted, Moves
<1> QED
  BY <1>5, <1>6, <1>7, <1>8 DEF RunnerInv

LEMMA ReadTyped ==
    ASSUME Typing, NEW r \in Runner, NEW rows \in [Migrations!File -> Migrations!Content],
           run' = [run EXCEPT ![r].pc = "files", ![r].applied = rows]
    PROVE /\ Typing' /\ Moves(r) /\ run'[r].pc = "files" /\ run'[r].applied = rows
          /\ run'[r].files = run[r].files /\ run'[r].through = run[r].through
          /\ run'[r].at = run[r].at
BY DEF Typing, Migrations!Process, Moves

LEMMA StepRead ==
    ASSUME MigrationsAssumption, RunnerInv, NEW r \in Runner,
           Migrations!getAppliedMigrations(r)
    PROVE RunnerInv'
<1>1. MigrationsTyped /\ Held /\ Positions /\ MigrationsCounts /\ Typing /\ Rest
  BY Parts
<1>2. /\ run[r].pc = "locked" /\ run[r].through = 0
      /\ UNCHANGED <<holder, migrationsLedger, starts, migrationsFaults, executed, migrationsBy>>
      /\ run' = [run EXCEPT ![r].pc = "files", ![r].applied = migrationsLedger]
  BY DEF Migrations!getAppliedMigrations
<1>3. migrationsLedger \in [Migrations!File -> Migrations!Content]
  BY <1>1 DEF Rest
<1>4. /\ Typing' /\ Moves(r) /\ run'[r].pc = "files" /\ run'[r].applied = migrationsLedger
      /\ run'[r].through = 0 /\ run'[r].at = run[r].at
  BY <1>1, <1>2, <1>3, ReadTyped
<1>5. run'[r].at = 1
  BY <1>1, <1>2, <1>4 DEF Positions, Position
<1>6. MigrationsTyped'
  <2>1. Rest'
    BY <1>1, <1>2 DEF Rest
  <2> QED
    BY <1>1, <1>4, <2>1, TypedKeep
<1>7. Position(r)'
  <2>1. \A g \in Migrations!File : migrationsLedger'[g] = run'[r].applied[g]
    BY <1>2, <1>4
  <2>2. \A g \in Migrations!File : ~(g < run'[r].at)
    BY <1>5 DEF MigrationsAssumption, Migrations!File
  <2> QED
    BY <1>4, <1>5, <2>1, <2>2 DEF Position
<1>8. run[r].pc \in Migrations!Holding /\ holder' = r
  BY <1>1, <1>2 DEF Held, Migrations!Holding
<1>9. Positions' /\ Held'
  BY <1>1, <1>4, <1>7, <1>8, OthersKeep
<1>10. MigrationsCounts'
  BY <1>1, <1>2, <1>4, <1>8, CountsKeep, Timed
<1> QED
  BY <1>6, <1>9, <1>10 DEF RunnerInv

\* A step of the holder that changes nothing but its own place.
LEMMA StepPlace ==
    ASSUME MigrationsAssumption, RunnerInv, NEW r \in Runner,
           run[r].pc \in Migrations!Holding,
           Typing', Moves(r), Position(r)', UNCHANGED <<holder, migrationsLedger, starts, executed, migrationsBy>>,
           migrationsFaults' \in {migrationsFaults, migrationsFaults + 1}, run[r].pc = "record" => migrationsFaults' = migrationsFaults + 1,
           run'[r].pc \in {"sql", "record", "orphan"} => run'[r].at \in Migrations!File
    PROVE RunnerInv'
<1>1. MigrationsTyped /\ Held /\ Positions /\ MigrationsCounts /\ Typing /\ Rest
  BY Parts
<1>2. holder' = r
  BY <1>1 DEF Held
<1>3. MigrationsTyped'
  <2>1. Rest'
    BY <1>1 DEF Rest
  <2> QED
    BY <1>1, <2>1, TypedKeep
<1>4. Positions' /\ Held'
  BY <1>1, <1>2, OthersKeep
<1>5. MigrationsCounts'
  BY <1>1, CountsKeep, Timed
<1> QED
  BY <1>3, <1>4, <1>5 DEF RunnerInv

LEMMA StepNext ==
    ASSUME MigrationsAssumption, RunnerInv, NEW r \in Runner, Migrations!runMigrations(r)
    PROVE RunnerInv'
<1> DEFINE f == run[r].at
<1>1. MigrationsTyped /\ Held /\ Positions /\ MigrationsCounts /\ Typing /\ Rest
  BY Parts
<1>2. /\ run[r].pc = "files"
      /\ UNCHANGED <<holder, migrationsLedger, starts, migrationsFaults, executed, migrationsBy>>
  BY DEF Migrations!runMigrations
<1>3. /\ Position(r)
      /\ f \in 1 .. MaxFile + 1
      /\ run[r].files \in [Migrations!File -> Migrations!Content]
      /\ run[r].applied \in [Migrations!File -> Migrations!Content]
  BY <1>1, RunnerTypes DEF Positions
<1>4. /\ run[r].through = 0
      /\ \A g \in Migrations!File : g >= f => migrationsLedger[g] = run[r].applied[g]
      /\ \A g \in Migrations!File : g < f => run[r].files[g] \in {0, migrationsLedger[g]}
  BY <1>2, <1>3 DEF Position
<1>5. /\ run[r].pc \in Migrations!Holding
      /\ migrationsFaults' \in {migrationsFaults, migrationsFaults + 1}
  BY <1>2 DEF Migrations!Holding
<1>6. CASE Migrations!Goto(r, "unlock")
  <2>1. Moves(r) /\ SameFiles(r) /\ run'[r].pc = "unlock" /\ run'[r].at = f
    BY <1>1, <1>6, GotoMoves
  <2>2. Position(r)'
    BY <1>2, <1>4, <2>1 DEF Position, SameFiles
  <2>3. Typing'
    BY <1>1, <1>6, GotoTyped
  <2> QED
    BY <1>2, <1>5, <2>1, <2>2, <2>3, StepPlace
<1>7. CASE f <= MaxFile /\ run[r].files[f] \in {0, run[r].applied[f]} /\ run' = [run EXCEPT ![r].at = f + 1]
  <2>1. Moves(r) /\ SameFiles(r) /\ run'[r].pc = "files" /\ run'[r].at = f + 1
    BY <1>1, <1>2, <1>7, SkipMoves
  <2>2. f \in Migrations!File /\ f + 1 \in 1 .. MaxFile + 1
    BY <1>3, <1>7 DEF MigrationsAssumption, Migrations!File
  <2>3. \A g \in Migrations!File : g < f + 1 => run[r].files[g] \in {0, migrationsLedger[g]}
    <3> SUFFICES ASSUME NEW g \in Migrations!File, g < f + 1 PROVE run[r].files[g] \in {0, migrationsLedger[g]}
      OBVIOUS
    <3>1. g = f \/ g < f
      BY <2>2 DEF Migrations!File
    <3>2. migrationsLedger[f] = run[r].applied[f]
      BY <1>4, <2>2 DEF Migrations!File
    <3> QED
      BY <1>4, <1>7, <3>1, <3>2
  <2>4. \A g \in Migrations!File : g >= f + 1 => migrationsLedger[g] = run[r].applied[g]
    BY <1>4, <2>2 DEF Migrations!File
  <2>5. Position(r)'
    BY <1>2, <1>4, <2>1, <2>3, <2>4 DEF Position, SameFiles
  <2>6. Typing'
    BY <1>1, <1>7, <2>2, SkipTyped
  <2> QED
    BY <1>2, <1>5, <2>1, <2>5, <2>6, StepPlace
<1>8. CASE f <= MaxFile /\ run[r].files[f] # 0 /\ run[r].applied[f] = 0 /\ Migrations!Goto(r, "sql")
  <2>1. Moves(r) /\ SameFiles(r) /\ run'[r].pc = "sql" /\ run'[r].at = f
    BY <1>1, <1>8, GotoMoves
  <2>2. f \in Migrations!File
    BY <1>3, <1>8 DEF MigrationsAssumption, Migrations!File
  <2>3. Position(r)'
    BY <1>2, <1>4, <1>8, <2>1 DEF Position, SameFiles
  <2>4. Typing'
    BY <1>1, <1>8, GotoTyped
  <2> QED
    BY <1>2, <1>5, <2>1, <2>2, <2>3, <2>4, StepPlace
<1> QED
  BY <1>6, <1>7, <1>8 DEF Migrations!runMigrations

LEMMA StepFails ==
    ASSUME MigrationsAssumption, RunnerInv, NEW r \in Runner, Migrations!ExecutionFails(r)
    PROVE RunnerInv'
<1>1. MigrationsTyped /\ Held /\ Positions /\ MigrationsCounts /\ Typing /\ Rest
  BY Parts
<1>2. PICK pc \in {"aborted", "unlock"} : Migrations!Goto(r, pc)
  BY DEF Migrations!ExecutionFails
<1>3. /\ run[r].pc = "sql" /\ migrationsFaults' = migrationsFaults + 1
      /\ UNCHANGED <<holder, migrationsLedger, starts, executed, migrationsBy>>
  BY DEF Migrations!ExecutionFails
<1>4. Moves(r) /\ SameFiles(r) /\ run'[r].pc = pc /\ run'[r].at = run[r].at
  BY <1>1, <1>2, GotoMoves
<1>5. Typing'
  BY <1>1, <1>2, GotoTyped
<1>6. Position(r)'
  BY <1>1, <1>2, <1>3, <1>4 DEF Position, Positions, SameFiles
<1>7. run[r].pc \in Migrations!Holding
  BY <1>3 DEF Migrations!Holding
<1> QED
  BY <1>2, <1>3, <1>4, <1>5, <1>6, <1>7, StepPlace

LEMMA StepBaselineStarts ==
    ASSUME MigrationsAssumption, RunnerInv, NEW r \in Runner, Migrations!Baseline(r)
    PROVE RunnerInv'
<1>1. MigrationsTyped /\ Held /\ Positions /\ MigrationsCounts /\ Typing /\ Rest
  BY Parts
<1>2. PICK pc \in {"unlock", "baseline"} : Migrations!Goto(r, pc)
  BY DEF Migrations!Baseline
<1>3. /\ run[r].pc = "locked" /\ run[r].through # 0
      /\ UNCHANGED <<holder, migrationsLedger, starts, migrationsFaults, executed, migrationsBy>>
  BY DEF Migrations!Baseline
<1>4. Moves(r) /\ SameFiles(r) /\ run'[r].pc = pc /\ run'[r].at = run[r].at
  BY <1>1, <1>2, GotoMoves
<1>5. Typing'
  BY <1>1, <1>2, GotoTyped
<1>6. Position(r)'
  BY <1>2, <1>3, <1>4 DEF Position, SameFiles
<1>7. run[r].pc \in Migrations!Holding
  BY <1>3 DEF Migrations!Holding
<1> QED
  BY <1>2, <1>3, <1>4, <1>5, <1>6, <1>7, StepPlace

\* Nobody else executes or records while one session holds the lock.
LEMMA AloneInside ==
    ASSUME Held, NEW r \in Runner, run[r].pc \in Migrations!Holding, Moves(r)
    PROVE \A s \in Runner : s # r => run[s].pc \notin Migrations!Holding /\ run'[s].pc \notin Migrations!Holding
BY DEF Held, Moves

LEMMA ExecuteFields ==
    ASSUME Rest, NEW f \in Migrations!File, NEW content, Migrations!Execute(f, content)
    PROVE /\ executed'[f].content = content /\ executed'[f].times = executed[f].times + 1
          /\ \A g \in Migrations!File : g # f => executed'[g] = executed[g]
BY DEF Rest, Migrations!Execute

LEMMA StepExecuted ==
    ASSUME MigrationsAssumption, RunnerInv, NEW r \in Runner, Migrations!Executed(r)
    PROVE RunnerInv'
<1> DEFINE f == run[r].at
<1>1. MigrationsTyped /\ Held /\ Positions /\ MigrationsCounts /\ Typing /\ Rest
  BY Parts
<1>2. /\ run[r].pc = "sql" /\ Migrations!Goto(r, "record") /\ Migrations!Execute(f, run[r].files[f])
      /\ UNCHANGED <<holder, migrationsLedger, starts, migrationsFaults, migrationsBy>>
  BY DEF Migrations!Executed
<1>3. Moves(r) /\ SameFiles(r) /\ run'[r].pc = "record" /\ run'[r].at = f
  BY <1>1, <1>2, GotoMoves
<1>4. f \in Migrations!File /\ run[r].files[f] \in Migrations!Content
  BY <1>1, <1>2, RunnerTypes
<1>5. /\ executed'[f].content = run[r].files[f] /\ executed'[f].times = executed[f].times + 1
      /\ \A g \in Migrations!File : g # f => executed'[g] = executed[g]
      /\ executed' \in [Migrations!File -> [content : Migrations!Content, times : Nat]]
  BY <1>1, <1>2, <1>4, ExecuteFields, ExecuteTyped
<1>6. run[r].pc \in Migrations!Holding /\ holder' = r
  BY <1>1, <1>2 DEF Held, Migrations!Holding
<1>7. Position(r)
  BY <1>1 DEF Positions
<1>8. MigrationsTyped'
  <2>1. Typing'
    BY <1>1, <1>2, GotoTyped
  <2>2. Rest'
    BY <1>1, <1>2, <1>5 DEF Rest
  <2> QED
    BY <1>1, <1>3, <1>4, <2>1, <2>2, TypedKeep
<1>9. Position(r)'
  BY <1>2, <1>3, <1>5, <1>7 DEF Position, SameFiles
<1>10. Positions' /\ Held'
  BY <1>1, <1>3, <1>6, <1>9, OthersKeep
<1>11. MigrationsCounts'
  <2>1. migrationsLedger[f] = 0
    <3>1. f >= f
      BY <1>4 DEF Migrations!File, MigrationsAssumption
    <3> QED
      BY <1>2, <1>4, <1>7, <3>1 DEF Position
  <2> SUFFICES ASSUME NEW g \in Migrations!File PROVE Counted(g)'
    BY DEF MigrationsCounts
  <2>2. Counted(g)
    BY <1>1 DEF MigrationsCounts
  <2>3. CASE g # f
    <3>1. \A s \in Runner : run[s].pc # "record"
      BY <1>1, <1>2, <1>3, <1>6, AloneInside DEF Migrations!Holding
    <3> QED
      BY <1>2, <1>5, <2>2, <2>3, <3>1 DEF Counted
  <2>4. CASE g = f
    <3>1. migrationsBy[g] = "nobody"
      BY <2>1, <2>2, <2>4 DEF Counted
    <3>2. executed[g].times <= migrationsFaults
      <4>1. \A s \in Runner : run[s].pc # "record"
        BY <1>1, <1>2, <1>3, <1>6, AloneInside DEF Migrations!Holding
      <4> QED
        BY <2>1, <2>2, <2>4, <4>1 DEF Counted
    <3>3. executed'[g].times <= 1 + migrationsFaults'
      BY <1>1, <1>2, <1>5, <2>4, <3>2, Timed
    <3>4. ~(\A s \in Runner : run'[s].pc = "record" => run'[s].at # g)
      BY <1>3, <2>4
    <3> QED
      BY <1>2, <3>1, <3>3, <3>4 DEF Counted
  <2> QED
    BY <2>3, <2>4
<1> QED
  BY <1>8, <1>10, <1>11 DEF RunnerInv

LEMMA StepRecord ==
    ASSUME MigrationsAssumption, RunnerInv, NEW r \in Runner, Migrations!Record(r)
    PROVE RunnerInv'
<1> DEFINE f == run[r].at
<1>1. MigrationsTyped /\ Held /\ Positions /\ MigrationsCounts /\ Typing /\ Rest
  BY Parts
<1>2. /\ run[r].pc = "record" /\ UNCHANGED <<holder, starts, migrationsFaults, executed>>
  BY DEF Migrations!Record
<1>3. f \in Migrations!File /\ run[r].files[f] \in Migrations!Content
  BY <1>1, <1>2, RunnerTypes
<1>4. Position(r)
  BY <1>1 DEF Positions
<1>5. migrationsLedger[f] = 0
  <2>1. f >= f
    BY <1>3 DEF Migrations!File, MigrationsAssumption
  <2> QED
    BY <1>2, <1>3, <1>4, <2>1 DEF Position
<1>6. /\ migrationsLedger' = [migrationsLedger EXCEPT ![f] = run[r].files[f]]
      /\ migrationsBy' = [migrationsBy EXCEPT ![f] = "run"]
      /\ run' = [run EXCEPT ![r].pc = "files", ![r].at = f + 1]
  BY <1>5 DEF Migrations!Record
<1>7. /\ migrationsLedger'[f] = run[r].files[f] /\ migrationsBy'[f] = "run"
      /\ \A g \in Migrations!File : g # f => migrationsLedger'[g] = migrationsLedger[g] /\ migrationsBy'[g] = migrationsBy[g]
  BY <1>1, <1>3, <1>6 DEF Rest
<1>8. Moves(r) /\ SameFiles(r) /\ run'[r].pc = "files" /\ run'[r].at = f + 1
  BY <1>1, <1>6, AdvanceMoves
<1>9. run[r].pc \in Migrations!Holding /\ holder' = r
  BY <1>1, <1>2 DEF Held, Migrations!Holding
<1>10. MigrationsTyped'
  <2>1. f + 1 \in 1 .. MaxFile + 1
    BY <1>3 DEF Migrations!File, MigrationsAssumption
  <2>2. Typing'
    BY <1>1, <1>6, <2>1, AdvanceTyped
  <2>3. Rest'
    BY <1>1, <1>2, <1>3, <1>6 DEF Rest
  <2> QED
    BY <1>1, <1>8, <2>2, <2>3, TypedKeep
<1>11. Position(r)'
  <2>1. \A g \in Migrations!File : g >= f + 1 => migrationsLedger'[g] = run[r].applied[g]
    BY <1>2, <1>3, <1>4, <1>7 DEF Position, Migrations!File, MigrationsAssumption
  <2>2. \A g \in Migrations!File : g < f + 1 => run[r].files[g] \in {0, migrationsLedger'[g]}
    <3> SUFFICES ASSUME NEW g \in Migrations!File, g < f + 1 PROVE run[r].files[g] \in {0, migrationsLedger'[g]}
      OBVIOUS
    <3>1. CASE g = f
      BY <1>7, <3>1
    <3>2. CASE g # f
      <4>1. g < f
        BY <1>3, <3>2 DEF Migrations!File, MigrationsAssumption
      <4>2. run[r].files[g] \in {0, migrationsLedger[g]}
        BY <1>2, <1>4, <4>1 DEF Position
      <4> QED
        BY <1>7, <3>2, <4>2
    <3> QED
      BY <3>1, <3>2
  <2>3. run[r].through = 0
    BY <1>2, <1>4 DEF Position
  <2> QED
    BY <1>8, <2>1, <2>2, <2>3 DEF Position, SameFiles
<1>12. Positions' /\ Held'
  BY <1>1, <1>8, <1>9, <1>11, OthersKeep
<1>13. MigrationsCounts'
  <2> SUFFICES ASSUME NEW g \in Migrations!File PROVE Counted(g)'
    BY DEF MigrationsCounts
  <2>1. Counted(g)
    BY <1>1 DEF MigrationsCounts
  <2>2. CASE g = f
    <3>1. executed[f].content = run[r].files[f] /\ run[r].files[f] # 0
      BY <1>2, <1>4 DEF Position
    <3> QED
      BY <1>2, <1>7, <2>1, <2>2, <3>1 DEF Counted
  <2>3. CASE g # f
    <3>1. \A s \in Runner : run[s].pc = "record" => run[s].at # g
      BY <1>1, <1>8, <1>9, <2>3, AloneInside DEF Migrations!Holding
    <3> QED
      BY <1>2, <1>7, <2>1, <2>3, <3>1 DEF Counted
  <2> QED
    BY <2>2, <2>3
<1> QED
  BY <1>10, <1>12, <1>13 DEF RunnerInv

LEMMA StepBaseline ==
    ASSUME MigrationsAssumption, RunnerInv, NEW r \in Runner, Migrations!runBaseline(r)
    PROVE RunnerInv'
<1> DEFINE f == run[r].at
<1>1. MigrationsTyped /\ Held /\ Positions /\ MigrationsCounts /\ Typing /\ Rest
  BY Parts
<1>2. run[r].pc = "baseline" /\ UNCHANGED <<holder, starts, migrationsFaults, executed>>
  BY DEF Migrations!runBaseline
<1>3. /\ f \in 1 .. MaxFile + 1 /\ run[r].through \in 0 .. MaxFile
      /\ run[r].files \in [Migrations!File -> Migrations!Content]
  BY <1>1, RunnerTypes
<1>4. run[r].pc \in Migrations!Holding /\ holder' = r
  BY <1>1, <1>2 DEF Held, Migrations!Holding
<1>5. CASE f > run[r].through
  <2>1. Migrations!Goto(r, "unlock") /\ UNCHANGED <<migrationsLedger, migrationsBy>>
    BY <1>5 DEF Migrations!runBaseline
  <2>2. Moves(r) /\ SameFiles(r) /\ run'[r].pc = "unlock"
    BY <1>1, <2>1, GotoMoves
  <2>3. Typing'
    BY <1>1, <2>1, GotoTyped
  <2>4. run[r].through # 0
    BY <1>1, <1>2 DEF Positions, Position
  <2>5. Position(r)'
    BY <2>2, <2>4 DEF Position, SameFiles
  <2> QED
    BY <1>2, <1>4, <2>1, <2>2, <2>3, <2>5, StepPlace
<1>6. CASE ~(f > run[r].through)
  <2>1. run' = [run EXCEPT ![r].at = f + 1]
    BY <1>6 DEF Migrations!runBaseline
  <2>2. Moves(r) /\ SameFiles(r) /\ run'[r].pc = "baseline" /\ run'[r].at = f + 1
    BY <1>1, <1>2, <2>1, SkipMoves
  <2>3. f \in Migrations!File /\ f + 1 \in 1 .. MaxFile + 1
    BY <1>3, <1>6 DEF Migrations!File, MigrationsAssumption
  <2>4. Typing'
    BY <1>1, <2>1, <2>3, SkipTyped
  <2>5. run[r].through # 0
    BY <1>1, <1>2 DEF Positions, Position
  <2>6. Position(r)'
    BY <2>2, <2>5 DEF Position, SameFiles
  <2>7. Positions' /\ Held'
    BY <1>1, <1>4, <2>2, <2>6, OthersKeep
  <2>8. CASE run[r].files[f] = 0
    <3>1. UNCHANGED <<migrationsLedger, migrationsBy>>
      BY <1>6, <2>8 DEF Migrations!runBaseline
    <3> QED
      BY <1>2, <1>4, <2>2, <2>4, <2>6, <3>1, StepPlace
  <2>9. CASE run[r].files[f] # 0
    <3>1. /\ migrationsLedger' = [migrationsLedger EXCEPT ![f] = run[r].files[f]]
          /\ migrationsBy' = [migrationsBy EXCEPT ![f] = "baseline"]
      BY <1>6, <2>9 DEF Migrations!runBaseline
    <3>2. /\ migrationsLedger'[f] = run[r].files[f] /\ migrationsBy'[f] = "baseline"
          /\ \A g \in Migrations!File : g # f => migrationsLedger'[g] = migrationsLedger[g] /\ migrationsBy'[g] = migrationsBy[g]
      BY <1>1, <2>3, <3>1 DEF Rest
    <3>3. Rest'
      BY <1>1, <1>2, <1>3, <2>3, <3>1 DEF Rest
    <3>4. MigrationsTyped'
      BY <1>1, <2>2, <2>4, <3>3, TypedKeep
    <3>5. ASSUME NEW g \in Migrations!File PROVE Counted(g)'
      <4>1. Counted(g)
        BY <1>1 DEF MigrationsCounts
      <4>2. \A s \in Runner : run[s].pc # "record"
        BY <1>1, <1>2, <1>4, <2>2, AloneInside DEF Migrations!Holding
      <4>3. CASE g = f
        BY <1>2, <2>9, <3>2, <4>1, <4>3 DEF Counted
      <4>4. CASE g # f
        BY <1>2, <3>2, <4>1, <4>2, <4>4 DEF Counted
      <4> QED
        BY <4>3, <4>4
    <3>6. MigrationsCounts'
      BY <3>5 DEF MigrationsCounts
    <3> QED
      BY <2>7, <3>4, <3>6 DEF RunnerInv
  <2> QED
    BY <2>8, <2>9
<1> QED
  BY <1>5, <1>6

LEMMA StepLose ==
    ASSUME MigrationsAssumption, RunnerInv, NEW r \in Runner, Migrations!Lose(r)
    PROVE RunnerInv'
<1>1. MigrationsTyped /\ Held /\ Positions /\ MigrationsCounts /\ Typing /\ Rest
  BY Parts
<1>2. /\ run[r].pc \in {"locked", "files", "sql", "record", "baseline", "unlock"}
      /\ migrationsFaults' = migrationsFaults + 1
      /\ UNCHANGED <<holder, migrationsLedger, starts, executed, migrationsBy>>
  BY DEF Migrations!Lose
<1>3. run[r].pc \in Migrations!Holding
  BY <1>2 DEF Migrations!Holding
<1>4. CASE run[r].pc # "sql"
  <2>1. Migrations!Goto(r, "lost")
    BY <1>4 DEF Migrations!Lose
  <2>2. Moves(r) /\ SameFiles(r) /\ run'[r].pc = "lost"
    BY <1>1, <2>1, GotoMoves
  <2>3. Typing'
    BY <1>1, <2>1, GotoTyped
  <2>4. Position(r)'
    BY <2>2 DEF Position
  <2> QED
    BY <1>2, <1>3, <2>2, <2>3, <2>4, StepPlace
<1>5. CASE run[r].pc = "sql"
  <2> DEFINE f == run[r].at
  <2>1. Migrations!Goto(r, "orphan")
    BY <1>5 DEF Migrations!Lose
  <2>2. Moves(r) /\ SameFiles(r) /\ run'[r].pc = "orphan" /\ run'[r].at = f
    BY <1>1, <2>1, GotoMoves
  <2>3. Typing'
    BY <1>1, <2>1, GotoTyped
  <2>4. f \in Migrations!File
    BY <1>1, <1>5, RunnerTypes
  <2>5. Position(r) /\ Counted(f)
    BY <1>1, <2>4 DEF Positions, MigrationsCounts
  <2>6. executed[f].times + 1 <= migrationsFaults'
    <3>1. migrationsLedger[f] = 0
      <4>1. f >= f
        BY <2>4 DEF Migrations!File, MigrationsAssumption
      <4> QED
        BY <1>5, <2>4, <2>5, <4>1 DEF Position
    <3>2. \A s \in Runner : run[s].pc # "record"
      BY <1>1, <1>3, <1>5, <2>2, AloneInside DEF Migrations!Holding
    <3>3. executed[f].times <= migrationsFaults
      BY <2>5, <3>1, <3>2 DEF Counted
    <3> QED
      BY <1>1, <1>2, <2>4, <3>3, Timed
  <2>7. Position(r)'
    BY <1>2, <1>5, <2>2, <2>5, <2>6 DEF Position, SameFiles
  <2> QED
    BY <1>2, <1>3, <1>5, <2>2, <2>3, <2>4, <2>7, StepPlace
<1> QED
  BY <1>4, <1>5

\* A session that gives the lock up leaves a count that needs nobody's record.
LEMMA StepUnlock ==
    ASSUME MigrationsAssumption, RunnerInv, NEW r \in Runner, Migrations!Unlock(r)
    PROVE RunnerInv'
<1>1. MigrationsTyped /\ Held /\ Positions /\ MigrationsCounts /\ Typing /\ Rest
  BY Parts
<1>2. UNCHANGED <<migrationsLedger, starts, migrationsFaults, executed, migrationsBy>>
  BY DEF Migrations!Unlock
<1>3. CASE run[r].pc = "unlock" /\ holder' = NoRunner /\ Migrations!Goto(r, "idle")
  <2>1. Moves(r) /\ SameFiles(r) /\ run'[r].pc = "idle"
    BY <1>1, <1>3, GotoMoves
  <2>2. MigrationsTyped'
    <3>1. Typing'
      BY <1>1, <1>3, GotoTyped
    <3>2. Rest'
      BY <1>1, <1>2, <1>3 DEF Rest
    <3> QED
      BY <1>1, <2>1, <3>1, <3>2, TypedKeep
  <2>3. run[r].pc \in Migrations!Holding
    BY <1>3 DEF Migrations!Holding
  <2>4. Position(r)'
    BY <2>1 DEF Position
  <2>5. run'[r].pc \notin Migrations!Holding
    BY <2>1 DEF Migrations!Holding
  <2>6. Positions' /\ Held'
    BY <1>1, <2>1, <2>3, <2>4, <2>5, OthersKeep
  <2>7. MigrationsCounts'
    BY <1>1, <1>2, <1>3, <2>1, <2>3, CountsKeep, Timed
  <2> QED
    BY <2>2, <2>6, <2>7 DEF RunnerInv
<1>4. CASE run[r].pc = "aborted" /\ UNCHANGED holder /\ Migrations!Goto(r, "lost")
  <2>1. Moves(r) /\ SameFiles(r) /\ run'[r].pc = "lost"
    BY <1>1, <1>4, GotoMoves
  <2>2. Typing'
    BY <1>1, <1>4, GotoTyped
  <2>3. Position(r)'
    BY <2>1 DEF Position
  <2>4. run[r].pc \in Migrations!Holding
    BY <1>4 DEF Migrations!Holding
  <2> QED
    BY <1>2, <1>4, <2>1, <2>2, <2>3, <2>4, StepPlace
<1> QED
  BY <1>3, <1>4 DEF Migrations!Unlock

LEMMA StepEnds ==
    ASSUME MigrationsAssumption, RunnerInv, NEW r \in Runner, Migrations!SessionEnds(r)
    PROVE RunnerInv'
<1> DEFINE f == run[r].at
<1>1. MigrationsTyped /\ Held /\ Positions /\ MigrationsCounts /\ Typing /\ Rest
  BY Parts
<1>2. /\ run[r].pc \in {"lost", "orphan"} /\ holder' = NoRunner /\ Migrations!Goto(r, "idle")
      /\ UNCHANGED <<migrationsLedger, starts, migrationsFaults, migrationsBy>>
  BY DEF Migrations!SessionEnds
<1>3. Moves(r) /\ SameFiles(r) /\ run'[r].pc = "idle"
  BY <1>1, <1>2, GotoMoves
<1>4. Typing'
  BY <1>1, <1>2, GotoTyped
<1>5. run[r].pc \in Migrations!Holding /\ run'[r].pc \notin Migrations!Holding
  BY <1>2, <1>3 DEF Migrations!Holding
<1>6. Position(r)'
  BY <1>3 DEF Position
<1>7. Positions' /\ Held'
  BY <1>1, <1>3, <1>5, <1>6, OthersKeep
<1>8. CASE UNCHANGED executed
  <2>1. Rest'
    BY <1>1, <1>2, <1>8 DEF Rest
  <2>2. MigrationsTyped'
    BY <1>1, <1>3, <1>4, <2>1, TypedKeep
  <2>3. MigrationsCounts'
    BY <1>1, <1>2, <1>3, <1>5, <1>8, CountsKeep, Timed
  <2> QED
    BY <1>7, <2>2, <2>3 DEF RunnerInv
<1>9. CASE run[r].pc = "orphan" /\ Migrations!Execute(f, run[r].files[f])
  <2>1. f \in Migrations!File /\ run[r].files[f] \in Migrations!Content
    BY <1>1, <1>9, RunnerTypes
  <2>2. /\ executed'[f].times = executed[f].times + 1
        /\ \A g \in Migrations!File : g # f => executed'[g] = executed[g]
        /\ executed' \in [Migrations!File -> [content : Migrations!Content, times : Nat]]
    BY <1>1, <1>9, <2>1, ExecuteFields, ExecuteTyped
  <2>3. Rest'
    BY <1>1, <1>2, <2>2 DEF Rest
  <2>4. MigrationsTyped'
    BY <1>1, <1>3, <1>4, <2>3, TypedKeep
  <2>5. migrationsLedger[f] = 0 /\ executed[f].times + 1 <= migrationsFaults
    <3>1. Position(r) /\ f >= f
      BY <1>1, <2>1 DEF Positions, Migrations!File, MigrationsAssumption
    <3> QED
      BY <1>9, <2>1, <3>1 DEF Position
  <2>6. ASSUME NEW g \in Migrations!File PROVE Counted(g)'
    <3>1. Counted(g)
      BY <1>1 DEF MigrationsCounts
    <3>2. \A s \in Runner : run[s].pc # "record"
      BY <1>1, <1>3, <1>5, <1>9, AloneInside DEF Migrations!Holding
    <3>3. CASE g = f
      <4>1. migrationsBy[g] = "nobody"
        BY <2>5, <3>1, <3>3 DEF Counted
      <4>2. executed'[g].times <= migrationsFaults /\ executed'[g].times <= 1 + migrationsFaults
        BY <1>1, <2>1, <2>2, <2>5, <3>3, Timed
      <4> QED
        BY <1>2, <4>1, <4>2 DEF Counted
    <3>4. CASE g # f
      BY <1>2, <2>2, <3>1, <3>2, <3>4 DEF Counted
    <3> QED
      BY <3>3, <3>4
  <2>7. MigrationsCounts'
    BY <2>6 DEF MigrationsCounts
  <2> QED
    BY <1>7, <2>4, <2>7 DEF RunnerInv
<1> QED
  BY <1>8, <1>9 DEF Migrations!SessionEnds

LEMMA StepIdle ==
    ASSUME RunnerInv, UNCHANGED Migrations!vars PROVE RunnerInv'
<1>1. MigrationsTyped /\ Held /\ Positions /\ MigrationsCounts
  BY DEF RunnerInv
<1> USE DEF Migrations!vars
<1>2. MigrationsTyped'
  BY <1>1 DEF MigrationsTyped, Migrations!TypeOK
<1>3. Held'
  BY <1>1 DEF Held
<1>4. Positions'
  BY <1>1 DEF Positions, Position
<1>5. MigrationsCounts'
  BY <1>1 DEF MigrationsCounts, Counted
<1> QED
  BY <1>2, <1>3, <1>4, <1>5 DEF RunnerInv

-----------------------------------------------------------------------------
(* The theorems. *)

\* The invariant of scripts/migrate.mjs: state has its type, whoever is inside the
\* lock is its holder, and ledger, files and executions hang together.
THEOREM RunnersKeep ==
    ASSUME MigrationsAssumption PROVE Migrations!Spec => []RunnerInv
<1>1. Migrations!Init => RunnerInv
  BY InitRunner
<1>2. RunnerInv /\ [Migrations!Next]_(Migrations!vars) => RunnerInv'
  <2> SUFFICES ASSUME RunnerInv, [Migrations!Next]_(Migrations!vars) PROVE RunnerInv'
    OBVIOUS
  <2>1. CASE UNCHANGED Migrations!vars
    BY <2>1, StepIdle
  <2>2. CASE Migrations!Next
    <3>1. PICK r \in Runner :
            \/ \E files \in Checkout, through \in 0 .. MaxFile : Migrations!Start(r, files, through)
            \/ Migrations!acquireMigrationLock(r) \/ Migrations!getAppliedMigrations(r) \/ Migrations!runMigrations(r)
            \/ Migrations!Executed(r) \/ Migrations!ExecutionFails(r) \/ Migrations!Record(r) \/ Migrations!Baseline(r) \/ Migrations!runBaseline(r)
            \/ Migrations!Unlock(r) \/ Migrations!Lose(r) \/ Migrations!SessionEnds(r)
      BY <2>2, Zenon DEF Migrations!Next
    <3>2. CASE \E files \in Checkout, through \in 0 .. MaxFile : Migrations!Start(r, files, through)
      BY <3>2, StepStart
    <3> QED
      BY <3>1, <3>2, StepLock, StepRead, StepNext, StepExecuted, StepFails, StepRecord,
         StepBaselineStarts, StepBaseline, StepUnlock, StepLose, StepEnds, Zenon
  <2> QED
    BY <2>1, <2>2
<1> QED
  BY <1>1, <1>2, PTL DEF Migrations!Spec

\* No two sessions are between lock and end at a time, be it only with a statement
\* that goes on when its runner is gone (withMigrationLock).
THEOREM RunnersOneAtATime ==
    ASSUME MigrationsAssumption PROVE Migrations!Spec => []Migrations!OneAtATime
<1>1. RunnerInv => Migrations!OneAtATime
  BY DEF RunnerInv, Held, Migrations!OneAtATime
<1> QED
  BY <1>1, RunnersKeep, PTL

\* What the ledger records of a run is what was executed last (runMigrations).
THEOREM RunnersLedgerExecuted ==
    ASSUME MigrationsAssumption PROVE Migrations!Spec => []Migrations!LedgerExecuted
<1>1. RunnerInv => Migrations!LedgerExecuted
  BY DEF RunnerInv, MigrationsCounts, Counted, Migrations!LedgerExecuted
<1> QED
  BY <1>1, RunnersKeep, PTL

\* After a run every file of its checkout is recorded as it is there (runMigrations).
THEOREM RunnersCompletedAsCheckout ==
    ASSUME MigrationsAssumption PROVE Migrations!Spec => []Migrations!CompletedAsCheckout
<1>1. RunnerInv => Migrations!CompletedAsCheckout
  <2> SUFFICES ASSUME RunnerInv, NEW r \in Runner, run[r].pc = "unlock", run[r].through = 0,
                      run[r].at > MaxFile, NEW f \in Migrations!File
               PROVE run[r].files[f] \in {0, migrationsLedger[f]}
    BY DEF Migrations!CompletedAsCheckout
  <2>1. Position(r) /\ run[r].at \in 1 .. MaxFile + 1
    BY RunnerTypes DEF RunnerInv, Positions
  <2>2. f < run[r].at
    BY <2>1 DEF Migrations!File, MigrationsAssumption
  <2> QED
    BY <2>1, <2>2 DEF Position
<1> QED
  BY <1>1, RunnersKeep, PTL

\* Every execution of a file but one stands for a loss (docs: reconcile first).
THEOREM RunnersAgainAfterLoss ==
    ASSUME MigrationsAssumption PROVE Migrations!Spec => []Migrations!AgainAfterLoss
<1>1. RunnerInv => Migrations!AgainAfterLoss
  BY DEF RunnerInv, MigrationsCounts, Counted, Migrations!AgainAfterLoss
<1> QED
  BY <1>1, RunnersKeep, PTL

\* The preflight's report on a ledger is what a run from it does (analyzeLedger).
THEOREM RunnersAsForeseen ==
    ASSUME MigrationsAssumption PROVE Migrations!Spec => []Migrations!PreflightForesees
<1>1. RunnerInv => Migrations!PreflightForesees
  <2> SUFFICES ASSUME RunnerInv, NEW r \in Runner, run[r].pc \in {"files", "sql"},
                      Migrations!Passes(run[r].files, run[r].applied)
               PROVE /\ run[r].at <= MaxFile =>
                            run[r].applied[run[r].at] \in {0, run[r].files[run[r].at]}
                     /\ run[r].pc = "sql" => \A f \in Migrations!File : f >= run[r].at => migrationsLedger[f] = 0
    BY DEF Migrations!PreflightForesees
  <2>1. Position(r) /\ run[r].at \in 1 .. MaxFile + 1
    BY RunnerTypes DEF RunnerInv, Positions
  <2>2. ASSUME run[r].at <= MaxFile
        PROVE run[r].applied[run[r].at] \in {0, run[r].files[run[r].at]}
    <3>1. run[r].at \in Migrations!File
      BY <2>1, <2>2 DEF Migrations!File, MigrationsAssumption
    <3> QED
      BY <3>1 DEF Migrations!Passes
  <2>3. ASSUME run[r].pc = "sql", NEW f \in Migrations!File,
               f >= run[r].at PROVE migrationsLedger[f] = 0
    <3>1. run[r].at \in Migrations!File
      BY <2>3, RunnerTypes DEF RunnerInv
    <3>2. /\ migrationsLedger[f] = run[r].applied[f] /\ run[r].files[run[r].at] # 0
          /\ run[r].applied[run[r].at] = 0
      BY <2>1, <2>3 DEF Position
    <3>3. f = run[r].at \/ run[r].at < f
      BY <2>3, <3>1 DEF Migrations!File, MigrationsAssumption
    <3> QED
      BY <3>1, <3>2, <3>3 DEF Migrations!Passes
  <2> QED
    BY <2>2, <2>3
<1> QED
  BY <1>1, RunnersKeep, PTL

\* Runners, ledger and files keep their types.
THEOREM RunnersTypeOK ==
    ASSUME MigrationsAssumption PROVE Migrations!Spec => []Migrations!TypeOK
<1>1. RunnerInv => Migrations!TypeOK
  BY Parts, TypedParts
<1> QED
  BY <1>1, RunnersKeep, PTL

=============================================================================

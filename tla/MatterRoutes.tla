---------------------------- MODULE MatterRoutes ----------------------------
(***************************************************************************)
(* The matter routes the BFF answers from its own database                 *)
(* (server/routes/v1/transfers.ts).  Every handler passes the same gates,  *)
(* but as separate statements on a pool: the ability check, the statement  *)
(* that authorizes the transfer, a second one for a party or context in    *)
(* the path, then the statements whose rows it sends.  Rows are committed  *)
(* by others in between.  One request is followed; requests do not share   *)
(* state, and a row only matters if this request may read it, so rows are  *)
(* inserted once it is known what it asks for.                             *)
(***************************************************************************)
EXTENDS FiniteSets, Naturals

CONSTANTS
    Inst,       \* accountable institutions
    Transfer,   \* ids of transfers, existing or not
    Malformed,  \* a path parameter that is no UUID
    Golden,     \* golden records
    NoGolden,   \* a client whose token carries none
    MaxRows     \* bound: child rows

VARIABLES
    owner,    \* transfers: the institution of every row that exists
    rows,     \* the rows that hang off a transfer, in whichever table
    request,  \* the request and how far its handler is
    answer    \* status and rows sent

vars == <<owner, rows, request, answer>>

None == "none"

\* Tables whose institution column the schema ties to the transfer (for a
\* relationship, to its party), and those where a row of another institution may
\* name the same transfer.
Anchored == {"documents", "financials", "estateContexts", "representatives", "relationships"}
Loose    == {"parties", "milestones", "activity", "properties", "matter"}
Table    == Anchored \cup Loose

Lists   == {"parties", "milestones", "activity", "documents", "financials",
            "estateContexts", "representatives", "properties"}
Items   == {"estateContext", "representative"}
OfParty == {"relationships"}
Forward == {"classifications", "list", "create", "patch", "attach", "documentWrite"}
Route   == {"detail"} \cup Lists \cup Items \cup OfParty \cup Forward

\* A client holds no ability and may lack the golden record it is known by.
Caller == [client: {TRUE}, inst: Inst, golden: Golden \cup {NoGolden}, read: {FALSE}]
          \cup [client: {FALSE}, inst: Inst, golden: {NoGolden}, read: BOOLEAN]

Row == [table: Table, transfer: Transfer, inst: Inst, who: Golden]

\* The party in a path, wherever it belongs; a relationship row carries the same.
Party(x) == [x EXCEPT !.table = "parties"]
Parameter(r) == IF r \in OfParty THEN {x \in Row : x.table = "parties"} ELSE {None}

NoRequest == [pc |-> "idle"]
Pending   == {"authorize", "party", "rows", "upstream"}
NoAnswer  == [status |-> 0, rows |-> {}]
Status    == {200, 403, 404, 500, 503}

TypeOK ==
    /\ owner \in [Transfer -> Inst \cup {None}]
    /\ rows \subseteq Row /\ Cardinality(rows) <= MaxRows
    /\ request # NoRequest =>
         /\ request.pc \in Pending \cup {"done"}
         /\ request.route \in Route /\ request.user \in Caller
         /\ request.id \in Transfer \cup {Malformed}
         /\ request.party \in Parameter(request.route)
    /\ answer # NoAnswer => answer.status \in Status /\ answer.rows \subseteq rows
    /\ answer # NoAnswer <=> request.pc = "done"

Init ==
    /\ owner = [t \in Transfer |-> None]
    /\ rows = {}
    /\ request = NoRequest
    /\ answer = NoAnswer

-----------------------------------------------------------------------------
(* What others commit meanwhile.                                            *)

CreateTransfer(t, i) ==
    /\ request.pc \in Pending /\ request.id = t /\ owner[t] = None
    /\ owner' = [owner EXCEPT ![t] = i]
    /\ UNCHANGED <<rows, request, answer>>

Reads(r) == {r} \cup (CASE r = "estateContext" -> {"estateContexts"}
                        [] r = "representative" -> {"representatives"}
                        [] r = "relationships" -> {"relationships", "parties"}
                        [] r = "detail" -> {"parties", "matter"}
                        [] OTHER -> {"parties"})

InsertRow(row) ==
    /\ request.pc \in Pending /\ row.table \in Reads(request.route)
    /\ owner[row.transfer] # None
    /\ row.table \in Anchored \ {"relationships"} => row.inst = owner[row.transfer]
    /\ row.table = "relationships" => Party(row) \in rows
    /\ Cardinality(rows) < MaxRows
    /\ rows' = rows \cup {row}
    /\ UNCHANGED <<owner, request, answer>>

-----------------------------------------------------------------------------
(* The gates.                                                               *)

\* What a handler answers before its first statement, 0 if it goes on.  Staff
\* surfaces hide from clients and need the documented ability.
StaffGate(u)  == IF u.client THEN 404 ELSE IF ~u.read THEN 403 ELSE 0

\* Matter and parties are open to clients, who hold no ability.
ClientGate(u) == IF ~u.client /\ ~u.read THEN 403 ELSE 0

\* A client's list is empty.
ListGate(u) == IF u.client THEN 200 ELSE IF ~u.read THEN 403 ELSE 0

\* Faulty variant: a client is asked to log in.
AskToLogIn(u) == IF u.client THEN 401 ELSE 0

\* Clients may not write; the document lane's writes are left to the service.
denyClientWrite(u) == IF u.client THEN 403 ELSE 0

Gate(r, u, id) ==
    CASE r \in {"detail", "parties"} -> ClientGate(u)
      [] r = "list" -> ListGate(u)
      [] r \in {"create", "patch", "attach"} ->
            IF r # "create" /\ ~u.client /\ id = Malformed THEN 404 ELSE denyClientWrite(u)
      [] r = "documentWrite" -> 0
      [] OTHER -> StaffGate(u)

\* Faulty variant: any transfer with this id.
authorizeTransferAnywhere(u, id) == id \in Transfer /\ owner[id] # None

\* Faulty variant: a client passes for every transfer of the institution.
authorizeTransferForStaff(u, id) == id \in Transfer /\ owner[id] = u.inst

\* Own institution; a client is a party besides.
authorizeTransfer(u, id) ==
    /\ id \in Transfer /\ owner[id] = u.inst
    /\ u.client => \E p \in rows : /\ p.table = "parties" /\ p.transfer = id
                                   /\ p.who = u.golden /\ p.inst = u.inst

Say(status, sent) ==
    /\ answer' = [status |-> status, rows |-> sent]
    /\ request' = [request EXCEPT !.pc = "done"]

Receive(r, u, id, party) ==
    /\ request = NoRequest
    /\ LET q == [pc |-> "idle", route |-> r, user |-> u, id |-> id, party |-> party]
           g == Gate(r, u, id)
       IN  \/ /\ g # 0
              /\ request' = [q EXCEPT !.pc = "done"]
              /\ answer' = [status |-> g, rows |-> {}]
           \/ /\ g = 0
              /\ request' = [q EXCEPT !.pc = IF r \in Forward THEN "upstream" ELSE "authorize"]
              /\ UNCHANGED answer
    /\ UNCHANGED <<owner, rows>>

Authorize ==
    /\ request.pc = "authorize"
    /\ \/ /\ ~authorizeTransfer(request.user, request.id)
          /\ Say(404, {})
       \/ /\ authorizeTransfer(request.user, request.id)
          /\ request' = [request EXCEPT !.pc = IF request.route \in OfParty THEN "party" ELSE "rows"]
          /\ UNCHANGED answer
    /\ UNCHANGED <<owner, rows>>

\* The second statement: the party of the path is one of this transfer and of the
\* caller's institution.
authorizeTransferParty(u, id, party) ==
    party \in rows /\ party.transfer = id /\ party.inst = u.inst

AuthorizeParty ==
    /\ request.pc = "party"
    /\ IF authorizeTransferParty(request.user, request.id, request.party)
       THEN request' = [request EXCEPT !.pc = "rows"] /\ UNCHANGED answer
       ELSE Say(404, {})
    /\ UNCHANGED <<owner, rows>>

-----------------------------------------------------------------------------
(* The statements whose rows are sent.                                      *)

Of(table, id) == {x \in rows : x.table = table /\ x.transfer = id}
OfInst(table, id, u) == {x \in Of(table, id) : x.inst = u.inst}

\* The matter rides along for staff only.
TransferDetail(u, id) == IF u.client THEN {} ELSE OfInst("matter", id, u)

\* Faulty variant: a client sees every party of the matter.
AllParties(u, id) == OfInst("parties", id, u)

\* A client sees the own row only.
Parties(u, id) ==
    {x \in OfInst("parties", id, u) : u.client => x.who = u.golden}

Milestones(u, id) == OfInst("milestones", id, u)
Activity(u, id)   == OfInst("activity", id, u)

\* Documents and financials are selected by the transfer alone.
Documents(u, id)  == Of("documents", id)
Financials(u, id) == Of("financials", id)

EstateContexts(u, id)  == OfInst("estateContexts", id, u)
Representatives(u, id) == OfInst("representatives", id, u)
Properties(u, id)      == OfInst("properties", id, u)

Listed(r, u, id) ==
    CASE r = "detail" -> TransferDetail(u, id)
      [] r = "parties" -> Parties(u, id)
      [] r = "milestones" -> Milestones(u, id)
      [] r = "activity" -> Activity(u, id)
      [] r = "documents" -> Documents(u, id)
      [] r = "financials" -> Financials(u, id)
      [] r = "estateContexts" -> EstateContexts(u, id)
      [] r = "representatives" -> Representatives(u, id)
      [] r = "properties" -> Properties(u, id)

\* Selected by the party alone.
PartyRelationships(party) == {x \in rows : x.table = "relationships" /\ Party(x) = party}

ReadRelationships ==
    /\ request.pc = "rows" /\ request.route \in OfParty
    /\ Say(200, PartyRelationships(request.party))
    /\ UNCHANGED <<owner, rows>>

ReadRows ==
    /\ request.pc = "rows" /\ request.route \notin Items \cup OfParty
    /\ Say(200, Listed(request.route, request.user, request.id))
    /\ UNCHANGED <<owner, rows>>

EstateContext(u, id)  == EstateContexts(u, id)
Representative(u, id) == Representatives(u, id)

\* An item of the path is looked up by its id, its transfer and the caller's
\* institution together.
ReadItem ==
    /\ request.pc = "rows" /\ request.route \in Items
    /\ LET all == IF request.route = "estateContext"
                  THEN EstateContext(request.user, request.id)
                  ELSE Representative(request.user, request.id)
       IN  \/ \E x \in all : Say(200, {x})
           \/ Say(404, {})
    /\ UNCHANGED <<owner, rows>>

\* The service answers; its failures, a timeout and no address are one 503.
proxyDeedly ==
    /\ request.pc = "upstream"
    /\ \E s \in {200, 403, 404, 503} : Say(s, {})
    /\ UNCHANGED <<owner, rows>>

\* A statement fails: asyncHandler hands the error to the error middleware.
QueryFails ==
    /\ request.pc \in {"authorize", "party", "rows"}
    /\ Say(500, {})
    /\ UNCHANGED <<owner, rows>>

Next ==
    \/ \E t \in Transfer, i \in Inst : CreateTransfer(t, i)
    \/ \E row \in Row : InsertRow(row)
    \/ \E r \in Route, u \in Caller, id \in Transfer \cup {Malformed} :
           \E party \in Parameter(r) : Receive(r, u, id, party)
    \/ Authorize \/ AuthorizeParty \/ ReadRows \/ ReadRelationships \/ ReadItem \/ proxyDeedly \/ QueryFails

Spec == Init /\ [][Next]_vars

-----------------------------------------------------------------------------
(* Properties.                                                              *)

\* Whatever is committed between the statements of a handler, the rows it
\* sends belong to a transfer of the caller's institution and carry no other
\* institution, and a client is sent no party but itself and no other row.
ReadIsolation ==
    \A x \in answer.rows :
        /\ owner[x.transfer] = request.user.inst /\ x.inst = request.user.inst
        /\ request.user.client => x.table = "parties" /\ x.who = request.user.golden

\* What the caller must not know of: no such transfer, one of another
\* institution, for a client one without it among the parties; and a party that is
\* not one of the transfer.
Hidden(q) ==
    \/ q.id = Malformed
    \/ owner[q.id] # q.user.inst
    \/ q.user.client /\ \A p \in Of("parties", q.id) : p.who # q.user.golden \/ p.inst # q.user.inst
    \/ /\ q.route \in OfParty
       /\ q.party \notin rows \/ q.party.transfer # q.id \/ q.party.inst # q.user.inst

\* "Existence is not revealed" (server/auth/policy.ts): the answer to a request
\* for a hidden transfer is the one for an id that does not exist, also when
\* the transfer or the party is created while the request runs.
ForeignLooksMissing ==
    request.pc = "done" /\ request.route \notin Forward /\ Hidden(request) =>
        LET g == Gate(request.route, request.user, Malformed)
        IN  answer.rows = {} /\ answer.status \in {500, IF g = 0 THEN 404 ELSE g}
=============================================================================

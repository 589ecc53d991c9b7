------------------------- MODULE PrototypeTransfers -------------------------
(***************************************************************************)
(* Creating, updating and deleting a transfer in the prototype routes      *)
(* (server/routes/transfers.ts).  Each request is one READ COMMITTED       *)
(* transaction of many statements; a transfer, its matter and its property *)
(* are rows of three tables, tied by foreign keys only in part             *)
(* (matters.source_record_id is text).  Other routes insert rows that hang *)
(* off a matter or a property meanwhile.  DELETE counts such rows in some  *)
(* tables (bonds, clearance records, accounts of the matter, ...) and lets *)
(* the foreign keys take those of the others along (generated documents,   *)
(* property links, cancellations, refunds, activity, ...).                 *)
(*                                                                         *)
(* At the start every transfer has the one matter that names it: migration *)
(* 012 refuses to run otherwise, and who inserts transfers since writes    *)
(* both in one transaction.  Its matter_id may still be missing, which the *)
(* former create path left out.                                            *)
(*                                                                         *)
(* Writes are published at the commit: the row locks keep every other      *)
(* writer away until then, and READ COMMITTED hides them.                  *)
(***************************************************************************)
EXTENDS FiniteSets, Naturals

CONSTANTS
    Request,    \* requests of the three handlers
    Child,      \* requests that insert one row under a matter or a property
    Transfer,   \* transfer references; nine digits of time and chance: none is drawn again
    Existing,   \* transfers of the initial state
    Matter,     \* ids of matters
    Property,   \* ids of properties
    matterOf,   \* the matter of each existing transfer
    propertyOf, \* its property
    MaxFaults   \* bound: commits that fail

VARIABLES
    transfers,  \* rows: state, property and matter
    matters,    \* rows: the transfer in source_record_id
    properties, \* rows: created_for_transfer_id
    children,   \* <<child, parent, kind>>: committed rows under a matter or a property
    req,        \* requests: pc, target and what they have read and locked
    faults

vars == <<transfers, matters, properties, children, req, faults>>

None   == "none"
Unused == "unused"

Fresh == [op |-> None, pc |-> "new", t |-> None, matter |-> None, property |-> None,
          holds |-> {}, drop |-> {}, updates |-> FALSE, answer |-> None]

\* The tables a row may be in: those DELETE counts, and the others.
Kind == {"counted", "cascading"}

Absent(state) == [row |-> state, matter |-> None, property |-> None]
Row(m, p)     == [row |-> "live", matter |-> m, property |-> p]

Live == {t \in Transfer : transfers[t].row = "live"}

TypeOK ==
    /\ transfers \in [Transfer -> {Absent(Unused), Absent("deleted")}
                                  \cup [row : {"live"}, matter : Matter \cup {None}, property : Property \cup {None}]]
    /\ matters \in [Matter -> Transfer \cup {None}]
    /\ properties \in [Property -> Transfer \cup {None, Unused}]
    /\ children \subseteq Child \X (Matter \cup Property) \X Kind
    /\ faults \in 0..MaxFaults
    /\ \A r \in Request \cup Child :
          /\ req[r].holds \subseteq Transfer \cup Matter \cup Property
          /\ req[r].drop \subseteq Matter \cup Property
          /\ req[r].t \in Transfer \cup {None}

Init ==
    /\ \E linked \in SUBSET Existing :
          transfers = [t \in Transfer |->
              IF t \notin Existing THEN Absent(Unused)
              ELSE Row(IF t \in linked THEN matterOf[t] ELSE None, propertyOf[t])]
    /\ matters = [m \in Matter |-> IF \E t \in Existing : matterOf[t] = m
                                   THEN CHOOSE t \in Existing : matterOf[t] = m ELSE None]
    /\ properties = [p \in Property |-> IF \E t \in Existing : propertyOf[t] = p
                                        THEN CHOOSE t \in Existing : propertyOf[t] = p ELSE Unused]
    /\ children = {}
    /\ req = [r \in Request \cup Child |-> Fresh]
    /\ faults = 0

-----------------------------------------------------------------------------
(* Transactions.  A request that is to lock a row another one holds waits.  *)

Holds(row) == {r \in Request \cup Child : row \in req[r].holds}
Free(r, row) == Holds(row) \subseteq {r}

At(r, op, pc) == req[r].op = op /\ req[r].pc = pc

\* The request goes on; the record says how its fields change.
Go(r, fields) == req' = [req EXCEPT ![r] = fields]

End(r, answer) == Go(r, [Fresh EXCEPT !.pc = "done", !.answer = answer])

tables == <<transfers, matters, properties, children>>

\* The process dies, or a statement or the commit fails: ROLLBACK, and the
\* error goes to the error middleware unless an answer has been sent.
Rollback(r) ==
    /\ req[r].op # None /\ req[r].pc # "done" /\ faults < MaxFaults
    /\ faults' = faults + 1
    /\ End(r, IF req[r].answer = None THEN "error" ELSE req[r].answer)
    /\ UNCHANGED tables

-----------------------------------------------------------------------------
(* POST: everything in one transaction that nobody else can see.            *)

\* generateUniqueTransferId: a reference no committed row has.
PostBegin(r, t) ==
    /\ req[r].pc = "new" /\ transfers[t].row = Unused
    /\ Go(r, [Fresh EXCEPT !.op = "post", !.pc = "insert", !.t = t])
    /\ UNCHANGED <<tables, faults>>

\* The unique index makes the second INSERT of a reference wait for the first.
PostInsert(r) ==
    /\ At(r, "post", "insert") /\ Free(r, req[r].t)
    /\ IF transfers[req[r].t].row = Unused
       THEN Go(r, [req[r] EXCEPT !.pc = "commit", !.holds = {req[r].t}])
       ELSE End(r, "error")
    /\ UNCHANGED <<tables, faults>>

NewId(S) == CHOOSE x \in S : TRUE

FreeMatters   == {m \in Matter : matters[m] = None /\ m \notin UNION {req[r].holds : r \in Request}}
FreeProperties == {p \in Property : properties[p] = Unused /\ p \notin UNION {req[r].holds : r \in Request}}

\* Property, transfer, financials, parties, matter, milestones and documents.
PostCommit(r) ==
    /\ At(r, "post", "commit") /\ FreeMatters # {} /\ FreeProperties # {}
    /\ LET m == NewId(FreeMatters)
           p == NewId(FreeProperties)
       IN  /\ transfers' = [transfers EXCEPT ![req[r].t] = Row(m, p)]
           /\ matters' = [matters EXCEPT ![m] = req[r].t]
           /\ properties' = [properties EXCEPT ![p] = req[r].t]
    /\ End(r, "created")
    /\ UNCHANGED <<children, faults>>

-----------------------------------------------------------------------------
(* PUT.                                                                     *)

\* The transfer is looked up before the transaction and without a lock.
\* `updates' says whether the body has a column of the transfer in it.
PutBegin(r, t, updates) ==
    /\ req[r].pc = "new" /\ transfers[t].row # Unused
    /\ IF t \in Live
       THEN Go(r, [Fresh EXCEPT !.op = "put", !.pc = IF updates THEN "update" ELSE "matter",
                                !.t = t, !.updates = updates])
       ELSE End(r, "404")
    /\ UNCHANGED <<tables, faults>>

\* UPDATE transfers, then the property of the body, if any: created when the
\* transfer has none, also when the UPDATE met no row.
PutUpdate(r) ==
    /\ At(r, "put", "update") /\ Free(r, req[r].t)
    /\ LET t == req[r].t
           own == IF t \in Live THEN transfers[t].property ELSE None
           held == IF t \in Live THEN {t} ELSE {}
       IN  \/ /\ own # None
              /\ Go(r, [req[r] EXCEPT !.pc = "property", !.holds = held, !.property = own])
           \/ /\ own = None /\ FreeProperties # {}
              /\ LET p == NewId(FreeProperties)
                 IN  Go(r, [req[r] EXCEPT !.pc = "matter", !.holds = held \cup {p}, !.property = p])
           \/ Go(r, [req[r] EXCEPT !.pc = "matter", !.holds = held, !.updates = FALSE])
    /\ UNCHANGED <<tables, faults>>

\* UPDATE properties of the row found.
PutProperty(r) ==
    /\ At(r, "put", "property") /\ Free(r, req[r].property)
    /\ Go(r, [req[r] EXCEPT !.pc = "matter", !.holds = @ \cup {req[r].property}])
    /\ UNCHANGED <<tables, faults>>

MattersOf(t) == {m \in Matter : matters[m] = t}

\* The matter that names the transfer, else a new one.
getOrCreateMatterForTransfer(r) ==
    /\ At(r, "put", "matter")
    /\ \/ \E m \in MattersOf(req[r].t) :
             Go(r, [req[r] EXCEPT !.pc = "link", !.matter = m])
       \/ /\ MattersOf(req[r].t) = {} /\ FreeMatters # {}
          /\ LET m == NewId(FreeMatters)
             IN  Go(r, [req[r] EXCEPT !.pc = "link", !.matter = m, !.holds = @ \cup {m}])
    /\ UNCHANGED <<tables, faults>>

\* Faulty variant: a missing final row is mapped like any other.
FinalRowOptional(r) == TRUE

\* The UPDATE of matter_id waits for a DELETE, then meets no row; reading the
\* final row is what notices (mapTransferRow of undefined throws).
FinalRowRead(r) == req[r].t \in Live

PutCommit(r) ==
    /\ At(r, "put", "link") /\ Free(r, req[r].t)
    /\ IF FinalRowRead(r)
       THEN /\ transfers' = IF req[r].t \in Live
                            THEN [transfers EXCEPT ![req[r].t].matter = req[r].matter,
                                     ![req[r].t].property = IF req[r].updates THEN req[r].property ELSE @]
                            ELSE transfers
            /\ matters' = [matters EXCEPT ![req[r].matter] = req[r].t]
            /\ properties' = IF req[r].updates /\ properties[req[r].property] = Unused
                             THEN [properties EXCEPT ![req[r].property] = None] ELSE properties
            /\ End(r, "updated")
       ELSE End(r, "error") /\ UNCHANGED <<transfers, matters, properties>>
    /\ UNCHANGED <<children, faults>>

-----------------------------------------------------------------------------
(* DELETE.                                                                  *)

DeleteBegin(r, t) ==
    /\ req[r].pc = "new" /\ transfers[t].row # Unused
    /\ Go(r, [Fresh EXCEPT !.op = "delete", !.pc = "lock", !.t = t])
    /\ UNCHANGED <<tables, faults>>

\* SELECT ... FOR UPDATE and the DELETE; the one matter, if it is one.
DeleteLock(r) ==
    /\ At(r, "delete", "lock") /\ Free(r, req[r].t)
    /\ LET t == req[r].t
           ms == MattersOf(t)
       IN  IF t \notin Live THEN End(r, "404")
           ELSE Go(r, [req[r] EXCEPT
                  !.holds = {t}, !.property = transfers[t].property,
                  !.matter = IF Cardinality(ms) = 1 THEN NewId(ms) ELSE None,
                  !.pc = IF Cardinality(ms) = 1 THEN "matterLock" ELSE "propertyLock"])
    /\ UNCHANGED <<tables, faults>>

\* Faulty variant: the row is read without FOR UPDATE.
ReadParent(r, row) == TRUE

\* A row inserted under a parent keeps the parent's key locked until its
\* transaction ends, so FOR UPDATE waits for it.
LockParent(r, row) == Free(r, row)

DeleteLockMatter(r) ==
    /\ At(r, "delete", "matterLock") /\ LockParent(r, req[r].matter)
    /\ Go(r, [req[r] EXCEPT !.pc = "matterCount", !.holds = @ \cup {req[r].matter}])
    /\ UNCHANGED <<tables, faults>>

\* Only the tables that are counted.
HasChild(parent) == \E c \in Child : <<c, parent, "counted">> \in children

\* The matter goes unless another transfer names it or a blocking row hangs off it.
DeleteMatter(r) ==
    /\ At(r, "delete", "matterCount")
    /\ LET m == req[r].matter
           others == {t \in Live \ {req[r].t} : transfers[t].matter = m}
       IN  Go(r, [req[r] EXCEPT !.pc = "propertyLock",
                     !.drop = IF others = {} /\ ~HasChild(m) THEN {m} ELSE {}])
    /\ UNCHANGED <<tables, faults>>

DeleteLockProperty(r) ==
    /\ At(r, "delete", "propertyLock")
    /\ \/ /\ req[r].property # None /\ LockParent(r, req[r].property)
          /\ Go(r, [req[r] EXCEPT !.pc = "propertyCount", !.holds = @ \cup {req[r].property}])
       \/ /\ req[r].property = None
          /\ Go(r, [req[r] EXCEPT !.pc = "answer"])
    /\ UNCHANGED <<tables, faults>>

\* The property goes only if this transfer's creation made it and nothing else
\* refers to it.
DeleteProperty(r) ==
    /\ At(r, "delete", "propertyCount")
    /\ LET p == req[r].property
           others == {t \in Live \ {req[r].t} : transfers[t].property = p}
           gone == properties[p] = req[r].t /\ others = {} /\ ~HasChild(p)
       IN  Go(r, [req[r] EXCEPT !.pc = "answer",
                     !.drop = @ \cup (IF gone THEN {p} ELSE {})])
    /\ UNCHANGED <<tables, faults>>

\* The answer is sent inside the transaction, before its COMMIT.
DeleteAnswer(r) ==
    /\ At(r, "delete", "answer")
    /\ Go(r, [req[r] EXCEPT !.pc = "commit", !.answer = "deleted"])
    /\ UNCHANGED <<tables, faults>>

\* Foreign keys: rows under a deleted matter or property go with it, counted or not.
DeleteCommit(r) ==
    /\ At(r, "delete", "commit")
    /\ transfers' = [transfers EXCEPT ![req[r].t] = Absent("deleted")]
    /\ matters' = [m \in Matter |-> IF m \in req[r].drop THEN None ELSE matters[m]]
    /\ properties' = [p \in Property |-> IF p \in req[r].drop THEN Unused ELSE properties[p]]
    /\ children' = {c \in children : c[2] \notin req[r].drop}
    /\ End(r, "deleted")
    /\ UNCHANGED faults

-----------------------------------------------------------------------------
(* Other routes insert a row under a matter or a property.                  *)

Parents == {m \in Matter : matters[m] # None} \cup {p \in Property : properties[p] # Unused}

\* The foreign key waits for whoever has the parent FOR UPDATE.
Locked(parent) == \E r \in Request : req[r].op = "delete" /\ parent \in req[r].holds

InsertChild(c, parent, kind) ==
    /\ req[c].pc = "new" /\ parent \in Parents /\ ~Locked(parent)
    /\ Go(c, [Fresh EXCEPT !.op = kind, !.pc = "commit", !.holds = {parent}])
    /\ UNCHANGED <<tables, faults>>

CommitChild(c) ==
    /\ req[c].op \in Kind /\ req[c].pc = "commit"
    /\ children' = children \cup {<<c, parent, req[c].op>> : parent \in req[c].holds}
    /\ End(c, "created")
    /\ UNCHANGED <<transfers, matters, properties, faults>>

\* A generated document names its matter by the transfer, which it looks up in a
\* statement of its own, as it does the matter.
DocumentBegin(c, t) ==
    /\ req[c].pc = "new" /\ transfers[t].row # Unused
    /\ IF t \in Live THEN Go(c, [Fresh EXCEPT !.op = "document", !.pc = "matter", !.t = t])
                     ELSE End(c, "error")
    /\ UNCHANGED <<tables, faults>>

\* A transfer without a matter is to get one, but that INSERT names no
\* institution, and since migration 012 the column takes no NULL: it fails.
resolveMatterIdForTransferReference(c) ==
    /\ At(c, "document", "matter")
    /\ IF MattersOf(req[c].t) = {} THEN End(c, "error")
       ELSE \E m \in MattersOf(req[c].t) : Go(c, [req[c] EXCEPT !.pc = "insert", !.matter = m])
    /\ UNCHANGED <<tables, faults>>

\* The row itself, in a transaction; its matter may have gone meanwhile.
DocumentInsert(c) ==
    /\ At(c, "document", "insert") /\ ~Locked(req[c].matter)
    /\ IF req[c].matter \in Parents
       THEN Go(c, [Fresh EXCEPT !.op = "cascading", !.pc = "commit", !.holds = {req[c].matter}])
       ELSE End(c, "error")
    /\ UNCHANGED <<tables, faults>>

Next ==
    \/ \E r \in Request :
         \/ Rollback(r)
         \/ \E t \in Transfer :
              PostBegin(r, t) \/ DeleteBegin(r, t) \/ \E u \in BOOLEAN : PutBegin(r, t, u)
         \/ PostInsert(r) \/ PostCommit(r)
         \/ PutUpdate(r) \/ PutProperty(r) \/ getOrCreateMatterForTransfer(r) \/ PutCommit(r)
         \/ DeleteLock(r) \/ DeleteLockMatter(r) \/ DeleteMatter(r)
         \/ DeleteLockProperty(r) \/ DeleteProperty(r) \/ DeleteAnswer(r) \/ DeleteCommit(r)
    \/ \E c \in Child :
         \/ \E p \in Matter \cup Property, kind \in Kind : InsertChild(c, p, kind)
         \/ CommitChild(c)
         \/ \E t \in Transfer : DocumentBegin(c, t)
         \/ resolveMatterIdForTransferReference(c) \/ DocumentInsert(c)

Spec == Init /\ [][Next]_vars

-----------------------------------------------------------------------------
(* Properties.                                                              *)

\* Transfers and matters stay paired, although no foreign key says so, under
\* any interleaving of creation, update, deletion and documents: one matter names
\* a transfer as its source, the transfer's own link, where it has one, leads
\* there, and a matter without its transfer is one that a deletion kept for the
\* counted rows that hang off it.
MatterOfTransfer ==
    /\ \A t \in Live : \E m \in Matter : MattersOf(t) = {m} /\ transfers[t].matter \in {m, None}
    /\ \A m \in Matter : matters[m] \notin Live \cup {None} => HasChild(m)

\* A deletion never takes along a row that another route inserted meanwhile into
\* a table it counts, and leaves no row of any table whose parent is gone.
KeepsChildren ==
    /\ \A c \in children : c[3] = "counted" => c \in children'
    /\ \A c \in children' : c[2] \in Parents'

\* The same of every step.
ChildrenSurvive == [][KeepsChildren]_vars
=============================================================================
